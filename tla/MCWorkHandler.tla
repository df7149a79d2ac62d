---------------------------- MODULE MCWorkHandler ----------------------------
(***************************************************************************)
(* WorkHandler with small sets of requests, hashes and devices.  Each      *)
(* configuration picks one of the operation sets below.                    *)
(***************************************************************************)
EXTENDS WorkHandler, TLC

CONSTANTS r1, r2, r3, r4, w1, w2, w3, h1, h2

Ask(kind, hash, priority) == [kind |-> kind, hash |-> hash, priority |-> priority]

\* Work for two hashes at two priorities, cancelled, cleared and listed.
AllOperations ==
    {Ask("generate", h1, 0), Ask("generate", h2, 1), Ask("generate", BadHash, 0),
     Ask("validate", h1, 0), Ask("validate", BadHash, 0), Ask("invalid", BadHash, 0),
     Ask("cancel", h1, 0), Ask("cancel", BadHash, 0),
     Ask("queue", BadHash, 0), Ask("clear", BadHash, 0)}

\* Work for one hash, cancelled and listed.
QueueOperations ==
    {Ask("generate", h1, 0), Ask("cancel", h1, 0), Ask("queue", BadHash, 0)}

\* Work for two hashes, at the same priority.
PlainOperations == {Ask("generate", h1, 0), Ask("generate", h2, 0)}

Symmetric == Permutations(Requests) \cup Permutations(Workers)
===============================================================================
