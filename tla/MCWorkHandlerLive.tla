--------------------------- MODULE MCWorkHandlerLive ---------------------------
(***************************************************************************)
(* Progress of a server with devices, and of one configured without any    *)
(* and without the right to clear the queue: its pool has no threads.      *)
(***************************************************************************)
EXTENDS MCWorkHandler

VARIABLE devices   \* whether the server has devices

Bare == INSTANCE WorkHandler WITH
    Workers <- {}, NumDevices <- 0, AllowControl <- FALSE, Operations <- AllOperations

LiveInit ==
    \/ devices = "configured" /\ Init
    \/ devices = "none" /\ Bare!Init

LiveNext ==
    /\ \/ devices = "configured" /\ Next
       \/ devices = "none" /\ Bare!Next
    /\ UNCHANGED devices

LiveSpec ==
    /\ LiveInit /\ [][LiveNext]_<<vars, devices>>
    /\ \A r \in Requests :
          WF_vars(\/ devices = "configured" /\ RequestStep(r)
                  \/ devices = "none" /\ Bare!RequestStep(r))
    /\ \A w \in Workers : WF_vars(devices = "configured" /\ WorkerStep(w))
===============================================================================
