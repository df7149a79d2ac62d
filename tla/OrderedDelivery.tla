---------------------------- MODULE OrderedDelivery ----------------------------
(***************************************************************************)
(* A channel that delivers what is given to it in order, each message once *)
(* and none left out, until it ends.  A message may arrive Damaged.        *)
(***************************************************************************)
EXTENDS Integers, Sequences

CONSTANTS
    Messages,
    Damaged    \* what may arrive in the place of a message

VARIABLES
    given,     \* the messages in the order they were given to the channel
    received   \* what has come out of it

channel == <<given, received>>

Init == given = <<>> /\ received = <<>>

Give ==
    /\ \E m \in Messages : given' = Append(given, m)
    /\ UNCHANGED received

Receive ==
    /\ Len(received) < Len(given)
    /\ \E m \in {given[Len(received) + 1]} \cup Damaged : received' = Append(received, m)
    /\ UNCHANGED given

Next == Give \/ Receive

Spec == Init /\ [][Next]_channel
===============================================================================
