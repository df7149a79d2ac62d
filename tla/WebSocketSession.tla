--------------------------- MODULE WebSocketSession ---------------------------
(***************************************************************************)
(* One websocket_session, from do_accept on: a read loop, a queue of       *)
(* outgoing messages, and a timer that pings a silent peer once and then   *)
(* closes the connection.                                                  *)
(*                                                                         *)
(* All of it runs in the session's strand, one handler at a time.  Only    *)
(* write_response is called from other threads, and it posts what it has   *)
(* to do to the strand.                                                    *)
(*                                                                         *)
(* A write may have to wait: for room in the socket's buffer, or for a     *)
(* ping under way.  The buffer it was given is that of a local string of   *)
(* write_queued_messages, gone by then, so what the peer receives of a     *)
(* message that waited may be anything (Garbled).                          *)
(***************************************************************************)
EXTENDS Integers, Sequences, FiniteSets, Functions

CONSTANTS
    MaxRequests,   \* bound on the messages of the peer
    MaxPings,      \* bound on the pings under way when the time for one more comes
    Garbled        \* a message whose bytes are not those that were to be sent

ASSUME WebSocketSessionAssumption ==
    /\ MaxRequests \in Nat
    /\ MaxPings \in Nat \ {0}
    /\ Garbled \notin 1 .. MaxRequests

VARIABLES
    link,        \* up, lost, closed by the peer's close frame, or shut by the timer
    is_open,     \* ws_.is_open ()
    reading,     \* the handshake or the read under way: accept, read or none
    nread,       \* how many messages have been read; a message is its number

    working,     \* those the work_handler has yet to answer
    responses,   \* the calls of write_response, in their order
    posted,      \* lambdas posted to the strand by write_response, not yet run
    send_queue,  \* send_queue_
    writing,     \* messages in async_write operations under way
    written,     \* those whose completion handler is still to run
    delivered,   \* what the peer has received

    ping_state,  \* 0 none, 1 being sent, 2 sent
    pings,       \* async_ping operations under way
    expired,     \* timer_.expiry () has passed
    wait,        \* the wait on the timer: pending, or its handler queued, or none
    quiet        \* deadlines that passed since the peer was last heard of (at most 2)

writeVars == <<responses, posted, send_queue, writing, written, delivered>>
timerVars == <<ping_state, expired, wait, quiet>>
vars == <<link, is_open, reading, nread, working, writeVars, pings, timerVars>>

(***************************************************************************)
(* do_accept: on_timer has begun to wait, and setting the deadline has     *)
(* cancelled that wait, so that its handler is queued.                     *)
(***************************************************************************)
Init ==
    /\ link = "up"
    /\ is_open = FALSE
    /\ reading = "accept"
    /\ nread = 0
    /\ working = {}
    /\ responses = <<>>
    /\ posted = <<>>
    /\ send_queue = <<>>
    /\ writing = <<>>
    /\ written = <<>>
    /\ delivered = <<>>
    /\ ping_state = 0
    /\ pings = 0
    /\ expired = FALSE
    /\ wait = "queued"
    /\ quiet = 0

-------------------------------------------------------------------------------
(* The connection breaks; operations on it fail when they notice. *)
Lost ==
    /\ link = "up"
    /\ link' = "lost"
    /\ UNCHANGED <<is_open, reading, nread, working, writeVars, pings, timerVars>>

(* on_accept *)
Accept ==
    /\ reading = "accept"
    /\ link = "up"
    /\ is_open' = TRUE
    /\ reading' = "read"
    /\ UNCHANGED <<link, nread, working, writeVars, pings, timerVars>>

\* expires_after: a pending wait is cancelled, which queues its handler.
SetDeadline ==
    /\ expired' = FALSE
    /\ wait' = IF wait = "pending" THEN "queued" ELSE wait

(* Faulty variant: hearing from the peer moves the deadline only. *)
activityKeepingState ==
    /\ ping_state' = ping_state
    /\ SetDeadline
    /\ quiet' = 0

activity ==
    /\ ping_state' = 0
    /\ SetDeadline
    /\ quiet' = 0

(* on_read of a message, which goes to the work_handler; then the next read. *)
ReadMessage ==
    /\ reading = "read"
    /\ link = "up"
    /\ nread < MaxRequests
    /\ nread' = nread + 1
    /\ working' = working \cup {nread'}
    /\ activity
    /\ UNCHANGED <<link, is_open, reading, writeVars, pings>>

(* A ping or a pong of the peer, seen by the read under way. *)
ReadControl ==
    /\ reading = "read"
    /\ link = "up"
    /\ activity
    /\ UNCHANGED <<link, is_open, reading, nread, working, writeVars, pings>>

(* The peer's close frame: it counts as activity, and ends the read loop. *)
ReadClose ==
    /\ reading = "read"
    /\ link = "up"
    /\ link' = "closed"
    /\ is_open' = FALSE
    /\ reading' = "none"
    /\ activity
    /\ UNCHANGED <<nread, working, writeVars, pings>>

(* The handshake or a read fails. *)
ReadFails ==
    /\ reading # "none"
    /\ link # "up" \/ reading = "accept"
    /\ is_open' = FALSE
    /\ reading' = "none"
    /\ UNCHANGED <<link, nread, working, writeVars, pings, timerVars>>

-------------------------------------------------------------------------------
(* write_response, called with the answer to a message. *)
write_response(n) ==
    /\ n \in working
    /\ working' = working \ {n}
    /\ responses' = Append(responses, n)
    /\ posted' = Append(posted, n)
    /\ UNCHANGED <<link, is_open, reading, nread, send_queue, writing, written, delivered,
                   pings, timerVars>>

(* Faulty variant: every message is written at once. *)
EnqueueAndWrite ==
    /\ posted # <<>>
    /\ posted' = Tail(posted)
    /\ send_queue' = Append(send_queue, Head(posted))
    /\ writing' = Append(writing, Head(send_queue'))
    /\ UNCHANGED <<link, is_open, reading, nread, working, responses, written, delivered,
                   pings, timerVars>>

(* The posted lambda: the first message in the queue is written at once. *)
Enqueue ==
    /\ posted # <<>>
    /\ posted' = Tail(posted)
    /\ send_queue' = Append(send_queue, Head(posted))
    /\ writing' = IF send_queue = <<>> THEN Append(writing, Head(posted)) ELSE writing
    /\ UNCHANGED <<link, is_open, reading, nread, working, responses, written, delivered,
                   pings, timerVars>>

(* A write succeeds, though on a lost connection it never reaches the peer. *)
Sent ==
    /\ writing # <<>>
    /\ is_open
    /\ link \in {"up", "lost"}
    /\ \E received \in {Head(writing), Garbled} :
          delivered' = IF link = "up" THEN Append(delivered, received) ELSE delivered
    /\ written' = Append(written, Head(writing))
    /\ writing' = Tail(writing)
    /\ UNCHANGED <<link, is_open, reading, nread, working, responses, posted, send_queue,
                   pings, timerVars>>

(* Faulty variant: the next message is left for the one after it to start. *)
OnWrittenAndWait ==
    /\ written # <<>>
    /\ written' = Tail(written)
    /\ send_queue' = Tail(send_queue)
    /\ UNCHANGED <<link, is_open, reading, nread, working, responses, posted, writing,
                   delivered, pings, timerVars>>

(* Faulty variant: the next write is started before the message is popped. *)
OnWrittenPoppingLate ==
    /\ written # <<>>
    /\ written' = Tail(written)
    /\ send_queue' = Tail(send_queue)
    /\ writing' = IF send_queue' # <<>> THEN Append(writing, Head(send_queue)) ELSE writing
    /\ UNCHANGED <<link, is_open, reading, nread, working, responses, posted, delivered,
                   pings, timerVars>>

(* The completion handler after a write that succeeded. *)
OnWritten ==
    /\ written # <<>>
    /\ written' = Tail(written)
    /\ send_queue' = Tail(send_queue)
    /\ writing' = IF send_queue' # <<>> THEN Append(writing, Head(send_queue')) ELSE writing
    /\ UNCHANGED <<link, is_open, reading, nread, working, responses, posted, delivered,
                   pings, timerVars>>

(* The completion handler after one that failed: no other message is started. *)
SendFails ==
    /\ writing # <<>>
    /\ link # "up" \/ ~is_open
    /\ is_open' = FALSE
    /\ writing' = Tail(writing)
    /\ send_queue' = Tail(send_queue)
    /\ UNCHANGED <<link, reading, nread, working, responses, posted, written, delivered,
                   pings, timerVars>>

-------------------------------------------------------------------------------
(***************************************************************************)
(* Fifteen seconds have passed since the deadline was set.  While the peer *)
(* is being heard, the model lets no more than MaxPings pings pile up.     *)
(***************************************************************************)
DeadlinePasses ==
    /\ ~expired
    /\ quiet = 0 => pings < MaxPings
    /\ expired' = TRUE
    /\ wait' = IF wait = "pending" THEN "queued" ELSE wait
    /\ quiet' = IF quiet < 2 THEN quiet + 1 ELSE quiet
    /\ UNCHANGED <<link, is_open, reading, nread, working, writeVars, pings, ping_state>>

(* Faulty variant: a wait that was cancelled is not started again. *)
on_timerOnce ==
    /\ wait = "queued"
    /\ IF ~expired
       THEN wait' = "none" /\ UNCHANGED <<link, ping_state, pings, expired>>
       ELSE IF is_open /\ ping_state = 0
       THEN /\ ping_state' = 1
            /\ pings' = pings + 1
            /\ expired' = FALSE
            /\ wait' = "pending"
            /\ UNCHANGED link
       ELSE /\ link' = "shut"
            /\ wait' = "none"
            /\ UNCHANGED <<ping_state, pings, expired>>
    /\ UNCHANGED <<is_open, reading, nread, working, writeVars, quiet>>

(* on_timer: the peer is pinged, the connection closed, or the wait renewed. *)
on_timer ==
    /\ wait = "queued"
    /\ IF ~expired
       THEN wait' = "pending" /\ UNCHANGED <<link, ping_state, pings, expired>>
       ELSE IF is_open /\ ping_state = 0
       THEN /\ ping_state' = 1
            /\ pings' = pings + 1
            /\ expired' = FALSE
            /\ wait' = "pending"
            /\ UNCHANGED link
       ELSE /\ link' = "shut"
            /\ wait' = "none"
            /\ UNCHANGED <<ping_state, pings, expired>>
    /\ UNCHANGED <<is_open, reading, nread, working, writeVars, quiet>>

(* Faulty variant: the states are counted through. *)
on_pingCounting ==
    /\ pings > 0
    /\ pings' = pings - 1
    /\ IF link = "up" /\ is_open
       THEN ping_state' = ping_state + 1 /\ UNCHANGED is_open
       ELSE is_open' = FALSE /\ UNCHANGED ping_state
    /\ UNCHANGED <<link, reading, nread, working, writeVars, expired, wait, quiet>>

(* on_ping, after a ping that was sent or that failed. *)
on_ping ==
    /\ pings > 0
    /\ pings' = pings - 1
    /\ IF link = "up" /\ is_open
       THEN ping_state' = (IF ping_state = 1 THEN 2 ELSE ping_state) /\ UNCHANGED is_open
       ELSE is_open' = FALSE /\ UNCHANGED ping_state
    /\ UNCHANGED <<link, reading, nread, working, writeVars, expired, wait, quiet>>

-------------------------------------------------------------------------------
Write == Sent \/ SendFails

Next ==
    \/ Lost
    \/ Accept
    \/ ReadMessage
    \/ ReadControl
    \/ ReadClose
    \/ ReadFails
    \/ \E n \in 1 .. MaxRequests : write_response(n)
    \/ Enqueue
    \/ Write
    \/ OnWritten
    \/ DeadlinePasses
    \/ on_timer
    \/ on_ping

Spec == Init /\ [][Next]_vars

(***************************************************************************)
(* Time passes, handlers that are queued run, and the peer takes what it   *)
(* is sent in the end.  It owes no message, and no answer to a ping.       *)
(***************************************************************************)
FairSpec ==
    /\ Spec
    /\ WF_vars(DeadlinePasses) /\ WF_vars(on_timer)
    /\ WF_vars(Enqueue) /\ WF_vars(Write) /\ WF_vars(OnWritten)

-------------------------------------------------------------------------------
(* Every variable has its type. *)
TypeOK ==
    /\ link \in {"up", "lost", "closed", "shut"}
    /\ is_open \in BOOLEAN
    /\ reading \in {"accept", "read", "none"}
    /\ nread \in 0 .. MaxRequests
    /\ working \subseteq 1 .. nread
    /\ responses \in Seq(1 .. MaxRequests)
    /\ posted \in Seq(1 .. MaxRequests)
    /\ send_queue \in Seq(1 .. MaxRequests)
    /\ writing \in Seq(1 .. MaxRequests)
    /\ written \in Seq(1 .. MaxRequests)
    /\ delivered \in Seq(1 .. MaxRequests \cup {Garbled})
    /\ ping_state \in 0 .. 2
    /\ pings \in Nat
    /\ expired \in BOOLEAN
    /\ wait \in {"pending", "queued", "none"}
    /\ quiet \in 0 .. 2

(***************************************************************************)
(* The stream allows one async_write at a time: it is for the message at   *)
(* the front, which stays in the queue until its handler has run.          *)
(***************************************************************************)
OneWriteAtATime ==
    writing \o written = (IF writing \o written = <<>> THEN <<>> ELSE <<Head(send_queue)>>)

(***************************************************************************)
(* The peer receives the responses in the order in which write_response    *)
(* was called, from whatever threads, each once and none left out.         *)
(***************************************************************************)
Channel == INSTANCE OrderedDelivery WITH
    given <- responses, received <- delivered,
    Messages <- 1 .. MaxRequests, Damaged <- {Garbled}

DeliveredInOrder == Channel!Spec

(***************************************************************************)
(* The timer does not close a connection whose peer has been heard of      *)
(* within the last two deadlines, unless the stream is closed already or   *)
(* was never accepted.                                                     *)
(***************************************************************************)
LivePeerKept == [][link' = "shut" /\ link # "shut" => quiet = 2 \/ ~is_open]_vars

(***************************************************************************)
(* "We sent a ping and it never completed [...] so close": no ping is      *)
(* started while another one has not completed.                            *)
(***************************************************************************)
OnePingAtATime == pings <= 1

(* Every response is sent, or the connection ends. *)
EveryResponseSent ==
    \A i \in 1 .. MaxRequests : Len(responses) >= i ~> Len(delivered) >= i \/ link # "up"

(* A peer that falls silent for a deadline is heard of again or disconnected. *)
SilentPeerClosed == quiet >= 1 ~> quiet = 0 \/ link = "shut"
===============================================================================
