------------------------ MODULE WebSocketSession_proofs ------------------------
(***************************************************************************)
(* Proofs about WebSocketSession, for any number of messages and pings:    *)
(* one write at a time, responses that arrive in their order, and a timer  *)
(* that spares a peer that is being heard.                                 *)
(***************************************************************************)
EXTENDS WebSocketSession, SequenceTheorems, TLAPS

(***************************************************************************)
(* A write is for the message at the front of the queue, and there is at   *)
(* most one, counting the one whose completion handler is still to run.    *)
(* The queue may hold messages although nothing is being written: after a  *)
(* write that failed.                                                      *)
(***************************************************************************)
WriteInv ==
    /\ Len(writing) + Len(written) <= 1
    /\ writing # <<>> => send_queue # <<>> /\ writing[1] = send_queue[1]
    /\ written # <<>> => send_queue # <<>> /\ written[1] = send_queue[1]

(* A sequence that has an element: its head, and what is behind it. *)
LEMMA Front ==
    ASSUME NEW S, NEW s \in Seq(S), s # <<>>
    PROVE  /\ Len(s) \in Nat \ {0} /\ Head(s) = s[1] /\ Head(s) \in S
           /\ Tail(s) \in Seq(S) /\ Len(Tail(s)) = Len(s) - 1
           /\ \A i \in 1 .. Len(s) - 1 : Tail(s)[i] = s[i + 1]
BY HeadTailProperties, EmptySeq

(* A sequence of at most one element, as those of the writes are. *)
LEMMA OneLong ==
    ASSUME NEW S, NEW s \in Seq(S), s # <<>>, Len(s) <= 1
    PROVE  Len(s) = 1 /\ Tail(s) = <<>>
<1> DEFINE n == Len(s)
<1>1. n = 1
    <2>1. n \in Nat \ {0} /\ n <= 1
        BY Front
    <2> HIDE DEF n
    <2> QED BY <2>1
<1>2. Tail(s) \in Seq(S) /\ Len(Tail(s)) = 0
    BY <1>1, Front
<1> QED BY <1>1, <1>2, EmptySeq

-------------------------------------------------------------------------------
(* The steps that leave the queue and the writes alone. *)
Quiet ==
    \/ Lost \/ Accept \/ ReadMessage \/ ReadControl \/ ReadClose \/ ReadFails
    \/ DeadlinePasses \/ on_timer \/ on_ping

\* TypeOK in two parts: the variables of these steps, and those of the writes.
ControlTypes ==
    /\ link \in {"up", "lost", "closed", "shut"}
    /\ is_open \in BOOLEAN
    /\ reading \in {"accept", "read", "none"}
    /\ nread \in 0 .. MaxRequests
    /\ working \subseteq 1 .. nread
    /\ ping_state \in 0 .. 2
    /\ pings \in Nat
    /\ expired \in BOOLEAN
    /\ wait \in {"pending", "queued", "none"}
    /\ quiet \in 0 .. 2

WriteTypes ==
    /\ responses \in Seq(1 .. MaxRequests)
    /\ posted \in Seq(1 .. MaxRequests)
    /\ send_queue \in Seq(1 .. MaxRequests)
    /\ writing \in Seq(1 .. MaxRequests)
    /\ written \in Seq(1 .. MaxRequests)
    /\ delivered \in Seq(1 .. MaxRequests \cup {Garbled})

LEMMA TypeParts ==
    /\ TypeOK <=> ControlTypes /\ WriteTypes
    /\ TypeOK' <=> ControlTypes' /\ WriteTypes'
BY DEF TypeOK, ControlTypes, WriteTypes

LEMMA QuietFrame ==
    ASSUME ControlTypes, Quiet
    PROVE  /\ UNCHANGED writeVars /\ ControlTypes'
           /\ is_open' => is_open \/ reading = "accept"
           /\ link' = "up" => link = "up"
<1> USE DEF ControlTypes, Quiet, Lost, Accept, ReadMessage, ReadControl, ReadClose, ReadFails,
        DeadlinePasses, on_timer, on_ping, activity, SetDeadline, timerVars
<1>1. UNCHANGED writeVars
    OBVIOUS
<1>2. is_open' \in BOOLEAN
    OBVIOUS
<1>3. expired' \in BOOLEAN
    OBVIOUS
<1>4. /\ link' \in {"up", "lost", "closed", "shut"}
      /\ link' = "up" => link = "up"
      /\ reading' \in {"accept", "read", "none"}
      /\ wait' \in {"pending", "queued", "none"}
    OBVIOUS
<1>5. ping_state' \in 0 .. 2 /\ pings' \in Nat /\ quiet' \in 0 .. 2
    OBVIOUS
<1>6. nread' \in 0 .. MaxRequests /\ working' \subseteq 1 .. nread'
    <2>1. CASE ReadMessage
        BY <2>1, WebSocketSessionAssumption
    <2>2. CASE UNCHANGED <<nread, working>>
        BY <2>2
    <2> QED BY <2>1, <2>2
<1>7. is_open' => is_open \/ reading = "accept"
    OBVIOUS
<1> QED BY <1>1, <1>2, <1>3, <1>4, <1>5, <1>6, <1>7

(* The steps of the writes: what they do to the queue keeps its types. *)
WriteStep ==
    \/ \E n \in 1 .. MaxRequests : write_response(n)
    \/ Enqueue \/ Write \/ OnWritten

LEMMA WriteFrame ==
    ASSUME ControlTypes, WriteStep
    PROVE  /\ ControlTypes' /\ UNCHANGED <<link, reading, nread, timerVars>>
           /\ working' \subseteq working
           /\ is_open' => is_open
<1> USE DEF ControlTypes, WriteStep, write_response, Enqueue, Write, Sent, SendFails, OnWritten,
        timerVars
<1>1. UNCHANGED <<link, reading, nread, timerVars>> /\ working' \subseteq working /\ pings' = pings
    OBVIOUS
<1>2. is_open' \in BOOLEAN
    OBVIOUS
<1>3. is_open' => is_open
    OBVIOUS
<1> QED BY <1>1, <1>2, <1>3

(***************************************************************************)
(* Each write takes the message at the front; only its own completion      *)
(* takes that off the queue.                                               *)
(***************************************************************************)
LEMMA WriteStepInv ==
    ASSUME WriteTypes, WriteInv, WriteStep
    PROVE  WriteTypes' /\ WriteInv'
<1> DEFINE M == 1 .. MaxRequests
<1>1. CASE \E n \in M : write_response(n)
    BY <1>1 DEF write_response, WriteTypes, WriteInv
<1>2. CASE Enqueue
    <2>1. /\ posted # <<>> /\ posted' = Tail(posted)
          /\ send_queue' = Append(send_queue, Head(posted))
          /\ UNCHANGED <<responses, written, delivered>>
        BY <1>2 DEF Enqueue
    <2>2. Head(posted) \in M /\ Tail(posted) \in Seq(M)
        BY <2>1, Front DEF WriteTypes
    <2>3. /\ send_queue' \in Seq(M) /\ send_queue' # <<>>
          /\ send_queue'[Len(send_queue) + 1] = Head(posted)
          /\ \A i \in 1 .. Len(send_queue) : send_queue'[i] = send_queue[i]
        BY <2>1, <2>2, AppendProperties DEF WriteTypes
    <2>4. CASE send_queue = <<>>
        <3>1. writing = <<>> /\ written = <<>>
            BY <2>4 DEF WriteInv
        <3>2. writing' = <<Head(posted)>>
            BY <1>2, <2>2, <2>4, <3>1 DEF Enqueue
        <3>3. send_queue'[1] = Head(posted)
            BY <2>3, <2>4
        <3>4. WriteInv'
            BY <2>1, <2>3, <3>1, <3>2, <3>3 DEF WriteInv
        <3> QED BY <2>1, <2>2, <2>3, <3>2, <3>4 DEF WriteTypes
    <2>5. CASE send_queue # <<>>
        <3>1. writing' = writing
            BY <1>2, <2>5 DEF Enqueue
        <3>2. send_queue'[1] = send_queue[1]
            BY <2>3, <2>5, Front DEF WriteTypes
        <3>3. WriteInv'
            BY <2>1, <2>3, <2>5, <3>1, <3>2 DEF WriteInv
        <3> QED BY <2>1, <2>2, <2>3, <3>1, <3>3 DEF WriteTypes
    <2> QED BY <2>4, <2>5
<1>3. CASE Sent
    <2>1. /\ writing # <<>> /\ writing' = Tail(writing) /\ written' = Append(written, Head(writing))
          /\ UNCHANGED <<responses, posted, send_queue>>
        BY <1>3 DEF Sent
    <2>2. Head(writing) \in M /\ Head(writing) = writing[1] /\ Len(writing) \in Nat \ {0}
        BY <2>1, Front DEF WriteTypes
    <2>3. Len(written) \in Nat /\ Len(written) = 0 /\ Len(writing) <= 1
        BY <2>2, LenProperties DEF WriteTypes, WriteInv
    <2>4. written = <<>> /\ Tail(writing) = <<>>
        BY <2>1, <2>3, EmptySeq, OneLong DEF WriteTypes
    <2>5. writing' = <<>> /\ written' = <<writing[1]>>
        BY <2>1, <2>2, <2>4
    <2>6. delivered' \in Seq(M \cup {Garbled})
        <3>1. PICK received \in {Head(writing), Garbled} :
                 delivered' = IF link = "up" THEN Append(delivered, received) ELSE delivered
            BY <1>3 DEF Sent
        <3> QED BY <2>2, <3>1 DEF WriteTypes
    <2> QED BY <2>1, <2>2, <2>5, <2>6 DEF WriteTypes, WriteInv
<1>4. CASE OnWritten
    <2>1. /\ written # <<>> /\ written' = Tail(written) /\ send_queue' = Tail(send_queue)
          /\ UNCHANGED <<responses, posted, delivered>>
        BY <1>4 DEF OnWritten
    <2>2. Len(written) \in Nat \ {0} /\ Len(writing) \in Nat
        BY <2>1, Front, LenProperties DEF WriteTypes
    <2>3. Len(written) <= 1 /\ Len(writing) = 0 /\ send_queue # <<>>
        BY <2>1, <2>2 DEF WriteInv
    <2>4. writing = <<>> /\ Tail(written) = <<>>
        BY <2>1, <2>3, EmptySeq, OneLong DEF WriteTypes
    <2>5. send_queue' \in Seq(M)
        BY <2>1, <2>3, Front DEF WriteTypes
    <2>6. CASE send_queue' = <<>>
        <3>1. writing' = <<>> /\ written' = <<>>
            BY <1>4, <2>1, <2>4, <2>6 DEF OnWritten
        <3> QED BY <2>1, <2>5, <3>1 DEF WriteTypes, WriteInv
    <2>7. CASE send_queue' # <<>>
        <3>1. Head(send_queue') \in M /\ Head(send_queue') = send_queue'[1]
            BY <2>5, <2>7, Front
        <3>2. writing' = <<Head(send_queue')>> /\ written' = <<>>
            BY <1>4, <2>1, <2>4, <2>7, <3>1 DEF OnWritten
        <3> DEFINE front == Head(send_queue')
        <3> HIDE DEF front
        <3>3. <<front>> \in Seq(M) /\ Len(<<front>>) = 1 /\ <<front>>[1] = front
            BY <3>1 DEF front
        <3>4. writing' \in Seq(M) /\ written' \in Seq(M) /\ Len(writing') + Len(written') = 1
            BY <3>2, <3>3 DEF front
        <3>5. WriteTypes'
            BY <2>1, <2>5, <3>4 DEF WriteTypes
        <3>6. writing'[1] = send_queue'[1] /\ written' = <<>>
            BY <3>1, <3>2, <3>3 DEF front
        <3>7. WriteInv'
            <4>1. Len(writing') + Len(written') <= 1
                BY <3>4
            <4>2. /\ writing' # <<>> => send_queue' # <<>> /\ writing'[1] = send_queue'[1]
                  /\ written' # <<>> => send_queue' # <<>> /\ written'[1] = send_queue'[1]
                BY <2>7, <3>6
            <4> QED BY <4>1, <4>2, Zenon DEF WriteInv
        <3> QED BY <3>5, <3>7
    <2> QED BY <2>6, <2>7
<1>5. CASE SendFails
    <2>1. /\ writing # <<>> /\ writing' = Tail(writing) /\ send_queue' = Tail(send_queue)
          /\ UNCHANGED <<responses, posted, written, delivered>>
        BY <1>5 DEF SendFails
    <2>2. Len(writing) \in Nat \ {0} /\ Len(written) \in Nat
        BY <2>1, Front, LenProperties DEF WriteTypes
    <2>3. Len(writing) <= 1 /\ Len(written) = 0 /\ send_queue # <<>>
        BY <2>1, <2>2 DEF WriteInv
    <2>4. written = <<>> /\ Tail(writing) = <<>>
        BY <2>1, <2>3, EmptySeq, OneLong DEF WriteTypes
    <2>5. send_queue' \in Seq(M)
        BY <2>1, <2>3, Front DEF WriteTypes
    <2> QED BY <2>1, <2>4, <2>5 DEF WriteTypes, WriteInv
<1> QED BY <1>1, <1>2, <1>3, <1>4, <1>5 DEF WriteStep, Write

-------------------------------------------------------------------------------
(* Nothing has happened yet to a session that is still to be accepted. *)
BeforeAccept ==
    reading = "accept" => /\ nread = 0 /\ working = {} /\ responses = <<>> /\ posted = <<>>
                          /\ send_queue = <<>> /\ delivered = <<>>

\* How many responses have been delivered and taken off the queue.
Gone == Len(delivered) - Len(written)

(***************************************************************************)
(* While the stream is open, the responses are those delivered, followed   *)
(* by those in the queue and by those posted: none is left out, and none   *)
(* changes places.  A message stays in the queue after its delivery until  *)
(* its completion handler has run.                                         *)
(***************************************************************************)
InTransit ==
    is_open /\ link = "up" =>
        /\ Len(written) <= Len(delivered)
        /\ Len(responses) = Gone + Len(send_queue) + Len(posted)
        /\ \A i \in 1 .. Len(send_queue) : send_queue[i] = responses[Gone + i]
        /\ \A i \in 1 .. Len(posted) : posted[i] = responses[Gone + Len(send_queue) + i]

(***************************************************************************)
(* A deadline that has passed, and a ping under way, each stand for a      *)
(* deadline of silence, and together for two.                              *)
(***************************************************************************)
TimerInv ==
    /\ expired => quiet >= 1
    /\ ping_state # 0 => quiet >= 1
    /\ expired /\ ping_state # 0 => quiet = 2

SessionInv == TypeOK /\ WriteInv /\ BeforeAccept /\ InTransit /\ TimerInv

LEMMA InitSessionInv == Init => SessionInv
<1> SUFFICES ASSUME Init
             PROVE  SessionInv
    OBVIOUS
<1>1. TypeOK
    <2>1. ControlTypes
        <3>1. is_open \in BOOLEAN /\ expired \in BOOLEAN
            BY DEF Init
        <3>2. nread \in 0 .. MaxRequests /\ working \subseteq 1 .. nread
            BY WebSocketSessionAssumption DEF Init
        <3>3. ping_state \in 0 .. 2 /\ pings \in Nat /\ quiet \in 0 .. 2
            BY DEF Init
        <3>4. /\ link \in {"up", "lost", "closed", "shut"}
              /\ reading \in {"accept", "read", "none"}
              /\ wait \in {"pending", "queued", "none"}
            BY DEF Init
        <3> QED BY <3>1, <3>2, <3>3, <3>4 DEF ControlTypes
    <2>2. WriteTypes
        BY EmptySeq DEF Init, WriteTypes
    <2> QED BY <2>1, <2>2, TypeParts
<1>2. WriteInv /\ BeforeAccept /\ InTransit /\ TimerInv
    BY DEF Init, WriteInv, BeforeAccept, InTransit, Gone, TimerInv
<1> QED BY <1>1, <1>2 DEF SessionInv

(* The deadline and the pings: hearing from the peer ends the silence. *)
LEMMA TimerStep ==
    ASSUME ControlTypes, TimerInv, Quiet
    PROVE  TimerInv'
<1> USE DEF ControlTypes, TimerInv
<1>1. CASE Lost \/ Accept \/ ReadFails
    BY <1>1 DEF Lost, Accept, ReadFails, timerVars
<1>2. CASE ReadMessage \/ ReadControl \/ ReadClose
    BY <1>2 DEF ReadMessage, ReadControl, ReadClose, activity, SetDeadline
<1>3. CASE DeadlinePasses
    BY <1>3 DEF DeadlinePasses
<1>4. CASE on_timer
    BY <1>4 DEF on_timer
<1>5. CASE on_ping
    BY <1>5 DEF on_ping
<1> QED BY <1>1, <1>2, <1>3, <1>4, <1>5 DEF Quiet

(* The steps that leave the writes alone disturb nothing in transit. *)
LEMMA QuietStep ==
    ASSUME SessionInv, Quiet
    PROVE  SessionInv'
<1>1. ControlTypes /\ WriteTypes
    BY TypeParts DEF SessionInv
<1>2. /\ UNCHANGED writeVars /\ ControlTypes'
      /\ is_open' => is_open \/ reading = "accept"
      /\ link' = "up" => link = "up"
    BY <1>1, QuietFrame
<1>3. UNCHANGED <<responses, posted, send_queue, writing, written, delivered>>
    BY <1>2 DEF writeVars
<1>4. TypeOK'
    BY <1>1, <1>2, <1>3, TypeParts DEF WriteTypes
<1>5. WriteInv'
    BY <1>3 DEF SessionInv, WriteInv
<1>6. BeforeAccept'
    <2>1. reading' = "accept" => reading = "accept" /\ UNCHANGED <<nread, working>>
        BY DEF Quiet, Lost, Accept, ReadMessage, ReadControl, ReadClose, ReadFails,
               DeadlinePasses, on_timer, on_ping
    <2> QED BY <1>3, <2>1 DEF SessionInv, BeforeAccept
<1>7. InTransit'
    <2>1. CASE is_open
        BY <1>2, <1>3, <2>1 DEF SessionInv, InTransit, Gone
    <2>2. CASE reading = "accept"
        <3>1. /\ responses = <<>> /\ posted = <<>> /\ send_queue = <<>> /\ delivered = <<>>
              /\ written = <<>>
            BY <2>2 DEF SessionInv, BeforeAccept, WriteInv
        <3> QED BY <1>3, <3>1 DEF InTransit, Gone
    <2> QED BY <1>2, <2>1, <2>2 DEF InTransit
<1>8. TimerInv'
    BY <1>1, TimerStep DEF SessionInv
<1> QED BY <1>4, <1>5, <1>6, <1>7, <1>8 DEF SessionInv

(* The steps of the writes: a message moves from one place to the next. *)
LEMMA WriteStepTransit ==
    ASSUME SessionInv, WriteStep
    PROVE  InTransit'
<1> DEFINE M == 1 .. MaxRequests
<1>1. ControlTypes /\ WriteTypes /\ WriteInv /\ InTransit
    BY TypeParts DEF SessionInv
<1>2. UNCHANGED link /\ (is_open' => is_open)
    BY <1>1, WriteFrame
<1> SUFFICES ASSUME is_open', link' = "up"
             PROVE  InTransit'
    BY DEF InTransit
<1>3. /\ Len(written) <= Len(delivered)
      /\ Len(responses) = Gone + Len(send_queue) + Len(posted)
      /\ \A i \in 1 .. Len(send_queue) : send_queue[i] = responses[Gone + i]
      /\ \A i \in 1 .. Len(posted) : posted[i] = responses[Gone + Len(send_queue) + i]
    BY <1>1, <1>2 DEF InTransit
<1>4. /\ Len(written) \in Nat /\ Len(delivered) \in Nat /\ Len(responses) \in Nat
      /\ Len(send_queue) \in Nat /\ Len(posted) \in Nat
    BY <1>1 DEF WriteTypes
<1>5. CASE \E n \in M : write_response(n)
    <2>1. PICK n \in M : responses' = Append(responses, n) /\ posted' = Append(posted, n)
        BY <1>5 DEF write_response
    <2>2. UNCHANGED <<send_queue, written, delivered>>
        BY <1>5 DEF write_response
    <2>3. /\ Len(responses') = Len(responses) + 1 /\ responses'[Len(responses) + 1] = n
          /\ \A i \in 1 .. Len(responses) : responses'[i] = responses[i]
          /\ Len(posted') = Len(posted) + 1 /\ posted'[Len(posted) + 1] = n
          /\ \A i \in 1 .. Len(posted) : posted'[i] = posted[i]
        BY <1>1, <2>1, AppendProperties DEF WriteTypes
    <2>4. Gone' = Gone /\ Gone \in Nat
        BY <1>3, <1>4, <2>2 DEF Gone
    <2>5. \A i \in 1 .. Len(send_queue) : send_queue[i] = responses'[Gone + i]
        <3> SUFFICES ASSUME NEW i \in 1 .. Len(send_queue)
                     PROVE  send_queue[i] = responses'[Gone + i]
            OBVIOUS
        <3>1. Gone + i \in 1 .. Len(responses)
            BY <1>3, <1>4, <2>4
        <3> QED BY <1>3, <2>3, <3>1
    <2>6. \A i \in 1 .. Len(posted') : posted'[i] = responses'[Gone + Len(send_queue) + i]
        <3> SUFFICES ASSUME NEW i \in 1 .. Len(posted')
                     PROVE  posted'[i] = responses'[Gone + Len(send_queue) + i]
            OBVIOUS
        <3>1. CASE i = Len(posted) + 1
            <4>1. Gone + Len(send_queue) + i = Len(responses) + 1
                BY <1>3, <1>4, <2>4, <3>1
            <4> QED BY <2>3, <3>1, <4>1
        <3>2. CASE i \in 1 .. Len(posted)
            <4>1. Gone + Len(send_queue) + i \in 1 .. Len(responses)
                BY <1>3, <1>4, <2>4, <3>2
            <4> QED BY <1>3, <2>3, <3>2, <4>1
        <3> QED BY <1>4, <2>3, <3>1, <3>2
    <2>7. Len(responses') = Gone + Len(send_queue) + Len(posted')
        BY <1>3, <1>4, <2>3, <2>4
    <2> QED BY <1>3, <2>2, <2>4, <2>5, <2>6, <2>7 DEF InTransit
<1>6. CASE Enqueue
    <2>1. /\ posted # <<>> /\ posted' = Tail(posted)
          /\ send_queue' = Append(send_queue, Head(posted))
          /\ UNCHANGED <<responses, written, delivered>>
        BY <1>6 DEF Enqueue
    <2>2. /\ Head(posted) \in M /\ Head(posted) = posted[1] /\ Len(posted) \in Nat \ {0}
          /\ Len(posted') = Len(posted) - 1
          /\ \A i \in 1 .. Len(posted) - 1 : posted'[i] = posted[i + 1]
        BY <1>1, <2>1, Front DEF WriteTypes
    <2>3. /\ Len(send_queue') = Len(send_queue) + 1
          /\ send_queue'[Len(send_queue) + 1] = posted[1]
          /\ \A i \in 1 .. Len(send_queue) : send_queue'[i] = send_queue[i]
        BY <1>1, <2>1, <2>2, AppendProperties DEF WriteTypes
    <2>4. Gone' = Gone /\ Gone \in Nat
        BY <1>3, <1>4, <2>1 DEF Gone
    <2>5. \A i \in 1 .. Len(send_queue') : send_queue'[i] = responses[Gone + i]
        <3> SUFFICES ASSUME NEW i \in 1 .. Len(send_queue')
                     PROVE  send_queue'[i] = responses[Gone + i]
            OBVIOUS
        <3>1. CASE i = Len(send_queue) + 1
            <4>1. posted[1] = responses[Gone + Len(send_queue) + 1]
                BY <1>3, <2>2
            <4>2. Gone + Len(send_queue) + 1 = Gone + i
                BY <1>4, <2>4, <3>1
            <4> QED BY <2>3, <3>1, <4>1, <4>2
        <3>2. CASE i \in 1 .. Len(send_queue)
            BY <1>3, <2>3, <3>2
        <3> QED BY <1>4, <2>3, <3>1, <3>2
    <2>6. \A i \in 1 .. Len(posted') : posted'[i] = responses[Gone + Len(send_queue') + i]
        <3> SUFFICES ASSUME NEW i \in 1 .. Len(posted')
                     PROVE  posted'[i] = responses[Gone + Len(send_queue') + i]
            OBVIOUS
        <3>1. i + 1 \in 1 .. Len(posted) /\ posted'[i] = posted[i + 1]
            BY <2>2
        <3>2. posted[i + 1] = responses[Gone + Len(send_queue) + (i + 1)]
            BY <1>3, <3>1
        <3>3. Gone + Len(send_queue) + (i + 1) = Gone + Len(send_queue') + i
            BY <1>4, <2>3, <2>4
        <3> QED BY <3>1, <3>2, <3>3
    <2>7. Len(responses) = Gone + Len(send_queue') + Len(posted')
        BY <1>3, <1>4, <2>2, <2>3, <2>4
    <2> QED BY <1>3, <2>1, <2>4, <2>5, <2>6, <2>7 DEF InTransit
<1>7. CASE Sent
    <2>1. /\ writing # <<>> /\ written' = Append(written, Head(writing))
          /\ UNCHANGED <<responses, posted, send_queue>>
        BY <1>7 DEF Sent
    <2>2. PICK received \in {Head(writing), Garbled} : delivered' = Append(delivered, received)
        BY <1>2, <1>7 DEF Sent
    <2>3. Head(writing) \in M
        BY <1>1, <2>1, Front DEF WriteTypes
    <2>4. Len(written') = Len(written) + 1 /\ Len(delivered') = Len(delivered) + 1
        BY <1>1, <2>1, <2>2, <2>3, AppendProperties DEF WriteTypes
    <2>5. Gone' = Gone /\ Len(written') <= Len(delivered')
        BY <1>3, <1>4, <2>4 DEF Gone
    <2> QED BY <1>3, <2>1, <2>5 DEF InTransit
<1>8. CASE OnWritten
    <2>1. /\ written # <<>> /\ written' = Tail(written) /\ send_queue' = Tail(send_queue)
          /\ UNCHANGED <<responses, posted, delivered>>
        BY <1>8 DEF OnWritten
    <2>2. send_queue # <<>>
        BY <1>1, <2>1 DEF WriteInv
    <2>3. /\ Len(written) \in Nat \ {0} /\ Len(written') = Len(written) - 1
          /\ Len(send_queue') = Len(send_queue) - 1
          /\ \A i \in 1 .. Len(send_queue) - 1 : send_queue'[i] = send_queue[i + 1]
        BY <1>1, <2>1, <2>2, Front DEF WriteTypes
    <2>4. Gone' = Gone + 1 /\ Gone \in Nat /\ Len(written') <= Len(delivered)
        BY <1>3, <1>4, <2>1, <2>3 DEF Gone
    <2>5. \A i \in 1 .. Len(send_queue') : send_queue'[i] = responses[Gone' + i]
        <3> SUFFICES ASSUME NEW i \in 1 .. Len(send_queue')
                     PROVE  send_queue'[i] = responses[Gone' + i]
            OBVIOUS
        <3>1. i + 1 \in 1 .. Len(send_queue) /\ send_queue'[i] = send_queue[i + 1]
            BY <1>4, <2>3
        <3>2. send_queue[i + 1] = responses[Gone + (i + 1)]
            BY <1>3, <3>1
        <3>3. Gone + (i + 1) = Gone' + i
            BY <2>4
        <3> QED BY <3>1, <3>2, <3>3
    <2>6. Gone' + Len(send_queue') = Gone + Len(send_queue)
        BY <1>4, <2>3, <2>4
    <2> QED BY <1>3, <2>1, <2>4, <2>5, <2>6 DEF InTransit
<1>9. CASE SendFails
    BY <1>9 DEF SendFails
<1> QED BY <1>5, <1>6, <1>7, <1>8, <1>9 DEF WriteStep, Write

LEMMA WriteStepSessionInv ==
    ASSUME SessionInv, WriteStep
    PROVE  SessionInv'
<1>1. ControlTypes /\ WriteTypes
    BY TypeParts DEF SessionInv
<1>2. /\ ControlTypes' /\ UNCHANGED <<link, reading, nread, timerVars>>
      /\ working' \subseteq working
    BY <1>1, WriteFrame
<1>3. WriteTypes' /\ WriteInv'
    BY <1>1, WriteStepInv DEF SessionInv
<1>4. BeforeAccept'
    <2>1. CASE reading = "accept"
        <3>1. /\ working = {} /\ posted = <<>> /\ send_queue = <<>>
              /\ writing = <<>> /\ written = <<>>
            BY <2>1 DEF SessionInv, BeforeAccept, WriteInv
        <3>2. ~WriteStep
            BY <3>1 DEF WriteStep, write_response, Enqueue, Write, Sent, SendFails, OnWritten
        <3> QED BY <3>2
    <2> QED BY <1>2, <2>1 DEF BeforeAccept
<1>5. TimerInv'
    BY <1>2 DEF SessionInv, TimerInv, timerVars
<1> QED BY <1>2, <1>3, <1>4, <1>5, TypeParts, WriteStepTransit DEF SessionInv

LEMMA NextSteps == Next => Quiet \/ WriteStep
BY DEF Next, Quiet, WriteStep

LEMMA SessionInvariant == Spec => []SessionInv
<1>1. SessionInv /\ [Next]_vars => SessionInv'
    <2>1. ASSUME SessionInv, UNCHANGED vars
          PROVE  SessionInv'
        BY <2>1 DEF SessionInv, TypeOK, WriteInv, BeforeAccept, InTransit, Gone, TimerInv,
                    vars, writeVars, timerVars
    <2> QED BY <2>1, NextSteps, QuietStep, WriteStepSessionInv
<1> QED BY <1>1, InitSessionInv, PTL DEF Spec

-------------------------------------------------------------------------------
(***************************************************************************)
(* The state of a session keeps its types, whatever the peer, the timer    *)
(* and the threads that call write_response do.                            *)
(***************************************************************************)
THEOREM SessionTypeCorrect == Spec => []TypeOK
<1>1. SessionInv => TypeOK
    BY DEF SessionInv
<1> QED BY <1>1, SessionInvariant, PTL

(***************************************************************************)
(* write_queued_messages never starts an async_write while another one is  *)
(* under way or its handler still to run: the write that may exist is for  *)
(* the message at the front of send_queue_.                                *)
(***************************************************************************)
THEOREM WritesOneAtATime == Spec => []OneWriteAtATime
<1>1. SessionInv => OneWriteAtATime
    <2> SUFFICES ASSUME SessionInv
                 PROVE  OneWriteAtATime
        OBVIOUS
    <2>1. WriteTypes /\ WriteInv
        BY TypeParts DEF SessionInv
    <2>2. Len(writing) \in Nat /\ Len(written) \in Nat
        BY <2>1 DEF WriteTypes
    <2>3. CASE writing = <<>>
        <3>1. writing \o written = written
            BY <2>1, <2>3, ConcatEmptySeq DEF WriteTypes
        <3>2. CASE written = <<>>
            BY <3>1, <3>2 DEF OneWriteAtATime
        <3>3. CASE written # <<>>
            <4>1. Len(written) = 1 /\ send_queue # <<>> /\ written[1] = send_queue[1]
                BY <2>1, <2>2, <3>3, OneLong DEF WriteTypes, WriteInv
            <4>2. written = <<Head(send_queue)>>
                BY <2>1, <4>1, Front DEF WriteTypes
            <4> QED BY <3>1, <3>3, <4>2 DEF OneWriteAtATime
        <3> QED BY <3>2, <3>3
    <2>4. CASE writing # <<>>
        <3>1. Len(writing) = 1 /\ send_queue # <<>> /\ writing[1] = send_queue[1]
            BY <2>1, <2>2, <2>4, OneLong DEF WriteTypes, WriteInv
        <3>2. written = <<>>
            BY <2>1, <2>2, <3>1, EmptySeq DEF WriteTypes, WriteInv
        <3>3. writing \o written = writing
            BY <2>1, <3>2, ConcatEmptySeq DEF WriteTypes
        <3>4. writing = <<Head(send_queue)>>
            BY <2>1, <3>1, Front DEF WriteTypes
        <3> QED BY <2>4, <3>3, <3>4 DEF OneWriteAtATime
    <2> QED BY <2>3, <2>4
<1> QED BY <1>1, SessionInvariant, PTL

-------------------------------------------------------------------------------
(***************************************************************************)
(* The session implements the channel of OrderedDelivery: write_response   *)
(* gives it a message, a write that reaches the peer takes one out, and    *)
(* every other step leaves it alone.                                       *)
(***************************************************************************)
LEMMA SentMaps ==
    ASSUME SessionInv, Sent
    PROVE  Channel!Receive \/ UNCHANGED Channel!channel
<1>1. WriteTypes /\ WriteInv /\ InTransit
    BY TypeParts DEF SessionInv
<1>2. writing # <<>> /\ is_open /\ UNCHANGED responses
    BY DEF Sent
<1>3. PICK received \in {Head(writing), Garbled} :
         delivered' = IF link = "up" THEN Append(delivered, received) ELSE delivered
    BY DEF Sent
<1>4. CASE link = "up"
    <2>1. /\ Len(responses) = Gone + Len(send_queue) + Len(posted)
          /\ \A i \in 1 .. Len(send_queue) : send_queue[i] = responses[Gone + i]
        BY <1>1, <1>2, <1>4 DEF InTransit
    <2>2. /\ Len(writing) \in Nat \ {0} /\ Head(writing) = writing[1]
          /\ Len(written) \in Nat /\ Len(delivered) \in Nat /\ Len(posted) \in Nat
        BY <1>1, <1>2, Front DEF WriteTypes
    <2>3. Gone = Len(delivered)
        BY <1>1, <2>2 DEF WriteInv, Gone
    <2>4. Len(send_queue) \in Nat \ {0} /\ writing[1] = send_queue[1]
        BY <1>1, <1>2, Front DEF WriteTypes, WriteInv
    <2>5. Head(writing) = responses[Len(delivered) + 1]
        BY <2>1, <2>2, <2>3, <2>4
    <2>6. Len(delivered) < Len(responses)
        BY <2>1, <2>2, <2>3, <2>4
    <2>7. \E m \in {responses[Len(delivered) + 1]} \cup {Garbled} :
             delivered' = Append(delivered, m)
        BY <1>3, <1>4, <2>5
    <2> QED BY <1>2, <2>6, <2>7 DEF Channel!Receive
<1>5. CASE link # "up"
    BY <1>2, <1>3, <1>5 DEF Channel!channel
<1> QED BY <1>4, <1>5

THEOREM SessionDelivers == Spec => DeliveredInOrder
<1>1. Init => Channel!Init
    BY DEF Init, Channel!Init
<1>2. SessionInv /\ [Next]_vars => [Channel!Next]_(Channel!channel)
    <2> SUFFICES ASSUME SessionInv, [Next]_vars
                 PROVE  [Channel!Next]_(Channel!channel)
        OBVIOUS
    <2>1. CASE UNCHANGED vars
        BY <2>1 DEF vars, writeVars, Channel!channel
    <2>2. CASE Quiet
        <3>1. UNCHANGED writeVars
            BY <2>2, QuietFrame, TypeParts DEF SessionInv
        <3> QED BY <3>1 DEF writeVars, Channel!channel
    <2>3. ASSUME NEW n \in 1 .. MaxRequests, write_response(n)
          PROVE  Channel!Give
        BY <2>3 DEF write_response, Channel!Give
    <2>4. CASE Enqueue \/ SendFails \/ OnWritten
        BY <2>4 DEF Enqueue, SendFails, OnWritten, Channel!channel
    <2> QED BY <2>1, <2>2, <2>3, <2>4, SentMaps, NextSteps DEF WriteStep, Write, Channel!Next
<1> QED BY <1>1, <1>2, SessionInvariant, PTL DEF Spec, DeliveredInOrder, Channel!Spec

(***************************************************************************)
(* on_timer closes the connection only if the peer has let two deadlines   *)
(* pass, one with a ping sent, or if the stream is not open.               *)
(***************************************************************************)
THEOREM LivePeerSpared == Spec => LivePeerKept
<1>1. SessionInv /\ [Next]_vars
        => [link' = "shut" /\ link # "shut" => quiet = 2 \/ ~is_open]_vars
    <2> SUFFICES ASSUME SessionInv, Next, link' = "shut", link # "shut", is_open
                 PROVE  quiet = 2
        OBVIOUS
    <2>1. on_timer
        BY NextSteps, WriteFrame, TypeParts
           DEF SessionInv, Quiet, Lost, Accept, ReadMessage, ReadControl, ReadClose, ReadFails,
               DeadlinePasses, on_ping
    <2>2. expired /\ ping_state # 0
        BY <2>1 DEF on_timer
    <2> QED BY <2>2 DEF SessionInv, TimerInv
<1> QED BY <1>1, SessionInvariant, PTL DEF Spec, LivePeerKept

===============================================================================
