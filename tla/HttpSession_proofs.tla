--------------------------- MODULE HttpSession_proofs ---------------------------
(***************************************************************************)
(* Proofs about HttpSession: its types, whatever the client, and for a     *)
(* client that keeps its work requests on connections of their own, what   *)
(* the queue of responses promises.                                        *)
(***************************************************************************)
EXTENDS HttpSession, SequenceTheorems, TLAPS

\* TypeOK in two parts: the variables that are sequences, and the others.
SequenceTypes ==
    /\ sent \in Seq(Request) /\ Len(sent) <= MaxRequests
    /\ answered \in Seq(1 .. MaxRequests)
    /\ sending \in Seq(Response) /\ completed \in Seq(Response) /\ items \in Seq(Response)

ControlTypes ==
    /\ half_closed \in BOOLEAN /\ accepting \in BOOLEAN
    /\ socket \in {"open", "shut", "closed", "moved"}
    /\ nread \in 0 .. Len(sent) /\ (accepting => nread # 0)
    /\ reads \in Nat
    /\ keepalive \in BOOLEAN
    /\ strand \in {"idle", "stored", "pipeline", "erased", "asserted"}
    /\ was_full \in BOOLEAN
    /\ working \subseteq 1 .. nread /\ storing \subseteq 1 .. nread
    /\ working \cap storing = {}

LEMMA TypeParts ==
    /\ TypeOK <=> SequenceTypes /\ ControlTypes
    /\ TypeOK' <=> SequenceTypes' /\ ControlTypes'
BY DEF TypeOK, SequenceTypes, ControlTypes

(* The actions, as the parts of Next. *)
LEMMA NextCases ==
    Next <=> \/ Send \/ HalfClose \/ Lost
             \/ ReadPage \/ ReadWork \/ ReadUpgrade \/ ReadDenied \/ ReadEndOfStream \/ ReadFails
             \/ StartFirst \/ Pipeline \/ OnWrite \/ StartNext
             \/ \E i \in DOMAIN sending : Deliver(i) \/ WriteFails(i)
             \/ Accepted \/ AcceptFails
             \/ \E n \in 1 .. MaxRequests : PoolStore(n) \/ PoolStart(n)
BY DEF Next, OnRead, InStrand, WriteEnds, PoolStep

(* A sequence that has an element: its head, and what is behind it. *)
LEMMA Front ==
    ASSUME NEW S, NEW s \in Seq(S), s # <<>>
    PROVE  /\ Len(s) \in Nat \ {0} /\ Head(s) = s[1] /\ Head(s) \in S
           /\ Tail(s) \in Seq(S) /\ Len(Tail(s)) = Len(s) - 1
           /\ \A i \in 1 .. Len(s) - 1 : Tail(s)[i] = s[i + 1]
BY HeadTailProperties, EmptySeq

(* Without leaves a sequence, of one element less. *)
LEMMA WithoutType ==
    ASSUME NEW S, NEW s \in Seq(S), NEW i \in DOMAIN s
    PROVE  Without(s, i) \in Seq(S) /\ (Len(s) = 1 => Without(s, i) = <<>>)
<1>1. Len(s) \in Nat /\ i \in 1 .. Len(s)
    BY LenProperties
<1>2. \A j \in 1 .. Len(s) : s[j] \in S
    BY ElementOfSeq
<1>3. SubSeq(s, 1, i - 1) \in Seq(S)
    BY <1>1, <1>2, SubSeqProperties
<1>4. SubSeq(s, i + 1, Len(s)) \in Seq(S)
    BY <1>1, <1>2, SubSeqProperties
<1>5. ASSUME Len(s) = 1
      PROVE  Without(s, i) = <<>>
    <2>1. i = 1
        BY <1>1, <1>5
    <2>2. SubSeq(s, 1, i - 1) = <<>> /\ SubSeq(s, i + 1, Len(s)) = <<>>
        BY <1>5, <2>1, SubSeqEmpty
    <2> QED BY <2>2, ConcatEmptySeq, EmptySeq DEF Without
<1> QED BY <1>3, <1>4, <1>5, ConcatProperties DEF Without

(* A response to a request that has been read is stored in the queue. *)
LEMMA ResponseType ==
    ASSUME NEW n \in 1 .. MaxRequests, NEW close \in BOOLEAN
    PROVE  [req |-> n, close |-> close] \in Response
BY DEF Response

(* WriteFront starts the write of a response, or none. *)
LEMMA WriteFrontType ==
    ASSUME SequenceTypes, items # <<>>, WriteFront
    PROVE  /\ sending' \in Seq(Response)
           /\ sending = <<>> => sending' = IF socket = "open" THEN <<items[1]>> ELSE <<>>
<1>1. Head(items) \in Response /\ Head(items) = items[1]
    BY Front DEF SequenceTypes
<1>2. CASE socket = "open"
    <2>1. sending' = Append(sending, items[1])
        BY <1>1, <1>2 DEF WriteFront
    <2>2. sending' \in Seq(Response)
        BY <1>1, <2>1, AppendProperties DEF SequenceTypes
    <2>3. sending = <<>> => sending' = <<items[1]>>
        BY <2>1
    <2> QED BY <1>2, <2>2, <2>3
<1>3. CASE socket # "open"
    BY <1>3 DEF WriteFront, SequenceTypes
<1> QED BY <1>2, <1>3

-------------------------------------------------------------------------------
LEMMA NextSequenceTypes ==
    ASSUME TypeOK, Next
    PROVE  SequenceTypes'
<1>1. SequenceTypes /\ ControlTypes
    BY TypeParts
<1>2. Len(sent) \in Nat /\ MaxRequests \in Nat
    BY <1>1, HttpSessionAssumption DEF SequenceTypes
<1>3. CASE Send
    <2>1. PICK request \in Request : sent' = Append(sent, request)
        BY <1>3 DEF Send
    <2>2. sent' \in Seq(Request) /\ Len(sent') = Len(sent) + 1
        BY <1>1, <2>1, AppendProperties DEF SequenceTypes
    <2> QED BY <1>1, <1>2, <1>3, <2>2 DEF Send, SequenceTypes
<1>4. CASE HalfClose \/ Lost \/ ReadWork \/ ReadUpgrade \/ ReadDenied \/ ReadEndOfStream
           \/ ReadFails \/ Pipeline \/ AcceptFails
    BY <1>1, <1>4 DEF SequenceTypes, clientVars, HalfClose, Lost, ReadWork, ReadUpgrade,
        ReadDenied, ReadEndOfStream, ReadFails, Pipeline, AcceptFails
<1>5. CASE ReadPage
    <2>1. nread' \in 1 .. MaxRequests
        BY <1>1, <1>2, <1>5 DEF ReadPage, Read, SequenceTypes, ControlTypes
    <2>2. [req |-> nread', close |-> ~keepalive'] \in Response
        BY <2>1, ResponseType
    <2>3. items' \in Seq(Response)
        BY <1>1, <1>5, <2>2, AppendProperties DEF ReadPage, SequenceTypes
    <2> QED BY <1>1, <1>5, <2>3 DEF SequenceTypes, ReadPage, clientVars
<1>6. CASE StartFirst \/ StartNext \/ \E n \in 1 .. MaxRequests : PoolStart(n)
    <2>1. UNCHANGED <<sent, answered, completed, items>>
        BY <1>6 DEF StartFirst, StartNext, PoolStart, clientVars
    <2>2. UNCHANGED sending \/ (items # <<>> /\ WriteFront)
        BY <1>1, <1>6, EmptySeq DEF StartFirst, StartNext, PoolStart
    <2> QED BY <1>1, <2>1, <2>2, WriteFrontType DEF SequenceTypes
<1>7. CASE OnWrite
    <2>1. completed' \in Seq(Response)
        BY <1>1, <1>7, Front DEF OnWrite, SequenceTypes
    <2>2. items' \in Seq(Response)
        BY <1>1, <1>7, Front DEF OnWrite, SequenceTypes
    <2> QED BY <1>1, <1>7, <2>1, <2>2 DEF SequenceTypes, OnWrite, clientVars
<1>8. ASSUME NEW i \in DOMAIN sending, Deliver(i)
      PROVE  SequenceTypes'
    <2>1. sending[i] \in Response /\ sending[i].req \in 1 .. MaxRequests
        <3>1. i \in 1 .. Len(sending) /\ sending \in Seq(Response)
            BY <1>1, <1>8, LenProperties DEF SequenceTypes
        <3>2. sending[i] \in Response
            BY <3>1, ElementOfSeq
        <3> QED BY <3>2 DEF Response
    <2>2. answered' \in Seq(1 .. MaxRequests) /\ completed' \in Seq(Response)
        BY <1>1, <1>8, <2>1, AppendProperties DEF Deliver, SequenceTypes
    <2> QED BY <1>1, <1>8, <2>2, WithoutType DEF SequenceTypes, Deliver, clientVars
<1>9. ASSUME NEW i \in DOMAIN sending, WriteFails(i)
      PROVE  SequenceTypes'
    BY <1>1, <1>9, WithoutType DEF SequenceTypes, WriteFails, clientVars
<1>10. ASSUME NEW n \in 1 .. MaxRequests, PoolStore(n)
       PROVE  SequenceTypes'
    <2>1. items' \in Seq(Response)
        BY <1>1, <1>10, ResponseType, AppendProperties DEF PoolStore, SequenceTypes
    <2> QED BY <1>1, <1>10, <2>1 DEF SequenceTypes, PoolStore, clientVars
<1>11. CASE Accepted
    <2>1. nread \in 1 .. MaxRequests
        BY <1>1, <1>2, <1>11 DEF Accepted, ControlTypes, SequenceTypes
    <2>2. answered' \in Seq(1 .. MaxRequests)
        BY <1>1, <1>11, <2>1, AppendProperties DEF Accepted, SequenceTypes
    <2> QED BY <1>1, <1>11, <2>2 DEF SequenceTypes, Accepted, clientVars
<1> QED BY <1>3, <1>4, <1>5, <1>6, <1>7, <1>8, <1>9, <1>10, <1>11, NextCases

(* The requests read, and those that the pool has in hand. *)
LEMMA NextRequestTypes ==
    ASSUME TypeOK, Next
    PROVE  /\ nread' \in 0 .. Len(sent') /\ working' \cap storing' = {}
           /\ accepting' => nread' # 0
           /\ working' \subseteq 1 .. nread' /\ storing' \subseteq 1 .. nread'
<1>1. SequenceTypes /\ ControlTypes
    BY TypeParts
<1>2. Len(sent) \in Nat
    BY <1>1 DEF SequenceTypes
<1>3. CASE UNCHANGED <<working, storing>> /\ UNCHANGED nread /\ (accepting' => accepting)
    <2>1. Len(sent) <= Len(sent') /\ Len(sent') \in Nat
        <3>1. CASE Send
            BY <1>1, <1>2, <3>1 DEF Send, SequenceTypes
        <3>2. CASE UNCHANGED sent
            BY <1>2, <3>2
        <3> QED BY <3>1, <3>2, NextCases
           DEF clientVars, HalfClose, Lost, ReadPage, ReadWork, ReadUpgrade, ReadDenied,
               ReadEndOfStream, ReadFails, StartFirst, Pipeline,
               OnWrite, StartNext, Deliver, WriteFails, Accepted, AcceptFails, PoolStore,
               PoolStart
    <2> QED BY <1>1, <1>3, <2>1 DEF ControlTypes
<1>4. CASE ReadPage \/ ReadWork \/ ReadUpgrade \/ ReadDenied
    <2>1. /\ nread' = nread + 1 /\ nread < Len(sent) /\ UNCHANGED sent
          /\ UNCHANGED storing /\ (working' = working \/ working' = working \cup {nread'})
        BY <1>4 DEF ReadPage, ReadWork, ReadUpgrade, ReadDenied, Read, clientVars, poolVars
    <2>2. nread \in Nat /\ nread' \in 0 .. Len(sent')
        BY <1>1, <1>2, <2>1 DEF ControlTypes
    <2>3. 1 .. nread' = 1 .. nread \cup {nread'} /\ nread' \notin 1 .. nread /\ nread' # 0
        BY <2>1, <2>2
    <2>4. /\ working' \cap storing' = {}
          /\ working' \subseteq 1 .. nread' /\ storing' \subseteq 1 .. nread'
        BY <1>1, <2>1, <2>3 DEF ControlTypes
    <2> QED BY <2>2, <2>3, <2>4
<1>5. ASSUME NEW n \in 1 .. MaxRequests, PoolStore(n) \/ PoolStart(n)
      PROVE  /\ UNCHANGED <<sent, nread, accepting>> /\ working' \cap storing' = {}
             /\ working' \subseteq working /\ storing' \subseteq working \cup storing
    BY <1>1, <1>5 DEF ControlTypes, PoolStore, PoolStart, clientVars
<1>6. CASE ~(\/ ReadPage \/ ReadWork \/ ReadUpgrade \/ ReadDenied
             \/ \E n \in 1 .. MaxRequests : PoolStore(n) \/ PoolStart(n))
    <2>1. UNCHANGED <<working, storing>> /\ UNCHANGED nread /\ (accepting' => accepting)
        BY <1>6, NextCases
           DEF poolVars, Send, HalfClose, Lost, ReadEndOfStream, ReadFails, StartFirst,
               Pipeline, OnWrite, StartNext, Deliver, WriteFails, Accepted, AcceptFails
    <2> QED BY <1>3, <2>1
<1> QED BY <1>1, <1>4, <1>5, <1>6 DEF ControlTypes

LEMMA NextControlTypes ==
    ASSUME TypeOK, Next
    PROVE  ControlTypes'
<1>1. SequenceTypes /\ ControlTypes
    BY TypeParts
<1> USE <1>1, NextCases DEF ControlTypes, SequenceTypes, clientVars, Read, Send, HalfClose, Lost,
        ReadPage, ReadWork, ReadUpgrade, ReadDenied, ReadEndOfStream, ReadFails, StartFirst,
        Pipeline, OnWrite, StartNext, Deliver, WriteFails, Accepted, AcceptFails, PoolStore,
        PoolStart
<1>2. half_closed' \in BOOLEAN /\ accepting' \in BOOLEAN
    <2>1. half_closed' \in BOOLEAN
        OBVIOUS
    <2>2. accepting' = accepting \/ accepting' = FALSE \/ accepting' = (socket = "open")
        OBVIOUS
    <2> QED BY <2>1, <2>2
<1>3. /\ socket' \in {"open", "shut", "closed", "moved"}
      /\ strand' \in {"idle", "stored", "pipeline", "erased", "asserted"}
    OBVIOUS
<1>4. reads' \in Nat
    <2>1. reads' \in {reads, reads + 1} \/ (reads > 0 /\ reads' = reads - 1)
        OBVIOUS
    <2> QED BY <2>1
<1>5. was_full' \in BOOLEAN
    <2>1. is_full \in BOOLEAN
        BY DEF is_full
    <2>2. was_full' = was_full \/ was_full' = is_full
        OBVIOUS
    <2> QED BY <2>1, <2>2
<1>6. keepalive' \in BOOLEAN
    <2>1. CASE UNCHANGED keepalive
        BY <2>1
    <2>2. CASE ReadPage \/ ReadWork
        <3>1. keepalive' = sent[nread'].keep_alive /\ nread' \in 1 .. Len(sent)
            BY <2>2
        <3>2. sent[nread'] \in Request
            BY <3>1, ElementOfSeq
        <3> QED BY <3>1, <3>2 DEF Request
    <2> QED BY <2>1, <2>2
<1> QED BY <1>2, <1>3, <1>4, <1>5, <1>6, NextRequestTypes
-------------------------------------------------------------------------------
(***************************************************************************)
(* The state of a session keeps its types, however the client uses the     *)
(* connection and whenever the pool answers; no request that the           *)
(* work_handler has yet to answer has its response stored.                 *)
(***************************************************************************)
THEOREM HttpTypeCorrect == Spec => []TypeOK
<1>1. Init => TypeOK
    <2> SUFFICES ASSUME Init
                 PROVE  TypeOK
        OBVIOUS
    <2>1. SequenceTypes
        BY EmptySeq, HttpSessionAssumption DEF Init, SequenceTypes
    <2>2. /\ half_closed \in BOOLEAN /\ accepting \in BOOLEAN
          /\ keepalive \in BOOLEAN /\ was_full \in BOOLEAN
        BY DEF Init
    <2>3. nread \in 0 .. Len(sent) /\ (accepting => nread # 0) /\ reads \in Nat
        BY EmptySeq DEF Init
    <2>4. /\ socket \in {"open", "shut", "closed", "moved"}
          /\ strand \in {"idle", "stored", "pipeline", "erased", "asserted"}
          /\ working = {} /\ storing = {}
        BY DEF Init
    <2> QED BY <2>1, <2>2, <2>3, <2>4, TypeParts DEF ControlTypes
<1>2. TypeOK /\ [Next]_vars => TypeOK'
    <2>1. TypeOK /\ UNCHANGED vars => TypeOK'
        BY DEF TypeOK, vars, clientVars, poolVars
    <2> QED BY <2>1, NextSequenceTypes, NextControlTypes, TypeParts
<1> QED BY <1>1, <1>2, PTL DEF Spec

-------------------------------------------------------------------------------
(***************************************************************************)
(* A client that keeps its work requests separate.  queue::limit is 8; it  *)
(* has to be 2 at least: the answer to a work request is stored while the  *)
(* next request is being read, and if that fills the queue, on_write asks  *)
(* for reading to be resumed although it was never stopped.                *)
(***************************************************************************)
Separate == Client = "separate" /\ Limit >= 2

(* The only work request is the first request, and others wait for its answer. *)
Apart ==
    /\ \A n \in DOMAIN sent : sent[n].kind = "work" => n = 1
    /\ sent # <<>> /\ sent[1].kind = "work" => Len(sent) = 1 \/ answered # <<>>

Unread == nread = 0 => answered = <<>> /\ sending = <<>> /\ completed = <<>> /\ items = <<>>

(* While the pool has the work request, nothing else happens on the connection. *)
WorkInv ==
    working \cup storing # {} =>
        /\ nread = 1 /\ Len(sent) = 1 /\ sent[1].kind = "work"
        /\ keepalive = sent[1].keep_alive
        /\ answered = <<>> /\ sending = <<>> /\ completed = <<>>
        /\ strand \in {"idle", "pipeline"}
        /\ \/ working = {1} /\ storing = {} /\ items = <<>>
           \/ working = {} /\ storing = {1} /\ Len(items) = 1

(* Reading stops at the limit, and is resumed once when the queue shrinks. *)
ReadInv ==
    /\ reads <= 1 /\ Len(items) <= Limit
    /\ reads = 1 => Len(items) < Limit
    /\ strand \in {"stored", "pipeline"} => reads = 0
    /\ strand = "erased" => Len(items) < Limit /\ (was_full => reads = 0)

(* The response being written is the first in the queue until on_write has run. *)
WriteInv ==
    /\ Len(sending) + Len(completed) <= 1
    /\ sending # <<>> => items # <<>> /\ sending[1] = items[1]
    /\ completed # <<>> => items # <<>> /\ completed[1] = items[1]
    /\ sending # <<>> => sending[1].req = Len(answered) + 1
    /\ Len(completed) <= Len(answered)
    /\ strand = "stored" => items # <<>>
    /\ strand = "stored" /\ Len(items) = 1 => sending = <<>> /\ completed = <<>>
    /\ strand = "erased" => sending = <<>> /\ completed = <<>>
    /\ strand # "asserted"

\* How many responses have been received and erased from the queue.
Gone == Len(answered) - Len(completed)

\* The session is still to read: it is not stuck after an upgrade denied.
Live ==
    \/ reads = 1
    \/ strand \in {"stored", "pipeline"}
    \/ strand = "erased" /\ was_full
    \/ Len(items) >= Limit

(***************************************************************************)
(* The queue holds the responses to the requests that follow those         *)
(* answered, in their order, up to the last one read.                      *)
(***************************************************************************)
QueueInv ==
    /\ \A i \in 1 .. Len(items) : items[i].req <= nread
    /\ socket = "open" => /\ \A i \in 1 .. Len(items) : items[i].req = Gone + i
                          /\ Gone + Len(items) <= nread
                          /\ Live /\ working = {} => Gone + Len(items) = nread

UsageInv == Apart /\ Unread /\ WorkInv /\ ReadInv /\ WriteInv /\ QueueInv /\ CloseAsAsked

(***************************************************************************)
(* Requests are answered as they come.  The client has the answers to all  *)
(* that precede an upgrade, so that nothing is left to write when the      *)
(* socket moves and the answer to the upgrade is written.                  *)
(***************************************************************************)
AnswerInv ==
    /\ \A i \in 1 .. Len(answered) : answered[i] = i
    /\ Len(answered) <= nread
    /\ \A n \in DOMAIN sent : sent[n].kind \in Upgrades => Len(answered) >= n - 1
    /\ accepting => /\ socket \in {"moved", "closed"} /\ sending = <<>>
                    /\ Len(answered) = nread - 1 /\ sent[nread].kind = "upgrade"

SessionInv == TypeOK /\ UsageInv /\ AnswerInv

LEMMA Lengths ==
    ASSUME SequenceTypes
    PROVE  /\ Len(sent) \in Nat /\ DOMAIN sent = 1 .. Len(sent) /\ Len(answered) \in Nat
           /\ Len(sending) \in Nat /\ DOMAIN sending = 1 .. Len(sending)
           /\ Len(completed) \in Nat /\ Len(items) \in Nat
           /\ (sent = <<>> \/ Len(sent) > 0) /\ (answered = <<>> \/ Len(answered) > 0)
           /\ (sending = <<>> \/ Len(sending) > 0) /\ (completed = <<>> \/ Len(completed) > 0)
           /\ (items = <<>> \/ Len(items) > 0)
BY EmptySeq, LenProperties DEF SequenceTypes

(* A session that reads a request is not waiting for the pool. *)
LEMMA PoolIdle ==
    ASSUME WorkInv, nread < Len(sent)
    PROVE  working = {} /\ storing = {}
<1> SUFFICES ASSUME working \cup storing # {}
             PROVE  FALSE
    OBVIOUS
<1>1. nread = 1 /\ Len(sent) = 1
    BY DEF WorkInv
<1> QED BY <1>1

(* A response in the queue is to a request that has been read. *)
LEMMA Queued ==
    ASSUME SequenceTypes, ControlTypes, QueueInv, NEW i \in DOMAIN items
    PROVE  i \in 1 .. Len(items) /\ items[i] \in Response /\ items[i].req \in 1 .. Len(sent)
<1>1. i \in 1 .. Len(items) /\ items \in Seq(Response)
    BY LenProperties DEF SequenceTypes
<1>2. items[i] \in Response
    BY <1>1, ElementOfSeq
<1>3. items[i].req \in Nat \ {0}
    BY <1>2 DEF Response
<1> QED BY <1>1, <1>2, <1>3, Lengths DEF ControlTypes, QueueInv

(* Of two operations at most one is under way. *)
LEMMA OneOf ==
    ASSUME NEW m \in Nat, NEW n \in Nat, m + n <= 1, n > 0
    PROVE  n = 1 /\ m = 0
OBVIOUS

LEMMA InitUsageInv == Separate /\ Init => UsageInv
<1> SUFFICES ASSUME Separate, Init
             PROVE  UsageInv
    OBVIOUS
<1>1. Apart /\ Unread /\ WorkInv /\ CloseAsAsked
    BY DEF Init, Apart, Unread, WorkInv, CloseAsAsked
<1>2. Limit \in Nat /\ Limit >= 2
    BY HttpSessionAssumption DEF Separate
<1>3. ReadInv
    BY <1>2 DEF Init, ReadInv
<1>4. WriteInv
    BY DEF Init, WriteInv
<1>5. QueueInv
    BY <1>2 DEF Init, QueueInv, Gone
<1> QED BY <1>1, <1>3, <1>4, <1>5 DEF UsageInv

(***************************************************************************)
(* Send: a work request comes first, and the next request only once that   *)
(* one is answered.                                                        *)
(***************************************************************************)
LEMMA SendKeeps ==
    ASSUME Separate, SessionInv, Send
    PROVE  UsageInv'
<1>1. SequenceTypes /\ ControlTypes /\ UsageInv
    BY TypeParts DEF SessionInv
<1>2. /\ UNCHANGED <<answered, socket, nread, reads, sending, completed, items, keepalive,
                     strand, was_full, working, storing>>
    BY DEF Send, poolVars
<1>3. PICK request \in Request : MaySend(request) /\ sent' = Append(sent, request)
    BY DEF Send
<1>4. /\ Len(sent') = Len(sent) + 1 /\ sent'[Len(sent) + 1] = request
      /\ \A i \in 1 .. Len(sent) : sent'[i] = sent[i]
      /\ sent' # <<>> /\ DOMAIN sent' = 1 .. Len(sent) + 1
    BY <1>1, <1>3, AppendProperties, LenProperties DEF SequenceTypes
<1>5. (request.kind = "work" => sent = <<>>) /\ \A n \in Unanswered : sent[n].kind # "work"
    BY <1>3 DEF Separate, MaySend
<1>6. ASSUME sent # <<>>, sent[1].kind = "work"
      PROVE  answered # <<>>
    <2>1. 1 \in Range(answered)
        BY <1>1, <1>5, <1>6, Lengths DEF Unanswered
    <2> QED BY <2>1 DEF Range
<1>7. Apart'
    <2>1. ASSUME NEW n \in DOMAIN sent', sent'[n].kind = "work"
          PROVE  n = 1
        BY <1>1, <1>4, <1>5, <2>1, Lengths DEF UsageInv, Apart
    <2>2. ASSUME sent'[1].kind = "work"
          PROVE  Len(sent') = 1 \/ answered' # <<>>
        BY <1>1, <1>2, <1>4, <1>6, <2>2, Lengths
    <2> QED BY <2>1, <2>2 DEF Apart
<1>8. WorkInv'
    <2>1. working \cup storing = {}
        BY <1>1, <1>6, Lengths DEF UsageInv, WorkInv
    <2> QED BY <1>2, <2>1 DEF WorkInv
<1>9. QueueInv' /\ CloseAsAsked'
    <2>1. QueueInv'
        BY <1>1, <1>2 DEF UsageInv, QueueInv, Gone, Live
    <2>2. ASSUME NEW i \in DOMAIN items
          PROVE  items[i].close = ~sent'[items[i].req].keep_alive
        <3>1. sent'[items[i].req] = sent[items[i].req]
            BY <1>1, <1>4, Queued DEF UsageInv
        <3>2. items[i].close = ~sent[items[i].req].keep_alive
            BY <1>1 DEF UsageInv, CloseAsAsked
        <3> QED BY <3>1, <3>2
    <2> QED BY <1>2, <2>1, <2>2 DEF CloseAsAsked
<1>10. Unread' /\ ReadInv' /\ WriteInv'
    BY <1>1, <1>2 DEF UsageInv, Unread, ReadInv, WriteInv
<1> QED BY <1>7, <1>8, <1>9, <1>10 DEF UsageInv

(* The connection ends, or the session reads something that is not answered. *)
LEMMA UnansweredKeeps ==
    ASSUME SessionInv,
           HalfClose \/ Lost \/ ReadUpgrade \/ ReadDenied \/ ReadEndOfStream \/ ReadFails
             \/ AcceptFails
    PROVE  UsageInv'
<1>1. SequenceTypes /\ ControlTypes /\ UsageInv
    BY TypeParts DEF SessionInv
<1>2. UNCHANGED <<sent, answered, sending, completed, items, keepalive, strand, was_full,
                  working, storing>>
    BY DEF HalfClose, Lost, ReadUpgrade, ReadDenied, ReadEndOfStream, ReadFails, AcceptFails,
           clientVars, poolVars
<1>3. reads' = reads \/ (reads > 0 /\ reads' = reads - 1 /\ strand = "idle")
    BY DEF HalfClose, Lost, ReadUpgrade, ReadDenied, ReadEndOfStream, ReadFails, AcceptFails,
        Read
<1>4. nread' = nread \/ (nread' = nread + 1 /\ nread < Len(sent))
    BY DEF HalfClose, Lost, ReadUpgrade, ReadDenied, ReadEndOfStream, ReadFails, AcceptFails,
        Read
<1>5. reads' = reads \/ (reads = 1 /\ reads' = 0 /\ strand = "idle")
    BY <1>1, <1>3 DEF ControlTypes, UsageInv, ReadInv
<1>6. Apart' /\ WriteInv' /\ CloseAsAsked'
    BY <1>1, <1>2 DEF UsageInv, Apart, WriteInv, CloseAsAsked
<1>7. ReadInv'
    BY <1>1, <1>2, <1>5 DEF UsageInv, ReadInv
<1>8. Unread' /\ WorkInv'
    <2>1. nread \in Nat
        BY <1>1 DEF ControlTypes
    <2>2. Unread'
        BY <1>1, <1>2, <1>4, <2>1 DEF UsageInv, Unread
    <2>3. nread' = nread \/ working \cup storing = {}
        BY <1>1, <1>4, <2>1, PoolIdle DEF UsageInv
    <2>4. WorkInv'
        BY <1>1, <1>2, <2>3 DEF UsageInv, WorkInv
    <2> QED BY <2>2, <2>4
<1>9. QueueInv'
    <2>1. nread \in Nat /\ nread <= nread'
        BY <1>1, <1>4 DEF ControlTypes
    <2>2. \A i \in 1 .. Len(items) : items[i].req \in Nat /\ items[i].req <= nread
        BY <1>1, Queued, Lengths DEF UsageInv, QueueInv
    <2>3. \A i \in 1 .. Len(items) : items[i].req <= nread'
        BY <2>1, <2>2, <1>4
    <2>4. socket' = "open" => socket = "open"
        BY DEF HalfClose, Lost, ReadUpgrade, ReadDenied, ReadEndOfStream, ReadFails,
               AcceptFails
    <2>5. ASSUME socket' = "open", Live', nread' # nread
          PROVE  FALSE
        <3>1. reads' = 0 /\ reads = 1 /\ strand = "idle"
            BY <1>1, <1>3, <1>5, <2>5
               DEF ControlTypes, HalfClose, Lost, ReadUpgrade, ReadDenied, ReadEndOfStream,
                   ReadFails, AcceptFails, Read
        <3>2. Len(items) < Limit
            BY <1>1, <3>1 DEF UsageInv, ReadInv
        <3> QED BY <1>1, <1>2, <2>5, <3>1, <3>2, HttpSessionAssumption, Lengths DEF Live
    <2>6. Live' => Live
        BY <1>2, <1>5 DEF Live
    <2>7. Gone' = Gone /\ Gone \in Int /\ Len(items) \in Nat
        BY <1>1, <1>2, Lengths DEF Gone
    <2> QED BY <1>1, <1>2, <1>4, <2>1, <2>3, <2>4, <2>5, <2>6, <2>7 DEF UsageInv, QueueInv
<1> QED BY <1>6, <1>7, <1>8, <1>9 DEF UsageInv

(***************************************************************************)
(* ReadPage: the response goes behind those to the requests before.        *)
(***************************************************************************)
LEMMA ReadPageKeeps ==
    ASSUME Separate, SessionInv, ReadPage
    PROVE  UsageInv'
<1> DEFINE response == [req |-> nread', close |-> ~keepalive']
<1>1. SequenceTypes /\ ControlTypes /\ UsageInv
    BY TypeParts DEF SessionInv
<1>2. /\ strand = "idle" /\ reads > 0 /\ nread < Len(sent)
      /\ nread' = nread + 1 /\ reads' = reads - 1 /\ strand' = "stored"
      /\ keepalive' = sent[nread'].keep_alive /\ items' = Append(items, response)
      /\ UNCHANGED <<sent, answered, socket, sending, completed, was_full, working, storing>>
    BY DEF ReadPage, Read, clientVars, poolVars
<1>3. nread \in Nat /\ reads = 1 /\ reads' = 0 /\ Len(items) < Limit
    BY <1>1, <1>2 DEF ControlTypes, UsageInv, ReadInv
<1>4. working = {} /\ storing = {}
    BY <1>1, <1>2, PoolIdle DEF UsageInv
<1>5. response \in Response /\ response.req = nread + 1 /\ response.close = ~keepalive'
    <2>1. nread' \in 1 .. MaxRequests
        BY <1>1, <1>2, <1>3, Lengths, HttpSessionAssumption DEF SequenceTypes
    <2> QED BY <1>2, <2>1, ResponseType
<1> HIDE DEF response
<1>6. /\ Len(items') = Len(items) + 1 /\ items'[Len(items) + 1] = response /\ items' # <<>>
      /\ \A i \in 1 .. Len(items) : items'[i] = items[i]
      /\ DOMAIN items' = 1 .. Len(items) + 1
    BY <1>1, <1>2, <1>5, AppendProperties, LenProperties DEF SequenceTypes
<1>7. Apart' /\ Unread' /\ WorkInv'
    BY <1>1, <1>2, <1>3, <1>4 DEF UsageInv, Apart, Unread, WorkInv
<1>8. ReadInv'
    BY <1>1, <1>2, <1>3, <1>6, Lengths, HttpSessionAssumption DEF ReadInv
<1>9. WriteInv'
    <2>1. items # <<>> => items'[1] = items[1]
        BY <1>1, <1>6, Lengths
    <2>2. Len(items') = 1 => items = <<>>
        <3>1. Len(items) \in Nat /\ (items = <<>> \/ Len(items) > 0)
            BY <1>1, Lengths
        <3>2. Len(items') = Len(items) + 1
            BY <1>6
        <3> QED BY <3>1, <3>2
    <2> QED BY <1>1, <1>2, <1>6, <2>1, <2>2 DEF UsageInv, WriteInv
<1>10. QueueInv'
    <2>1. \A i \in 1 .. Len(items) : items[i].req \in Nat /\ items[i].req <= nread
        BY <1>1, Queued, Lengths DEF UsageInv, QueueInv
    <2>2. \A i \in 1 .. Len(items') : items'[i].req <= nread'
        BY <1>1, <1>2, <1>3, <1>5, <1>6, <2>1, Lengths
    <2>3. ASSUME socket' = "open"
          PROVE  /\ Gone + Len(items) = nread
                 /\ \A i \in 1 .. Len(items) : items[i].req = Gone + i
        BY <1>1, <1>2, <1>3, <1>4, <2>3 DEF UsageInv, QueueInv, Live
    <2>4. Gone' = Gone /\ Gone \in Int /\ Len(items) \in Nat
        BY <1>1, <1>2, Lengths DEF Gone
    <2>5. ASSUME socket' = "open"
          PROVE  /\ Gone' + Len(items') = nread'
                 /\ \A i \in 1 .. Len(items') : items'[i].req = Gone' + i
        BY <1>2, <1>3, <1>5, <1>6, <2>3, <2>4, <2>5
    <2> QED BY <1>2, <1>3, <2>2, <2>5 DEF QueueInv
<1>11. CloseAsAsked'
    <2> SUFFICES ASSUME NEW i \in DOMAIN items'
                 PROVE  items'[i].close = ~sent[items'[i].req].keep_alive
        BY <1>2 DEF CloseAsAsked
    <2>1. CASE i = Len(items) + 1
        <3>1. items'[i] = response /\ response.req = nread'
            BY <1>2, <1>5, <1>6, <2>1
        <3> QED BY <1>2, <1>5, <3>1
    <2>2. CASE i \in DOMAIN items
        <3>1. items'[i] = items[i]
            BY <1>1, <1>6, <2>2, Queued DEF UsageInv
        <3> QED BY <1>1, <2>2, <3>1 DEF UsageInv, CloseAsAsked
    <2> QED BY <1>1, <1>6, <2>1, <2>2, Lengths, LenProperties DEF SequenceTypes
<1> QED BY <1>7, <1>8, <1>9, <1>10, <1>11 DEF UsageInv

(***************************************************************************)
(* ReadWork: the request goes to the work_handler, and nothing has been    *)
(* answered before it.                                                     *)
(***************************************************************************)
LEMMA ReadWorkKeeps ==
    ASSUME Separate, SessionInv, ReadWork
    PROVE  UsageInv'
<1>1. SequenceTypes /\ ControlTypes /\ UsageInv
    BY TypeParts DEF SessionInv
<1>2. /\ strand = "idle" /\ reads > 0 /\ nread < Len(sent) /\ sent[nread + 1].kind = "work"
      /\ nread' = nread + 1 /\ reads' = reads - 1 /\ strand' = "pipeline"
      /\ keepalive' = sent[nread'].keep_alive /\ working' = working \cup {nread'}
      /\ UNCHANGED <<sent, answered, socket, sending, completed, items, was_full, storing>>
    BY DEF ReadWork, Read, clientVars
<1>3. nread = 0 /\ nread' = 1 /\ Len(sent) \in Nat /\ sent # <<>>
    BY <1>1, <1>2, Lengths DEF ControlTypes, UsageInv, Apart
<1>4. answered = <<>> /\ sending = <<>> /\ completed = <<>> /\ items = <<>>
    BY <1>1, <1>3 DEF UsageInv, Unread
<1>5. Len(sent) = 1
    BY <1>1, <1>2, <1>3, <1>4 DEF UsageInv, Apart
<1>6. working = {} /\ storing = {}
    BY <1>1, <1>2, PoolIdle DEF UsageInv
<1>7. reads' = 0
    BY <1>1, <1>2 DEF ControlTypes, UsageInv, ReadInv
<1>8. Apart' /\ Unread' /\ CloseAsAsked'
    BY <1>1, <1>2, <1>3, <1>4 DEF UsageInv, Apart, Unread, CloseAsAsked
<1>9. WorkInv'
    BY <1>2, <1>3, <1>4, <1>5, <1>6 DEF WorkInv
<1>10. ReadInv'
    <2>1. reads' = 0 /\ Len(items') = 0 /\ strand' = "pipeline"
        BY <1>2, <1>4, <1>7
    <2>2. Limit \in Nat
        BY HttpSessionAssumption
    <2> QED BY <2>1, <2>2 DEF ReadInv
<1>11. WriteInv'
    BY <1>2, <1>4 DEF WriteInv
<1>12. QueueInv'
    BY <1>2, <1>3, <1>4, <1>6 DEF QueueInv, Gone
<1> QED BY <1>8, <1>9, <1>10, <1>11, <1>12 DEF UsageInv

(***************************************************************************)
(* The writes that are started: of the first response in the queue, when   *)
(* none is under way.                                                      *)
(***************************************************************************)
LEMMA StartKeeps ==
    ASSUME SequenceTypes, WriteInv, QueueInv,
           items # <<>>, sending = <<>>, completed = <<>>, WriteFront,
           UNCHANGED <<answered, completed, items>>, strand' \in {"idle", "pipeline"}
    PROVE  WriteInv'
<1>1. CASE socket = "open"
    <2>1. sending' = <<items[1]>>
        BY <1>1, WriteFrontType
    <2>2. Len(answered) \in Nat /\ Len(items) \in Nat \ {0} /\ Len(completed) = 0
        BY Lengths
    <2>3. items[1].req = Len(answered) + 1
        BY <1>1, <2>2 DEF QueueInv, Gone
    <2> QED BY <2>1, <2>2, <2>3 DEF WriteInv
<1>2. CASE socket # "open"
    <2>1. sending' = <<>>
        BY <1>2, WriteFrontType
    <2> QED BY <2>1 DEF WriteInv
<1> QED BY <1>1, <1>2

LEMMA StartFirstKeeps ==
    ASSUME SessionInv, StartFirst
    PROVE  UsageInv'
<1>1. SequenceTypes /\ ControlTypes /\ UsageInv
    BY TypeParts DEF SessionInv
<1>2. /\ strand = "stored" /\ strand' = "pipeline"
      /\ UNCHANGED <<sent, answered, socket, nread, reads, completed, items, keepalive,
                     working, storing>>
      /\ IF Len(items) = 1 THEN WriteFront ELSE UNCHANGED sending
    BY DEF StartFirst, clientVars, poolVars
<1>3. items # <<>> /\ nread \in Nat /\ working = {} /\ storing = {}
    BY <1>1, <1>2 DEF ControlTypes, UsageInv, WriteInv, WorkInv
<1>4. nread # 0
    BY <1>1, <1>3 DEF UsageInv, Unread
<1>5. Apart' /\ Unread' /\ WorkInv' /\ CloseAsAsked'
    BY <1>1, <1>2, <1>3, <1>4 DEF UsageInv, Apart, Unread, WorkInv, CloseAsAsked
<1>6. ReadInv'
    BY <1>1, <1>2 DEF UsageInv, ReadInv
<1>7. WriteInv'
    <2>1. CASE Len(items) = 1
        BY <1>1, <1>2, <1>3, <2>1, StartKeeps DEF UsageInv, WriteInv
    <2>2. CASE Len(items) # 1
        BY <1>1, <1>2, <2>2 DEF UsageInv, WriteInv
    <2> QED BY <2>1, <2>2
<1>8. QueueInv'
    BY <1>1, <1>2 DEF UsageInv, QueueInv, Gone, Live
<1> QED BY <1>5, <1>6, <1>7, <1>8 DEF UsageInv

(* Pipeline: below the limit, reading goes on. *)
LEMMA PipelineKeeps ==
    ASSUME SessionInv, Pipeline
    PROVE  UsageInv'
<1>1. SequenceTypes /\ ControlTypes /\ UsageInv
    BY TypeParts DEF SessionInv
<1>2. /\ strand = "pipeline" /\ strand' = "idle"
      /\ UNCHANGED <<sent, answered, socket, nread, sending, completed, items, keepalive,
                     was_full, working, storing>>
      /\ reads' = IF Len(items) >= Limit THEN reads ELSE reads + 1
    BY DEF Pipeline, is_full, clientVars, poolVars
<1>3. reads = 0 /\ Len(items) \in Nat /\ Limit \in Nat
    BY <1>1, <1>2, Lengths, HttpSessionAssumption DEF UsageInv, ReadInv
<1>4. Apart' /\ Unread' /\ WorkInv' /\ CloseAsAsked'
    BY <1>1, <1>2 DEF UsageInv, Apart, Unread, WorkInv, CloseAsAsked
<1>5. ReadInv'
    BY <1>1, <1>2, <1>3 DEF UsageInv, ReadInv
<1>6. WriteInv'
    BY <1>1, <1>2 DEF UsageInv, WriteInv
<1>7. QueueInv'
    <2>1. Live
        BY <1>2 DEF Live
    <2> QED BY <1>1, <1>2, <2>1 DEF UsageInv, QueueInv, Gone
<1> QED BY <1>4, <1>5, <1>6, <1>7 DEF UsageInv

(***************************************************************************)
(* OnWrite: the response written is the first in the queue, and is erased  *)
(* unless it ends the connection.                                          *)
(***************************************************************************)
LEMMA OnWriteKeeps ==
    ASSUME SessionInv, OnWrite
    PROVE  UsageInv'
<1>1. SequenceTypes /\ ControlTypes /\ UsageInv
    BY TypeParts DEF SessionInv
<1>2. /\ strand = "idle" /\ completed # <<>> /\ completed' = Tail(completed)
      /\ UNCHANGED <<sent, answered, nread, reads, sending, keepalive, working, storing>>
    BY DEF OnWrite, clientVars, poolVars
<1>3. Len(completed) = 1 /\ sending = <<>> /\ items # <<>> /\ Len(answered) >= 1
    <2>1. /\ Len(completed) \in Nat /\ Len(completed) > 0 /\ Len(sending) \in Nat
          /\ (sending = <<>> \/ Len(sending) > 0) /\ Len(answered) \in Nat
        BY <1>1, <1>2, Lengths
    <2>2. /\ Len(sending) + Len(completed) <= 1 /\ items # <<>>
          /\ Len(completed) <= Len(answered)
        BY <1>1, <1>2 DEF UsageInv, WriteInv
    <2>3. Len(completed) = 1 /\ Len(sending) = 0
        BY <2>1, <2>2, OneOf
    <2>4. Len(answered) >= 1
        BY <2>1, <2>2
    <2> QED BY <2>1, <2>2, <2>3, <2>4
<1>4. completed' = <<>>
    <2>1. completed' \in Seq(Response) /\ Len(completed') = 0
        BY <1>1, <1>2, <1>3, Front DEF SequenceTypes
    <2> QED BY <2>1, EmptySeq
<1>5. working = {} /\ storing = {} /\ nread # 0
    BY <1>1, <1>2 DEF UsageInv, WorkInv, Unread
<1>6. Apart' /\ Unread' /\ WorkInv'
    BY <1>1, <1>2, <1>5 DEF UsageInv, Apart, Unread, WorkInv
<1>7. /\ Len(items) \in Nat \ {0} /\ Len(answered) \in Nat /\ Limit \in Nat
      /\ Len(completed') = 0 /\ Len(items) > 0 /\ Len(sending) = 0
    BY <1>1, <1>3, <1>4, Lengths, HttpSessionAssumption
<1>8. CASE Head(completed).close
    <2>1. UNCHANGED <<items, strand, was_full>> /\ socket' # "open"
        BY <1>8 DEF OnWrite
    <2>2. ReadInv' /\ CloseAsAsked'
        BY <1>1, <1>2, <2>1 DEF UsageInv, ReadInv, CloseAsAsked
    <2>3. WriteInv'
        BY <1>2, <1>3, <1>4, <1>7, <2>1 DEF WriteInv
    <2>4. QueueInv'
        BY <1>1, <1>2, <2>1 DEF UsageInv, QueueInv
    <2> QED BY <1>6, <2>2, <2>3, <2>4 DEF UsageInv
<1>9. CASE ~Head(completed).close
    <2>1. /\ was_full' = (Len(items) >= Limit) /\ items' = Tail(items) /\ strand' = "erased"
          /\ UNCHANGED socket
        BY <1>3, <1>9 DEF OnWrite, is_full
    <2>2. /\ items' \in Seq(Response) /\ Len(items') = Len(items) - 1
          /\ \A i \in 1 .. Len(items) - 1 : items'[i] = items[i + 1]
          /\ DOMAIN items' = 1 .. Len(items) - 1
        BY <1>1, <1>3, <2>1, Front, LenProperties DEF SequenceTypes
    <2>3. ReadInv'
        <3>1. was_full' => Len(items) >= Limit
            BY <2>1
        <3>2. was_full' => reads # 1
            BY <1>1, <1>7, <3>1 DEF UsageInv, ReadInv
        <3>3. reads \in Nat /\ reads <= 1 /\ Len(items) <= Limit
            BY <1>1 DEF ControlTypes, UsageInv, ReadInv
        <3> QED BY <1>2, <1>7, <2>1, <2>2, <3>2, <3>3 DEF ReadInv
    <2>4. WriteInv'
        <3>1. sending' = <<>> /\ completed' = <<>> /\ strand' = "erased"
            BY <1>2, <1>3, <1>4, <2>1
        <3>2. Len(sending') = 0 /\ Len(completed') = 0 /\ Len(answered') \in Nat
            BY <1>2, <1>7, <3>1
        <3> QED BY <3>1, <3>2 DEF WriteInv
    <2>5. CloseAsAsked'
        <3> SUFFICES ASSUME NEW i \in DOMAIN items'
                     PROVE  items'[i].close = ~sent[items'[i].req].keep_alive
            BY <1>2 DEF CloseAsAsked
        <3>1. i + 1 \in DOMAIN items /\ items'[i] = items[i + 1]
            BY <1>1, <1>7, <2>2, LenProperties DEF SequenceTypes
        <3> QED BY <1>1, <3>1 DEF UsageInv, CloseAsAsked
    <2>6. QueueInv'
        <3>1. \A i \in 1 .. Len(items') : items'[i].req <= nread
            BY <1>1, <1>7, <2>2 DEF UsageInv, QueueInv
        <3>2. Gone' = Gone + 1 /\ Gone \in Int
            <4>1. Len(completed) \in Nat /\ Len(completed) = 1 /\ Len(completed') = 0
                BY <1>3, <1>7
            <4>2. Len(answered) \in Nat /\ answered' = answered
                BY <1>2, <1>7
            <4> QED BY <4>1, <4>2 DEF Gone
        <3>3. Live' => Live
            <4>1. was_full' => Len(items) >= Limit
                BY <2>1
            <4>2. Len(items') >= Limit => Len(items) >= Limit
                BY <1>7, <2>2
            <4> QED BY <1>2, <2>1, <4>1, <4>2 DEF Live
        <3>4. ASSUME socket = "open"
              PROVE  /\ Gone' + Len(items') <= nread
                     /\ Live => Gone' + Len(items') = nread
                     /\ \A i \in 1 .. Len(items') : items'[i].req = Gone' + i
            <4>1. /\ \A i \in 1 .. Len(items) : items[i].req = Gone + i
                  /\ Gone + Len(items) <= nread
                  /\ Live => Gone + Len(items) = nread
                BY <1>1, <1>5, <3>4 DEF UsageInv, QueueInv
            <4>2. Gone' + Len(items') = Gone + Len(items)
                BY <1>7, <2>2, <3>2
            <4>3. \A i \in 1 .. Len(items') : items'[i].req = Gone + (i + 1)
                BY <1>7, <2>2, <4>1
            <4> QED BY <2>2, <3>2, <4>1, <4>2, <4>3, <1>7
        <3> QED BY <1>2, <2>1, <3>1, <3>3, <3>4 DEF QueueInv
    <2> QED BY <1>6, <2>3, <2>4, <2>5, <2>6 DEF UsageInv
<1> QED BY <1>8, <1>9

(* StartNext: the next response is written, and reading goes on if it had stopped. *)
LEMMA StartNextKeeps ==
    ASSUME SessionInv, StartNext
    PROVE  UsageInv'
<1>1. SequenceTypes /\ ControlTypes /\ UsageInv
    BY TypeParts DEF SessionInv
<1>2. /\ strand = "erased" /\ strand' = "idle"
      /\ UNCHANGED <<sent, answered, socket, nread, completed, items, keepalive, was_full,
                     working, storing>>
      /\ IF items # <<>> THEN WriteFront ELSE UNCHANGED sending
      /\ reads' = IF was_full THEN reads + 1 ELSE reads
    BY DEF StartNext, clientVars, poolVars
<1>3. working = {} /\ storing = {} /\ sending = <<>> /\ completed = <<>>
    BY <1>1, <1>2 DEF UsageInv, WorkInv, WriteInv
<1>4. Apart' /\ WorkInv' /\ CloseAsAsked'
    BY <1>1, <1>2, <1>3 DEF UsageInv, Apart, WorkInv, CloseAsAsked
<1>5. Unread'
    BY <1>1, <1>2 DEF UsageInv, Unread
<1>6. ReadInv'
    <2>1. was_full => reads = 0
        BY <1>1, <1>2 DEF UsageInv, ReadInv
    <2>2. reads' <= 1
        BY <1>1, <1>2, <2>1 DEF UsageInv, ReadInv
    <2>3. Len(items) < Limit
        BY <1>1, <1>2 DEF UsageInv, ReadInv
    <2> QED BY <1>1, <1>2, <2>2, <2>3 DEF UsageInv, ReadInv
<1>7. WriteInv'
    <2>1. CASE items # <<>>
        BY <1>1, <1>2, <1>3, <2>1, StartKeeps DEF UsageInv
    <2>2. CASE items = <<>>
        BY <1>1, <1>2, <1>3, <2>2 DEF UsageInv, WriteInv
    <2> QED BY <2>1, <2>2
<1>8. QueueInv'
    <2>1. reads' = 1 => reads = 1 \/ was_full
        BY <1>2
    <2>2. Live' => Live
        BY <1>2, <2>1 DEF Live
    <2> QED BY <1>1, <1>2, <2>2 DEF UsageInv, QueueInv, Gone
<1> QED BY <1>4, <1>5, <1>6, <1>7, <1>8 DEF UsageInv

(***************************************************************************)
(* A write ends: the client has the next response, or never gets it.       *)
(***************************************************************************)
LEMMA SendingOne ==
    ASSUME SessionInv, NEW i \in DOMAIN sending
    PROVE  /\ i = 1 /\ sending # <<>> /\ completed = <<>> /\ Without(sending, i) = <<>>
           /\ items # <<>> /\ sending[1] = items[1] /\ sending[1] \in Response
           /\ sending[1].req = Len(answered) + 1
           /\ working = {} /\ storing = {} /\ nread # 0 /\ strand # "erased"
           /\ strand = "stored" => Len(items) # 1
<1>1. SequenceTypes /\ ControlTypes /\ UsageInv
    BY TypeParts DEF SessionInv
<1>2. Len(sending) \in Nat /\ i \in 1 .. Len(sending) /\ Len(completed) \in Nat
    BY <1>1, Lengths
<1>3. Len(sending) > 0
    BY <1>2
<1>4. Len(sending) = 1 /\ Len(completed) = 0
    <2>1. Len(completed) + Len(sending) <= 1
        BY <1>1, <1>2 DEF UsageInv, WriteInv
    <2> QED BY <1>2, <1>3, <2>1, OneOf
<1>5. i = 1 /\ sending # <<>> /\ completed = <<>>
    BY <1>1, <1>2, <1>4, Lengths
<1>6. Without(sending, i) = <<>> /\ sending[1] \in Response
    BY <1>1, <1>4, <1>5, WithoutType, ElementOfSeq DEF SequenceTypes
<1> QED BY <1>1, <1>5, <1>6 DEF UsageInv, Unread, WorkInv, WriteInv

LEMMA DeliverKeeps ==
    ASSUME SessionInv, NEW i \in DOMAIN sending, Deliver(i)
    PROVE  UsageInv'
<1>1. SequenceTypes /\ ControlTypes /\ UsageInv
    BY TypeParts DEF SessionInv
<1>2. /\ UNCHANGED <<sent, socket, nread, reads, items, keepalive, strand, was_full, working,
                     storing>>
      /\ answered' = Append(answered, sending[1].req) /\ completed' = <<sending[1]>>
      /\ sending' = <<>>
    <2>1. i = 1 /\ completed = <<>> /\ Without(sending, i) = <<>> /\ sending[1] \in Response
        BY SendingOne
    <2>2. Append(completed, sending[1]) = <<sending[1]>>
        BY <2>1
    <2> QED BY <2>1, <2>2 DEF Deliver, clientVars, poolVars
<1>3. sending[1].req \in 1 .. MaxRequests
    BY SendingOne DEF Response
<1>4. answered' # <<>> /\ Len(answered') = Len(answered) + 1 /\ Len(answered) \in Nat
    BY <1>1, <1>2, <1>3, AppendProperties, Lengths DEF SequenceTypes
<1>5. Len(completed') = 1 /\ Len(completed) = 0 /\ Len(sending') = 0
    BY <1>2, SendingOne
<1>6. Apart' /\ CloseAsAsked'
    BY <1>1, <1>2, <1>4 DEF UsageInv, Apart, CloseAsAsked
<1>7. Unread' /\ WorkInv'
    BY <1>2, SendingOne DEF Unread, WorkInv
<1>8. ReadInv'
    BY <1>1, <1>2 DEF UsageInv, ReadInv
<1>9. WriteInv'
    <2>1. completed' # <<>> /\ completed'[1] = items[1]
        BY <1>2, SendingOne
    <2>2. Len(sending') + Len(completed') <= 1 /\ Len(completed') <= Len(answered')
        BY <1>4, <1>5
    <2> QED BY <1>1, <1>2, <2>1, <2>2, SendingOne DEF UsageInv, WriteInv
<1>10. QueueInv'
    <2>1. Gone' = Gone
        BY <1>4, <1>5 DEF Gone
    <2> QED BY <1>1, <1>2, <2>1 DEF UsageInv, QueueInv, Live
<1> QED BY <1>6, <1>7, <1>8, <1>9, <1>10 DEF UsageInv

LEMMA WriteFailsKeeps ==
    ASSUME SessionInv, NEW i \in DOMAIN sending, WriteFails(i)
    PROVE  UsageInv'
<1>1. SequenceTypes /\ ControlTypes /\ UsageInv
    BY TypeParts DEF SessionInv
<1>2. /\ UNCHANGED <<sent, answered, socket, nread, reads, completed, items, keepalive, strand,
                     was_full, working, storing>>
      /\ sending' = <<>> /\ socket # "open"
    BY SendingOne DEF WriteFails, clientVars, poolVars
<1>3. Apart' /\ CloseAsAsked'
    BY <1>1, <1>2 DEF UsageInv, Apart, CloseAsAsked
<1>4. Unread' /\ WorkInv'
    BY <1>2, SendingOne DEF Unread, WorkInv
<1>5. ReadInv'
    BY <1>1, <1>2 DEF UsageInv, ReadInv
<1>6. WriteInv'
    <2>1. Len(sending') = 0 /\ Len(completed') = 0 /\ completed' = <<>>
        BY <1>2, SendingOne
    <2> QED BY <1>1, <1>2, <2>1, Lengths, SendingOne DEF UsageInv, WriteInv
<1>7. QueueInv'
    BY <1>1, <1>2 DEF UsageInv, QueueInv
<1> QED BY <1>3, <1>4, <1>5, <1>6, <1>7 DEF UsageInv

(* The answer to an upgrade is received: nothing else is going on. *)
LEMMA AcceptedKeeps ==
    ASSUME SessionInv, Accepted
    PROVE  UsageInv'
<1>1. SequenceTypes /\ ControlTypes /\ UsageInv
    BY TypeParts DEF SessionInv
<1>2. /\ UNCHANGED <<sent, socket, nread, reads, sending, completed, items, keepalive, strand,
                     was_full, working, storing>>
      /\ answered' = Append(answered, nread)
    BY DEF Accepted, clientVars, poolVars
<1>3. /\ socket # "open" /\ sending = <<>> /\ Len(answered) = nread - 1
      /\ sent[nread].kind = "upgrade" /\ nread \in Nat \ {0}
    BY <1>1 DEF SessionInv, AnswerInv, Accepted, ControlTypes
<1>4. answered' # <<>> /\ Len(answered') = Len(answered) + 1 /\ Len(answered) \in Nat
    BY <1>1, <1>2, <1>3, AppendProperties, Lengths DEF SequenceTypes
<1>5. working = {} /\ storing = {}
    BY <1>1, <1>3 DEF UsageInv, WorkInv
<1>6. Apart' /\ Unread' /\ WorkInv' /\ CloseAsAsked'
    BY <1>1, <1>2, <1>3, <1>4, <1>5 DEF UsageInv, Apart, Unread, WorkInv, CloseAsAsked
<1>7. ReadInv' /\ QueueInv'
    BY <1>1, <1>2, <1>3 DEF UsageInv, ReadInv, QueueInv
<1>8. WriteInv'
    <2>1. Len(completed) \in Nat /\ Len(completed) <= Len(answered')
        BY <1>1, <1>4, Lengths DEF UsageInv, WriteInv
    <2> QED BY <1>1, <1>2, <1>3, <2>1 DEF UsageInv, WriteInv
<1> QED BY <1>6, <1>7, <1>8 DEF UsageInv

-------------------------------------------------------------------------------
(***************************************************************************)
(* The pool: its response is the first of the connection.                  *)
(***************************************************************************)
LEMMA PoolStoreKeeps ==
    ASSUME Separate, SessionInv, NEW n \in 1 .. MaxRequests, PoolStore(n)
    PROVE  UsageInv'
<1> DEFINE response == [req |-> n, close |-> ~keepalive]
<1>1. SequenceTypes /\ ControlTypes /\ UsageInv
    BY TypeParts DEF SessionInv
<1>2. /\ n \in working /\ working' = working \ {n} /\ storing' = storing \cup {n}
      /\ items' = Append(items, response)
      /\ UNCHANGED <<sent, answered, socket, nread, reads, sending, completed, keepalive, strand,
                     was_full>>
    BY DEF PoolStore, clientVars
<1>3. /\ nread = 1 /\ Len(sent) = 1 /\ keepalive = sent[1].keep_alive
      /\ answered = <<>> /\ sending = <<>> /\ completed = <<>>
      /\ strand \in {"idle", "pipeline"}
      /\ working = {1} /\ storing = {} /\ items = <<>>
    BY <1>1, <1>2 DEF UsageInv, WorkInv
<1>4. n = 1 /\ working' = {} /\ storing' = {1}
    BY <1>2, <1>3
<1>5. response \in Response /\ response.req = 1 /\ response.close = ~sent[1].keep_alive
    BY <1>1, <1>3, <1>4, ResponseType DEF ControlTypes
<1> HIDE DEF response
<1>6. items' = <<response>>
    BY <1>2, <1>3
<1>7. Len(items') = 1 /\ items' # <<>> /\ DOMAIN items' = {1} /\ items'[1] = response
    BY <1>6
<1>8. Limit \in Nat /\ Limit >= 2
    BY HttpSessionAssumption DEF Separate
<1>9. Apart' /\ Unread'
    BY <1>1, <1>2, <1>3 DEF UsageInv, Apart, Unread
<1>10. WorkInv'
    BY <1>1, <1>2, <1>3, <1>4, <1>7 DEF UsageInv, WorkInv
<1>11. ReadInv'
    BY <1>1, <1>2, <1>3, <1>7, <1>8 DEF UsageInv, ReadInv
<1>12. WriteInv'
    BY <1>2, <1>3, <1>7 DEF WriteInv
<1>13. QueueInv'
    <2>1. Gone' = 0
        BY <1>2, <1>3 DEF Gone
    <2> QED BY <1>2, <1>3, <1>5, <1>7, <2>1 DEF QueueInv
<1>14. CloseAsAsked'
    BY <1>2, <1>5, <1>7 DEF CloseAsAsked
<1> QED BY <1>9, <1>10, <1>11, <1>12, <1>13, <1>14 DEF UsageInv

LEMMA PoolStartKeeps ==
    ASSUME SessionInv, NEW n \in 1 .. MaxRequests, PoolStart(n)
    PROVE  UsageInv'
<1>1. SequenceTypes /\ ControlTypes /\ UsageInv
    BY TypeParts DEF SessionInv
<1>2. /\ n \in storing /\ storing' = storing \ {n}
      /\ IF Len(items) = 1 THEN WriteFront ELSE UNCHANGED sending
      /\ UNCHANGED <<sent, answered, socket, nread, reads, completed, items, keepalive, strand,
                     was_full, working>>
    BY DEF PoolStart, clientVars
<1>3. /\ nread = 1 /\ sending = <<>> /\ completed = <<>>
      /\ strand \in {"idle", "pipeline"}
      /\ working = {} /\ storing = {1} /\ Len(items) = 1
    BY <1>1, <1>2 DEF UsageInv, WorkInv
<1>4. items # <<>> /\ WriteFront /\ storing' = {}
    BY <1>2, <1>3
<1>5. Apart' /\ Unread' /\ WorkInv' /\ CloseAsAsked'
    BY <1>1, <1>2, <1>3, <1>4 DEF UsageInv, Apart, Unread, WorkInv, CloseAsAsked
<1>6. ReadInv'
    BY <1>1, <1>2 DEF UsageInv, ReadInv
<1>7. WriteInv'
    BY <1>1, <1>2, <1>3, <1>4, StartKeeps DEF UsageInv
<1>8. QueueInv'
    BY <1>1, <1>2 DEF UsageInv, QueueInv, Gone, Live
<1> QED BY <1>5, <1>6, <1>7, <1>8 DEF UsageInv

-------------------------------------------------------------------------------
(***************************************************************************)
(* The answers: most steps neither send nor answer anything, and start no  *)
(* write while an upgrade is being answered, as the socket has moved.      *)
(***************************************************************************)
LEMMA AnswerStays ==
    ASSUME SessionInv, UNCHANGED <<sent, answered, accepting>>, nread' \in Nat, nread' >= nread,
           accepting => nread' = nread /\ socket' \in {"moved", "closed"} /\ sending' = <<>>
    PROVE  AnswerInv'
<1>1. Len(answered) \in Nat /\ nread \in Nat
    BY TypeParts, Lengths DEF SessionInv, ControlTypes
<1>2. /\ \A i \in 1 .. Len(answered) : answered[i] = i
      /\ \A n \in DOMAIN sent : sent[n].kind \in Upgrades => Len(answered) >= n - 1
    BY DEF SessionInv, AnswerInv
<1>3. Len(answered) <= nread'
    <2>1. Len(answered) <= nread
        BY DEF SessionInv, AnswerInv
    <2> QED BY <1>1, <2>1
<1>4. accepting => /\ socket' \in {"moved", "closed"} /\ sending' = <<>>
                   /\ Len(answered) = nread' - 1 /\ sent[nread'].kind = "upgrade"
    BY DEF SessionInv, AnswerInv
<1> QED BY <1>2, <1>3, <1>4 DEF AnswerInv

LEMMA AnswerSend ==
    ASSUME Separate, SessionInv, Send
    PROVE  AnswerInv'
<1>1. SequenceTypes /\ ControlTypes /\ UsageInv /\ AnswerInv
    BY TypeParts DEF SessionInv
<1>2. PICK request \in Request : MaySend(request) /\ sent' = Append(sent, request)
    BY DEF Send
<1>3. /\ sent'[Len(sent) + 1] = request /\ DOMAIN sent' = 1 .. Len(sent) + 1
      /\ \A i \in 1 .. Len(sent) : sent'[i] = sent[i]
    BY <1>1, <1>2, AppendProperties, LenProperties DEF SequenceTypes
<1>4. UNCHANGED <<answered, nread, accepting, socket, sending>>
    BY DEF Send
<1>5. ASSUME request.kind \in Upgrades
      PROVE  Len(answered) >= Len(sent)
    <2>1. Len(answered) \in Nat /\ Len(sent) \in Nat /\ DOMAIN answered = 1 .. Len(answered)
        BY <1>1, Lengths, LenProperties DEF SequenceTypes
    <2>2. CASE Len(sent) = 0
        BY <2>1, <2>2
    <2>3. CASE Len(sent) # 0
        <3>1. Len(sent) \in DOMAIN sent
            BY <1>1, <2>1, <2>3, Lengths
        <3>2. Len(sent) \in Range(answered)
            BY <1>2, <1>5, <3>1 DEF MaySend, Unanswered, Separate
        <3>3. PICK i \in 1 .. Len(answered) : answered[i] = Len(sent)
            BY <2>1, <3>2 DEF Range
        <3> QED BY <1>1, <2>1, <3>3 DEF AnswerInv
    <2> QED BY <2>2, <2>3
<1>6. ASSUME NEW n \in DOMAIN sent', sent'[n].kind \in Upgrades
      PROVE  Len(answered) >= n - 1
    <2>1. CASE n = Len(sent) + 1
        BY <1>1, <1>3, <1>5, <1>6, <2>1, Lengths
    <2>2. CASE n \in DOMAIN sent
        BY <1>1, <1>3, <1>6, <2>2, Lengths DEF AnswerInv
    <2> QED BY <1>1, <1>3, <2>1, <2>2, Lengths
<1>7. nread # 0 => sent'[nread] = sent[nread]
    BY <1>1, <1>3, Lengths DEF ControlTypes
<1> QED BY <1>1, <1>4, <1>6, <1>7 DEF AnswerInv, ControlTypes

(* An upgrade is read: nothing is being written. *)
LEMMA AnswerUpgrade ==
    ASSUME SessionInv, ReadUpgrade
    PROVE  AnswerInv'
<1>1. SequenceTypes /\ ControlTypes /\ UsageInv /\ AnswerInv
    BY TypeParts DEF SessionInv
<1>2. /\ UNCHANGED <<sent, answered, sending>> /\ nread' = nread + 1 /\ nread < Len(sent)
      /\ sent[nread + 1].kind = "upgrade" /\ socket' \in {"moved", "closed"}
    BY DEF ReadUpgrade, Read, clientVars
<1>3. Len(answered) \in Nat /\ nread \in Nat /\ nread + 1 \in DOMAIN sent
    BY <1>1, <1>2, Lengths DEF ControlTypes
<1>4. Len(answered) = nread
    <2>1. Len(answered) <= nread
        BY <1>1 DEF AnswerInv
    <2>2. Len(answered) >= (nread + 1) - 1
        BY <1>1, <1>2, <1>3 DEF AnswerInv, Upgrades
    <2> QED BY <1>3, <2>1, <2>2
<1>5. sending = <<>>
    <2> SUFFICES ASSUME sending # <<>>
                 PROVE  FALSE
        OBVIOUS
    <2>1. 1 \in DOMAIN sending
        BY <1>1, Lengths
    <2>2. items # <<>> /\ sending[1] = items[1] /\ sending[1].req = Len(answered) + 1
        BY <2>1, SendingOne
    <2>3. items[1].req <= nread
        BY <1>1, <2>2, Lengths DEF UsageInv, QueueInv
    <2> QED BY <1>3, <1>4, <2>2, <2>3
<1> QED BY <1>1, <1>2, <1>3, <1>4, <1>5 DEF AnswerInv

(* One more answer is received, to the request after those answered. *)
LEMMA OneMoreAnswer ==
    ASSUME AnswerInv, UNCHANGED <<sent, nread>>, ~accepting', nread \in Nat,
           Len(answered) \in Nat, Len(answered) + 1 <= nread, Len(answered') = Len(answered) + 1,
           answered'[Len(answered) + 1] = Len(answered) + 1,
           \A k \in 1 .. Len(answered) : answered'[k] = answered[k],
           DOMAIN sent \subseteq Nat
    PROVE  AnswerInv'
<1>1. \A i \in 1 .. Len(answered') : answered'[i] = i
    BY DEF AnswerInv
<1>2. Len(answered') <= nread'
    OBVIOUS
<1>3. \A n \in DOMAIN sent : sent[n].kind \in Upgrades => Len(answered') >= n - 1
    BY DEF AnswerInv
<1> QED BY <1>1, <1>2, <1>3 DEF AnswerInv

LEMMA AnswerDeliver ==
    ASSUME SessionInv, NEW i \in DOMAIN sending, Deliver(i)
    PROVE  AnswerInv'
<1>1. SequenceTypes /\ ControlTypes /\ UsageInv /\ AnswerInv
    BY TypeParts DEF SessionInv
<1>2. /\ answered' = Append(answered, Len(answered) + 1) /\ items # <<>>
      /\ items[1].req = Len(answered) + 1 /\ sending # <<>>
      /\ UNCHANGED <<sent, nread, accepting>>
    BY SendingOne DEF Deliver, clientVars
<1>3. /\ Len(answered) \in Nat /\ nread \in Nat /\ ~accepting /\ ~accepting'
      /\ DOMAIN sent \subseteq Nat
    BY <1>1, <1>2, Lengths DEF ControlTypes, AnswerInv
<1>4. Len(answered) + 1 <= nread
    BY <1>1, <1>2, Lengths DEF UsageInv, QueueInv
<1>5. /\ Len(answered') = Len(answered) + 1 /\ answered'[Len(answered) + 1] = Len(answered) + 1
      /\ \A k \in 1 .. Len(answered) : answered'[k] = answered[k]
    <2>1. Len(answered) + 1 \in 1 .. MaxRequests
        BY <1>2, SendingOne DEF Response
    <2> QED BY <1>1, <1>2, <2>1, AppendProperties DEF SequenceTypes
<1> QED BY <1>1, <1>2, <1>3, <1>4, <1>5, OneMoreAnswer

LEMMA AnswerAccepted ==
    ASSUME SessionInv, Accepted
    PROVE  AnswerInv' /\ nread = Len(answered) + 1
<1>1. SequenceTypes /\ ControlTypes /\ UsageInv /\ AnswerInv
    BY TypeParts DEF SessionInv
<1>2. /\ answered' = Append(answered, nread) /\ ~accepting' /\ UNCHANGED <<sent, nread>>
      /\ Len(answered) = nread - 1
    BY <1>1 DEF Accepted, clientVars, AnswerInv
<1>3. /\ Len(answered) \in Nat /\ nread \in Nat /\ nread = Len(answered) + 1
      /\ DOMAIN sent \subseteq Nat
    BY <1>1, <1>2, Lengths DEF ControlTypes
<1>4. /\ Len(answered') = Len(answered) + 1 /\ answered'[Len(answered) + 1] = nread
      /\ \A k \in 1 .. Len(answered) : answered'[k] = answered[k]
    <2>1. nread \in 1 .. MaxRequests
        BY <1>1, <1>3, Lengths, HttpSessionAssumption DEF ControlTypes, SequenceTypes
    <2> QED BY <1>1, <1>2, <1>3, <2>1, AppendProperties DEF SequenceTypes
<1> QED BY <1>1, <1>2, <1>3, <1>4, OneMoreAnswer

LEMMA AnswerKeeps ==
    ASSUME Separate, SessionInv, Next
    PROVE  AnswerInv'
<1>1. SequenceTypes /\ ControlTypes /\ UsageInv /\ AnswerInv
    BY TypeParts DEF SessionInv
<1>2. nread \in Nat
    BY <1>1 DEF ControlTypes
<1>3. CASE HalfClose \/ Lost \/ ReadPage \/ ReadWork \/ ReadDenied \/ ReadEndOfStream
           \/ ReadFails \/ Pipeline \/ OnWrite
           \/ \E n \in 1 .. MaxRequests : PoolStore(n)
    <2>1. UNCHANGED <<sent, answered, accepting, sending>> /\ nread' \in {nread, nread + 1}
        BY <1>3 DEF clientVars, HalfClose, Lost, ReadPage, ReadWork, ReadDenied,
            ReadEndOfStream, ReadFails, Read, Pipeline, OnWrite, PoolStore
    <2>2. ASSUME accepting
          PROVE  nread' = nread /\ socket' \in {"moved", "closed"}
        BY <1>1, <1>3, <2>2 DEF AnswerInv, HalfClose, Lost, ReadPage, ReadWork, ReadDenied,
            ReadEndOfStream, ReadFails, Read, Pipeline, OnWrite, PoolStore
    <2>3. nread' \in Nat /\ nread' >= nread
        BY <1>2, <2>1
    <2>4. accepting => sending' = <<>>
        BY <1>1, <2>1 DEF AnswerInv
    <2> QED BY <2>1, <2>2, <2>3, <2>4, AnswerStays
<1>4. CASE StartFirst \/ StartNext \/ \E n \in 1 .. MaxRequests : PoolStart(n)
    <2>1. UNCHANGED <<sent, answered, accepting, socket, nread>>
        BY <1>4 DEF clientVars, StartFirst, StartNext, PoolStart
    <2>2. accepting => sending' = <<>>
        BY <1>1, <1>4 DEF AnswerInv, StartFirst, StartNext, PoolStart, WriteFront
    <2>3. accepting => socket' \in {"moved", "closed"}
        BY <1>1, <2>1 DEF AnswerInv
    <2> QED BY <1>2, <2>1, <2>2, <2>3, AnswerStays
<1>5. ASSUME NEW i \in DOMAIN sending, WriteFails(i)
      PROVE  AnswerInv'
    <2>1. ~accepting
        BY <1>1, SendingOne DEF AnswerInv
    <2> QED BY <1>2, <1>5, <2>1, AnswerStays DEF WriteFails, clientVars
<1>6. CASE AcceptFails
    <2>1. UNCHANGED <<sent, answered, nread>> /\ ~accepting'
        BY <1>6 DEF AcceptFails, clientVars
    <2> QED BY <1>1, <2>1 DEF AnswerInv
<1> QED BY <1>3, <1>4, <1>5, <1>6, NextCases, AnswerSend, AnswerUpgrade, AnswerDeliver,
    AnswerAccepted

LEMMA UsageInvariant == Separate => (Spec => []SessionInv)
<1> SUFFICES ASSUME Separate
             PROVE  Spec => []SessionInv
    OBVIOUS
<1>1. TypeOK /\ Init => SessionInv
    <2>1. Init => AnswerInv
        BY DEF Init, AnswerInv
    <2> QED BY <2>1, InitUsageInv DEF SessionInv
<1>2. TypeOK' /\ SessionInv /\ [Next]_vars => SessionInv'
    <2>1. ASSUME SessionInv, UNCHANGED vars
          PROVE  UsageInv' /\ AnswerInv'
        BY <2>1 DEF SessionInv, UsageInv, AnswerInv, Apart, Unread, WorkInv, ReadInv, WriteInv,
                    QueueInv, CloseAsAsked, Gone, Live, vars, clientVars, poolVars
    <2>2. ASSUME SessionInv, Next
          PROVE  UsageInv' /\ AnswerInv'
        BY <2>2, NextCases, AnswerKeeps, AcceptedKeeps, SendKeeps, UnansweredKeeps,
           ReadPageKeeps, ReadWorkKeeps, StartFirstKeeps, PipelineKeeps, OnWriteKeeps, StartNextKeeps, DeliverKeeps,
           WriteFailsKeeps, PoolStoreKeeps, PoolStartKeeps
    <2> QED BY <2>1, <2>2 DEF SessionInv
<1> QED BY <1>1, <1>2, HttpTypeCorrect, PTL DEF Spec

-------------------------------------------------------------------------------
(***************************************************************************)
(* One read and one write at most are under way on the socket, counting    *)
(* the write whose on_write is still to run: neither the strand nor a      *)
(* thread of the pool starts a second one.                                 *)
(***************************************************************************)
THEOREM OperationsOneByOne == Separate => (Spec => []OneOperationEachWay)
<1> SUFFICES ASSUME Separate
             PROVE  Spec => []OneOperationEachWay
    OBVIOUS
<1>1. SessionInv => OneOperationEachWay
    BY DEF SessionInv, UsageInv, ReadInv, WriteInv, AnswerInv, OneOperationEachWay
<1> QED BY <1>1, UsageInvariant, PTL

(***************************************************************************)
(* Reading stops in time: the queue never holds more than limit responses, *)
(* although the pool adds its own without looking at the limit.            *)
(***************************************************************************)
THEOREM LimitKept == Separate => (Spec => []QueueWithinLimit)
<1> SUFFICES ASSUME Separate
             PROVE  Spec => []QueueWithinLimit
    OBVIOUS
<1>1. SessionInv => QueueWithinLimit
    BY DEF SessionInv, UsageInv, ReadInv, QueueWithinLimit
<1> QED BY <1>1, UsageInvariant, PTL

(***************************************************************************)
(* The keep-alive flag that write_json_response reads when the pool        *)
(* answers is still that of the request it answers.                        *)
(***************************************************************************)
THEOREM ClosedAsAsked == Separate => (Spec => []CloseAsAsked)
<1> SUFFICES ASSUME Separate
             PROVE  Spec => []CloseAsAsked
    OBVIOUS
<1>1. SessionInv => CloseAsAsked
    BY DEF SessionInv, UsageInv
<1> QED BY <1>1, UsageInvariant, PTL

(***************************************************************************)
(* The session implements the channel of OrderedDelivery: the client gives *)
(* it a request, a write that succeeds, of a response or of the answer to  *)
(* an upgrade, takes that of the next one out, and every other step leaves *)
(* it alone.                                                               *)
(***************************************************************************)
THEOREM HttpDeliversInOrder == Separate => (Spec => ResponsesInOrder)
<1> SUFFICES ASSUME Separate
             PROVE  Spec => ResponsesInOrder
    OBVIOUS
<1> DEFINE Given == [n \in DOMAIN sent |-> n]
<1>1. Init => Channel!Init
    <2> SUFFICES ASSUME Init
                 PROVE  Channel!Init
        OBVIOUS
    <2>1. Given = <<>> /\ answered = <<>>
        BY DEF Init
    <2> QED BY <2>1 DEF Channel!Init
<1>2. SessionInv /\ [Next]_vars => [Channel!Next]_(Channel!channel)
    <2> SUFFICES ASSUME SessionInv, [Next]_vars
                 PROVE  [Channel!Next]_(Channel!channel)
        OBVIOUS
    <2>1. SequenceTypes /\ ControlTypes /\ UsageInv
        BY TypeParts DEF SessionInv
    <2>2. ASSUME UNCHANGED <<sent, answered>>
          PROVE  UNCHANGED Channel!channel
        BY <2>2 DEF Channel!channel
    <2>3. CASE Send
        <3>1. PICK request \in Request : sent' = Append(sent, request)
            BY <2>3 DEF Send
        <3>2. /\ Len(sent) \in Nat /\ DOMAIN sent = 1 .. Len(sent)
              /\ Len(sent) + 1 \in 1 .. MaxRequests
            BY <2>1, <2>3, Lengths, HttpSessionAssumption DEF Send
        <3>3. DOMAIN sent' = 1 .. Len(sent) + 1
            BY <2>1, <3>1, <3>2, AppendProperties, LenProperties DEF SequenceTypes
        <3>4. Given' = Append(Given, Len(sent) + 1)
            BY <3>2, <3>3
        <3> QED BY <2>3, <3>2, <3>4 DEF Send, Channel!Next, Channel!Give
    <2>4. ASSUME NEW i \in DOMAIN sending, Deliver(i)
          PROVE  Channel!Next
        <3>1. /\ answered' = Append(answered, Len(answered) + 1) /\ UNCHANGED sent
              /\ items # <<>> /\ items[1].req = Len(answered) + 1
            BY <2>4, SendingOne DEF Deliver, clientVars
        <3>2. Len(answered) + 1 \in 1 .. Len(sent)
            <4>1. 1 \in DOMAIN items
                BY <2>1, <3>1, Lengths, LenProperties DEF SequenceTypes
            <4> QED BY <2>1, <3>1, <4>1, Queued DEF UsageInv
        <3>3. /\ Len(answered) < Len(Given) /\ Given[Len(answered) + 1] = Len(answered) + 1
            BY <2>1, <3>2, Lengths
        <3> QED BY <3>1, <3>3 DEF Channel!Next, Channel!Receive
    <2>5. CASE Accepted
        <3>1. /\ answered' = Append(answered, Len(answered) + 1) /\ UNCHANGED sent
              /\ Len(answered) + 1 = nread /\ nread # 0
            BY <2>1, <2>5, AnswerAccepted DEF Accepted, clientVars, ControlTypes
        <3>2. nread \in 1 .. Len(sent)
            BY <2>1, <3>1, Lengths DEF ControlTypes
        <3>3. /\ Len(answered) < Len(Given) /\ Given[Len(answered) + 1] = Len(answered) + 1
            BY <2>1, <3>1, <3>2, Lengths
        <3> QED BY <3>1, <3>3 DEF Channel!Next, Channel!Receive
    <2>6. ASSUME Next, ~Send, ~Accepted, \A i \in DOMAIN sending : ~Deliver(i)
          PROVE  UNCHANGED <<sent, answered>>
        BY <2>6, NextCases
           DEF clientVars, HalfClose, Lost, ReadPage, ReadWork, ReadUpgrade, ReadDenied,
               ReadEndOfStream, ReadFails, StartFirst, Pipeline, OnWrite, StartNext, WriteFails,
               AcceptFails, PoolStore, PoolStart
    <2>7. CASE UNCHANGED vars
        BY <2>2, <2>7 DEF vars, clientVars
    <2> QED BY <2>2, <2>3, <2>4, <2>5, <2>6, <2>7
<1> QED BY <1>1, <1>2, UsageInvariant, PTL DEF Spec, ResponsesInOrder, Channel!Spec

===============================================================================
