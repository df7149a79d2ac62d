------------------------------ MODULE HttpSession ------------------------------
(***************************************************************************)
(* One http_session: a connection whose client may send several requests   *)
(* before the first is answered, and the queue of responses that lets the  *)
(* session keep reading meanwhile.                                         *)
(*                                                                         *)
(* The completion handlers on_read and on_write run in the session's       *)
(* strand, one at a time.  Most requests are answered inside on_read: the  *)
(* queue requests, the static pages, errors, and the work requests that    *)
(* need no work.  The answer to work_generate comes later, from a thread   *)
(* of the work_handler's pool, which calls write_json_response () and with *)
(* it the queue's operator () outside the strand.  A websocket upgrade is  *)
(* answered by the websocket_session to which the socket is moved.         *)
(*                                                                         *)
(* A step is one access to the queue's vector, or the start or the end of  *)
(* an operation on the socket.  What simultaneous accesses to the vector   *)
(* may do beyond that, to memory, is not modelled.                         *)
(***************************************************************************)
EXTENDS Integers, Sequences, FiniteSets, Functions

CONSTANTS
    MaxRequests,   \* bound on the requests of this connection
    Limit,         \* queue::limit
    Client         \* how the client uses the connection: see MaySend

ASSUME HttpSessionAssumption ==
    /\ MaxRequests \in Nat
    /\ Limit \in Nat \ {0}
    /\ Client \in {"separate", "upgrading", "sequential", "pipelining"}

VARIABLES
    sent,        \* what the client has sent; a request is a position in it
    half_closed, \* the client has shut down its side of the connection
    answered,    \* the requests whose responses the client has received

    socket,      \* open, shut (for sending), closed, or moved to a websocket
    nread,       \* how many requests have been read
    reads,       \* async_read operations under way
    sending,     \* the responses in async_write operations under way
    completed,   \* those whose on_write is still to run
    accepting,   \* the websocket_session's async_accept is writing its answer

    items,       \* queue::items_
    keepalive,   \* client_keepalive
    strand,      \* where the handler running in the strand is
    was_full,    \* local variable of queue::on_write

    working,     \* the requests the work_handler has yet to answer
    storing      \* those whose response a pool thread has just stored

clientVars == <<sent, half_closed>>
poolVars   == <<working, storing>>
vars == <<clientVars, answered, socket, nread, reads, sending, completed, accepting,
          items, keepalive, strand, was_full, poolVars>>

Kinds == {"page", "work", "upgrade", "denied"}

Request == [kind : Kinds, keep_alive : BOOLEAN]

Response == [req : 1 .. MaxRequests, close : BOOLEAN]

Init ==
    /\ sent = <<>>
    /\ half_closed = FALSE
    /\ answered = <<>>
    /\ socket = "open"
    /\ nread = 0
    /\ reads = 1                  \* run () starts the first read
    /\ sending = <<>>
    /\ completed = <<>>
    /\ accepting = FALSE
    /\ items = <<>>
    /\ keepalive = TRUE
    /\ strand = "idle"
    /\ was_full = FALSE
    /\ working = {}
    /\ storing = {}

is_full == Len(items) >= Limit

Unanswered == DOMAIN sent \ Range(answered)

Upgrades == {"upgrade", "denied"}

-------------------------------------------------------------------------------
(***************************************************************************)
(* The client.  A pipelining client sends whatever and whenever it likes, a *)
(* sequential one waits for each response.  A client that keeps its work   *)
(* requests separate opens a connection for each of them and uses it       *)
(* afterwards for other requests only, which it may pipeline; it asks for  *)
(* an upgrade when nothing is outstanding, and an upgrading client does    *)
(* not wait for that.  Neither sends a request after an upgrade.           *)
(***************************************************************************)
MaySend(request) ==
    \/ Client = "pipelining"
    \/ Client = "sequential" /\ Unanswered = {}
    \/ /\ Client \in {"separate", "upgrading"}
       /\ request.kind = "work" => sent = <<>>
       /\ \A n \in Unanswered : sent[n].kind # "work"
       /\ Client = "separate" /\ request.kind \in Upgrades => Unanswered = {}
       /\ \A n \in DOMAIN sent : sent[n].kind \notin Upgrades

Send ==
    /\ Len(sent) < MaxRequests
    /\ ~half_closed
    /\ \E request \in Request : MaySend(request) /\ sent' = Append(sent, request)
    /\ UNCHANGED <<half_closed, accepting, answered, socket, nread, reads, sending,
                   completed, items, keepalive, strand, was_full, poolVars>>

HalfClose ==
    /\ ~half_closed
    /\ half_closed' = TRUE
    /\ UNCHANGED <<sent, accepting, answered, socket, nread, reads, sending, completed,
                   items, keepalive, strand, was_full, poolVars>>

(***************************************************************************)
(* The connection breaks, or an hour has passed since the last read () and *)
(* on_timer closes the socket.  What is under way on it then fails.  After *)
(* an upgrade it is the websocket_session that loses the connection.       *)
(***************************************************************************)
Lost ==
    /\ socket # "closed"
    /\ socket' = "closed"
    /\ UNCHANGED <<clientVars, accepting, answered, nread, reads, sending, completed,
                   items, keepalive, strand, was_full, poolVars>>

-------------------------------------------------------------------------------
\* async_read completes with the next request, which is of the given kind.
Read(kind) ==
    /\ strand = "idle"
    /\ reads > 0
    /\ socket \in {"open", "shut"}
    /\ nread < Len(sent)
    /\ sent[nread + 1].kind = kind
    /\ nread' = nread + 1
    /\ reads' = reads - 1

(* Faulty variant: the keep-alive flag is that of the previous request. *)
ReadPageStale ==
    /\ Read("page")
    /\ keepalive' = sent[nread'].keep_alive
    /\ items' = Append(items, [req |-> nread', close |-> ~keepalive])
    /\ strand' = "stored"
    /\ UNCHANGED <<clientVars, accepting, answered, socket, sending, completed,
                   was_full, poolVars>>

(* on_read, the response being made and stored at once. *)
ReadPage ==
    /\ Read("page")
    /\ keepalive' = sent[nread'].keep_alive
    /\ items' = Append(items, [req |-> nread', close |-> ~keepalive'])
    /\ strand' = "stored"
    /\ UNCHANGED <<clientVars, accepting, answered, socket, sending, completed,
                   was_full, poolVars>>

(* on_read, the request being handed to the work_handler. *)
ReadWork ==
    /\ Read("work")
    /\ keepalive' = sent[nread'].keep_alive
    /\ working' = working \cup {nread'}
    /\ strand' = "pipeline"
    /\ UNCHANGED <<clientVars, accepting, answered, socket, sending, completed, items,
                   was_full, storing>>

(***************************************************************************)
(* on_read of a websocket upgrade: the socket goes to a websocket_session, *)
(* and its do_accept () starts to write the answer there at once, whatever *)
(* responses are under way or still to come.  Where sending is shut down   *)
(* that fails, and the websocket_session ends.                             *)
(***************************************************************************)
ReadUpgrade ==
    /\ Read("upgrade")
    /\ socket' = IF socket = "open" THEN "moved" ELSE "closed"
    /\ accepting' = (socket = "open")
    /\ UNCHANGED <<clientVars, answered, sending, completed, items, keepalive, strand,
                   was_full, poolVars>>

(* An upgrade on a path without a handler: no answer, and no further read. *)
ReadDenied ==
    /\ Read("denied")
    /\ UNCHANGED <<clientVars, accepting, answered, socket, sending, completed, items,
                   keepalive, strand, was_full, poolVars>>

(* end_of_stream: graceful_shutdown, whatever responses are outstanding. *)
ReadEndOfStream ==
    /\ strand = "idle"
    /\ reads > 0
    /\ socket \in {"open", "shut"}
    /\ half_closed /\ nread = Len(sent)
    /\ reads' = reads - 1
    /\ socket' = "shut"
    /\ UNCHANGED <<clientVars, accepting, answered, nread, sending, completed, items,
                   keepalive, strand, was_full, poolVars>>

(* A read fails, or is aborted: the session does not read any more. *)
ReadFails ==
    /\ strand = "idle"
    /\ reads > 0
    /\ socket \in {"closed", "moved"}
    /\ reads' = reads - 1
    /\ UNCHANGED <<clientVars, accepting, answered, socket, nread, sending, completed,
                   items, keepalive, strand, was_full, poolVars>>

(***************************************************************************)
(* Starting the write of the response at the front of the queue.  On a     *)
(* socket not open for it the write fails, and on_write does nothing then. *)
(***************************************************************************)
WriteFront == sending' = IF socket = "open" THEN Append(sending, Head(items)) ELSE sending

(* Faulty variant: the response just stored is started whatever precedes it. *)
StartFirstAlways ==
    /\ strand = "stored"
    /\ WriteFront
    /\ strand' = "pipeline"
    /\ UNCHANGED <<clientVars, accepting, answered, socket, nread, reads, completed,
                   items, keepalive, was_full, poolVars>>

(* queue::operator () in the strand, having stored: is it the only one? *)
StartFirst ==
    /\ strand = "stored"
    /\ IF Len(items) = 1 THEN WriteFront ELSE UNCHANGED sending
    /\ strand' = "pipeline"
    /\ UNCHANGED <<clientVars, accepting, answered, socket, nread, reads, completed,
                   items, keepalive, was_full, poolVars>>

(* Faulty variant: the limit is noticed one response late. *)
PipelineOneMore ==
    /\ strand = "pipeline"
    /\ reads' = IF Len(items) > Limit THEN reads ELSE reads + 1
    /\ strand' = "idle"
    /\ UNCHANGED <<clientVars, accepting, answered, socket, nread, sending, completed,
                   items, keepalive, was_full, poolVars>>

(* The end of on_read: below the limit, another request is read. *)
Pipeline ==
    /\ strand = "pipeline"
    /\ reads' = IF is_full THEN reads ELSE reads + 1
    /\ strand' = "idle"
    /\ UNCHANGED <<clientVars, accepting, answered, socket, nread, sending, completed,
                   items, keepalive, was_full, poolVars>>

-------------------------------------------------------------------------------
(* Faulty variant: the work_handler calls the response handler once more. *)
PoolStoreAgain(n) ==
    /\ n \in working
    /\ storing' = storing \cup {n}
    /\ items' = Append(items, [req |-> n, close |-> ~keepalive])
    /\ UNCHANGED <<clientVars, accepting, answered, socket, nread, reads, sending,
                   completed, keepalive, strand, was_full, working>>

(* write_json_response in a pool thread, with the keep-alive flag of the moment. *)
PoolStore(n) ==
    /\ n \in working
    /\ working' = working \ {n}
    /\ storing' = storing \cup {n}
    /\ items' = Append(items, [req |-> n, close |-> ~keepalive])
    /\ UNCHANGED <<clientVars, accepting, answered, socket, nread, reads, sending,
                   completed, keepalive, strand, was_full>>

(* queue::operator () in a pool thread, having stored. *)
PoolStart(n) ==
    /\ n \in storing
    /\ storing' = storing \ {n}
    /\ IF Len(items) = 1 THEN WriteFront ELSE UNCHANGED sending
    /\ UNCHANGED <<clientVars, accepting, answered, socket, nread, reads, completed,
                   items, keepalive, strand, was_full, working>>

-------------------------------------------------------------------------------
Without(seq, i) == SubSeq(seq, 1, i - 1) \o SubSeq(seq, i + 1, Len(seq))

(***************************************************************************)
(* The client receives a response; on_write is to run.  What was started   *)
(* may still arrive when the connection has ended since, or may fail.      *)
(***************************************************************************)
Deliver(i) ==
    /\ i \in DOMAIN sending
    /\ answered' = Append(answered, sending[i].req)
    /\ completed' = Append(completed, sending[i])
    /\ sending' = Without(sending, i)
    /\ UNCHANGED <<clientVars, accepting, socket, nread, reads, items, keepalive,
                   strand, was_full, poolVars>>

(* on_write with an error: it gives up, and leaves the queue as it is. *)
WriteFails(i) ==
    /\ i \in DOMAIN sending
    /\ socket # "open"
    /\ sending' = Without(sending, i)
    /\ UNCHANGED <<clientVars, accepting, answered, socket, nread, reads, completed,
                   items, keepalive, strand, was_full, poolVars>>

(* The client receives the answer to its upgrade; on_accept goes on to read. *)
Accepted ==
    /\ accepting
    /\ answered' = Append(answered, nread)
    /\ accepting' = FALSE
    /\ UNCHANGED <<clientVars, socket, nread, reads, sending, completed, items,
                   keepalive, strand, was_full, poolVars>>

(* on_accept with an error: the connection has ended. *)
AcceptFails ==
    /\ accepting
    /\ socket = "closed"
    /\ accepting' = FALSE
    /\ UNCHANGED <<clientVars, answered, socket, nread, reads, sending, completed,
                   items, keepalive, strand, was_full, poolVars>>

(* Faulty variant: the response stored last is erased, not the one written. *)
OnWriteErasingLast ==
    /\ strand = "idle"
    /\ completed # <<>>
    /\ completed' = Tail(completed)
    /\ IF Head(completed).close
       THEN /\ socket' = IF socket = "open" THEN "shut" ELSE socket
            /\ UNCHANGED <<items, strand, was_full>>
       ELSE IF items = <<>>
            THEN strand' = "asserted" /\ UNCHANGED <<socket, items, was_full>>
            ELSE /\ was_full' = is_full
                 /\ items' = SubSeq(items, 1, Len(items) - 1)
                 /\ strand' = "erased"
                 /\ UNCHANGED socket
    /\ UNCHANGED <<clientVars, accepting, answered, nread, reads, sending, keepalive,
                   poolVars>>

(***************************************************************************)
(* on_write and, in it, queue::on_write up to the erase.  A response that  *)
(* ends the connection leaves the queue as it is; an empty queue fails the *)
(* assertion, which ends the process (or the build has assertions disabled *)
(* and erases from an empty vector).                                       *)
(***************************************************************************)
OnWrite ==
    /\ strand = "idle"
    /\ completed # <<>>
    /\ completed' = Tail(completed)
    /\ IF Head(completed).close
       THEN /\ socket' = IF socket = "open" THEN "shut" ELSE socket
            /\ UNCHANGED <<items, strand, was_full>>
       ELSE IF items = <<>>
            THEN strand' = "asserted" /\ UNCHANGED <<socket, items, was_full>>
            ELSE /\ was_full' = is_full
                 /\ items' = Tail(items)
                 /\ strand' = "erased"
                 /\ UNCHANGED socket
    /\ UNCHANGED <<clientVars, accepting, answered, nread, reads, sending, keepalive,
                   poolVars>>

(* Faulty variant: the caller is not told that it may read again. *)
StartNextUnread ==
    /\ strand = "erased"
    /\ IF items # <<>> THEN WriteFront ELSE UNCHANGED sending
    /\ strand' = "idle"
    /\ UNCHANGED <<clientVars, accepting, answered, socket, nread, reads, completed,
                   items, keepalive, was_full, poolVars>>

(* The rest of on_write: the next response is started, and reading resumed. *)
StartNext ==
    /\ strand = "erased"
    /\ IF items # <<>> THEN WriteFront ELSE UNCHANGED sending
    /\ reads' = IF was_full THEN reads + 1 ELSE reads
    /\ strand' = "idle"
    /\ UNCHANGED <<clientVars, accepting, answered, socket, nread, completed, items,
                   keepalive, was_full, poolVars>>

-------------------------------------------------------------------------------
OnRead == ReadPage \/ ReadWork \/ ReadUpgrade \/ ReadDenied \/ ReadEndOfStream \/ ReadFails

InStrand == StartFirst \/ Pipeline \/ StartNext

PoolStep(n) == PoolStore(n) \/ PoolStart(n)

WriteEnds ==
    \/ \E i \in DOMAIN sending : Deliver(i) \/ WriteFails(i)
    \/ Accepted
    \/ AcceptFails

Next ==
    \/ Send
    \/ HalfClose
    \/ Lost
    \/ OnRead
    \/ InStrand
    \/ OnWrite
    \/ WriteEnds
    \/ \E n \in 1 .. MaxRequests : PoolStep(n)

Spec == Init /\ [][Next]_vars

(***************************************************************************)
(* The io_context runs the handlers that are ready, the pool its lambdas,  *)
(* and TCP delivers what is written while the connection lasts.            *)
(***************************************************************************)
FairSpec ==
    /\ Spec
    /\ WF_vars(OnRead) /\ WF_vars(InStrand) /\ WF_vars(OnWrite) /\ WF_vars(WriteEnds)
    /\ \A n \in 1 .. MaxRequests : WF_vars(PoolStep(n))

-------------------------------------------------------------------------------
(* Every variable has its type, and a request is answered by one pool thread. *)
TypeOK ==
    /\ sent \in Seq(Request) /\ Len(sent) <= MaxRequests
    /\ half_closed \in BOOLEAN /\ accepting \in BOOLEAN
    /\ answered \in Seq(1 .. MaxRequests)
    /\ socket \in {"open", "shut", "closed", "moved"}
    /\ nread \in 0 .. Len(sent) /\ (accepting => nread # 0)
    /\ reads \in Nat
    /\ sending \in Seq(Response) /\ completed \in Seq(Response) /\ items \in Seq(Response)
    /\ keepalive \in BOOLEAN
    /\ strand \in {"idle", "stored", "pipeline", "erased", "asserted"}
    /\ was_full \in BOOLEAN
    /\ working \subseteq 1 .. nread /\ storing \subseteq 1 .. nread
    /\ working \cap storing = {}

(***************************************************************************)
(* Asio leaves two reads, or two writes, under way on one socket undefined *)
(* (their bytes mix), and a read that starts clears req_ under another.    *)
(* The answer to an upgrade is a write on the same socket.                 *)
(***************************************************************************)
OneOperationEachWay ==
    /\ reads <= 1
    /\ Len(sending) + Len(completed) <= 1
    /\ accepting => sending = <<>>

(***************************************************************************)
(* HTTP pipelining: the session is a channel from requests to responses.   *)
(* They come in the order of the requests, each once and none left out.    *)
(***************************************************************************)
Channel == INSTANCE OrderedDelivery WITH
    given <- [n \in DOMAIN sent |-> n], received <- answered,
    Messages <- 1 .. MaxRequests, Damaged <- {}

ResponsesInOrder == Channel!Spec

(* The assertion of queue::on_write: the response written is still queued. *)
QueueNotEmptyOnWrite == strand # "asserted"

(* The limit stated for the queue: the "maximum number of responses we will queue". *)
QueueWithinLimit == Len(items) <= Limit

(* A response closes the connection if its own request asked for that. *)
CloseAsAsked == \A i \in DOMAIN items : items[i].close = ~sent[items[i].req].keep_alive

(***************************************************************************)
(* Every request is answered unless the connection ends first, or it is an *)
(* upgrade that is denied: then the session sits and waits for its timer.  *)
(* A socket that has moved is no excuse: what came before the upgrade, and *)
(* the upgrade itself, are to be answered.                                 *)
(***************************************************************************)
Denied(n) == n <= Len(sent) /\ sent[n].kind = "denied"

EveryRequestServed ==
    \A n \in 1 .. MaxRequests :
        n <= Len(sent) ~> n \in Range(answered) \/ socket \in {"shut", "closed"} \/ Denied(n)
===============================================================================
