------------------------------- MODULE WebServer -------------------------------
(***************************************************************************)
(* The life of the program: main () with its webserver, the listener, the  *)
(* threads that run the io_context, and the work_handler's pool.           *)
(*                                                                         *)
(* main () builds the work_handler and the webserver, and calls start (),  *)
(* which listens, spawns threads that call ioc.run (), and calls it too.   *)
(* A signal or the stop endpoint ends it; then main () destroys what it    *)
(* built, the webserver first.  A handler is run by one of the threads.    *)
(* Of a session only what reaches outside it is kept: a client connects,   *)
(* and its request goes to the pool or asks the server to stop.            *)
(***************************************************************************)
EXTENDS Integers, FiniteSets

CONSTANTS
    Clients,
    Settings,       \* values of the option server.threads
    ThreadLimit,    \* bound: how many threads the system lets the server start
    WordSpace,      \* number of values of an unsigned integer
    PoolThreads,    \* threads of the work_handler's pool
    Impatient       \* may a client disconnect before it has been accepted?

ASSUME WebServerAssumption ==
    /\ Settings \subseteq Nat
    /\ ThreadLimit \in Nat \ {0}
    /\ WordSpace \in Nat /\ WordSpace > ThreadLimit + 1
    /\ \A n \in Settings : n < WordSpace
    /\ PoolThreads \in Nat
    /\ Impatient \in BOOLEAN

Main    == 0
Threads == 0 .. ThreadLimit

VARIABLES
    requested,   \* conf.server.threads
    main,        \* where main () is; "exit" when the process has ended
    left,        \* i, the threads still to start
    io,          \* what each thread of the io_context does
    acceptor,    \* acceptor_: none yet, closed, unbound or listening
    accepting,   \* an async_accept is under way
    accepted,    \* the clients on_accept was called for and has not looked at yet
    client,      \* each client's connection and the lambda of its request
    signal,      \* SIGINT or SIGTERM: none, pending, handled; or stop: the endpoint
    stopped,     \* ioc.stop () has been called
    outcome      \* how the process ends

vars == <<requested, main, left, io, acceptor, accepting, accepted, client,
          signal, stopped, outcome>>

Spawned == {t \in Threads \ {Main} : io[t] # "none"}
InPool  == {c \in Clients : client[c] = "solving"}

\* What main () has not destroyed yet: ws, and then the members of work_handler.
IocAlive     == main \notin {"destroy_handler", "join_pool", "exit"}
MembersAlive == main \notin {"join_pool", "exit"}

Init ==
    /\ requested \in Settings
    /\ main = "construct"
    /\ left = 0
    /\ io = [t \in Threads |-> "none"]
    /\ acceptor = "none"
    /\ accepting = FALSE
    /\ accepted = {}
    /\ client = [c \in Clients |-> "away"]
    /\ signal = "none"
    /\ stopped = FALSE
    /\ outcome = "success"

Die(how) == main' = "exit" /\ outcome' = how

-------------------------------------------------------------------------------
(***************************************************************************)
(* main ()                                                                 *)
(***************************************************************************)
\* reserve (thread_count - 1): zero wraps around, and may be refused the room.
capacity == (requested - 1) % WordSpace

Construct ==
    /\ main = "construct"
    /\ \/ main' = "listen" /\ UNCHANGED outcome
       \/ requested = 0 /\ Die("terminated")
    /\ UNCHANGED <<requested, left, io, acceptor, accepting, accepted, client, signal, stopped>>

(* The listener's failures are logged; it accepts if its socket was opened. *)
Listen ==
    /\ main = "listen"
    /\ main' = "spawn"
    /\ acceptor' \in {"closed", "unbound", "listening"}
    /\ accepting' = (acceptor' # "closed")
    /\ left' = (capacity - 1) % WordSpace
    /\ UNCHANGED <<requested, io, accepted, client, signal, stopped, outcome>>

(* make_address and set_option throw. *)
ListenThrows ==
    /\ main = "listen"
    /\ main' = "destroy_ws"
    /\ outcome' = "failure"
    /\ UNCHANGED <<requested, left, io, acceptor, accepting, accepted, client, signal, stopped>>

(* Faulty variant: the loop runs down to zero inclusive. *)
SpawnOneMore ==
    /\ main = "spawn"
    /\ left >= 0
    /\ Cardinality(Spawned) < ThreadLimit
    /\ io' = [io EXCEPT ![Cardinality(Spawned) + 1] = "run"]
    /\ left' = left - 1
    /\ UNCHANGED <<requested, main, acceptor, accepting, accepted, client, signal, stopped, outcome>>

Spawn ==
    /\ main = "spawn"
    /\ left > 0
    /\ Cardinality(Spawned) < ThreadLimit
    /\ io' = [io EXCEPT ![Cardinality(Spawned) + 1] = "run"]
    /\ left' = left - 1
    /\ UNCHANGED <<requested, main, acceptor, accepting, accepted, client, signal, stopped, outcome>>

(* std::thread throws, and unwinding destroys threads that can be joined. *)
SpawnFails ==
    /\ main = "spawn"
    /\ left > 0
    /\ Cardinality(Spawned) = ThreadLimit
    /\ Die("terminated")
    /\ UNCHANGED <<requested, left, io, acceptor, accepting, accepted, client, signal, stopped>>

MainRuns ==
    /\ main = "spawn"
    /\ left = 0
    /\ main' = "run"
    /\ io' = [io EXCEPT ![Main] = "run"]
    /\ UNCHANGED <<requested, left, acceptor, accepting, accepted, client, signal, stopped, outcome>>

Join ==
    /\ main = "join"
    /\ \A t \in Spawned : io[t] = "ended"
    /\ main' = "destroy_ws"
    /\ UNCHANGED <<requested, left, io, acceptor, accepting, accepted, client, signal, stopped, outcome>>

(* Faulty variant: ws has its threads before its io_context. *)
DestroyWsThreadsLast ==
    /\ main = "destroy_ws"
    /\ main' = "destroy_handler"
    /\ UNCHANGED <<requested, left, io, acceptor, accepting, accepted, client, signal, stopped, outcome>>

(***************************************************************************)
(* ws is destroyed, its threads before its io_context.  Threads that were  *)
(* not joined, because an exception has left start (), end the process.    *)
(***************************************************************************)
DestroyWs ==
    /\ main = "destroy_ws"
    /\ IF outcome = "failure" /\ Spawned # {}
       THEN Die("terminated")
       ELSE main' = "destroy_handler" /\ UNCHANGED outcome
    /\ UNCHANGED <<requested, left, io, acceptor, accepting, accepted, client, signal, stopped>>

(* ~work_handler: pool.stop (), which does not wait; then the members go. *)
StopPool ==
    /\ main = "destroy_handler"
    /\ main' = "join_pool"
    /\ UNCHANGED <<requested, left, io, acceptor, accepting, accepted, client, signal, stopped, outcome>>

(* ~thread_pool: the lambdas being run end; those not begun are dropped. *)
JoinPool ==
    /\ main = "join_pool"
    /\ InPool = {}
    /\ main' = "exit"
    /\ UNCHANGED <<requested, left, io, acceptor, accepting, accepted, client, signal, stopped, outcome>>

-------------------------------------------------------------------------------
(***************************************************************************)
(* A thread in ioc.run ().                                                 *)
(***************************************************************************)
\* An exception leaves ioc.run (): in main () it leaves start () as well.
Throw(t) ==
    IF t = Main
    THEN /\ main' = "destroy_ws"
         /\ outcome' = "failure"
         /\ io' = [io EXCEPT ![t] = "ended"]
    ELSE Die("terminated") /\ UNCHANGED io

RunEnds(t) ==
    /\ io[t] = "run"
    /\ stopped
    /\ io' = [io EXCEPT ![t] = "ended"]
    /\ main' = IF t = Main THEN "join" ELSE main
    /\ UNCHANGED <<requested, left, acceptor, accepting, accepted, client, signal, stopped, outcome>>

MayRun(t) == io[t] = "run" /\ ~stopped

(* Faulty variant: the signal is noted, and the threads go on. *)
OnSignalOnly(t) ==
    /\ MayRun(t)
    /\ signal = "pending"
    /\ signal' = "handled"
    /\ UNCHANGED <<requested, main, left, io, acceptor, accepting, accepted, client, stopped, outcome>>

OnSignal(t) ==
    /\ MayRun(t)
    /\ signal = "pending"
    /\ signal' = "handled"
    /\ stopped' = TRUE
    /\ UNCHANGED <<requested, main, left, io, acceptor, accepting, accepted, client, outcome>>

(* The accept succeeds, also for a client that has left. *)
Accept(t, c) ==
    /\ MayRun(t)
    /\ accepting
    /\ acceptor = "listening"
    /\ client[c] \in {"backlog", "gone"}
    /\ accepting' = FALSE
    /\ accepted' = {c}
    /\ io' = [io EXCEPT ![t] = "on_accept"]
    /\ UNCHANGED <<requested, main, left, acceptor, client, signal, stopped, outcome>>

(* on_accept: the session is made and run, and the next accept started. *)
MakeSession(t, c) ==
    /\ io[t] = "on_accept"
    /\ c \in accepted
    /\ client[c] = "backlog"
    /\ client' = [client EXCEPT ![c] = "connected"]
    /\ accepted' = {}
    /\ accepting' = TRUE
    /\ io' = [io EXCEPT ![t] = "run"]
    /\ UNCHANGED <<requested, main, left, acceptor, signal, stopped, outcome>>

(* on_accept: remote_endpoint () throws. *)
NoEndpoint(t, c) ==
    /\ io[t] = "on_accept"
    /\ c \in accepted
    /\ client[c] = "gone"
    /\ accepted' = {}
    /\ Throw(t)
    /\ UNCHANGED <<requested, left, acceptor, accepting, client, signal, stopped>>

(* on_accept of an error, which a socket that is not bound always gets. *)
AcceptFails(t) ==
    /\ MayRun(t)
    /\ accepting
    /\ accepting' = FALSE
    /\ io' = [io EXCEPT ![t] = "sleep"]
    /\ UNCHANGED <<requested, main, left, acceptor, accepted, client, signal, stopped, outcome>>

(* Faulty variant: an error ends the accept loop. *)
AwakeForGood(t) ==
    /\ io[t] = "sleep"
    /\ io' = [io EXCEPT ![t] = "run"]
    /\ UNCHANGED <<requested, main, left, acceptor, accepting, accepted, client, signal, stopped, outcome>>

Awake(t) ==
    /\ io[t] = "sleep"
    /\ accepting' = TRUE
    /\ io' = [io EXCEPT ![t] = "run"]
    /\ UNCHANGED <<requested, main, left, acceptor, accepted, client, signal, stopped, outcome>>

(* A request for work: its lambda goes to the pool. *)
Request(t, c) ==
    /\ MayRun(t)
    /\ client[c] = "connected"
    /\ client' = [client EXCEPT ![c] = "posted"]
    /\ UNCHANGED <<requested, main, left, io, acceptor, accepting, accepted, signal, stopped, outcome>>

(* The stop endpoint calls std::exit (0). *)
StopRequest(t, c) ==
    /\ MayRun(t)
    /\ client[c] = "connected"
    /\ signal' = "stop"
    /\ Die("success")
    /\ UNCHANGED <<requested, left, io, acceptor, accepting, accepted, client, stopped>>

-------------------------------------------------------------------------------
(***************************************************************************)
(* The pool, the clients, and whoever sends the signal.                    *)
(***************************************************************************)
TakeLambda(c) ==
    /\ client[c] = "posted"
    /\ Cardinality(InPool) < PoolThreads
    /\ main # "join_pool"
    /\ client' = [client EXCEPT ![c] = "solving"]
    /\ UNCHANGED <<requested, main, left, io, acceptor, accepting, accepted, signal, stopped, outcome>>

(***************************************************************************)
(* The lambda enters its job in the lists, and calls its session's         *)
(* response handler.  If they are gone, anything may come of it.           *)
(***************************************************************************)
LambdaEnds(c) ==
    /\ client[c] = "solving"
    /\ client' = [client EXCEPT ![c] = "answered"]
    /\ \/ UNCHANGED <<main, outcome>>
       \/ ~(IocAlive /\ MembersAlive) /\ Die("crashed")
    /\ UNCHANGED <<requested, left, io, acceptor, accepting, accepted, signal, stopped>>

Connect(c) ==
    /\ client[c] = "away"
    /\ acceptor = "listening"
    /\ IocAlive
    /\ client' = [client EXCEPT ![c] = "backlog"]
    /\ UNCHANGED <<requested, main, left, io, acceptor, accepting, accepted, signal, stopped, outcome>>

Leave(c) ==
    /\ Impatient
    /\ client[c] = "backlog"
    /\ client' = [client EXCEPT ![c] = "gone"]
    /\ UNCHANGED <<requested, main, left, io, acceptor, accepting, accepted, signal, stopped, outcome>>

(* start () captures the signals; before and after it they kill. *)
Signal ==
    /\ signal = "none" \/ main \notin {"spawn", "run", "join"}
    /\ signal' = "pending"
    /\ IF main \in {"spawn", "run", "join"}
       THEN UNCHANGED <<main, outcome>>
       ELSE Die("killed")
    /\ UNCHANGED <<requested, left, io, acceptor, accepting, accepted, client, stopped>>

-------------------------------------------------------------------------------
Running == main # "exit"

MainStep ==
    Running /\ \/ Construct \/ Listen \/ ListenThrows
               \/ Spawn \/ SpawnFails \/ MainRuns
               \/ Join \/ DestroyWs \/ StopPool \/ JoinPool

\* What a thread does next once it is at it.
ThreadStep(t) ==
    Running /\ \/ RunEnds(t) \/ Awake(t)
               \/ \E c \in Clients : MakeSession(t, c) \/ NoEndpoint(t, c)

HandleSignal == Running /\ \E t \in Threads : OnSignal(t)

AcceptClient(c) == Running /\ \E t \in Threads : Accept(t, c)

ClientStep(c) ==
    Running /\ \/ \E t \in Threads : Request(t, c) \/ StopRequest(t, c)
               \/ Connect(c) \/ Leave(c)

PoolStep(c) == Running /\ (TakeLambda(c) \/ LambdaEnds(c))

Ended == main = "exit" /\ UNCHANGED vars

Next ==
    \/ MainStep
    \/ HandleSignal
    \/ \E t \in Threads : ThreadStep(t) \/ (Running /\ AcceptFails(t))
    \/ \E c \in Clients : AcceptClient(c) \/ ClientStep(c) \/ PoolStep(c)
    \/ Running /\ Signal
    \/ Ended

(***************************************************************************)
(* Threads run.  A handler that is ready is run in its turn, so it is not  *)
(* passed over for ever by the accept loop; and an accept on a listening   *)
(* socket does not fail for ever.                                          *)
(***************************************************************************)
Fairness ==
    /\ WF_vars(MainStep)
    /\ \A t \in Threads : WF_vars(ThreadStep(t))
    /\ SF_vars(HandleSignal)
    /\ \A c \in Clients : SF_vars(AcceptClient(c)) /\ WF_vars(PoolStep(c))

Spec == Init /\ [][Next]_vars /\ Fairness

-------------------------------------------------------------------------------
(* Type correctness of the variables of main (), start () and the listener. *)
TypeOK ==
    /\ requested \in Settings
    /\ main \in {"construct", "listen", "spawn", "run", "join", "destroy_ws",
                 "destroy_handler", "join_pool", "exit"}
    /\ left \in 0 .. WordSpace - 1
    /\ io \in [Threads -> {"none", "run", "on_accept", "sleep", "ended"}]
    /\ acceptor \in {"none", "closed", "unbound", "listening"}
    /\ accepting \in BOOLEAN
    /\ accepted \subseteq Clients
    /\ client \in [Clients -> {"away", "backlog", "gone", "connected", "posted",
                               "solving", "answered"}]
    /\ signal \in {"none", "pending", "handled", "stop"}
    /\ stopped \in BOOLEAN
    /\ outcome \in {"success", "failure", "terminated", "crashed", "killed"}

(***************************************************************************)
(* Things end in order: the io_context is destroyed only when no thread is *)
(* inside ioc.run (), and a process that ends by returning from main ()    *)
(* has no lambda in the middle of its work, and was told to end or could   *)
(* not start.                                                              *)
(***************************************************************************)
EndsInOrder ==
    /\ Running /\ ~IocAlive => \A t \in Threads : io[t] \in {"none", "ended"}
    /\ main = "exit" /\ signal # "stop" =>
          /\ outcome \in {"success", "failure"} => InPool = {}
          /\ outcome = "success" => signal = "handled" /\ stopped

(***************************************************************************)
(* SIGINT and SIGTERM end the process, also while the accept loop fails    *)
(* and sleeps, and however much work is under way.                         *)
(***************************************************************************)
SignalEndsServer == signal = "pending" ~> main = "exit"

(* A client waiting to be accepted is, unless the server stops. *)
ClientsAccepted ==
    \A c \in Clients : client[c] = "backlog" ~> client[c] # "backlog" \/ stopped \/ ~Running

(***************************************************************************)
(* "Run the I/O service on the requested number of threads": start () does *)
(* not.                                                                    *)
(***************************************************************************)
RequestedThreads ==
    main = "run" => Cardinality({t \in Threads : io[t] # "none"}) = requested

(***************************************************************************)
(* start () blocks "until all the threads exit via sigint/sigterm or       *)
(* stop ()": a client that goes before on_accept looks at it ends it too.  *)
(***************************************************************************)
RunsUntilToldTo ==
    main = "exit" /\ acceptor # "none" => signal # "none"

(***************************************************************************)
(* "A clean shutdown": a lambda of the pool finds the lists and the        *)
(* session's io_context it uses.                                           *)
(***************************************************************************)
CleanShutdown == Running => (InPool # {} => IocAlive /\ MembersAlive)
===============================================================================
