---------------------------- MODULE WebServer_proofs ----------------------------
(***************************************************************************)
(* Proofs about WebServer, for any number of threads and clients: its      *)
(* types, and that things end in order.                                    *)
(***************************************************************************)
EXTENDS WebServer, FiniteSetTheorems, TLAPS

(* Which threads are inside ioc.run (), by the place of the main thread. *)
PlaceInv ==
    /\ main \in {"construct", "listen"} => \A t \in Threads : io[t] = "none"
    /\ main = "spawn" => io[Main] = "none"
    /\ main = "run" => io[Main] \in {"run", "on_accept", "sleep"}
    /\ main = "join" => io[Main] = "ended"
    /\ main = "destroy_ws" => io[Main] \in {"none", "ended"}
    /\ main \in {"destroy_handler", "join_pool"} => \A t \in Threads : io[t] \in {"none", "ended"}
    /\ main = "destroy_ws" /\ outcome = "success" =>
          \A t \in Threads : io[t] \in {"none", "ended"}

(***************************************************************************)
(* main () gets beyond start () by an exception, which makes the outcome a *)
(* failure, or because the io_context was stopped, which only a signal     *)
(* does.                                                                   *)
(***************************************************************************)
EndInv ==
    /\ Running => outcome \in {"success", "failure"}
    /\ main \in {"construct", "listen", "spawn", "run", "join"} => outcome = "success"
    /\ Running /\ stopped => signal = "handled"
    /\ Running => signal # "stop"
    /\ main \in {"join", "destroy_ws", "destroy_handler", "join_pool"} /\ outcome = "success"
          => stopped

(* A process that has ended by returning from main (). *)
ExitInv ==
    main = "exit" /\ signal # "stop" =>
        /\ outcome \in {"success", "failure"} => InPool = {}
        /\ outcome = "success" => signal = "handled" /\ stopped

ServerInv == TypeOK /\ PlaceInv /\ EndInv /\ ExitInv

(* The actions, as the parts of Next. *)
ThreadAction(t) ==
    \/ RunEnds(t) \/ Awake(t) \/ OnSignal(t) \/ AcceptFails(t)
    \/ \E c \in Clients : \/ MakeSession(t, c) \/ NoEndpoint(t, c) \/ Accept(t, c)
                          \/ Request(t, c) \/ StopRequest(t, c)

ClientAction(c) == Connect(c) \/ Leave(c) \/ TakeLambda(c) \/ LambdaEnds(c)

LEMMA NextActions ==
    Next => \/ MainStep
            \/ Running /\ \E t \in Threads : ThreadAction(t)
            \/ Running /\ \E c \in Clients : ClientAction(c)
            \/ Running /\ Signal
            \/ UNCHANGED vars
BY DEF Next, ThreadStep, HandleSignal, AcceptClient, ClientStep, PoolStep, Ended, ThreadAction,
       ClientAction

(* A thread is started at an index that is not the main thread's. *)
LEMMA SpawnedCounted == Cardinality(Spawned) \in Nat /\ Cardinality(Spawned) + 1 # Main
<1>1. ThreadLimit \in Nat
    BY WebServerAssumption
<1>2. IsFiniteSet(Spawned)
    <2>1. IsFiniteSet(0 .. ThreadLimit)
        BY <1>1, FS_Interval
    <2>2. Spawned \subseteq 0 .. ThreadLimit
        BY DEF Spawned, Threads
    <2> QED BY <2>1, <2>2, FS_Subset
<1> QED BY <1>2, FS_CardinalityType DEF Main

LEMMA InitServerInv == Init => ServerInv
<1> SUFFICES ASSUME Init
             PROVE  ServerInv
    OBVIOUS
<1>1. TypeOK
    <2>1. accepting \in BOOLEAN /\ stopped \in BOOLEAN
        BY DEF Init
    <2>2. left \in 0 .. WordSpace - 1 /\ accepted \subseteq Clients
        BY WebServerAssumption DEF Init
    <2> QED BY <2>1, <2>2 DEF Init, TypeOK
<1>2. PlaceInv
    BY DEF Init, PlaceInv
<1>3. EndInv /\ ExitInv
    BY DEF Init, EndInv, ExitInv
<1> QED BY <1>1, <1>2, <1>3 DEF ServerInv

-------------------------------------------------------------------------------
LEMMA MainType ==
    ASSUME TypeOK, MainStep
    PROVE  TypeOK'
<1> USE DEF MainStep, Construct, Listen, ListenThrows, Spawn, SpawnFails, MainRuns, Join,
        DestroyWs, StopPool, JoinPool, Die
<1>1. UNCHANGED <<requested, accepted, client, signal, stopped>>
    OBVIOUS
<1>2. /\ main' \in {"construct", "listen", "spawn", "run", "join", "destroy_ws",
                    "destroy_handler", "join_pool", "exit"}
      /\ acceptor' \in {"none", "closed", "unbound", "listening"}
      /\ outcome' \in {"success", "failure", "terminated", "crashed", "killed"}
    BY DEF TypeOK
<1>3. left' \in 0 .. WordSpace - 1
    <2>1. WordSpace \in Nat \ {0} /\ requested \in Nat /\ left \in 0 .. WordSpace - 1
        BY WebServerAssumption DEF TypeOK
    <2>2. left' = left \/ (left > 0 /\ left' = left - 1) \/ left' = (capacity - 1) % WordSpace
        OBVIOUS
    <2>3. capacity \in Int /\ (capacity - 1) % WordSpace \in 0 .. WordSpace - 1
        BY <2>1 DEF capacity
    <2> QED BY <2>1, <2>2, <2>3
<1>4. io' \in [Threads -> {"none", "run", "on_accept", "sleep", "ended"}]
    BY DEF TypeOK
<1>5. accepting' \in BOOLEAN
    <2>1. accepting' = accepting \/ accepting' = (acceptor' # "closed")
        OBVIOUS
    <2> QED BY <2>1 DEF TypeOK
<1> QED BY <1>1, <1>2, <1>3, <1>4, <1>5 DEF TypeOK

LEMMA ThreadType ==
    ASSUME TypeOK, NEW t \in Threads, ThreadAction(t)
    PROVE  TypeOK'
<1> USE DEF ThreadAction, RunEnds, Awake, OnSignal, AcceptFails, MakeSession, NoEndpoint, Accept,
        Request, StopRequest, Throw, Die
<1>1. UNCHANGED <<requested, left, acceptor>>
    OBVIOUS
<1>2. /\ main' \in {"construct", "listen", "spawn", "run", "join", "destroy_ws",
                    "destroy_handler", "join_pool", "exit"}
      /\ signal' \in {"none", "pending", "handled", "stop"}
      /\ outcome' \in {"success", "failure", "terminated", "crashed", "killed"}
    BY DEF TypeOK
<1>3. io' \in [Threads -> {"none", "run", "on_accept", "sleep", "ended"}]
    BY DEF TypeOK
<1>4. accepted' \subseteq Clients
    BY DEF TypeOK
<1>5. client' \in [Clients -> {"away", "backlog", "gone", "connected", "posted", "solving",
                               "answered"}]
    BY DEF TypeOK
<1>6. accepting' \in BOOLEAN /\ stopped' \in BOOLEAN
    BY DEF TypeOK
<1> QED BY <1>1, <1>2, <1>3, <1>4, <1>5, <1>6 DEF TypeOK

LEMMA ClientType ==
    ASSUME TypeOK, NEW c \in Clients, ClientAction(c)
    PROVE  TypeOK'
<1> USE DEF ClientAction, Connect, Leave, TakeLambda, LambdaEnds, Die
<1>1. UNCHANGED <<requested, left, io, acceptor, accepting, accepted, signal, stopped>>
    OBVIOUS
<1>2. /\ main' \in {"construct", "listen", "spawn", "run", "join", "destroy_ws",
                    "destroy_handler", "join_pool", "exit"}
      /\ outcome' \in {"success", "failure", "terminated", "crashed", "killed"}
    BY DEF TypeOK
<1>3. client' \in [Clients -> {"away", "backlog", "gone", "connected", "posted", "solving",
                               "answered"}]
    BY DEF TypeOK
<1> QED BY <1>1, <1>2, <1>3 DEF TypeOK

LEMMA SignalType ==
    ASSUME TypeOK, Signal
    PROVE  TypeOK'
BY DEF TypeOK, Signal, Die
-------------------------------------------------------------------------------
(***************************************************************************)
(* main () step by step.                                                   *)
(***************************************************************************)
LEMMA MainPlace ==
    ASSUME ServerInv, MainStep
    PROVE  PlaceInv' /\ EndInv' /\ ExitInv'
<1> USE DEF ServerInv, TypeOK, Running
<1>1. Main \in Threads /\ Running
    BY WebServerAssumption DEF Main, Threads, MainStep
<1>2. UNCHANGED <<client, signal, stopped>> /\ InPool' = InPool
    BY DEF MainStep, Construct, Listen, ListenThrows, Spawn, SpawnFails, MainRuns, Join,
           DestroyWs, StopPool, JoinPool, InPool
<1>3. CASE Construct \/ Listen \/ ListenThrows \/ SpawnFails
    BY <1>1, <1>2, <1>3 DEF Construct, Listen, ListenThrows, SpawnFails, Die, PlaceInv, EndInv, ExitInv
<1>4. CASE Spawn
    <2>1. /\ main = "spawn" /\ UNCHANGED <<main, outcome>>
          /\ io' = [io EXCEPT ![Cardinality(Spawned) + 1] = "run"]
        BY <1>4 DEF Spawn
    <2>2. io'[Main] = io[Main]
        BY <1>1, <2>1, SpawnedCounted
    <2> QED BY <1>2, <2>1, <2>2 DEF PlaceInv, EndInv, ExitInv
<1>5. CASE MainRuns
    BY <1>1, <1>2, <1>5 DEF MainRuns, PlaceInv, EndInv, ExitInv
<1>6. CASE Join
    <2>1. main = "join" /\ main' = "destroy_ws" /\ UNCHANGED <<io, outcome>>
        BY <1>6 DEF Join
    <2>2. \A t \in Threads : io[t] \in {"none", "ended"}
        BY <1>6, <2>1 DEF Join, Spawned, PlaceInv
    <2> QED BY <1>1, <1>2, <2>1, <2>2 DEF PlaceInv, EndInv, ExitInv
<1>7. CASE DestroyWs
    <2>1. main = "destroy_ws" /\ UNCHANGED io
        BY <1>7 DEF DestroyWs
    <2>2. CASE outcome = "failure" /\ Spawned # {}
        BY <1>2, <1>7, <2>1, <2>2 DEF DestroyWs, Die, PlaceInv, EndInv, ExitInv
    <2>3. CASE ~(outcome = "failure" /\ Spawned # {})
        <3>1. main' = "destroy_handler" /\ UNCHANGED outcome
            BY <1>7, <2>3 DEF DestroyWs
        <3>2. \A t \in Threads : io[t] \in {"none", "ended"}
            BY <1>1, <2>1, <2>3 DEF Spawned, PlaceInv, EndInv
        <3> QED BY <1>2, <2>1, <3>1, <3>2 DEF PlaceInv, EndInv, ExitInv
    <2> QED BY <2>2, <2>3
<1>8. CASE StopPool
    BY <1>1, <1>2, <1>8 DEF StopPool, PlaceInv, EndInv, ExitInv
<1>9. CASE JoinPool
    BY <1>1, <1>2, <1>9 DEF JoinPool, PlaceInv, EndInv, ExitInv
<1> QED BY <1>3, <1>4, <1>5, <1>6, <1>7, <1>8, <1>9 DEF MainStep

(***************************************************************************)
(* A thread of the io_context: main () is at its own end of ioc.run () if  *)
(* it is the main thread, and not past the join otherwise.                 *)
(***************************************************************************)
LEMMA ThreadPlace ==
    ASSUME ServerInv, Running, NEW t \in Threads, ThreadAction(t)
    PROVE  PlaceInv' /\ EndInv' /\ ExitInv'
<1> USE DEF ServerInv, TypeOK, Running
<1>1. Main \in Threads
    BY WebServerAssumption DEF Main, Threads
<1>2. io[t] \in {"run", "on_accept", "sleep"}
    BY DEF ThreadAction, RunEnds, Awake, OnSignal, AcceptFails, MakeSession, NoEndpoint, Accept,
           Request, StopRequest, MayRun
<1>3. /\ main \in {"spawn", "run", "join", "destroy_ws"}
      /\ main = "destroy_ws" => outcome # "success"
      /\ t = Main => main = "run"
    BY <1>1, <1>2 DEF PlaceInv
<1>4. io[t] # "none" /\ \A u \in Threads \ {t} : io'[u] = io[u]
    BY <1>2 DEF ThreadAction, RunEnds, Awake, OnSignal, AcceptFails, MakeSession, NoEndpoint,
                Accept, Request, StopRequest, Throw
<1>5. CASE RunEnds(t)
    <2>1. /\ io' = [io EXCEPT ![t] = "ended"] /\ main' = (IF t = Main THEN "join" ELSE main)
          /\ stopped /\ UNCHANGED <<client, signal, stopped, outcome>>
        BY <1>5 DEF RunEnds
    <2>2. PlaceInv'
        BY <1>1, <1>3, <1>4, <2>1 DEF PlaceInv
    <2>3. EndInv' /\ ExitInv'
        BY <1>3, <2>1 DEF EndInv, ExitInv
    <2> QED BY <2>2, <2>3
<1>6. CASE OnSignal(t)
    BY <1>3, <1>6 DEF OnSignal, PlaceInv, EndInv, ExitInv
<1>7. CASE Awake(t) \/ AcceptFails(t) \/ \E c \in Clients : MakeSession(t, c) \/ Accept(t, c)
    <2>1. /\ UNCHANGED <<main, signal, stopped, outcome>>
          /\ io'[t] \in {"run", "on_accept", "sleep"}
        BY <1>7 DEF Awake, AcceptFails, MakeSession, Accept
    <2>2. PlaceInv'
        BY <1>1, <1>3, <1>4, <2>1 DEF PlaceInv
    <2>3. EndInv' /\ ExitInv'
        BY <1>3, <2>1 DEF EndInv, ExitInv
    <2> QED BY <2>2, <2>3
<1>8. ASSUME NEW c \in Clients, NoEndpoint(t, c)
      PROVE  PlaceInv' /\ EndInv' /\ ExitInv'
    <2>1. UNCHANGED <<client, signal, stopped>>
        BY <1>8 DEF NoEndpoint
    <2>2. CASE t = Main
        <3>1. main' = "destroy_ws" /\ outcome' = "failure" /\ io' = [io EXCEPT ![t] = "ended"]
            BY <1>8, <2>2 DEF NoEndpoint, Throw
        <3> QED BY <1>3, <2>1, <2>2, <3>1 DEF PlaceInv, EndInv, ExitInv
    <2>3. CASE t # Main
        <3>1. main' = "exit" /\ outcome' = "terminated"
            BY <1>8, <2>3 DEF NoEndpoint, Throw, Die
        <3> QED BY <3>1 DEF PlaceInv, EndInv, ExitInv
    <2> QED BY <2>2, <2>3
<1>9. ASSUME NEW c \in Clients, Request(t, c)
      PROVE  PlaceInv' /\ EndInv' /\ ExitInv'
    BY <1>3, <1>9 DEF Request, PlaceInv, EndInv, ExitInv
<1>10. ASSUME NEW c \in Clients, StopRequest(t, c)
       PROVE  PlaceInv' /\ EndInv' /\ ExitInv'
    BY <1>10 DEF StopRequest, Die, PlaceInv, EndInv, ExitInv
<1> QED BY <1>5, <1>6, <1>7, <1>8, <1>9, <1>10 DEF ThreadAction

(* The clients and the pool: a lambda that finds nothing left may crash. *)
LEMMA ClientPlace ==
    ASSUME ServerInv, Running, NEW c \in Clients, ClientAction(c)
    PROVE  PlaceInv' /\ EndInv' /\ ExitInv'
<1>1. /\ UNCHANGED <<io, signal, stopped>>
      /\ UNCHANGED <<main, outcome>> \/ (main' = "exit" /\ outcome' = "crashed")
    BY DEF ClientAction, Connect, Leave, TakeLambda, LambdaEnds, Die
<1> QED BY <1>1 DEF ServerInv, PlaceInv, EndInv, ExitInv, Running

(* A signal is captured by start (), or kills. *)
LEMMA SignalPlace ==
    ASSUME ServerInv, Running, Signal
    PROVE  PlaceInv' /\ EndInv' /\ ExitInv'
<1>1. UNCHANGED <<io, stopped>> /\ signal' = "pending"
    BY DEF Signal
<1>2. CASE main \in {"spawn", "run", "join"}
    <2>1. UNCHANGED <<main, outcome>> /\ signal = "none" /\ ~stopped
        BY <1>2 DEF Signal, ServerInv, EndInv
    <2> QED BY <1>1, <2>1 DEF ServerInv, PlaceInv, EndInv, ExitInv, Running
<1>3. CASE main \notin {"spawn", "run", "join"}
    <2>1. main' = "exit" /\ outcome' = "killed"
        BY <1>3 DEF Signal, Die
    <2> QED BY <2>1 DEF PlaceInv, EndInv, ExitInv, Running
<1> QED BY <1>2, <1>3

LEMMA ServerInvariant == Spec => []ServerInv
<1>1. ServerInv /\ [Next]_vars => ServerInv'
    <2>1. ASSUME ServerInv, UNCHANGED vars
          PROVE  ServerInv'
        BY <2>1 DEF ServerInv, TypeOK, PlaceInv, EndInv, ExitInv, Running, InPool, vars
    <2>2. ASSUME ServerInv, Next
          PROVE  TypeOK'
        BY <2>1, <2>2, NextActions, MainType, ThreadType, ClientType, SignalType DEF ServerInv
    <2>3. ASSUME ServerInv, Next
          PROVE  PlaceInv' /\ EndInv' /\ ExitInv'
        BY <2>1, <2>3, NextActions, MainPlace, ThreadPlace, ClientPlace, SignalPlace DEF ServerInv
    <2> QED BY <2>1, <2>2, <2>3 DEF ServerInv
<1> QED BY <1>1, InitServerInv, PTL DEF Spec

-------------------------------------------------------------------------------
(***************************************************************************)
(* The state of main (), of the listener and of the threads keeps its      *)
(* types; the count of threads still to start is an unsigned integer also  *)
(* for a setting of 0 or 1, for which it wraps around.                     *)
(***************************************************************************)
THEOREM ServerTypeCorrect == Spec => []TypeOK
<1>1. ServerInv => TypeOK
    BY DEF ServerInv
<1> QED BY <1>1, ServerInvariant, PTL

(***************************************************************************)
(* main () destroys the io_context only when no thread is inside           *)
(* ioc.run (), whether it was stopped or an exception left start (); and   *)
(* it returns only after the last lambda of the pool has ended, with       *)
(* success only if a signal told it to.                                    *)
(***************************************************************************)
THEOREM OrderlyEnd == Spec => []EndsInOrder
<1>1. ServerInv => EndsInOrder
    <2> SUFFICES ASSUME ServerInv
                 PROVE  EndsInOrder
        OBVIOUS
    <2>1. Running /\ ~IocAlive => main \in {"destroy_handler", "join_pool"}
        BY DEF ServerInv, TypeOK, Running, IocAlive
    <2> QED BY <2>1 DEF ServerInv, PlaceInv, ExitInv, EndsInOrder
<1> QED BY <1>1, ServerInvariant, PTL

===============================================================================
