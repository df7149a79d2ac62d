-------------------------- MODULE WorkHandler_proofs --------------------------
(***************************************************************************)
(* Proofs about JobQueue and WorkHandler, for any number of jobs,          *)
(* requests, pool threads and devices: the order of the jobs, types, the   *)
(* use of the devices, the replies, the mutexes, and where a job may be.   *)
(***************************************************************************)
EXTENDS WorkHandler, SequenceTheorems, FiniteSetTheorems, TLAPS

(* Priorities and ids are numbers, which is all the order looks at. *)
LEMMA JobFields ==
    ASSUME NEW j \in Job
    PROVE  j.priority \in Nat /\ j.id \in Nat /\ j.req \in Requests
<1>1. j.priority \in Priorities /\ j.id \in 0 .. IdSpace - 1 /\ j.req \in Requests
    BY DEF Job
<1>2. j.priority \in Nat
    BY <1>1, JobQueueAssumption
<1>3. j.id \in Nat
    BY <1>1, JobQueueAssumption
<1> QED BY <1>1, <1>2, <1>3

(***************************************************************************)
(* job::comparator is a strict weak order: irreflexive, transitive, and    *)
(* with a transitive equivalence.  std::priority_queue and std::set are    *)
(* undefined without it.                                                   *)
(***************************************************************************)
THEOREM StrictWeakOrder ==
    ASSUME NEW j \in Job, NEW k \in Job, NEW l \in Job
    PROVE  /\ ~comparator(j, j)
           /\ comparator(j, k) /\ comparator(k, l) => comparator(j, l)
           /\ Equivalent(j, k) /\ Equivalent(k, l) => Equivalent(j, l)
<1>1. /\ j.priority \in Nat /\ k.priority \in Nat /\ l.priority \in Nat
      /\ j.id \in Nat /\ k.id \in Nat /\ l.id \in Nat
    BY JobFields
<1>2. ~comparator(j, j)
    BY <1>1 DEF comparator
<1>3. ASSUME comparator(j, k), comparator(k, l)
      PROVE  comparator(j, l)
    BY <1>1, <1>3 DEF comparator
<1>4. ASSUME Equivalent(j, k), Equivalent(k, l)
      PROVE  Equivalent(j, l)
    BY <1>1, <1>4 DEF comparator, Equivalent
<1> QED BY <1>2, <1>3, <1>4

(* Jobs compare equal exactly when they share priority and id. *)
LEMMA EquivalentMeans ==
    ASSUME NEW j \in Job, NEW k \in Job
    PROVE  Equivalent(j, k) <=> j.priority = k.priority /\ j.id = k.id
BY JobFields DEF Equivalent, comparator

(***************************************************************************)
(* While no two queued jobs share an id, top () has no choice: the queue   *)
(* is first-in first-out by id within the highest priority.                *)
(***************************************************************************)
THEOREM TopUnique ==
    ASSUME NEW queue \in SUBSET Job,
           \A j, k \in queue : j.id = k.id => j = k,
           NEW top \in Tops(queue), NEW other \in queue
    PROVE  /\ other \in Tops(queue) => other = top
           /\ other.priority <= top.priority
           /\ other.priority = top.priority => top.id <= other.id
<1>1. top \in queue /\ ~comparator(top, other)
    BY DEF Tops
<1>2. /\ top.priority \in Nat /\ other.priority \in Nat
      /\ top.id \in Nat /\ other.id \in Nat
    BY <1>1, JobFields
<1>3. /\ other.priority <= top.priority
      /\ other.priority = top.priority => top.id <= other.id
    BY <1>1, <1>2 DEF comparator
<1>4. ASSUME other \in Tops(queue)
      PROVE  other = top
    <2>1. ~comparator(other, top)
        BY <1>1, <1>4 DEF Tops
    <2>2. other.id = top.id
        BY <1>1, <1>2, <2>1 DEF comparator
    <2> QED BY <1>1, <2>2
<1> QED BY <1>3, <1>4

(* Appending a new element to a sequence without repetitions. *)
LEMMA AppendDistinct ==
    ASSUME NEW S, NEW s \in Seq(S), NEW e \in S
    PROVE  /\ Range(Append(s, e)) = Range(s) \cup {e}
           /\ IsInjective(s) /\ e \notin Range(s) => IsInjective(Append(s, e))
<1>1. /\ Len(s) \in Nat /\ DOMAIN s = 1 .. Len(s)
      /\ DOMAIN Append(s, e) = 1 .. Len(s) + 1
      /\ \A i \in 1 .. Len(s) : Append(s, e)[i] = s[i]
      /\ Append(s, e)[Len(s) + 1] = e
    BY AppendProperties, LenProperties
<1>2. Range(Append(s, e)) = Range(s) \cup {e}
    BY <1>1 DEF Range
<1>3. ASSUME IsInjective(s), e \notin Range(s)
      PROVE  IsInjective(Append(s, e))
    BY <1>1, <1>3 DEF IsInjective, Range
<1> QED BY <1>2, <1>3

(* Taking the first element off a sequence without repetitions. *)
LEMMA TailDistinct ==
    ASSUME NEW S, NEW s \in Seq(S), s # <<>>, IsInjective(s)
    PROVE  /\ Head(s) \in Range(s)
           /\ Range(Tail(s)) = Range(s) \ {Head(s)}
           /\ IsInjective(Tail(s))
<1>1. /\ Len(s) \in Nat \ {0} /\ DOMAIN s = 1 .. Len(s)
      /\ DOMAIN Tail(s) = 1 .. Len(s) - 1
      /\ \A i \in 1 .. Len(s) - 1 : Tail(s)[i] = s[i + 1]
      /\ Head(s) = s[1]
    BY HeadTailProperties, LenProperties, EmptySeq
<1>2. Head(s) \in Range(s)
    BY <1>1 DEF Range
<1>3. IsInjective(Tail(s))
    BY <1>1 DEF IsInjective
<1>4. ASSUME NEW e \in Range(Tail(s))
      PROVE  e \in Range(s) \ {Head(s)}
    <2>1. PICK i \in 1 .. Len(s) - 1 : e = s[i + 1]
        BY <1>1, <1>4 DEF Range
    <2>2. i + 1 \in DOMAIN s /\ 1 \in DOMAIN s /\ i + 1 # 1
        BY <1>1, <2>1
    <2> QED BY <1>1, <2>1, <2>2 DEF Range, IsInjective
<1>5. ASSUME NEW e \in Range(s) \ {Head(s)}
      PROVE  e \in Range(Tail(s))
    <2>1. PICK i \in 1 .. Len(s) : e = s[i]
        BY <1>1, <1>5 DEF Range
    <2>2. i # 1
        BY <1>1, <1>5, <2>1
    <2>3. i - 1 \in 1 .. Len(s) - 1 /\ Tail(s)[i - 1] = e
        BY <1>1, <2>1, <2>2
    <2> QED BY <1>1, <2>3 DEF Range
<1> QED BY <1>2, <1>3, <1>4, <1>5

(* push_back stores jobs only, and never more than the buffer's capacity. *)
LEMMA PushBackType ==
    ASSUME NEW buffer \in Seq(Job), NEW job \in Job
    PROVE  /\ PushBack(buffer, job) \in Seq(Job)
           /\ Len(buffer) <= CompletedCapacity => Len(PushBack(buffer, job)) <= CompletedCapacity
<1>1. Len(buffer) \in Nat /\ CompletedCapacity \in Nat \ {0}
    BY JobQueueAssumption
<1>2. CASE Len(buffer) < CompletedCapacity
    <2>1. PushBack(buffer, job) = Append(buffer, job)
        BY <1>2 DEF PushBack
    <2> QED BY <1>1, <1>2, <2>1
<1>3. CASE ~(Len(buffer) < CompletedCapacity)
    <2>1. PushBack(buffer, job) = Append(Tail(buffer), job)
        BY <1>3 DEF PushBack
    <2>2. buffer # <<>>
        BY <1>1, <1>3
    <2>3. Tail(buffer) \in Seq(Job) /\ Len(Tail(buffer)) = Len(buffer) - 1
        BY <2>2, HeadTailProperties
    <2> QED BY <1>1, <1>3, <2>1, <2>3
<1> QED BY <1>2, <1>3

-------------------------------------------------------------------------------
(* The proved search for a device, on this module's device variables. *)
DevP == INSTANCE DevicePool_proofs

-------------------------------------------------------------------------------
(***************************************************************************)
(* TypeOK is not inductive by itself: a job is built from a hash that has  *)
(* been parsed, and a lambda past its pop has a job and a request.         *)
(***************************************************************************)
HashParsed == \A r \in Requests : pc[r] = "created" => op[r].hash # BadHash

LambdaState ==
    \A w \in Workers :
        /\ handler[w] = None <=> wpc[w] = "idle"
        /\ current[w] = None <=> wpc[w] \in {"idle", "pop"}

TypeInv == TypeOK /\ HashParsed /\ LambdaState

(* All threads are idle and nothing is stored. *)
LEMMA InitTypeInv ==
    ASSUME Init
    PROVE  TypeInv
<1>1. 0 \in 0 .. IdSpace - 1 /\ 1 % IdSpace \in 0 .. IdSpace - 1
    BY JobQueueAssumption
<1>2. NoOperation \in Operation
    BY JobQueueAssumption DEF NoOperation, Operation, Kinds
<1>3. NoListing \in Listing
    BY DEF NoListing, Listing
<1>4. TypeOK
    BY <1>1, <1>2, <1>3 DEF Init, TypeOK, RequestStates, WorkerStates
<1>5. HashParsed /\ LambdaState
    BY DEF Init, HashParsed, LambdaState
<1> QED BY <1>4, <1>5 DEF TypeInv

(* One more reply of a known kind. *)
LEMMA RespondType ==
    ASSUME replies \in [Requests -> Seq(ReplyKinds)],
           NEW r \in Requests, NEW what \in ReplyKinds, Respond(r, what)
    PROVE  replies' \in [Requests -> Seq(ReplyKinds)]
BY DEF Respond

(* The job of a request whose hash has been parsed. *)
LEMMA JobOfType ==
    ASSUME TypeInv, NEW r \in Requests, pc[r] = "created"
    PROVE  JobOf(r) \in Job
<1>1. op[r] \in Operation /\ op[r].hash # BadHash /\ job_id[r] \in 0 .. IdSpace - 1
    BY DEF TypeInv, TypeOK, HashParsed
<1>2. op[r].hash \in Hashes /\ op[r].priority \in Priorities /\ 0 \in Priorities
    BY <1>1, JobQueueAssumption DEF Operation
<1> QED BY <1>1, <1>2 DEF JobOf, Job

(* A request that goes anywhere but to "created", or answers, keeps HashParsed. *)
LEMMA GoToType ==
    ASSUME pc \in [Requests -> RequestStates], NEW r \in Requests,
           NEW state \in RequestStates, GoTo(r, state)
    PROVE  /\ pc' \in [Requests -> RequestStates]
           /\ \A q \in Requests : q # r => pc'[q] = pc[q]
           /\ pc'[r] = state
BY DEF GoTo

LEMMA AnswerType ==
    ASSUME TypeInv, NEW r \in Requests, NEW what \in ReplyKinds, Answer(r, what), UNCHANGED op
    PROVE  /\ pc' \in [Requests -> RequestStates]
           /\ replies' \in [Requests -> Seq(ReplyKinds)]
           /\ HashParsed'
<1>1. "done" \in RequestStates /\ pc \in [Requests -> RequestStates] /\ GoTo(r, "done")
    BY DEF TypeInv, TypeOK, RequestStates, Answer
<1>2. /\ pc' \in [Requests -> RequestStates]
      /\ \A q \in Requests : q # r => pc'[q] = pc[q]
      /\ pc'[r] = "done"
    BY <1>1, GoToType
<1>3. HashParsed'
    BY <1>2 DEF TypeInv, HashParsed
<1>4. replies' \in [Requests -> Seq(ReplyKinds)]
    BY RespondType DEF TypeInv, TypeOK, Answer
<1> QED BY <1>2, <1>3, <1>4

(* What a request's handler does keeps the types. *)
LEMMA RequestTypeInv ==
    ASSUME TypeInv, NEW r \in Requests, Receive(r) \/ RequestStep(r)
    PROVE  TypeInv'
<1> USE DEF TypeInv, TypeOK, HashParsed, LambdaState, RequestStates,
        ReplyKinds, workerVars, mutexVars, devVars
<1>1. CASE Receive(r)
    BY <1>1, WorkHandlerAssumption DEF Receive, GoTo
<1>2. CASE CreateJob(r)
    <2>1. (job_id_dispenser + 1) % IdSpace \in 0 .. IdSpace - 1
        BY JobQueueAssumption
    <2>2. /\ job_id' \in [Requests -> 0 .. IdSpace - 1]
          /\ job_id_dispenser' \in 0 .. IdSpace - 1
        <3>1. CASE NumDevices = 0
            BY <1>2, <3>1 DEF CreateJob
        <3>2. CASE NumDevices # 0
            <4>1. /\ job_id' = [job_id EXCEPT ![r] = job_id_dispenser]
                  /\ job_id_dispenser' = (job_id_dispenser + 1) % IdSpace
                BY <1>2, <3>2 DEF CreateJob
            <4> QED BY <2>1, <4>1
        <3> QED BY <3>1, <3>2
    <2>3. /\ pc' \in [Requests -> RequestStates]
          /\ replies' \in [Requests -> Seq(ReplyKinds)]
          /\ HashParsed'
        <3>1. CASE NumDevices = 0 \/ op[r].hash = BadHash
            <4>1. \E what \in ReplyKinds : Answer(r, what) /\ UNCHANGED op
                BY <1>2, <3>1 DEF CreateJob
            <4> QED BY <4>1, AnswerType
        <3>2. CASE NumDevices # 0 /\ op[r].hash # BadHash
            <4>1. GoTo(r, "created") /\ UNCHANGED <<op, replies>>
                BY <1>2, <3>2 DEF CreateJob
            <4>2. /\ pc' \in [Requests -> RequestStates]
                  /\ \A q \in Requests : q # r => pc'[q] = pc[q]
                BY <4>1, GoToType
            <4> QED BY <3>2, <4>1, <4>2
        <3> QED BY <3>1, <3>2
    <2> QED BY <1>2, <2>2, <2>3 DEF CreateJob
<1>3. CASE PushJob(r)
    <2>1. JobOf(r) \in Job
        BY <1>3, JobOfType DEF PushJob
    <2>2. jobs' \in SUBSET Job
        BY <1>3, <2>1 DEF PushJob
    <2>3. /\ pc' \in [Requests -> RequestStates]
          /\ replies' \in [Requests -> Seq(ReplyKinds)]
          /\ HashParsed'
        <3>1. CASE Cardinality(jobs) < RequestLimit
            <4>1. GoTo(r, "pushed") /\ UNCHANGED <<op, replies>>
                BY <1>3, <3>1 DEF PushJob
            <4>2. /\ pc' \in [Requests -> RequestStates]
                  /\ \A q \in Requests : q # r => pc'[q] = pc[q]
                  /\ pc'[r] = "pushed"
                BY <4>1, GoToType
            <4> QED BY <4>1, <4>2
        <3>2. CASE ~(Cardinality(jobs) < RequestLimit)
            <4>1. Answer(r, "limit_exceeded") /\ UNCHANGED op
                BY <1>3, <3>2 DEF PushJob
            <4> QED BY <4>1, AnswerType
        <3> QED BY <3>1, <3>2
    <2> QED BY <1>3, <2>2, <2>3 DEF PushJob
<1>4. CASE Post(r)
    BY <1>4 DEF Post, GoTo
<1>5. CASE AnswerAtOnce(r)
    BY <1>5 DEF AnswerAtOnce, GoTo, Answer, Respond
<1>6. CASE CancelWork(r)
    <2>1. \E what \in ReplyKinds : Answer(r, what) /\ UNCHANGED op
        BY <1>6 DEF CancelWork
    <2>2. /\ pc' \in [Requests -> RequestStates]
          /\ replies' \in [Requests -> Seq(ReplyKinds)]
          /\ HashParsed'
        BY <2>1, AnswerType
    <2>3. jobs' \in SUBSET Job
        BY <1>6 DEF CancelWork, Without
    <2> QED BY <1>6, <2>2, <2>3 DEF CancelWork
<1>7. CASE ClearQueue(r)
    <2>1. \E what \in ReplyKinds : Answer(r, what) /\ UNCHANGED op
        BY <1>7 DEF ClearQueue
    <2>2. /\ pc' \in [Requests -> RequestStates]
          /\ replies' \in [Requests -> Seq(ReplyKinds)]
          /\ HashParsed'
        BY <2>1, AnswerType
    <2>3. jobs' \in SUBSET Job
        BY <1>7 DEF ClearQueue
    <2> QED BY <1>7, <2>2, <2>3 DEF ClearQueue
<1>8. CASE QueueLockJobs(r)
    BY <1>8 DEF QueueLockJobs, GoTo
<1>9. CASE QueueLockActive(r)
    BY <1>9 DEF QueueLockActive, GoTo
<1>10. CASE QueueCopyJobs(r)
    BY <1>10 DEF QueueCopyJobs, GoTo, Listing, Owners, Job
<1>11. CASE QueueReply(r)
    <2>1. replies' \in [Requests -> Seq(ReplyKinds)]
        BY <1>11, RespondType DEF QueueReply, Answer
    <2>2. /\ Owners(active_jobs) \subseteq Requests
          /\ Owners(Range(completed_jobs)) \subseteq Requests
        <3>1. \A S \in SUBSET Job : Owners(S) \subseteq Requests
            BY DEF Owners, Job
        <3>2. Range(completed_jobs) \in SUBSET Job
            BY RangeOfSeq
        <3> QED BY <3>1, <3>2
    <2>3. listing' \in [Requests -> Listing]
        BY <1>11, <2>2 DEF QueueReply, Listing
    <2> QED BY <1>11, <2>1, <2>3 DEF QueueReply, GoTo, Answer
<1> QED BY <1>1, <1>2, <1>3, <1>4, <1>5, <1>6, <1>7, <1>8, <1>9, <1>10, <1>11 DEF RequestStep

(* What a pool thread does keeps the types. *)
LEMMA WorkerTypeInv ==
    ASSUME TypeInv, NEW w \in Workers, WorkerStep(w)
    PROVE  TypeInv'
<1> USE DEF TypeInv, TypeOK, HashParsed, LambdaState, WorkerStates,
        ReplyKinds, requestVars, mutexVars, devVars
<1>1. CASE Take(w)
    <2>1. Head(pool) \in Requests /\ pool' \in Seq(Requests)
        BY <1>1 DEF Take
    <2>2. /\ handler' \in [Workers -> Requests \cup {None}]
          /\ wpc' \in [Workers -> WorkerStates]
          /\ LambdaState'
        BY <1>1, <2>1, WorkHandlerAssumption DEF Take
    <2> QED BY <1>1, <2>1, <2>2 DEF Take
<1>2. CASE NoJobsAvailable(w)
    BY <1>2 DEF NoJobsAvailable, Leave, Respond
<1>3. CASE PopJob(w)
    BY <1>3, WorkHandlerAssumption DEF PopJob, Tops
<1>4. CASE Acquire(w)
    <2>1. replies' \in [Requests -> Seq(ReplyKinds)]
        BY <1>4, RespondType DEF Acquire
    <2>2. \/ Leave(w)
          \/ /\ wpc' = wpc \/ wpc' = [wpc EXCEPT ![w] = "start"]
             /\ UNCHANGED <<handler, current>>
        BY <1>4 DEF Acquire
    <2>3. /\ wpc' \in [Workers -> WorkerStates]
          /\ handler' \in [Workers -> Requests \cup {None}]
          /\ current' \in [Workers -> Job \cup {None}]
          /\ LambdaState'
        <3>1. CASE Leave(w)
            BY <3>1 DEF Leave
        <3>2. CASE UNCHANGED <<wpc, handler, current>>
            BY <3>2
        <3>3. CASE /\ wpc' = [wpc EXCEPT ![w] = "start"]
                   /\ UNCHANGED <<handler, current>>
            BY <1>4, <3>3 DEF Acquire
        <3> QED BY <2>2, <3>1, <3>2, <3>3
    <2> QED BY <1>4, <2>1, <2>3 DEF Acquire
<1>5. CASE Activate(w)
    BY <1>5 DEF Activate, SetInsert
<1>6. CASE Solve(w)
    <2>1. handler[w] \in Requests /\ current[w] \in Job
        BY <1>6 DEF Solve
    <2>2. replies' \in [Requests -> Seq(ReplyKinds)]
        BY <1>6, <2>1, RespondType DEF Solve
    <2>3. worked' \in [Requests -> Requests \cup {None}]
        BY <1>6, <2>1 DEF Solve, Job
    <2> QED BY <1>6, <2>2, <2>3 DEF Solve
<1>7. CASE ReleaseDevice(w)
    BY <1>7 DEF ReleaseDevice
<1>8. CASE LockActive(w)
    BY <1>8 DEF LockActive
<1>9. CASE Complete(w)
    BY <1>9, PushBackType DEF Complete, Leave, SetErase
<1> QED BY <1>1, <1>2, <1>3, <1>4, <1>5, <1>6, <1>7, <1>8, <1>9 DEF WorkerStep

LEMMA StutterTypeInv ==
    ASSUME TypeInv, UNCHANGED vars
    PROVE  TypeInv'
BY DEF TypeInv, TypeOK, HashParsed, LambdaState, vars, requestVars, mutexVars, workerVars

(* TypeInv is inductive: what a handler stores, every later step keeps typed. *)
THEOREM TypeInvariant == Spec => []TypeInv
<1>1. Init => TypeInv
    BY InitTypeInv
<1>2. TypeInv /\ [Next]_vars => TypeInv'
    BY RequestTypeInv, WorkerTypeInv, StutterTypeInv DEF Next, Quiescent
<1> QED BY <1>1, <1>2, PTL DEF Spec

(***************************************************************************)
(* Every variable of the work handler has its type in every reachable      *)
(* state: ids stay within the width of an unsigned, and a mutex is owned   *)
(* by a thread that may own it.                                            *)
(***************************************************************************)
THEOREM TypeCorrect == Spec => []TypeOK
<1>1. TypeInv => TypeOK
    BY DEF TypeInv
<1> QED BY <1>1, TypeInvariant, PTL

-------------------------------------------------------------------------------
(***************************************************************************)
(* Every step of the work handler is a step of DevicePool or leaves the    *)
(* devices alone.                                                          *)
(***************************************************************************)
LEMMA DeviceStep ==
    ASSUME [Next]_vars
    PROVE  [DevP!Next]_devVars
<1>1. ASSUME NEW r \in Requests, Receive(r) \/ RequestStep(r)
      PROVE  UNCHANGED devVars
    BY <1>1 DEF RequestStep, Receive, CreateJob, PushJob, Post, AnswerAtOnce, CancelWork,
                ClearQueue, QueueLockJobs, QueueLockActive, QueueCopyJobs, QueueReply
<1>2. ASSUME NEW w \in Workers, WorkerStep(w)
      PROVE  [DevP!Next]_devVars
    <2>1. CASE PopJob(w)
        <3>1. DevP!StartScan(w)
            BY <2>1 DEF PopJob, Dev!StartScan, DevP!StartScan, Dev!NoDevice, DevP!NoDevice,
                        Dev!Devices, DevP!Devices
        <3> QED BY <3>1 DEF DevP!Next
    <2>2. CASE Acquire(w)
        <3>1. DevP!TestAndSet(w)
            BY <2>2 DEF Acquire, Dev!TestAndSet, DevP!TestAndSet, Dev!NoDevice, DevP!NoDevice,
                        Dev!Devices, DevP!Devices
        <3> QED BY <3>1 DEF DevP!Next
    <2>3. CASE ReleaseDevice(w)
        <3>1. DevP!Release(w)
            BY <2>3 DEF ReleaseDevice, Dev!Release, DevP!Release, Dev!NoDevice, DevP!NoDevice
        <3> QED BY <3>1 DEF DevP!Next
    <2>4. CASE Take(w) \/ NoJobsAvailable(w) \/ Activate(w) \/ Solve(w) \/ LockActive(w)
                 \/ Complete(w)
        BY <2>4 DEF Take, NoJobsAvailable, Activate, Solve, LockActive, Complete
    <2> QED BY <1>2, <2>1, <2>2, <2>3, <2>4 DEF WorkerStep
<1>3. ASSUME UNCHANGED vars
      PROVE  UNCHANGED devVars
    BY <1>3 DEF vars
<1> QED BY <1>1, <1>2, <1>3 DEF Next, Quiescent

(* The constants meet what DevicePool assumes of them. *)
LEMMA DeviceAssumption == DevP!DevicePoolAssumption
BY WorkHandlerAssumption DEF Cardinality, DevP!Cardinality, IsFiniteSet, DevP!IsFiniteSet

(* So the invariant of the devices, proved for DevicePool, holds here. *)
LEMMA DevicesSound == Spec => [](DevP!DeviceInv /\ DevP!DeviceAvailable)
<1>1. Init => DevP!DeviceInv
    <2>1. Init => DevP!Init
        BY DEF Init, Dev!Init, DevP!Init, Dev!NoDevice, DevP!NoDevice, Dev!Devices, DevP!Devices
    <2> QED BY <2>1, DevP!InitDeviceInv, DeviceAssumption
<1>2. DevP!DeviceInv /\ [Next]_vars => DevP!DeviceInv'
    <2>1. [Next]_vars => [DevP!Next]_(DevP!devVars)
        BY DeviceStep DEF devVars, DevP!devVars
    <2> QED BY <2>1, DevP!NextDeviceInv, DeviceAssumption
<1>3. DevP!DeviceInv => DevP!DeviceAvailable
    BY DevP!NoneAtEnd, DeviceAssumption
<1> QED BY <1>1, <1>2, <1>3, PTL DEF Spec

(***************************************************************************)
(* A thread has a device from the end of its search to the release, and at *)
(* no other place of the lambda.                                           *)
(***************************************************************************)
HeldInv ==
    \A w \in Workers :
        wpc[w] \in {"start", "solve", "release"} <=> held[w] # Dev!NoDevice

LEMMA HeldStep ==
    ASSUME TypeInv, DevP!DeviceInv, HeldInv, [Next]_vars
    PROVE  HeldInv'
<1>1. /\ wpc \in [Workers -> WorkerStates] /\ NumDevices \in Nat
      /\ held \in [Workers -> 0 .. NumDevices] /\ cursor \in [Workers -> 0 .. NumDevices + 1]
    BY WorkHandlerAssumption DEF TypeInv, TypeOK, DevP!DeviceInv, DevP!TypeOK, DevP!End
<1>2. ASSUME UNCHANGED <<wpc, held>>
      PROVE  HeldInv'
    BY <1>2 DEF HeldInv
<1>3. ASSUME NEW r \in Requests, Receive(r) \/ RequestStep(r)
      PROVE  UNCHANGED <<wpc, held>>
    BY <1>3 DEF RequestStep, Receive, CreateJob, PushJob, Post, AnswerAtOnce, CancelWork,
        ClearQueue, QueueLockJobs, QueueLockActive, QueueCopyJobs, QueueReply, workerVars, devVars
<1>4. ASSUME NEW w \in Workers, WorkerStep(w)
      PROVE  HeldInv'
    <2>1. CASE Take(w) \/ NoJobsAvailable(w) \/ PopJob(w) \/ Activate(w) \/ Solve(w)
               \/ LockActive(w) \/ Complete(w)
        <3>1. UNCHANGED held
            BY <2>1 DEF Take, NoJobsAvailable, PopJob, Activate, Solve, LockActive, Complete,
                devVars, Dev!StartScan
        <3>2. \E s \in WorkerStates :
                 /\ wpc' = [wpc EXCEPT ![w] = s]
                 /\ s \in {"start", "solve", "release"} <=> wpc[w] \in {"start", "solve", "release"}
            BY <2>1 DEF Take, NoJobsAvailable, PopJob, Activate, Solve, LockActive, Complete,
                Leave, WorkerStates
        <3> QED BY <1>1, <3>1, <3>2 DEF HeldInv
    <2>2. CASE Acquire(w)
        <3>1. /\ cursor[w] \in 1 .. NumDevices /\ wpc[w] = "acquire" /\ held[w] = 0
            BY <1>1, <2>2 DEF Acquire, HeldInv, Dev!TestAndSet, Dev!Devices, Dev!NoDevice
        <3>2. CASE busy[cursor[w]]
            <4>1. UNCHANGED held
                BY <2>2, <3>2 DEF Acquire, Dev!TestAndSet
            <4>2. wpc' = wpc \/ wpc' = [wpc EXCEPT ![w] = "idle"]
                BY <1>1, <2>2, <3>1, <4>1 DEF Acquire, Leave, Dev!NoDevice
            <4> QED BY <1>1, <3>1, <4>1, <4>2 DEF HeldInv, Dev!NoDevice
        <3>3. CASE ~busy[cursor[w]]
            <4>1. /\ held' = [held EXCEPT ![w] = cursor[w]]
                  /\ cursor' = [cursor EXCEPT ![w] = 0]
                BY <2>2, <3>3 DEF Acquire, Dev!TestAndSet, Dev!NoDevice
            <4>2. cursor'[w] # NumDevices + 1 /\ held'[w] # 0
                BY <1>1, <3>1, <4>1
            <4>3. wpc' = [wpc EXCEPT ![w] = "start"]
                BY <2>2, <4>2 DEF Acquire, Dev!End, Dev!NoDevice
            <4> QED BY <1>1, <4>1, <4>2, <4>3 DEF HeldInv, Dev!NoDevice
        <3> QED BY <3>2, <3>3
    <2>3. CASE ReleaseDevice(w)
        <3>1. held' = [held EXCEPT ![w] = 0] /\ wpc' = [wpc EXCEPT ![w] = "finish"]
            BY <2>3 DEF ReleaseDevice, Dev!Release, Dev!NoDevice
        <3> QED BY <1>1, <3>1 DEF HeldInv, Dev!NoDevice
    <2> QED BY <1>4, <2>1, <2>2, <2>3 DEF WorkerStep
<1>5. CASE UNCHANGED vars
    BY <1>2, <1>5 DEF vars, workerVars, devVars
<1> QED BY <1>2, <1>3, <1>4, <1>5 DEF Next, Quiescent

(***************************************************************************)
(* Every path of the lambda that claims a device gives it back: a busy     *)
(* flag is set exactly while a thread works with that device.              *)
(***************************************************************************)
THEOREM NoDeviceLeaks == Spec => []DevicesInUse
<1>1. Init => HeldInv
    BY DEF Init, HeldInv, Dev!Init, Dev!NoDevice
<1>2. TypeInv /\ DevP!DeviceInv /\ HeldInv /\ [Next]_vars => HeldInv'
    BY HeldStep
<1>3. DevP!DeviceInv /\ HeldInv => DevicesInUse
    BY WorkHandlerAssumption
       DEF DevP!DeviceInv, DevP!BusyExactlyWhenHeld, DevP!Devices, HeldInv, DevicesInUse,
           Dev!Devices, Dev!NoDevice
<1> QED BY <1>1, <1>2, <1>3, TypeInvariant, DevicesSound, PTL DEF Spec

(***************************************************************************)
(* Only a search that ran off the end reports a missing device, and none   *)
(* does: no client is ever told "No available devices".                    *)
(***************************************************************************)
LEMMA NoDeviceReply ==
    ASSUME TypeInv, NoDeviceErrors, DevP!DeviceAvailable', [Next]_vars
    PROVE  NoDeviceErrors'
<1>1. ASSUME NEW r \in Requests, NEW what \in ReplyKinds \ {"no_device"}, Respond(r, what)
      PROVE  NoDeviceErrors'
    <2> SUFFICES ASSUME NEW q \in Requests
                 PROVE  "no_device" \notin Range(replies'[q])
        BY DEF NoDeviceErrors
    <2>1. replies \in [Requests -> Seq(ReplyKinds)]
        BY DEF TypeInv, TypeOK
    <2>2. CASE q = r
        <3>1. replies'[q] = Append(replies[q], what)
            BY <1>1, <2>1, <2>2 DEF Respond
        <3>2. Range(replies'[q]) = Range(replies[q]) \cup {what}
            BY <2>1, <3>1, AppendDistinct
        <3> QED BY <3>2 DEF NoDeviceErrors
    <2>3. CASE q # r
        BY <1>1, <2>1, <2>3 DEF Respond, NoDeviceErrors
    <2> QED BY <2>2, <2>3
<1>2. ASSUME UNCHANGED replies
      PROVE  NoDeviceErrors'
    BY <1>2 DEF NoDeviceErrors
<1>3. ASSUME NEW r \in Requests, Receive(r) \/ RequestStep(r)
      PROVE  NoDeviceErrors'
    BY <1>1, <1>2, <1>3 DEF RequestStep, Receive, CreateJob, PushJob, Post, AnswerAtOnce,
        CancelWork, ClearQueue, QueueLockJobs, QueueLockActive, QueueCopyJobs, QueueReply,
        Answer, ReplyKinds
<1>4. ASSUME NEW w \in Workers, WorkerStep(w)
      PROVE  NoDeviceErrors'
    <2>1. CASE NoJobsAvailable(w) \/ Solve(w)
        <3>1. handler[w] \in Requests
            BY <2>1, WorkHandlerAssumption DEF NoJobsAvailable, Solve, TypeInv, TypeOK, LambdaState
        <3>2. \E what \in {"no_jobs", "work"} : Respond(handler[w], what)
            BY <2>1 DEF NoJobsAvailable, Solve
        <3> QED BY <1>1, <3>1, <3>2 DEF ReplyKinds
    <2>2. CASE Acquire(w)
        <3>1. cursor'[w] # Dev!End
            BY DEF DevP!DeviceAvailable, Dev!End, DevP!End
        <3> QED BY <1>2, <2>2, <3>1 DEF Acquire
    <2>3. CASE Take(w) \/ PopJob(w) \/ Activate(w) \/ ReleaseDevice(w) \/ LockActive(w)
                 \/ Complete(w)
        BY <1>2, <2>3 DEF Take, PopJob, Activate, ReleaseDevice, LockActive, Complete, requestVars
    <2> QED BY <1>4, <2>1, <2>2, <2>3 DEF WorkerStep
<1>5. CASE UNCHANGED vars
    BY <1>2, <1>5 DEF vars, requestVars
<1> QED BY <1>3, <1>4, <1>5 DEF Next, Quiescent

THEOREM NoClientSeesDeviceError == Spec => []NoDeviceErrors
<1>1. Init => NoDeviceErrors
    BY DEF Init, NoDeviceErrors, Range
<1>2. TypeInv /\ NoDeviceErrors /\ DevP!DeviceAvailable' /\ [Next]_vars => NoDeviceErrors'
    BY NoDeviceReply
<1> QED BY <1>1, <1>2, TypeInvariant, DevicesSound, PTL DEF Spec

-------------------------------------------------------------------------------
(***************************************************************************)
(* Why nobody is answered twice: while a request's own handler runs there  *)
(* is no lambda for it, and then at most one, in the pool or in a thread,  *)
(* and the request is unanswered as long as that lambda has not replied.   *)
(***************************************************************************)
OwnHandlerFirst ==
    \A r \in Requests : pc[r] # "done" =>
        /\ r \notin Range(pool)
        /\ \A w \in Workers : handler[w] # r

OneLambda ==
    /\ IsInjective(pool)
    /\ \A w \in Workers : handler[w] \notin Range(pool)
    /\ \A v, w \in Workers : handler[v] = handler[w] /\ handler[v] # None => v = w

Unanswered ==
    {r \in Requests : pc[r] \notin {"done"}} \cup Range(pool)
      \cup {handler[w] : w \in {v \in Workers : wpc[v] \in {"pop", "acquire", "start", "solve"}}}

RepliesInv ==
    /\ OwnHandlerFirst
    /\ OneLambda
    /\ \A r \in Unanswered : replies[r] = <<>>
    /\ AtMostOneReply

(* An answer makes one reply where there was none. *)
LEMMA FirstReply ==
    ASSUME replies \in [Requests -> Seq(ReplyKinds)],
           NEW r \in Requests, NEW what \in ReplyKinds,
           replies[r] = <<>>, Respond(r, what)
    PROVE  /\ Len(replies'[r]) <= 1
           /\ \A q \in Requests \ {r} : replies'[q] = replies[q]
BY DEF Respond

(* No request has been received, and no thread has a lambda. *)
LEMMA InitRepliesInv ==
    ASSUME Init
    PROVE  RepliesInv
<1>1. pool = <<>> /\ Range(pool) = {} /\ IsInjective(pool)
    BY DEF Init, Range, IsInjective
<1>2. None \notin Requests
    BY WorkHandlerAssumption
<1>3. OwnHandlerFirst /\ OneLambda
    BY <1>1, <1>2 DEF Init, OwnHandlerFirst, OneLambda
<1>4. \A r \in Requests : replies[r] = <<>>
    BY DEF Init
<1>5. Unanswered \cap Requests \subseteq Requests /\ AtMostOneReply
    BY <1>4 DEF AtMostOneReply
<1>6. Unanswered \subseteq Requests
    BY <1>1 DEF Init, Unanswered
<1> QED BY <1>3, <1>4, <1>5, <1>6 DEF RepliesInv

(***************************************************************************)
(* What the IO thread of a request does to it: it goes on, or it answers,  *)
(* or it posts the lambda that will.                                       *)
(***************************************************************************)
LEMMA OwnSteps ==
    ASSUME NEW r \in Requests, Receive(r) \/ RequestStep(r)
    PROVE  /\ pc[r] # "done"
           /\ UNCHANGED <<handler, wpc>>
           /\ \/ /\ \E state \in RequestStates \ {"done"} : GoTo(r, state)
                 /\ UNCHANGED <<replies, pool>>
              \/ /\ \E what \in ReplyKinds \ {"work", "no_jobs", "no_device"} : Answer(r, what)
                 /\ UNCHANGED pool
              \/ Post(r)
<1>1. CASE CreateJob(r)
    BY <1>1 DEF CreateJob, RequestStates, ReplyKinds, workerVars
<1>2. CASE PushJob(r)
    BY <1>2 DEF PushJob, RequestStates, ReplyKinds, workerVars
<1>3. CASE AnswerAtOnce(r) \/ CancelWork(r) \/ ClearQueue(r) \/ QueueReply(r)
    BY <1>3 DEF AnswerAtOnce, CancelWork, ClearQueue, QueueReply, ReplyKinds, workerVars
<1>4. CASE Receive(r) \/ QueueLockJobs(r) \/ QueueLockActive(r) \/ QueueCopyJobs(r)
    BY <1>4 DEF Receive, QueueLockJobs, QueueLockActive, QueueCopyJobs, RequestStates,
                workerVars
<1>5. CASE Post(r)
    BY <1>5 DEF Post, workerVars
<1> QED BY <1>1, <1>2, <1>3, <1>4, <1>5 DEF RequestStep

(* A request's own handler keeps the invariant. *)
LEMMA OwnStepReplies ==
    ASSUME TypeInv, RepliesInv, NEW r \in Requests, Receive(r) \/ RequestStep(r)
    PROVE  RepliesInv'
<1>1. pc[r] # "done" /\ UNCHANGED <<handler, wpc>>
    BY OwnSteps
<1>2. /\ pc \in [Requests -> RequestStates] /\ pool \in Seq(Requests)
      /\ replies \in [Requests -> Seq(ReplyKinds)]
    BY DEF TypeInv, TypeOK
<1>3. replies[r] = <<>>
    BY <1>1 DEF RepliesInv, Unanswered
<1>4. r \notin Range(pool) /\ \A w \in Workers : handler[w] # r
    BY <1>1 DEF RepliesInv, OwnHandlerFirst
<1>5. ASSUME NEW state \in RequestStates \ {"done"}, GoTo(r, state), UNCHANGED <<replies, pool>>
      PROVE  RepliesInv'
    BY <1>1, <1>2, <1>5 DEF RepliesInv, OwnHandlerFirst, OneLambda, Unanswered,
                            AtMostOneReply, GoTo
<1>6. ASSUME NEW what \in ReplyKinds, Answer(r, what), UNCHANGED pool
      PROVE  RepliesInv'
    <2>1. /\ Len(replies'[r]) <= 1
          /\ \A q \in Requests \ {r} : replies'[q] = replies[q]
        BY <1>2, <1>3, <1>6, FirstReply DEF Answer
    <2>2. \A q \in Requests : pc'[q] # "done" => q # r /\ pc[q] # "done"
        BY <1>2, <1>6 DEF Answer, GoTo
    <2>3. OwnHandlerFirst' /\ OneLambda'
        BY <1>1, <1>6, <2>2 DEF RepliesInv, OwnHandlerFirst, OneLambda
    <2>4. Unanswered' \subseteq Unanswered \ {r}
        BY <1>1, <1>4, <1>6, <2>2 DEF Unanswered
    <2>5. \A q \in Unanswered' : q \in Requests => replies'[q] = <<>>
        BY <2>1, <2>4 DEF RepliesInv
    <2>6. AtMostOneReply'
        <3> SUFFICES ASSUME NEW q \in Requests
                     PROVE  Len(replies'[q]) <= 1
            BY DEF AtMostOneReply
        <3>1. CASE q = r
            BY <2>1, <3>1
        <3>2. CASE q # r
            BY <2>1, <3>2 DEF RepliesInv, AtMostOneReply
        <3> QED BY <3>1, <3>2
    <2>7. Unanswered \subseteq Requests
        <3>1. Range(pool) \subseteq Requests
            BY <1>2, RangeOfSeq
        <3>2. \A w \in Workers : wpc[w] # "idle" => handler[w] \in Requests
            BY DEF TypeInv, TypeOK, LambdaState
        <3> QED BY <3>1, <3>2 DEF Unanswered
    <2> QED BY <2>3, <2>4, <2>5, <2>6, <2>7 DEF RepliesInv
<1>7. ASSUME Post(r)
      PROVE  RepliesInv'
    <2>1. /\ Range(pool') = Range(pool) \cup {r} /\ IsInjective(pool')
          /\ UNCHANGED replies
        BY <1>2, <1>4, <1>7, AppendDistinct DEF Post, RepliesInv, OneLambda
    <2>2. \A q \in Requests : pc'[q] # "done" => q # r /\ pc[q] # "done"
        BY <1>2, <1>7 DEF Post, GoTo
    <2>3. OwnHandlerFirst' /\ OneLambda'
        BY <1>1, <1>4, <2>1, <2>2 DEF RepliesInv, OwnHandlerFirst, OneLambda
    <2>4. Unanswered' \subseteq Unanswered
        BY <1>1, <2>1, <2>2 DEF Unanswered
    <2> QED BY <2>1, <2>3, <2>4 DEF RepliesInv, AtMostOneReply
<1> QED BY <1>5, <1>6, <1>7, OwnSteps

(* A pool thread keeps it: only the thread with the lambda answers. *)
LEMMA LambdaStepReplies ==
    ASSUME TypeInv, RepliesInv, NEW w \in Workers, WorkerStep(w)
    PROVE  RepliesInv'
<1> DEFINE Early == {"pop", "acquire", "start", "solve"}
<1>1. /\ pool \in Seq(Requests) /\ replies \in [Requests -> Seq(ReplyKinds)]
      /\ wpc \in [Workers -> WorkerStates] /\ handler \in [Workers -> Requests \cup {None}]
      /\ None \notin Requests
    BY WorkHandlerAssumption DEF TypeInv, TypeOK
<1>2. Range(pool) \subseteq Requests /\ Unanswered \subseteq Requests
    BY <1>1, RangeOfSeq DEF Unanswered, TypeInv, LambdaState
<1>3. CASE Take(w)
    <2>1. pool # <<>> /\ handler[w] = None /\ wpc[w] = "idle"
        BY <1>3 DEF Take, TypeInv, LambdaState
    <2>2. /\ Head(pool) \in Range(pool) /\ Head(pool) \in Requests
          /\ Range(Tail(pool)) = Range(pool) \ {Head(pool)} /\ IsInjective(Tail(pool))
        BY <1>1, <2>1, TailDistinct, HeadTailProperties DEF RepliesInv, OneLambda
    <2>3. /\ handler' = [handler EXCEPT ![w] = Head(pool)] /\ pool' = Tail(pool)
          /\ wpc' = [wpc EXCEPT ![w] = "pop"] /\ UNCHANGED <<pc, replies>>
        BY <1>3 DEF Take, requestVars
    <2>4. OwnHandlerFirst'
        BY <1>1, <2>2, <2>3 DEF RepliesInv, OwnHandlerFirst
    <2>5. OneLambda'
        BY <1>1, <2>1, <2>2, <2>3 DEF RepliesInv, OneLambda
    <2>6. Unanswered' \subseteq Unanswered
        BY <1>1, <2>1, <2>2, <2>3 DEF Unanswered
    <2> QED BY <2>3, <2>4, <2>5, <2>6 DEF RepliesInv, AtMostOneReply
<1>4. ASSUME UNCHANGED <<pc, pool>>,
              UNCHANGED handler \/ handler' = [handler EXCEPT ![w] = None]
       PROVE  OwnHandlerFirst' /\ OneLambda'
    <2>1. /\ \A v \in Workers : handler'[v] = handler[v] \/ handler'[v] = None
          /\ pc' = pc /\ pool' = pool
        BY <1>1, <1>4
    <2>2. OwnHandlerFirst'
        BY <1>1, <2>1 DEF RepliesInv, OwnHandlerFirst
    <2>3. OneLambda'
        <3>1. IsInjective(pool')
            BY <2>1 DEF RepliesInv, OneLambda
        <3>2. \A v \in Workers : handler'[v] \notin Range(pool')
            BY <1>1, <1>2, <2>1 DEF RepliesInv, OneLambda
        <3>3. \A u, v \in Workers : handler'[u] = handler'[v] /\ handler'[u] # None => u = v
            BY <2>1 DEF RepliesInv, OneLambda
        <3> QED BY <3>1, <3>2, <3>3 DEF OneLambda
    <2> QED BY <2>2, <2>3
<1>5. ASSUME NEW what \in ReplyKinds, Respond(handler[w], what), wpc[w] \in Early,
             wpc'[w] \notin Early, \A v \in Workers \ {w} : wpc'[v] = wpc[v],
             UNCHANGED <<pc, pool>>,
             UNCHANGED handler \/ handler' = [handler EXCEPT ![w] = None]
      PROVE  RepliesInv'
    <2>1. handler[w] \in Requests /\ handler[w] \in Unanswered /\ replies[handler[w]] = <<>>
        BY <1>1, <1>5 DEF RepliesInv, Unanswered, TypeInv, LambdaState
    <2>2. /\ Len(replies'[handler[w]]) <= 1
          /\ \A q \in Requests \ {handler[w]} : replies'[q] = replies[q]
        BY <1>1, <1>5, <2>1, FirstReply
    <2>3. OwnHandlerFirst' /\ OneLambda'
        BY <1>5, <1>4
    <2>4. pc[handler[w]] = "done"
        BY <2>1 DEF RepliesInv, OwnHandlerFirst
    <2>5. Unanswered' \subseteq Unanswered \ {handler[w]}
        BY <1>1, <1>5, <2>1, <2>4 DEF Unanswered, RepliesInv, OneLambda
    <2>6. AtMostOneReply'
        <3> SUFFICES ASSUME NEW q \in Requests
                     PROVE  Len(replies'[q]) <= 1
            BY DEF AtMostOneReply
        <3>1. CASE q = handler[w]
            BY <2>2, <3>1
        <3>2. CASE q # handler[w]
            BY <2>2, <3>2 DEF RepliesInv, AtMostOneReply
        <3> QED BY <3>1, <3>2
    <2>7. \A q \in Unanswered' : replies'[q] = <<>>
        BY <1>2, <2>2, <2>5 DEF RepliesInv
    <2> QED BY <2>3, <2>6, <2>7 DEF RepliesInv
<1>6. ASSUME UNCHANGED <<pc, pool, replies>>,
             wpc'[w] \in Early => wpc[w] \in Early,
             \A v \in Workers \ {w} : wpc'[v] = wpc[v],
             UNCHANGED handler \/ handler' = [handler EXCEPT ![w] = None],
             UNCHANGED handler \/ wpc'[w] \notin Early
      PROVE  RepliesInv'
    <2>1. OwnHandlerFirst' /\ OneLambda'
        BY <1>6, <1>4
    <2>2. Unanswered' \subseteq Unanswered
        BY <1>1, <1>6 DEF Unanswered
    <2> QED BY <1>6, <2>1, <2>2 DEF RepliesInv, AtMostOneReply
<1>7. CASE NoJobsAvailable(w)
    BY <1>1, <1>5, <1>7 DEF NoJobsAvailable, Leave, ReplyKinds
<1>8. CASE Solve(w)
    BY <1>1, <1>5, <1>8 DEF Solve, ReplyKinds
<1>9. CASE Acquire(w)
    <2>1. CASE cursor'[w] = Dev!End
        BY <1>1, <1>5, <1>9, <2>1 DEF Acquire, Leave, ReplyKinds
    <2>2. CASE cursor'[w] # Dev!End
        BY <1>1, <1>6, <1>9, <2>2 DEF Acquire
    <2> QED BY <2>1, <2>2
<1>10. CASE PopJob(w) \/ Activate(w) \/ ReleaseDevice(w) \/ LockActive(w)
    BY <1>1, <1>6, <1>10 DEF PopJob, Activate, ReleaseDevice, LockActive, requestVars
<1>11. CASE Complete(w)
    BY <1>1, <1>6, <1>11 DEF Complete, Leave, requestVars
<1> QED BY <1>3, <1>7, <1>8, <1>9, <1>10, <1>11 DEF WorkerStep

LEMMA RepliesInvariant == Spec => []RepliesInv
<1>1. Init => RepliesInv
    BY InitRepliesInv
<1>2. TypeInv /\ RepliesInv /\ [Next]_vars => RepliesInv'
    <2>1. ASSUME RepliesInv, UNCHANGED vars
          PROVE  RepliesInv'
        BY <2>1 DEF vars, requestVars, workerVars, RepliesInv, OwnHandlerFirst, OneLambda,
                    Unanswered, AtMostOneReply
    <2> QED BY <2>1, OwnStepReplies, LambdaStepReplies DEF Next, Quiescent
<1> QED BY <1>1, <1>2, TypeInvariant, PTL DEF Spec

(***************************************************************************)
(* response_handler is called at most once per request, whatever its error *)
(* paths, the cancellations and the order in which the pool runs lambdas.  *)
(***************************************************************************)
THEOREM NobodyAnsweredTwice == Spec => []AtMostOneReply
<1>1. RepliesInv => AtMostOneReply
    BY DEF RepliesInv
<1> QED BY <1>1, RepliesInvariant, PTL

-------------------------------------------------------------------------------
(***************************************************************************)
(* A lambda for every queued job.  A push adds a job and the request that  *)
(* will post, a pop takes one of each, and nothing else takes a lambda     *)
(* away; the counts can be compared because the queue is finite.           *)
(***************************************************************************)
QueueInv == IsFiniteSet(jobs) /\ QueuedJobsHaveHandlers

(* There are finitely many requests, so any set of them can be counted. *)
LEMMA RequestsCounted ==
    ASSUME NEW S, S \subseteq Requests
    PROVE  IsFiniteSet(S) /\ Cardinality(S) \in Nat
BY JobQueueAssumption, FS_Subset, FS_CardinalityType

(* The requests with a lambda to come, before and after a step. *)
LEMMA PendingFinite ==
    ASSUME TypeInv
    PROVE  Pending \subseteq Requests /\ IsFiniteSet(Pending) /\ Cardinality(Pending) \in Nat
<1>1. Pending \subseteq Requests
    BY RangeOfSeq, WorkHandlerAssumption DEF Pending, TypeInv, TypeOK, LambdaState
<1> QED BY <1>1, RequestsCounted

LEMMA PendingFiniteNext ==
    ASSUME TypeInv'
    PROVE  IsFiniteSet(Pending') /\ Cardinality(Pending') \in Nat
<1>1. Pending' \subseteq Requests
    BY RangeOfSeq, WorkHandlerAssumption DEF Pending, TypeInv, TypeOK, LambdaState
<1> QED BY <1>1, RequestsCounted

(* No job is added and no lambda lost. *)
LEMMA FewerJobs ==
    ASSUME QueueInv, TypeInv, TypeInv', jobs' \subseteq jobs, Pending \subseteq Pending'
    PROVE  QueueInv'
<1>1. IsFiniteSet(jobs') /\ Cardinality(jobs') <= Cardinality(jobs)
    BY FS_Subset DEF QueueInv
<1>2. Cardinality(jobs') \in Nat /\ Cardinality(jobs) \in Nat
    BY <1>1, FS_CardinalityType DEF QueueInv
<1>3. IsFiniteSet(Pending') /\ Cardinality(Pending') \in Nat
    BY PendingFiniteNext
<1>4. Cardinality(Pending) <= Cardinality(Pending') /\ Cardinality(Pending) \in Nat
    BY <1>3, PendingFinite, FS_Subset
<1> QED BY <1>1, <1>2, <1>3, <1>4 DEF QueueInv, QueuedJobsHaveHandlers

(* A request's handler: only its push adds a job, and the request with it. *)
LEMMA OwnStepQueue ==
    ASSUME QueueInv, TypeInv, TypeInv', RepliesInv,
           NEW r \in Requests, Receive(r) \/ RequestStep(r)
    PROVE  QueueInv'
<1>1. pc \in [Requests -> RequestStates] /\ pool \in Seq(Requests)
    BY DEF TypeInv, TypeOK
<1>2. UNCHANGED <<handler, wpc>>
    BY OwnSteps
<1>3. ASSUME pc[r] # "pushed", UNCHANGED pool, jobs' \subseteq jobs,
             \A q \in Requests \ {r} : pc'[q] = pc[q]
      PROVE  QueueInv'
    <2>1. Pending \subseteq Pending'
        BY <1>1, <1>2, <1>3 DEF Pending
    <2> QED BY <1>3, <2>1, FewerJobs
<1>4. CASE PushJob(r)
    <2>1. CASE Cardinality(jobs) < RequestLimit
        <3>1. jobs' = jobs \cup {JobOf(r)} /\ pc' = [pc EXCEPT ![r] = "pushed"] /\ pool' = pool
            BY <1>4, <2>1 DEF PushJob, GoTo
        <3>2. r \notin Pending
            BY <1>4 DEF PushJob, Pending, RepliesInv, OwnHandlerFirst
        <3>3. Pending' = Pending \cup {r}
            BY <1>1, <1>2, <3>1 DEF Pending
        <3>4. IsFiniteSet(jobs) /\ Cardinality(jobs) \in Nat
            BY FS_CardinalityType DEF QueueInv
        <3>5. /\ IsFiniteSet(jobs')
              /\ Cardinality(jobs') \in {Cardinality(jobs), Cardinality(jobs) + 1}
            BY <3>1, <3>4, FS_AddElement
        <3>6. Cardinality(Pending') = Cardinality(Pending) + 1 /\ Cardinality(Pending) \in Nat
            BY <3>2, <3>3, PendingFinite, FS_AddElement
        <3> QED BY <3>4, <3>5, <3>6 DEF QueueInv, QueuedJobsHaveHandlers
    <2>2. CASE ~(Cardinality(jobs) < RequestLimit)
        BY <1>1, <1>3, <1>4, <2>2 DEF PushJob, Answer, GoTo
    <2> QED BY <2>1, <2>2
<1>5. CASE Post(r)
    <2>1. Range(pool') = Range(pool) \cup {r} /\ jobs' = jobs
        BY <1>1, <1>5, AppendDistinct DEF Post
    <2>2. \A q \in Requests \ {r} : pc'[q] = pc[q]
        BY <1>1, <1>5 DEF Post, GoTo
    <2>3. Pending \subseteq Pending'
        BY <1>2, <2>1, <2>2 DEF Pending
    <2> QED BY <2>1, <2>3, FewerJobs
<1>6. CASE CreateJob(r) \/ AnswerAtOnce(r) \/ QueueReply(r)
    BY <1>1, <1>3, <1>6 DEF CreateJob, AnswerAtOnce, QueueReply, Answer, GoTo
<1>7. CASE Receive(r) \/ QueueLockJobs(r) \/ QueueLockActive(r) \/ QueueCopyJobs(r)
    BY <1>1, <1>3, <1>7 DEF Receive, QueueLockJobs, QueueLockActive, QueueCopyJobs, GoTo
<1>8. CASE CancelWork(r) \/ ClearQueue(r)
    <2>1. jobs' \subseteq jobs
        BY <1>8 DEF CancelWork, ClearQueue, Without
    <2> QED BY <1>1, <1>3, <1>8, <2>1 DEF CancelWork, ClearQueue, Answer, GoTo
<1> QED BY <1>4, <1>5, <1>6, <1>7, <1>8 DEF RequestStep

(* A pool thread: a lambda that comes for a job takes one away. *)
LEMMA LambdaStepQueue ==
    ASSUME QueueInv, TypeInv, TypeInv', RepliesInv, NEW w \in Workers, WorkerStep(w)
    PROVE  QueueInv'
<1>1. /\ pool \in Seq(Requests) /\ wpc \in [Workers -> WorkerStates]
      /\ handler \in [Workers -> Requests \cup {None}]
    BY DEF TypeInv, TypeOK
<1>2. CASE Take(w)
    <2>1. pool # <<>> /\ wpc[w] = "idle" /\ jobs' = jobs /\ pc' = pc
        BY <1>2 DEF Take, requestVars
    <2>2. Range(pool') = Range(pool) \ {Head(pool)}
        BY <1>1, <1>2, TailDistinct DEF Take, RepliesInv, OneLambda
    <2>3. Pending \subseteq Pending'
        BY <1>1, <1>2, <2>1, <2>2 DEF Take, Pending
    <2> QED BY <2>1, <2>3, FewerJobs
<1>3. CASE NoJobsAvailable(w)
    <2>1. jobs' = {} /\ IsFiniteSet(jobs') /\ Cardinality(jobs') = 0
        BY <1>3, FS_EmptySet DEF NoJobsAvailable
    <2>2. Cardinality(Pending') \in Nat
        BY PendingFiniteNext
    <2> QED BY <2>1, <2>2 DEF QueueInv, QueuedJobsHaveHandlers
<1>4. CASE PopJob(w)
    <2>1. PICK j \in jobs : jobs' = jobs \ {j}
        BY <1>4 DEF PopJob, Tops
    <2>2. /\ IsFiniteSet(jobs') /\ Cardinality(jobs') = Cardinality(jobs) - 1
          /\ Cardinality(jobs) \in Nat
        BY <2>1, FS_RemoveElement, FS_CardinalityType DEF QueueInv
    <2>3. handler[w] \in Pending
        BY <1>4 DEF PopJob, Pending
    <2>4. Pending \ {handler[w]} \subseteq Pending'
        BY <1>1, <1>4 DEF PopJob, Pending, requestVars
    <2>5. Cardinality(Pending \ {handler[w]}) = Cardinality(Pending) - 1
          /\ Cardinality(Pending) \in Nat
        BY <2>3, PendingFinite, FS_RemoveElement
    <2>6. IsFiniteSet(Pending') /\ Cardinality(Pending') \in Nat
        BY PendingFiniteNext
    <2>7. Cardinality(Pending \ {handler[w]}) <= Cardinality(Pending')
        BY <2>4, <2>6, FS_Subset
    <2> QED BY <2>2, <2>5, <2>6, <2>7 DEF QueueInv, QueuedJobsHaveHandlers
<1>5. ASSUME wpc[w] # "pop", UNCHANGED <<pc, pool, jobs>>,
             \A v \in Workers \ {w} : wpc'[v] = wpc[v] /\ handler'[v] = handler[v]
      PROVE  QueueInv'
    <2>1. Pending \subseteq Pending'
        BY <1>5 DEF Pending
    <2> QED BY <1>5, <2>1, FewerJobs
<1>6. CASE Acquire(w)
    BY <1>1, <1>5, <1>6 DEF Acquire, Leave
<1>7. CASE Activate(w) \/ Solve(w) \/ ReleaseDevice(w) \/ LockActive(w)
    BY <1>1, <1>5, <1>7 DEF Activate, Solve, ReleaseDevice, LockActive, requestVars
<1>8. CASE Complete(w)
    BY <1>1, <1>5, <1>8 DEF Complete, Leave, requestVars
<1> QED BY <1>2, <1>3, <1>4, <1>6, <1>7, <1>8 DEF WorkerStep

(***************************************************************************)
(* No job is stranded in the queue: although lambdas and jobs go separate  *)
(* ways, there are always at least as many lambdas to come as jobs.        *)
(***************************************************************************)
THEOREM NoJobStranded == Spec => []QueuedJobsHaveHandlers
<1>1. Init => QueueInv
    <2>1. Init => TypeInv
        BY InitTypeInv
    <2>2. TypeInv => Cardinality(Pending) \in Nat
        BY PendingFinite
    <2> QED BY <2>1, <2>2, FS_EmptySet DEF Init, QueueInv, QueuedJobsHaveHandlers
<1>2. TypeInv /\ TypeInv' /\ RepliesInv /\ QueueInv /\ [Next]_vars => QueueInv'
    <2>1. ASSUME QueueInv, UNCHANGED vars
          PROVE  QueueInv'
        BY <2>1 DEF vars, requestVars, workerVars, QueueInv, QueuedJobsHaveHandlers, Pending
    <2> QED BY <2>1, OwnStepQueue, LambdaStepQueue DEF Next, Quiescent
<1>3. QueueInv => QueuedJobsHaveHandlers
    BY DEF QueueInv
<1> QED BY <1>1, <1>2, <1>3, TypeInvariant, RepliesInvariant, PTL DEF Spec

-------------------------------------------------------------------------------
(***************************************************************************)
(* The mutexes and the jobs they protect: who owns a mutex, where a job    *)
(* may be, and what the lists of a queue request show of it.               *)
(***************************************************************************)
(* A request's handler: every acquisition finds the mutex free. *)
LEMMA RequestLocks ==
    ASSUME TypeInv, LocksOwned, NEW r \in Requests, Receive(r) \/ RequestStep(r)
    PROVE  LocksOwned'
<1>1. /\ pc \in [Requests -> RequestStates] /\ None \notin Requests
      /\ None \notin Workers /\ Requests \cap Workers = {}
    BY WorkHandlerAssumption DEF TypeInv, TypeOK
<1>2. ASSUME UNCHANGED <<mutexVars, wpc>>,
             \E state \in RequestStates \ {"holds_jobs", "holds_active", "holds_completed"} :
                GoTo(r, state),
             pc[r] \notin {"holds_jobs", "holds_active", "holds_completed"}
      PROVE  LocksOwned'
    BY <1>1, <1>2 DEF LocksOwned, GoTo, mutexVars
<1>3. CASE CreateJob(r) \/ PushJob(r)
    BY <1>2, <1>3 DEF CreateJob, PushJob, Answer, RequestStates, workerVars
<1>4. CASE Receive(r) \/ Post(r)
    BY <1>2, <1>4 DEF Receive, Post, RequestStates, workerVars
<1>5. CASE AnswerAtOnce(r) \/ CancelWork(r) \/ ClearQueue(r)
    BY <1>2, <1>5 DEF AnswerAtOnce, CancelWork, ClearQueue, Answer, RequestStates, workerVars
<1>6. CASE QueueLockJobs(r)
    BY <1>1, <1>6 DEF QueueLockJobs, LocksOwned, GoTo, workerVars
<1>7. CASE QueueLockActive(r)
    <2>1. /\ pc' = [pc EXCEPT ![r] = "holds_active"] /\ pc[r] = "holds_jobs"
          /\ active_jobs_mutex = None /\ active_jobs_mutex' = r
          /\ UNCHANGED <<jobs_mutex, completed_jobs_mutex, wpc>>
        BY <1>7 DEF QueueLockActive, GoTo, workerVars
    <2>2. \A q \in Requests :
             /\ pc'[q] \in {"holds_jobs", "holds_active"} <=> jobs_mutex' = q
             /\ pc'[q] = "holds_completed" <=> completed_jobs_mutex' = q
        BY <1>1, <2>1 DEF LocksOwned
    <2>3. \A q \in Requests :
             pc'[q] \in {"holds_active", "holds_completed"} <=> active_jobs_mutex' = q
        BY <1>1, <2>1 DEF LocksOwned
    <2>4. \A w \in Workers : wpc'[w] = "commit" <=> active_jobs_mutex' = w
        BY <1>1, <2>1 DEF LocksOwned
    <2> QED BY <2>2, <2>3, <2>4 DEF LocksOwned
<1>8. CASE QueueCopyJobs(r)
    BY <1>1, <1>8 DEF QueueCopyJobs, LocksOwned, GoTo, workerVars
<1>9. CASE QueueReply(r)
    <2>1. /\ pc' = [pc EXCEPT ![r] = "done"] /\ pc[r] = "holds_completed"
          /\ active_jobs_mutex' = None /\ completed_jobs_mutex' = None
          /\ UNCHANGED <<jobs_mutex, wpc>>
        BY <1>9 DEF QueueReply, Answer, GoTo, workerVars
    <2>2. active_jobs_mutex = r /\ completed_jobs_mutex = r
        BY <2>1 DEF LocksOwned
    <2>3. \A q \in Requests :
             /\ pc'[q] \in {"holds_jobs", "holds_active"} <=> jobs_mutex' = q
             /\ pc'[q] = "holds_completed" <=> completed_jobs_mutex' = q
        BY <1>1, <2>1, <2>2 DEF LocksOwned
    <2>4. \A q \in Requests :
             pc'[q] \in {"holds_active", "holds_completed"} <=> active_jobs_mutex' = q
        BY <1>1, <2>1, <2>2 DEF LocksOwned
    <2>5. \A w \in Workers : wpc'[w] = "commit" <=> active_jobs_mutex' = w
        BY <1>1, <2>1, <2>2 DEF LocksOwned
    <2> QED BY <2>3, <2>4, <2>5 DEF LocksOwned
<1> QED BY <1>3, <1>4, <1>5, <1>6, <1>7, <1>8, <1>9 DEF RequestStep

(* A pool thread: it owns active_jobs_mutex only while it completes its job. *)
LEMMA WorkerLocks ==
    ASSUME TypeInv, LocksOwned, NEW w \in Workers, WorkerStep(w)
    PROVE  LocksOwned'
<1>1. /\ wpc \in [Workers -> WorkerStates] /\ None \notin Workers
      /\ None \notin Requests /\ Requests \cap Workers = {}
    BY WorkHandlerAssumption DEF TypeInv, TypeOK
<1>2. ASSUME UNCHANGED <<mutexVars, pc>>, wpc[w] # "commit", wpc'[w] # "commit",
             \A v \in Workers \ {w} : wpc'[v] = wpc[v]
      PROVE  LocksOwned'
    BY <1>2 DEF LocksOwned, mutexVars
<1>3. CASE Take(w) \/ PopJob(w) \/ Activate(w) \/ ReleaseDevice(w)
    BY <1>1, <1>2, <1>3 DEF Take, PopJob, Activate, ReleaseDevice, requestVars
<1>4. CASE NoJobsAvailable(w) \/ Solve(w)
    BY <1>1, <1>2, <1>4 DEF NoJobsAvailable, Solve, Leave
<1>5. CASE Acquire(w)
    BY <1>1, <1>2, <1>5 DEF Acquire, Leave
<1>6. CASE LockActive(w)
    <2>1. /\ wpc' = [wpc EXCEPT ![w] = "commit"]
          /\ active_jobs_mutex = None /\ active_jobs_mutex' = w
          /\ UNCHANGED <<pc, jobs_mutex, completed_jobs_mutex>>
        BY <1>6 DEF LockActive, requestVars
    <2>2. \A r \in Requests : /\ pc[r] \notin {"holds_active", "holds_completed"}
                              /\ active_jobs_mutex' # r
        BY <1>1, <2>1 DEF LocksOwned
    <2>3. \A v \in Workers : wpc'[v] = "commit" <=> active_jobs_mutex' = v
        BY <1>1, <2>1 DEF LocksOwned
    <2> QED BY <2>1, <2>2, <2>3 DEF LocksOwned
<1>7. CASE Complete(w)
    BY <1>1, <1>7 DEF Complete, Leave, LocksOwned, requestVars
<1> QED BY <1>3, <1>4, <1>5, <1>6, <1>7 DEF WorkerStep

(***************************************************************************)
(* Whoever is in a critical section owns its mutexes, hence is alone there. *)
(***************************************************************************)
THEOREM MutualExclusion == Spec => []LocksOwned
<1>1. Init => LocksOwned
    BY WorkHandlerAssumption DEF Init, LocksOwned
<1>2. TypeInv /\ LocksOwned /\ [Next]_vars => LocksOwned'
    <2>1. ASSUME LocksOwned, UNCHANGED vars
          PROVE  LocksOwned'
        BY <2>1 DEF vars, requestVars, mutexVars, workerVars, LocksOwned
    <2> QED BY <2>1, RequestLocks, WorkerLocks DEF Next, Quiescent
<1> QED BY <1>1, <1>2, TypeInvariant, PTL DEF Spec

-------------------------------------------------------------------------------
(* The references in active_jobs outlive no lambda, even if ids wrap around. *)
LEMMA WorkerActive ==
    ASSUME TypeInv, ActiveJobsAlive, NEW w \in Workers, WorkerStep(w)
    PROVE  ActiveJobsAlive'
<1>1. /\ wpc \in [Workers -> WorkerStates] /\ current \in [Workers -> Job \cup {None}]
      /\ active_jobs \in SUBSET Job
    BY DEF TypeInv, TypeOK
<1>2. ASSUME w \notin Running, UNCHANGED active_jobs,
             \A v \in Workers \ {w} : wpc'[v] = wpc[v] /\ current'[v] = current[v]
      PROVE  ActiveJobsAlive'
    BY <1>2 DEF ActiveJobsAlive, Running
<1>3. ASSUME w \in Running', UNCHANGED <<active_jobs, current>>,
             \A v \in Workers \ {w} : wpc'[v] = wpc[v]
      PROVE  ActiveJobsAlive'
    BY <1>3 DEF ActiveJobsAlive, Running
<1>4. CASE Take(w) \/ PopJob(w)
    BY <1>1, <1>2, <1>4 DEF Take, PopJob, Running
<1>5. CASE NoJobsAvailable(w)
    BY <1>1, <1>2, <1>5 DEF NoJobsAvailable, Leave, Running
<1>6. CASE Acquire(w)
    BY <1>1, <1>2, <1>6 DEF Acquire, Leave, Running
<1>7. CASE Activate(w)
    <2>1. active_jobs' \subseteq active_jobs \cup {current[w]}
        BY <1>7 DEF Activate, SetInsert
    <2>2. /\ w \in Running' /\ current' = current
          /\ \A v \in Running : v \in Running'
        BY <1>1, <1>7 DEF Activate, Running
    <2> QED BY <2>1, <2>2 DEF ActiveJobsAlive
<1>8. CASE Solve(w) \/ ReleaseDevice(w) \/ LockActive(w)
    BY <1>1, <1>3, <1>8 DEF Solve, ReleaseDevice, LockActive, Running
<1>9. CASE Complete(w)
    <2>1. current[w] \in Job /\ Equivalent(current[w], current[w])
        BY <1>1, <1>9, EquivalentMeans DEF Complete, TypeInv, LambdaState
    <2>2. \A j \in active_jobs' : j \in active_jobs /\ j # current[w]
        BY <1>9, <2>1 DEF Complete, SetErase
    <2>3. \A v \in Running \ {w} : v \in Running' /\ current'[v] = current[v]
        BY <1>1, <1>9 DEF Complete, Leave, Running
    <2> QED BY <2>2, <2>3 DEF ActiveJobsAlive
<1> QED BY <1>4, <1>5, <1>6, <1>7, <1>8, <1>9 DEF WorkerStep

(***************************************************************************)
(* A queue request never follows a reference to a job that is gone: what   *)
(* active_jobs refers to is the job of a lambda that has yet to erase it.  *)
(***************************************************************************)
THEOREM NoDanglingJob == Spec => []ActiveJobsAlive
<1>1. Init => ActiveJobsAlive
    BY DEF Init, ActiveJobsAlive
<1>2. TypeInv /\ ActiveJobsAlive /\ [Next]_vars => ActiveJobsAlive'
    <2>1. ASSUME ActiveJobsAlive, UNCHANGED <<active_jobs, workerVars>>
          PROVE  ActiveJobsAlive'
        BY <2>1 DEF workerVars, ActiveJobsAlive, Running
    <2>2. ASSUME NEW r \in Requests, Receive(r) \/ RequestStep(r)
          PROVE  UNCHANGED <<active_jobs, workerVars>>
        BY <2>2 DEF RequestStep, Receive, CreateJob, PushJob, Post, AnswerAtOnce, CancelWork,
                    ClearQueue, QueueLockJobs, QueueLockActive, QueueCopyJobs, QueueReply
    <2>3. UNCHANGED vars => UNCHANGED <<active_jobs, workerVars>>
        BY DEF vars
    <2> QED BY <2>1, <2>2, <2>3, WorkerActive DEF Next, Quiescent
<1> QED BY <1>1, <1>2, TypeInvariant, PTL DEF Spec

-------------------------------------------------------------------------------
(***************************************************************************)
(* Where the job of a request may be.  A request is accepted once its job  *)
(* has been queued.  From then on its job is in one place: in the queue,   *)
(* with one thread (Held), or in the buffer of completed jobs (Stored);    *)
(* and its work is sent (Worked) while a thread has it, once.              *)
(***************************************************************************)
Accepted ==
    {r \in Requests : op[r].kind = "generate" /\ pc[r] \in {"pushed", "done"} /\ ~Refused(r)}

Early  == {w \in Workers : wpc[w] \in {"acquire", "start", "solve"}}
Held   == {current[w].req : w \in {v \in Workers : current[v] # None}}
Worked == {worked[r] : r \in Requests} \ {None}
Stored == Owners(Range(completed_jobs))

OwnersAccepted == Owners(jobs) \cup Held \cup Worked \cup Stored \subseteq Accepted

OnePlace ==
    /\ \A j, k \in jobs : j.req = k.req => j = k
    /\ Owners(jobs) \cap (Held \cup Worked \cup Stored) = {}
    /\ Held \cap Stored = {}

EarlyUnworked == \A w \in Early : current[w].req \notin Worked

\* A job keeps the id its request took for it.
IdsKept ==
    /\ \A j \in jobs : j.id = job_id[j.req]
    /\ \A w \in Workers : current[w] # None => current[w].id = job_id[current[w].req]

\* Only a request for work gets to the queue, only a queue request to the locks.
KindAtPlace ==
    \A r \in Requests :
        /\ pc[r] \in {"created", "pushed"} => op[r].kind = "generate"
        /\ pc[r] \in {"holds_jobs", "holds_active", "holds_completed"} => op[r].kind = "queue"

JobsInv == KindAtPlace /\ OwnersAccepted /\ OnePlace /\ EarlyUnworked /\ IdsKept /\ WorkedOnce

(* A lambda's answer refuses nobody, and nobody is refused once accepted. *)
LEMMA ResponseAccepts ==
    ASSUME TypeInv, NEW r \in Requests, NEW what \in {"work", "no_jobs", "no_device"},
           Respond(r, what), UNCHANGED <<pc, op>>
    PROVE  Accepted' = Accepted
<1> DEFINE Refusals == {"bad_request", "limit_exceeded", "no_device_configured"}
<1>1. SUFFICES ASSUME NEW q \in Requests
               PROVE  Refused(q)' = Refused(q)
    BY DEF Accepted
<1>2. replies \in [Requests -> Seq(ReplyKinds)] /\ what \in ReplyKinds
    BY DEF TypeInv, TypeOK, ReplyKinds
<1>3. CASE q = r
    <2>1. replies'[q] = Append(replies[q], what)
        BY <1>2, <1>3 DEF Respond
    <2>2. Range(replies'[q]) = Range(replies[q]) \cup {what}
        BY <1>2, <2>1, AppendDistinct
    <2> QED BY <2>2 DEF Refused
<1>4. CASE q # r
    BY <1>2, <1>4 DEF Respond, Refused
<1> QED BY <1>3, <1>4

(* A pool thread takes nothing from a request: what was accepted stays so. *)
LEMMA WorkerFrame ==
    ASSUME TypeInv, NEW w \in Workers, WorkerStep(w)
    PROVE  UNCHANGED <<pc, op, job_id>> /\ Accepted' = Accepted
<1>1. handler \in [Workers -> Requests \cup {None}]
    BY DEF TypeInv, TypeOK
<1>2. UNCHANGED <<pc, op, job_id>>
    BY DEF WorkerStep, Take, NoJobsAvailable, PopJob, Acquire, Activate, Solve,
           ReleaseDevice, LockActive, Complete, requestVars
<1>3. ASSUME UNCHANGED replies
      PROVE  Accepted' = Accepted
    BY <1>2, <1>3 DEF Accepted, Refused
<1>4. ASSUME wpc[w] # "idle", NEW what \in {"work", "no_jobs", "no_device"},
             Respond(handler[w], what)
      PROVE  Accepted' = Accepted
    BY <1>1, <1>2, <1>4, ResponseAccepts DEF TypeInv, LambdaState
<1>5. Accepted' = Accepted
    BY <1>3, <1>4 DEF WorkerStep, Take, NoJobsAvailable, PopJob, Acquire, Activate, Solve,
           ReleaseDevice, LockActive, Complete, requestVars
<1> QED BY <1>2, <1>5

(* A request's handler changes what the client asked for only by receiving it. *)
LEMMA RequestFrame ==
    ASSUME TypeInv, NEW r \in Requests, Receive(r) \/ RequestStep(r)
    PROVE  /\ UNCHANGED <<worked, active_jobs, completed_jobs, workerVars>>
           /\ \A q \in Requests \ {r} :
                 /\ pc'[q] = pc[q] /\ op'[q] = op[q] /\ job_id'[q] = job_id[q]
                 /\ replies'[q] = replies[q]
           /\ pc[r] # "unsent" => op' = op
           /\ pc[r] # "received" => job_id' = job_id
<1>1. /\ pc \in [Requests -> RequestStates] /\ op \in [Requests -> Operation]
      /\ job_id \in [Requests -> 0 .. IdSpace - 1]
      /\ replies \in [Requests -> Seq(ReplyKinds)]
    BY DEF TypeInv, TypeOK
<1>2. CASE Receive(r)
    BY <1>1, <1>2 DEF Receive, GoTo
<1>3. CASE CreateJob(r)
    <2>1. /\ pc[r] = "received"
          /\ job_id' = job_id \/ job_id' = [job_id EXCEPT ![r] = job_id_dispenser]
          /\ \E state \in RequestStates : pc' = [pc EXCEPT ![r] = state]
          /\ replies' = replies \/ \E what : replies' = [replies EXCEPT ![r] = Append(@, what)]
          /\ UNCHANGED <<op, worked, active_jobs, completed_jobs, workerVars>>
        BY <1>3 DEF CreateJob, GoTo, Answer, Respond, RequestStates
    <2> QED BY <1>1, <2>1
<1>4. CASE PushJob(r) \/ Post(r) \/ AnswerAtOnce(r)
    BY <1>1, <1>4 DEF PushJob, Post, AnswerAtOnce, GoTo, Answer, Respond
<1>5. CASE CancelWork(r) \/ ClearQueue(r) \/ QueueReply(r)
    BY <1>1, <1>5 DEF CancelWork, ClearQueue, QueueReply, GoTo, Answer, Respond
<1>6. CASE QueueLockJobs(r) \/ QueueLockActive(r) \/ QueueCopyJobs(r)
    BY <1>1, <1>6 DEF QueueLockJobs, QueueLockActive, QueueCopyJobs, GoTo
<1> QED BY <1>2, <1>3, <1>4, <1>5, <1>6 DEF RequestStep

(* Where a handler is tells what it was asked for. *)
LEMMA RequestKind ==
    ASSUME TypeInv, KindAtPlace, NEW r \in Requests, Receive(r) \/ RequestStep(r)
    PROVE  KindAtPlace'
<1>1. \A q \in Requests \ {r} : pc'[q] = pc[q] /\ op'[q] = op[q]
    BY RequestFrame
<1>2. pc \in [Requests -> RequestStates] /\ op \in [Requests -> Operation]
    BY DEF TypeInv, TypeOK
<1>3. /\ pc'[r] \in {"created", "pushed"} => op'[r].kind = "generate"
      /\ pc'[r] \in {"holds_jobs", "holds_active", "holds_completed"} => op'[r].kind = "queue"
    <2>1. CASE Receive(r)
        BY <1>2, <2>1 DEF Receive, GoTo
    <2>2. CASE CreateJob(r) \/ PushJob(r)
        BY <1>2, <2>2 DEF CreateJob, PushJob, GoTo, Answer, KindAtPlace
    <2>3. CASE Post(r) \/ AnswerAtOnce(r) \/ CancelWork(r) \/ ClearQueue(r) \/ QueueReply(r)
        BY <1>2, <2>3 DEF Post, AnswerAtOnce, CancelWork, ClearQueue, QueueReply, GoTo, Answer
    <2>4. CASE QueueLockJobs(r) \/ QueueLockActive(r) \/ QueueCopyJobs(r)
        BY <1>2, <2>4 DEF QueueLockJobs, QueueLockActive, QueueCopyJobs, GoTo, KindAtPlace
    <2> QED BY <2>1, <2>2, <2>3, <2>4 DEF RequestStep
<1> QED BY <1>1, <1>3 DEF KindAtPlace

(***************************************************************************)
(* What the handler of a request does to the jobs: it takes some off the   *)
(* queue, or it queues its own and is accepted thereby.                    *)
(***************************************************************************)
LEMMA RequestJobs ==
    ASSUME TypeInv, RepliesInv, KindAtPlace, NEW r \in Requests, Receive(r) \/ RequestStep(r)
    PROVE  \/ jobs' \subseteq jobs /\ Accepted' = Accepted
           \/ /\ jobs' = jobs \cup {JobOf(r)} /\ pc[r] = "created" /\ UNCHANGED job_id
              /\ r \notin Accepted /\ Accepted' = Accepted \cup {r}
<1>1. /\ pc \in [Requests -> RequestStates] /\ op \in [Requests -> Operation]
      /\ replies \in [Requests -> Seq(ReplyKinds)]
    BY DEF TypeInv, TypeOK
<1>2. pc[r] # "done" /\ replies[r] = <<>>
    BY OwnSteps DEF RepliesInv, Unanswered
<1>3. \A q \in Requests \ {r} : q \in Accepted' <=> q \in Accepted
    BY RequestFrame DEF Accepted, Refused
<1>4. ASSUME jobs' \subseteq jobs, r \in Accepted' <=> r \in Accepted
      PROVE  jobs' \subseteq jobs /\ Accepted' = Accepted
    BY <1>3, <1>4 DEF Accepted
<1>5. ASSUME pc[r] \notin {"pushed", "done"}, NEW what \in ReplyKinds, Answer(r, what),
             what \in {"bad_request", "limit_exceeded", "no_device_configured"}
      PROVE  r \notin Accepted /\ r \notin Accepted'
    <2>1. replies'[r] = <<what>>
        BY <1>1, <1>2, <1>5 DEF Answer, Respond
    <2>2. what \in Range(replies'[r])
        BY <2>1 DEF Range
    <2> QED BY <1>5, <2>2 DEF Accepted, Refused
<1>6. CASE Receive(r)
    BY <1>1, <1>4, <1>6 DEF Receive, GoTo, Accepted
<1>7. CASE CreateJob(r)
    <2>1. \/ pc'[r] = "created"
          \/ Answer(r, "no_device_configured")
          \/ Answer(r, "bad_request")
        BY <1>1, <1>7 DEF CreateJob, GoTo
    <2>2. r \notin Accepted /\ r \notin Accepted'
        BY <1>5, <1>7, <2>1 DEF CreateJob, Accepted, ReplyKinds
    <2> QED BY <1>4, <1>7, <2>2 DEF CreateJob
<1>8. CASE PushJob(r)
    <2>1. r \notin Accepted /\ pc[r] = "created"
        BY <1>8 DEF PushJob, Accepted
    <2>2. CASE Cardinality(jobs) < RequestLimit
        <3>1. /\ jobs' = jobs \cup {JobOf(r)} /\ pc'[r] = "pushed"
              /\ UNCHANGED <<op, job_id, replies>>
            BY <1>1, <1>8, <2>2 DEF PushJob, GoTo
        <3>2. r \in Accepted'
            <4>1. op[r].kind = "generate"
                BY <2>1 DEF KindAtPlace
            <4>2. ~Refused(r)
                BY <1>2 DEF Refused, Range
            <4> QED BY <3>1, <4>1, <4>2 DEF Accepted, Refused
        <3> QED BY <1>3, <2>1, <3>1, <3>2 DEF Accepted
    <2>3. CASE ~(Cardinality(jobs) < RequestLimit)
        <3>1. Answer(r, "limit_exceeded") /\ UNCHANGED jobs
            BY <1>8, <2>3 DEF PushJob
        <3>2. r \notin Accepted'
            BY <1>5, <2>1, <3>1 DEF ReplyKinds
        <3> QED BY <1>4, <2>1, <3>1, <3>2
    <2> QED BY <2>2, <2>3
<1>9. CASE Post(r)
    <2>1. pc'[r] = "done" /\ pc[r] = "pushed" /\ UNCHANGED <<op, replies, jobs>>
        BY <1>1, <1>9 DEF Post, GoTo
    <2>2. r \in Accepted' <=> r \in Accepted
        BY <2>1 DEF Accepted, Refused
    <2> QED BY <1>4, <2>1, <2>2
<1>10. CASE AnswerAtOnce(r) \/ CancelWork(r) \/ ClearQueue(r) \/ QueueReply(r)
    <2>1. op[r].kind # "generate" /\ UNCHANGED op
        BY <1>10 DEF AnswerAtOnce, CancelWork, ClearQueue, QueueReply, KindAtPlace
    <2>2. jobs' \subseteq jobs
        BY <1>10 DEF AnswerAtOnce, CancelWork, ClearQueue, QueueReply, Without
    <2> QED BY <1>4, <2>1, <2>2 DEF Accepted
<1>11. CASE QueueLockJobs(r) \/ QueueLockActive(r) \/ QueueCopyJobs(r)
    BY <1>1, <1>4, <1>11 DEF QueueLockJobs, QueueLockActive, QueueCopyJobs, GoTo, Accepted
<1> QED BY <1>6, <1>7, <1>8, <1>9, <1>10, <1>11 DEF RequestStep

(* A request's handler: the job it may queue is nowhere else, its request being new. *)
LEMMA RequestJobsInv ==
    ASSUME TypeInv, RepliesInv, JobsInv, NEW r \in Requests, Receive(r) \/ RequestStep(r)
    PROVE  JobsInv'
<1>1. UNCHANGED <<worked, completed_jobs, wpc, current>>
    BY RequestFrame DEF workerVars
<1>2. Held' = Held /\ Worked' = Worked /\ Stored' = Stored /\ Early' = Early
    BY <1>1 DEF Held, Worked, Stored, Early
<1>3. KindAtPlace' /\ EarlyUnworked'
    BY <1>1, <1>2, RequestKind DEF JobsInv, EarlyUnworked
<1>4. Accepted \subseteq Accepted' /\ \A q \in Accepted : job_id'[q] = job_id[q]
    <2>1. ASSUME r \in Accepted
          PROVE  job_id' = job_id
        BY <2>1, RequestFrame DEF Accepted
    <2>2. \A q \in Accepted \ {r} : job_id'[q] = job_id[q]
        BY RequestFrame DEF Accepted
    <2>3. Accepted \subseteq Accepted'
        BY RequestJobs DEF JobsInv
    <2> QED BY <2>1, <2>2, <2>3
<1>5. \A w \in Workers : current[w] # None => current[w].req \in Accepted
    BY DEF JobsInv, OwnersAccepted, Held
<1>6. \A w \in Workers : current'[w] # None => current'[w].id = job_id'[current'[w].req]
    BY <1>1, <1>4, <1>5 DEF JobsInv, IdsKept
<1>7. CASE jobs' \subseteq jobs
    <2>1. Owners(jobs') \subseteq Owners(jobs)
        BY <1>7 DEF Owners
    <2>2. \A j \in jobs' : j.id = job_id'[j.req]
        BY <1>4, <1>7 DEF JobsInv, IdsKept, OwnersAccepted, Owners
    <2>3. WorkedOnce'
        BY <1>1, <2>1 DEF JobsInv, WorkedOnce
    <2>4. OwnersAccepted' /\ OnePlace'
        BY <1>2, <1>4, <1>7, <2>1 DEF JobsInv, OwnersAccepted, OnePlace
    <2> QED BY <1>3, <1>6, <2>2, <2>3, <2>4 DEF JobsInv, IdsKept
<1>8. CASE /\ jobs' = jobs \cup {JobOf(r)} /\ pc[r] = "created" /\ UNCHANGED job_id
           /\ r \notin Accepted /\ Accepted' = Accepted \cup {r}
    <2>1. JobOf(r).req = r /\ JobOf(r).id = job_id[r]
        BY DEF JobOf
    <2>2. Owners(jobs') = Owners(jobs) \cup {r}
        BY <1>8, <2>1 DEF Owners
    <2>3. r \notin Owners(jobs) \cup Held \cup Worked \cup Stored
        BY <1>8 DEF JobsInv, OwnersAccepted
    <2>4. OwnersAccepted'
        BY <1>2, <1>8, <2>2 DEF JobsInv, OwnersAccepted
    <2>5. OnePlace'
        <3>1. \A j \in jobs : j.req # r
            BY <2>3 DEF Owners
        <3>2. \A j, k \in jobs' : j.req = k.req => j = k
            BY <1>8, <2>1, <3>1 DEF JobsInv, OnePlace
        <3> QED BY <1>2, <2>2, <2>3, <3>2 DEF JobsInv, OnePlace
    <2>6. WorkedOnce'
        <3>1. \A s \in Requests : worked[s] # r
            BY <2>3, WorkHandlerAssumption DEF Worked
        <3> QED BY <1>1, <2>2, <3>1 DEF JobsInv, WorkedOnce
    <2>7. IdsKept'
        BY <1>6, <1>8, <2>1 DEF JobsInv, IdsKept
    <2> QED BY <1>3, <2>4, <2>5, <2>6, <2>7 DEF JobsInv
<1> QED BY <1>7, <1>8, RequestJobs DEF JobsInv

(* One more completed job, of an owner not in the buffer: still no owner twice. *)
LEMMA PushBackOwners ==
    ASSUME NEW buffer \in Seq(Job), NEW job \in Job,
           \A i, k \in DOMAIN buffer : buffer[i].req = buffer[k].req => i = k,
           job.req \notin Owners(Range(buffer))
    PROVE  /\ Owners(Range(PushBack(buffer, job))) \subseteq Owners(Range(buffer)) \cup {job.req}
           /\ \A i, k \in DOMAIN PushBack(buffer, job) :
                 PushBack(buffer, job)[i].req = PushBack(buffer, job)[k].req => i = k
<1> DEFINE Kept == IF Len(buffer) < CompletedCapacity THEN buffer ELSE Tail(buffer)
<1>1. PushBack(buffer, job) = Append(Kept, job)
    BY DEF PushBack
<1>2. /\ Kept \in Seq(Job) /\ Range(Kept) \subseteq Range(buffer)
      /\ \A i, k \in DOMAIN Kept : Kept[i].req = Kept[k].req => i = k
    <2>1. CASE Len(buffer) < CompletedCapacity
        BY <2>1
    <2>2. CASE ~(Len(buffer) < CompletedCapacity)
        <3>1. /\ buffer # <<>> /\ Len(buffer) \in Nat /\ DOMAIN buffer = 1 .. Len(buffer)
            BY <2>2, JobQueueAssumption, LenProperties
        <3>2. /\ Tail(buffer) \in Seq(Job) /\ DOMAIN Tail(buffer) = 1 .. Len(buffer) - 1
              /\ \A i \in 1 .. Len(buffer) - 1 : Tail(buffer)[i] = buffer[i + 1]
            BY <3>1, HeadTailProperties, LenProperties
        <3> QED BY <2>2, <3>1, <3>2 DEF Range
    <2> QED BY <2>1, <2>2
<1> HIDE DEF Kept
<1>3. /\ DOMAIN Kept = 1 .. Len(Kept) /\ Len(Kept) \in Nat
      /\ DOMAIN Append(Kept, job) = 1 .. Len(Kept) + 1
      /\ \A i \in 1 .. Len(Kept) : Append(Kept, job)[i] = Kept[i]
      /\ Append(Kept, job)[Len(Kept) + 1] = job
    BY <1>2, AppendProperties, LenProperties
<1>4. Range(Append(Kept, job)) \subseteq Range(buffer) \cup {job}
    BY <1>2, AppendDistinct
<1>5. \A i \in 1 .. Len(Kept) : Kept[i].req # job.req
    <2>1. \A i \in 1 .. Len(Kept) : Kept[i] \in Range(buffer)
        BY <1>2, <1>3 DEF Range
    <2> QED BY <2>1 DEF Owners
<1>6. \A i, k \in DOMAIN Append(Kept, job) :
         Append(Kept, job)[i].req = Append(Kept, job)[k].req => i = k
    BY <1>2, <1>3, <1>5
<1> QED BY <1>1, <1>4, <1>6 DEF Owners

(* A pool thread: the job goes from the queue to the thread and on to the buffer. *)
LEMMA WorkerJobsInv ==
    ASSUME TypeInv, JobsInv, NEW w \in Workers, WorkerStep(w)
    PROVE  JobsInv'
<1>1. /\ wpc \in [Workers -> WorkerStates] /\ current \in [Workers -> Job \cup {None}]
      /\ handler \in [Workers -> Requests \cup {None}]
      /\ worked \in [Requests -> Requests \cup {None}] /\ completed_jobs \in Seq(Job)
      /\ None \notin Job /\ None \notin Requests /\ jobs \in SUBSET Job
    BY WorkHandlerAssumption DEF TypeInv, TypeOK
<1>2. KindAtPlace' /\ job_id' = job_id /\ Accepted' = Accepted
    BY WorkerFrame DEF JobsInv, KindAtPlace
<1>3. ASSUME UNCHANGED <<jobs, worked, completed_jobs>>,
             \A v \in Workers : current'[v] = current[v] \/ current'[v] = None,
             \A v \in Workers : v \in Early' => v \in Early /\ current'[v] = current[v]
      PROVE  JobsInv'
    <2>1. Held' \subseteq Held /\ Worked' = Worked /\ Stored' = Stored
        BY <1>3 DEF Held, Worked, Stored
    <2>2. EarlyUnworked' /\ IdsKept' /\ WorkedOnce'
        BY <1>2, <1>3, <2>1 DEF JobsInv, EarlyUnworked, IdsKept, WorkedOnce, Early
    <2> QED BY <1>2, <1>3, <2>1, <2>2 DEF JobsInv, OwnersAccepted, OnePlace
<1>4. CASE Take(w)
    BY <1>1, <1>3, <1>4 DEF Take, Early, requestVars
<1>5. CASE NoJobsAvailable(w)
    BY <1>1, <1>3, <1>5 DEF NoJobsAvailable, Leave, Early
<1>6. CASE Acquire(w)
    BY <1>1, <1>3, <1>6 DEF Acquire, Leave, Early
<1>7. CASE Activate(w) \/ ReleaseDevice(w) \/ LockActive(w)
    BY <1>1, <1>3, <1>7 DEF Activate, ReleaseDevice, LockActive, Early, requestVars
<1>8. CASE PopJob(w)
    <2>1. PICK j \in jobs : jobs' = jobs \ {j} /\ current' = [current EXCEPT ![w] = j]
        BY <1>8 DEF PopJob, Tops
    <2>2. /\ current[w] = None /\ UNCHANGED <<worked, completed_jobs>>
          /\ wpc' = [wpc EXCEPT ![w] = "acquire"]
        BY <1>8 DEF PopJob, requestVars, TypeInv, LambdaState
    <2>3. /\ j.req \in Owners(jobs) /\ Owners(jobs') = Owners(jobs) \ {j.req}
        BY <2>1 DEF JobsInv, OnePlace, Owners
    <2>4. Held' = Held \cup {j.req} /\ Worked' = Worked /\ Stored' = Stored
        BY <1>1, <2>1, <2>2 DEF Held, Worked, Stored
    <2>5. j.req \notin Held \cup Worked \cup Stored
        BY <2>3 DEF JobsInv, OnePlace
    <2>6. OwnersAccepted' /\ OnePlace'
        BY <1>2, <2>1, <2>3, <2>4, <2>5 DEF JobsInv, OwnersAccepted, OnePlace
    <2>7. Early' = Early \cup {w} /\ w \notin Early
        BY <1>1, <1>8, <2>2 DEF PopJob, Early
    <2>8. EarlyUnworked'
        BY <1>1, <2>1, <2>4, <2>5, <2>7 DEF JobsInv, EarlyUnworked
    <2>9. IdsKept'
        BY <1>1, <1>2, <2>1 DEF JobsInv, IdsKept
    <2>10. \A v \in Workers \ {w} : current[v] # None => current[v].req # j.req
        BY <2>5 DEF Held
    <2>11. WorkedOnce'
        <3>1. \A u, v \in Workers :
                 u # v /\ current'[u] # None /\ current'[v] # None
                     => current'[u].req # current'[v].req
            BY <1>1, <2>1, <2>10 DEF JobsInv, WorkedOnce
        <3> QED BY <2>2, <2>3, <3>1 DEF JobsInv, WorkedOnce
    <2> QED BY <1>2, <2>6, <2>8, <2>9, <2>11 DEF JobsInv
<1>9. CASE Solve(w)
    <2>1. /\ handler[w] \in Requests /\ current[w] \in Job /\ w \in Early
        BY <1>1, <1>9 DEF Solve, Early, TypeInv, LambdaState
    <2>2. /\ worked' = [worked EXCEPT ![handler[w]] = current[w].req]
          /\ wpc' = [wpc EXCEPT ![w] = "release"]
          /\ UNCHANGED <<jobs, current, completed_jobs>>
        BY <1>9 DEF Solve
    <2>3. /\ Held' = Held /\ Stored' = Stored /\ Worked' \subseteq Worked \cup {current[w].req}
          /\ Early' = Early \ {w}
        BY <1>1, <2>1, <2>2 DEF Held, Stored, Worked, Early
    <2>4. current[w].req \notin Worked /\ current[w].req \in Held
        BY <1>1, <2>1 DEF JobsInv, EarlyUnworked, Held
    <2>5. OwnersAccepted' /\ OnePlace' /\ IdsKept'
        BY <1>2, <2>2, <2>3, <2>4 DEF JobsInv, OwnersAccepted, OnePlace, IdsKept
    <2>6. EarlyUnworked'
        <3>1. \A v \in Early : current[v] # None
            BY DEF Early, TypeInv, LambdaState
        <3>2. \A v \in Early \ {w} : current[v].req # current[w].req
            BY <1>1, <2>1, <3>1 DEF JobsInv, WorkedOnce, Early
        <3> QED BY <2>2, <2>3, <3>2 DEF JobsInv, EarlyUnworked
    <2>7. WorkedOnce'
        <3>1. \A r \in Requests : worked[r] # current[w].req
            BY <1>1, <2>1, <2>4, JobFields DEF Worked
        <3>2. \A r, s \in Requests : worked'[r] # None /\ worked'[r] = worked'[s] => r = s
            BY <1>1, <2>1, <2>2, <3>1 DEF JobsInv, WorkedOnce
        <3>3. Owners(jobs') \cap {worked'[r] : r \in Requests} = {}
            BY <1>1, <2>1, <2>2, <2>4 DEF JobsInv, WorkedOnce, OnePlace
        <3> QED BY <2>2, <3>2, <3>3 DEF JobsInv, WorkedOnce
    <2> QED BY <1>2, <2>5, <2>6, <2>7 DEF JobsInv
<1>10. CASE Complete(w)
    <2>1. /\ current[w] \in Job /\ w \notin Early
          /\ completed_jobs' = PushBack(completed_jobs, current[w])
          /\ current' = [current EXCEPT ![w] = None] /\ wpc' = [wpc EXCEPT ![w] = "idle"]
          /\ UNCHANGED <<jobs, worked>>
        BY <1>1, <1>10 DEF Complete, Leave, Early, requestVars, TypeInv, LambdaState
    <2>2. current[w].req \in Held /\ current[w].req \notin Stored
        BY <1>1, <2>1 DEF JobsInv, OnePlace, Held
    <2>3. /\ Stored' \subseteq Stored \cup {current[w].req}
          /\ \A i, k \in DOMAIN completed_jobs' :
                completed_jobs'[i].req = completed_jobs'[k].req => i = k
        BY <1>1, <2>1, <2>2, PushBackOwners DEF JobsInv, WorkedOnce, Stored
    <2>4. Held' \subseteq Held /\ current[w].req \notin Held' /\ Worked' = Worked /\ Early' = Early
        BY <1>1, <2>1 DEF Held, Worked, Early, JobsInv, WorkedOnce
    <2>5. OwnersAccepted' /\ OnePlace'
        BY <1>2, <2>1, <2>2, <2>3, <2>4 DEF JobsInv, OwnersAccepted, OnePlace
    <2>6. EarlyUnworked' /\ IdsKept'
        BY <1>1, <1>2, <2>1, <2>4 DEF JobsInv, EarlyUnworked, IdsKept
    <2>7. WorkedOnce'
        BY <1>1, <2>1, <2>3 DEF JobsInv, WorkedOnce
    <2> QED BY <1>2, <2>5, <2>6, <2>7 DEF JobsInv
<1> QED BY <1>4, <1>5, <1>6, <1>7, <1>8, <1>9, <1>10 DEF WorkerStep

LEMMA JobsInvariant == Spec => []JobsInv
<1>1. Init => JobsInv
    <2>1. ASSUME Init
          PROVE  /\ jobs = {} /\ Held = {} /\ Worked = {} /\ Stored = {} /\ Early = {}
        BY <2>1 DEF Init, Held, Worked, Stored, Early, Owners, Range
    <2> QED BY <2>1 DEF Init, JobsInv, KindAtPlace, OwnersAccepted, OnePlace, EarlyUnworked,
                        IdsKept, WorkedOnce, Owners
<1>2. TypeInv /\ RepliesInv /\ JobsInv /\ [Next]_vars => JobsInv'
    <2>1. ASSUME JobsInv, UNCHANGED vars
          PROVE  JobsInv'
        <3>1. UNCHANGED <<pc, op, job_id, replies, worked, jobs, completed_jobs, wpc, current>>
            BY <2>1 DEF vars, requestVars, workerVars
        <3>2. /\ Accepted' = Accepted /\ Held' = Held /\ Worked' = Worked
              /\ Stored' = Stored /\ Early' = Early
            BY <3>1 DEF Accepted, Refused, Held, Worked, Stored, Early
        <3>3. KindAtPlace' /\ OwnersAccepted' /\ OnePlace' /\ EarlyUnworked'
            BY <2>1, <3>1, <3>2 DEF JobsInv, KindAtPlace, OwnersAccepted, OnePlace, EarlyUnworked
        <3>4. IdsKept' /\ WorkedOnce'
            BY <2>1, <3>1 DEF JobsInv, IdsKept, WorkedOnce
        <3> QED BY <3>3, <3>4 DEF JobsInv
    <2> QED BY <2>1, RequestJobsInv, WorkerJobsInv DEF Next, Quiescent
<1> QED BY <1>1, <1>2, TypeInvariant, RepliesInvariant, PTL DEF Spec

(***************************************************************************)
(* However requests, cancellations and threads interleave, no job is       *)
(* worked on by two threads, answers two requests, is completed twice or   *)
(* comes back to the queue.                                                *)
(***************************************************************************)
THEOREM JobsWorkedOnce == Spec => []WorkedOnce
<1>1. JobsInv => WorkedOnce
    BY DEF JobsInv
<1> QED BY <1>1, JobsInvariant, PTL

-------------------------------------------------------------------------------
(***************************************************************************)
(* active_jobs is keyed by priority and id.  As long as every id has been  *)
(* taken once, entering a job finds no equal and erasing it takes no       *)
(* other, so the set has the jobs the threads are at.                      *)
(***************************************************************************)
LEMMA IdsOnceUnique ==
    ASSUME TypeInv, [Next]_vars
    PROVE  IdsUnique' => IdsUnique
<1>1. pc \in [Requests -> RequestStates] /\ op \in [Requests -> Operation]
    BY DEF TypeInv, TypeOK
<1>2. ASSUME NEW q \in Constructed
      PROVE  q \in Constructed' /\ job_id'[q] = job_id[q]
    <2>1. CASE UNCHANGED <<pc, op, job_id>>
        BY <1>2, <2>1 DEF Constructed
    <2>2. ASSUME NEW r \in Requests, Receive(r) \/ RequestStep(r)
          PROVE  q \in Constructed' /\ job_id'[q] = job_id[q]
        <3>1. CASE q # r
            BY <1>2, <2>2, <3>1, RequestFrame DEF Constructed
        <3>2. CASE q = r
            <4>1. pc[r] \notin {"unsent", "received"} /\ op' = op /\ job_id' = job_id
                BY <1>2, <2>2, <3>2, RequestFrame DEF Constructed
            <4>2. pc'[r] \notin {"unsent", "received"}
                BY <1>1, <2>2, <4>1 DEF RequestStep, Receive, CreateJob, PushJob, Post,
                    AnswerAtOnce, CancelWork, ClearQueue, QueueLockJobs, QueueLockActive,
                    QueueCopyJobs, QueueReply, GoTo, Answer
            <4> QED BY <1>2, <3>2, <4>1, <4>2 DEF Constructed
        <3> QED BY <3>1, <3>2
    <2>3. ASSUME NEW w \in Workers, WorkerStep(w)
          PROVE  UNCHANGED <<pc, op, job_id>>
        BY <2>3 DEF WorkerStep, Take, NoJobsAvailable, PopJob, Acquire, Activate, Solve,
                    ReleaseDevice, LockActive, Complete, requestVars
    <2>4. UNCHANGED vars => UNCHANGED <<pc, op, job_id>>
        BY DEF vars, requestVars
    <2> QED BY <2>1, <2>2, <2>3, <2>4 DEF Next, Quiescent
<1> QED BY <1>2 DEF IdsUnique

(* The jobs of two threads are not equivalent while ids are distinct. *)
LEMMA CurrentsDiffer ==
    ASSUME TypeInv, JobsInv, IdsUnique, NEW v \in Workers, NEW w \in Workers,
           v # w, current[v] # None, current[w] # None
    PROVE  ~Equivalent(current[w], current[v]) /\ current[v] # current[w]
<1>1. current[v] \in Job /\ current[w] \in Job
    BY DEF TypeInv, TypeOK
<1>2. current[v].req # current[w].req
    BY DEF JobsInv, WorkedOnce
<1>3. current[v].req \in Constructed /\ current[w].req \in Constructed
    BY DEF JobsInv, OwnersAccepted, Held, Accepted, Constructed
<1>4. current[v].id # current[w].id
    BY <1>2, <1>3 DEF JobsInv, IdsKept, IdsUnique
<1> QED BY <1>1, <1>2, <1>4, EquivalentMeans

(* A pool thread enters its job into active_jobs, and takes that job out. *)
LEMMA WorkerActiveComplete ==
    ASSUME TypeInv, JobsInv, IdsUnique, active_jobs = {current[v] : v \in Running},
           NEW w \in Workers, WorkerStep(w)
    PROVE  active_jobs' = {current'[v] : v \in Running'}
<1>1. /\ wpc \in [Workers -> WorkerStates] /\ current \in [Workers -> Job \cup {None}]
    BY DEF TypeInv, TypeOK
<1>2. \A v \in Running : v \in Workers /\ current[v] # None
    BY DEF Running, TypeInv, LambdaState
<1>3. ASSUME w \notin Running, w \notin Running', UNCHANGED active_jobs,
             \A v \in Workers \ {w} : wpc'[v] = wpc[v] /\ current'[v] = current[v]
      PROVE  active_jobs' = {current'[v] : v \in Running'}
    BY <1>3 DEF Running
<1>4. CASE Take(w) \/ PopJob(w)
    BY <1>1, <1>3, <1>4 DEF Take, PopJob, Running
<1>5. CASE NoJobsAvailable(w)
    BY <1>1, <1>3, <1>5 DEF NoJobsAvailable, Leave, Running
<1>6. CASE Acquire(w)
    BY <1>1, <1>3, <1>6 DEF Acquire, Leave, Running
<1>7. CASE Activate(w)
    <2>1. current[w] # None /\ w \notin Running
        BY <1>7 DEF Activate, Running, TypeInv, LambdaState
    <2>2. \A k \in active_jobs : ~Equivalent(current[w], k)
        BY <1>2, <2>1, CurrentsDiffer
    <2>3. active_jobs' = active_jobs \cup {current[w]}
        BY <1>7, <2>2 DEF Activate, SetInsert
    <2>4. Running' = Running \cup {w} /\ current' = current
        BY <1>1, <1>7 DEF Activate, Running
    <2> QED BY <2>3, <2>4
<1>8. CASE Solve(w) \/ ReleaseDevice(w) \/ LockActive(w)
    <2>1. Running' = Running /\ UNCHANGED <<current, active_jobs>>
        BY <1>1, <1>8 DEF Solve, ReleaseDevice, LockActive, Running
    <2> QED BY <2>1
<1>9. CASE Complete(w)
    <2>1. /\ w \in Running /\ current[w] \in Job
          /\ active_jobs' = {k \in active_jobs : ~Equivalent(current[w], k)}
        BY <1>1, <1>2, <1>9 DEF Complete, Running, SetErase
    <2>2. Running' = Running \ {w} /\ \A v \in Running \ {w} : current'[v] = current[v]
        BY <1>1, <1>9 DEF Complete, Leave, Running
    <2>3. Equivalent(current[w], current[w])
        BY <2>1, EquivalentMeans
    <2>4. \A v \in Running \ {w} : ~Equivalent(current[w], current[v])
        BY <1>2, <2>1, CurrentsDiffer
    <2> QED BY <2>1, <2>2, <2>3, <2>4
<1> QED BY <1>4, <1>5, <1>6, <1>7, <1>8, <1>9 DEF WorkerStep

(***************************************************************************)
(* Until an id is given out twice, a queue request sees every job that is  *)
(* being worked on, and no other, among the active ones.                   *)
(***************************************************************************)
THEOREM ActiveJobsListed == Spec => []ActiveJobsComplete
<1>1. Init => ActiveJobsComplete
    BY DEF Init, ActiveJobsComplete, Running
<1>2. TypeInv /\ JobsInv /\ ActiveJobsComplete /\ [Next]_vars => ActiveJobsComplete'
    <2> SUFFICES ASSUME TypeInv, JobsInv, ActiveJobsComplete, [Next]_vars, IdsUnique'
                 PROVE  active_jobs' = {current'[v] : v \in Running'}
        BY DEF ActiveJobsComplete
    <2>1. IdsUnique /\ active_jobs = {current[v] : v \in Running}
        BY IdsOnceUnique DEF ActiveJobsComplete
    <2>2. ASSUME UNCHANGED <<active_jobs, workerVars>>
          PROVE  active_jobs' = {current'[v] : v \in Running'}
        BY <2>1, <2>2 DEF workerVars, Running
    <2>3. ASSUME NEW r \in Requests, Receive(r) \/ RequestStep(r)
          PROVE  UNCHANGED <<active_jobs, workerVars>>
        BY <2>3, RequestFrame
    <2>4. UNCHANGED vars => UNCHANGED <<active_jobs, workerVars>>
        BY DEF vars
    <2> QED BY <2>1, <2>2, <2>3, <2>4, WorkerActiveComplete DEF Next, Quiescent
<1> QED BY <1>1, <1>2, TypeInvariant, JobsInvariant, PTL DEF Spec

-------------------------------------------------------------------------------
(***************************************************************************)
(* A queue request copies the queue before it reads the other two lists.   *)
(* In between, the jobs it has copied may leave the queue; as it holds the *)
(* two mutexes, they cannot get into the other lists.                      *)
(***************************************************************************)
ListingInv ==
    /\ ListingConsistent
    /\ \A r \in Requests : pc[r] = "holds_completed" =>
          /\ listing[r].queued \cap (Owners(active_jobs) \cup Stored) = {}
          /\ listing[r].active = {} /\ listing[r].completed = {}

(* A queue request's own steps, and those of the other requests. *)
LEMMA RequestListing ==
    ASSUME TypeInv, JobsInv, ActiveJobsAlive, ListingInv,
           NEW r \in Requests, Receive(r) \/ RequestStep(r)
    PROVE  ListingInv'
<1>1. /\ pc \in [Requests -> RequestStates] /\ listing \in [Requests -> Listing]
    BY DEF TypeInv, TypeOK
<1>2. UNCHANGED <<active_jobs, completed_jobs>> /\ \A q \in Requests \ {r} : pc'[q] = pc[q]
    BY RequestFrame
<1>3. Stored' = Stored
    BY <1>2 DEF Stored
<1>4. ASSUME UNCHANGED listing, pc'[r] # "holds_completed"
      PROVE  ListingInv'
    BY <1>2, <1>3, <1>4 DEF ListingInv, ListingConsistent
<1>5. Owners(active_jobs) \subseteq Held
    BY DEF ActiveJobsAlive, Running, Owners, Held, TypeInv, LambdaState
<1>6. CASE QueueCopyJobs(r)
    <2>1. /\ listing' = [listing EXCEPT ![r] =
                            [queued |-> Owners(jobs), active |-> {}, completed |-> {}]]
        BY <1>6 DEF QueueCopyJobs
    <2>2. Owners(jobs) \cap (Owners(active_jobs) \cup Stored) = {}
        BY <1>5 DEF JobsInv, OnePlace
    <2> QED BY <1>1, <1>2, <1>3, <2>1, <2>2 DEF ListingInv, ListingConsistent
<1>7. CASE QueueReply(r)
    <2>1. /\ listing' = [listing EXCEPT ![r] =
                            [queued |-> listing[r].queued, active |-> Owners(active_jobs),
                             completed |-> Stored]]
          /\ pc[r] = "holds_completed" /\ pc'[r] = "done"
        BY <1>1, <1>7 DEF QueueReply, Answer, GoTo, Stored
    <2>2. Owners(active_jobs) \cap Stored = {}
        BY <1>5 DEF JobsInv, OnePlace
    <2> QED BY <1>1, <1>2, <1>3, <2>1, <2>2 DEF ListingInv, ListingConsistent
<1>8. CASE Receive(r) \/ CreateJob(r) \/ PushJob(r) \/ Post(r)
    BY <1>1, <1>4, <1>8 DEF Receive, CreateJob, PushJob, Post, GoTo, Answer
<1>9. CASE AnswerAtOnce(r) \/ CancelWork(r) \/ ClearQueue(r) \/ QueueLockJobs(r)
             \/ QueueLockActive(r)
    BY <1>1, <1>4, <1>9 DEF AnswerAtOnce, CancelWork, ClearQueue, QueueLockJobs,
                            QueueLockActive, GoTo, Answer
<1> QED BY <1>6, <1>7, <1>8, <1>9 DEF RequestStep

(* A pool thread enters no job into a list whose mutex a queue request holds. *)
LEMMA WorkerListing ==
    ASSUME TypeInv, LocksOwned, ListingInv, NEW w \in Workers, WorkerStep(w)
    PROVE  ListingInv'
<1>1. UNCHANGED <<pc, listing>>
    BY DEF WorkerStep, Take, NoJobsAvailable, PopJob, Acquire, Activate, Solve,
           ReleaseDevice, LockActive, Complete, requestVars
<1>2. CASE Activate(w) \/ Complete(w)
    <2>1. active_jobs_mutex \in {None, w}
        BY <1>2 DEF Activate, Complete, LocksOwned
    <2>2. \A r \in Requests : pc[r] # "holds_completed"
        BY <2>1, WorkHandlerAssumption DEF LocksOwned
    <2> QED BY <1>1, <2>2 DEF ListingInv, ListingConsistent
<1>3. CASE UNCHANGED <<active_jobs, completed_jobs>>
    BY <1>1, <1>3 DEF ListingInv, ListingConsistent, Stored
<1>4. WorkerStep(w) => Activate(w) \/ Complete(w) \/ UNCHANGED <<active_jobs, completed_jobs>>
    BY DEF WorkerStep, Take, NoJobsAvailable, PopJob, Acquire, Solve, ReleaseDevice, LockActive
<1> QED BY <1>2, <1>3, <1>4

(***************************************************************************)
(* No job is in two lists of one response of GET /api/v1/work/queue,       *)
(* although the lists are read one after the other while threads move      *)
(* jobs from each to the next.                                             *)
(***************************************************************************)
THEOREM ListsDisjoint == Spec => []ListingConsistent
<1>1. Init => ListingInv
    BY DEF Init, ListingInv, ListingConsistent, NoListing
<1>2. /\ TypeInv /\ LocksOwned /\ JobsInv /\ ActiveJobsAlive /\ ListingInv /\ [Next]_vars
      => ListingInv'
    <2>1. ASSUME ListingInv, UNCHANGED vars
          PROVE  ListingInv'
        BY <2>1 DEF vars, requestVars, ListingInv, ListingConsistent, Stored
    <2> QED BY <2>1, RequestListing, WorkerListing DEF Next, Quiescent
<1>3. ListingInv => ListingConsistent
    BY DEF ListingInv
<1> QED BY <1>1, <1>2, <1>3, TypeInvariant, MutualExclusion, JobsInvariant, NoDanglingJob,
           PTL DEF Spec
===============================================================================
