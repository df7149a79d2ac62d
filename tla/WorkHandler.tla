------------------------------ MODULE WorkHandler ------------------------------
(***************************************************************************)
(* work_handler: the requests that reach it on the web server's IO         *)
(* threads, the job queue they share, and the thread pool that works it    *)
(* off on the devices.                                                     *)
(*                                                                         *)
(* Every request runs handle_request_async (or one of the two queue        *)
(* handlers) on an IO thread of its own, so the model interleaves as many  *)
(* of them as there are requests.  A step is one atomic operation on       *)
(* shared state: an atomic fetch_add or exchange, a post, or a critical    *)
(* section on one mutex.  A critical section that nests another lock is    *)
(* one step per lock, and the mutex variables then hold their owner.       *)
(*                                                                         *)
(* The pool's lambda answers the request it was posted for, but works on   *)
(* the job it finds on top of the queue; nothing ties the two together.    *)
(***************************************************************************)
EXTENDS JobQueue

CONSTANTS
    Workers,               \* threads of `pool`
    NumDevices,            \* config.devices.size ()
    RequestLimit,          \* config.server.request_limit
    AllowPrioritization,   \* config.server.allow_prioritization
    AllowControl,          \* config.server.allow_control
    Operations,            \* the operations clients ask for
    BadHash,               \* a missing or malformed field of a request
    None                   \* no request, no job, no owner of a mutex

Kinds == {"generate", "validate", "cancel", "invalid", "queue", "clear"}

Operation == [kind : Kinds, hash : Hashes \cup {BadHash}, priority : Priorities]

ASSUME WorkHandlerAssumption ==
    /\ NumDevices \in Nat
    /\ IsFiniteSet(Workers)
    /\ Cardinality(Workers) = NumDevices
    /\ RequestLimit \in Nat
    /\ AllowPrioritization \in BOOLEAN
    /\ AllowControl \in BOOLEAN
    /\ Operations \subseteq Operation
    /\ BadHash \notin Hashes
    /\ Requests \cap Workers = {}
    /\ None \notin Requests \cup Workers \cup Job
    /\ None \notin Kinds

VARIABLES
    pc,                     \* where each request's handler is
    op,                     \* what the request asks for
    job_id,                 \* the id its job was constructed with
    replies,                \* what its response_handler was called with
    worked,                 \* whose job the work it was sent belongs to
    listing                 \* the lists a queue request was sent

VARIABLES
    job_id_dispenser,
    jobs,                   \* the priority queue
    active_jobs,
    completed_jobs,
    pool,                   \* lambdas posted and not begun, by their request
    jobs_mutex,             \* owner of each mutex between two steps, or None
    active_jobs_mutex,
    completed_jobs_mutex

VARIABLES
    wpc,                    \* where each pool thread is in the lambda
    handler,                \* the request whose lambda it runs
    current,                \* the job it popped (the lambda's local `job`)
    busy, cursor, held      \* the devices: see DevicePool

Dev == INSTANCE DevicePool

requestVars == <<pc, op, job_id, replies, worked, listing>>
mutexVars   == <<jobs_mutex, active_jobs_mutex, completed_jobs_mutex>>
workerVars  == <<wpc, handler, current>>
devVars     == <<busy, cursor, held>>
vars == <<requestVars, job_id_dispenser, jobs, active_jobs, completed_jobs, pool,
          mutexVars, workerVars, devVars>>

RequestStates ==
    {"unsent", "received", "created", "pushed",
     "holds_jobs", "holds_active", "holds_completed", "done"}

WorkerStates ==
    {"idle", "pop", "acquire", "start", "solve", "release", "finish", "commit"}

ReplyKinds ==
    {"work", "valid", "cancelled", "listing", "cleared",
     "bad_request", "not_found", "limit_exceeded", "no_device_configured",
     "no_jobs", "no_device", "control_denied"}

Listing == [queued : SUBSET Requests, active : SUBSET Requests, completed : SUBSET Requests]

NoOperation == [kind |-> "invalid", hash |-> BadHash, priority |-> 0]

NoListing == [queued |-> {}, active |-> {}, completed |-> {}]

Owners(set) == {j.req : j \in set}

\* handle_request_async ignores the priority field unless the config allows it.
JobOf(r) ==
    [req      |-> r,
     hash     |-> op[r].hash,
     priority |-> IF AllowPrioritization THEN op[r].priority ELSE 0,
     id       |-> job_id[r]]

-------------------------------------------------------------------------------
Init ==
    /\ pc = [r \in Requests |-> "unsent"]
    /\ op = [r \in Requests |-> NoOperation]
    /\ job_id = [r \in Requests |-> 0]
    /\ replies = [r \in Requests |-> <<>>]
    /\ worked = [r \in Requests |-> None]
    /\ listing = [r \in Requests |-> NoListing]
    /\ job_id_dispenser = 1 % IdSpace
    /\ jobs = {}
    /\ active_jobs = {}
    /\ completed_jobs = <<>>
    /\ pool = <<>>
    /\ jobs_mutex = None
    /\ active_jobs_mutex = None
    /\ completed_jobs_mutex = None
    /\ wpc = [w \in Workers |-> "idle"]
    /\ handler = [w \in Workers |-> None]
    /\ current = [w \in Workers |-> None]
    /\ Dev!Init

GoTo(r, state) == pc' = [pc EXCEPT ![r] = state]

Respond(r, what) == replies' = [replies EXCEPT ![r] = Append(@, what)]

\* The IO thread answers the request itself and leaves the handler.
Answer(r, what) == GoTo(r, "done") /\ Respond(r, what)

-------------------------------------------------------------------------------
(* A client's request reaches an IO thread. *)
Receive(r) ==
    /\ pc[r] = "unsent"
    /\ \E o \in Operations : op' = [op EXCEPT ![r] = o]
    /\ GoTo(r, "received")
    /\ UNCHANGED <<job_id, replies, worked, listing, job_id_dispenser, jobs, active_jobs,
                   completed_jobs, pool, mutexVars, workerVars, devVars>>

(* Faulty variant: the list of configured devices is not looked at. *)
CreateJobForNoDevice(r) ==
    /\ pc[r] = "received"
    /\ op[r].kind = "generate"
    /\ job_id' = [job_id EXCEPT ![r] = job_id_dispenser]
    /\ job_id_dispenser' = (job_id_dispenser + 1) % IdSpace
    /\ IF op[r].hash = BadHash
       THEN Answer(r, "bad_request")
       ELSE GoTo(r, "created") /\ UNCHANGED replies
    /\ UNCHANGED <<op, worked, listing, jobs, active_jobs, completed_jobs, pool,
                   mutexVars, workerVars, devVars>>

(* Faulty variant: an id wider than the unsigned it is kept in. *)
CreateJobWideId(r) ==
    /\ pc[r] = "received"
    /\ op[r].kind = "generate"
    /\ job_id' = [job_id EXCEPT ![r] = job_id_dispenser]
    /\ job_id_dispenser' = job_id_dispenser + 1
    /\ IF op[r].hash = BadHash
       THEN Answer(r, "bad_request")
       ELSE GoTo(r, "created") /\ UNCHANGED replies
    /\ UNCHANGED <<op, worked, listing, jobs, active_jobs, completed_jobs, pool,
                   mutexVars, workerVars, devVars>>

(***************************************************************************)
(* work_generate up to the construction of the job.  The job takes its id  *)
(* before the request's fields are looked at, so a bad request uses one up. *)
(***************************************************************************)
CreateJob(r) ==
    /\ pc[r] = "received"
    /\ op[r].kind = "generate"
    /\ IF NumDevices = 0
       THEN /\ Answer(r, "no_device_configured")
            /\ UNCHANGED <<job_id, job_id_dispenser>>
       ELSE /\ job_id' = [job_id EXCEPT ![r] = job_id_dispenser]
            /\ job_id_dispenser' = (job_id_dispenser + 1) % IdSpace
            /\ IF op[r].hash = BadHash
               THEN Answer(r, "bad_request")
               ELSE GoTo(r, "created") /\ UNCHANGED replies
    /\ UNCHANGED <<op, worked, listing, jobs, active_jobs, completed_jobs, pool,
                   mutexVars, workerVars, devVars>>

(* Faulty variant: past the limit the error is sent, and the lambda posted all the same. *)
PushJobFallingThrough(r) ==
    /\ pc[r] = "created"
    /\ jobs_mutex = None
    /\ GoTo(r, "pushed")
    /\ IF Cardinality(jobs) < RequestLimit
       THEN jobs' = jobs \cup {JobOf(r)} /\ UNCHANGED replies
       ELSE Respond(r, "limit_exceeded") /\ UNCHANGED jobs
    /\ UNCHANGED <<op, job_id, worked, listing, job_id_dispenser, active_jobs,
                   completed_jobs, pool, mutexVars, workerVars, devVars>>

(* The critical section that queues the job, or throws at the limit. *)
PushJob(r) ==
    /\ pc[r] = "created"
    /\ jobs_mutex = None
    /\ IF Cardinality(jobs) < RequestLimit
       THEN /\ jobs' = jobs \cup {JobOf(r)}
            /\ GoTo(r, "pushed")
            /\ UNCHANGED replies
       ELSE /\ Answer(r, "limit_exceeded")
            /\ UNCHANGED jobs
    /\ UNCHANGED <<op, job_id, worked, listing, job_id_dispenser, active_jobs,
                   completed_jobs, pool, mutexVars, workerVars, devVars>>

(* Faulty variant: a lambda already waiting in the pool is taken to serve this job too. *)
PostUnlessWaiting(r) ==
    /\ pc[r] = "pushed"
    /\ pool' = IF pool = <<>> THEN <<r>> ELSE pool
    /\ GoTo(r, "done")
    /\ UNCHANGED <<op, job_id, replies, worked, listing, job_id_dispenser, jobs, active_jobs,
                   completed_jobs, mutexVars, workerVars, devVars>>

(* boost::asio::post (pool, ..): jobs_mutex is no longer held here. *)
Post(r) ==
    /\ pc[r] = "pushed"
    /\ pool' = Append(pool, r)
    /\ GoTo(r, "done")
    /\ UNCHANGED <<op, job_id, replies, worked, listing, job_id_dispenser, jobs, active_jobs,
                   completed_jobs, mutexVars, workerVars, devVars>>

(* work_validate, and every request without a usable action field. *)
AnswerAtOnce(r) ==
    /\ pc[r] = "received"
    /\ op[r].kind \in {"validate", "invalid"}
    /\ Answer(r, IF op[r].kind = "validate" /\ op[r].hash # BadHash
                 THEN "valid" ELSE "bad_request")
    /\ UNCHANGED <<op, job_id, worked, listing, job_id_dispenser, jobs, active_jobs,
                   completed_jobs, pool, mutexVars, workerVars, devVars>>

(***************************************************************************)
(* work_cancel: remove_job takes every queued job for the hash, whichever  *)
(* request queued it.  Jobs already popped are out of its reach, and the   *)
(* lambdas posted for the removed jobs stay in the pool.                   *)
(***************************************************************************)
CancelWork(r) ==
    /\ pc[r] = "received"
    /\ op[r].kind = "cancel"
    /\ IF op[r].hash = BadHash
       THEN Answer(r, "bad_request") /\ UNCHANGED jobs
       ELSE /\ jobs_mutex = None
            /\ jobs' = Without(jobs, op[r].hash)
            /\ Answer(r, IF jobs' # jobs THEN "cancelled" ELSE "not_found")
    /\ UNCHANGED <<op, job_id, worked, listing, job_id_dispenser, active_jobs,
                   completed_jobs, pool, mutexVars, workerVars, devVars>>

(* handle_queue_delete_request. *)
ClearQueue(r) ==
    /\ pc[r] = "received"
    /\ op[r].kind = "clear"
    /\ IF AllowControl
       THEN jobs_mutex = None /\ jobs' = {} /\ Answer(r, "cleared")
       ELSE Answer(r, "control_denied") /\ UNCHANGED jobs
    /\ UNCHANGED <<op, job_id, worked, listing, job_id_dispenser, active_jobs,
                   completed_jobs, pool, mutexVars, workerVars, devVars>>

(***************************************************************************)
(* handle_queue_request takes the three mutexes in turn, copies the queue, *)
(* lets go of jobs_mutex, and builds and sends the response while it still *)
(* holds the other two.                                                    *)
(***************************************************************************)
QueueLockJobs(r) ==
    /\ pc[r] = "received"
    /\ op[r].kind = "queue"
    /\ jobs_mutex = None
    /\ jobs_mutex' = r
    /\ GoTo(r, "holds_jobs")
    /\ UNCHANGED <<op, job_id, replies, worked, listing, job_id_dispenser, jobs, active_jobs,
                   completed_jobs, pool, active_jobs_mutex, completed_jobs_mutex,
                   workerVars, devVars>>

QueueLockActive(r) ==
    /\ pc[r] = "holds_jobs"
    /\ active_jobs_mutex = None
    /\ active_jobs_mutex' = r
    /\ GoTo(r, "holds_active")
    /\ UNCHANGED <<op, job_id, replies, worked, listing, job_id_dispenser, jobs, active_jobs,
                   completed_jobs, pool, jobs_mutex, completed_jobs_mutex,
                   workerVars, devVars>>

(* Faulty variant: the lock on the active jobs is given up with that on the queue. *)
QueueCopyJobsUnlockingBoth(r) ==
    /\ pc[r] = "holds_active"
    /\ completed_jobs_mutex = None
    /\ completed_jobs_mutex' = r
    /\ listing' = [listing EXCEPT
                      ![r] = [queued |-> Owners(jobs), active |-> {}, completed |-> {}]]
    /\ jobs_mutex' = None
    /\ active_jobs_mutex' = None
    /\ GoTo(r, "holds_completed")
    /\ UNCHANGED <<op, job_id, replies, worked, job_id_dispenser, jobs, active_jobs,
                   completed_jobs, pool, workerVars, devVars>>

QueueCopyJobs(r) ==
    /\ pc[r] = "holds_active"
    /\ completed_jobs_mutex = None
    /\ completed_jobs_mutex' = r
    /\ listing' = [listing EXCEPT
                      ![r] = [queued |-> Owners(jobs), active |-> {}, completed |-> {}]]
    /\ jobs_mutex' = None
    /\ GoTo(r, "holds_completed")
    /\ UNCHANGED <<op, job_id, replies, worked, job_id_dispenser, jobs, active_jobs,
                   completed_jobs, pool, active_jobs_mutex, workerVars, devVars>>

QueueReply(r) ==
    /\ pc[r] = "holds_completed"
    /\ listing' = [listing EXCEPT
                      ![r] = [queued    |-> listing[r].queued,
                              active    |-> Owners(active_jobs),
                              completed |-> Owners(Range(completed_jobs))]]
    /\ Answer(r, "listing")
    /\ active_jobs_mutex' = None
    /\ completed_jobs_mutex' = None
    /\ UNCHANGED <<op, job_id, worked, job_id_dispenser, jobs, active_jobs, completed_jobs,
                   pool, jobs_mutex, workerVars, devVars>>

-------------------------------------------------------------------------------
(* A thread of the pool takes the next lambda, in the order of posting. *)
Take(w) ==
    /\ wpc[w] = "idle"
    /\ pool # <<>>
    /\ handler' = [handler EXCEPT ![w] = Head(pool)]
    /\ pool' = Tail(pool)
    /\ wpc' = [wpc EXCEPT ![w] = "pop"]
    /\ UNCHANGED <<requestVars, job_id_dispenser, jobs, active_jobs, completed_jobs,
                   mutexVars, current, devVars>>

\* The lambda returns; its local job goes out of scope.
Leave(w) ==
    /\ wpc' = [wpc EXCEPT ![w] = "idle"]
    /\ handler' = [handler EXCEPT ![w] = None]
    /\ current' = [current EXCEPT ![w] = None]

(* The lambda finds the queue empty: somebody cancelled or cleared a job. *)
NoJobsAvailable(w) ==
    /\ wpc[w] = "pop"
    /\ jobs_mutex = None
    /\ jobs = {}
    /\ Respond(handler[w], "no_jobs")
    /\ Leave(w)
    /\ UNCHANGED <<pc, op, job_id, worked, listing, job_id_dispenser, jobs, active_jobs,
                   completed_jobs, pool, mutexVars, devVars>>

(* Faulty variant: the job is read from the top of the queue and stays there. *)
PopJobLeavingIt(w) ==
    /\ wpc[w] = "pop"
    /\ jobs_mutex = None
    /\ \E j \in Tops(jobs) : current' = [current EXCEPT ![w] = j]
    /\ wpc' = [wpc EXCEPT ![w] = "acquire"]
    /\ Dev!StartScan(w)
    /\ UNCHANGED <<requestVars, job_id_dispenser, jobs, active_jobs, completed_jobs, pool,
                   mutexVars, handler>>

(* Faulty variant: jobs for the same hash are taken for duplicates and dropped. *)
PopJobWithDuplicates(w) ==
    /\ wpc[w] = "pop"
    /\ jobs_mutex = None
    /\ \E j \in Tops(jobs) :
          /\ jobs' = Without(jobs, j.hash)
          /\ current' = [current EXCEPT ![w] = j]
    /\ wpc' = [wpc EXCEPT ![w] = "acquire"]
    /\ Dev!StartScan(w)
    /\ UNCHANGED <<requestVars, job_id_dispenser, active_jobs, completed_jobs, pool,
                   mutexVars, handler>>

(* jobs.top () and jobs.pop (), then the search for a device begins. *)
PopJob(w) ==
    /\ wpc[w] = "pop"
    /\ jobs_mutex = None
    /\ \E j \in Tops(jobs) :
          /\ jobs' = jobs \ {j}
          /\ current' = [current EXCEPT ![w] = j]
    /\ wpc' = [wpc EXCEPT ![w] = "acquire"]
    /\ Dev!StartScan(w)
    /\ UNCHANGED <<requestVars, job_id_dispenser, active_jobs, completed_jobs, pool,
                   mutexVars, handler>>

(***************************************************************************)
(* One step of the search.  Running off the end throws, and the lambda     *)
(* reports the error and drops its job.                                    *)
(***************************************************************************)
Acquire(w) ==
    /\ wpc[w] = "acquire"
    /\ Dev!TestAndSet(w)
    /\ IF cursor'[w] = Dev!End
       THEN Respond(handler[w], "no_device") /\ Leave(w)
       ELSE /\ wpc' = IF held'[w] = Dev!NoDevice
                      THEN wpc ELSE [wpc EXCEPT ![w] = "start"]
            /\ UNCHANGED <<replies, handler, current>>
    /\ UNCHANGED <<pc, op, job_id, worked, listing, job_id_dispenser, jobs, active_jobs,
                   completed_jobs, pool, mutexVars>>

(* active_jobs receives a reference to the lambda's local job. *)
Activate(w) ==
    /\ wpc[w] = "start"
    /\ active_jobs_mutex = None
    /\ active_jobs' = SetInsert(active_jobs, current[w])
    /\ wpc' = [wpc EXCEPT ![w] = "solve"]
    /\ UNCHANGED <<requestVars, job_id_dispenser, jobs, completed_jobs, pool, mutexVars,
                   handler, current, devVars>>

(* The work is found, and goes to the request the lambda was posted for. *)
Solve(w) ==
    /\ wpc[w] = "solve"
    /\ Respond(handler[w], "work")
    /\ worked' = [worked EXCEPT ![handler[w]] = current[w].req]
    /\ wpc' = [wpc EXCEPT ![w] = "release"]
    /\ UNCHANGED <<pc, op, job_id, listing, job_id_dispenser, jobs, active_jobs,
                   completed_jobs, pool, mutexVars, handler, current, devVars>>

(* Faulty variant: the device is forgotten, its busy flag stays set. *)
ReleaseDeviceForgotten(w) ==
    /\ wpc[w] = "release"
    /\ Dev!ReleaseForgotten(w)
    /\ wpc' = [wpc EXCEPT ![w] = "finish"]
    /\ UNCHANGED <<requestVars, job_id_dispenser, jobs, active_jobs, completed_jobs, pool,
                   mutexVars, handler, current>>

ReleaseDevice(w) ==
    /\ wpc[w] = "release"
    /\ Dev!Release(w)
    /\ wpc' = [wpc EXCEPT ![w] = "finish"]
    /\ UNCHANGED <<requestVars, job_id_dispenser, jobs, active_jobs, completed_jobs, pool,
                   mutexVars, handler, current>>

(* Faulty variant: the lock is only tried, and the outcome ignored. *)
LockActiveTrying(w) ==
    /\ wpc[w] = "finish"
    /\ active_jobs_mutex' = w
    /\ wpc' = [wpc EXCEPT ![w] = "commit"]
    /\ UNCHANGED <<requestVars, job_id_dispenser, jobs, active_jobs, completed_jobs, pool,
                   jobs_mutex, completed_jobs_mutex, handler, current, devVars>>

LockActive(w) ==
    /\ wpc[w] = "finish"
    /\ active_jobs_mutex = None
    /\ active_jobs_mutex' = w
    /\ wpc' = [wpc EXCEPT ![w] = "commit"]
    /\ UNCHANGED <<requestVars, job_id_dispenser, jobs, active_jobs, completed_jobs, pool,
                   jobs_mutex, completed_jobs_mutex, handler, current, devVars>>

(* Faulty variant: the completed job stays among the active ones. *)
CompleteWithoutErase(w) ==
    /\ wpc[w] = "commit"
    /\ completed_jobs_mutex = None
    /\ completed_jobs' = PushBack(completed_jobs, current[w])
    /\ active_jobs_mutex' = None
    /\ Leave(w)
    /\ UNCHANGED <<requestVars, job_id_dispenser, jobs, active_jobs, pool, jobs_mutex,
                   completed_jobs_mutex, devVars>>

(* With both mutexes held the job moves from active to completed. *)
Complete(w) ==
    /\ wpc[w] = "commit"
    /\ completed_jobs_mutex = None
    /\ active_jobs' = SetErase(active_jobs, current[w])
    /\ completed_jobs' = PushBack(completed_jobs, current[w])
    /\ active_jobs_mutex' = None
    /\ Leave(w)
    /\ UNCHANGED <<requestVars, job_id_dispenser, jobs, pool, jobs_mutex,
                   completed_jobs_mutex, devVars>>

-------------------------------------------------------------------------------
RequestStep(r) ==
    \/ CreateJob(r)
    \/ PushJob(r)
    \/ Post(r)
    \/ AnswerAtOnce(r)
    \/ CancelWork(r)
    \/ ClearQueue(r)
    \/ QueueLockJobs(r)
    \/ QueueLockActive(r)
    \/ QueueCopyJobs(r)
    \/ QueueReply(r)

WorkerStep(w) ==
    \/ Take(w)
    \/ NoJobsAvailable(w)
    \/ PopJob(w)
    \/ Acquire(w)
    \/ Activate(w)
    \/ Solve(w)
    \/ ReleaseDevice(w)
    \/ LockActive(w)
    \/ Complete(w)

\* Nothing is left to do: the server waits for requests beyond the modelled ones.
Quiescent ==
    /\ \A r \in Requests : pc[r] = "done"
    /\ \A w \in Workers : wpc[w] = "idle"
    /\ pool = <<>>
    /\ UNCHANGED vars

Next ==
    \/ \E r \in Requests : Receive(r) \/ RequestStep(r)
    \/ \E w \in Workers : WorkerStep(w)
    \/ Quiescent

Spec == Init /\ [][Next]_vars

(***************************************************************************)
(* Threads that can run, do: IO threads and pool threads are scheduled by  *)
(* the operating system, the pool runs what is posted to it, the solver    *)
(* returns, and a mutex that stays free is obtained.  Clients owe nothing. *)
(***************************************************************************)
FairSpec ==
    /\ Spec
    /\ \A r \in Requests : WF_vars(RequestStep(r))
    /\ \A w \in Workers : WF_vars(WorkerStep(w))

-------------------------------------------------------------------------------
(* Every variable has its type, and a mutex is held in the states that hold it. *)
TypeOK ==
    /\ pc \in [Requests -> RequestStates]
    /\ op \in [Requests -> Operation]
    /\ job_id \in [Requests -> 0 .. IdSpace - 1]
    /\ replies \in [Requests -> Seq(ReplyKinds)]
    /\ worked \in [Requests -> Requests \cup {None}]
    /\ listing \in [Requests -> Listing]
    /\ job_id_dispenser \in 0 .. IdSpace - 1
    /\ jobs \in SUBSET Job
    /\ active_jobs \in SUBSET Job
    /\ completed_jobs \in Seq(Job)
    /\ pool \in Seq(Requests)
    /\ jobs_mutex \in Requests \cup {None}
    /\ active_jobs_mutex \in Requests \cup Workers \cup {None}
    /\ completed_jobs_mutex \in Requests \cup {None}
    /\ wpc \in [Workers -> WorkerStates]
    /\ handler \in [Workers -> Requests \cup {None}]
    /\ current \in [Workers -> Job \cup {None}]

(***************************************************************************)
(* The mutexes serialise what they are meant to: whoever is inside a       *)
(* critical section owns its locks, so no two threads are inside together. *)
(***************************************************************************)
LocksOwned ==
    /\ \A r \in Requests :
          /\ pc[r] \in {"holds_jobs", "holds_active"} <=> jobs_mutex = r
          /\ pc[r] \in {"holds_active", "holds_completed"} <=> active_jobs_mutex = r
          /\ pc[r] = "holds_completed" <=> completed_jobs_mutex = r
    /\ \A w \in Workers : wpc[w] = "commit" <=> active_jobs_mutex = w

(***************************************************************************)
(* A client never gets two answers: the error path of the request handler  *)
(* and the lambda posted to the pool exclude each other.  The sessions     *)
(* rely on it, one response per request read.                              *)
(***************************************************************************)
AtMostOneReply == \A r \in Requests : Len(replies[r]) <= 1

(***************************************************************************)
(* No stranded job.  A lambda takes a job, not its own, and work_cancel    *)
(* removes jobs without their lambdas; still there is a lambda to come for *)
(* every job in the queue, be it about to be posted, posted or started.    *)
(***************************************************************************)
Pending ==
    {r \in Requests : pc[r] = "pushed"}
      \cup Range(pool)
      \cup {handler[w] : w \in {v \in Workers : wpc[v] = "pop"}}

QueuedJobsHaveHandlers == Cardinality(jobs) <= Cardinality(Pending)

(***************************************************************************)
(* active_jobs holds references to jobs on the stacks of the pool threads. *)
(* Every one of them refers to the job of a lambda that is still running,  *)
(* or a queue request would read a job that no longer exists.              *)
(***************************************************************************)
Running == {w \in Workers : wpc[w] \in {"solve", "release", "finish", "commit"}}

ActiveJobsAlive == \A j \in active_jobs : \E w \in Running : current[w] = j

(***************************************************************************)
(* While no id has been given out twice, the queue request sees every job  *)
(* being worked on, too.  Equal ids make the set drop one of two jobs.     *)
(***************************************************************************)
Constructed == {r \in Requests : op[r].kind = "generate" /\ pc[r] \notin {"unsent", "received"}}

IdsUnique == \A r, s \in Constructed : r # s => job_id[r] # job_id[s]

ActiveJobsComplete == IdsUnique => active_jobs = {current[w] : w \in Running}

(***************************************************************************)
(* A job is worked on once: no two threads work on the same job, no job    *)
(* answers two requests or is completed twice, and none is queued again.   *)
(***************************************************************************)
WorkedOnce ==
    /\ \A v, w \in Workers :
          v # w /\ current[v] # None /\ current[w] # None => current[v].req # current[w].req
    /\ \A r, s \in Requests : worked[r] # None /\ worked[r] = worked[s] => r = s
    /\ \A i, k \in DOMAIN completed_jobs :
          completed_jobs[i].req = completed_jobs[k].req => i = k
    /\ Owners(jobs) \cap {worked[r] : r \in Requests} = {}

(***************************************************************************)
(* The response to GET /api/v1/work/queue shows each job in one of its     *)
(* three lists at most, although jobs move on while they are being read.   *)
(***************************************************************************)
ListingConsistent ==
    \A r \in Requests :
        /\ listing[r].queued \cap listing[r].active = {}
        /\ listing[r].queued \cap listing[r].completed = {}
        /\ listing[r].active \cap listing[r].completed = {}

(* The claim of the comment before post: no client ever sees "No available devices". *)
NoDeviceErrors == \A r \in Requests : "no_device" \notin Range(replies[r])

(***************************************************************************)
(* No device leaks: its busy flag is set exactly while a lambda that has   *)
(* claimed it is between the end of its search and release (), whatever    *)
(* way the lambda takes and whoever searches past the device meanwhile.    *)
(***************************************************************************)
DevicesInUse ==
    \A d \in Dev!Devices :
        busy[d] <=> \E w \in Workers :
                       wpc[w] \in {"start", "solve", "release"} /\ held[w] = d

(***************************************************************************)
(* The work_handler keeps its promises to its clients: it implements       *)
(* WorkService.  A job waits from the time it is queued until its work is  *)
(* sent, also while a thread has it; one that is nowhere was removed.      *)
(***************************************************************************)
Refused(r) ==
    Range(replies[r]) \cap {"bad_request", "limit_exceeded", "no_device_configured"} # {}

Waiting(r) ==
    \/ r \in Owners(jobs)
    \/ \E w \in Workers : wpc[w] \in {"acquire", "start", "solve"} /\ current[w].req = r

JobState(r) ==
    IF op[r].kind # "generate" \/ pc[r] \notin {"pushed", "done"} \/ Refused(r) THEN "none"
    ELSE IF Waiting(r) THEN "waiting"
    ELSE IF \E s \in Requests : worked[s] = r THEN "worked" ELSE "removed"

Service == INSTANCE WorkService WITH
    asked    <- [r \in Requests |-> IF pc[r] = "unsent" THEN None ELSE op[r].kind],
    answers  <- replies,
    job      <- [r \in Requests |-> JobState(r)],
    sentWork <- worked

ServiceProvided == Service!Spec

(* Whoever asks is answered, also when its job was cancelled or taken by another. *)
EveryRequestAnswered ==
    \A r \in Requests : pc[r] = "received" ~> Len(replies[r]) = 1

(***************************************************************************)
(* What the readme promises of work_generate: the work a request is sent   *)
(* is the work for the hash it asked for.                                  *)
(***************************************************************************)
OwnWork == \A r \in Requests : worked[r] # None => op[worked[r]].hash = op[r].hash

(***************************************************************************)
(* What the comment on class job says: a FIFO queue within each priority   *)
(* level, so a job enters behind every queued job of its own priority.     *)
(***************************************************************************)
FIFOWithinPriority ==
    [][\A j \in jobs' \ jobs : \A k \in jobs :
          k.priority = j.priority => comparator(j, k)]_vars
===============================================================================
