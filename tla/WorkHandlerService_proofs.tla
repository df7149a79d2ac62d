----------------------- MODULE WorkHandlerService_proofs -----------------------
(***************************************************************************)
(* The proof that WorkHandler implements WorkService: with any number of   *)
(* requests, threads and devices, a client observes no more than what      *)
(* WorkService allows.                                                     *)
(***************************************************************************)
EXTENDS WorkHandler_proofs

(***************************************************************************)
(* The job of an accepted request waits in the queue or with a thread      *)
(* (Taken), has been worked on, or else has been removed.                  *)
(***************************************************************************)
Taken   == {current[w].req : w \in Early}
Waiters == Owners(jobs) \cup Taken

StateIn(r, accepted, waiters, done) ==
    IF r \notin accepted THEN "none"
    ELSE IF r \in waiters THEN "waiting"
    ELSE IF r \in done THEN "worked" ELSE "removed"

LEMMA JobStateIs ==
    ASSUME NEW r \in Requests
    PROVE  /\ JobState(r) = StateIn(r, Accepted, Waiters, Worked)
           /\ JobState(r)' = StateIn(r, Accepted', Waiters', Worked')
<1>1. None \notin Requests
    BY WorkHandlerAssumption
<1>2. /\ r \in Accepted <=>
            ~(op[r].kind # "generate" \/ pc[r] \notin {"pushed", "done"} \/ Refused(r))
      /\ r \in Waiters <=> Waiting(r)
      /\ r \in Worked <=> \E s \in Requests : worked[s] = r
    BY <1>1 DEF Accepted, Waiters, Taken, Early, Waiting, Worked
<1>3. /\ r \in Accepted' <=>
            ~(op'[r].kind # "generate" \/ pc'[r] \notin {"pushed", "done"} \/ Refused(r)')
      /\ r \in Waiters' <=> Waiting(r)'
      /\ r \in Worked' <=> \E s \in Requests : worked'[s] = r
    BY <1>1 DEF Accepted, Waiters, Taken, Early, Waiting, Worked
<1> QED BY <1>2, <1>3 DEF JobState, StateIn

(* The sets of requests tell apart: what waits has not been worked on. *)
LEMMA WaitersUnworked ==
    ASSUME TypeInv, JobsInv
    PROVE  /\ Waiters \subseteq Accepted /\ Worked \subseteq Accepted
           /\ Waiters \cap Worked = {} /\ Accepted \subseteq Requests
           /\ Owners(jobs) \cap Taken = {}
<1>1. Taken \subseteq Held
    BY DEF Taken, Held, Early, TypeInv, LambdaState
<1>2. Taken \cap Worked = {}
    BY DEF JobsInv, EarlyUnworked, Taken
<1> QED BY <1>1, <1>2 DEF JobsInv, OwnersAccepted, OnePlace, Waiters, Accepted

-------------------------------------------------------------------------------
(***************************************************************************)
(* The invariant of the mapping.  An unanswered request was sent no work;  *)
(* every lambda belongs to an accepted request; and the accepted requests  *)
(* whose job no thread has taken yet are as many as the lambdas that are   *)
(* still to come or came too late.  So where a lambda finds the queue      *)
(* empty, some job was removed for which nobody has been told so far.      *)
(***************************************************************************)
NoWorkUntold == \A r \in Requests : replies[r] = <<>> => worked[r] = None

Lambdas == Range(pool) \cup ({handler[w] : w \in Workers} \ {None})

Untaken == Accepted \ (Worked \cup Taken)
Spare   == Pending \cup Service!Told("no_jobs")

ServiceInv ==
    /\ NoWorkUntold
    /\ Pending \cup Lambdas \subseteq Accepted
    /\ Cardinality(Untaken) = Cardinality(Spare)

(* The thread of a lambda that has still to answer. *)
LEMMA HandlerUnanswered ==
    ASSUME TypeInv, RepliesInv, NEW w \in Workers,
           wpc[w] \in {"pop", "acquire", "start", "solve"}
    PROVE  handler[w] \in Requests /\ replies[handler[w]] = <<>>
<1>1. handler[w] \in Requests
    BY DEF TypeInv, TypeOK, LambdaState
<1> QED BY <1>1 DEF RepliesInv, Unanswered

(***************************************************************************)
(* What a pool thread does to the jobs, for the clients: a pop only moves  *)
(* one, and the work found ends its waiting.                               *)
(***************************************************************************)
LEMMA WorkerJobs ==
    ASSUME TypeInv, RepliesInv, JobsInv, NoWorkUntold, DevP!DeviceAvailable',
           NEW w \in Workers, WorkerStep(w)
    PROVE  \/ /\ ~PopJob(w) /\ ~Solve(w)
              /\ UNCHANGED <<jobs, worked>> /\ Taken' = Taken
           \/ /\ PopJob(w) /\ UNCHANGED worked
              /\ \E r \in Owners(jobs) :
                    Owners(jobs') = Owners(jobs) \ {r} /\ Taken' = Taken \cup {r}
           \/ /\ Solve(w) /\ UNCHANGED jobs
              /\ current[w].req \in Taken /\ Taken' = Taken \ {current[w].req}
              /\ Worked' = Worked \cup {current[w].req}
<1>1. /\ wpc \in [Workers -> WorkerStates] /\ current \in [Workers -> Job \cup {None}]
      /\ handler \in [Workers -> Requests \cup {None}]
      /\ worked \in [Requests -> Requests \cup {None}]
      /\ None \notin Job /\ None \notin Requests
    BY WorkHandlerAssumption DEF TypeInv, TypeOK
<1>2. ASSUME Early' = Early, \A v \in Early : current'[v] = current[v]
      PROVE  Taken' = Taken
    BY <1>2 DEF Taken
<1>3. CASE Take(w)
    BY <1>1, <1>2, <1>3 DEF Take, Early, requestVars, PopJob, Solve
<1>4. CASE NoJobsAvailable(w)
    BY <1>1, <1>2, <1>4 DEF NoJobsAvailable, Leave, Early, PopJob, Solve
<1>5. CASE Acquire(w)
    <2>1. cursor'[w] # Dev!End
        BY DEF DevP!DeviceAvailable, Dev!End, DevP!End
    <2>2. /\ wpc[w] = "acquire" /\ UNCHANGED <<current, jobs, worked>>
          /\ wpc' = wpc \/ wpc' = [wpc EXCEPT ![w] = "start"]
        BY <1>5, <2>1 DEF Acquire
    <2> QED BY <1>1, <1>2, <2>2 DEF Early, PopJob, Solve
<1>6. CASE Activate(w) \/ ReleaseDevice(w) \/ LockActive(w)
    BY <1>1, <1>2, <1>6 DEF Activate, ReleaseDevice, LockActive, Early, requestVars, PopJob, Solve
<1>7. CASE Complete(w)
    BY <1>1, <1>2, <1>7 DEF Complete, Leave, Early, requestVars, PopJob, Solve
<1>8. CASE PopJob(w)
    <2>1. PICK j \in jobs : jobs' = jobs \ {j} /\ current' = [current EXCEPT ![w] = j]
        BY <1>8 DEF PopJob, Tops
    <2>2. wpc' = [wpc EXCEPT ![w] = "acquire"] /\ wpc[w] = "pop" /\ UNCHANGED worked
        BY <1>8 DEF PopJob, requestVars
    <2>3. j.req \in Owners(jobs) /\ Owners(jobs') = Owners(jobs) \ {j.req}
        BY <2>1 DEF JobsInv, OnePlace, Owners
    <2>4. Early' = Early \cup {w} /\ w \notin Early
        BY <1>1, <2>2 DEF Early
    <2>5. Taken' = Taken \cup {j.req}
        BY <1>1, <2>1, <2>4 DEF Taken, Early
    <2> QED BY <1>8, <2>2, <2>3, <2>5 DEF Solve
<1>9. CASE Solve(w)
    <2>1. /\ wpc[w] = "solve" /\ wpc' = [wpc EXCEPT ![w] = "release"]
          /\ worked' = [worked EXCEPT ![handler[w]] = current[w].req]
          /\ UNCHANGED <<current, jobs>>
        BY <1>9 DEF Solve
    <2>2. /\ w \in Early /\ Early' = Early \ {w} /\ handler[w] \in Requests
          /\ current[w] \in Job
        BY <1>1, <2>1 DEF Early, TypeInv, LambdaState
    <2>3. \A v \in Early \ {w} : current[v].req # current[w].req
        BY <1>1, <2>2 DEF JobsInv, WorkedOnce, Early, TypeInv, LambdaState
    <2>4. current[w].req \in Taken /\ Taken' = Taken \ {current[w].req}
        BY <2>1, <2>2, <2>3 DEF Taken
    <2>5. worked[handler[w]] = None
        BY <2>1, HandlerUnanswered DEF NoWorkUntold
    <2>6. Worked' = Worked \cup {current[w].req}
        BY <1>1, <2>1, <2>2, <2>5, JobFields DEF Worked
    <2> QED BY <1>9, <2>1, <2>4, <2>6
<1> QED BY <1>3, <1>4, <1>5, <1>6, <1>7, <1>8, <1>9 DEF WorkerStep

-------------------------------------------------------------------------------
(* No lambda, no job: nobody has been accepted yet. *)
LEMMA InitServiceInv ==
    ASSUME Init
    PROVE  ServiceInv
<1>1. NoWorkUntold
    BY DEF Init, NoWorkUntold
<1>2. Range(pool) = {} /\ \A w \in Workers : handler[w] = None /\ wpc[w] = "idle"
    BY DEF Init, Range
<1>3. \A r \in Requests : pc[r] = "unsent" /\ replies[r] = <<>>
    BY DEF Init
<1>4. Pending = {} /\ Lambdas = {} /\ Accepted = {}
    BY <1>2, <1>3 DEF Pending, Lambdas, Accepted
<1>5. Service!Told("no_jobs") = {}
    BY <1>3 DEF Service!Told
<1> QED BY <1>1, <1>4, <1>5, FS_EmptySet DEF ServiceInv, Untaken, Spare

(***************************************************************************)
(* A request's handler adds a lambda to come when it queues its job, and   *)
(* posts it; otherwise the lambdas and what is accepted stay as they are.  *)
(***************************************************************************)
LEMMA RequestLambdas ==
    ASSUME TypeInv, RepliesInv, JobsInv, NEW r \in Requests, Receive(r) \/ RequestStep(r)
    PROVE  /\ UNCHANGED <<worked, handler>> /\ Taken' = Taken /\ Worked' = Worked
           /\ \/ /\ PushJob(r) /\ UNCHANGED <<replies, pool>>
                 /\ jobs' = jobs \cup {JobOf(r)}
                 /\ r \notin Accepted /\ Accepted' = Accepted \cup {r}
                 /\ r \notin Pending /\ Pending' = Pending \cup {r}
              \/ /\ jobs' \subseteq jobs /\ Accepted' = Accepted /\ Pending' = Pending
                 /\ Range(pool') \subseteq Range(pool) \cup Pending
                 /\ \/ UNCHANGED replies
                    \/ \E what \in ReplyKinds \ {"work", "no_jobs", "no_device"} :
                          Answer(r, what)
<1>1. /\ pc \in [Requests -> RequestStates] /\ pool \in Seq(Requests)
    BY DEF TypeInv, TypeOK
<1>2. UNCHANGED <<worked, workerVars>> /\ \A q \in Requests \ {r} : pc'[q] = pc[q]
    BY RequestFrame
<1>3. Taken' = Taken /\ Worked' = Worked
    BY <1>2 DEF workerVars, Taken, Early, Worked
<1>4. CASE PushJob(r) /\ Cardinality(jobs) < RequestLimit
    <2>1. /\ jobs' = jobs \cup {JobOf(r)} /\ UNCHANGED <<replies, pool>>
          /\ pc[r] = "created" /\ pc'[r] = "pushed"
        BY <1>1, <1>4 DEF PushJob, GoTo
    <2>2. r \notin Pending
        BY <2>1 DEF Pending, RepliesInv, OwnHandlerFirst
    <2>3. Pending' = Pending \cup {r}
        BY <1>2, <2>1 DEF Pending, workerVars
    <2>4. r \notin Accepted
        BY <2>1 DEF Accepted
    <2>5. JobOf(r) \notin jobs
        BY <2>4 DEF JobsInv, OwnersAccepted, Owners, JobOf
    <2>6. Accepted' = Accepted \cup {r}
        BY <2>1, <2>5, RequestJobs DEF JobsInv
    <2> QED BY <1>2, <1>3, <1>4, <2>1, <2>2, <2>3, <2>4, <2>6 DEF workerVars
<1>5. CASE ~(PushJob(r) /\ Cardinality(jobs) < RequestLimit)
    <2>1. pc[r] = "created" => jobs' = jobs
        BY <1>5 DEF RequestStep, Receive, CreateJob, PushJob, Post, AnswerAtOnce, CancelWork,
                    ClearQueue, QueueLockJobs, QueueLockActive, QueueCopyJobs, QueueReply
    <2>2. r \notin Accepted => JobOf(r) \notin jobs
        BY DEF JobsInv, OwnersAccepted, Owners, JobOf
    <2>3. jobs' \subseteq jobs /\ Accepted' = Accepted
        BY <2>1, <2>2, RequestJobs DEF JobsInv
    <2>4. CASE Post(r)
        <3>1. Range(pool') = Range(pool) \cup {r}
            BY <1>1, <2>4, AppendDistinct DEF Post
        <3>2. pc[r] = "pushed" /\ pc'[r] = "done" /\ UNCHANGED replies
            BY <1>1, <2>4 DEF Post, GoTo
        <3>3. Pending' = Pending /\ r \in Pending
            BY <1>2, <3>1, <3>2 DEF Pending, workerVars
        <3> QED BY <1>2, <1>3, <2>3, <3>1, <3>2, <3>3 DEF workerVars
    <2>5. CASE ~Post(r)
        <3>1. /\ UNCHANGED pool
              /\ \/ UNCHANGED replies
                 \/ \E what \in ReplyKinds \ {"work", "no_jobs", "no_device"} :
                       Answer(r, what)
            BY <2>5, OwnSteps
        <3>2. pc[r] # "pushed"
            BY <2>5 DEF RequestStep, Receive, CreateJob, PushJob, AnswerAtOnce, CancelWork,
                        ClearQueue, QueueLockJobs, QueueLockActive, QueueCopyJobs, QueueReply
        <3>3. pc'[r] # "pushed"
            BY <1>1, <1>5, <2>5 DEF RequestStep, Receive, CreateJob, PushJob, AnswerAtOnce,
                CancelWork, ClearQueue, QueueLockJobs, QueueLockActive, QueueCopyJobs,
                QueueReply, GoTo, Answer
        <3>4. Pending' = Pending
            BY <1>2, <3>1, <3>2, <3>3 DEF Pending, workerVars
        <3> QED BY <1>2, <1>3, <2>3, <3>1, <3>4 DEF workerVars
    <2> QED BY <2>4, <2>5
<1> QED BY <1>4, <1>5

(* Whoever is unanswered has not been told anything. *)
LEMMA NoneTold ==
    ASSUME NEW r \in Requests, replies[r] = <<>>
    PROVE  r \notin Service!Told("no_jobs")
<1>1. <<"no_jobs">> # <<>>
    OBVIOUS
<1> QED BY <1>1 DEF Service!Told

(* A request's handler keeps the balance: a push adds a job and a lambda. *)
LEMMA RequestServiceInv ==
    ASSUME TypeInv, RepliesInv, JobsInv, ServiceInv, NEW r \in Requests, Receive(r) \/ RequestStep(r)
    PROVE  ServiceInv'
<1> DEFINE Late == Service!Told("no_jobs")
<1>1. replies \in [Requests -> Seq(ReplyKinds)]
    BY DEF TypeInv, TypeOK
<1>2. UNCHANGED <<worked, handler>> /\ Taken' = Taken /\ Worked' = Worked
    BY RequestLambdas
<1>3. replies[r] = <<>>
    BY OwnSteps DEF RepliesInv, Unanswered
<1>4. NoWorkUntold' /\ Late' = Late
    <2>1. CASE UNCHANGED replies
        BY <1>2, <2>1 DEF ServiceInv, NoWorkUntold, Service!Told
    <2>2. ASSUME NEW what \in ReplyKinds \ {"work", "no_jobs", "no_device"}, Answer(r, what)
          PROVE  NoWorkUntold' /\ Late' = Late
        <3>1. /\ replies'[r] = <<what>> /\ what # "no_jobs"
              /\ \A q \in Requests \ {r} : replies'[q] = replies[q]
            BY <1>1, <1>3, <2>2 DEF Answer, Respond
        <3>2. replies'[r] # <<>> /\ replies'[r] # <<"no_jobs">>
            BY <3>1
        <3>3. NoWorkUntold'
            BY <1>2, <3>1, <3>2 DEF ServiceInv, NoWorkUntold
        <3> QED BY <1>3, <3>1, <3>2, <3>3 DEF Service!Told
    <2> QED BY <2>1, <2>2, RequestLambdas
<1>5. CASE /\ Accepted' = Accepted \cup {r} /\ r \notin Accepted
           /\ Pending' = Pending \cup {r} /\ r \notin Pending /\ UNCHANGED pool
    <2>1. Pending' \cup Lambdas' \subseteq Accepted'
        BY <1>2, <1>5 DEF ServiceInv, Lambdas
    <2>2. r \notin Worked \cup Taken
        BY <1>5, WaitersUnworked DEF Waiters
    <2>3. Untaken' = Untaken \cup {r} /\ r \notin Untaken
        BY <1>2, <1>5, <2>2 DEF Untaken
    <2>4. r \notin Late
        BY <1>3, NoneTold
    <2>5. Spare' = Spare \cup {r} /\ r \notin Spare
        BY <1>4, <1>5, <2>4 DEF Spare
    <2>6. Untaken \subseteq Requests /\ Spare \subseteq Requests
        BY PendingFinite DEF Untaken, Accepted, Spare, Service!Told
    <2>7. Cardinality(Untaken') = Cardinality(Spare')
        BY <2>3, <2>5, <2>6, RequestsCounted, FS_AddElement DEF ServiceInv
    <2> QED BY <1>4, <2>1, <2>7 DEF ServiceInv
<1>6. CASE /\ Accepted' = Accepted /\ Pending' = Pending
           /\ Range(pool') \subseteq Range(pool) \cup Pending
    <2>1. Untaken' = Untaken /\ Spare' = Spare
        BY <1>2, <1>4, <1>6 DEF Untaken, Spare
    <2>2. Pending' \cup Lambdas' \subseteq Accepted'
        BY <1>2, <1>6 DEF ServiceInv, Lambdas
    <2> QED BY <1>4, <2>1, <2>2 DEF ServiceInv
<1> QED BY <1>5, <1>6, RequestLambdas

(***************************************************************************)
(* A pool thread's lambda leaves Pending as it takes a job, or stays among *)
(* the spare ones as it reports that there is none.                        *)
(***************************************************************************)
LEMMA WorkerLambdas ==
    ASSUME TypeInv, RepliesInv, DevP!DeviceAvailable', NEW w \in Workers, WorkerStep(w)
    PROVE  /\ Lambdas' \subseteq Lambdas
           /\ \/ /\ ~PopJob(w) /\ Spare' = Spare
                 /\ Pending' \subseteq Pending
              \/ /\ PopJob(w) /\ handler[w] \in Spare
                 /\ Spare' = Spare \ {handler[w]} /\ Pending' \subseteq Pending
<1> DEFINE Late == Service!Told("no_jobs")
<1>1. /\ wpc \in [Workers -> WorkerStates] /\ pool \in Seq(Requests)
      /\ handler \in [Workers -> Requests \cup {None}] /\ None \notin Requests
      /\ replies \in [Requests -> Seq(ReplyKinds)]
    BY WorkHandlerAssumption DEF TypeInv, TypeOK
<1>2. UNCHANGED pc
    BY WorkerFrame
<1>3. ASSUME wpc[w] \in {"pop", "acquire", "start", "solve"}
      PROVE  /\ handler[w] \in Requests /\ replies[handler[w]] = <<>> /\ handler[w] \notin Late
             /\ pc[handler[w]] # "pushed" /\ handler[w] \notin Range(pool)
             /\ \A v \in Workers \ {w} : handler[v] # handler[w]
    <2>1. handler[w] \in Requests /\ replies[handler[w]] = <<>>
        BY <1>3, HandlerUnanswered
    <2>2. handler[w] \notin Late
        BY <2>1, NoneTold
    <2> QED BY <1>1, <2>1, <2>2 DEF RepliesInv, OneLambda, OwnHandlerFirst
<1>4. ASSUME wpc[w] # "pop", wpc'[w] # "pop", UNCHANGED pool,
             \A v \in Workers \ {w} : wpc'[v] = wpc[v] /\ handler'[v] = handler[v],
             handler'[w] \in {handler[w], None}
      PROVE  Lambdas' \subseteq Lambdas /\ Pending' = Pending
    <2>1. \A v \in Workers : handler'[v] \in {handler[v], None}
        BY <1>4
    <2>2. Lambdas' \subseteq Lambdas
        BY <1>4, <2>1 DEF Lambdas
    <2>3. \A v \in Workers : /\ wpc[v] = "pop" <=> wpc'[v] = "pop"
                             /\ wpc[v] = "pop" => handler'[v] = handler[v]
        BY <1>4
    <2>4. Pending' = Pending
        BY <1>2, <1>4, <2>3 DEF Pending
    <2> QED BY <2>2, <2>4
<1>5. CASE Take(w)
    <2>1. /\ pool # <<>> /\ wpc[w] = "idle" /\ handler[w] = None /\ UNCHANGED replies
          /\ wpc' = [wpc EXCEPT ![w] = "pop"] /\ handler' = [handler EXCEPT ![w] = Head(pool)]
        BY <1>5 DEF Take, requestVars, TypeInv, LambdaState
    <2>2. Range(pool') = Range(pool) \ {Head(pool)} /\ Head(pool) \in Range(pool)
        BY <1>1, <1>5, <2>1, TailDistinct DEF Take, RepliesInv, OneLambda
    <2>3. Lambdas' \subseteq Lambdas
        BY <1>1, <2>1, <2>2 DEF Lambdas
    <2>4. Pending' = Pending
        BY <1>1, <1>2, <2>1, <2>2 DEF Pending
    <2>5. ~PopJob(w) /\ Late' = Late
        BY <2>1 DEF PopJob, Service!Told
    <2> QED BY <2>3, <2>4, <2>5 DEF Spare
<1>6. CASE NoJobsAvailable(w)
    <2>1. /\ wpc[w] = "pop" /\ handler' = [handler EXCEPT ![w] = None] /\ UNCHANGED pool
          /\ wpc' = [wpc EXCEPT ![w] = "idle"] /\ Respond(handler[w], "no_jobs") /\ jobs = {}
        BY <1>6 DEF NoJobsAvailable, Leave
    <2>2. Late' = Late \cup {handler[w]}
        BY <1>1, <1>3, <2>1 DEF Service!Told, Respond
    <2>3. Pending' = Pending \ {handler[w]} /\ handler[w] \in Pending
        BY <1>1, <1>2, <1>3, <2>1 DEF Pending
    <2>4. Lambdas' \subseteq Lambdas
        BY <1>1, <2>1 DEF Lambdas
    <2>5. ~PopJob(w)
        BY <2>1 DEF PopJob, Tops
    <2> QED BY <2>2, <2>3, <2>4, <2>5 DEF Spare
<1>7. CASE PopJob(w)
    <2>1. /\ wpc[w] = "pop" /\ wpc' = [wpc EXCEPT ![w] = "acquire"]
          /\ UNCHANGED <<handler, pool, replies>>
        BY <1>7 DEF PopJob, requestVars
    <2>2. Pending' = Pending \ {handler[w]} /\ handler[w] \in Pending
        BY <1>1, <1>2, <1>3, <2>1 DEF Pending
    <2>3. Late' = Late /\ handler[w] \notin Late
        BY <1>3, <2>1 DEF Service!Told
    <2>4. Lambdas' \subseteq Lambdas
        BY <2>1 DEF Lambdas
    <2> QED BY <1>7, <2>2, <2>3, <2>4 DEF Spare
<1>8. CASE Solve(w)
    <2>1. /\ wpc[w] = "solve" /\ wpc' = [wpc EXCEPT ![w] = "release"]
          /\ UNCHANGED <<handler, pool>> /\ Respond(handler[w], "work")
        BY <1>8 DEF Solve
    <2>2. handler[w] \in Requests /\ handler[w] \notin Late /\ replies[handler[w]] = <<>>
        BY <1>3, <2>1
    <2>3. /\ replies'[handler[w]] = <<"work">>
          /\ \A q \in Requests \ {handler[w]} : replies'[q] = replies[q]
        BY <1>1, <2>1, <2>2 DEF Respond
    <2>4. Late' = Late
        BY <2>2, <2>3 DEF Service!Told
    <2>5. Lambdas' \subseteq Lambdas /\ Pending' = Pending
        BY <1>1, <1>4, <2>1
    <2> QED BY <2>1, <2>4, <2>5 DEF Spare, PopJob
<1>9. ASSUME UNCHANGED replies, ~PopJob(w), Lambdas' \subseteq Lambdas, Pending' = Pending
      PROVE  ~PopJob(w) /\ Spare' = Spare /\ Pending' \subseteq Pending
    BY <1>9 DEF Spare, Service!Told
<1>10. CASE Acquire(w)
    <2>1. cursor'[w] # Dev!End
        BY DEF DevP!DeviceAvailable, Dev!End, DevP!End
    <2>2. /\ wpc[w] = "acquire" /\ UNCHANGED <<handler, pool, replies>>
          /\ wpc' = wpc \/ wpc' = [wpc EXCEPT ![w] = "start"]
        BY <1>10, <2>1 DEF Acquire
    <2> QED BY <1>1, <1>4, <1>9, <2>2 DEF PopJob
<1>11. CASE Activate(w) \/ ReleaseDevice(w) \/ LockActive(w)
    BY <1>1, <1>4, <1>9, <1>11 DEF Activate, ReleaseDevice, LockActive, PopJob, requestVars
<1>12. CASE Complete(w)
    BY <1>1, <1>4, <1>9, <1>12 DEF Complete, Leave, PopJob, requestVars
<1> QED BY <1>5, <1>6, <1>7, <1>8, <1>10, <1>11, <1>12 DEF WorkerStep

LEMMA WorkerServiceInv ==
    ASSUME TypeInv, RepliesInv, JobsInv, ServiceInv, DevP!DeviceAvailable',
           NEW w \in Workers, WorkerStep(w)
    PROVE  ServiceInv'
<1>1. Accepted' = Accepted
    BY WorkerFrame
<1>2. NoWorkUntold'
    <2>1. replies \in [Requests -> Seq(ReplyKinds)]
        BY DEF TypeInv, TypeOK
    <2>2. CASE Solve(w)
        <3>1. handler[w] \in Requests /\ replies[handler[w]] = <<>>
            BY <2>2, HandlerUnanswered DEF Solve
        <3>2. /\ replies'[handler[w]] = <<"work">>
              /\ \A q \in Requests \ {handler[w]} : /\ replies'[q] = replies[q]
                                                 /\ worked'[q] = worked[q]
            <4>1. worked \in [Requests -> Requests \cup {None}]
                BY DEF TypeInv, TypeOK
            <4> QED BY <2>1, <2>2, <3>1, <4>1 DEF Solve, Respond
        <3>3. replies'[handler[w]] # <<>>
            BY <3>2
        <3> QED BY <3>2, <3>3 DEF ServiceInv, NoWorkUntold
    <2>3. CASE ~Solve(w)
        <3>1. UNCHANGED worked
            BY <2>3, WorkerJobs DEF ServiceInv
        <3>2. ASSUME NEW q \in Requests, replies'[q] = <<>>
              PROVE  replies[q] = <<>>
            <4>1. UNCHANGED replies \/ \E what \in ReplyKinds : Respond(handler[w], what)
                BY <2>3 DEF WorkerStep, Take, NoJobsAvailable, PopJob, Acquire, Activate,
                            ReleaseDevice, LockActive, Complete, requestVars, ReplyKinds
            <4>2. ASSUME NEW what \in ReplyKinds, Respond(handler[w], what), q = handler[w]
                  PROVE  FALSE
                <5>1. replies'[q] = Append(replies[q], what) /\ replies[q] \in Seq(ReplyKinds)
                    BY <2>1, <4>2 DEF Respond
                <5> QED BY <3>2, <5>1, AppendProperties
            <4>3. ASSUME NEW what \in ReplyKinds, Respond(handler[w], what), q # handler[w]
                  PROVE  replies[q] = <<>>
                BY <2>1, <3>2, <4>3 DEF Respond
            <4> QED BY <3>2, <4>1, <4>2, <4>3
        <3> QED BY <3>1, <3>2 DEF ServiceInv, NoWorkUntold
    <2> QED BY <2>2, <2>3
<1>3. Pending' \cup Lambdas' \subseteq Accepted'
    BY <1>1, WorkerLambdas DEF ServiceInv
<1>4. Cardinality(Untaken') = Cardinality(Spare')
    <2>1. CASE PopJob(w)
        <3>1. handler[w] \in Spare /\ Spare' = Spare \ {handler[w]}
            BY <2>1, WorkerLambdas
        <3>2. PICK r \in Owners(jobs) : Taken' = Taken \cup {r}
            BY <2>1, WorkerJobs DEF ServiceInv, Solve, PopJob
        <3>3. UNCHANGED worked
            BY <2>1 DEF PopJob, requestVars
        <3>4. r \in Untaken
            BY <3>2, WaitersUnworked DEF Untaken, Waiters
        <3>5. Untaken' = Untaken \ {r}
            BY <1>1, <3>2, <3>3 DEF Untaken, Worked
        <3>6. Untaken \subseteq Requests /\ Spare \subseteq Requests
            BY PendingFinite DEF Untaken, Accepted, Spare, Service!Told
        <3>7. IsFiniteSet(Untaken) /\ IsFiniteSet(Spare)
            BY <3>6, RequestsCounted
        <3>8. Cardinality(Untaken') = Cardinality(Untaken) - 1
            BY <3>4, <3>5, <3>7, FS_RemoveElement
        <3>9. Cardinality(Spare') = Cardinality(Spare) - 1
            BY <3>1, <3>7, FS_RemoveElement
        <3> QED BY <3>8, <3>9 DEF ServiceInv
    <2>2. CASE ~PopJob(w)
        <3>1. Spare' = Spare
            BY <2>2, WorkerLambdas
        <3>2. Worked' \cup Taken' = Worked \cup Taken
            BY <2>2, WorkerJobs DEF ServiceInv, Worked
        <3> QED BY <1>1, <3>1, <3>2 DEF Untaken, ServiceInv
    <2> QED BY <2>1, <2>2
<1> QED BY <1>2, <1>3, <1>4 DEF ServiceInv

LEMMA ServiceInvariant == Spec => []ServiceInv
<1>1. Init => ServiceInv
    BY InitServiceInv
<1>2. /\ TypeInv /\ RepliesInv /\ JobsInv /\ ServiceInv /\ DevP!DeviceAvailable' /\ [Next]_vars
      => ServiceInv'
    <2>1. ASSUME ServiceInv, UNCHANGED vars
          PROVE  ServiceInv'
        <3>1. UNCHANGED <<pc, op, replies, worked, jobs, pool, wpc, handler, current>>
            BY <2>1 DEF vars, requestVars, workerVars
        <3>2. /\ Accepted' = Accepted /\ Worked' = Worked /\ Taken' = Taken
              /\ Pending' = Pending /\ Lambdas' = Lambdas
            BY <3>1 DEF Accepted, Refused, Worked, Taken, Early, Pending, Lambdas
        <3>3. Untaken' = Untaken /\ Spare' = Spare
            BY <3>1, <3>2 DEF Untaken, Spare, Service!Told
        <3> QED BY <2>1, <3>1, <3>2, <3>3 DEF ServiceInv, NoWorkUntold
    <2> QED BY <2>1, RequestServiceInv, WorkerServiceInv DEF Next, Quiescent
<1> QED BY <1>1, <1>2, TypeInvariant, RepliesInvariant, JobsInvariant, DevicesSound,
           PTL DEF Spec

-------------------------------------------------------------------------------
(* The variables of WorkService, as WorkHandler maps them. *)
askedOf == [r \in Requests |-> IF pc[r] = "unsent" THEN None ELSE op[r].kind]
jobOf   == [r \in Requests |-> JobState(r)]

Inv == TypeInv /\ RepliesInv /\ JobsInv /\ ServiceInv

LEMMA JobOfIs ==
    /\ jobOf = [r \in Requests |-> StateIn(r, Accepted, Waiters, Worked)]
    /\ jobOf' = [r \in Requests |-> StateIn(r, Accepted', Waiters', Worked')]
BY JobStateIs DEF jobOf

(* What has been asked stays asked. *)
LEMMA AskedStays ==
    ASSUME TypeInv,
           (\E r \in Requests : RequestStep(r)) \/ (\E w \in Workers : WorkerStep(w))
    PROVE  askedOf' = askedOf
<1>1. pc \in [Requests -> RequestStates]
    BY DEF TypeInv, TypeOK
<1>2. ASSUME NEW r \in Requests, RequestStep(r)
      PROVE  askedOf' = askedOf
    <2>1. pc[r] # "unsent" /\ op' = op
        BY <1>2 DEF RequestStep, CreateJob, PushJob, Post, AnswerAtOnce, CancelWork,
                    ClearQueue, QueueLockJobs, QueueLockActive, QueueCopyJobs, QueueReply
    <2>2. pc'[r] # "unsent"
        BY <1>1, <1>2 DEF RequestStep, CreateJob, PushJob, Post, AnswerAtOnce, CancelWork,
                    ClearQueue, QueueLockJobs, QueueLockActive, QueueCopyJobs, QueueReply,
                    GoTo, Answer
    <2>3. \A q \in Requests \ {r} : pc'[q] = pc[q]
        BY <1>2, RequestFrame
    <2> QED BY <2>1, <2>2, <2>3 DEF askedOf
<1>3. ASSUME UNCHANGED <<pc, op>>
      PROVE  askedOf' = askedOf
    BY <1>3 DEF askedOf
<1> QED BY <1>2, <1>3, WorkerFrame

(* A request arrives. *)
LEMMA ReceiveMaps ==
    ASSUME Inv, NEW r \in Requests, Receive(r)
    PROVE  Service!Arrive(r)
<1>1. /\ pc \in [Requests -> RequestStates] /\ op \in [Requests -> Operation]
      /\ op' \in [Requests -> Operation]
    BY RequestTypeInv DEF Inv, TypeInv, TypeOK
<1>2. /\ pc[r] = "unsent" /\ pc'[r] = "received" /\ UNCHANGED <<replies, worked, jobs>>
      /\ \A q \in Requests \ {r} : pc'[q] = pc[q] /\ op'[q] = op[q]
    BY <1>1 DEF Receive, GoTo
<1>3. /\ askedOf[r] = None /\ op'[r].kind \in Kinds
      /\ askedOf' = [askedOf EXCEPT ![r] = op'[r].kind]
    BY <1>1, <1>2 DEF askedOf, Operation
<1>4. Accepted' = Accepted
    BY <1>2, RequestFrame DEF Accepted, Refused
<1>5. Waiters' = Waiters /\ Worked' = Worked
    BY <1>2, RequestLambdas DEF Inv, Waiters, Worked
<1>6. jobOf' = jobOf
    BY <1>4, <1>5, JobOfIs
<1> QED BY <1>2, <1>3, <1>6 DEF Service!Arrive, askedOf, jobOf

(* A request whose own handler answers had no answer so far. *)
LEMMA AnswerMaps ==
    ASSUME Inv, NEW r \in Requests, replies[r] = <<>>, pc[r] # "unsent",
           NEW what \in ReplyKinds, Respond(r, what), askedOf' = askedOf
    PROVE  Service!Answer(r, what)
<1>1. replies \in [Requests -> Seq(ReplyKinds)]
    BY DEF Inv, TypeInv, TypeOK
<1>2. replies' = [replies EXCEPT ![r] = <<what>>]
    BY <1>1 DEF Respond
<1>3. askedOf[r] # None
    <2>1. op[r].kind \in Kinds
        BY DEF Inv, TypeInv, TypeOK, Operation
    <2> QED BY <2>1, WorkHandlerAssumption DEF askedOf
<1> QED BY <1>2, <1>3 DEF Service!Answer, askedOf

(* The steps of a request's own handler that the client sees. *)
LEMMA PlainMaps ==
    ASSUME Inv, NEW r \in Requests, RequestStep(r), pc[r] \notin {"pushed", "done"},
           NEW what \in Service!PlainAnswers(op[r].kind), what \in ReplyKinds,
           Answer(r, what), UNCHANGED jobs
    PROVE  Service!AnswerPlainly(r)
<1>1. pc[r] # "unsent" /\ replies[r] = <<>>
    <2>1. pc[r] # "unsent"
        BY DEF RequestStep, CreateJob, PushJob, Post, AnswerAtOnce, CancelWork, ClearQueue,
               QueueLockJobs, QueueLockActive, QueueCopyJobs, QueueReply
    <2> QED BY <2>1, OwnSteps DEF Inv, RepliesInv, Unanswered
<1>2. askedOf' = askedOf
    BY AskedStays DEF Inv
<1>3. Service!Answer(r, what)
    BY <1>1, <1>2, AnswerMaps DEF Answer
<1>4. r \notin Accepted
    BY DEF Accepted
<1>5. jobOf' = jobOf /\ jobOf[r] = "none" /\ UNCHANGED worked
    <2>1. JobOf(r) \in jobs => r \in Accepted
        BY DEF Inv, JobsInv, OwnersAccepted, Owners, JobOf
    <2>2. Accepted' = Accepted
        BY <1>4, <2>1, RequestLambdas DEF Inv
    <2>3. Waiters' = Waiters /\ Worked' = Worked /\ UNCHANGED worked
        BY RequestLambdas DEF Inv, Waiters
    <2> QED BY <1>4, <2>2, <2>3, JobOfIs DEF StateIn
<1>6. askedOf[r] = op[r].kind /\ askedOf[r] # None
    <2>1. op[r].kind \in Kinds
        BY DEF Inv, TypeInv, TypeOK, Operation
    <2> QED BY <1>1, <2>1, WorkHandlerAssumption DEF askedOf
<1> QED BY <1>3, <1>5, <1>6 DEF Service!AnswerPlainly, askedOf, jobOf

(* Jobs leave the queue, those of the requests in S. *)
LEMMA RemoveMaps ==
    ASSUME Inv, NEW r \in Requests, RequestStep(r), pc[r] = "received",
           jobs' \subseteq jobs,
           \/ op[r].kind = "cancel" /\ jobs' # jobs /\ Answer(r, "cancelled")
           \/ op[r].kind = "clear" /\ Answer(r, "cleared")
    PROVE  Service!Remove(r)
<1> DEFINE S == Owners(jobs) \ Owners(jobs')
<1>1. replies[r] = <<>> /\ askedOf[r] = op[r].kind /\ UNCHANGED worked
    BY OwnSteps, RequestLambdas DEF Inv, RepliesInv, Unanswered, askedOf
<1>2. askedOf' = askedOf
    BY AskedStays DEF Inv
<1>3. \/ askedOf[r] = "cancel" /\ jobs' # jobs /\ Service!Answer(r, "cancelled")
      \/ askedOf[r] = "clear" /\ Service!Answer(r, "cleared")
    BY <1>1, <1>2, AnswerMaps DEF Answer, ReplyKinds
<1>4. jobs' # jobs => S # {}
    BY DEF Owners, Inv, JobsInv, OnePlace
<1>5. /\ Owners(jobs') \subseteq Owners(jobs) /\ S \cap Taken = {} /\ S \cap Worked = {}
      /\ S \subseteq Accepted /\ S \subseteq Requests /\ S \subseteq Waiters
    BY WaitersUnworked DEF Inv, Waiters, Owners
<1>6. Accepted' = Accepted /\ Worked' = Worked /\ Waiters' = Waiters \ S
    <2>1. r \notin Accepted
        BY DEF Accepted
    <2>2. Accepted' = Accepted
        BY <2>1, RequestLambdas DEF Inv, PushJob
    <2> QED BY <1>5, <2>2, RequestLambdas DEF Inv, Waiters
<1>7. /\ jobOf' = [s \in Requests |-> IF s \in S THEN "removed" ELSE jobOf[s]]
      /\ S \subseteq {s \in Requests : jobOf[s] = "waiting"}
    BY <1>5, <1>6, JobOfIs DEF StateIn
<1> QED BY <1>1, <1>3, <1>4, <1>7 DEF Service!Remove, Service!Jobs, askedOf, jobOf

(* No two jobs of the queue belong to one request. *)
LEMMA JobsCounted ==
    ASSUME TypeInv, JobsInv
    PROVE  /\ Cardinality(Owners(jobs)) \in Nat /\ Cardinality(jobs) \in Nat
           /\ Cardinality(jobs) <= Cardinality(Owners(jobs))
<1> DEFINE owner == [j \in jobs |-> j.req]
<1>1. Owners(jobs) \subseteq Requests
    BY JobFields DEF Owners, TypeInv, TypeOK
<1>2. IsFiniteSet(Owners(jobs)) /\ Cardinality(Owners(jobs)) \in Nat
    BY <1>1, RequestsCounted
<1>3. owner \in Injection(jobs, Owners(jobs))
    BY DEF Injection, IsInjective, Owners, JobsInv, OnePlace
<1>4. IsFiniteSet(jobs) /\ Cardinality(jobs) <= Cardinality(Owners(jobs))
    BY <1>2, <1>3, FS_Injection
<1> QED BY <1>2, <1>4, FS_CardinalityType

(* A job is accepted while there is room for it. *)
LEMMA PushMaps ==
    ASSUME Inv, NEW r \in Requests, PushJob(r)
    PROVE  Service!Accept(r) \/ Service!Refuse(r)
<1>1. RequestStep(r) /\ pc[r] = "created" /\ op[r].kind = "generate"
    BY DEF RequestStep, PushJob, Inv, JobsInv, KindAtPlace
<1>2. /\ replies[r] = <<>> /\ askedOf[r] = "generate" /\ askedOf' = askedOf /\ UNCHANGED worked
    BY <1>1, OwnSteps, AskedStays, RequestLambdas DEF Inv, RepliesInv, Unanswered, askedOf
<1>3. r \notin Accepted /\ r \notin Waiters /\ r \notin Worked /\ jobOf[r] = "none"
    BY <1>1, WaitersUnworked, JobOfIs DEF Inv, Accepted, StateIn
<1>4. JobOf(r) \notin jobs
    BY <1>3 DEF Inv, JobsInv, OwnersAccepted, Owners, JobOf
<1>5. CASE Cardinality(jobs) < RequestLimit
    <2>1. jobs' = jobs \cup {JobOf(r)} /\ UNCHANGED replies
        BY <1>5 DEF PushJob
    <2>2. Accepted' = Accepted \cup {r} /\ Worked' = Worked /\ Taken' = Taken
        BY <1>1, <1>4, <2>1, RequestLambdas DEF Inv
    <2>3. Owners(jobs') = Owners(jobs) \cup {r}
        <3>1. JobOf(r).req = r
            BY DEF JobOf
        <3> QED BY <2>1, <3>1 DEF Owners
    <2>4. Waiters' = Waiters \cup {r}
        BY <2>2, <2>3 DEF Waiters
    <2>5. jobOf' = [jobOf EXCEPT ![r] = "waiting"]
        BY <1>3, <2>2, <2>4, JobOfIs DEF StateIn
    <2>6. Service!Accept(r)
        BY <1>2, <1>3, <2>1, <2>5 DEF Service!Accept, askedOf, jobOf
    <2> QED BY <2>6
<1>6. CASE ~(Cardinality(jobs) < RequestLimit)
    <2>1. UNCHANGED jobs /\ Answer(r, "limit_exceeded")
        BY <1>6 DEF PushJob
    <2>2. Service!Answer(r, "limit_exceeded")
        BY <1>1, <1>2, <2>1, AnswerMaps DEF Answer, ReplyKinds
    <2>3. jobOf' = jobOf
        <3>1. Accepted' = Accepted /\ Worked' = Worked /\ Taken' = Taken
            BY <1>1, <1>4, <2>1, RequestLambdas DEF Inv
        <3> QED BY <2>1, <3>1, JobOfIs DEF Waiters
    <2>4. Owners(jobs) \subseteq Service!Jobs("waiting")
        BY WaitersUnworked, JobOfIs DEF Inv, Waiters, Service!Jobs, jobOf, StateIn
    <2>5. /\ Cardinality(Owners(jobs)) \in Nat
          /\ Cardinality(jobs) \in Nat /\ Cardinality(jobs) <= Cardinality(Owners(jobs))
        BY JobsCounted DEF Inv
    <2>6. Service!Jobs("waiting") \subseteq Requests
        BY DEF Service!Jobs
    <2>7. /\ Cardinality(Owners(jobs)) <= Cardinality(Service!Jobs("waiting"))
          /\ Cardinality(Service!Jobs("waiting")) \in Nat
        BY <2>4, <2>6, RequestsCounted, FS_Subset
    <2>8. Cardinality(Service!Jobs("waiting")) >= RequestLimit
        BY <1>6, <2>5, <2>7, WorkHandlerAssumption
    <2>9. Service!Refuse(r)
        BY <1>2, <1>3, <2>2, <2>3, <2>8
           DEF Service!Refuse, askedOf, jobOf, Cardinality, Service!Cardinality
    <2> QED BY <2>9
<1> QED BY <1>5, <1>6

(* A client sees nothing of the steps that lead up to an answer. *)
LEMMA UnseenMaps ==
    ASSUME Inv, (\E r \in Requests : RequestStep(r)) \/ (\E w \in Workers : WorkerStep(w)),
           UNCHANGED <<replies, worked>>, Accepted' = Accepted, Waiters' = Waiters
    PROVE  UNCHANGED Service!serviceVars
<1>1. askedOf' = askedOf
    BY AskedStays DEF Inv
<1>2. jobOf' = jobOf
    BY JobOfIs DEF Worked
<1> QED BY <1>1, <1>2 DEF Service!serviceVars, askedOf, jobOf

(* Each step of a request's handler is one of WorkService, or unseen. *)
LEMMA RequestMaps ==
    ASSUME Inv, NEW r \in Requests, RequestStep(r)
    PROVE  [Service!Next]_(Service!serviceVars)
<1> USE DEF Service!Next
<1>1. ASSUME UNCHANGED <<replies, jobs>>, pc[r] \notin {"created"}
      PROVE  UNCHANGED Service!serviceVars
    <2>1. Accepted' = Accepted
        BY <1>1, RequestLambdas DEF Inv, PushJob
    <2>2. Waiters' = Waiters /\ UNCHANGED worked
        BY <1>1, RequestLambdas DEF Inv, Waiters
    <2> QED BY <1>1, <2>1, <2>2, UnseenMaps
<1>2. CASE CreateJob(r)
    <2>1. pc[r] = "received" /\ op[r].kind = "generate" /\ UNCHANGED jobs
        BY <1>2 DEF CreateJob
    <2>2. CASE UNCHANGED replies
        BY <1>1, <2>1, <2>2
    <2>3. ASSUME NEW what \in {"no_device_configured", "bad_request"}, Answer(r, what)
          PROVE  Service!AnswerPlainly(r)
        <3>1. what \in Service!PlainAnswers(op[r].kind) /\ what \in ReplyKinds
            BY <2>1 DEF Service!PlainAnswers, ReplyKinds
        <3> QED BY <2>1, <2>3, <3>1, PlainMaps
    <2>4. UNCHANGED replies \/ Answer(r, "no_device_configured") \/ Answer(r, "bad_request")
        BY <1>2 DEF CreateJob
    <2> QED BY <2>2, <2>3, <2>4
<1>3. CASE PushJob(r)
    BY <1>3, PushMaps
<1>4. CASE Post(r) \/ QueueLockJobs(r) \/ QueueLockActive(r) \/ QueueCopyJobs(r)
    BY <1>1, <1>4 DEF Post, QueueLockJobs, QueueLockActive, QueueCopyJobs
<1>5. CASE AnswerAtOnce(r)
    <2>1. /\ pc[r] = "received" /\ op[r].kind \in {"validate", "invalid"} /\ UNCHANGED jobs
          /\ \/ Answer(r, "bad_request")
             \/ op[r].kind = "validate" /\ Answer(r, "valid")
        BY <1>5 DEF AnswerAtOnce
    <2>2. ASSUME NEW what \in ReplyKinds, Answer(r, what),
                 what \in Service!PlainAnswers(op[r].kind)
          PROVE  Service!AnswerPlainly(r)
        BY <2>1, <2>2, PlainMaps
    <2>3. CASE Answer(r, "bad_request")
        BY <2>1, <2>2, <2>3 DEF Service!PlainAnswers, ReplyKinds
    <2>4. CASE op[r].kind = "validate" /\ Answer(r, "valid")
        BY <2>2, <2>4 DEF Service!PlainAnswers, ReplyKinds
    <2> QED BY <2>1, <2>3, <2>4
<1>6. CASE CancelWork(r)
    <2>1. pc[r] = "received" /\ op[r].kind = "cancel" /\ jobs' \subseteq jobs
        BY <1>6 DEF CancelWork, Without
    <2>2. CASE jobs' # jobs
        BY <1>6, <2>1, <2>2, RemoveMaps DEF CancelWork
    <2>3. CASE jobs' = jobs
        <3>1. PICK what \in {"not_found", "bad_request"} : Answer(r, what)
            BY <1>6, <2>3 DEF CancelWork
        <3>2. what \in Service!PlainAnswers(op[r].kind) /\ what \in ReplyKinds
            BY <2>1 DEF Service!PlainAnswers, ReplyKinds
        <3> QED BY <2>1, <2>3, <3>1, <3>2, PlainMaps
    <2> QED BY <2>2, <2>3
<1>7. CASE ClearQueue(r)
    <2>1. pc[r] = "received" /\ op[r].kind = "clear"
        BY <1>7 DEF ClearQueue
    <2>2. CASE AllowControl
        BY <1>7, <2>1, <2>2, RemoveMaps DEF ClearQueue
    <2>3. CASE ~AllowControl
        <3>1. Answer(r, "control_denied") /\ UNCHANGED jobs
            BY <1>7, <2>3 DEF ClearQueue
        <3>2. /\ "control_denied" \in Service!PlainAnswers(op[r].kind)
              /\ "control_denied" \in ReplyKinds
            BY <2>1 DEF Service!PlainAnswers, ReplyKinds
        <3> QED BY <2>1, <3>1, <3>2, PlainMaps
    <2> QED BY <2>2, <2>3
<1>8. CASE QueueReply(r)
    <2>1. /\ pc[r] = "holds_completed" /\ op[r].kind = "queue"
          /\ Answer(r, "listing") /\ UNCHANGED jobs
        BY <1>8 DEF QueueReply, Inv, JobsInv, KindAtPlace
    <2>2. "listing" \in Service!PlainAnswers(op[r].kind) /\ "listing" \in ReplyKinds
        BY <2>1 DEF Service!PlainAnswers, ReplyKinds
    <2> QED BY <2>1, <2>2, PlainMaps
<1> QED BY <1>2, <1>3, <1>4, <1>5, <1>6, <1>7, <1>8 DEF RequestStep

(* Of a pool thread's steps the client sees the answer only. *)
LEMMA WorkerMaps ==
    ASSUME Inv, DevP!DeviceAvailable', NEW w \in Workers, WorkerStep(w)
    PROVE  [Service!Next]_(Service!serviceVars)
<1> DEFINE r == handler[w]
<1> USE DEF Service!Next
<1>1. Accepted' = Accepted /\ askedOf' = askedOf
    BY WorkerFrame, AskedStays DEF Inv
<1>2. ASSUME wpc[w] \in {"pop", "solve"}, NEW what \in ReplyKinds, Respond(r, what)
      PROVE  /\ r \in Requests /\ jobOf[r] # "none" /\ Service!Answer(r, what)
             /\ replies[r] = <<>> /\ r \in Accepted
    <2>1. r \in Requests /\ replies[r] = <<>>
        BY <1>2, HandlerUnanswered DEF Inv
    <2>2. r \in Accepted
        BY <2>1, WorkHandlerAssumption DEF Inv, ServiceInv, Lambdas
    <2>3. pc[r] # "unsent"
        BY <2>2 DEF Accepted
    <2>4. Service!Answer(r, what)
        BY <1>1, <1>2, <2>1, <2>3, AnswerMaps
    <2>5. jobOf[r] # "none"
        BY <2>1, <2>2, JobOfIs DEF StateIn
    <2> QED BY <2>1, <2>2, <2>4, <2>5
<1>3. CASE NoJobsAvailable(w)
    <2>1. /\ wpc[w] = "pop" /\ jobs = {} /\ Respond(r, "no_jobs")
          /\ UNCHANGED <<jobs, worked>>
        BY <1>3 DEF NoJobsAvailable
    <2>2. /\ r \in Requests /\ jobOf[r] # "none" /\ Service!Answer(r, "no_jobs")
          /\ replies[r] = <<>>
        BY <1>2, <2>1 DEF ReplyKinds
    <2>3. Taken' = Taken
        BY <1>3, <2>1, WorkerJobs DEF Inv, ServiceInv, Solve, NoJobsAvailable, PopJob, Tops
    <2>4. jobOf' = jobOf
        BY <1>1, <2>1, <2>3, JobOfIs DEF Waiters, Worked
    <2>5. Cardinality(Service!Told("no_jobs")) < Cardinality(Untaken)
        <3>1. r \in Spare /\ r \notin Service!Told("no_jobs")
            BY <2>1, <2>2, NoneTold DEF Spare, Pending
        <3>2. Spare \subseteq Requests
            BY PendingFinite DEF Inv, Spare, Service!Told
        <3>3. /\ IsFiniteSet(Spare \ {r}) /\ Cardinality(Spare \ {r}) = Cardinality(Spare) - 1
              /\ Cardinality(Spare) \in Nat
            BY <3>1, <3>2, RequestsCounted, FS_RemoveElement
        <3>4. Service!Told("no_jobs") \subseteq Spare \ {r}
            BY <3>1 DEF Spare
        <3>5. /\ Cardinality(Service!Told("no_jobs")) <= Cardinality(Spare \ {r})
              /\ Cardinality(Service!Told("no_jobs")) \in Nat
            BY <3>3, <3>4, FS_Subset, FS_CardinalityType
        <3> QED BY <3>3, <3>5 DEF Inv, ServiceInv
    <2>6. Untaken = Service!Jobs("removed")
        <3>1. Owners(jobs) = {}
            BY <2>1 DEF Owners
        <3> QED BY <3>1, JobOfIs, WaitersUnworked
                DEF Inv, Untaken, Waiters, Service!Jobs, jobOf, StateIn
    <2>7. Service!NoJobs(r)
        BY <2>1, <2>2, <2>4, <2>5, <2>6
           DEF Service!NoJobs, jobOf, Cardinality, Service!Cardinality
    <2> QED BY <2>2, <2>7
<1>4. CASE Solve(w)
    <2> DEFINE s == current[w].req
    <2>1. /\ wpc[w] = "solve" /\ Respond(r, "work") /\ worked' = [worked EXCEPT ![r] = s]
        BY <1>4 DEF Solve
    <2>2. r \in Requests /\ jobOf[r] # "none" /\ Service!Answer(r, "work")
        BY <1>2, <2>1 DEF ReplyKinds
    <2>3. /\ s \in Taken /\ Taken' = Taken \ {s} /\ UNCHANGED jobs
          /\ Worked' = Worked \cup {s}
        BY <1>4, WorkerJobs DEF Inv, ServiceInv, Solve, PopJob
    <2>4. /\ s \in Waiters /\ s \in Requests /\ s \in Accepted /\ Waiters' = Waiters \ {s}
        BY <2>3, WaitersUnworked DEF Inv, Waiters
    <2>5. jobOf' = [jobOf EXCEPT ![s] = "worked"] /\ jobOf[s] = "waiting"
        BY <1>1, <2>3, <2>4, JobOfIs DEF StateIn
    <2>6. Service!SendWork(r)
        BY <2>1, <2>2, <2>4, <2>5 DEF Service!SendWork, Service!Jobs, jobOf
    <2> QED BY <2>2, <2>6
<1>5. CASE ~NoJobsAvailable(w) /\ ~Solve(w)
    <2>1. UNCHANGED <<replies, worked>>
        <3>1. CASE Acquire(w)
            <4>1. cursor'[w] # Dev!End
                BY DEF DevP!DeviceAvailable, Dev!End, DevP!End
            <4> QED BY <3>1, <4>1 DEF Acquire
        <3>2. CASE ~Acquire(w)
            BY <1>5, <3>2 DEF WorkerStep, Take, PopJob, Activate, ReleaseDevice, LockActive,
                              Complete, requestVars
        <3> QED BY <3>1, <3>2
    <2>2. Waiters' = Waiters
        BY <1>5, WorkerJobs DEF Inv, ServiceInv, Waiters
    <2> QED BY <1>1, <2>1, <2>2, UnseenMaps
<1> QED BY <1>3, <1>4, <1>5

(***************************************************************************)
(* The work_handler keeps its promises to the clients, whatever the number *)
(* of requests, threads and devices: each step does to the answers and the *)
(* jobs what one action of WorkService allows, or nothing.                 *)
(***************************************************************************)
THEOREM ServiceImplemented == Spec => ServiceProvided
<1>1. Init => Service!Init
    <2> SUFFICES ASSUME Init
                 PROVE  Service!Init
        OBVIOUS
    <2>1. \A r \in Requests : pc[r] = "unsent"
        BY DEF Init
    <2>2. askedOf = [r \in Requests |-> None]
        BY <2>1 DEF askedOf
    <2>3. jobOf = [r \in Requests |-> "none"]
        BY <2>1 DEF jobOf, JobState
    <2> QED BY <2>2, <2>3 DEF Init, Service!Init, askedOf, jobOf
<1>2. Inv /\ DevP!DeviceAvailable' /\ [Next]_vars => [Service!Next]_(Service!serviceVars)
    <2>1. ASSUME UNCHANGED vars
          PROVE  UNCHANGED Service!serviceVars
        <3>1. UNCHANGED <<pc, op, replies, worked, jobs, wpc, current>>
            BY <2>1 DEF vars, requestVars, workerVars
        <3> QED BY <3>1 DEF Service!serviceVars, JobState, Refused, Waiting
    <2>2. ASSUME Inv, NEW r \in Requests, Receive(r)
          PROVE  Service!Next
        BY <2>2, ReceiveMaps DEF Service!Next
    <2> QED BY <2>1, <2>2, RequestMaps, WorkerMaps DEF Next, Quiescent
<1>3. TypeInv /\ RepliesInv /\ JobsInv /\ ServiceInv => Inv
    BY DEF Inv
<1> QED BY <1>1, <1>2, <1>3, TypeInvariant, RepliesInvariant, JobsInvariant, ServiceInvariant,
           DevicesSound, PTL DEF Spec, ServiceProvided, Service!Spec
===============================================================================
