------------------------------ MODULE WorkService ------------------------------
(***************************************************************************)
(* What a work_handler promises its clients, whatever its threads do: each *)
(* request gets one answer, of a kind it can be given; a job is worked on  *)
(* once or removed, never both; a request hears of a limit or of missing   *)
(* jobs only with a reason.  There are no threads, locks or devices here.  *)
(*                                                                         *)
(* Whose work a request is sent is left open: the work_handler promises it *)
(* no more than that the work is some request's that nobody else is sent.  *)
(***************************************************************************)
EXTENDS Integers, Sequences, FiniteSets

CONSTANTS Requests, Kinds, RequestLimit, None

VARIABLES
    asked,     \* the kind of each request, or None before it arrives
    answers,   \* what each has been answered
    job,       \* the job of a request: none, waiting, removed or worked
    sentWork   \* whose job the work in the answer belongs to, or None

serviceVars == <<asked, answers, job, sentWork>>

Init ==
    /\ asked = [r \in Requests |-> None]
    /\ answers = [r \in Requests |-> <<>>]
    /\ job = [r \in Requests |-> "none"]
    /\ sentWork = [r \in Requests |-> None]

Jobs(state) == {r \in Requests : job[r] = state}
Told(what)  == {r \in Requests : answers[r] = <<what>>}

\* The answers that change nothing else, for each kind of request.
PlainAnswers(kind) ==
    CASE kind = "generate" -> {"bad_request", "no_device_configured"}
      [] kind = "validate" -> {"valid", "bad_request"}
      [] kind = "invalid"  -> {"bad_request"}
      [] kind = "cancel"   -> {"not_found", "bad_request"}
      [] kind = "queue"    -> {"listing"}
      [] kind = "clear"    -> {"control_denied"}

Arrive(r) ==
    /\ asked[r] = None
    /\ \E kind \in Kinds : asked' = [asked EXCEPT ![r] = kind]
    /\ UNCHANGED <<answers, job, sentWork>>

Answer(r, what) ==
    /\ asked[r] # None
    /\ answers[r] = <<>>
    /\ answers' = [answers EXCEPT ![r] = <<what>>]
    /\ UNCHANGED asked

AnswerPlainly(r) ==
    /\ asked[r] # None
    /\ \E what \in PlainAnswers(asked[r]) : Answer(r, what)
    /\ job[r] = "none"
    /\ UNCHANGED <<job, sentWork>>

Accept(r) ==
    /\ asked[r] = "generate"
    /\ answers[r] = <<>>
    /\ job[r] = "none"
    /\ job' = [job EXCEPT ![r] = "waiting"]
    /\ UNCHANGED <<asked, answers, sentWork>>

Refuse(r) ==
    /\ asked[r] = "generate"
    /\ job[r] = "none"
    /\ Cardinality(Jobs("waiting")) >= RequestLimit
    /\ Answer(r, "limit_exceeded")
    /\ UNCHANGED <<job, sentWork>>

(* Jobs that wait are cancelled, some at least, or cleared. *)
Remove(r) ==
    /\ \E S \in SUBSET Jobs("waiting") :
          /\ job' = [s \in Requests |-> IF s \in S THEN "removed" ELSE job[s]]
          /\ \/ asked[r] = "cancel" /\ S # {} /\ Answer(r, "cancelled")
             \/ asked[r] = "clear" /\ Answer(r, "cleared")
    /\ UNCHANGED sentWork

SendWork(r) ==
    /\ job[r] # "none"
    /\ \E s \in Jobs("waiting") :
          /\ job' = [job EXCEPT ![s] = "worked"]
          /\ sentWork' = [sentWork EXCEPT ![r] = s]
    /\ Answer(r, "work")

\* Each removed job excuses one such answer.
NoJobs(r) ==
    /\ job[r] # "none"
    /\ Cardinality(Told("no_jobs")) < Cardinality(Jobs("removed"))
    /\ Answer(r, "no_jobs")
    /\ UNCHANGED <<job, sentWork>>

Next ==
    \E r \in Requests :
        Arrive(r) \/ AnswerPlainly(r) \/ Accept(r) \/ Refuse(r) \/ Remove(r)
            \/ SendWork(r) \/ NoJobs(r)

Spec == Init /\ [][Next]_serviceVars
===============================================================================
