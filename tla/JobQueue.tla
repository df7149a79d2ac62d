------------------------------- MODULE JobQueue -------------------------------
(***************************************************************************)
(* Jobs and the containers work_handler keeps them in: the priority queue  *)
(* `jobs`, the std::set `active_jobs` and the circular buffer              *)
(* `completed_jobs`.  This module holds the operators; the state is in     *)
(* WorkHandler.                                                            *)
(*                                                                         *)
(* A job carries the request that created it.  The code keeps no such      *)
(* field: it names the job in the properties, and no operator reads it.    *)
(***************************************************************************)
EXTENDS Integers, Sequences, FiniteSets, Functions

CONSTANTS
    Requests,            \* the requests clients send
    Hashes,              \* root hashes, as parsed from a request
    Priorities,          \* values of a request's priority field
    IdSpace,             \* job_id is unsigned: ids are numbers modulo IdSpace
    CompletedCapacity    \* capacity of completed_jobs

ASSUME JobQueueAssumption ==
    /\ IsFiniteSet(Requests)
    /\ Priorities \subseteq Nat
    /\ 0 \in Priorities
    /\ IdSpace \in Nat \ {0}
    /\ CompletedCapacity \in Nat \ {0}

Job == [req : Requests, hash : Hashes, priority : Priorities, id : 0 .. IdSpace - 1]

(***************************************************************************)
(* job::comparator, a strict weak order for which the "largest" element is *)
(* the next to run: the highest priority, and the lowest id within it.     *)
(***************************************************************************)
comparator(job1, job2) ==
    IF job1.priority # job2.priority
    THEN job2.priority > job1.priority
    ELSE job1.id > job2.id

Equivalent(job1, job2) == ~comparator(job1, job2) /\ ~comparator(job2, job1)

\* The jobs std::priority_queue::top () may return.
Tops(queue) == {j \in queue : \A k \in queue : ~comparator(j, k)}

\* remove_job rebuilds the queue without the jobs for one root hash.
Without(queue, hash) == {j \in queue : j.hash # hash}

(***************************************************************************)
(* std::set<.., job::comparator>: inserting next to an equivalent element  *)
(* does nothing, and erasing by key removes the equivalent element.        *)
(***************************************************************************)
SetInsert(set, job) ==
    IF \E k \in set : Equivalent(job, k) THEN set ELSE set \cup {job}

SetErase(set, job) == {k \in set : ~Equivalent(job, k)}

\* boost::circular_buffer::push_back overwrites the oldest element when full.
PushBack(buffer, job) ==
    IF Len(buffer) < CompletedCapacity
    THEN Append(buffer, job)
    ELSE Append(Tail(buffer), job)
===============================================================================
