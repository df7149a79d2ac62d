------------------------------ MODULE WebUI_proofs ------------------------------
(***************************************************************************)
(* Proofs about the admin UI, for any intervals, any time a ping may take  *)
(* and any number of requests: types, how soon the page says whether the   *)
(* server is there, and what the spinner means.                            *)
(***************************************************************************)
EXTENDS WebUI, WellFoundedInduction, TLAPS

(* A set of numbers that is not empty has a least one: the form of         *)
(* induction that the proofs about Doubled use.                            *)
LEMMA LeastNumber ==
    ASSUME NEW T, T \subseteq Nat, T # {}
    PROVE  \E m \in T : \A n \in T : m <= n
<1> DEFINE R == {ss \in Nat \X Nat : ss[1] < ss[2]}
<1>1. OpToRel(<, Nat) = R
    BY DEF OpToRel
<1>2. IsWellFoundedOn(R, Nat)
    BY <1>1, NatLessThanWellFounded
<1> HIDE DEF R
<1>3. PICK m \in T : \A n \in T : <<n, m>> \notin R
    BY <1>2, WFMin
<1>4. ASSUME NEW n \in T PROVE m <= n
    <2>1. m \in Nat /\ n \in Nat
        OBVIOUS
    <2>2. n < m => <<n, m>> \in {ss \in Nat \X Nat : ss[1] < ss[2]}
        BY <2>1, Z3
    <2>3. ~(n < m)
        BY <1>3, <2>2 DEF R
    <2> QED
        BY <2>1, <2>3
<1> QED
    BY <1>4

-------------------------------------------------------------------------------
(* The equation by which Doubled is defined. *)
IsDoubled(f, from) ==
    \A n \in Nat \ {0} : n >= from =>
        f[n] = IF n < BackOffLimit THEN f[2 * n] ELSE n

(* There is such a function: where it is given from some number on, it can *)
(* be given for the number before as well, as that doubled is not smaller. *)
LEMMA DoubledExists == \E f : f = [n \in Nat \ {0} |-> IF n < BackOffLimit THEN f[2 * n] ELSE n]
<1> DEFINE From == {k \in Nat : \E f \in [Nat \ {0} -> Nat] : IsDoubled(f, k)}
<1>0. BackOffLimit \in Nat
    BY WebUIAssumption
<1>1. BackOffLimit \in From
    <2> DEFINE id == [n \in Nat \ {0} |-> n]
    <2>1. id \in [Nat \ {0} -> Nat]
        OBVIOUS
    <2>2. IsDoubled(id, BackOffLimit)
        BY <1>0 DEF IsDoubled
    <2> QED
        BY <1>0, <2>1, <2>2
<1>2. PICK m \in From : \A k \in From : m <= k
    <2>1. From \subseteq Nat /\ From # {}
        BY <1>1
    <2> HIDE DEF From
    <2> QED
        BY <2>1, LeastNumber
<1>3. PICK f \in [Nat \ {0} -> Nat] : IsDoubled(f, m)
    BY <1>2
<1>4. m <= 1
    <2> SUFFICES ASSUME ~(m <= 1) PROVE FALSE
        OBVIOUS
    <2>1. m \in Nat /\ m - 1 \in Nat \ {0} /\ 2 * (m - 1) >= m /\ 2 * (m - 1) \in Nat \ {0}
        BY <1>2
    <2> DEFINE g == [n \in Nat \ {0} |->
                        IF n = m - 1 THEN IF n < BackOffLimit THEN f[2 * n] ELSE n ELSE f[n]]
    <2>2. g \in [Nat \ {0} -> Nat]
        BY <2>1
    <2>3. ASSUME NEW n \in Nat \ {0}, n >= m - 1
          PROVE  g[n] = IF n < BackOffLimit THEN g[2 * n] ELSE n
        <3>1. 2 * n \in Nat \ {0} /\ 2 * n # m - 1
            BY <2>1, <2>3
        <3>2. g[2 * n] = f[2 * n]
            BY <3>1
        <3>3. CASE n = m - 1
            BY <3>2, <3>3
        <3>4. CASE n # m - 1
            <4>1. n >= m
                BY <2>1, <2>3, <3>4
            <4> QED
                BY <1>3, <3>2, <3>4, <4>1 DEF IsDoubled
        <3> QED
            BY <3>3, <3>4
    <2> HIDE DEF g
    <2>4. IsDoubled(g, m - 1)
        BY <2>3 DEF IsDoubled
    <2>5. m - 1 \in From
        BY <2>1, <2>2, <2>4
    <2> QED
        BY <1>2, <2>1, <2>5
<1>5. f = [n \in Nat \ {0} |-> IF n < BackOffLimit THEN f[2 * n] ELSE n]
    BY <1>2, <1>3, <1>4 DEF IsDoubled
<1> QED
    BY <1>5

LEMMA DoubledUnfold ==
    ASSUME NEW n \in Nat \ {0}
    PROVE  Doubled[n] = IF n < BackOffLimit THEN Doubled[2 * n] ELSE n
<1>1. Doubled = [k \in Nat \ {0} |-> IF k < BackOffLimit THEN Doubled[2 * k] ELSE k]
    BY DoubledExists DEF Doubled
<1> QED
    BY <1>1

(* What an interval is doubled to is not less. *)
LEMMA DoubledGrows ==
    ASSUME NEW n \in Nat \ {0}
    PROVE  Doubled[n] \in Nat /\ Doubled[n] >= n
<1> DEFINE Bad == {d \in Nat : \E k \in Nat \ {0} :
                      d = BackOffLimit - k /\ ~(Doubled[k] \in Nat /\ Doubled[k] >= k)}
<1>0. BackOffLimit \in Nat
    BY WebUIAssumption
<1>1. ASSUME NEW k \in Nat \ {0}, k >= BackOffLimit
      PROVE  Doubled[k] \in Nat /\ Doubled[k] >= k
    BY <1>0, <1>1, DoubledUnfold
<1>2. Bad = {}
    <2> SUFFICES ASSUME Bad # {} PROVE FALSE
        OBVIOUS
    <2>1. PICK d \in Bad : \A e \in Bad : d <= e
        <3>1. Bad \subseteq Nat
            OBVIOUS
        <3> HIDE DEF Bad
        <3> QED
            BY <3>1, LeastNumber
    <2>2. PICK k \in Nat \ {0} : d = BackOffLimit - k /\ ~(Doubled[k] \in Nat /\ Doubled[k] >= k)
        BY <2>1
    <2>3. k < BackOffLimit
        BY <1>0, <1>1, <2>2
    <2>4. Doubled[k] = Doubled[2 * k] /\ 2 * k \in Nat \ {0} /\ 2 * k > k
        BY <2>3, DoubledUnfold
    <2>5. ~(Doubled[2 * k] \in Nat /\ Doubled[2 * k] >= 2 * k)
        BY <2>2, <2>4
    <2>6. 2 * k < BackOffLimit
        BY <1>0, <1>1, <2>4, <2>5
    <2>7. BackOffLimit - 2 * k \in Bad
        BY <1>0, <2>4, <2>5, <2>6
    <2> QED
        BY <1>0, <2>1, <2>2, <2>4, <2>7
<1> QED
    <2>1. CASE n >= BackOffLimit
        BY <1>1, <2>1
    <2>2. CASE n < BackOffLimit
        <3>1. BackOffLimit - n \in Nat
            BY <1>0, <2>2
        <3> QED
            BY <1>2, <3>1
    <2> QED
        BY <1>0, <2>1, <2>2

-------------------------------------------------------------------------------
\* The longest the interval becomes.
Longest == Doubled[Interval]

\* The interval is one that doubling leads to, and on the way to the longest.
IntervalInv ==
    /\ status_interval \in Nat /\ status_interval >= Interval
    /\ Doubled[status_interval] = Longest

StatusTypes ==
    /\ up \in BOOLEAN /\ steady \in 0 .. Settled
    /\ statusTimer \in 0 .. Longest
    /\ pings \subseteq [age : 0 .. Latency, result : {"none", "done", "fail"}]
    /\ status_network \in BOOLEAN
    /\ IntervalInv

\* The result of a ping is not that of one sent now.
Outdated(p) == p.result = IF up THEN "fail" ELSE "done"

\* The page says what the server is, and asks as often as it should.
Right == status_network = ~up /\ (up => status_interval = Interval)

\* A result from before the server changed is from a ping as old as that.
OutdatedAreOld == \A p \in pings : Outdated(p) => p.age >= steady

(***************************************************************************)
(* From the time on when no such result can come any more, either the page *)
(* is right, or a ping that will make it so was sent in time, or is to be. *)
(***************************************************************************)
FeedbackComing ==
    \/ steady > Latency /\ Right
    \/ \E p \in pings : ~Outdated(p) /\ p.age + Longest + Latency >= steady
    \/ steady + statusTimer <= Longest + Latency

StatusInv == StatusTypes /\ OutdatedAreOld /\ FeedbackComing

LEMMA ConstantFacts ==
    /\ Interval \in Nat \ {0} /\ BackOffLimit \in Nat /\ Latency \in Nat
    /\ Longest \in Nat /\ Longest >= Interval
    /\ Settled = Longest + 2 * Latency + 1 /\ Settled \in Nat
<1>1. Interval \in Nat \ {0} /\ BackOffLimit \in Nat /\ Latency \in Nat
    BY WebUIAssumption
<1>2. Longest \in Nat /\ Longest >= Interval
    BY <1>1, DoubledGrows DEF Longest
<1> QED
    BY <1>1, <1>2 DEF Settled, Longest

(* The interval is never longer than the longest. *)
LEMMA IntervalBounded ==
    ASSUME IntervalInv
    PROVE  status_interval \in Interval .. Longest
<1>1. status_interval \in Nat \ {0} /\ Longest \in Nat
    BY ConstantFacts DEF IntervalInv
<1>2. Doubled[status_interval] >= status_interval
    BY <1>1, DoubledGrows
<1> QED
    BY <1>1, <1>2, ConstantFacts DEF IntervalInv

(* Backing off leads on along the same way (app.js:143). *)
LEMMA BackedOffOnTheWay ==
    ASSUME NEW n \in Nat, n >= Interval, Doubled[n] = Longest
    PROVE  /\ BackedOff(n) \in Nat /\ BackedOff(n) >= Interval
           /\ Doubled[BackedOff(n)] = Longest
<1>1. n \in Nat \ {0}
    BY ConstantFacts
<1>2. CASE n < BackOffLimit
    <2>1. BackedOff(n) = 2 * n
        BY <1>2 DEF BackedOff
    <2> QED
        BY <1>1, <1>2, <2>1, DoubledUnfold, ConstantFacts
<1>3. CASE ~(n < BackOffLimit)
    BY <1>3 DEF BackedOff
<1> QED
    BY <1>2, <1>3

LEMMA StatusInit == Init => StatusInv
<1> SUFFICES ASSUME Init PROVE StatusInv
    OBVIOUS
<1>1. IntervalInv
    BY ConstantFacts DEF Init, IntervalInv, Longest
<1>2. /\ steady \in 0 .. Settled /\ statusTimer \in 0 .. Longest
      /\ pings \subseteq [age : 0 .. Latency, result : {"none", "done", "fail"}]
    BY ConstantFacts DEF Init
<1>3. StatusTypes
    BY <1>1, <1>2 DEF Init, StatusTypes
<1> QED
    BY <1>3, ConstantFacts DEF Init, StatusInv, OutdatedAreOld, FeedbackComing

(* A server that comes or goes starts the time again, and the next ping is *)
(* no later than the longest interval from then.                           *)
LEMMA ChangeStatus ==
    ASSUME StatusInv, up' \in BOOLEAN, steady' = 0, UNCHANGED status
    PROVE  StatusInv'
<1> USE DEF StatusInv, status
<1>1. StatusTypes'
    <2>1. /\ steady' \in 0 .. Settled /\ statusTimer' \in 0 .. Longest
          /\ pings' \subseteq [age : 0 .. Latency, result : {"none", "done", "fail"}]
        BY ConstantFacts DEF StatusTypes
    <2>2. status_network' \in BOOLEAN /\ up' \in BOOLEAN
        BY DEF StatusTypes
    <2>3. IntervalInv'
        BY DEF StatusTypes, IntervalInv
    <2> QED
        BY <2>1, <2>2, <2>3 DEF StatusTypes
<1>2. OutdatedAreOld'
    <2>1. ASSUME NEW p \in pings PROVE p.age >= 0
        BY ConstantFacts DEF StatusTypes
    <2> QED
        BY <2>1 DEF OutdatedAreOld
<1>3. FeedbackComing'
    BY ConstantFacts DEF FeedbackComing, StatusTypes
<1> QED
    BY <1>1, <1>2, <1>3

LEMMA NoChangeStatus ==
    ASSUME StatusInv, UNCHANGED <<up, steady, status>>
    PROVE  StatusInv'
BY DEF StatusInv, StatusTypes, IntervalInv, OutdatedAreOld, FeedbackComing, Outdated, Right, status

(* What the handlers of the status poll and the clock do. *)
LEMMA SendStatus == StatusInv /\ update_status_loop => StatusInv'
<1> SUFFICES ASSUME StatusInv, update_status_loop PROVE StatusInv'
    OBVIOUS
<1> DEFINE new == [age |-> 0, result |-> "none"]
<1>1. /\ statusTimer = 0 /\ pings' = pings \cup {new} /\ statusTimer' = status_interval
      /\ UNCHANGED <<up, steady, status_interval, status_network>>
    BY DEF update_status_loop, server
<1>2. new \in [age : 0 .. Latency, result : {"none", "done", "fail"}]
    BY ConstantFacts
<1>3. StatusTypes'
    <2>1. statusTimer' \in 0 .. Longest
        BY <1>1, IntervalBounded, ConstantFacts DEF StatusInv, StatusTypes
    <2>2. pings' \subseteq [age : 0 .. Latency, result : {"none", "done", "fail"}]
        BY <1>1, <1>2 DEF StatusInv, StatusTypes
    <2> QED
        BY <1>1, <2>1, <2>2 DEF StatusInv, StatusTypes, IntervalInv
<1>4. OutdatedAreOld'
    BY <1>1 DEF StatusInv, OutdatedAreOld, Outdated
<1>5. FeedbackComing'
    <2>1. CASE steady > Latency /\ Right
        BY <1>1, <2>1 DEF FeedbackComing, Right
    <2>2. CASE \E p \in pings : ~Outdated(p) /\ p.age + Longest + Latency >= steady
        BY <1>1, <2>2 DEF FeedbackComing, Outdated
    <2>3. CASE steady + statusTimer <= Longest + Latency
        <3>1. new.age + Longest + Latency >= steady
            BY <1>1, <2>3, ConstantFacts DEF StatusInv, StatusTypes
        <3>2. new \in pings' /\ ~Outdated(new)'
            BY <1>1 DEF Outdated
        <3>3. steady' = steady
            BY <1>1
        <3> QED
            BY <3>1, <3>2, <3>3 DEF FeedbackComing
    <2> QED
        BY <2>1, <2>2, <2>3 DEF StatusInv, FeedbackComing
<1> QED
    BY <1>3, <1>4, <1>5 DEF StatusInv

LEMMA ReachStatus == StatusInv /\ PingReaches => StatusInv'
<1> SUFFICES ASSUME StatusInv, PingReaches PROVE StatusInv'
    OBVIOUS
<1>1. PICK p \in pings :
          pings' = (pings \ {p}) \cup {[p EXCEPT !.result = IF up THEN "done" ELSE "fail"]}
    BY DEF PingReaches
<1> DEFINE new == [p EXCEPT !.result = IF up THEN "done" ELSE "fail"]
<1>2. UNCHANGED <<up, steady, status_interval, statusTimer, status_network>>
    BY DEF PingReaches, server
<1>3. /\ p \in [age : 0 .. Latency, result : {"none", "done", "fail"}]
      /\ new \in [age : 0 .. Latency, result : {"none", "done", "fail"}]
      /\ new.age = p.age /\ new.result = IF up THEN "done" ELSE "fail"
    BY DEF StatusInv, StatusTypes
<1>4. pings' = (pings \ {p}) \cup {new}
    BY <1>1
<1> HIDE DEF new
<1>5. StatusTypes'
    <2>1. pings' \subseteq [age : 0 .. Latency, result : {"none", "done", "fail"}]
        BY <1>3, <1>4 DEF StatusInv, StatusTypes
    <2> QED
        BY <1>2, <2>1 DEF StatusInv, StatusTypes, IntervalInv
<1>6. ~Outdated(new)
    BY <1>3 DEF Outdated
<1>7. OutdatedAreOld'
    BY <1>2, <1>4, <1>6 DEF StatusInv, OutdatedAreOld, Outdated
<1>8. FeedbackComing'
    <2>1. CASE steady > Latency /\ Right
        BY <1>2, <2>1 DEF FeedbackComing, Right
    <2>2. CASE \E q \in pings : ~Outdated(q) /\ q.age + Longest + Latency >= steady
        <3>1. PICK q \in pings : ~Outdated(q) /\ q.age + Longest + Latency >= steady
            BY <2>2
        <3>2. CASE q = p
            <4>1. new.age + Longest + Latency >= steady
                BY <1>3, <3>1, <3>2
            <4> QED
                BY <1>2, <1>4, <1>6, <4>1 DEF FeedbackComing, Outdated
        <3>3. CASE q # p
            BY <1>2, <1>4, <3>1, <3>3 DEF FeedbackComing, Outdated
        <3> QED
            BY <3>2, <3>3
    <2>3. CASE steady + statusTimer <= Longest + Latency
        BY <1>2, <2>3 DEF FeedbackComing
    <2> QED
        BY <2>1, <2>2, <2>3 DEF StatusInv, FeedbackComing
<1> QED
    BY <1>5, <1>7, <1>8 DEF StatusInv

(* When no outdated result can come any more, each result puts the page    *)
(* right; until then the next ping is still in time.                       *)
LEMMA EndStatus == StatusInv /\ PingEnds => StatusInv'
<1> SUFFICES ASSUME StatusInv, PingEnds PROVE StatusInv'
    OBVIOUS
<1>1. PICK p \in pings :
          /\ p.result # "none"
          /\ pings' = pings \ {p}
          /\ status_network' = (p.result = "fail")
          /\ status_interval' =
                IF p.result = "fail" THEN BackedOff(status_interval) ELSE Interval
    BY DEF PingEnds
<1>2. UNCHANGED <<up, steady, statusTimer>>
    BY DEF PingEnds, server
<1>3. p \in [age : 0 .. Latency, result : {"none", "done", "fail"}]
    BY DEF StatusInv, StatusTypes
<1>4. StatusTypes'
    <2>1. IntervalInv'
        <3>1. CASE p.result = "fail"
            BY <1>1, <3>1, BackedOffOnTheWay DEF StatusInv, StatusTypes, IntervalInv
        <3>2. CASE p.result # "fail"
            BY <1>1, <3>2, ConstantFacts DEF IntervalInv, Longest
        <3> QED
            BY <3>1, <3>2
    <2>2. status_network' \in BOOLEAN
        BY <1>1
    <2>3. pings' \subseteq [age : 0 .. Latency, result : {"none", "done", "fail"}]
        BY <1>1 DEF StatusInv, StatusTypes
    <2> QED
        BY <1>2, <2>1, <2>2, <2>3 DEF StatusInv, StatusTypes
<1>5. OutdatedAreOld'
    BY <1>1, <1>2 DEF StatusInv, OutdatedAreOld, Outdated
<1>6. FeedbackComing'
    <2>0. steady \in Nat /\ statusTimer \in 0 .. Longest /\ up \in BOOLEAN
        BY ConstantFacts DEF StatusInv, StatusTypes
    <2>1. CASE steady > Latency
        <3>1. ~Outdated(p)
            BY <1>3, <2>0, <2>1, ConstantFacts DEF StatusInv, OutdatedAreOld
        <3>2. p.result = IF up THEN "done" ELSE "fail"
            BY <1>1, <1>3, <3>1 DEF Outdated
        <3>3. up => status_interval' = Interval
            BY <1>1, <3>2
        <3>4. status_network' = ~up
            BY <1>1, <3>2
        <3>5. Right'
            BY <1>2, <3>3, <3>4 DEF Right
        <3>6. steady' > Latency
            BY <1>2, <2>1
        <3> QED
            BY <3>5, <3>6 DEF FeedbackComing
    <2>2. CASE ~(steady > Latency)
        <3>1. steady' + statusTimer' <= Longest + Latency
            BY <1>2, <2>0, <2>2, ConstantFacts
        <3> QED
            BY <3>1 DEF FeedbackComing
    <2> QED
        BY <2>1, <2>2
<1> QED
    BY <1>4, <1>5, <1>6 DEF StatusInv

LEMMA TickStatus == StatusInv /\ Tick => StatusInv'
<1> SUFFICES ASSUME StatusInv, Tick PROVE StatusInv'
    OBVIOUS
<1>1. /\ statusTimer > 0 /\ statusTimer' = statusTimer - 1
      /\ \A p \in pings : p.age < Latency
      /\ pings' = {[p EXCEPT !.age = @ + 1] : p \in pings}
      /\ steady' = IF steady < Settled THEN steady + 1 ELSE steady
      /\ UNCHANGED <<up, status_interval, status_network>>
    BY DEF Tick
<1>2. /\ steady \in 0 .. Settled /\ statusTimer \in 0 .. Longest /\ up \in BOOLEAN
      /\ pings \subseteq [age : 0 .. Latency, result : {"none", "done", "fail"}]
    BY DEF StatusInv, StatusTypes
<1>3. /\ steady' \in 0 .. Settled /\ steady <= steady' /\ steady' <= steady + 1
      /\ statusTimer' \in 0 .. Longest
    BY <1>1, <1>2, ConstantFacts
<1>4. ASSUME NEW p \in pings
      PROVE  /\ [p EXCEPT !.age = @ + 1] \in [age : 0 .. Latency, result : {"none", "done", "fail"}]
             /\ [p EXCEPT !.age = @ + 1] \in pings'
             /\ [p EXCEPT !.age = @ + 1].age = p.age + 1
             /\ [p EXCEPT !.age = @ + 1].result = p.result
             /\ p.age \in Nat
    BY <1>1, <1>2, <1>4, ConstantFacts
<1>5. StatusTypes'
    <2>1. pings' \subseteq [age : 0 .. Latency, result : {"none", "done", "fail"}]
        BY <1>1, <1>4
    <2> QED
        BY <1>1, <1>3, <2>1 DEF StatusInv, StatusTypes, IntervalInv
<1>6. OutdatedAreOld'
    <2> SUFFICES ASSUME NEW q \in pings', Outdated(q)' PROVE q.age >= steady'
        BY DEF OutdatedAreOld
    <2>1. PICK p \in pings : q = [p EXCEPT !.age = @ + 1]
        BY <1>1
    <2>2. q.age = p.age + 1 /\ q.result = p.result /\ p.age \in Nat
        BY <1>4, <2>1
    <2>3. Outdated(p)
        BY <1>1, <2>2 DEF Outdated
    <2> QED
        BY <1>2, <1>3, <2>2, <2>3, ConstantFacts DEF StatusInv, OutdatedAreOld
<1>7. FeedbackComing'
    <2>1. CASE steady > Latency /\ Right
        <3>1. Right'
            BY <1>1, <2>1 DEF Right
        <3>2. steady' > Latency
            BY <1>2, <1>3, <2>1, ConstantFacts
        <3> QED
            BY <3>1, <3>2 DEF FeedbackComing
    <2>2. CASE \E p \in pings : ~Outdated(p) /\ p.age + Longest + Latency >= steady
        <3>1. PICK p \in pings : ~Outdated(p) /\ p.age + Longest + Latency >= steady
            BY <2>2
        <3> DEFINE q == [p EXCEPT !.age = @ + 1]
        <3>2. q \in pings' /\ q.age = p.age + 1 /\ q.result = p.result /\ p.age \in Nat
            BY <1>4
        <3> HIDE DEF q
        <3>3. ~Outdated(q)'
            BY <1>1, <3>1, <3>2 DEF Outdated
        <3>4. q.age + Longest + Latency >= steady'
            BY <1>2, <1>3, <3>1, <3>2, ConstantFacts
        <3> QED
            BY <3>2, <3>3, <3>4 DEF FeedbackComing
    <2>3. CASE steady + statusTimer <= Longest + Latency
        <3>1. steady' + statusTimer' <= Longest + Latency
            BY <1>1, <1>2, <1>3, <2>3, ConstantFacts
        <3> QED
            BY <3>1 DEF FeedbackComing
    <2> QED
        BY <2>1, <2>2, <2>3 DEF StatusInv, FeedbackComing
<1> QED
    BY <1>5, <1>6, <1>7 DEF StatusInv

(* The handlers of the page leave the status poll alone; one item stops    *)
(* the server.                                                             *)
LEMMA PageKeepsStatus ==
    ASSUME PageStep
    PROVE  \/ UNCHANGED <<up, steady, status>>
           \/ up' \in BOOLEAN /\ steady' = 0 /\ UNCHANGED status
<1>1. CASE Navigate \/ QueueTimeout
    BY <1>1 DEF Navigate, QueueTimeout, queue_show, server
<1>2. CASE SpinnerTimeout
    BY <1>2 DEF SpinnerTimeout, server
<1>3. CASE \E r \in Requests : RequestReaches(r) \/ QueueFails(r) \/ QueueAnswered(r)
    BY <1>3 DEF RequestReaches, QueueFails, QueueAnswered, server
<1>4. CASE Choose \/ ClickReaches \/ ClickAnswered \/ \E a \in Areas : AreaTimeout(a)
    BY <1>4 DEF Choose, ClickReaches, ClickAnswered, AreaTimeout, server
<1> QED
    BY <1>1, <1>2, <1>3, <1>4 DEF PageStep

LEMMA StatusNext == StatusInv /\ [Next]_vars => StatusInv'
<1> SUFFICES ASSUME StatusInv, [Next]_vars PROVE StatusInv'
    OBVIOUS
<1>1. CASE StatusStep
    BY <1>1, SendStatus, ReachStatus, EndStatus, TickStatus DEF StatusStep
<1>2. CASE PageStep
    BY <1>2, PageKeepsStatus, ChangeStatus, NoChangeStatus
<1>3. CASE ServerChanges
    <2>1. up' \in BOOLEAN /\ steady' = 0 /\ UNCHANGED status
        BY <1>3 DEF ServerChanges
    <2> QED
        BY <2>1, ChangeStatus
<1>4. CASE QueueChanges \/ UNCHANGED vars
    BY <1>4, NoChangeStatus DEF QueueChanges, vars, server
<1> QED
    BY <1>1, <1>2, <1>3, <1>4 DEF Next, ServerStep

(* StatusInv holds in every state. *)
LEMMA StatusInvariant == Spec => []StatusInv
BY StatusInit, StatusNext, PTL DEF Spec

(***************************************************************************)
(* "quick feedback when the process is available again" (app.js:142): for  *)
(* every interval, back-off limit and latency, the page says whether the   *)
(* server is there once it has stayed so for the longest interval and      *)
(* twice the time of a ping.                                               *)
(***************************************************************************)
THEOREM PageSaysSoInTime == Spec => []FeedbackInTime
<1>1. StatusInv => FeedbackInTime
    <2> SUFFICES ASSUME StatusInv, steady = Settled PROVE Right
        BY DEF FeedbackInTime, Right
    <2>1. ASSUME NEW p \in pings, p.age + Longest + Latency >= steady PROVE FALSE
        <3>1. p.age \in 0 .. Latency
            BY DEF StatusInv, StatusTypes
        <3> QED
            BY <2>1, <3>1, ConstantFacts
    <2>2. ~(steady + statusTimer <= Longest + Latency)
        BY ConstantFacts DEF StatusInv, StatusTypes
    <2> QED
        BY <2>1, <2>2 DEF StatusInv, FeedbackComing
<1> QED
    BY <1>1, StatusInvariant, PTL

-------------------------------------------------------------------------------
PageTypes ==
    /\ listing \in Listings
    /\ loops \in 0 .. MaxLoops
    /\ request \in [Requests -> {"idle", "sent", "failed"} \cup Listings]
    /\ table \in Listings \cup {Nothing}
    /\ spinner_started \in BOOLEAN /\ spinner \in BOOLEAN /\ failed \in BOOLEAN
    /\ spinnerTimers \in 0 .. MaxSpinners
    /\ click \in ({"clear", "stop"} \X {"sent", "error", "success"}) \cup {Idle}
    /\ area \in [Areas -> BOOLEAN]
    /\ areaTimers \in [Areas -> 0 .. MaxTimers]

\* Also a timer that will show the spinner is set only by a request, and is
\* called off by an answer.
SpinnerInv ==
    spinner \/ spinner_started => failed \/ \E r \in Requests : request[r] # "idle"

PageInv == PageTypes /\ SpinnerInv

LEMMA PageInit == Init => PageInv
<1> SUFFICES ASSUME Init PROVE PageInv
    OBVIOUS
<1>1. /\ listing \in Listings /\ loops \in 0 .. MaxLoops /\ spinnerTimers \in 0 .. MaxSpinners
      /\ table \in Listings \cup {Nothing}
      /\ request \in [Requests -> {"idle", "sent", "failed"} \cup Listings]
      /\ areaTimers \in [Areas -> 0 .. MaxTimers]
    BY WebUIAssumption DEF Init
<1>2. /\ spinner_started \in BOOLEAN /\ spinner \in BOOLEAN /\ failed \in BOOLEAN
      /\ area \in [Areas -> BOOLEAN] /\ SpinnerInv
    BY DEF Init, SpinnerInv
<1> QED
    BY <1>1, <1>2 DEF PageInv, PageTypes, Init

(* A request is sent: it is what the spinner will mean. *)
LEMMA ShowPage ==
    ASSUME PageInv, loops' \in 0 .. MaxLoops, queue_show
    PROVE  PageInv'
<1>1. PICK r \in Requests : request[r] = "idle" /\ request' = [request EXCEPT ![r] = "sent"]
    BY DEF queue_show
<1>2. /\ spinnerTimers < MaxSpinners /\ spinnerTimers' = spinnerTimers + 1
      /\ spinner_started' = TRUE /\ spinner' = spinner
      /\ area' = [area EXCEPT !["alert"] = FALSE]
      /\ UNCHANGED <<listing, table, failed, click, areaTimers>>
    BY DEF queue_show, show_spinner, server
<1>3. /\ request' \in [Requests -> {"idle", "sent", "failed"} \cup Listings]
      /\ request'[r] # "idle"
    BY <1>1 DEF PageInv, PageTypes
<1>4. spinnerTimers' \in 0 .. MaxSpinners
    BY <1>2, WebUIAssumption DEF PageInv, PageTypes
<1>5. area' \in [Areas -> BOOLEAN] /\ spinner_started' \in BOOLEAN
    BY <1>2 DEF PageInv, PageTypes
<1>6. SpinnerInv'
    BY <1>3 DEF SpinnerInv
<1> QED
    BY <1>2, <1>3, <1>4, <1>5, <1>6 DEF PageInv, PageTypes

(* What becomes of a request. *)
LEMMA RequestPage ==
    ASSUME PageInv, NEW r \in Requests,
           RequestReaches(r) \/ QueueFails(r) \/ QueueAnswered(r)
    PROVE  PageInv'
<1>1. CASE RequestReaches(r)
    <2>1. /\ request' = [request EXCEPT ![r] = IF up THEN listing ELSE "failed"]
          /\ UNCHANGED <<listing, loops, table, spinner_started, spinnerTimers, spinner, failed,
                         click, area, areaTimers>>
        BY <1>1 DEF RequestReaches, server, menu
    <2>2. /\ request' \in [Requests -> {"idle", "sent", "failed"} \cup Listings]
          /\ request'[r] # "idle"
        BY <2>1, WebUIAssumption DEF PageInv, PageTypes
    <2>3. SpinnerInv'
        BY <2>2 DEF SpinnerInv
    <2> QED
        BY <2>1, <2>2, <2>3 DEF PageInv, PageTypes
<1>2. CASE QueueFails(r)
    <2>1. /\ request' = [request EXCEPT ![r] = "idle"] /\ failed' = TRUE
          /\ UNCHANGED <<listing, loops, table, spinner_started, spinnerTimers, spinner,
                         click, area, areaTimers>>
        BY <1>2 DEF QueueFails, server, menu
    <2>2. request' \in [Requests -> {"idle", "sent", "failed"} \cup Listings]
        BY <2>1 DEF PageInv, PageTypes
    <2>3. SpinnerInv' /\ failed' \in BOOLEAN
        BY <2>1 DEF SpinnerInv
    <2> QED
        BY <2>1, <2>2, <2>3 DEF PageInv, PageTypes
<1>3. CASE QueueAnswered(r)
    <2>1. /\ request[r] \in Listings /\ table' = request[r]
          /\ request' = [request EXCEPT ![r] = "idle"]
          /\ spinner_started' = FALSE /\ spinner' = FALSE /\ failed' = FALSE
          /\ UNCHANGED <<listing, loops, spinnerTimers, click, area, areaTimers>>
        BY <1>3 DEF QueueAnswered, hide_spinner, server, menu
    <2>2. /\ request' \in [Requests -> {"idle", "sent", "failed"} \cup Listings]
          /\ table' \in Listings \cup {Nothing}
        BY <2>1 DEF PageInv, PageTypes
    <2>3. /\ spinner_started' \in BOOLEAN /\ spinner' \in BOOLEAN /\ failed' \in BOOLEAN
          /\ SpinnerInv'
        BY <2>1 DEF SpinnerInv
    <2> QED
        BY <2>1, <2>2, <2>3 DEF PageInv, PageTypes
<1> QED
    BY <1>1, <1>2, <1>3

(* The menu and the areas for alerts and messages have no part in it. *)
LEMMA MenuPage ==
    ASSUME PageInv, Choose \/ ClickReaches \/ ClickAnswered \/ \E a \in Areas : AreaTimeout(a)
    PROVE  PageInv'
<1>1. UNCHANGED <<loops, request, table, spinner_started, spinnerTimers, spinner, failed>>
    BY DEF Choose, ClickReaches, ClickAnswered, AreaTimeout, queue
<1>2. SpinnerInv'
    BY <1>1 DEF PageInv, SpinnerInv
<1>3. listing' \in Listings
    BY DEF PageInv, PageTypes, Choose, ClickReaches, ClickAnswered, AreaTimeout, server
<1>4. click' \in ({"clear", "stop"} \X {"sent", "error", "success"}) \cup {Idle}
    <2>1. CASE Choose
        BY <2>1 DEF Choose
    <2>2. CASE ClickReaches
        <3>1. click \in {"clear", "stop"} \X {"sent", "error", "success"}
            BY <2>2 DEF ClickReaches, PageInv, PageTypes, Idle
        <3> QED
            BY <2>2, <3>1 DEF ClickReaches
    <2>3. CASE ClickAnswered \/ \E a \in Areas : AreaTimeout(a)
        BY <2>3 DEF ClickAnswered, AreaTimeout, PageInv, PageTypes
    <2> QED
        BY <2>1, <2>2, <2>3
<1>5. area' \in [Areas -> BOOLEAN]
    BY DEF PageInv, PageTypes, Choose, ClickReaches, ClickAnswered, Show, AreaTimeout
<1>6. areaTimers' \in [Areas -> 0 .. MaxTimers]
    <2>1. ASSUME NEW a \in Areas, Show(a) PROVE areaTimers' \in [Areas -> 0 .. MaxTimers]
        <3>1. /\ areaTimers["alert"] \in 0 .. MaxTimers /\ areaTimers["success"] \in 0 .. MaxTimers
              /\ areaTimers["alert"] + areaTimers["success"] < MaxTimers
              /\ a \in {"alert", "success"}
              /\ areaTimers' = [areaTimers EXCEPT ![a] = areaTimers[a] + 1]
            BY <2>1 DEF Show, PageInv, PageTypes, Areas
        <3>2. areaTimers[a] + 1 \in 0 .. MaxTimers
            BY <3>1, WebUIAssumption
        <3> QED
            BY <3>1, <3>2 DEF PageInv, PageTypes
    <2>2. CASE Choose \/ ClickReaches
        BY <2>2 DEF Choose, ClickReaches, PageInv, PageTypes
    <2>3. CASE ClickAnswered
        BY <2>1, <2>3 DEF ClickAnswered, Areas
    <2>4. ASSUME NEW a \in Areas, AreaTimeout(a) PROVE areaTimers' \in [Areas -> 0 .. MaxTimers]
        <3>1. areaTimers[a] \in 0 .. MaxTimers /\ areaTimers[a] > 0
            BY <2>4 DEF AreaTimeout, PageInv, PageTypes
        <3>2. areaTimers[a] - 1 \in 0 .. MaxTimers
            BY <3>1, WebUIAssumption
        <3> QED
            BY <2>4, <3>2 DEF AreaTimeout, PageInv, PageTypes
    <2> QED
        BY <2>2, <2>3, <2>4
<1> QED
    BY <1>1, <1>2, <1>3, <1>4, <1>5, <1>6 DEF PageInv, PageTypes

LEMMA PageNext == PageInv /\ [Next]_vars => PageInv'
<1> SUFFICES ASSUME PageInv, [Next]_vars PROVE PageInv'
    OBVIOUS
<1>1. CASE Navigate
    <2>1. loops' \in 0 .. MaxLoops
        BY <1>1, WebUIAssumption DEF Navigate, PageInv, PageTypes
    <2> QED
        BY <1>1, <2>1, ShowPage DEF Navigate
<1>2. CASE QueueTimeout
    <2>1. loops' \in 0 .. MaxLoops
        BY <1>2 DEF QueueTimeout, PageInv, PageTypes
    <2> QED
        BY <1>2, <2>1, ShowPage DEF QueueTimeout
<1>3. CASE SpinnerTimeout
    <2>1. /\ spinnerTimers > 0 /\ spinnerTimers' = spinnerTimers - 1
          /\ spinner' = (spinner \/ spinner_started)
          /\ UNCHANGED <<listing, loops, request, table, spinner_started, failed,
                         click, area, areaTimers>>
        BY <1>3 DEF SpinnerTimeout, server, menu
    <2>2. spinnerTimers' \in 0 .. MaxSpinners
        BY <2>1, WebUIAssumption DEF PageInv, PageTypes
    <2>3. spinner' \in BOOLEAN /\ SpinnerInv'
        BY <2>1 DEF PageInv, SpinnerInv
    <2> QED
        BY <2>1, <2>2, <2>3 DEF PageInv, PageTypes
<1>4. CASE \E r \in Requests : RequestReaches(r) \/ QueueFails(r) \/ QueueAnswered(r)
    BY <1>4, RequestPage
<1>5. CASE Choose \/ ClickReaches \/ ClickAnswered \/ \E a \in Areas : AreaTimeout(a)
    BY <1>5, MenuPage
<1>6. CASE ServerStep
    BY <1>6 DEF ServerStep, ServerChanges, QueueChanges, PageInv, PageTypes, SpinnerInv,
                queue, menu
<1>7. CASE StatusStep \/ UNCHANGED vars
    BY <1>7 DEF StatusStep, update_status_loop, PingReaches, PingEnds, Tick, vars,
                PageInv, PageTypes, SpinnerInv, server, queue, menu
<1> QED
    BY <1>1, <1>2, <1>3, <1>4, <1>5, <1>6, <1>7 DEF Next, PageStep

(* PageInv holds in every state. *)
LEMMA PageInvariant == Spec => []PageInv
BY PageInit, PageNext, PTL DEF Spec

(***************************************************************************)
(* The spinner is shown only while a listing is asked for, or after that   *)
(* failed (app.js:52-66, app_queue.js:10-77), whichever timers end and     *)
(* however the requests overtake each other.                               *)
(***************************************************************************)
THEOREM SpinnerExplained == Spec => []SpinnerMeansWaiting
<1>1. PageInv => SpinnerMeansWaiting
    BY DEF PageInv, SpinnerInv, SpinnerMeansWaiting
<1> QED
    BY <1>1, PageInvariant, PTL

(* Every variable keeps its type; the back-off never leaves its bound      *)
(* (app.js:143), which is that of its last doubling.                       *)
THEOREM PageTypeCorrect == Spec => []TypeOK
<1>1. StatusInv /\ PageInv => TypeOK
    <2> SUFFICES ASSUME StatusInv, PageInv PROVE TypeOK
        OBVIOUS
    <2>1. status_interval \in Interval .. Doubled[Interval]
        BY IntervalBounded DEF StatusInv, StatusTypes, Longest
    <2>2. statusTimer \in 0 .. Doubled[Interval] /\ steady \in 0 .. Settled
        BY DEF StatusInv, StatusTypes, Longest
    <2>3. {status_network, spinner_started, spinner, failed} \subseteq BOOLEAN
        BY DEF StatusInv, StatusTypes, PageInv, PageTypes
    <2> QED
        BY <2>1, <2>2, <2>3 DEF TypeOK, StatusInv, StatusTypes, PageInv, PageTypes
<1> QED
    BY <1>1, StatusInvariant, PageInvariant, PTL
===============================================================================
