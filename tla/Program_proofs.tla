---------------------------- MODULE Program_proofs ----------------------------
(***************************************************************************)
(* Proofs about Numbers, of any width, and Program, for every file,        *)
(* command line and request: a difficulty is kept to the last digit, a     *)
(* server has the settings the user wrote, and what it does with a request *)
(* follows from them.                                                      *)
(***************************************************************************)
EXTENDS Program, SequenceTheorems, WellFoundedInduction, TLAPS

(* A set of numbers that is not empty has a least one: induction, in the   *)
(* form in which the proofs about numbers use it.                          *)
LEMMA LeastNumber ==
    ASSUME NEW T, T \subseteq Nat, T # {}
    PROVE  \E m \in T : \A n \in T : m <= n
<1> DEFINE Below == {ss \in Nat \X Nat : ss[1] < ss[2]}
<1>1. OpToRel(<, Nat) = Below
    BY DEF OpToRel
<1>2. IsWellFoundedOn(Below, Nat)
    BY <1>1, NatLessThanWellFounded
<1> HIDE DEF Below
<1>3. PICK m \in T : \A n \in T : <<n, m>> \notin Below
    BY <1>2, WFMin
<1>4. ASSUME NEW n \in T PROVE m <= n
    <2>1. m \in Nat /\ n \in Nat
        OBVIOUS
    <2>2. n < m => <<n, m>> \in {ss \in Nat \X Nat : ss[1] < ss[2]}
        BY <2>1, Z3
    <2>3. ~(n < m)
        BY <1>3, <2>2 DEF Below
    <2> QED
        BY <2>1, <2>3
<1> QED
    BY <1>4

(* Induction up to a bound, for a set: what holds of 0, and of each next   *)
(* number up to the bound, holds up to the bound.                          *)
LEMMA UpTo ==
    ASSUME NEW len \in Nat, NEW P, 0 \in P, \A k \in 0 .. len - 1 : k \in P => k + 1 \in P
    PROVE  0 .. len \subseteq P
<1> DEFINE Bad == (0 .. len) \ P
<1> SUFFICES ASSUME Bad # {} PROVE FALSE
    OBVIOUS
<1>1. PICK m \in Bad : \A n \in Bad : m <= n
    <2>1. Bad \subseteq Nat
        OBVIOUS
    <2> HIDE DEF Bad
    <2> QED
        BY <2>1, LeastNumber
<1>2. m # 0 /\ m \in 0 .. len
    BY <1>1
<1>3. m - 1 \in 0 .. len - 1
    BY <1>2
<1>4. m - 1 \in P
    BY <1>1, <1>3
<1> QED
    BY <1>1, <1>2, <1>3, <1>4

(* A step and a start define a sequence of numbers. *)
IsSteps(f, len, start, step) ==
    /\ f \in [0 .. len -> Nat]
    /\ f[0] = start /\ \A k \in 1 .. len : f[k] = step[<<k, f[k - 1]>>]

LEMMA StepsExist ==
    ASSUME NEW len \in Nat, NEW start \in Nat, NEW step \in [(1 .. len) \X Nat -> Nat]
    PROVE  \E f : IsSteps(f, len, start, step)
<1> DEFINE Upto == {m \in 0 .. len : \E f \in [0 .. len -> Nat] :
                       f[0] = start /\ \A k \in 1 .. m : f[k] = step[<<k, f[k - 1]>>]}
<1>1. 0 \in Upto
    <2> DEFINE f == [k \in 0 .. len |-> start]
    <2>1. f \in [0 .. len -> Nat] /\ f[0] = start
        OBVIOUS
    <2> HIDE DEF f
    <2>2. \A k \in 1 .. 0 : f[k] = step[<<k, f[k - 1]>>]
        OBVIOUS
    <2> QED
        BY <2>1, <2>2
<1>2. ASSUME NEW m \in 0 .. len - 1, m \in Upto
      PROVE  m + 1 \in Upto
    <2>1. PICK f \in [0 .. len -> Nat] :
              f[0] = start /\ \A k \in 1 .. m : f[k] = step[<<k, f[k - 1]>>]
        BY <1>2
    <2> DEFINE g == [k \in 0 .. len |-> IF k = m + 1 THEN step[<<k, f[m]>>] ELSE f[k]]
    <2>2. step[<<m + 1, f[m]>>] \in Nat
        BY <2>1
    <2>3. g \in [0 .. len -> Nat]
        BY <2>1, <2>2
    <2>4. g[0] = start
        BY <2>1
    <2>5. \A k \in 1 .. m + 1 : g[k] = step[<<k, g[k - 1]>>]
        BY <2>1
    <2> HIDE DEF g
    <2>6. m + 1 \in 0 .. len
        OBVIOUS
    <2>7. \E h \in [0 .. len -> Nat] :
              h[0] = start /\ \A k \in 1 .. m + 1 : h[k] = step[<<k, h[k - 1]>>]
        BY <2>3, <2>4, <2>5
    <2> QED
        BY <2>6, <2>7
<1>3. len \in Upto
    <2> HIDE DEF Upto
    <2> QED
        BY <1>1, <1>2, UpTo
<1> QED
    BY <1>3 DEF IsSteps

-------------------------------------------------------------------------------
(* What Shifts computes: the number, and at each place the one before      *)
(* divided by the base.                                                    *)
IsShifts(q, base, len, n) ==
    /\ \A k \in 0 .. len : q[k] \in Nat
    /\ q[0] = n
    /\ \A k \in 1 .. len : q[k] = q[k - 1] \div base

LEMMA ShiftsFacts ==
    ASSUME NEW base \in Nat \ {0}, NEW len \in Nat, NEW n \in Nat
    PROVE  IsShifts(Shifts(base, len, n), base, len, n)
<1> DEFINE q == Shifts(base, len, n)
           step == [kx \in (1 .. len) \X Nat |-> kx[2] \div base]
<1>0. \A x \in Nat : x \div base \in Nat
    OBVIOUS
<1>1. step \in [(1 .. len) \X Nat -> Nat]
    BY <1>0
<1>2. PICK f \in [0 .. len -> Nat] :
          f[0] = n /\ \A k \in 1 .. len : f[k] = step[<<k, f[k - 1]>>]
    <2> HIDE DEF step
    <2>1. PICK f : IsSteps(f, len, n, step)
        BY <1>1, StepsExist, Zenon
    <2> QED
        BY <2>1 DEF IsSteps
<1>3. ASSUME NEW k \in 1 .. len PROVE f[k] = f[k - 1] \div base
    <2>1. f[k - 1] \in Nat
        BY <1>2
    <2>2. \A x \in Nat : step[<<k, x>>] = x \div base
        OBVIOUS
    <2> QED
        BY <1>2, <2>1, <2>2
<1>4. f = [k \in 0 .. len |-> IF k = 0 THEN n ELSE f[k - 1] \div base]
    <2>1. ASSUME NEW k \in 0 .. len
          PROVE  f[k] = IF k = 0 THEN n ELSE f[k - 1] \div base
        <3>1. k # 0 => k \in 1 .. len
            OBVIOUS
        <3> QED
            BY <1>2, <1>3, <3>1
    <2> QED
        BY <1>2, <2>1
<1>5. q = [k \in 0 .. len |-> IF k = 0 THEN n ELSE q[k - 1] \div base]
    BY <1>4 DEF Shifts
<1> HIDE DEF q
<1>6. q[0] = n /\ \A k \in 1 .. len : q[k] = q[k - 1] \div base
    BY <1>5
<1>7. \A k \in 0 .. len : q[k] \in Nat
    <2> DEFINE Numbers == {k \in 0 .. len : q[k] \in Nat}
    <2>1. 0 \in Numbers
        BY <1>6
    <2>2. \A k \in 0 .. len - 1 : k \in Numbers => k + 1 \in Numbers
        <3> SUFFICES ASSUME NEW k \in 0 .. len - 1, k \in Numbers PROVE k + 1 \in Numbers
            OBVIOUS
        <3>1. q[k + 1] = q[k] \div base
            BY <1>6
        <3>2. q[k] \in Nat /\ k + 1 \in 0 .. len
            OBVIOUS
        <3>3. q[k] \div base \in Nat
            BY <1>0, <3>2
        <3> QED
            BY <3>1, <3>2, <3>3
    <2>3. 0 .. len \subseteq Numbers
        <3> HIDE DEF Numbers
        <3> QED
            BY <2>1, <2>2, UpTo
    <2> QED
        BY <2>3
<1> QED
    BY <1>6, <1>7 DEF q, IsShifts

(* What Value computes: the places read so far, each time multiplied by    *)
(* the base.                                                               *)
IsValue(v, base, places) ==
    /\ v \in [0 .. Len(places) -> Nat]
    /\ v[0] = 0
    /\ \A k \in 1 .. Len(places) : v[k] = base * v[k - 1] + places[k]

LEMMA ValueFacts ==
    ASSUME NEW base \in Nat, NEW places \in Seq(Nat)
    PROVE  \E v : IsValue(v, base, places) /\ Value(base, places) = v[Len(places)]
<1> DEFINE len  == Len(places)
           step == [kx \in (1 .. len) \X Nat |-> base * kx[2] + places[kx[1]]]
           IsFcn(v) == v = [i \in 0 .. len |-> IF i = 0 THEN 0 ELSE base * v[i - 1] + places[i]]
           v == CHOOSE v : IsFcn(v)
<1>0. len \in Nat /\ DOMAIN places = 1 .. len /\ \A i \in 1 .. len : places[i] \in Nat
    OBVIOUS
<1>a. \A x \in Nat : base * x \in Nat
    OBVIOUS
<1>1. step \in [(1 .. len) \X Nat -> Nat]
    <2>1. ASSUME NEW kx \in (1 .. len) \X Nat PROVE base * kx[2] + places[kx[1]] \in Nat
        <3>1. base * kx[2] \in Nat /\ places[kx[1]] \in Nat
            BY <1>0, <1>a
        <3> QED
            BY <3>1
    <2> QED
        BY <2>1
<1>2. PICK f \in [0 .. len -> Nat] :
          f[0] = 0 /\ \A k \in 1 .. len : f[k] = step[<<k, f[k - 1]>>]
    <2>1. len \in Nat /\ 0 \in Nat
        BY <1>0
    <2> HIDE DEF step, len
    <2>2. PICK f : IsSteps(f, len, 0, step)
        BY <1>1, <2>1, StepsExist, Zenon
    <2> QED
        BY <2>2 DEF IsSteps
<1>3. ASSUME NEW k \in 1 .. len PROVE f[k] = base * f[k - 1] + places[k]
    <2>1. f[k - 1] \in Nat
        BY <1>0, <1>2
    <2>2. \A x \in Nat : step[<<k, x>>] = base * x + places[k]
        OBVIOUS
    <2> QED
        BY <1>2, <2>1, <2>2
<1>4. IsFcn(f)
    <2>1. ASSUME NEW k \in 0 .. len
          PROVE  f[k] = IF k = 0 THEN 0 ELSE base * f[k - 1] + places[k]
        <3>1. k # 0 => k \in 1 .. len
            BY <1>0
        <3> QED
            BY <1>2, <1>3, <3>1
    <2> QED
        BY <1>2, <2>1
<1>5. IsFcn(v)
    <2> HIDE DEF IsFcn
    <2> QED
        BY <1>4
<1>6. Value(base, places) = v[len]
    BY DEF Value
<1> HIDE DEF v
<1>7. v[0] = 0 /\ \A k \in 1 .. len : v[k] = base * v[k - 1] + places[k]
    <2>1. 0 \in 0 .. len
        BY <1>0
    <2>2. v[0] = 0
        BY <1>5, <2>1
    <2>3. ASSUME NEW k \in 1 .. len PROVE v[k] = base * v[k - 1] + places[k]
        <3>1. k \in 0 .. len /\ k # 0
            BY <1>0
        <3> QED
            BY <1>5, <3>1
    <2> QED
        BY <2>2, <2>3
<1>8. v \in [0 .. len -> Nat]
    <2> DEFINE Numbers == {k \in 0 .. len : v[k] \in Nat}
    <2>1. 0 \in Numbers
        BY <1>0, <1>7
    <2>2. \A k \in 0 .. len - 1 : k \in Numbers => k + 1 \in Numbers
        <3> SUFFICES ASSUME NEW k \in 0 .. len - 1, k \in Numbers PROVE k + 1 \in Numbers
            OBVIOUS
        <3>1. k + 1 \in 1 .. len /\ k + 1 \in 0 .. len /\ v[k] \in Nat
            BY <1>0
        <3>2. v[k + 1] = base * v[k] + places[k + 1]
            BY <1>0, <1>7, <3>1
        <3>3. base * v[k] \in Nat /\ places[k + 1] \in Nat
            BY <1>0, <1>a, <3>1
        <3> QED
            BY <3>1, <3>2, <3>3
    <2>3. 0 .. len \subseteq Numbers
        <3> HIDE DEF Numbers, len
        <3> QED
            BY <1>0, <2>1, <2>2, UpTo
    <2> QED
        BY <1>5, <2>3
<1> QED
    BY <1>6, <1>7, <1>8 DEF IsValue

-------------------------------------------------------------------------------
(* The arithmetic of one place. *)
LEMMA OnePlace ==
    ASSUME NEW base \in Nat \ {0}, base = 16 \/ base = 256, NEW x \in Nat
    PROVE  /\ x \div base \in Nat /\ x % base \in 0 .. base - 1
           /\ base * (x \div base) + (x % base) = x
<1>1. CASE base = 16
    BY <1>1
<1>2. CASE base = 256
    BY <1>2
<1> QED
    BY <1>1, <1>2

(* Places are places, whatever the number. *)
LEMMA PlacesRange ==
    ASSUME NEW base \in Nat \ {0}, base = 16 \/ base = 256,
           NEW len \in Nat, NEW n \in Nat, NEW i \in 1 .. len
    PROVE  Places(base, len, n)[i] \in Nat /\ Places(base, len, n)[i] < base
<1>1. Shifts(base, len, n)[len - i] \in Nat
    <2>1. IsShifts(Shifts(base, len, n), base, len, n)
        BY ShiftsFacts
    <2> QED
        BY <2>1 DEF IsShifts
<1>2. Places(base, len, n)[i] = Shifts(base, len, n)[len - i] % base
    BY DEF Places
<1> QED
    BY <1>1, <1>2, OnePlace

LEMMA PlacesSeq ==
    ASSUME NEW base \in Nat \ {0}, base = 16 \/ base = 256, NEW len \in Nat, NEW n \in Nat
    PROVE  Places(base, len, n) \in Seq(Nat) /\ Len(Places(base, len, n)) = len
<1>1. ASSUME NEW i \in 1 .. len PROVE Places(base, len, n)[i] \in Nat
    BY PlacesRange
<1>2. Places(base, len, n) \in [1 .. len -> Nat]
    BY <1>1 DEF Places
<1> QED
    BY <1>2

(* A number that has no more than its places is the value of them. *)
LEMMA ReadBack ==
    ASSUME NEW base \in Nat \ {0}, base = 16 \/ base = 256, NEW len \in Nat, NEW n \in Nat
    PROVE  Shifts(base, len, n)[len] = 0 => Value(base, Places(base, len, n)) = n
<1> DEFINE q == Shifts(base, len, n)
           p == Places(base, len, n)
<1>1. /\ (\A k \in 0 .. len : q[k] \in Nat) /\ q[0] = n
      /\ \A k \in 1 .. len : q[k] = q[k - 1] \div base
    <2>1. IsShifts(q, base, len, n)
        BY ShiftsFacts
    <2> HIDE DEF q
    <2> QED
        BY <2>1 DEF IsShifts
<1>2. p \in Seq(Nat) /\ Len(p) = len
    BY PlacesSeq
<1>3. \A i \in 1 .. len : p[i] = q[len - i] % base
    BY DEF Places
<1> HIDE DEF p, q
<1> SUFFICES ASSUME q[len] = 0 PROVE Value(base, p) = n
    BY DEF p, q
<1>4. PICK v : IsValue(v, base, p) /\ Value(base, p) = v[len]
    BY <1>2, ValueFacts
<1> DEFINE Same == {j \in 0 .. len : v[j] = q[len - j]}
<1>5. 0 \in Same
    BY <1>1, <1>4 DEF IsValue
<1>6. ASSUME NEW j \in 0 .. len - 1, j \in Same PROVE j + 1 \in Same
    <2>1. j + 1 \in 1 .. len /\ j + 1 \in 0 .. len /\ len - j \in 1 .. len
        OBVIOUS
    <2> DEFINE x == q[len - (j + 1)]
    <2>2. x \in Nat /\ q[len - j] = x \div base
        <3>1. len - (j + 1) \in 0 .. len /\ (len - j) - 1 = len - (j + 1)
            OBVIOUS
        <3> QED
            BY <1>1, <2>1, <3>1
    <2>3. v[j + 1] = base * v[j] + p[j + 1]
        <3>1. (j + 1) - 1 = j
            OBVIOUS
        <3> QED
            BY <1>2, <1>4, <2>1, <3>1 DEF IsValue
    <2>4. v[j] = x \div base /\ p[j + 1] = x % base
        BY <1>3, <1>6, <2>1, <2>2
    <2>5. v[j + 1] = base * (x \div base) + (x % base)
        BY <2>3, <2>4
    <2> HIDE DEF x
    <2>6. v[j + 1] = x
        BY <2>2, <2>5, OnePlace
    <2> QED
        BY <2>1, <2>6 DEF x
<1>7. len \in Same
    <2> HIDE DEF Same
    <2> QED
        BY <1>5, <1>6, UpTo
<1>8. v[len] = q[0]
    BY <1>7
<1> QED
    BY <1>1, <1>4, <1>8

(* The places of a text's value are the text, after zeros. *)
LEMMA WriteBack ==
    ASSUME NEW text \in Seq(Digits), NEW len \in Nat, Len(text) <= len
    PROVE  /\ Value(16, text) \in Nat
           /\ Shifts(16, len, Value(16, text))[len] = 0
           /\ Places(16, len, Value(16, text)) = [i \in 1 .. len - Len(text) |-> 0] \o text
<1> DEFINE m == Len(text)
           n == Value(16, text)
           q == Shifts(16, len, n)
           zeros == [i \in 1 .. len - m |-> 0]
<1>1. /\ text \in Seq(Nat) /\ m \in 0 .. len /\ DOMAIN text = 1 .. m
      /\ \A i \in 1 .. m : text[i] \in 0 .. 15
    <2>1. DOMAIN text = 1 .. m /\ m \in Nat
        OBVIOUS
    <2>2. \A i \in 1 .. m : text[i] \in 0 .. 15
        BY <2>1 DEF Digits
    <2>3. text \in Seq(Nat)
        BY DEF Digits
    <2> QED
        BY <2>1, <2>2, <2>3
<1>2. PICK v : IsValue(v, 16, text) /\ n = v[m]
    BY <1>1, ValueFacts
<1>3. v \in [0 .. m -> Nat] /\ v[0] = 0 /\ \A k \in 1 .. m : v[k] = 16 * v[k - 1] + text[k]
    BY <1>2 DEF IsValue
<1>4. n \in Nat
    BY <1>1, <1>2, <1>3
<1> HIDE DEF n, m
<1>5. /\ (\A k \in 0 .. len : q[k] \in Nat) /\ q[0] = n
      /\ \A k \in 1 .. len : q[k] = q[k - 1] \div 16
    <2>1. 16 \in Nat \ {0}
        OBVIOUS
    <2>2. IsShifts(q, 16, len, n)
        BY <1>4, <2>1, ShiftsFacts
    <2> HIDE DEF q
    <2> QED
        BY <2>2 DEF IsShifts
<1> HIDE DEF q
<1>6. \A k \in 0 .. len : q[k] = IF k <= m THEN v[m - k] ELSE 0
    <2> DEFINE P == {k \in 0 .. len : q[k] = IF k <= m THEN v[m - k] ELSE 0}
    <2>1. 0 \in P
        BY <1>1, <1>2, <1>5
    <2>2. ASSUME NEW k \in 0 .. len - 1, k \in P PROVE k + 1 \in P
        <3>1. k + 1 \in 1 .. len /\ k + 1 \in 0 .. len /\ (k + 1) - 1 = k
            OBVIOUS
        <3>2. q[k + 1] = q[k] \div 16
            BY <1>5, <3>1
        <3>3. CASE k < m
            <4>1. /\ m - k \in 1 .. m /\ (m - k) - 1 = m - (k + 1) /\ m - (k + 1) \in 0 .. m
                  /\ k + 1 <= m
                BY <1>1, <3>3
            <4>2. q[k] = 16 * v[m - (k + 1)] + text[m - k]
                BY <1>1, <1>3, <2>2, <3>3, <4>1
            <4>3. v[m - (k + 1)] \in Nat /\ text[m - k] \in 0 .. 15
                BY <1>1, <1>3, <4>1
            <4>4. \A x \in Nat : \A d \in 0 .. 15 : (16 * x + d) \div 16 = x
                OBVIOUS
            <4>5. (16 * v[m - (k + 1)] + text[m - k]) \div 16 = v[m - (k + 1)]
                BY <4>3, <4>4
            <4>6. q[k + 1] = v[m - (k + 1)]
                BY <3>2, <4>2, <4>5
            <4> QED
                BY <3>1, <4>1, <4>6
        <3>4. CASE ~(k < m)
            <4>1. q[k] = 0
                <5>1. CASE k = m
                    BY <1>1, <1>3, <2>2, <5>1
                <5>2. CASE k # m
                    BY <1>1, <2>2, <3>4, <5>2
                <5> QED
                    BY <5>1, <5>2
            <4>2. q[k + 1] = 0
                BY <3>2, <4>1
            <4> QED
                BY <1>1, <3>1, <3>4, <4>2
        <3> QED
            BY <3>3, <3>4
    <2>3. 0 .. len \subseteq P
        <3> HIDE DEF P
        <3> QED
            BY <2>1, <2>2, UpTo
    <2> QED
        BY <2>3
<1>7. q[len] = 0
    <2>1. CASE m = len
        BY <1>1, <1>3, <1>6, <2>1
    <2>2. CASE m # len
        BY <1>1, <1>6, <2>2
    <2> QED
        BY <2>1, <2>2
<1>8. ASSUME NEW i \in 1 .. len
      PROVE  q[len - i] % 16 = IF i <= len - m THEN 0 ELSE text[i - (len - m)]
    <2>1. len - i \in 0 .. len
        OBVIOUS
    <2>2. CASE i <= len - m
        <3>1. q[len - i] = 0
            <4>1. CASE len - i = m
                BY <1>1, <1>3, <1>6, <2>1, <4>1
            <4>2. CASE len - i # m
                BY <1>1, <1>6, <2>1, <2>2, <4>2
            <4> QED
                BY <4>1, <4>2
        <3> QED
            BY <2>2, <3>1
    <2>3. CASE ~(i <= len - m)
        <3> DEFINE j == i - (len - m)
        <3>1. j \in 1 .. m /\ len - i <= m /\ m - (len - i) = j
            BY <1>1, <2>3
        <3> HIDE DEF j
        <3>2. q[len - i] = v[j]
            BY <1>6, <2>1, <3>1
        <3>3. v[j] = 16 * v[j - 1] + text[j] /\ v[j - 1] \in Nat /\ text[j] \in 0 .. 15
            <4>1. j - 1 \in 0 .. m
                BY <1>1, <3>1
            <4>2. v[j - 1] \in Nat
                BY <1>3, <4>1
            <4> QED
                BY <1>1, <1>3, <3>1, <4>2
        <3>4. \A x \in Nat : \A d \in 0 .. 15 : (16 * x + d) % 16 = d
            OBVIOUS
        <3>5. q[len - i] % 16 = text[j]
            BY <3>2, <3>3, <3>4
        <3> QED
            BY <2>3, <3>5 DEF j
    <2> QED
        BY <2>2, <2>3
<1>9. zeros \in Seq(Nat) /\ Len(zeros) = len - m
    <2>1. len - m \in Nat
        BY <1>1
    <2> QED
        BY <2>1
<1>10. Places(16, len, n) = zeros \o text
    <2> DEFINE c == zeros \o text
    <2>1. /\ c = [i \in 1 .. len |-> c[i]]
          /\ \A i \in 1 .. len : c[i] = IF i <= len - m THEN zeros[i] ELSE text[i - (len - m)]
        BY <1>1, <1>9 DEF m
    <2>2. ASSUME NEW i \in 1 .. len PROVE c[i] = q[len - i] % 16
        <3>1. CASE i <= len - m
            <4>1. zeros[i] = 0
                BY <1>1, <3>1
            <4> QED
                BY <1>8, <2>1, <3>1, <4>1
        <3>2. CASE ~(i <= len - m)
            <4> HIDE DEF c
            <4> QED
                BY <1>8, <2>1, <3>2
        <3> QED
            BY <3>1, <3>2
    <2> QED
        BY <2>1, <2>2 DEF Places, q
<1> QED
    BY <1>4, <1>7, <1>10 DEF q, n, m

(* A byte is two digits. *)
LEMMA BytesOfDigits ==
    ASSUME NEW len \in Nat, NEW n \in Nat, NEW k \in 0 .. len
    PROVE  Shifts(256, len, n)[k] = Shifts(16, 2 * len, n)[2 * k]
<1> DEFINE b == Shifts(256, len, n)
           d == Shifts(16, 2 * len, n)
           P == {j \in 0 .. len : b[j] = d[2 * j]}
<1>1. IsShifts(b, 256, len, n)
    <2>1. 256 \in Nat \ {0}
        OBVIOUS
    <2> QED
        BY <2>1, ShiftsFacts
<1>2. IsShifts(d, 16, 2 * len, n)
    <2>1. 16 \in Nat \ {0} /\ 2 * len \in Nat
        OBVIOUS
    <2> QED
        BY <2>1, ShiftsFacts
<1> HIDE DEF b, d
<1>3. 0 \in P
    BY <1>1, <1>2 DEF IsShifts
<1>4. ASSUME NEW j \in 0 .. len - 1, j \in P PROVE j + 1 \in P
    <2>1. /\ j + 1 \in 1 .. len /\ j + 1 \in 0 .. len /\ (j + 1) - 1 = j
          /\ 2 * j \in 0 .. 2 * len /\ 2 * j + 1 \in 1 .. 2 * len /\ 2 * (j + 1) \in 1 .. 2 * len
          /\ (2 * j + 1) - 1 = 2 * j /\ 2 * (j + 1) - 1 = 2 * j + 1
        OBVIOUS
    <2>2. d[2 * j] \in Nat /\ b[j] = d[2 * j]
        BY <1>2, <1>4, <2>1 DEF IsShifts
    <2>3. b[j + 1] = b[j] \div 256
        BY <1>1, <2>1 DEF IsShifts
    <2>4. d[2 * j + 1] = d[2 * j] \div 16
        BY <1>2, <2>1 DEF IsShifts
    <2>5. d[2 * (j + 1)] = d[2 * j + 1] \div 16
        BY <1>2, <2>1 DEF IsShifts
    <2>6. \A x \in Nat : (x \div 16) \div 16 = x \div 256
        OBVIOUS
    <2>7. b[j + 1] = d[2 * (j + 1)]
        BY <2>2, <2>3, <2>4, <2>5, <2>6
    <2> QED
        BY <2>1, <2>7
<1>5. 0 .. len \subseteq P
    <2> HIDE DEF P
    <2> QED
        BY <1>3, <1>4, UpTo
<1> QED
    BY <1>5 DEF b, d

\* A text filled up with zeros to the digits the number has.
Padded(text) == [i \in 1 .. 2 * SIZE_BYTES - Len(text) |-> 0] \o text

(***************************************************************************)
(* to_hex (util.hpp:48) gives back, of any width, the text that from_hex   *)
(* (util.hpp:56) has stored, all digits of it and no others, with zeros    *)
(* before them.                                                            *)
(***************************************************************************)
THEOREM HexRoundTrip ==
    ASSUME NEW text \in Seq(Digits), Len(text) <= 2 * SIZE_BYTES
    PROVE  to_hex(set(Value(16, text))) = Padded(text)
<1> DEFINE n == Value(16, text)
           bytes == Places(256, SIZE_BYTES, n)
<1>1. SIZE_BYTES \in Nat /\ 2 * SIZE_BYTES \in Nat
    BY NumbersAssumption
<1>2. /\ n \in Nat /\ Shifts(16, 2 * SIZE_BYTES, n)[2 * SIZE_BYTES] = 0
      /\ Places(16, 2 * SIZE_BYTES, n) = Padded(text)
    BY <1>1, WriteBack DEF Padded
<1> HIDE DEF n
<1>3. Shifts(256, SIZE_BYTES, n)[SIZE_BYTES] = 0
    <2>1. SIZE_BYTES \in 0 .. SIZE_BYTES
        BY <1>1
    <2>2. Shifts(256, SIZE_BYTES, n)[SIZE_BYTES] = Shifts(16, 2 * SIZE_BYTES, n)[2 * SIZE_BYTES]
        BY <1>1, <1>2, <2>1, BytesOfDigits
    <2> QED
        BY <1>2, <2>2
<1>4. Value(256, bytes) = n
    <2>1. 256 \in Nat \ {0}
        OBVIOUS
    <2> QED
        BY <1>1, <1>2, <1>3, <2>1, ReadBack
<1> QED
    BY <1>2, <1>4 DEF to_hex, set, number, n

(* Zeros before a text do not change what it stands for. *)
LEMMA PaddedSame ==
    ASSUME NEW text \in Seq(Digits), Len(text) <= 2 * SIZE_BYTES
    PROVE  Value(16, Padded(text)) = Value(16, text)
<1> DEFINE n == Value(16, text)
<1>1. 2 * SIZE_BYTES \in Nat
    BY NumbersAssumption
<1>2. /\ n \in Nat /\ Shifts(16, 2 * SIZE_BYTES, n)[2 * SIZE_BYTES] = 0
      /\ Places(16, 2 * SIZE_BYTES, n) = Padded(text)
    BY <1>1, WriteBack DEF Padded
<1> HIDE DEF n
<1>3. Value(16, Places(16, 2 * SIZE_BYTES, n)) = n
    <2>1. 16 \in Nat \ {0}
        OBVIOUS
    <2> QED
        BY <1>1, <1>2, <2>1, ReadBack
<1> QED
    BY <1>2, <1>3 DEF n

(* All of a text is read if it has digits only, and then only. *)
LEMMA PrefixAll ==
    ASSUME NEW text \in HexTexts
    PROVE  /\ text \in Seq(Digits) => Prefix(text) = text
           /\ Prefix(text) = text => text \in Seq(Digits)
           /\ Prefix(text) \in Seq(Digits)
<1> DEFINE I == {i \in 1 .. Len(text) : text[i] = NoDigit}
<1>1. /\ Len(text) \in Nat /\ DOMAIN text = 1 .. Len(text)
      /\ \A i \in 1 .. Len(text) : text[i] \in 0 .. 16
    BY DEF HexTexts, NoDigit
<1>2. ReadDigits(text) = IF I # {} THEN Min(I) ELSE 0
    BY DEF ReadDigits, SelectInSeq
<1>3. ASSUME I # {}
      PROVE  Min(I) \in I /\ \A j \in I : Min(I) <= j
    <2>1. \E m \in I : \A j \in I : m <= j
        <3>1. I \subseteq Nat
            BY <1>1
        <3> HIDE DEF I
        <3> QED
            BY <1>3, <3>1, LeastNumber
    <2> HIDE DEF I
    <2> QED
        BY <2>1 DEF Min
<1>4. CASE I = {}
    <2>1. ASSUME NEW i \in 1 .. Len(text) PROVE text[i] \in Digits
        <3>1. i \notin I
            BY <1>4
        <3>2. text[i] # NoDigit
            BY <3>1
        <3> QED
            BY <1>1, <3>2 DEF Digits, NoDigit
    <2>2. text \in Seq(Digits)
        BY <1>1, <2>1 DEF HexTexts
    <2> QED
        BY <1>2, <1>4, <2>2 DEF Prefix
<1>5. CASE I # {}
    <2> DEFINE k == Min(I)
    <2>1. k \in 1 .. Len(text) /\ text[k] = NoDigit /\ \A j \in I : k <= j
        BY <1>3, <1>5
    <2>2. ReadDigits(text) = k /\ k # 0
        BY <1>2, <1>5, <2>1
    <2> HIDE DEF k
    <2>3. Prefix(text) = SubSeq(text, 1, k - 1)
        BY <2>2 DEF Prefix
    <2>4. \A i \in 1 .. k - 1 : text[i] \in Digits
        <3>1. ASSUME NEW i \in 1 .. k - 1 PROVE text[i] # NoDigit
            BY <1>1, <2>1
        <3> QED
            BY <1>1, <2>1, <3>1 DEF Digits, NoDigit
    <2>5. text \notin Seq(Digits)
        <3>1. text \in Seq(Digits) => text[k] \in Digits
            BY <1>1, <2>1
        <3> QED
            BY <2>1, <3>1 DEF Digits, NoDigit
    <2>6. Len(SubSeq(text, 1, k - 1)) = k - 1 /\ SubSeq(text, 1, k - 1) \in Seq(Digits)
        BY <1>1, <2>1, <2>4 DEF HexTexts
    <2>7. SubSeq(text, 1, k - 1) # text
        BY <1>1, <2>1, <2>6
    <2> QED
        BY <2>3, <2>5, <2>6, <2>7
<1> QED
    BY <1>4, <1>5

(* from_hex takes a text of digits that fit, and no other; what it takes it *)
(* stores as a number (util.hpp:56-75).                                     *)
LEMMA FromHexReads ==
    ASSUME NEW text \in HexTexts
    PROVE  /\ from_hex(set(0), text).ok =>
                  /\ text \in Seq(Digits) /\ Len(text) <= 2 * SIZE_BYTES
                  /\ from_hex(set(0), text).bytes = set(Value(16, text))
           /\ text \in Seq(Digits) /\ text # <<>> /\ Len(text) <= 2 * SIZE_BYTES =>
                  from_hex(set(0), text).bytes = set(Value(16, text))
<1> DEFINE taken == from_hex(set(0), text)
<1>1. Len(text) \in Nat /\ 2 * SIZE_BYTES \in Nat
    BY NumbersAssumption DEF HexTexts
<1>2. CASE text = <<>> \/ Len(text) > 2 * SIZE_BYTES
    <2>1. taken = [bytes |-> set(0), ok |-> FALSE]
        BY <1>2 DEF from_hex
    <2> HIDE DEF taken
    <2>2. taken.ok = FALSE
        BY <2>1
    <2>3. ~(text # <<>> /\ Len(text) <= 2 * SIZE_BYTES)
        BY <1>1, <1>2
    <2> QED
        BY <2>2, <2>3 DEF taken
<1>3. CASE ~(text = <<>> \/ Len(text) > 2 * SIZE_BYTES)
    <2> DEFINE stored == set(Value(16, Prefix(text)))
    <2>1. taken = [bytes |-> stored, ok |-> Prefix(text) = text]
        BY <1>3, Zenon DEF from_hex
    <2> HIDE DEF stored, taken
    <2>2. taken.bytes = stored /\ taken.ok = (Prefix(text) = text)
        BY <2>1
    <2>3. Len(text) <= 2 * SIZE_BYTES
        BY <1>1, <1>3
    <2>4. Prefix(text) = text => text \in Seq(Digits)
        BY PrefixAll
    <2>5. text \in Seq(Digits) => Prefix(text) = text
        BY PrefixAll
    <2> QED
        BY <2>2, <2>3, <2>4, <2>5 DEF stored, taken
<1> QED
    BY <1>2, <1>3

-------------------------------------------------------------------------------
\* The configuration in use is that of the file and the command line as they
\* are, and they are such that the constructor does not throw.
ConfRead ==
    phase = "serving" \/ request # NoRequest =>
        conf = read(merge(overrides, file)) /\ ~throws(merge(overrides, file))

\* The reply is one that main ()'s endpoints give to the request.
Answered ==
    request # NoRequest =>
        \E disk \in Disks : \E r \in R!Dispatch(conf.settings, disk, request) :
            reply = IF r[1] = "call" THEN Handler(r[2]) ELSE r

\* Without a request nothing has been answered.
Unasked == request = NoRequest => reply = NoReply

\* The file is a document; a generated one gives defaults only, and has one device.
FileInv ==
    /\ IsDocument(file) /\ DOMAIN file = DOMAIN Empty
    /\ generated =>
          /\ \A k \in DOMAIN file.values : file.values[k] = default(k)
          /\ file.base_difficulty \in {NotGiven, Difficulty(writtenDifficulty)}
          /\ file.device = "table" /\ \E table : file.devices = <<table>>

\* The types of the other variables; a configuration is one that was read.
StateTypes ==
    /\ IsDocument(overrides) /\ overrides.device # "array"
    /\ generated \in BOOLEAN /\ edits \in 0 .. MaxEdits
    /\ phase \in {"stopped", "failed", "serving"}
    /\ \E tree : tree.base_difficulty \in GivenDifficulty /\ conf = read(tree)
    /\ request = NoRequest \/ request \in R!Requests

ProgramInv == ConfRead /\ Answered /\ Unasked /\ FileInv /\ StateTypes

-------------------------------------------------------------------------------
(* A setting is what the command line, then the file, then the default     *)
(* says, and its default when that has another type (get_as).              *)
LEMMA WantedIsRead ==
    ASSUME NEW k
    PROVE  get_as(merge(overrides, file), k) =
               IF Wanted(k) = "mistyped" THEN default(k) ELSE Wanted(k)
<1> DEFINE tree == merge(overrides, file)
<1>1. /\ DOMAIN tree.values = DOMAIN overrides.values \cup DOMAIN file.values
      /\ k \in DOMAIN tree.values =>
            tree.values[k] = IF k \in DOMAIN overrides.values
                             THEN overrides.values[k] ELSE file.values[k]
    BY DEF merge, KeepFirst
<1>2. default(k) # "mistyped"
    BY DEF default
<1> QED
    BY <1>1, <1>2 DEF get_as, value_or, Wanted

(* What on_read and handle_request may do with a request: call the handler *)
(* of an endpoint that matches, send a page if the access rule allows it,  *)
(* or send neither.                                                        *)
LEMMA DispatchCases ==
    ASSUME NEW settings, NEW disk, NEW req, NEW r \in R!Dispatch(settings, disk, req)
    PROVE  \/ \E e \in R!Matches(req) : r = <<"call", e[3]>>
           \/ R!MayReadPages(settings, req) /\ r[1] \in {"page", "head"}
           \/ r[1] \in {"error", "none", "upgraded"}
<1>1. CASE req.upgrade
    BY <1>1 DEF R!Dispatch
<1>2. CASE ~req.upgrade /\ req.path \in R!Illegal
    <2>1. r = <<"error", "bad request">>
        BY <1>2 DEF R!Dispatch, R!handle_request
    <2> QED
        BY <2>1
<1>3. CASE ~req.upgrade /\ req.path \notin R!Illegal /\ R!Matches(req) # {}
    BY <1>3 DEF R!Dispatch, R!handle_request
<1>4. CASE /\ ~req.upgrade /\ req.path \notin R!Illegal /\ R!Matches(req) = {}
           /\ ~R!MayReadPages(settings, req)
    <2>1. r = <<"error", "access denied">>
        BY <1>4 DEF R!Dispatch, R!handle_request
    <2> QED
        BY <2>1
<1>5. CASE /\ ~req.upgrade /\ req.path \notin R!Illegal /\ R!Matches(req) = {}
           /\ R!MayReadPages(settings, req)
    <2>1. r = R!Page(disk, req)
        BY <1>5 DEF R!Dispatch, R!handle_request
    <2>2. R!Page(disk, req)[1] \in {"error", "page", "head"}
        BY DEF R!Page
    <2> QED
        BY <1>5, <2>1, <2>2
<1> QED
    BY <1>1, <1>2, <1>3, <1>4, <1>5

-------------------------------------------------------------------------------
(* The text export_documented writes is one of digits. *)
LEMMA WrittenText ==
    /\ BASE_DIFFICULTY \in Seq(Digits) /\ Len(BASE_DIFFICULTY) <= 2 * SIZE_BYTES
    /\ writtenDifficulty = Padded(BASE_DIFFICULTY)
    /\ writtenDifficulty \in Seq(Digits) /\ Len(writtenDifficulty) = 2 * SIZE_BYTES
    /\ writtenDifficulty \in HexTexts
<1> DEFINE base == BASE_DIFFICULTY
<1>1. /\ base \in Seq(Digits) /\ base \in HexTexts /\ Len(base) = 1 /\ base # <<>>
      /\ Len(base) <= 2 * SIZE_BYTES
    BY NumbersAssumption DEF BASE_DIFFICULTY, Digits, HexTexts, NoDigit
<1>2. writtenDifficulty = to_hex(set(Value(16, base)))
    <2> HIDE DEF base
    <2>1. from_hex(set(0), base).bytes = set(Value(16, base))
        BY <1>1, FromHexReads
    <2> QED
        BY <2>1 DEF writtenDifficulty, base
<1> HIDE DEF base
<1>3. writtenDifficulty = Padded(base)
    BY <1>1, <1>2, HexRoundTrip
<1>4. Padded(base) \in Seq(Digits) /\ Len(Padded(base)) = 2 * SIZE_BYTES
    <2> DEFINE zeros == [i \in 1 .. 2 * SIZE_BYTES - Len(base) |-> 0]
    <2>1. 2 * SIZE_BYTES - Len(base) \in Nat
        BY <1>1, NumbersAssumption
    <2>2. zeros \in Seq(Digits) /\ Len(zeros) = 2 * SIZE_BYTES - Len(base)
        BY <2>1 DEF Digits
    <2> HIDE DEF zeros
    <2>3. zeros \o base \in Seq(Digits) /\ Len(zeros \o base) = Len(zeros) + Len(base)
        BY <1>1, <2>2, ConcatProperties
    <2> QED
        BY <1>1, <2>2, <2>3, NumbersAssumption DEF Padded, zeros
<1>5. Seq(Digits) \subseteq HexTexts
    BY DEF Digits, HexTexts, NoDigit
<1> QED
    BY <1>1, <1>3, <1>4, <1>5 DEF base

(* The parts of the assumption that say how much the user may edit. *)
LEMMA BoundAndTexts == MaxEdits \in Nat /\ Difficulties \subseteq HexTexts
BY ProgramAssumption, Zenon

(* An empty document is one. *)
LEMMA EmptyIsDocument == IsDocument(Empty) /\ Empty.device = "none"
<1>1. <<>> \in HexTexts
    BY DEF HexTexts
<1> QED
    BY <1>1 DEF IsDocument, Empty, NoValues, NotGiven, GivenDifficulty, Given

(* The program starts without a request, and not serving. *)
LEMMA InvInit == Init => ProgramInv
<1> SUFFICES ASSUME Init PROVE ProgramInv
    OBVIOUS
<1>1. IsDocument(Empty) /\ Empty.device = "none" /\ Empty.base_difficulty \in GivenDifficulty
    BY EmptyIsDocument DEF IsDocument
<1>2. FileInv
    BY <1>1 DEF Init, FileInv
<1>3. edits \in 0 .. MaxEdits
    BY BoundAndTexts DEF Init
<1>4. StateTypes
    BY <1>1, <1>3 DEF Init, StateTypes, NoConfig
<1> QED
    BY <1>2, <1>4 DEF Init, ProgramInv, ConfRead, Answered, Unasked

(* A document stays one when values or its difficulty are given in it. *)
LEMMA DocumentKept ==
    ASSUME NEW doc, IsDocument(doc), DOMAIN doc = DOMAIN Empty
    PROVE  /\ \A values : DOMAIN values \subseteq Settings =>
                  LET new == [doc EXCEPT !.values = values]
                  IN  IsDocument(new) /\ DOMAIN new = DOMAIN Empty
           /\ \A d \in GivenDifficulty :
                  LET new == [doc EXCEPT !.base_difficulty = d]
                  IN  IsDocument(new) /\ DOMAIN new = DOMAIN Empty
           /\ LET new == [doc EXCEPT !.valid = ~@]
              IN  IsDocument(new) /\ DOMAIN new = DOMAIN Empty
BY DEF IsDocument, Empty

(* What the user may do to a file leaves a generated one with defaults     *)
(* only: removing a comment sign gives a setting its default.              *)
LEMMA FileNext == FileInv /\ [Next]_vars => FileInv'
<1> SUFFICES ASSUME FileInv, [Next]_vars PROVE FileInv'
    OBVIOUS
<1> USE DEF FileInv
<1>1. CASE Generate
    <2>1. file' = export_documented
        BY <1>1 DEF Generate
    <2>2. /\ DOMAIN export_documented = DOMAIN Empty /\ export_documented.valid = TRUE
          /\ export_documented.values = NoValues /\ export_documented.base_difficulty = NotGiven
          /\ export_documented.device = "table" /\ export_documented.devices = <<NoValues>>
        BY DEF export_documented, Empty
    <2>3. NotGiven \in GivenDifficulty /\ DOMAIN NoValues = {}
        BY EmptyIsDocument DEF IsDocument, Empty, NoValues
    <2>4. DOMAIN export_documented.devices = {1}
        BY <2>2
    <2>5. IsDocument(export_documented)
        BY <2>2, <2>3, <2>4 DEF IsDocument, Given
    <2> QED
        BY <2>1, <2>2, <2>3, <2>5
<1>2. CASE Uncomment
    <2>1. generated /\ generated' = generated
        BY <1>2 DEF Uncomment
    <2>2. CASE \E k \in WrittenSettings :
                   file' = [file EXCEPT !.values = KeepFirst(@, [j \in {k} |-> default(j)])]
        <3>1. PICK k \in WrittenSettings :
                  file' = [file EXCEPT !.values = KeepFirst(@, [j \in {k} |-> default(j)])]
            BY <2>2
        <3> DEFINE values == KeepFirst(file.values, [j \in {k} |-> default(j)])
        <3>2. /\ DOMAIN values \subseteq Settings
              /\ \A j \in DOMAIN values : values[j] = default(j)
            BY <2>1 DEF KeepFirst, WrittenSettings, IsDocument
        <3>3. file' = [file EXCEPT !.values = values]
            BY <3>1
        <3> HIDE DEF values
        <3>4. IsDocument(file') /\ DOMAIN file' = DOMAIN Empty
            BY <3>2, <3>3, DocumentKept
        <3>5. /\ file'.values = values /\ file'.base_difficulty = file.base_difficulty
              /\ file'.device = file.device /\ file'.devices = file.devices
            BY <3>3 DEF Empty
        <3> QED
            BY <2>1, <3>2, <3>4, <3>5
    <2>3. CASE file' = [file EXCEPT !.base_difficulty = Difficulty(writtenDifficulty)]
        <3>1. Difficulty(writtenDifficulty) \in GivenDifficulty
            BY WrittenText DEF Difficulty, GivenDifficulty
        <3>2. IsDocument(file') /\ DOMAIN file' = DOMAIN Empty
            BY <2>3, <3>1, DocumentKept
        <3>3. /\ file'.base_difficulty = Difficulty(writtenDifficulty)
              /\ file'.values = file.values
              /\ file'.device = file.device /\ file'.devices = file.devices
            BY <2>3 DEF Empty
        <3> QED
            BY <2>1, <3>2, <3>3
    <2>4. CASE \E k \in DOMAIN writtenDevice :
                   file' = [file EXCEPT !.devices =
                               <<KeepFirst(@[1], [j \in {k} |-> writtenDevice[j]])>>]
        <3>1. PICK k \in DOMAIN writtenDevice :
                  file' = [file EXCEPT !.devices =
                              <<KeepFirst(@[1], [j \in {k} |-> writtenDevice[j]])>>]
            BY <2>4
        <3> DEFINE table == KeepFirst(file.devices[1], [j \in {k} |-> writtenDevice[j]])
        <3>2. file' = [file EXCEPT !.devices = <<table>>]
            BY <3>1
        <3> HIDE DEF table
        <3>3. /\ file'.devices = <<table>> /\ file'.values = file.values
              /\ file'.base_difficulty = file.base_difficulty /\ file'.device = file.device
              /\ file'.valid = file.valid /\ DOMAIN file' = DOMAIN Empty
            BY <3>2 DEF Empty
        <3>4. IsDocument(file')
            BY <2>1, <3>3 DEF IsDocument
        <3> QED
            BY <2>1, <3>3, <3>4
    <2> QED
        BY <1>2, <2>2, <2>3, <2>4 DEF Uncomment, Edited
<1>3. CASE Edit
    <2> SUFFICES IsDocument(file') /\ DOMAIN file' = DOMAIN Empty
        BY <1>3 DEF Edit
    <2>1. CASE \E e \in FileEdits :
                   file' = [file EXCEPT !.values = KeepFirst([j \in {e[1]} |-> e[2]], @)]
        <3>1. PICK e \in FileEdits :
                  file' = [file EXCEPT !.values = KeepFirst([j \in {e[1]} |-> e[2]], @)]
            BY <2>1
        <3> DEFINE values == KeepFirst([j \in {e[1]} |-> e[2]], file.values)
        <3>2. DOMAIN values \subseteq Settings
            BY ProgramAssumption DEF KeepFirst, IsDocument
        <3> HIDE DEF values
        <3> QED
            BY <3>1, <3>2, DocumentKept DEF values
    <2>2. CASE \E d \in DeviceTables :
                   file' = [file EXCEPT !.device = d.given, !.devices = d.tables]
        <3>1. PICK d \in DeviceTables :
                  file' = [file EXCEPT !.device = d.given, !.devices = d.tables]
            BY <2>2
        <3>2. /\ file'.device = d.given /\ file'.devices = d.tables /\ file'.valid = file.valid
              /\ file'.base_difficulty = file.base_difficulty /\ file'.values = file.values
              /\ DOMAIN file' = DOMAIN Empty
            BY <3>1 DEF Empty
        <3>3. IsDocument([Empty EXCEPT !.device = d.given, !.devices = d.tables])
            BY ProgramAssumption
        <3>4. /\ d.given \in Given
              /\ d.given \in {"none", "scalar"} => d.tables = <<>>
              /\ d.given = "table" => DOMAIN d.tables = {1}
            BY <3>3 DEF IsDocument, Empty
        <3> QED
            BY <3>2, <3>4 DEF IsDocument
    <2>3. CASE \E d \in {Difficulty(t) : t \in Difficulties} \cup {Mistyped} :
                   file' = [file EXCEPT !.base_difficulty = d]
        <3>1. PICK d \in {Difficulty(t) : t \in Difficulties} \cup {Mistyped} :
                  file' = [file EXCEPT !.base_difficulty = d]
            BY <2>3
        <3>2. <<>> \in HexTexts
            BY DEF HexTexts
        <3>3. d \in GivenDifficulty
            BY <3>2, BoundAndTexts DEF Difficulty, Mistyped, GivenDifficulty
        <3> QED
            BY <3>1, <3>3, DocumentKept
    <2>4. CASE file' = [file EXCEPT !.valid = ~@]
        BY <2>4, DocumentKept
    <2> QED
        BY <1>3, <2>1, <2>2, <2>3, <2>4 DEF Edit, Edited
<1>4. CASE UNCHANGED <<file, generated>>
    BY <1>4
<1> QED
    BY <1>1, <1>2, <1>3, <1>4 DEF Next, Start, Serve, Stop, vars

(* Types: the configuration is always one that read () gave. *)
LEMMA TypesNext == FileInv /\ StateTypes /\ [Next]_vars => StateTypes'
<1> SUFFICES ASSUME FileInv, StateTypes, [Next]_vars PROVE StateTypes'
    OBVIOUS
<1> USE DEF StateTypes
<1>0. IsDocument(Empty) /\ Empty.device = "none" /\ Empty.base_difficulty \in GivenDifficulty
    BY EmptyIsDocument DEF IsDocument
<1>1. ASSUME Clear
      PROVE  /\ IsDocument(overrides') /\ overrides'.device # "array" /\ request' = NoRequest
             /\ \E tree : tree.base_difficulty \in GivenDifficulty /\ conf' = read(tree)
    BY <1>0, <1>1 DEF Clear, NoConfig
<1>2. CASE Generate
    <2>1. edits' \in 0 .. MaxEdits /\ generated' \in BOOLEAN /\ phase' = phase
        BY <1>2, BoundAndTexts DEF Generate
    <2> QED
        BY <1>1, <1>2, <2>1 DEF Generate
<1>3. CASE Uncomment \/ Edit
    <2>1. edits < MaxEdits /\ edits' = edits + 1 /\ phase' = phase /\ Clear
        BY <1>3 DEF Uncomment, Edit, Edited
    <2>2. edits' \in 0 .. MaxEdits
        BY <2>1, BoundAndTexts
    <2>3. generated' \in BOOLEAN
        BY <1>3 DEF Uncomment, Edit
    <2> QED
        BY <1>1, <2>1, <2>2, <2>3
<1>4. CASE Start
    <2>1. overrides' \in Overrides /\ request' = NoRequest /\ UNCHANGED <<file, generated, edits>>
        BY <1>4 DEF Start
    <2>2. IsDocument(overrides') /\ overrides'.device # "array"
        BY <2>1, ProgramAssumption
    <2>3. phase' \in {"stopped", "failed", "serving"}
        BY <1>4 DEF Start
    <2>4. merge(overrides', file).base_difficulty \in GivenDifficulty
        BY <2>2 DEF merge, FirstGiven, FileInv, IsDocument
    <2>5. \E tree : tree.base_difficulty \in GivenDifficulty /\ conf' = read(tree)
        BY <1>0, <1>4, <2>4 DEF Start, NoConfig
    <2> QED
        BY <2>1, <2>2, <2>3, <2>5
<1>5. CASE Serve
    <2>1. /\ request' \in R!Requests /\ phase' \in {"stopped", "failed", "serving"}
          /\ UNCHANGED <<generated, edits, overrides, conf>>
        BY <1>5 DEF Serve
    <2> QED
        BY <2>1
<1>6. CASE Stop
    BY <1>1, <1>6 DEF Stop
<1>7. CASE UNCHANGED vars
    BY <1>7 DEF vars
<1> QED
    BY <1>2, <1>3, <1>4, <1>5, <1>6, <1>7 DEF Next

(* Whatever ends or replaces the program leaves no request behind, a start *)
(* reads the file, and a request changes neither it nor the configuration. *)
LEMMA InvNext == ProgramInv /\ [Next]_vars => ProgramInv'
<1> SUFFICES ASSUME ProgramInv, [Next]_vars PROVE (ConfRead /\ Answered /\ Unasked)'
    BY FileNext, TypesNext DEF ProgramInv
<1> USE DEF ProgramInv
<1>1. ASSUME Clear, phase' # "serving" PROVE (ConfRead /\ Answered /\ Unasked)'
    BY <1>1 DEF Clear, ConfRead, Answered, Unasked
<1>2. CASE Generate
    BY <1>1, <1>2 DEF Generate
<1>3. CASE Uncomment
    BY <1>1, <1>3 DEF Uncomment, Edited
<1>4. CASE Edit
    BY <1>1, <1>4 DEF Edit, Edited
<1>5. CASE Start
    <2>1. request' = NoRequest /\ reply' = NoReply /\ file' = file
        BY <1>5 DEF Start
    <2>2. phase' = "serving" =>
              conf' = read(merge(overrides', file)) /\ ~throws(merge(overrides', file))
        BY <1>5 DEF Start
    <2>3. ConfRead'
        BY <2>1, <2>2 DEF ConfRead
    <2> QED
        BY <2>1, <2>3 DEF Answered, Unasked
<1>6. CASE Serve
    <2>1. UNCHANGED <<file, overrides, conf>> /\ phase = "serving"
        BY <1>6 DEF Serve
    <2>2. ConfRead'
        BY <2>1 DEF ConfRead
    <2>3. PICK disk \in Disks : \E r \in R!Dispatch(conf.settings, disk, request') :
              reply' = IF r[1] = "call" THEN Handler(r[2]) ELSE r
        BY <1>6 DEF Serve
    <2>4. Answered'
        BY <2>1, <2>3 DEF Answered, Handler, Allowed
    <2>5. request' \in R!Requests => request' # NoRequest
        BY DEF R!Requests, R!Verbs, NoRequest
    <2>6. Unasked'
        BY <1>6, <2>5 DEF Serve, Unasked
    <2> QED
        BY <2>2, <2>4, <2>6
<1>7. CASE Stop
    BY <1>1, <1>7 DEF Stop
<1>8. CASE UNCHANGED vars
    BY <1>8 DEF vars, ConfRead, Answered, Unasked, Handler, Allowed
<1> QED
    BY <1>2, <1>3, <1>4, <1>5, <1>6, <1>7, <1>8 DEF Next

(* ProgramInv holds in every state. *)
LEMMA ProgramInvariant == Spec => []ProgramInv
BY InvInit, InvNext, PTL DEF Spec

-------------------------------------------------------------------------------
(* A flag that is set was set by the user, and not taken back: the default *)
(* of every flag is false, and so is a flag of another type.               *)
LEMMA FlagsAsWanted ==
    ASSUME ProgramInv, request # NoRequest, NEW k \in Flags, conf.settings[k] = "true"
    PROVE  Wanted(k) = "true"
<1>1. conf.settings[k] = get_as(merge(overrides, file), k)
    BY DEF ProgramInv, ConfRead, read, Settings
<1>2. default(k) = "false"
    BY DEF default
<1> QED
    BY <1>1, <1>2, WantedIsRead

(* The access rules are kept by every reply. *)
LEMMA AccessKept == ProgramInv => NothingUnwanted
<1> SUFFICES ASSUME ProgramInv PROVE NothingUnwanted
    OBVIOUS
<1>1. CASE request = NoRequest
    BY <1>1 DEF ProgramInv, Unasked, NoReply, NothingUnwanted
<1>2. CASE request # NoRequest
    <2>0. PICK disk \in Disks : \E r \in R!Dispatch(conf.settings, disk, request) :
              reply = IF r[1] = "call" THEN Handler(r[2]) ELSE r
        BY <1>2 DEF ProgramInv, Answered
    <2>1. PICK r \in R!Dispatch(conf.settings, disk, request) :
              reply = IF r[1] = "call" THEN Handler(r[2]) ELSE r
        BY <2>0
    <2>2. \/ \E e \in R!Matches(request) : r = <<"call", e[3]>>
          \/ R!MayReadPages(conf.settings, request) /\ r[1] \in {"page", "head"}
          \/ r[1] \in {"error", "none", "upgraded"}
        BY DispatchCases
    <2>3. /\ <<"server", "allow_control">> \in Flags
          /\ <<"admin", "enable">> \in Flags
          /\ <<"admin", "allow_remote">> \in Flags
        BY DEF Flags
    <2>4. CASE \E e \in R!Matches(request) : r = <<"call", e[3]>>
        <3>0. PICK e \in R!Matches(request) : r = <<"call", e[3]>>
            BY <2>4
        <3>a. reply = Handler(e[3])
            BY <2>1, <3>0
        <3>1. /\ reply[1] \in {"error", "done"}
              /\ reply \in {<<"done", "stop">>, <<"done", "clear">>} => Allowed
            BY <3>a DEF Handler
        <3> QED
            BY <1>2, <2>3, <3>1, FlagsAsWanted DEF Allowed, NothingUnwanted
    <2>5. CASE R!MayReadPages(conf.settings, request) /\ r[1] \in {"page", "head"}
        <3>1. reply[1] \in {"page", "head"}
            BY <2>1, <2>5
        <3>2. Wanted(<<"admin", "enable">>) = "true"
            BY <1>2, <2>3, <2>5, FlagsAsWanted DEF R!MayReadPages
        <3>3. request.loopback \/ Wanted(<<"admin", "allow_remote">>) = "true"
            BY <1>2, <2>3, <2>5, FlagsAsWanted DEF R!MayReadPages
        <3> QED
            BY <3>1, <3>2, <3>3 DEF NothingUnwanted
    <2>6. CASE r[1] \in {"error", "none", "upgraded"}
        BY <2>1, <2>6 DEF NothingUnwanted
    <2> QED
        BY <2>2, <2>4, <2>5, <2>6
<1> QED
    BY <1>1, <1>2

(***************************************************************************)
(* Nobody is given more than the user has allowed (webserver.hpp:755-778,  *)
(* nano_pow_server.cpp:83-126): control with allow_control only, pages     *)
(* under enable and, for remote clients, allow_remote.                     *)
(***************************************************************************)
THEOREM AccessAsAllowed == Spec => []NothingUnwanted
BY ProgramInvariant, AccessKept, PTL

-------------------------------------------------------------------------------
(* A documented request matches one endpoint, that of its handler.         *)
LEMMA DocumentedMatches ==
    ASSUME NEW req, NEW d \in DocumentedRequests,
           req.verb = d[1], req.path = d[2], ~req.query
    PROVE  /\ R!Matches(req) # {}
           /\ \A e \in R!Matches(req) : e[3] = d[3]
           /\ req.path \notin R!Illegal
BY DEF DocumentedRequests, R!Matches, R!Endpoints, R!Work, R!Queue, R!Stop, R!Illegal

(***************************************************************************)
(* Every request the documentation lists gets to its handler, whatever the *)
(* settings and the files (webserver.hpp:755-773), and an upgrade of its   *)
(* WebSocket path is one (628-656); when a control request is not allowed  *)
(* the client is told so.                                                  *)
(***************************************************************************)
THEOREM DocumentedHandled == Spec => []DocumentedRequestsHandled
<1>1. ProgramInv => DocumentedRequestsHandled
    <2> SUFFICES ASSUME ProgramInv, request # NoRequest PROVE DocumentedRequestsHandled
        BY DEF DocumentedRequestsHandled
    <2>1. PICK disk \in Disks : \E r \in R!Dispatch(conf.settings, disk, request) :
              reply = IF r[1] = "call" THEN Handler(r[2]) ELSE r
        BY DEF ProgramInv, Answered
    <2>2. PICK r \in R!Dispatch(conf.settings, disk, request) :
              reply = IF r[1] = "call" THEN Handler(r[2]) ELSE r
        BY <2>1
    <2>3. ASSUME request.upgrade, request.path = "/websocket"
          PROVE  reply = <<"upgraded", "/websocket">>
        <3>1. r = <<"upgraded", "/websocket">>
            BY <2>3 DEF R!Dispatch, R!WebSocketEndpoints
        <3> QED
            BY <2>2, <3>1
    <2>4. ASSUME NEW d \in DocumentedRequests, request.verb = d[1], request.path = d[2],
                 ~request.query, ~request.upgrade
          PROVE  \/ reply = <<"done", d[3]>>
                 \/ reply = <<"error", "not allowed">> /\ d[3] \in {"clear", "stop"}
        <3>1. /\ R!Matches(request) # {}
              /\ \A e \in R!Matches(request) : e[3] = d[3]
              /\ request.path \notin R!Illegal
            BY <2>4, DocumentedMatches
        <3>2. r = <<"call", d[3]>>
            BY <2>4, <3>1 DEF R!Dispatch, R!handle_request
        <3> QED
            BY <2>2, <3>2 DEF Handler
    <2> QED
        BY <2>3, <2>4 DEF DocumentedRequestsHandled
<1> QED
    BY <1>1, ProgramInvariant, PTL

-------------------------------------------------------------------------------
(* The one device that may be both in the overrides and in the file has    *)
(* each key from the overrides, then the file, then the default.           *)
LEMMA DevicesMerged ==
    ASSUME ProgramInv, ~Clash(overrides, file),
           NEW tree, tree = merge(overrides, file)
    PROVE  /\ DOMAIN tree.devices = DOMAIN (IF overrides.device = "none"
                                            THEN file.devices ELSE overrides.devices)
           /\ \A i \in DOMAIN tree.devices : \A k \in DeviceKeys :
                  get_devices(tree)[i][k] = Typed(WantedOfDevice(i, k), deviceDefault[k])
<1> DEFINE Merged == IF overrides.device = "none" THEN file.devices
                     ELSE IF overrides.device = "table" /\ file.device = "table"
                     THEN <<KeepFirst(overrides.devices[1], file.devices[1])>>
                     ELSE overrides.devices
<1>1. tree.devices = Merged
    BY DEF merge
<1> HIDE DEF Merged
<1>2. /\ IsDocument(overrides) /\ overrides.device # "array" /\ IsDocument(file)
      /\ ~(overrides.device = "table" /\ file.device = "array")
    BY DEF ProgramInv, StateTypes, FileInv, Clash
<1>3. ASSUME NEW i \in DOMAIN tree.devices, NEW k \in DeviceKeys
      PROVE  get_devices(tree)[i][k] = value_or(tree.devices[i], k, deviceDefault[k])
    BY DEF get_devices
<1>4. ASSUME NEW k \in DeviceKeys PROVE deviceDefault[k] # "mistyped"
    BY DEF deviceDefault
<1>5. CASE overrides.device \in {"none", "scalar"}
    <2>1. DOMAIN overrides.devices = {}
        BY <1>2, <1>5 DEF IsDocument
    <2>2. CASE overrides.device = "none"
        <3>1. tree.devices = file.devices
            BY <1>1, <2>2 DEF Merged
        <3> QED
            BY <1>3, <1>4, <2>1, <2>2, <3>1 DEF WantedOfDevice, Typed, value_or
    <2>3. CASE overrides.device = "scalar"
        <3>1. tree.devices = overrides.devices
            BY <1>1, <2>3 DEF Merged
        <3> QED
            BY <2>1, <2>3, <3>1
    <2> QED
        BY <1>5, <2>2, <2>3
<1>6. CASE overrides.device = "table" /\ file.device = "table"
    <2> DEFINE table == KeepFirst(overrides.devices[1], file.devices[1])
    <2>1. DOMAIN overrides.devices = {1} /\ DOMAIN file.devices = {1}
        BY <1>2, <1>6 DEF IsDocument
    <2>2. tree.devices = <<table>>
        BY <1>1, <1>6 DEF Merged
    <2>3. /\ DOMAIN table = DOMAIN overrides.devices[1] \cup DOMAIN file.devices[1]
          /\ \A k \in DOMAIN table :
                table[k] = IF k \in DOMAIN overrides.devices[1]
                           THEN overrides.devices[1][k] ELSE file.devices[1][k]
        BY DEF KeepFirst
    <2> HIDE DEF table
    <2>4. DOMAIN tree.devices = {1} /\ tree.devices[1] = table
        BY <2>2
    <2>5. ASSUME NEW k \in DeviceKeys
          PROVE  value_or(table, k, deviceDefault[k]) =
                     Typed(WantedOfDevice(1, k), deviceDefault[k])
        BY <1>4, <2>1, <2>3 DEF value_or, Typed, WantedOfDevice
    <2> QED
        BY <1>3, <1>6, <2>1, <2>4, <2>5
<1>7. CASE overrides.device = "table" /\ file.device \in {"none", "scalar"}
    <2>1. DOMAIN file.devices = {}
        BY <1>2, <1>7 DEF IsDocument
    <2>2. tree.devices = overrides.devices
        BY <1>1, <1>7 DEF Merged
    <2> QED
        BY <1>3, <1>4, <1>7, <2>1, <2>2 DEF WantedOfDevice, Typed, value_or
<1> QED
    BY <1>2, <1>5, <1>6, <1>7 DEF IsDocument, Given

(***************************************************************************)
(* What the user writes is what the server has, the command line before    *)
(* the file: every setting, each key of its devices that is read, and all  *)
(* digits of the difficulty, of any width; it does not start with numbers  *)
(* out of range or types of devices it does not know (config.hpp:97-171,   *)
(* 240-268).                                                               *)
(***************************************************************************)
THEOREM SettingsAsWritten == Spec => []SettingsObeyed
<1>1. ProgramInv => SettingsObeyed
    <2> SUFFICES ASSUME ProgramInv, phase = "serving" PROVE SettingsObeyed
        BY DEF SettingsObeyed
    <2> DEFINE tree  == merge(overrides, file)
               zeros == [i \in 1 .. 2 * SIZE_BYTES - Len(WantedDifficulty) |-> 0]
    <2>1. conf = read(tree) /\ ~throws(tree)
        BY DEF ProgramInv, ConfRead
    <2>2. /\ conf.devices = get_devices(tree)
          /\ conf.base_difficulty = from_hex(set(0), base_hex_l(tree)).bytes
          /\ \A k \in Settings : conf.settings[k] = get_as(tree, k)
        BY <2>1 DEF read
    <2>3. /\ tree.valid
          /\ \A k \in DOMAIN tree.values : tree.values[k] # "out_of_range"
          /\ from_hex(set(0), base_hex_l(tree)).ok
          /\ \A i \in DOMAIN tree.devices : ~Refused(get_devices(tree)[i])
        BY <2>1 DEF throws
    <2>4. file.valid /\ overrides.valid /\ ~Clash(overrides, file)
        BY <2>3 DEF merge
    <2>5. base_hex_l(tree) = WantedDifficulty
        BY DEF merge, base_hex_l, WantedDifficulty
    <2>6. /\ DOMAIN tree.devices = DOMAIN (IF overrides.device = "none"
                                           THEN file.devices ELSE overrides.devices)
          /\ \A i \in DOMAIN tree.devices : \A k \in DeviceKeys :
                get_devices(tree)[i][k] = Typed(WantedOfDevice(i, k), deviceDefault[k])
        BY <2>4, DevicesMerged
    <2>7. ASSUME NEW k \in Settings
          PROVE  /\ conf.settings[k] = Typed(Wanted(k), default(k))
                 /\ conf.settings[k] # "out_of_range"
        <3>1. conf.settings[k] = Typed(Wanted(k), default(k))
            BY <2>2, WantedIsRead DEF Typed
        <3>2. get_as(tree, k) # "out_of_range"
            BY <2>3 DEF get_as, value_or, default
        <3> QED
            BY <2>2, <3>1, <3>2
    <2>8. conf.devices = get_devices(tree) /\ DOMAIN conf.devices = DOMAIN tree.devices
        BY <2>2 DEF get_devices
    <2>9. to_hex(conf.base_difficulty) = zeros \o WantedDifficulty
        <3>1. WantedDifficulty \in HexTexts
            <4>1. BASE_DIFFICULTY \in HexTexts
                BY DEF BASE_DIFFICULTY, HexTexts, NoDigit
            <4> QED
                BY <4>1 DEF WantedDifficulty, FirstGiven, ProgramInv, FileInv, StateTypes,
                            IsDocument, GivenDifficulty
        <3> HIDE DEF tree
        <3>2. /\ WantedDifficulty \in Seq(Digits) /\ Len(WantedDifficulty) <= 2 * SIZE_BYTES
              /\ conf.base_difficulty = set(Value(16, WantedDifficulty))
            BY <2>2, <2>3, <2>5, <3>1, FromHexReads
        <3> QED
            BY <3>2, HexRoundTrip DEF Padded
    <2> HIDE DEF tree
    <2> QED
        BY <2>3, <2>4, <2>6, <2>7, <2>8, <2>9 DEF SettingsObeyed
<1> QED
    BY <1>1, ProgramInvariant, PTL

(***************************************************************************)
(* A documented file, with any comment signs removed, configures a server  *)
(* as no file does, but for the device it has (config.hpp:176-223), also   *)
(* where the difficulty is written out at any width.                       *)
(***************************************************************************)
THEOREM GeneratedIsNeutral == Spec => []GeneratedFileIsNeutral
<1>1. ProgramInv => GeneratedFileIsNeutral
    <2> SUFFICES ASSUME ProgramInv, phase = "serving", generated, overrides = Empty
                 PROVE  /\ conf.settings = read(Empty).settings
                        /\ conf.base_difficulty = read(Empty).base_difficulty
                        /\ Len(conf.devices) = 1
        BY DEF GeneratedFileIsNeutral
    <2> DEFINE tree == merge(overrides, file)
    <2>1. conf = read(tree)
        BY DEF ProgramInv, ConfRead
    <2>2. ASSUME NEW k PROVE get_as(tree, k) = default(k) /\ get_as(Empty, k) = default(k)
        <3>1. Wanted(k) = default(k)
            BY DEF Wanted, Empty, NoValues, ProgramInv, FileInv
        <3>2. get_as(tree, k) = default(k)
            BY <3>1, WantedIsRead
        <3> QED
            BY <3>2 DEF get_as, value_or, Empty, NoValues
    <2>3. conf.settings = read(Empty).settings
        BY <2>1, <2>2 DEF read
    <2>4. conf.base_difficulty = read(Empty).base_difficulty
        <3>1. base_hex_l(tree) \in {BASE_DIFFICULTY, writtenDifficulty}
            BY DEF merge, FirstGiven, base_hex_l, Empty, NotGiven, Difficulty,
                   ProgramInv, FileInv
        <3>2. read(Empty).base_difficulty = from_hex(set(0), BASE_DIFFICULTY).bytes
            BY DEF read, base_hex_l, Empty, NotGiven
        <3>3. CASE base_hex_l(tree) = BASE_DIFFICULTY
            BY <2>1, <3>2, <3>3 DEF read
        <3>4. CASE base_hex_l(tree) = writtenDifficulty
            <4>1. conf.base_difficulty = from_hex(set(0), writtenDifficulty).bytes
                BY <2>1, <3>4 DEF read
            <4>2. ASSUME NEW text \in Seq(Digits), text # <<>>, Len(text) <= 2 * SIZE_BYTES
                  PROVE  from_hex(set(0), text).bytes = set(Value(16, text))
                <5>1. text \in HexTexts
                    BY DEF Digits, HexTexts, NoDigit
                <5> QED
                    BY <4>2, <5>1, FromHexReads
            <4>3. BASE_DIFFICULTY # <<>>
                BY DEF BASE_DIFFICULTY
            <4>4. 2 * SIZE_BYTES <= 2 * SIZE_BYTES
                BY NumbersAssumption
            <4>5. /\ from_hex(set(0), writtenDifficulty).bytes = set(Value(16, writtenDifficulty))
                  /\ from_hex(set(0), BASE_DIFFICULTY).bytes = set(Value(16, BASE_DIFFICULTY))
                <5>1. writtenDifficulty # <<>>
                    BY WrittenText, NumbersAssumption
                <5> QED
                    BY <4>2, <4>3, <4>4, <5>1, WrittenText
            <4>6. Value(16, writtenDifficulty) = Value(16, BASE_DIFFICULTY)
                BY WrittenText, PaddedSame
            <4> QED
                BY <3>2, <4>1, <4>5, <4>6
        <3> QED
            BY <3>1, <3>3, <3>4
    <2>5. Len(conf.devices) = 1
        <3>1. PICK table : tree.devices = <<table>>
            BY DEF merge, Empty, ProgramInv, FileInv
        <3>2. conf.devices = get_devices(tree)
            BY <2>1 DEF read
        <3> DEFINE x == [k \in DeviceKeys |-> value_or(table, k, deviceDefault[k])]
        <3> HIDE DEF tree
        <3>3. DOMAIN tree.devices = 1 .. 1 /\ tree.devices[1] = table
            BY <3>1
        <3>4. get_devices(tree) = [i \in 1 .. 1 |-> x]
            BY <3>3 DEF get_devices
        <3> HIDE DEF x
        <3>5. Len([i \in 1 .. 1 |-> x]) = 1
            OBVIOUS
        <3> QED
            BY <3>2, <3>4, <3>5
    <2> QED
        BY <2>3, <2>4, <2>5
<1> QED
    BY <1>1, ProgramInvariant, PTL

-------------------------------------------------------------------------------
(* What is stored is bytes, whatever the text. *)
LEMMA StoredBytes ==
    ASSUME NEW text \in HexTexts
    PROVE  from_hex(set(0), text).bytes \in [1 .. SIZE_BYTES -> 0 .. 255]
<1>1. ASSUME NEW n \in Nat PROVE set(n) \in [1 .. SIZE_BYTES -> 0 .. 255]
    <2>1. 256 \in Nat \ {0} /\ SIZE_BYTES \in Nat
        BY NumbersAssumption
    <2>2. ASSUME NEW i \in 1 .. SIZE_BYTES
          PROVE  Places(256, SIZE_BYTES, n)[i] \in 0 .. 255
        <3>1. /\ Places(256, SIZE_BYTES, n)[i] \in Nat
              /\ Places(256, SIZE_BYTES, n)[i] < 256
            BY <2>1, PlacesRange
        <3> QED
            BY <3>1
    <2> QED
        BY <2>2 DEF set, Places
<1>2. Prefix(text) \in Seq(Digits)
    BY PrefixAll
<1>3. Value(16, Prefix(text)) \in Nat
    <2>1. Len(Prefix(text)) \in Nat
        BY <1>2
    <2>2. Len(Prefix(text)) <= Len(Prefix(text))
        BY <2>1
    <2> QED
        BY <1>2, <2>1, <2>2, WriteBack
<1> QED
    BY <1>1, <1>3 DEF from_hex

(* Every variable keeps its type; the difficulty is bytes, however a text  *)
(* is cut short or refused (util.hpp:56-75).                               *)
THEOREM ProgramTypeCorrect == Spec => []TypeOK
<1>1. ProgramInv => TypeOK
    <2> SUFFICES ASSUME ProgramInv PROVE TypeOK
        OBVIOUS
    <2>1. PICK tree : tree.base_difficulty \in GivenDifficulty /\ conf = read(tree)
        BY DEF ProgramInv, StateTypes
    <2>2. DOMAIN conf.settings = Settings
        BY <2>1 DEF read
    <2>3. conf.base_difficulty \in [1 .. SIZE_BYTES -> 0 .. 255]
        <3>1. BASE_DIFFICULTY \in HexTexts
            BY DEF BASE_DIFFICULTY, HexTexts, NoDigit
        <3>2. base_hex_l(tree) \in HexTexts
            BY <2>1, <3>1 DEF base_hex_l, GivenDifficulty
        <3> QED
            BY <2>1, <3>2, StoredBytes DEF read
    <2> QED
        BY <2>2, <2>3 DEF TypeOK, ProgramInv, StateTypes, FileInv
<1> QED
    BY <1>1, ProgramInvariant, PTL
===============================================================================
