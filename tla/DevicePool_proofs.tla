--------------------------- MODULE DevicePool_proofs ---------------------------
(***************************************************************************)
(* The proof that the search for a device never runs off the end, for any  *)
(* number of devices and as many threads.                                  *)
(*                                                                         *)
(* A thread at a busy device d knows that another thread holds d.  That    *)
(* thread is at d but not beyond it, so when the search moves on to d + 1  *)
(* the threads beyond d are those at or beyond d without the holder: one   *)
(* fewer.  At End there is room for none.                                  *)
(***************************************************************************)
EXTENDS DevicePool, FiniteSetTheorems, TLAPS

(* Where a thread is bounds which of the sets AtOrBeyond it belongs to. *)
LEMMA AtOrBeyondFinite ==
    ASSUME NEW d \in Int
    PROVE  /\ IsFiniteSet(AtOrBeyond(d))
           /\ Cardinality(AtOrBeyond(d)) \in Nat
           /\ Cardinality(AtOrBeyond(d)) <= NumDevices
<1>1. AtOrBeyond(d) \subseteq Workers
    BY DEF AtOrBeyond
<1>2. IsFiniteSet(Workers) /\ Cardinality(Workers) = NumDevices
    BY DevicePoolAssumption
<1> QED BY <1>1, <1>2, FS_Subset, FS_CardinalityType

(* A subset of the threads at or beyond a device is no larger. *)
LEMMA CrowdShrinks ==
    ASSUME NEW d \in Int, NEW e \in Int, NEW S, S \subseteq AtOrBeyond(d),
           Cardinality(AtOrBeyond(d)) <= e
    PROVE  IsFiniteSet(S) /\ Cardinality(S) <= e
<1>1. IsFiniteSet(AtOrBeyond(d)) /\ Cardinality(AtOrBeyond(d)) \in Nat
    BY AtOrBeyondFinite
<1>2. IsFiniteSet(S) /\ Cardinality(S) <= Cardinality(AtOrBeyond(d))
    BY <1>1, FS_Subset
<1>3. Cardinality(S) \in Nat
    BY <1>2, FS_CardinalityType
<1> QED BY <1>1, <1>2, <1>3

(* No search stands at End: the invariant leaves no room there. *)
LEMMA NoneAtEnd ==
    ASSUME DeviceInv
    PROVE  DeviceAvailable
<1> SUFFICES ASSUME NEW w \in Workers, cursor[w] = End
             PROVE  FALSE
    BY DEF DeviceAvailable
<1>1. End \in 1 .. End /\ End \in Int
    BY DevicePoolAssumption DEF End
<1>2. Cardinality(AtOrBeyond(End)) <= 0
    BY <1>1 DEF DeviceInv, NoCrowding
<1>3. IsFiniteSet(AtOrBeyond(End)) /\ Cardinality(AtOrBeyond(End)) \in Nat
    BY <1>1, AtOrBeyondFinite
<1>4. AtOrBeyond(End) = {}
    BY <1>2, <1>3, FS_EmptySet
<1>5. w \in AtOrBeyond(End)
    BY <1>1 DEF AtOrBeyond
<1> QED BY <1>4, <1>5

-------------------------------------------------------------------------------
LEMMA InitDeviceInv ==
    ASSUME Init
    PROVE  DeviceInv
<1>1. NumDevices \in Nat /\ End \in Nat /\ End > 0
    BY DevicePoolAssumption DEF End
<1>2. TypeOK
    BY <1>1 DEF Init, TypeOK, End, NoDevice, Devices
<1>3. BusyExactlyWhenHeld
    BY <1>1 DEF Init, BusyExactlyWhenHeld, Devices, NoDevice
<1>4. OneDeviceAtATime
    BY DEF Init, OneDeviceAtATime
<1>5. NoCrowding
    <2> SUFFICES ASSUME NEW d \in 1 .. End
                 PROVE  Cardinality(AtOrBeyond(d)) <= End - d
        BY DEF NoCrowding
    <2>1. AtOrBeyond(d) = {}
        BY <1>1 DEF Init, AtOrBeyond, NoDevice
    <2> QED BY <1>1, <2>1, FS_EmptySet
<1> QED BY <1>2, <1>3, <1>4, <1>5 DEF DeviceInv

(* A thread enters the search: it comes to be at device 1, beyond no other. *)
LEMMA StartScanKeeps ==
    ASSUME DeviceInv, NEW w \in Workers, StartScan(w)
    PROVE  DeviceInv'
<1>1. NumDevices \in Nat /\ End = NumDevices + 1
    BY DevicePoolAssumption DEF End
<1>2. /\ cursor \in [Workers -> 0 .. End] /\ held \in [Workers -> 0 .. NumDevices]
      /\ cursor' = [cursor EXCEPT ![w] = 1] /\ UNCHANGED <<busy, held>>
    BY DEF DeviceInv, TypeOK, StartScan
<1>3. TypeOK'
    BY <1>1, <1>2 DEF DeviceInv, TypeOK, Devices
<1>4. BusyExactlyWhenHeld'
    BY <1>2 DEF DeviceInv, BusyExactlyWhenHeld
<1>5. OneDeviceAtATime'
    BY <1>2 DEF DeviceInv, OneDeviceAtATime, StartScan
<1>6. NoCrowding'
    <2> SUFFICES ASSUME NEW d \in 1 .. End
                 PROVE  Cardinality(AtOrBeyond(d)') <= End - d
        BY DEF NoCrowding, End
    <2>1. CASE d = 1
        <3>1. AtOrBeyond(d)' \subseteq Workers
            BY DEF AtOrBeyond
        <3>2. Cardinality(AtOrBeyond(d)') <= Cardinality(Workers)
            BY <3>1, DevicePoolAssumption, FS_Subset
        <3> QED BY <1>1, <2>1, <3>2, DevicePoolAssumption
    <2>2. CASE d # 1
        <3>1. AtOrBeyond(d)' \subseteq AtOrBeyond(d)
            BY <1>1, <1>2, <2>2 DEF AtOrBeyond
        <3>2. Cardinality(AtOrBeyond(d)) <= End - d
            BY DEF DeviceInv, NoCrowding
        <3> QED BY <1>1, <3>1, <3>2, CrowdShrinks
    <2> QED BY <2>1, <2>2
<1> QED BY <1>3, <1>4, <1>5, <1>6 DEF DeviceInv

(* The exchange finds the flag clear: the thread stays where it was searching. *)
LEMMA ClaimKeeps ==
    ASSUME DeviceInv, NEW w \in Workers, TestAndSet(w), ~busy[cursor[w]]
    PROVE  DeviceInv'
<1> DEFINE c == cursor[w]
<1>1. NumDevices \in Nat /\ End = NumDevices + 1
    BY DevicePoolAssumption DEF End
<1>2. /\ busy \in [Devices -> BOOLEAN] /\ cursor \in [Workers -> 0 .. End]
      /\ held \in [Workers -> 0 .. NumDevices]
    BY DEF DeviceInv, TypeOK
<1>3. /\ c \in Devices /\ c \in 1 .. NumDevices
      /\ busy' = [busy EXCEPT ![c] = TRUE]
      /\ cursor' = [cursor EXCEPT ![w] = 0]
      /\ held' = [held EXCEPT ![w] = c]
    BY DEF TestAndSet, NoDevice, Devices
<1>4. held[w] = 0
    BY <1>1, <1>2, <1>3 DEF DeviceInv, OneDeviceAtATime, NoDevice
<1>5. \A v \in Workers : held[v] # c
    BY <1>3 DEF DeviceInv, BusyExactlyWhenHeld
<1>6. TypeOK'
    BY <1>1, <1>2, <1>3 DEF TypeOK, Devices, End
<1>7. BusyExactlyWhenHeld'
    <2> SUFFICES ASSUME NEW d \in Devices
                 PROVE  /\ busy'[d] <=> \E v \in Workers : held'[v] = d
                        /\ \A v, u \in Workers : held'[v] = d /\ held'[u] = d => v = u
        BY DEF BusyExactlyWhenHeld
    <2>1. CASE d = c
        BY <1>2, <1>3, <1>5, <2>1
    <2>2. CASE d # c
        <3>1. \A v \in Workers : held'[v] = d <=> held[v] = d
            BY <1>2, <1>3, <1>4, <2>2 DEF Devices
        <3>2. busy'[d] = busy[d]
            BY <1>2, <1>3, <2>2
        <3> QED BY <3>1, <3>2 DEF DeviceInv, BusyExactlyWhenHeld
    <2> QED BY <2>1, <2>2
<1>8. OneDeviceAtATime'
    BY <1>2, <1>3 DEF DeviceInv, OneDeviceAtATime, NoDevice
<1>9. NoCrowding'
    <2> SUFFICES ASSUME NEW d \in 1 .. End
                 PROVE  Cardinality(AtOrBeyond(d)') <= End - d
        BY DEF NoCrowding, End
    <2>1. AtOrBeyond(d)' \subseteq AtOrBeyond(d)
        BY <1>1, <1>2, <1>3 DEF AtOrBeyond
    <2>2. Cardinality(AtOrBeyond(d)) <= End - d
        BY DEF DeviceInv, NoCrowding
    <2> QED BY <1>1, <2>1, <2>2, CrowdShrinks
<1> QED BY <1>6, <1>7, <1>8, <1>9 DEF DeviceInv

(***************************************************************************)
(* The exchange finds the flag set: the thread moves beyond the device and *)
(* leaves its holder behind.                                               *)
(***************************************************************************)
LEMMA MoveOnKeeps ==
    ASSUME DeviceInv, NEW w \in Workers, TestAndSet(w), busy[cursor[w]]
    PROVE  DeviceInv'
<1> DEFINE c == cursor[w]
<1>1. NumDevices \in Nat /\ End = NumDevices + 1
    BY DevicePoolAssumption DEF End
<1>2. /\ busy \in [Devices -> BOOLEAN] /\ cursor \in [Workers -> 0 .. End]
      /\ held \in [Workers -> 0 .. NumDevices]
    BY DEF DeviceInv, TypeOK
<1>3. /\ c \in Devices /\ c \in 1 .. NumDevices /\ busy[c] = TRUE
      /\ busy' = [busy EXCEPT ![c] = TRUE]
      /\ cursor' = [cursor EXCEPT ![w] = c + 1]
      /\ held' = held
    BY <1>2 DEF TestAndSet, Devices
<1>4. busy' = busy
    BY <1>2, <1>3
<1>5. TypeOK'
    BY <1>1, <1>2, <1>3, <1>4 DEF TypeOK
<1>6. BusyExactlyWhenHeld'
    BY <1>3, <1>4 DEF DeviceInv, BusyExactlyWhenHeld
<1>7. OneDeviceAtATime'
    BY <1>1, <1>2, <1>3 DEF DeviceInv, OneDeviceAtATime, NoDevice
<1>8. PICK v \in Workers : held[v] = c
    BY <1>3 DEF DeviceInv, BusyExactlyWhenHeld
<1>9. v # w /\ cursor[v] = 0
    BY <1>1, <1>2, <1>3, <1>8 DEF DeviceInv, OneDeviceAtATime, NoDevice
<1>10. NoCrowding'
    <2> SUFFICES ASSUME NEW d \in 1 .. End
                 PROVE  Cardinality(AtOrBeyond(d)') <= End - d
        BY DEF NoCrowding, End
    <2>1. CASE d # c + 1
        <3>1. AtOrBeyond(d)' \subseteq AtOrBeyond(d)
            BY <1>1, <1>2, <1>3, <2>1 DEF AtOrBeyond
        <3>2. Cardinality(AtOrBeyond(d)) <= End - d
            BY DEF DeviceInv, NoCrowding
        <3> QED BY <1>1, <3>1, <3>2, CrowdShrinks
    <2>2. CASE d = c + 1
        <3>1. c \in 1 .. End /\ Cardinality(AtOrBeyond(c)) <= End - c
            BY <1>1, <1>3 DEF DeviceInv, NoCrowding
        <3>2. IsFiniteSet(AtOrBeyond(c)) /\ Cardinality(AtOrBeyond(c)) \in Nat
            BY <1>3, AtOrBeyondFinite
        <3>3. v \in AtOrBeyond(c)
            BY <1>3, <1>8 DEF AtOrBeyond
        <3>4. /\ IsFiniteSet(AtOrBeyond(c) \ {v})
              /\ Cardinality(AtOrBeyond(c) \ {v}) = Cardinality(AtOrBeyond(c)) - 1
            BY <3>2, <3>3, FS_RemoveElement
        <3>5. AtOrBeyond(d)' \subseteq AtOrBeyond(c) \ {v}
            BY <1>1, <1>2, <1>3, <1>8, <1>9, <2>2 DEF AtOrBeyond
        <3>6. Cardinality(AtOrBeyond(d)') <= Cardinality(AtOrBeyond(c) \ {v})
              /\ IsFiniteSet(AtOrBeyond(d)')
            BY <3>4, <3>5, FS_Subset
        <3>7. Cardinality(AtOrBeyond(d)') \in Nat
            BY <3>6, FS_CardinalityType
        <3> QED BY <1>1, <1>3, <2>2, <3>1, <3>2, <3>4, <3>6, <3>7
    <2> QED BY <2>1, <2>2
<1> QED BY <1>5, <1>6, <1>7, <1>10 DEF DeviceInv

(* A device is given back: one thread fewer at or beyond every device up to it. *)
LEMMA ReleaseKeeps ==
    ASSUME DeviceInv, NEW w \in Workers, Release(w)
    PROVE  DeviceInv'
<1> DEFINE h == held[w]
<1>1. NumDevices \in Nat /\ End = NumDevices + 1
    BY DevicePoolAssumption DEF End
<1>2. /\ busy \in [Devices -> BOOLEAN] /\ cursor \in [Workers -> 0 .. End]
      /\ held \in [Workers -> 0 .. NumDevices]
    BY DEF DeviceInv, TypeOK
<1>3. /\ h \in Devices
      /\ busy' = [busy EXCEPT ![h] = FALSE]
      /\ held' = [held EXCEPT ![w] = 0]
      /\ cursor' = cursor
    BY <1>1, <1>2 DEF Release, NoDevice, Devices
<1>4. TypeOK'
    BY <1>1, <1>2, <1>3 DEF TypeOK, End
<1>5. BusyExactlyWhenHeld'
    <2> SUFFICES ASSUME NEW d \in Devices
                 PROVE  /\ busy'[d] <=> \E v \in Workers : held'[v] = d
                        /\ \A v, u \in Workers : held'[v] = d /\ held'[u] = d => v = u
        BY DEF BusyExactlyWhenHeld
    <2>1. CASE d = h
        <3>1. \A v \in Workers : held[v] = h => v = w
            BY <1>3 DEF DeviceInv, BusyExactlyWhenHeld
        <3>2. \A v \in Workers : held'[v] # d
            BY <1>2, <1>3, <2>1, <3>1 DEF Devices
        <3> QED BY <1>2, <1>3, <2>1, <3>2
    <2>2. CASE d # h
        <3>1. \A v \in Workers : held'[v] = d <=> held[v] = d
            BY <1>2, <1>3, <2>2 DEF Devices
        <3>2. busy'[d] = busy[d]
            BY <1>2, <1>3, <2>2
        <3> QED BY <3>1, <3>2 DEF DeviceInv, BusyExactlyWhenHeld
    <2> QED BY <2>1, <2>2
<1>6. OneDeviceAtATime'
    BY <1>2, <1>3 DEF DeviceInv, OneDeviceAtATime, NoDevice
<1>7. NoCrowding'
    <2> SUFFICES ASSUME NEW d \in 1 .. End
                 PROVE  Cardinality(AtOrBeyond(d)') <= End - d
        BY DEF NoCrowding, End
    <2>1. AtOrBeyond(d)' \subseteq AtOrBeyond(d)
        BY <1>1, <1>2, <1>3 DEF AtOrBeyond
    <2>2. Cardinality(AtOrBeyond(d)) <= End - d
        BY DEF DeviceInv, NoCrowding
    <2> QED BY <1>1, <2>1, <2>2, CrowdShrinks
<1> QED BY <1>4, <1>5, <1>6, <1>7 DEF DeviceInv

-------------------------------------------------------------------------------
(* Every step of every thread keeps the invariant. *)
LEMMA NextDeviceInv ==
    ASSUME DeviceInv, [Next]_devVars
    PROVE  DeviceInv'
<1>1. CASE UNCHANGED devVars
    BY <1>1 DEF devVars, DeviceInv, TypeOK, BusyExactlyWhenHeld, OneDeviceAtATime,
                NoCrowding, AtOrBeyond
<1>2. ASSUME NEW w \in Workers, StartScan(w)
      PROVE  DeviceInv'
    BY <1>2, StartScanKeeps
<1>3. ASSUME NEW w \in Workers, TestAndSet(w)
      PROVE  DeviceInv'
    BY <1>3, ClaimKeeps, MoveOnKeeps
<1>4. ASSUME NEW w \in Workers, Release(w)
      PROVE  DeviceInv'
    BY <1>4, ReleaseKeeps
<1> QED BY <1>1, <1>2, <1>3, <1>4 DEF Next

(***************************************************************************)
(* The busy flags are set exactly for the devices threads hold, one each,  *)
(* and the threads at or beyond a device never outnumber the devices left. *)
(***************************************************************************)
THEOREM DeviceInvariant == Spec => []DeviceInv
<1>1. Init => DeviceInv
    BY InitDeviceInv
<1>2. DeviceInv /\ [Next]_devVars => DeviceInv'
    BY NextDeviceInv
<1> QED BY <1>1, <1>2, PTL DEF Spec

(***************************************************************************)
(* aquire_first_available_device () never throws: with one thread per      *)
(* device, no interleaving of searches and releases makes a thread see     *)
(* every device busy.                                                      *)
(***************************************************************************)
THEOREM DeviceAlwaysAvailable == Spec => []DeviceAvailable
<1>1. DeviceInv => DeviceAvailable
    BY NoneAtEnd
<1> QED BY <1>1, DeviceInvariant, PTL
===============================================================================
