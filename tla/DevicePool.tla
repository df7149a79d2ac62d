------------------------------ MODULE DevicePool ------------------------------
(***************************************************************************)
(* The work devices of a work_handler: the vector `devices` of             *)
(* registered_device objects, each with an atomic busy flag.  A thread of  *)
(* the pool claims a device by running aquire_first_available_device (),   *)
(* a find_if over the vector whose predicate is one atomic exchange per    *)
(* device, and gives it back with release ().                              *)
(*                                                                         *)
(* The search is not atomic: between two of its exchanges other threads    *)
(* release and claim devices the search has already passed.  A search that *)
(* reaches devices.end () throws "No available devices".  The source       *)
(* argues that this cannot happen because the pool has exactly one thread  *)
(* per device; DeviceAvailable is that claim.                              *)
(***************************************************************************)
EXTENDS Integers, FiniteSets

CONSTANTS
    Workers,     \* the threads of boost::asio::thread_pool pool
    NumDevices   \* devices.size ()

\* work_handler's constructor builds pool (config.devices.size ()).
ASSUME DevicePoolAssumption ==
    /\ NumDevices \in Nat
    /\ IsFiniteSet(Workers)
    /\ Cardinality(Workers) = NumDevices

VARIABLES
    busy,     \* registered_device::busy of every device
    cursor,   \* the element a thread's find_if tests next; NoDevice outside one
    held      \* the device a thread has claimed, or NoDevice

devVars == <<busy, cursor, held>>

Devices  == 1 .. NumDevices
NoDevice == 0
End      == NumDevices + 1      \* devices.end ()

Init ==
    /\ busy   = [d \in Devices |-> FALSE]
    /\ cursor = [w \in Workers |-> NoDevice]
    /\ held   = [w \in Workers |-> NoDevice]

(***************************************************************************)
(* A thread enters aquire_first_available_device ().  A cursor left at End *)
(* is that of an earlier search that threw.                                *)
(***************************************************************************)
StartScan(w) ==
    /\ held[w] = NoDevice
    /\ cursor[w] \notin Devices
    /\ cursor' = [cursor EXCEPT ![w] = 1]
    /\ UNCHANGED <<busy, held>>

(***************************************************************************)
(* One evaluation of find_if's predicate !try_aquire (): exchange (true)   *)
(* on the flag under the cursor.  The old value decides: clear, and the    *)
(* thread has this device; set, and the search goes on to the next         *)
(* element, or to End, where the function throws.                          *)
(***************************************************************************)
TestAndSet(w) ==
    /\ cursor[w] \in Devices
    /\ busy' = [busy EXCEPT ![cursor[w]] = TRUE]
    /\ IF busy[cursor[w]]
       THEN /\ cursor' = [cursor EXCEPT ![w] = @ + 1]
            /\ UNCHANGED held
       ELSE /\ held' = [held EXCEPT ![w] = cursor[w]]
            /\ cursor' = [cursor EXCEPT ![w] = NoDevice]

(* Faulty variant: the thread leaves without clearing the busy flag. *)
ReleaseForgotten(w) ==
    /\ held[w] # NoDevice
    /\ held' = [held EXCEPT ![w] = NoDevice]
    /\ UNCHANGED <<busy, cursor>>

(* registered_device::release (): exchange (false) on the claimed device. *)
Release(w) ==
    /\ held[w] # NoDevice
    /\ busy' = [busy EXCEPT ![held[w]] = FALSE]
    /\ held' = [held EXCEPT ![w] = NoDevice]
    /\ UNCHANGED cursor

Next ==
    \E w \in Workers :
        \/ StartScan(w)
        \/ TestAndSet(w)
        \/ Release(w)

Spec == Init /\ [][Next]_devVars

-------------------------------------------------------------------------------
(* Every variable has its type; a cursor may stand at End. *)
TypeOK ==
    /\ busy \in [Devices -> BOOLEAN]
    /\ cursor \in [Workers -> 0 .. End]
    /\ held \in [Workers -> 0 .. NumDevices]

(***************************************************************************)
(* No device leaks and none is handed out twice: a busy flag is set exactly *)
(* when one thread holds that device (try_aquire and release are the only  *)
(* writers of the flag).                                                   *)
(***************************************************************************)
BusyExactlyWhenHeld ==
    \A d \in Devices :
        /\ busy[d] <=> \E w \in Workers : held[w] = d
        /\ \A v, w \in Workers : held[v] = d /\ held[w] = d => v = w

(***************************************************************************)
(* The claim of the comment in handle_request_async: a driver is available *)
(* whenever the pool handler is called, so no search runs off the end.     *)
(***************************************************************************)
DeviceAvailable == \A w \in Workers : cursor[w] # End

(***************************************************************************)
(* Why: the threads at or beyond device d, searching or holding, never     *)
(* outnumber the devices from d on.  A search gets past d only because     *)
(* another thread holds d, and that one is not beyond d.                   *)
(***************************************************************************)
AtOrBeyond(d) == {w \in Workers : cursor[w] >= d \/ held[w] >= d}

NoCrowding ==
    \A d \in 1 .. End : Cardinality(AtOrBeyond(d)) <= End - d

(* A thread holding a device is not searching for another one. *)
OneDeviceAtATime ==
    \A w \in Workers : held[w] # NoDevice => cursor[w] = NoDevice

DeviceInv == TypeOK /\ BusyExactlyWhenHeld /\ OneDeviceAtATime /\ NoCrowding
===============================================================================
