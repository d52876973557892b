---------------------------- MODULE BrowserDevice ----------------------------
(***************************************************************************)
(* The creation of WebRuntimes (web.rs, WebRuntime::create): every runtime *)
(* of a page shares the WebGPU device, the list of uncaptured errors and   *)
(* the caches of resident weights that the thread local BROWSER_DEVICE     *)
(* holds.  create waits for an adapter and for a device, and other calls   *)
(* of create run meanwhile.                                                *)
(***************************************************************************)
CONSTANTS Runtime,      \* calls of create
          NoDevice

VARIABLES
    slot,       \* BROWSER_DEVICE
    create,     \* where each call is
    device      \* what each runtime uses

vars == <<slot, create, device>>

(* A device, with its queue, its error list and its caches, is named after *)
(* the call that requested it.                                             *)
Device == Runtime \cup {NoDevice}

TypeOK ==
    /\ slot \in Device
    /\ create \in [Runtime -> {"uncalled", "adapter", "device", "made",
                               "failed"}]
    /\ device \in [Runtime -> Device]

Init ==
    /\ slot = NoDevice
    /\ create = [r \in Runtime |-> "uncalled"]
    /\ device = [r \in Runtime |-> NoDevice]

(* With a device in the slot, create does not wait at all. *)
CreateAtOnce(r) ==
    /\ create[r] = "uncalled"
    /\ slot # NoDevice
    /\ create' = [create EXCEPT ![r] = "made"]
    /\ device' = [device EXCEPT ![r] = slot]
    /\ UNCHANGED slot

Create(r) ==
    /\ create[r] = "uncalled"
    /\ slot = NoDevice
    /\ create' = [create EXCEPT ![r] = "adapter"]
    /\ UNCHANGED <<slot, device>>

AdapterGranted(r) ==
    /\ create[r] = "adapter"
    /\ create' = [create EXCEPT ![r] = "device"]
    /\ UNCHANGED <<slot, device>>

(* The slot once call r has filled it.  Mutant: the last device is kept.   *)
FilledLast(r) == r
Filled(r) == IF slot = NoDevice THEN r ELSE slot

(* The call fills an empty slot, and then uses what the slot holds.        *)
DeviceGranted(r) ==
    /\ create[r] = "device"
    /\ slot' = Filled(r)
    /\ device' = [device EXCEPT ![r] = slot']
    /\ create' = [create EXCEPT ![r] = "made"]

RequestFails(r) ==
    /\ create[r] \in {"adapter", "device"}
    /\ create' = [create EXCEPT ![r] = "failed"]
    /\ UNCHANGED <<slot, device>>

Next == \E r \in Runtime :
    \/ CreateAtOnce(r)
    \/ Create(r)
    \/ AdapterGranted(r)
    \/ DeviceGranted(r)
    \/ RequestFails(r)

Spec == Init /\ [][Next]_vars
-----------------------------------------------------------------------------
(* Whatever the order in which devices are granted, all runtimes use the   *)
(* device, the error list and the caches of the slot: an uncaptured error  *)
(* of any runtime's work is seen by all, and weights made resident by one  *)
(* are on the device of every other.                                       *)
OneDevice == \A r \in Runtime : create[r] = "made" =>
                 device[r] = slot /\ slot # NoDevice
=============================================================================
