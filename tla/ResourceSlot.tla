---------------------------- MODULE ResourceSlot ----------------------------
(***************************************************************************)
(* Admission to a scarce resource: `async_resource_slot("ai")` and its     *)
(* TTS twin `_async_tts_resource_slot` in app/services/security.py.        *)
(*                                                                         *)
(* Each resource has two bounded semaphores: the slots themselves and the  *)
(* permits to wait for one.  A caller tries a slot without blocking; if    *)
(* none is free it needs a waiting permit (again without blocking) and     *)
(* then polls until it gets a slot or its time is up.  There is no queue:  *)
(* a newcomer may take a slot before a caller that has waited longer.      *)
(*                                                                         *)
(* Both context managers run on the event loop and suspend only in         *)
(* `anyio.sleep`, so what lies between two sleeps is one step.             *)
(***************************************************************************)
EXTENDS Integers, FiniteSets

CONSTANTS
    Clients,      \* the requests that enter `async with async_resource_slot(...)`
    Slots,        \* max(1, settings.<resource>_global_concurrency)
    WaitCapacity  \* max(0, settings.<resource>_queue_waiting_capacity)

ASSUME SlotAssumption ==
    /\ IsFiniteSet(Clients)
    /\ Slots \in Nat \ {0}
    /\ WaitCapacity \in Nat

VARIABLES
    slotValue,  \* value of _resource_semaphores[resource]
    waitValue,  \* value of _resource_waiting_semaphores[resource]
    slotState   \* where each client stands in the context manager

slotVars == <<slotValue, waitValue, slotState>>

SlotStates == {"outside", "waiting", "inside"}

SlotTypeOK ==
    /\ slotValue \in 0..Slots
    /\ waitValue \in 0..WaitCapacity
    /\ slotState \in [Clients -> SlotStates]

SlotInit ==
    /\ slotValue = Slots
    /\ waitValue = WaitCapacity
    /\ slotState = [c \in Clients |-> "outside"]

-----------------------------------------------------------------------------
(* The steps.                                                              *)

\* The first, non-blocking `semaphore.acquire` succeeds.
EnterAtOnce(c) ==
    /\ slotState[c] = "outside"
    /\ slotValue > 0
    /\ slotValue' = slotValue - 1
    /\ slotState' = [slotState EXCEPT ![c] = "inside"]
    /\ UNCHANGED waitValue

\* No slot is free and a waiting permit is.
StartWaiting(c) ==
    /\ slotState[c] = "outside"
    /\ slotValue = 0
    /\ waitValue > 0
    /\ waitValue' = waitValue - 1
    /\ slotState' = [slotState EXCEPT ![c] = "waiting"]
    /\ UNCHANGED slotValue

\* Neither is free: 503, nothing was taken.
QueueFull(c) ==
    /\ slotState[c] = "outside"
    /\ slotValue = 0
    /\ waitValue = 0
    /\ UNCHANGED slotVars

\* Mutant: the waiting permit is kept by a client that got its slot.
EnterKeepingPermit(c) ==
    /\ slotState[c] = "waiting"
    /\ slotValue > 0
    /\ slotValue' = slotValue - 1
    /\ slotState' = [slotState EXCEPT ![c] = "inside"]
    /\ UNCHANGED waitValue

\* A poll gets a slot; the `finally` gives the waiting permit back.
EnterAfterWait(c) ==
    /\ slotState[c] = "waiting"
    /\ slotValue > 0
    /\ slotValue' = slotValue - 1
    /\ waitValue' = waitValue + 1
    /\ slotState' = [slotState EXCEPT ![c] = "inside"]

\* Mutant: the deadline is looked at before the semaphore.
TimeoutBeforeTry(c) ==
    /\ slotState[c] = "waiting"
    /\ waitValue' = waitValue + 1
    /\ slotState' = [slotState EXCEPT ![c] = "outside"]
    /\ UNCHANGED slotValue

\* The poll that finds the time used up: the acquire before it failed, so no
\* slot is free at that moment.  The same `finally` returns the permit, 503.
WaitTimeout(c) ==
    /\ slotState[c] = "waiting"
    /\ slotValue = 0
    /\ waitValue' = waitValue + 1
    /\ slotState' = [slotState EXCEPT ![c] = "outside"]
    /\ UNCHANGED slotValue

\* Mutant: both `finally` clauses run again when the body leaves.
LeaveBoth(c) ==
    /\ slotState[c] = "inside"
    /\ slotValue' = slotValue + 1
    /\ waitValue' = waitValue + 1
    /\ slotState' = [slotState EXCEPT ![c] = "outside"]

\* The `finally` around the `yield`, on every way out of the body.
Leave(c) ==
    /\ slotState[c] = "inside"
    /\ slotValue' = slotValue + 1
    /\ slotState' = [slotState EXCEPT ![c] = "outside"]
    /\ UNCHANGED waitValue

SlotNext ==
    \E c \in Clients :
        \/ EnterAtOnce(c)
        \/ StartWaiting(c)
        \/ QueueFull(c)
        \/ EnterAfterWait(c)
        \/ WaitTimeout(c)
        \/ Leave(c)

SlotSpec == SlotInit /\ [][SlotNext]_slotVars

-----------------------------------------------------------------------------
(* Properties.                                                             *)

Standing(where) == {c \in Clients : slotState[c] = where}

\* The two semaphores account for the clients: each client inside holds one slot,
\* each waiting client one permit, nobody else holds either.  So at most Slots
\* clients are inside, and a BoundedSemaphore is never released beyond its bound.
PermitsAccounted ==
    /\ slotValue + Cardinality(Standing("inside")) = Slots
    /\ waitValue + Cardinality(Standing("waiting")) = WaitCapacity

\* A waiting client is sent away only while all slots are in use.
SentAwayOnlyWhenFull ==
    [][\A c \in Clients :
        slotState[c] = "waiting" /\ slotState'[c] = "outside" =>
            Cardinality(Standing("inside")) = Slots]_slotVars

=============================================================================
