------------------------- MODULE ResourceSlotProofs -------------------------
(***************************************************************************)
(* The semaphores of ResourceSlot account for its clients, for every       *)
(* finite set of clients and every capacity.                               *)
(***************************************************************************)
EXTENDS ResourceSlot, FiniteSetTheorems, TLAPS

SlotInv == SlotTypeOK /\ PermitsAccounted

\* The counts of the clients inside and waiting are natural numbers.
LEMMA StandingFinite ==
    ASSUME NEW where
    PROVE  /\ IsFiniteSet(Standing(where))
           /\ Cardinality(Standing(where)) \in Nat
<1>1. IsFiniteSet(Clients) /\ Standing(where) \in SUBSET Clients
  BY SlotAssumption DEF Standing
<1>2. IsFiniteSet(Standing(where))
  BY <1>1, FS_Subset
<1>. QED
  BY <1>2, FS_CardinalityType

\* What one client's move does to the numbers of clients inside and waiting.
LEMMA Move ==
    ASSUME slotState \in [Clients -> SlotStates],
           NEW c \in Clients, NEW to \in SlotStates, slotState[c] # to,
           slotState' = [slotState EXCEPT ![c] = to],
           NEW where \in SlotStates
    PROVE  Cardinality(Standing(where))' =
               IF where = to THEN Cardinality(Standing(where)) + 1
               ELSE IF where = slotState[c] THEN Cardinality(Standing(where)) - 1
               ELSE Cardinality(Standing(where))
<1>1. IsFiniteSet(Standing(where))
  BY StandingFinite
<1>2. CASE where = to
  <2>1. Standing(where)' = Standing(where) \cup {c} /\ c \notin Standing(where)
    BY <1>2 DEF Standing
  <2>. QED
    BY <1>1, <1>2, <2>1, FS_AddElement
<1>3. CASE where # to /\ where = slotState[c]
  <2>1. Standing(where)' = Standing(where) \ {c} /\ c \in Standing(where)
    BY <1>3 DEF Standing
  <2>. QED
    BY <1>1, <1>3, <2>1, FS_RemoveElement
<1>4. CASE where # to /\ where # slotState[c]
  <2>1. Standing(where)' = Standing(where)
    BY <1>4 DEF Standing
  <2>. QED
    BY <1>4, <2>1
<1>. QED
  BY <1>2, <1>3, <1>4

LEMMA SlotInitInv == SlotInit => SlotInv
<1>. SUFFICES ASSUME SlotInit PROVE SlotInv
  OBVIOUS
<1>1. Standing("inside") = {} /\ Standing("waiting") = {}
  BY DEF SlotInit, Standing
<1>. QED
  BY <1>1, FS_EmptySet, SlotAssumption
  DEF SlotInv, SlotTypeOK, PermitsAccounted, SlotInit, SlotStates

LEMMA SlotStepInv == SlotInv /\ [SlotNext]_slotVars => SlotInv'
<1>. SUFFICES ASSUME SlotInv, [SlotNext]_slotVars PROVE SlotInv'
  OBVIOUS
<1>. USE SlotAssumption
<1>a. Cardinality(Standing("inside")) \in Nat /\ Cardinality(Standing("waiting")) \in Nat
  BY StandingFinite
<1>b. Cardinality(Standing("inside"))' \in Nat /\ Cardinality(Standing("waiting"))' \in Nat
  <2>1. Standing("inside")' \in SUBSET Clients /\ Standing("waiting")' \in SUBSET Clients
    BY DEF Standing
  <2>. QED
    BY <2>1, FS_Subset, FS_CardinalityType
<1>0. slotState \in [Clients -> SlotStates]
  BY DEF SlotInv, SlotTypeOK
<1>1. ASSUME NEW c \in Clients, EnterAtOnce(c) PROVE SlotInv'
  <2>1. /\ Cardinality(Standing("inside"))' = Cardinality(Standing("inside")) + 1
        /\ Cardinality(Standing("waiting"))' = Cardinality(Standing("waiting"))
    BY <1>0, <1>1, Move DEF EnterAtOnce, SlotStates
  <2>. QED
    BY <1>1, <2>1, <1>a, <1>b
    DEF SlotInv, SlotTypeOK, SlotStates, PermitsAccounted, EnterAtOnce
<1>2. ASSUME NEW c \in Clients, StartWaiting(c) PROVE SlotInv'
  <2>1. /\ Cardinality(Standing("inside"))' = Cardinality(Standing("inside"))
        /\ Cardinality(Standing("waiting"))' = Cardinality(Standing("waiting")) + 1
    BY <1>0, <1>2, Move DEF StartWaiting, SlotStates
  <2>. QED
    BY <1>2, <2>1, <1>a, <1>b
    DEF SlotInv, SlotTypeOK, SlotStates, PermitsAccounted, StartWaiting
<1>3. ASSUME NEW c \in Clients, EnterAfterWait(c) PROVE SlotInv'
  <2>1. /\ Cardinality(Standing("inside"))' = Cardinality(Standing("inside")) + 1
        /\ Cardinality(Standing("waiting"))' = Cardinality(Standing("waiting")) - 1
    BY <1>0, <1>3, Move DEF EnterAfterWait, SlotStates
  <2>. QED
    BY <1>3, <2>1, <1>a, <1>b
    DEF SlotInv, SlotTypeOK, SlotStates, PermitsAccounted, EnterAfterWait
<1>4. ASSUME NEW c \in Clients, WaitTimeout(c) PROVE SlotInv'
  <2>1. /\ Cardinality(Standing("inside"))' = Cardinality(Standing("inside"))
        /\ Cardinality(Standing("waiting"))' = Cardinality(Standing("waiting")) - 1
    BY <1>0, <1>4, Move DEF WaitTimeout, SlotStates
  <2>. QED
    BY <1>4, <2>1, <1>a, <1>b
    DEF SlotInv, SlotTypeOK, SlotStates, PermitsAccounted, WaitTimeout
<1>5. ASSUME NEW c \in Clients, Leave(c) PROVE SlotInv'
  <2>1. /\ Cardinality(Standing("inside"))' = Cardinality(Standing("inside")) - 1
        /\ Cardinality(Standing("waiting"))' = Cardinality(Standing("waiting"))
    BY <1>0, <1>5, Move DEF Leave, SlotStates
  <2>. QED
    BY <1>5, <2>1, <1>a, <1>b
    DEF SlotInv, SlotTypeOK, SlotStates, PermitsAccounted, Leave
<1>6. ASSUME UNCHANGED slotVars PROVE SlotInv'
  BY <1>6 DEF SlotInv, SlotTypeOK, PermitsAccounted, Standing, slotVars
<1>. QED
  BY <1>1, <1>2, <1>3, <1>4, <1>5, <1>6 DEF SlotNext, QueueFull

\* At every moment each client inside holds exactly one slot and each waiting
\* client exactly one permit (PermitsAccounted), whatever the capacities.
THEOREM SlotsAreAccounted == SlotSpec => [](SlotTypeOK /\ PermitsAccounted)
<1>1. SlotInv => SlotTypeOK /\ PermitsAccounted
  BY DEF SlotInv
<1>. QED
  BY <1>1, SlotInitInv, SlotStepInv, PTL DEF SlotSpec

\* Whoever waited and leaves without a slot left while every slot was in use
\* (SentAwayOnlyWhenFull).
THEOREM NobodyIsSentAwayIdle == SlotSpec => SentAwayOnlyWhenFull
<1>1. SlotInv /\ [SlotNext]_slotVars =>
        [\A c \in Clients :
            slotState[c] = "waiting" /\ slotState'[c] = "outside" =>
                Cardinality(Standing("inside")) = Slots]_slotVars
  <2>. SUFFICES ASSUME SlotInv, SlotNext, NEW c \in Clients,
                       slotState[c] = "waiting", slotState'[c] = "outside"
                PROVE  Cardinality(Standing("inside")) = Slots
    OBVIOUS
  <2>1. WaitTimeout(c)
    BY DEF SlotNext, SlotInv, SlotTypeOK, EnterAtOnce, StartWaiting, QueueFull,
           EnterAfterWait, WaitTimeout, Leave, slotVars
  <2>. QED
    BY <2>1, StandingFinite, SlotAssumption DEF WaitTimeout, SlotInv, PermitsAccounted
<1>. QED
  BY <1>1, SlotInitInv, SlotStepInv, PTL DEF SlotSpec, SentAwayOnlyWhenFull

=============================================================================
