--------------------------- MODULE ResourcesProofs --------------------------
(***************************************************************************)
(* Theorems about the scarce resources that MCResources bundles, besides   *)
(* the slots (ResourceSlotProofs): the daily quota (DailyQuota) holds for  *)
(* every set of transactions, every limit and every number of days; clips  *)
(* (Pronunciation) are whole, made once at a time and spared by the        *)
(* pruning of who asked for them.                                          *)
(***************************************************************************)
EXTENDS Pronunciation, DailyQuota, FiniteSetTheorems, TLAPS

-----------------------------------------------------------------------------
(* The quota.  The key is that a transaction that has read the count holds the *)
(* row, so the count cannot change before it commits.                          *)

\* The row as a reader sees it: a missing or not yet committed row counts 0.
Committed(d) == IF rowCount[d] = NoRow THEN 0 ELSE rowCount[d]

HolderIsWorking ==
    \A d \in Days : holder[d] # NoTx =>
        pc[holder[d]] \in {"lock", "count"} /\ day[holder[d]] = d

ReadIsCurrent ==
    \A t \in Tx : pc[t] = "count" =>
        holder[day[t]] = t /\ read[t] = Committed(day[t])

Inv ==
    /\ TypeOK
    /\ HolderIsWorking
    /\ ReadIsCurrent
    /\ \A d \in Days : Committed(d) <= Allowance
    /\ RowCountsGrants

LEMMA AllowancePositive == Allowance \in Nat /\ Allowance >= 1
BY QuotaAssumption DEF Allowance

LEMMA GrantedFinite ==
    ASSUME NEW d
    PROVE  IsFiniteSet(GrantedOn(d)) /\ Cardinality(GrantedOn(d)) \in Nat
<1>1. IsFiniteSet(Tx) /\ GrantedOn(d) \in SUBSET Tx
  BY QuotaAssumption DEF GrantedOn
<1>. QED
  BY <1>1, FS_Subset, FS_CardinalityType

\* A step that neither grants nor moves a granted transaction keeps the counts.
LEMMA CountsKept ==
    ASSUME Inv, rowCount' = rowCount,
           \A t \in Tx : pc'[t] = "granted" <=> pc[t] = "granted",
           \A t \in Tx : pc[t] = "granted" => day'[t] = day[t]
    PROVE  /\ RowCountsGrants'
           /\ \A d \in Days : Committed(d)' = Committed(d)
<1>1. \A d \in Days : GrantedOn(d)' = GrantedOn(d)
  BY DEF GrantedOn
<1>. QED
  BY <1>1 DEF Inv, RowCountsGrants, Committed

LEMMA InitInv == Init => Inv
<1>. SUFFICES ASSUME Init PROVE Inv
  OBVIOUS
<1>1. \A d \in Days : GrantedOn(d) = {}
  BY DEF Init, GrantedOn
<1>2. RowCountsGrants
  BY <1>1, FS_EmptySet DEF RowCountsGrants, Init, NoRow
<1>3. TypeOK
  BY QuotaAssumption DEF Init, TypeOK, Days, NoRow
<1>4. \A d \in Days : Committed(d) <= Allowance
  BY AllowancePositive DEF Init, Committed, NoRow
<1>. QED
  BY <1>2, <1>3, <1>4 DEF Init, Inv, HolderIsWorking, ReadIsCurrent

LEMMA StepInv == Inv /\ [Next]_vars => Inv'
<1>. SUFFICES ASSUME Inv, [Next]_vars PROVE Inv'
  OBVIOUS
<1>. USE QuotaAssumption
<1>0. /\ TypeOK /\ HolderIsWorking /\ ReadIsCurrent /\ RowCountsGrants
      /\ \A d \in Days : Committed(d) <= Allowance
  BY DEF Inv
<1>1. ASSUME NEW t \in Tx, Check(t) PROVE Inv'
  <2>1. RowCountsGrants' /\ \A d \in Days : Committed(d)' = Committed(d)
    BY <1>0, <1>1, CountsKept DEF Check, Goto, TypeOK
  <2>2. TypeOK'
    BY <1>0, <1>1 DEF Check, Goto, TypeOK
  <2>3. HolderIsWorking' /\ ReadIsCurrent'
    BY <1>0, <1>1, <2>1 DEF Check, Goto, TypeOK, HolderIsWorking, ReadIsCurrent
  <2>. QED
    BY <1>0, <2>1, <2>2, <2>3 DEF Inv
<1>2. ASSUME NEW t \in Tx, Begin(t) PROVE Inv'
  <2>1. RowCountsGrants' /\ \A d \in Days : Committed(d)' = Committed(d)
    BY <1>0, <1>2, CountsKept DEF Begin, Goto, TypeOK
  <2>2. TypeOK'
    BY <1>0, <1>2 DEF Begin, Goto, TypeOK
  <2>3. HolderIsWorking' /\ ReadIsCurrent'
    BY <1>0, <1>2, <2>1 DEF Begin, Goto, TypeOK, HolderIsWorking, ReadIsCurrent
  <2>. QED
    BY <1>0, <2>1, <2>2, <2>3 DEF Inv
<1>3. ASSUME NEW t \in Tx, Upsert(t) PROVE Inv'
  <2>1. RowCountsGrants' /\ \A d \in Days : Committed(d)' = Committed(d)
    BY <1>0, <1>3, CountsKept DEF Upsert, Goto, TypeOK
  <2>2. TypeOK'
    BY <1>0, <1>3 DEF Upsert, Goto, TypeOK
  <2>3. HolderIsWorking'
    BY <1>0, <1>3 DEF Upsert, Goto, TypeOK, HolderIsWorking
  <2>4. ReadIsCurrent'
    BY <1>0, <1>3, <2>1 DEF Upsert, Goto, TypeOK, ReadIsCurrent
  <2>. QED
    BY <1>0, <2>1, <2>2, <2>3, <2>4 DEF Inv
<1>4. ASSUME NEW t \in Tx, LockRow(t) PROVE Inv'
  <2>1. RowCountsGrants' /\ \A d \in Days : Committed(d)' = Committed(d)
    BY <1>0, <1>4, CountsKept DEF LockRow, Goto, TypeOK
  <2>2. TypeOK'
    BY <1>0, <1>4 DEF LockRow, Goto, TypeOK
  <2>3. HolderIsWorking'
    BY <1>0, <1>4 DEF LockRow, Goto, TypeOK, HolderIsWorking
  <2>4. read'[t] = Committed(day[t])
    BY <1>0, <1>4 DEF LockRow, TypeOK, Committed
  <2>5. ReadIsCurrent'
    BY <1>0, <1>4, <2>1, <2>4 DEF LockRow, Goto, TypeOK, ReadIsCurrent
  <2>. QED
    BY <1>0, <2>1, <2>2, <2>3, <2>5 DEF Inv
<1>5. ASSUME NEW t \in Tx, Refuse(t) \/ Fail(t) PROVE Inv'
  <2>1. RowCountsGrants' /\ \A d \in Days : Committed(d)' = Committed(d)
    BY <1>0, <1>5, CountsKept DEF Refuse, Fail, Goto, TypeOK
  <2>2. TypeOK'
    BY <1>0, <1>5 DEF Refuse, Fail, Goto, EndTx, TypeOK
  <2>3. HolderIsWorking'
    BY <1>0, <1>5 DEF Refuse, Fail, Goto, EndTx, TypeOK, HolderIsWorking
  <2>4. ReadIsCurrent'
    BY <1>0, <1>5, <2>1 DEF Refuse, Fail, Goto, EndTx, TypeOK, ReadIsCurrent
  <2>. QED
    BY <1>0, <2>1, <2>2, <2>3, <2>4 DEF Inv
<1>6. ASSUME NEW t \in Tx, Grant(t) PROVE Inv'
  <2>. DEFINE d == day[t]
  <2>0. /\ d \in Days /\ holder[d] = t /\ read[t] = Committed(d) /\ read[t] < Allowance
        /\ pc[t] = "count" /\ read[t] \in Nat
    BY <1>0, <1>6 DEF Grant, ReadIsCurrent, TypeOK
  <2>1. /\ pc' = [pc EXCEPT ![t] = "granted"] /\ day' = day /\ read' = read
        /\ rowCount' = [rowCount EXCEPT ![d] = read[t] + 1]
        /\ holder' = [e \in Days |-> IF holder[e] = t THEN NoTx ELSE holder[e]]
        /\ today' = today
    BY <1>6 DEF Grant, Goto, EndTx
  <2>2. TypeOK'
    BY <1>0, <2>0, <2>1 DEF TypeOK
  <2>3. HolderIsWorking'
    BY <1>0, <2>0, <2>1 DEF TypeOK, HolderIsWorking
  <2>4. \A e \in Days : Committed(e)' = IF e = d THEN read[t] + 1 ELSE Committed(e)
    BY <1>0, <2>0, <2>1 DEF TypeOK, Committed, NoRow
  <2>5. ReadIsCurrent'
    <3>1. ASSUME NEW s \in Tx, pc'[s] = "count"
          PROVE  holder'[day'[s]] = s /\ read'[s] = Committed(day[s])'
      <4>1. s # t /\ pc[s] = "count"
        BY <1>0, <2>1, <3>1 DEF TypeOK
      <4>2. holder[day[s]] = s /\ read[s] = Committed(day[s]) /\ day[s] \in Days
        BY <1>0, <4>1 DEF ReadIsCurrent, TypeOK
      <4>3. day[s] # d
        BY <2>0, <4>1, <4>2
      <4>4. rowCount'[day[s]] = rowCount[day[s]]
        BY <1>0, <2>1, <4>2, <4>3 DEF TypeOK
      <4>. QED
        BY <2>1, <4>1, <4>2, <4>3, <4>4 DEF Committed
    <3>. QED
      BY <2>1, <3>1 DEF ReadIsCurrent, Committed
  <2>6. ASSUME NEW e \in Days
        PROVE  Cardinality(GrantedOn(e))' = Committed(e)'
    <3>1. Cardinality(GrantedOn(e)) = Committed(e)
      BY <1>0 DEF RowCountsGrants, Committed
    <3>2. CASE e = d
      <4>1. GrantedOn(e)' = GrantedOn(e) \cup {t} /\ t \notin GrantedOn(e)
        BY <1>0, <2>0, <2>1, <3>2 DEF TypeOK, GrantedOn
      <4>2. Cardinality(GrantedOn(e) \cup {t}) = Cardinality(GrantedOn(e)) + 1
        BY <4>1, GrantedFinite, FS_AddElement
      <4>. QED
        BY <2>0, <2>4, <3>1, <3>2, <4>1, <4>2
    <3>3. CASE e # d
      <4>1. GrantedOn(e)' = GrantedOn(e)
        BY <1>0, <2>0, <2>1, <3>3 DEF TypeOK, GrantedOn
      <4>. QED
        BY <2>4, <3>1, <3>3, <4>1
    <3>. QED
      BY <3>2, <3>3
  <2>10. RowCountsGrants'
    BY <2>6 DEF RowCountsGrants, Committed
  <2>11. \A e \in Days : Committed(e)' <= Allowance
    <3>. SUFFICES ASSUME NEW e \in Days PROVE Committed(e)' <= Allowance
      OBVIOUS
    <3>1. Committed(e) <= Allowance /\ read[t] + 1 <= Allowance
      BY <1>0, <2>0, AllowancePositive
    <3>. QED
      BY <2>4, <3>1
  <2>. QED
    BY <2>2, <2>3, <2>5, <2>10, <2>11, <1>6 DEF Inv, Grant, Allowance
<1>7. ASSUME Midnight \/ UNCHANGED vars PROVE Inv'
  <2>1. RowCountsGrants' /\ \A d \in Days : Committed(d)' = Committed(d)
    BY <1>0, <1>7, CountsKept DEF Midnight, vars
  <2>2. TypeOK'
    BY <1>0, <1>7 DEF Midnight, vars, TypeOK, Days
  <2>3. HolderIsWorking' /\ ReadIsCurrent'
    BY <1>0, <1>7, <2>1 DEF Midnight, vars, TypeOK, HolderIsWorking, ReadIsCurrent
  <2>. QED
    BY <1>0, <2>1, <2>2, <2>3 DEF Inv
<1>. QED
  BY <1>1, <1>2, <1>3, <1>4, <1>5, <1>6, <1>7 DEF Next, Step

\* No increment is lost, the row of a day counting exactly the calls granted on it, and
\* no day grants more than its quota, for any interleaving of any number of transactions
\* (consume_daily_quota).
THEOREM QuotaIsKept == Spec => []QuotaHolds
<1>1. Inv => QuotaHolds
  BY DEF Inv, RowCountsGrants, NeverOverQuota, QuotaHolds, Committed
<1>. QED
  BY <1>1, InitInv, StepInv, PTL DEF Spec

-----------------------------------------------------------------------------
(* The clips.  Whoever synthesises a clip holds the lock it was handed, and    *)
(* all who were handed one since the registry last dropped the clip's lock     *)
(* were handed the same.  Temporary files are touched by their clients alone.  *)

Stages == Ended \cup Making
    \cup {"arrive", "find", "stat", "slot", "serve", "refuse", "fail", "getlock", "lock", "voice", "load",
          "loading", "inspect", "unlock", "list", "byage", "locks"}

\* Between `with lock:` and the end of its body.
Holding == Making \cup {"voice", "load", "loading", "inspect", "unlock"}

ClipsTyped ==
    /\ files \in [Names -> {"absent", "partial", "whole"}]
    /\ registry \in [Keys -> Clients \cup {None}]
    /\ heldBy \in [Clients -> Clients \cup {None}]
    /\ lock \in [Clients -> Clients \cup {None}]
    /\ voice \in {"absent", "loading", "loaded"}
    /\ stage \in [Clients -> Stages]
    /\ todo \in [Clients -> SUBSET Keys]

\* What is about to replace a clip has been closed.
ReplacesWhole == \A c \in Clients : stage[c] = "replace" => files[c] = "whole"

\* One thread loads the voice, and only if no other has.
OneLoads ==
    /\ loads = IF voice = "absent" THEN 0 ELSE 1
    /\ \A c \in Clients : stage[c] = "loading" => voice = "loading"
    /\ \A c, d \in Clients : stage[c] = "loading" /\ stage[d] = "loading" => c = d

LocksAreHeld ==
    /\ \A c \in Clients : stage[c] \in Holding \cup {"lock"} => lock[c] \in Clients
    /\ \A c \in Clients : stage[c] \in Holding => heldBy[lock[c]] = c
    /\ \A c \in Clients : lock[c] # None /\ KeyOf[c] \notin dropped => registry[KeyOf[c]] = lock[c]

\* A pruning thread has not listed the clip it protects.
OwnNotListed == \A c \in Clients : KeyOf[c] \notin todo[c]

ClipInv == ClipsTyped /\ OnlyWholeClips /\ ReplacesWhole /\ OneLoads /\ LocksAreHeld /\ OwnNotListed

-----------------------------------------------------------------------------

\* A name is that of a clip or that of a client's temporary file.
LEMMA NamesApart ==
    /\ None \notin Clients /\ None \notin Keys
    /\ \A c \in Clients : c \notin Keys /\ KeyOf[c] \in Keys
    /\ \A n \in Names : n \in Keys \/ n \in Clients
    /\ \A k \in Keys : k \in Names /\ k \notin Clients
    /\ \A c \in Clients : c \in Names
BY PronunciationAssumption DEF Names

\* Two threads that hold the lock of one clip would hold one lock.
LEMMA HoldersAreOne ==
    ASSUME ClipsTyped, LocksAreHeld, NEW c \in Clients, NEW d \in Clients,
           KeyOf[c] = KeyOf[d], stage[c] \in Holding, stage[d] \in Holding, c # d
    PROVE  KeyOf[c] \in dropped
<1> SUFFICES ASSUME KeyOf[c] \notin dropped PROVE FALSE
  OBVIOUS
<1>1. /\ lock[c] \in Clients /\ lock[d] \in Clients
      /\ heldBy[lock[c]] = c /\ heldBy[lock[d]] = d
  BY DEF LocksAreHeld
<1>2. lock[c] # None /\ lock[d] # None
  BY <1>1, NamesApart
<1>3. lock[c] = lock[d]
  BY <1>2 DEF LocksAreHeld
<1> QED
  BY <1>1, <1>3

\* The invariant implies the properties.
LEMMA ClipInvIsEnough == ClipInv => OnlyWholeClips /\ NoDoubleWork
<1> SUFFICES ASSUME ClipInv PROVE OnlyWholeClips /\ NoDoubleWork
  OBVIOUS
<1>1. loads <= 1
  BY DEF ClipInv, OneLoads
<1>2. \A c, d \in Clients :
        c # d /\ KeyOf[c] = KeyOf[d] /\ stage[c] \in Making /\ stage[d] \in Making => KeyOf[c] \in dropped
  BY HoldersAreOne DEF ClipInv, Holding
<1> QED
  BY <1>1, <1>2 DEF ClipInv, NoDoubleWork

\* The initial state satisfies the invariant.
LEMMA ClipsStart == TtsInit => ClipInv
<1> SUFFICES ASSUME TtsInit PROVE ClipInv
  OBVIOUS
<1>1. ClipsTyped
  BY DEF TtsInit, ClipsTyped, Stages
<1>2. OnlyWholeClips /\ ReplacesWhole
  BY NamesApart DEF TtsInit, OnlyWholeClips, ReplacesWhole
<1>3. OneLoads /\ LocksAreHeld /\ OwnNotListed
  BY DEF TtsInit, OneLoads, LocksAreHeld, OwnNotListed, Holding, Making
<1> QED
  BY <1>1, <1>2, <1>3 DEF ClipInv

\* A step that only moves its client, to where it needs no lock and has no file.
LEMMA MovingKeeps ==
    ASSUME ClipInv, NEW c \in Clients, NEW label \in Stages \ (Holding \cup {"lock", "loading"}),
           stage' = [stage EXCEPT ![c] = label],
           UNCHANGED <<files, registry, heldBy, lock, voice, loads, dropped, todo>>
    PROVE  ClipInv'
<1> USE DEF ClipInv
<1>1. ClipsTyped'
  BY DEF ClipsTyped
<1>2. OnlyWholeClips' /\ OwnNotListed'
  BY DEF OnlyWholeClips, OwnNotListed
<1>3. ReplacesWhole' /\ OneLoads' /\ LocksAreHeld'
  BY DEF ClipsTyped, ReplacesWhole, OneLoads, LocksAreHeld, Holding, Making
<1> QED
  BY <1>1, <1>2, <1>3

\* The steps of the endpoint move their client, whatever they do to the slot.
LEMMA EndpointKeeps ==
    ASSUME ClipInv, NEW c \in Clients, Arrive(c) \/ Endpoint(c)
    PROVE  ClipInv'
<1>1. /\ UNCHANGED <<files, registry, heldBy, lock, voice, loads, dropped, todo>>
      /\ \/ UNCHANGED stage
         \/ \E label \in {"find", "refused", "stat", "getlock", "slot", "list", "fail", "served", "broken"} :
               stage' = [stage EXCEPT ![c] = label]
  BY DEF Arrive, Endpoint, Find, StatFound, EnterSlot, QueueForSlot, TurnedAway, Serve, GiveUp, Go,
         DiskUnchanged, LocksUnchanged, VoiceUnchanged, ttsVars
<1>2. CASE UNCHANGED stage
  BY <1>1, <1>2 DEF ClipInv, ClipsTyped, OnlyWholeClips, ReplacesWhole, OneLoads, LocksAreHeld, OwnNotListed
<1>3. ASSUME NEW label \in {"find", "refused", "stat", "getlock", "slot", "list", "fail", "served", "broken"},
             stage' = [stage EXCEPT ![c] = label]
      PROVE  ClipInv'
  <2>1. label \in Stages \ (Holding \cup {"lock", "loading"})
    BY DEF Stages, Holding, Making, Ended
  <2> QED
    BY <1>1, <1>3, <2>1, MovingKeeps
<1> QED
  BY <1>1, <1>2, <1>3

\* A lock is made only for a clip the registry has none for.
LEMMA GetLockKeeps == ASSUME ClipInv, NEW c \in Clients, GetLock(c) PROVE ClipInv'
<1> USE DEF ClipInv
<1> DEFINE k == KeyOf[c]
           l == IF registry[k] = None THEN c ELSE registry[k]
<1>1. /\ stage[c] = "getlock" /\ stage' = [stage EXCEPT ![c] = "lock"]
      /\ registry' = [registry EXCEPT ![k] = l] /\ lock' = [lock EXCEPT ![c] = l]
      /\ UNCHANGED <<files, heldBy, voice, loads, dropped, todo>>
  BY DEF GetLock, Go, DiskUnchanged, VoiceUnchanged
<1>2. k \in Keys /\ l \in Clients /\ l # None
  BY NamesApart DEF ClipsTyped
<1> HIDE DEF l
<1>3. ClipsTyped'
  BY <1>1, <1>2 DEF ClipsTyped, Stages
<1>4. OnlyWholeClips' /\ OwnNotListed'
  BY <1>1 DEF OnlyWholeClips, OwnNotListed
<1>5. ReplacesWhole' /\ OneLoads'
  BY <1>1 DEF ClipsTyped, ReplacesWhole, OneLoads
<1>6. LocksAreHeld'
  <2>1. \A d \in Clients : stage'[d] \in Holding => d # c /\ stage[d] \in Holding
    BY <1>1 DEF ClipsTyped, Holding, Making
  <2>2. ASSUME NEW d \in Clients, lock'[d] # None, KeyOf[d] \notin dropped'
        PROVE  registry'[KeyOf[d]] = lock'[d]
    <3>1. CASE d = c
      BY <1>1, <1>2, <3>1 DEF ClipsTyped
    <3>2. CASE d # c /\ KeyOf[d] = k
      <4>1. lock'[d] = lock[d] /\ registry[k] = lock[d] /\ registry[k] # None
        BY <1>1, <2>2, <3>2 DEF LocksAreHeld
      <4>2. l = registry[k]
        BY <4>1 DEF l
      <4> QED
        BY <1>1, <1>2, <3>2, <4>1, <4>2 DEF ClipsTyped
    <3>3. CASE d # c /\ KeyOf[d] # k
      BY <1>1, <1>2, <2>2, <3>3 DEF LocksAreHeld, ClipsTyped
    <3> QED
      BY <3>1, <3>2, <3>3
  <2> QED
    BY <1>1, <1>2, <2>1, <2>2 DEF LocksAreHeld, ClipsTyped
<1> QED
  BY <1>3, <1>4, <1>5, <1>6

\* A lock is taken when nobody holds it.
LEMMA TakeLockKeeps == ASSUME ClipInv, NEW c \in Clients, TakeLock(c) PROVE ClipInv'
<1> USE DEF ClipInv
<1>1. PICK label \in {"unlock", "voice"} :
      /\ stage[c] = "lock" /\ stage' = [stage EXCEPT ![c] = label]
      /\ heldBy[lock[c]] = None /\ heldBy' = [heldBy EXCEPT ![lock[c]] = c]
      /\ UNCHANGED <<files, registry, lock, voice, loads, dropped, todo>>
  BY DEF TakeLock, Go, DiskUnchanged, VoiceUnchanged
<1>2. lock[c] \in Clients
  BY <1>1 DEF LocksAreHeld
<1>3. ClipsTyped'
  BY <1>1, <1>2 DEF ClipsTyped, Stages
<1>4. OnlyWholeClips' /\ OwnNotListed' /\ ReplacesWhole' /\ OneLoads'
  BY <1>1 DEF ClipsTyped, OnlyWholeClips, OwnNotListed, ReplacesWhole, OneLoads
<1>5. LocksAreHeld'
  <2>1. \A d \in Clients : stage[d] \in Holding => lock[d] # lock[c]
    BY <1>1, NamesApart DEF LocksAreHeld
  <2>2. \A d \in Clients : d # c => stage'[d] = stage[d]
    BY <1>1 DEF ClipsTyped
  <2>3. \A d \in Clients : d # c /\ stage'[d] \in Holding => heldBy'[lock[d]] = d
    BY <1>1, <1>2, <2>1, <2>2 DEF ClipsTyped, LocksAreHeld
  <2>4. heldBy'[lock[c]] = c
    BY <1>1, <1>2 DEF ClipsTyped
  <2> QED
    BY <1>1, <1>2, <2>2, <2>3, <2>4 DEF LocksAreHeld
<1> QED
  BY <1>3, <1>4, <1>5

\* The voice is loaded by who finds it absent under the lock of the voices.
LEMMA VoiceKeeps ==
    ASSUME ClipInv, NEW c \in Clients, UseVoice(c) \/ LockVoice(c)
    PROVE  ClipInv'
<1> USE DEF ClipInv
<1>1. PICK label \in {"write", "load", "loading"} :
      /\ stage[c] \in {"voice", "load"} /\ stage' = [stage EXCEPT ![c] = label]
      /\ UNCHANGED <<files, registry, heldBy, lock, dropped, todo>>
      /\ IF label = "loading" THEN voice = "absent" /\ voice' = "loading" /\ loads' = loads + 1
         ELSE UNCHANGED <<voice, loads>>
  BY DEF UseVoice, LockVoice, Go, DiskUnchanged, LocksUnchanged, VoiceUnchanged
<1>2. ClipsTyped'
  BY <1>1 DEF ClipsTyped, Stages, Making
<1>3. OnlyWholeClips' /\ OwnNotListed' /\ ReplacesWhole'
  BY <1>1 DEF ClipsTyped, OnlyWholeClips, OwnNotListed, ReplacesWhole
<1>4. OneLoads'
  BY <1>1 DEF ClipsTyped, OneLoads
<1>5. LocksAreHeld'
  <2>1. \A d \in Clients : stage'[d] \in Holding => stage[d] \in Holding
    BY <1>1 DEF ClipsTyped, Holding
  <2>2. \A d \in Clients : stage'[d] = "lock" => stage[d] = "lock"
    BY <1>1 DEF ClipsTyped
  <2> QED
    BY <1>1, <2>1, <2>2 DEF LocksAreHeld
<1> QED
  BY <1>2, <1>3, <1>4, <1>5

\* A step of the holder of a lock that lets it go: no other holder has that lock.
LEMMA LettingGoKeepsLocks ==
    ASSUME ClipInv, NEW c \in Clients, stage[c] \in Holding,
           NEW label \in Stages \ (Holding \cup {"lock", "loading"}),
           stage' = [stage EXCEPT ![c] = label],
           heldBy' = [heldBy EXCEPT ![lock[c]] = None],
           UNCHANGED <<registry, lock, dropped>>
    PROVE  LocksAreHeld'
<1> USE DEF ClipInv
<1>1. lock[c] \in Clients /\ heldBy[lock[c]] = c
  BY DEF LocksAreHeld
<1>2. stage'[c] = label /\ \A d \in Clients : d # c => stage'[d] = stage[d]
  BY DEF ClipsTyped
<1>3. \A d \in Clients : stage'[d] \in Holding => d # c /\ stage[d] \in Holding /\ heldBy[lock[d]] = d
  BY <1>2 DEF LocksAreHeld
<1>4. \A d \in Clients : stage'[d] \in Holding => heldBy'[lock[d]] = d
  BY <1>1, <1>3 DEF LocksAreHeld, ClipsTyped
<1> QED
  BY <1>2, <1>3, <1>4 DEF LocksAreHeld

\* The load succeeds, or the lock of the clip is let go with the exception.
LEMMA LoadVoiceKeeps == ASSUME ClipInv, NEW c \in Clients, LoadVoice(c) PROVE ClipInv'
<1> USE DEF ClipInv
<1>1. /\ stage[c] = "loading" /\ voice = "loading" /\ loads = 1
      /\ \A d \in Clients : d # c => stage[d] # "loading"
      /\ UNCHANGED <<files, registry, lock, dropped, todo>>
  BY DEF LoadVoice, DiskUnchanged, OneLoads
<1>2. OnlyWholeClips' /\ OwnNotListed'
  BY <1>1 DEF OnlyWholeClips, OwnNotListed
<1>3. CASE voice' = "loaded" /\ stage' = [stage EXCEPT ![c] = "write"] /\ UNCHANGED <<heldBy, loads>>
  <2>1. ClipsTyped'
    BY <1>1, <1>3 DEF ClipsTyped, Stages, Making
  <2>2. ReplacesWhole' /\ OneLoads'
    BY <1>1, <1>3 DEF ClipsTyped, ReplacesWhole, OneLoads
  <2>3. LocksAreHeld'
    <3>1. \A d \in Clients : /\ stage'[d] \in Holding => stage[d] \in Holding
                             /\ stage'[d] = "lock" => stage[d] = "lock"
      BY <1>1, <1>3 DEF ClipsTyped, Holding
    <3> QED
      BY <1>1, <1>3, <3>1 DEF LocksAreHeld
  <2> QED
    BY <1>2, <2>1, <2>2, <2>3
<1>4. CASE /\ voice' = "absent" /\ loads' = loads - 1 /\ stage' = [stage EXCEPT ![c] = "refuse"]
           /\ heldBy' = [heldBy EXCEPT ![lock[c]] = None]
  <2>1. ClipsTyped'
    BY <1>1, <1>4 DEF ClipsTyped, Stages
  <2>2. ReplacesWhole' /\ OneLoads'
    BY <1>1, <1>4 DEF ClipsTyped, ReplacesWhole, OneLoads
  <2>3. stage[c] \in Holding /\ "refuse" \in Stages \ (Holding \cup {"lock", "loading"})
    BY <1>1 DEF Holding, Making, Stages, Ended
  <2>4. LocksAreHeld'
    BY <1>1, <1>4, <2>3, LettingGoKeepsLocks
  <2> QED
    BY <1>2, <2>1, <2>2, <2>4
<1> QED
  BY <1>3, <1>4 DEF LoadVoice, Go

\* The temporary file is written, closed or removed by its client alone.
LEMMA WriteKeeps == ASSUME ClipInv, NEW c \in Clients, Write(c) \/ Close(c) PROVE ClipInv'
<1> USE DEF ClipInv
<1>1. PICK how \in {"partial", "whole", "absent"} :
      /\ stage[c] \in {"write", "close"}
      /\ files' = [files EXCEPT ![c] = how]
      /\ stage' = [stage EXCEPT ![c] = IF how = "partial" THEN "close" ELSE IF how = "whole" THEN "replace" ELSE "refuse"]
      /\ heldBy' = IF how = "absent" THEN [heldBy EXCEPT ![lock[c]] = None] ELSE heldBy
      /\ UNCHANGED <<registry, lock, voice, loads, dropped, todo>>
  BY DEF Write, Close, Go, TempName, LocksUnchanged, VoiceUnchanged
<1>2. ClipsTyped'
  BY <1>1, NamesApart DEF ClipsTyped, Stages, Making
<1>3. OnlyWholeClips' /\ OwnNotListed' /\ ReplacesWhole'
  BY <1>1, NamesApart DEF ClipsTyped, OnlyWholeClips, OwnNotListed, ReplacesWhole
<1>4. OneLoads'
  BY <1>1 DEF ClipsTyped, OneLoads
<1>5. CASE how = "absent"
  <2>1. stage[c] \in Holding /\ "refuse" \in Stages \ (Holding \cup {"lock", "loading"})
    BY <1>1 DEF Holding, Making, Stages, Ended
  <2>2. LocksAreHeld'
    BY <1>1, <1>5, <2>1, LettingGoKeepsLocks
  <2> QED
    BY <1>2, <1>3, <1>4, <2>2
<1>6. CASE how # "absent"
  <2>1. \A d \in Clients : /\ stage'[d] \in Holding => stage[d] \in Holding
                           /\ stage'[d] = "lock" => stage[d] = "lock"
    BY <1>1, <1>6 DEF ClipsTyped, Holding, Making
  <2>2. LocksAreHeld'
    BY <1>1, <1>6, <2>1 DEF LocksAreHeld
  <2> QED
    BY <1>2, <1>3, <1>4, <2>2
<1> QED
  BY <1>5, <1>6

\* What replaces a clip is whole.
LEMMA ReplaceKeeps == ASSUME ClipInv, NEW c \in Clients, Replace(c) PROVE ClipInv'
<1> USE DEF ClipInv
<1>1. /\ stage[c] = "replace" /\ stage' = [stage EXCEPT ![c] = "inspect"]
      /\ files' = [files EXCEPT ![c] = "absent", ![KeyOf[c]] = files[c]]
      /\ files[c] = "whole"
      /\ UNCHANGED <<registry, heldBy, lock, voice, loads, dropped, todo>>
  BY DEF Replace, Go, TempName, LocksUnchanged, VoiceUnchanged, ReplacesWhole
<1>2. ClipsTyped'
  BY <1>1, NamesApart DEF ClipsTyped, Stages
<1>3. OnlyWholeClips' /\ OwnNotListed' /\ ReplacesWhole'
  BY <1>1, NamesApart DEF ClipsTyped, OnlyWholeClips, OwnNotListed, ReplacesWhole
<1>4. OneLoads'
  BY <1>1 DEF ClipsTyped, OneLoads
<1>5. \A d \in Clients : /\ stage'[d] \in Holding => stage[d] \in Holding
                         /\ stage'[d] = "lock" => stage[d] = "lock"
  BY <1>1 DEF ClipsTyped, Holding, Making
<1>6. LocksAreHeld'
  BY <1>1, <1>5 DEF LocksAreHeld
<1> QED
  BY <1>2, <1>3, <1>4, <1>6

\* The body of `with lock:` ends.
LEMMA UnlockKeeps == ASSUME ClipInv, NEW c \in Clients, Inspect(c) \/ Unlock(c) PROVE ClipInv'
<1> USE DEF ClipInv
<1>1. PICK label \in {"list", "refuse", "serve"} :
      /\ stage[c] \in {"inspect", "unlock"} /\ stage' = [stage EXCEPT ![c] = label]
      /\ heldBy' = [heldBy EXCEPT ![lock[c]] = None]
      /\ UNCHANGED <<files, registry, lock, voice, loads, dropped, todo>>
  BY DEF Inspect, Unlock, Go, DiskUnchanged, VoiceUnchanged
<1>2. stage[c] \in Holding /\ label \in Stages \ (Holding \cup {"lock", "loading"})
  BY <1>1 DEF Holding, Making, Stages, Ended
<1>3. ClipsTyped'
  BY <1>1, <1>2 DEF ClipsTyped
<1>4. OnlyWholeClips' /\ OwnNotListed' /\ ReplacesWhole' /\ OneLoads'
  BY <1>1 DEF ClipsTyped, OnlyWholeClips, OwnNotListed, ReplacesWhole, OneLoads
<1>5. LocksAreHeld'
  BY <1>1, <1>2, LettingGoKeepsLocks
<1> QED
  BY <1>3, <1>4, <1>5

-----------------------------------------------------------------------------

\* Pruning removes clips, moves its client and drops locks it notes down.
LEMMA PruningKeeps == ASSUME ClipInv, NEW c \in Clients, Pruning(c) PROVE ClipInv'
<1> USE DEF ClipInv
<1>1. /\ stage[c] \in {"list", "byage", "locks"} /\ UNCHANGED <<heldBy, lock, voice, loads>>
      /\ \E label \in {"byage", "locks", "fail", "serve"} : stage' = [stage EXCEPT ![c] = label]
  BY DEF Pruning, List, PruneExpired, PruneBySize, PruneLocks, Go, LocksUnchanged, VoiceUnchanged, ClipsTyped
<1>2. PICK label \in {"byage", "locks", "fail", "serve"} : stage' = [stage EXCEPT ![c] = label]
  BY <1>1
<1>3. stage' \in [Clients -> Stages] /\ \A d \in Clients : d # c => stage'[d] = stage[d]
  BY <1>2 DEF ClipsTyped, Stages
<1>4. /\ \A d \in Clients : /\ stage'[d] \in Holding => stage[d] \in Holding
                            /\ stage'[d] \in {"lock", "loading", "replace"} => stage[d] = stage'[d]
  BY <1>2, <1>3 DEF ClipsTyped, Holding, Making
<1>5. files' \in [Names -> {"absent", "partial", "whole"}]
      /\ (\A d \in Clients : files'[d] = files[d]) /\ \A k \in Keys : files'[k] \in {"absent", files[k]}
  <2>1. CASE UNCHANGED files
    BY <2>1 DEF ClipsTyped
  <2>2. CASE PruneExpired(c)
    <3>1. CASE UNCHANGED files
      BY <3>1 DEF ClipsTyped
    <3>2. PICK k \in todo[c] : files' = files \/ files' = [files EXCEPT ![k] = "absent"]
      BY <2>2 DEF PruneExpired, Unlink, DiskUnchanged
    <3>3. k \in Keys
      BY <3>2 DEF ClipsTyped
    <3> QED
      BY <3>2, <3>3, NamesApart DEF ClipsTyped
  <2>3. CASE PruneBySize(c)
    <3>1. CASE UNCHANGED files
      BY <3>1 DEF ClipsTyped
    <3>2. CASE ~UNCHANGED files
      <4> DEFINE victims == {k \in todo[c] : Cardinality({l \in todo[c] : Younger(l, k)}) >= MaxClips}
      <4>1. files' = [n \in Names |-> IF n \in victims THEN "absent" ELSE files[n]]
        BY <2>3, <3>2 DEF PruneBySize, DiskUnchanged
      <4>2. victims \subseteq Keys
        BY DEF ClipsTyped
      <4> HIDE DEF victims
      <4> QED
        BY <4>1, <4>2, NamesApart DEF ClipsTyped
    <3> QED
      BY <3>1, <3>2
  <2> QED
    BY <2>1, <2>2, <2>3 DEF Pruning, List, PruneLocks, DiskUnchanged
<1>6. /\ todo' \in [Clients -> SUBSET Keys] /\ OwnNotListed'
      /\ registry' \in [Keys -> Clients \cup {None}]
      /\ \A k \in Keys : k \notin dropped' => k \notin dropped /\ registry'[k] = registry[k]
  <2>1. CASE List(c)
    BY <2>1, NamesApart DEF List, Prunable, LocksUnchanged, ClipsTyped, OwnNotListed
  <2>2. CASE PruneExpired(c)
    BY <2>2 DEF PruneExpired, LocksUnchanged, ClipsTyped, OwnNotListed
  <2>3. CASE PruneBySize(c)
    BY <2>3 DEF PruneBySize, LocksUnchanged, ClipsTyped, OwnNotListed
  <2>4. CASE PruneLocks(c)
    <3>1. PICK gone \in SUBSET Keys :
          /\ registry' = [k \in Keys |-> IF k \in gone THEN None ELSE registry[k]]
          /\ dropped' = dropped \cup gone
          /\ todo' = [todo EXCEPT ![c] = {}]
      BY <2>4 DEF PruneLocks
    <3> QED
      BY <3>1 DEF ClipsTyped, OwnNotListed
  <2> QED
    BY <2>1, <2>2, <2>3, <2>4 DEF Pruning
<1>7. ClipsTyped'
  BY <1>1, <1>3, <1>5, <1>6 DEF ClipsTyped
<1>8. OnlyWholeClips' /\ ReplacesWhole' /\ OneLoads'
  BY <1>1, <1>3, <1>4, <1>5 DEF OnlyWholeClips, ReplacesWhole, OneLoads
<1>9. LocksAreHeld'
  BY <1>1, <1>4, <1>6, NamesApart DEF LocksAreHeld
<1> QED
  BY <1>6, <1>7, <1>8, <1>9

\* Every step keeps the invariant.
LEMMA ClipsKeep == ClipInv /\ [TtsNext]_allVars => ClipInv'
<1> SUFFICES ASSUME ClipInv, [TtsNext]_allVars PROVE ClipInv'
  OBVIOUS
<1>1. ASSUME NEW k \in Keys, Expire(k) PROVE ClipInv'
  BY <1>1 DEF Expire, LocksUnchanged, VoiceUnchanged, ClipInv, ClipsTyped, OnlyWholeClips, ReplacesWhole,
              OneLoads, LocksAreHeld, OwnNotListed
<1>2. CASE UNCHANGED allVars
  BY <1>2 DEF allVars, ttsVars, ClipInv, ClipsTyped, OnlyWholeClips, ReplacesWhole, OneLoads,
              LocksAreHeld, OwnNotListed
<1>3. ASSUME NEW c \in Clients, Worker(c) PROVE ClipInv'
  BY <1>3, GetLockKeeps, TakeLockKeeps, VoiceKeeps, LoadVoiceKeeps, WriteKeeps, ReplaceKeeps, UnlockKeeps
  DEF Worker
<1> QED
  BY <1>1, <1>2, <1>3, EndpointKeeps, PruningKeeps DEF TtsNext, TtsNextOf

LEMMA ClipInvariant == TtsSpec => []ClipInv
BY ClipsStart, ClipsKeep, PTL DEF TtsSpec

\* os.replace of a file of one's own: for any number of clients and clips, whatever
\* threads write and prune meanwhile, no clip is ever partly written.
THEOREM ClipsAreWhole == TtsSpec => []OnlyWholeClips
BY ClipInvariant, ClipInvIsEnough, PTL

\* _get_cache_lock, _prune_lock_registry and _load_voice: a clip is synthesised twice at
\* a time only after the registry dropped its lock, the voice is loaded once.
THEOREM WorkIsDoneOnce == TtsSpec => []NoDoubleWork
BY ClipInvariant, ClipInvIsEnough, PTL

\* prune_audio_cache(protected_path): the client's own clip outlives its pruning.
THEOREM PruningIsCareful == TtsSpec => PruningSparesOwn
<1>1. ASSUME ClipInv, [TtsNext]_allVars
      PROVE  [\A c \in Clients :
                stage[c] = "byage" /\ (stage'[c] # stage[c] \/ todo'[c] # todo[c]) /\ OnDisk(KeyOf[c]) =>
                    files'[KeyOf[c]] = files[KeyOf[c]]]_allVars
  <2> SUFFICES ASSUME NEW c \in Clients, TtsNext, stage[c] = "byage", stage'[c] # stage[c] \/ todo'[c] # todo[c]
               PROVE  files'[KeyOf[c]] = files[KeyOf[c]]
    BY <1>1
  <2> USE DEF ClipInv
  <2>1. \A k \in Keys : ~Expire(k)
    BY DEF Expire
  <2>2. ASSUME NEW d \in Clients, Arrive(d) \/ Endpoint(d) \/ Worker(d) \/ Pruning(d) PROVE d = c
    <3>1. CASE Arrive(d) \/ Endpoint(d)
      BY <1>1, <3>1 DEF Arrive, Endpoint, Find, StatFound, EnterSlot, QueueForSlot, TurnedAway, Serve, GiveUp, Go, ttsVars, ClipsTyped
    <3>2. CASE Worker(d)
      BY <1>1, <3>2 DEF Worker, GetLock, TakeLock, UseVoice, LockVoice, LoadVoice, Write, Close, Replace, Inspect, Unlock, Go, ClipsTyped
    <3>3. CASE Pruning(d)
      BY <1>1, <3>3 DEF Pruning, List, PruneExpired, PruneBySize, PruneLocks, Go, ClipsTyped
    <3> QED
      BY <2>2, <3>1, <3>2, <3>3
  <2>3. Arrive(c) \/ Endpoint(c) \/ Worker(c) \/ Pruning(c)
    BY <2>1, <2>2 DEF TtsNext, TtsNextOf
  <2>4. CASE PruneExpired(c)
    BY <1>1, <2>4, NamesApart DEF PruneExpired, Unlink, DiskUnchanged, ClipsTyped, OwnNotListed
  <2>5. CASE PruneBySize(c)
    <3> DEFINE victims == {k \in todo[c] : Cardinality({l \in todo[c] : Younger(l, k)}) >= MaxClips}
    <3>1. files' = files \/ files' = [n \in Names |-> IF n \in victims THEN "absent" ELSE files[n]]
      BY <2>5 DEF PruneBySize, DiskUnchanged
    <3>2. KeyOf[c] \notin victims
      BY <1>1 DEF OwnNotListed
    <3> HIDE DEF victims
    <3> QED
      BY <3>1, <3>2, NamesApart
  <2>6. ~Arrive(c) /\ ~Worker(c) /\ ~List(c) /\ ~PruneLocks(c)
    BY DEF Arrive, Worker, GetLock, TakeLock, UseVoice, LockVoice, LoadVoice, Write, Close, Replace, Inspect, Unlock, List, PruneLocks
  <2>7. ~Endpoint(c)
    BY DEF Endpoint, Find, StatFound, EnterSlot, QueueForSlot, TurnedAway, Serve, GiveUp
  <2> QED
    BY <2>3, <2>4, <2>5, <2>6, <2>7 DEF Pruning
<1> QED
  BY <1>1, ClipInvariant, PTL DEF TtsSpec, PruningSparesOwn

=============================================================================
