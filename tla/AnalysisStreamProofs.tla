------------------------ MODULE AnalysisStreamProofs ------------------------
(***************************************************************************)
(* Proofs about AnalysisStream, for any number of fields, lines and        *)
(* forwarded fields: wake-ups, cancellation, and what the client sees.     *)
(***************************************************************************)
EXTENDS AnalysisStream, FiniteSetTheorems, NaturalsInduction, WellFoundedInduction, TLAPS

-----------------------------------------------------------------------------
(* Wake-ups: the queue between thread and event loop.                      *)

WakeInv == signals \in Nat /\ NoLostWakeup

LEMMA WorkerKeepsWakeInv == WakeInv /\ WorkerStep => WakeInv'
<1> SUFFICES ASSUME WakeInv, WorkerStep PROVE WakeInv'
  OBVIOUS
<1>1. CASE Put
  BY <1>1 DEF Put, WakeInv, NoLostWakeup, consumerVars
<1>2. CASE Signal
  BY <1>2 DEF Signal, WakeInv, NoLostWakeup, consumerVars
<1>3. CASE Begin \/ CheckCancelled \/ Post \/ Register \/ CloseNow \/ Line \/ ReadEnds \/ Decide
  <2>1. UNCHANGED <<queue, signals, wake, cpc>> /\ wpc # "signal"
    BY <1>3 DEF Begin, CheckCancelled, Post, Register, CloseNow, Line, ReadEnds, Decide, consumerVars
  <2> QED
    BY <2>1 DEF WakeInv, NoLostWakeup
<1> QED
  BY <1>1, <1>2, <1>3 DEF WorkerStep

LEMMA LoopKeepsWakeInv == WakeInv /\ (LoopStep \/ RunSignal \/ ClientLeaves) => WakeInv'
<1> SUFFICES ASSUME WakeInv, LoopStep \/ RunSignal \/ ClientLeaves PROVE WakeInv'
  OBVIOUS
<1>1. CASE RunSignal
  BY <1>1 DEF RunSignal, WakeInv, NoLostWakeup
<1>2. CASE Recheck
  BY <1>2 DEF Recheck, WakeInv, NoLostWakeup, bridgeVars
<1>3. CASE BridgeStarts \/ TakeEvent \/ ClearWake \/ WakeUp \/ Resume \/ Finish \/ CloseDropped
           \/ Cancel \/ CallBack \/ ClientLeaves
  <2>1. cpc' # "await" /\ UNCHANGED signals
    BY <1>3 DEF BridgeStarts, TakeEvent, ClearWake, WakeUp, Resume, Finish, CloseDropped, Cancel,
                CallBack, ClientLeaves, bridgeVars
  <2> QED
    BY <2>1 DEF WakeInv, NoLostWakeup
<1> QED
  BY <1>1, <1>2, <1>3 DEF LoopStep

\* The bridge never sleeps on a queue that has something for it, wherever the worker's
\* put and call_soon_threadsafe fall between its drain, its clear and its wait
\* (main.py, the bridge of ndjson_stream).
THEOREM WakeupsAreNotLost == Spec => []NoLostWakeup
<1>1. Init => WakeInv
  BY DEF Init, WakeInv, NoLostWakeup
<1>2. WakeInv /\ [Next]_vars => WakeInv'
  <2>1. WakeInv /\ UNCHANGED vars => WakeInv'
    BY DEF WakeInv, NoLostWakeup, vars, consumerVars
  <2> QED
    BY <2>1, WorkerKeepsWakeInv, LoopKeepsWakeInv DEF Next
<1>3. WakeInv => NoLostWakeup
  BY DEF WakeInv
<1> QED
  BY <1>1, <1>2, <1>3, PTL DEF Spec

-----------------------------------------------------------------------------
(* Cancellation: StreamCancelController.                                   *)

\* The worker reads the response of this attempt, or will when it has passed on the
\* events of a line.
Reading == wpc = "read" \/ (wpc \in {"put", "signal"} /\ after = "read")

\* Whoever reads has registered its response, so that cancel() has copied it, unless
\* it was closed when it was registered.
CancelInv ==
    /\ after # "closeNow"
    /\ cancelled => cpc \in {"callBack", "closed"}
    /\ Reading \/ wpc = "closeNow" => try \in registered
    /\ Reading /\ cancelled /\ try \in open => cpc = "callBack" /\ try \in callbacks

LEMMA WorkerKeepsCancelInv == CancelInv /\ WorkerStep => CancelInv'
<1> SUFFICES ASSUME CancelInv, WorkerStep PROVE CancelInv'
  OBVIOUS
<1> USE DEF Yield, Continue, consumerVars, cancelVars, genVars
<1>1. CASE Begin \/ CheckCancelled \/ Post \/ Decide
  <2>1. ~Reading' /\ wpc' # "closeNow" /\ after' # "closeNow" /\ UNCHANGED <<cancelled, cpc>>
    BY <1>1 DEF Begin, CheckCancelled, Post, Decide, Reading
  <2> QED
    BY <2>1 DEF CancelInv
<1>2. CASE Register
  BY <1>2 DEF Register, CancelInv, Reading
<1>3. CASE CloseNow
  BY <1>3 DEF CloseNow, CancelInv, Reading
<1>4. CASE Line
  <2>1. /\ Reading /\ ~cancelled /\ wpc' # "closeNow" /\ after' # "closeNow"
        /\ UNCHANGED <<try, cancelVars, cpc, callbacks>>
    BY <1>4 DEF Line, Reading
  <2> QED
    BY <2>1 DEF CancelInv
<1>5. CASE ReadEnds
  <2>1. ~Reading' /\ wpc' # "closeNow" /\ after' # "closeNow" /\ UNCHANGED <<cancelled, cpc>>
    BY <1>5 DEF ReadEnds, Reading
  <2> QED
    BY <2>1 DEF CancelInv
<1>6. CASE Put \/ Signal
  <2>1. /\ Reading' \/ wpc' = "closeNow" => Reading \/ wpc = "closeNow"
        /\ Reading' => Reading
        /\ after' # "closeNow"
        /\ UNCHANGED <<try, cancelVars, cpc, callbacks>>
    BY <1>6 DEF Put, Signal, Reading, CancelInv
  <2> QED
    BY <2>1 DEF CancelInv
<1> QED
  BY <1>1, <1>2, <1>3, <1>4, <1>5, <1>6 DEF WorkerStep

LEMMA LoopKeepsCancelInv == CancelInv /\ (LoopStep \/ RunSignal \/ ClientLeaves) => CancelInv'
<1> SUFFICES ASSUME CancelInv, LoopStep \/ RunSignal \/ ClientLeaves PROVE CancelInv'
  OBVIOUS
<1> USE DEF workerVars, cancelVars, genVars
<1>1. CASE BridgeStarts
  BY <1>1 DEF BridgeStarts, CancelInv, Reading
<1>2. CASE Cancel
  BY <1>2 DEF Cancel, CancelInv, Reading
<1>3. CASE CallBack
  BY <1>3 DEF CallBack, CancelInv, Reading
<1>4. CASE TakeEvent \/ ClearWake \/ Recheck \/ WakeUp \/ Resume \/ Finish \/ CloseDropped
           \/ RunSignal \/ ClientLeaves
  <2>1. /\ UNCHANGED <<wpc, after, try, cancelVars, callbacks>>
        /\ cpc' = cpc \/ cpc \notin {"callBack", "closed"}
    BY <1>4 DEF TakeEvent, ClearWake, Recheck, WakeUp, Resume, Finish, CloseDropped, RunSignal,
                ClientLeaves
  <2> QED
    BY <2>1 DEF CancelInv, Reading
<1> QED
  BY <1>1, <1>2, <1>3, <1>4 DEF LoopStep

LEMMA InitCancelInv == Init => CancelInv
BY DEF Init, CancelInv, Reading

LEMMA StepKeepsCancelInv == CancelInv /\ [Next]_vars => CancelInv'
<1>1. CancelInv /\ UNCHANGED vars => CancelInv'
  BY DEF CancelInv, Reading, vars, consumerVars, cancelVars, genVars
<1> QED
  BY <1>1, WorkerKeepsCancelInv, LoopKeepsCancelInv DEF Next

\* However cancel() on the event loop and add_close_callback on the worker meet, no
\* response stays open under its reader once cancel() is over
\* (StreamCancelController in request_reliability.py).
THEOREM CancelClosesTheResponse == Spec => []CancelReachesReader
<1>1. CancelInv => CancelReachesReader
  BY DEF CancelInv, CancelReachesReader, Reading
<1> QED
  BY <1>1, InitCancelInv, StepKeepsCancelInv, PTL DEF Spec

-----------------------------------------------------------------------------
(* The events of one line.                                                 *)

LEMMA LeastExists == ASSUME NEW S \in SUBSET Nat, S # {} PROVE \E m \in S : \A n \in S : m <= n
<1>1. PICK m \in S : \A n \in S : ~(<<n, m>> \in OpToRel(<, Nat))
  BY NatLessThanWellFounded, WFMin, Zenon
<1>2. \A n \in S : ~(n < m)
  BY <1>1 DEF OpToRel
<1> QED
  BY <1>2

LEMMA RankGrows ==
    ASSUME NEW S \in SUBSET Nat, IsFiniteSet(S)
    PROVE  /\ \A f \in S : Rank(S, f) \in 1..Cardinality(S)
           /\ \A f, g \in S : f < g => Rank(S, f) < Rank(S, g)
<1> DEFINE UpTo(f) == {g \in S : g <= f}
<1>1. \A f : UpTo(f) \in SUBSET S /\ IsFiniteSet(UpTo(f)) /\ Cardinality(UpTo(f)) \in Nat
             /\ Cardinality(UpTo(f)) <= Cardinality(S)
  BY FS_Subset, FS_CardinalityType
<1>2. ASSUME NEW f \in S PROVE Cardinality(UpTo(f)) # 0
  BY <1>1, FS_EmptySet
<1>3. ASSUME NEW f \in S, NEW g \in S, f < g PROVE Cardinality(UpTo(f)) < Cardinality(UpTo(g))
  <2>1. UpTo(f) \in SUBSET UpTo(g) /\ g \in UpTo(g) /\ g \notin UpTo(f)
    <3>1. \A h \in S : h \in Nat
      OBVIOUS
    <3>2. (\A h \in S : h <= f => h <= g) /\ g <= g /\ ~(g <= f)
      BY <1>3, <3>1
    <3> QED
      BY <3>2
  <2>2. Cardinality(UpTo(f)) <= Cardinality(UpTo(g)) /\ Cardinality(UpTo(f)) # Cardinality(UpTo(g))
    BY <1>1, <2>1, FS_Subset
  <2> QED
    BY <1>1, <2>2
<1>4. Cardinality(S) \in Nat
  BY FS_CardinalityType
<1> QED
  BY <1>1, <1>2, <1>3, <1>4 DEF Rank

\* InOrder lists a set from its least member to its greatest.
LEMMA InOrderLists ==
    ASSUME NEW S \in SUBSET Nat, IsFiniteSet(S)
    PROVE  /\ InOrder(S) \in Seq(S)
           /\ Len(InOrder(S)) = Cardinality(S) /\ DOMAIN InOrder(S) = 1..Cardinality(S)
           /\ \A i \in 1..Cardinality(S) : InOrder(S)[i] \in S /\ Rank(S, InOrder(S)[i]) = i
           /\ \A i, j \in 1..Cardinality(S) : i < j => InOrder(S)[i] < InOrder(S)[j]
<1> DEFINE n == Cardinality(S)
           rank == [f \in S |-> Rank(S, f)]
<1>1. n \in Nat /\ IsFiniteSet(1..n) /\ Cardinality(1..n) = n
  BY FS_CardinalityType, FS_Interval
<1>2. rank \in Injection(S, 1..n)
  <2>1. rank \in [S -> 1..n]
    BY RankGrows
  <2>2. \A f, g \in S : rank[f] = rank[g] => f = g
    BY <1>1, RankGrows
  <2> QED
    BY <2>1, <2>2 DEF Injection, IsInjective
<1>3. rank \in Surjection(S, 1..n)
  BY <1>1, <1>2, FS_Injection
<1>4. \A i \in 1..n : \E f \in S : Rank(S, f) = i
  BY <1>3 DEF Surjection
<1>5. \A i \in 1..n : InOrder(S)[i] \in S /\ Rank(S, InOrder(S)[i]) = i
  BY <1>4 DEF InOrder
<1>6. DOMAIN InOrder(S) = 1..n
  BY DEF InOrder
<1>7. InOrder(S) \in Seq(S) /\ Len(InOrder(S)) = n
  BY <1>1, <1>5, <1>6 DEF InOrder
<1>8. ASSUME NEW i \in 1..n, NEW j \in 1..n, i < j PROVE InOrder(S)[i] < InOrder(S)[j]
  <2> DEFINE f == InOrder(S)[i]
             g == InOrder(S)[j]
  <2>1. f \in S /\ g \in S /\ Rank(S, f) = i /\ Rank(S, g) = j
    BY <1>5
  <2> HIDE DEF f, g
  <2>2. f # g /\ ~(g < f) /\ f \in Nat /\ g \in Nat
    BY <1>1, <1>8, <2>1, RankGrows
  <2> QED
    BY <2>1, <2>2 DEF f, g
<1> QED
  BY <1>5, <1>6, <1>7, <1>8

LEMMA InOrderHasAll ==
    ASSUME NEW S \in SUBSET Nat, IsFiniteSet(S)
    PROVE  \A f \in S : /\ Rank(S, f) \in 1..Cardinality(S)
                        /\ InOrder(S)[Rank(S, f)] = f
<1> SUFFICES ASSUME NEW f \in S
             PROVE  Rank(S, f) \in 1..Cardinality(S) /\ InOrder(S)[Rank(S, f)] = f
  OBVIOUS
<1>1. Rank(S, f) \in 1..Cardinality(S)
  BY RankGrows
<1> DEFINE g == InOrder(S)[Rank(S, f)]
<1>2. g \in S /\ Rank(S, g) = Rank(S, f)
  BY <1>1, InOrderLists
<1> HIDE DEF g
<1>3. ~(f < g) /\ ~(g < f) /\ f \in Nat /\ g \in Nat
  <2>1. Rank(S, f) \in Nat /\ Rank(S, g) \in Nat
    BY <1>1, <1>2
  <2> QED
    BY <1>2, <2>1, RankGrows
<1> QED
  BY <1>1, <1>3 DEF g

\* The forwarded fields are the first of the order.
LEMMA ForwardedFields ==
    /\ Forwarded = 1..Cardinality(Forwarded) /\ Cardinality(Forwarded) \in Nat \ {0}
    /\ DOMAIN InOrder(Forwarded) = Forwarded
    /\ Len(InOrder(Forwarded)) = Cardinality(Forwarded)
    /\ \A f \in Forwarded : InOrder(Forwarded)[f] = f
<1>1. PICK k \in Nat \ {0} : Forwarded = 1..k
  <2>1. FieldCount \in Nat \ {0} /\ Forwarded \in {1..FieldCount, {1}}
    BY StreamAssumption DEF StreamAssumption, Fields
  <2>2. 1..1 = {1} /\ 1 \in Nat \ {0}
    OBVIOUS
  <2>3. CASE Forwarded = 1..FieldCount
    BY <2>1, <2>3, Zenon
  <2>4. CASE Forwarded = {1}
    BY <2>2, <2>4, Zenon
  <2> QED
    BY <2>1, <2>3, <2>4, Zenon
<1>2. IsFiniteSet(Forwarded) /\ Cardinality(Forwarded) = k /\ Forwarded \in SUBSET Nat
  <2>1. IsFiniteSet(1..k) /\ Cardinality(1..k) = k
    BY FS_Interval
  <2> QED
    BY <1>1, <2>1
<1>3. \A f \in Forwarded : Rank(Forwarded, f) = f
  <2> SUFFICES ASSUME NEW f \in Forwarded PROVE Rank(Forwarded, f) = f
    OBVIOUS
  <2>1. {g \in Forwarded : g <= f} = 1..f
    BY <1>1
  <2>2. Cardinality(1..f) = f
    BY <1>1, FS_Interval
  <2> QED
    BY <2>1, <2>2 DEF Rank
<1>4. /\ DOMAIN InOrder(Forwarded) = 1..Cardinality(Forwarded)
      /\ Len(InOrder(Forwarded)) = Cardinality(Forwarded)
  BY <1>2, InOrderLists
<1>5. \A f \in Forwarded : InOrder(Forwarded)[Rank(Forwarded, f)] = f
  BY <1>2, InOrderHasAll
<1> QED
  BY <1>1, <1>2, <1>3, <1>4, <1>5

\* The deltas of `events` are numbered upwards, after `low` and up to `high`, and
\* without a gap if all are forwarded.
Numbered(events, low, high) ==
    /\ \A i \in 1..Len(events) :
          events[i].type = "delta" => low < events[i].seq /\ events[i].seq <= high
    /\ \A i, j \in 1..Len(events) :
          events[i].type = "delta" /\ events[j].type = "delta" /\ i < j =>
              events[i].seq < events[j].seq
    /\ Forwarded = Fields =>
          \A n \in (low + 1)..high :
              \E i \in 1..Len(events) : events[i].type = "delta" /\ events[i].seq = n

LEMMA DeltaHasNumber == \A e \in Events : e.type = "delta" => e.seq \in Nat
BY DEF Events

LEMMA NumberedConcat ==
    ASSUME NEW P \in Seq(Events), NEW Q \in Seq(Events), NEW a \in Nat, NEW b \in Nat, NEW d \in Nat,
           a <= b, b <= d, Numbered(P, a, b), Numbered(Q, b, d)
    PROVE  Numbered(P \o Q, a, d)
<1> DEFINE R == P \o Q
<1>1. /\ Len(P) \in Nat /\ Len(Q) \in Nat /\ Len(R) = Len(P) + Len(Q)
      /\ \A i \in 1..Len(P) : R[i] = P[i] /\ P[i] \in Events
      /\ \A i \in 1..Len(Q) : R[Len(P) + i] = Q[i] /\ Q[i] \in Events
  OBVIOUS
<1> HIDE DEF R
<1>2. ASSUME NEW i \in 1..Len(R), i > Len(P)
      PROVE  i - Len(P) \in 1..Len(Q) /\ R[i] = Q[i - Len(P)]
  <2>1. i - Len(P) \in 1..Len(Q) /\ Len(P) + (i - Len(P)) = i
    BY <1>1, <1>2
  <2> QED
    BY <1>1, <2>1
<1>3. ASSUME NEW i \in 1..Len(R), R[i].type = "delta"
      PROVE  /\ R[i].seq \in Nat
             /\ IF i <= Len(P) THEN a < R[i].seq /\ R[i].seq <= b
                              ELSE b < R[i].seq /\ R[i].seq <= d
  <2>1. CASE i <= Len(P)
    <3>1. i \in 1..Len(P) /\ R[i] = P[i] /\ P[i] \in Events
      BY <1>1, <2>1
    <3> QED
      BY <1>3, <2>1, <3>1, DeltaHasNumber DEF Numbered
  <2>2. CASE i > Len(P)
    <3> DEFINE k == i - Len(P)
    <3>1. k \in 1..Len(Q) /\ R[i] = Q[k] /\ Q[k] \in Events /\ ~(i <= Len(P))
      BY <1>1, <1>2, <2>2
    <3> HIDE DEF k
    <3> QED
      BY <1>3, <3>1, DeltaHasNumber DEF Numbered
  <2> QED
    BY <1>1, <2>1, <2>2
<1>5. ASSUME NEW i \in 1..Len(R), NEW j \in 1..Len(R), R[i].type = "delta", R[j].type = "delta", i < j
      PROVE  R[i].seq < R[j].seq
  <2>1. CASE j <= Len(P)
    BY <1>1, <1>5, <2>1, SMTT(40) DEF Numbered
  <2>2. CASE i > Len(P)
    <3> DEFINE k == i - Len(P)
               l == j - Len(P)
    <3>1. j > Len(P) /\ k < l
      BY <1>1, <1>5, <2>2
    <3>2. k \in 1..Len(Q) /\ R[i] = Q[k]
      BY <1>2, <2>2
    <3>3. l \in 1..Len(Q) /\ R[j] = Q[l]
      BY <1>2, <3>1
    <3> HIDE DEF k, l
    <3> QED
      BY <1>5, <3>1, <3>2, <3>3 DEF Numbered
  <2>3. CASE i <= Len(P) /\ j > Len(P)
    <3>1. R[i].seq <= b /\ b < R[j].seq
      BY <1>1, <1>3, <1>5, <2>3
    <3> QED
      BY <1>3, <1>5, <3>1
  <2> QED
    BY <1>1, <2>1, <2>2, <2>3
<1>6. ASSUME Forwarded = Fields, NEW n \in (a + 1)..d
      PROVE  \E i \in 1..Len(R) : R[i].type = "delta" /\ R[i].seq = n
  <2>0. /\ \A m \in (a + 1)..b : \E i \in 1..Len(P) : P[i].type = "delta" /\ P[i].seq = m
        /\ \A m \in (b + 1)..d : \E i \in 1..Len(Q) : Q[i].type = "delta" /\ Q[i].seq = m
    BY <1>6 DEF Numbered
  <2>1. CASE n <= b
    <3>0. n \in (a + 1)..b
      BY <2>1
    <3>1. PICK i \in 1..Len(P) : P[i].type = "delta" /\ P[i].seq = n
      BY <2>0, <3>0
    <3> QED
      BY <1>1, <3>1
  <2>2. CASE n > b
    <3>0. n \in (b + 1)..d
      BY <2>2
    <3>1. PICK i \in 1..Len(Q) : Q[i].type = "delta" /\ Q[i].seq = n
      BY <2>0, <3>0
    <3>2. Len(P) + i \in 1..Len(R)
      BY <1>1
    <3> QED
      BY <1>1, <3>1, <3>2
  <2> QED
    BY <2>1, <2>2
<1>7. \A i \in 1..Len(R) : R[i].type = "delta" => a < R[i].seq /\ R[i].seq <= d
  BY <1>3
<1> QED
  BY <1>5, <1>6, <1>7 DEF Numbered, R

LEMMA NumberedWithoutDeltas ==
    ASSUME NEW Q \in Seq(Events), NEW b \in Nat, \A i \in 1..Len(Q) : Q[i].type # "delta"
    PROVE  Numbered(Q, b, b)
BY DEF Numbered

\* Taking the first event leaves the rest numbered after it.
LEMMA NumberedTail ==
    ASSUME NEW P \in Seq(Events), P # <<>>, NEW a \in Nat, NEW b \in Nat, Numbered(P, a, b)
    PROVE  /\ Head(P) \in Events
           /\ Head(P).type = "delta" =>
                 /\ a < Head(P).seq /\ Head(P).seq <= b
                 /\ Forwarded = Fields => Head(P).seq = a + 1
                 /\ Numbered(Tail(P), Head(P).seq, b)
           /\ Head(P).type # "delta" => Numbered(Tail(P), a, b)
<1> DEFINE T == Tail(P)
<1>1. /\ Head(P) = P[1] /\ P[1] \in Events /\ Len(P) \in Nat \ {0} /\ Len(T) = Len(P) - 1
      /\ \A i \in 1..Len(T) : T[i] = P[i + 1] /\ i + 1 \in 1..Len(P)
      /\ \A i \in 1..Len(P) : P[i] \in Events
  OBVIOUS
<1> HIDE DEF T
<1>2. \A i, j \in 1..Len(T) : T[i].type = "delta" /\ T[j].type = "delta" /\ i < j =>
          T[i].seq < T[j].seq
  BY <1>1 DEF Numbered
<1>3. \A i \in 1..Len(T) : T[i].type = "delta" =>
          /\ a < T[i].seq /\ T[i].seq <= b
          /\ P[1].type = "delta" => P[1].seq < T[i].seq
  BY <1>1 DEF Numbered
<1>4. ASSUME Forwarded = Fields, NEW n \in (a + 1)..b,
             P[1].type = "delta" => n # P[1].seq
      PROVE  \E i \in 1..Len(T) : T[i].type = "delta" /\ T[i].seq = n
  <2>1. PICK i \in 1..Len(P) : P[i].type = "delta" /\ P[i].seq = n
    BY <1>4 DEF Numbered
  <2>2. i # 1
    BY <1>4, <2>1
  <2>3. i - 1 \in 1..Len(T) /\ T[i - 1] = P[i]
    BY <1>1, <2>1, <2>2
  <2> QED
    BY <2>1, <2>3
<1>5. CASE P[1].type = "delta"
  <2>1. P[1].seq \in Nat /\ a < P[1].seq /\ P[1].seq <= b
    BY <1>1, <1>5, DeltaHasNumber DEF Numbered
  <2>2. ASSUME Forwarded = Fields PROVE P[1].seq = a + 1
    <3>1. a + 1 \in (a + 1)..b
      BY <2>1
    <3>2. CASE P[1].seq # a + 1
      <4>1. PICK i \in 1..Len(T) : T[i].type = "delta" /\ T[i].seq = a + 1
        BY <1>4, <2>2, <3>1, <3>2
      <4> QED
        BY <1>3, <1>5, <2>1, <4>1
    <3> QED
      BY <3>2
  <2>3. Numbered(T, P[1].seq, b)
    <3>1. \A i \in 1..Len(T) : T[i].type = "delta" => P[1].seq < T[i].seq /\ T[i].seq <= b
      BY <1>3, <1>5
    <3>2. ASSUME Forwarded = Fields, NEW n \in (P[1].seq + 1)..b
          PROVE  \E i \in 1..Len(T) : T[i].type = "delta" /\ T[i].seq = n
      <4>1. n \in (a + 1)..b /\ n # P[1].seq
        BY <2>1, <3>2
      <4> QED
        BY <1>4, <3>2, <4>1
    <3> QED
      BY <1>2, <3>1, <3>2 DEF Numbered
  <2> QED
    BY <1>1, <1>5, <2>1, <2>2, <2>3 DEF T
<1>6. CASE P[1].type # "delta"
  <2>1. Numbered(T, a, b)
    BY <1>2, <1>3, <1>4, <1>6 DEF Numbered
  <2> QED
    BY <1>1, <1>6, <2>1 DEF T
<1> QED
  BY <1>5, <1>6

LEMMA FieldSets ==
    /\ Fields \in SUBSET Nat /\ IsFiniteSet(Fields)
    /\ DeltaFields \in SUBSET Fields /\ Forwarded \in SUBSET Fields
<1>1. FieldCount \in Nat /\ FieldCount >= 1
  BY StreamAssumption DEF StreamAssumption
<1>2. IsFiniteSet(Fields) /\ Fields \in SUBSET Nat /\ 1 \in Fields
  BY <1>1, FS_Interval DEF Fields
<1> QED
  BY <1>2, StreamAssumption DEF StreamAssumption

\* The deltas of a line take the next numbers, one for each text that grew.
LEMMA DeltasAreNumbered ==
    ASSUME count \in Nat, try \in Tries, NEW grown \in SUBSET DeltaFields
    PROVE  /\ Cardinality(grown) \in Nat
           /\ DeltaEvents(grown) \in Seq(Events)
           /\ Numbered(DeltaEvents(grown), count, count + Cardinality(grown))
           /\ \A i \in 1..Len(DeltaEvents(grown)) :
                  DeltaEvents(grown)[i].type = "delta" /\ DeltaEvents(grown)[i].attempt = try
<1> DEFINE told == grown \cap Forwarded
           texts == InOrder(told)
           n == Cardinality(told)
           D == DeltaEvents(grown)
<1>1. grown \in SUBSET Nat /\ grown \in SUBSET Fields /\ IsFiniteSet(grown)
  BY FieldSets, FS_Subset
<1>2. told \in SUBSET Nat /\ told \in SUBSET grown /\ told \in SUBSET Forwarded /\ IsFiniteSet(told)
  BY <1>1, FS_Subset
<1>3. Cardinality(grown) \in Nat /\ n \in Nat
  BY <1>1, <1>2, FS_CardinalityType
<1>4. /\ texts \in Seq(told) /\ Len(texts) = n /\ DOMAIN texts = 1..n
      /\ \A i \in 1..n : texts[i] \in told /\ Rank(told, texts[i]) = i
      /\ \A i, j \in 1..n : i < j => texts[i] < texts[j]
  BY <1>2, InOrderLists
<1>5. D = [i \in 1..n |-> [type |-> "delta", field |-> texts[i], attempt |-> try, seq |-> count + Rank(grown, texts[i])]]
  BY <1>4 DEF DeltaEvents
<1> HIDE DEF told, texts, n, D
<1> DEFINE N(i) == Rank(grown, texts[i])
<1>6. \A r \in 1..Cardinality(grown) : r \in Nat /\ 1 <= r /\ r <= Cardinality(grown) /\ count + r \in Nat
  BY <1>3
<1>7. \A i \in 1..n : texts[i] \in grown /\ N(i) \in 1..Cardinality(grown)
  BY <1>1, <1>2, <1>4, RankGrows
<1>8. \A i \in 1..n : D[i] = [type |-> "delta", field |-> texts[i], attempt |-> try, seq |-> count + N(i)]
  BY <1>5
<1>9. \A i, j \in 1..n : i < j => N(i) < N(j)
  <2> SUFFICES ASSUME NEW i \in 1..n, NEW j \in 1..n, i < j PROVE N(i) < N(j)
    OBVIOUS
  <2> DEFINE f == texts[i]
             g == texts[j]
  <2>1. f \in grown /\ g \in grown /\ f < g
    BY <1>4, <1>7
  <2> HIDE DEF f, g
  <2>2. Rank(grown, f) < Rank(grown, g)
    BY <1>1, <2>1, RankGrows
  <2> QED
    BY <2>2 DEF f, g
<1> HIDE DEF N
<1>10. \A i \in 1..n : /\ texts[i] \in Forwarded
                      /\ N(i) \in Nat /\ 1 <= N(i) /\ N(i) <= Cardinality(grown)
                      /\ count + N(i) \in Nat
                      /\ D[i].type = "delta" /\ D[i].attempt = try /\ D[i].seq = count + N(i)
  <2> TAKE i \in 1..n
  <2>1. texts[i] \in Forwarded
    BY <1>2, <1>4
  <2>2. N(i) \in Nat /\ 1 <= N(i) /\ N(i) <= Cardinality(grown) /\ count + N(i) \in Nat
    BY <1>6, <1>7
  <2>3. D[i] = [type |-> "delta", field |-> texts[i], attempt |-> try, seq |-> count + N(i)]
    BY <1>8
  <2>4. D[i].type = "delta" /\ D[i].attempt = try /\ D[i].seq = count + N(i)
    BY <2>3
  <2> QED
    BY <2>1, <2>2, <2>4
<1>11. D \in Seq(Events) /\ Len(D) = n
  <2>1. \A i \in 1..n : D[i] \in Events
    <3> TAKE i \in 1..n
    <3>1. [type |-> "delta", field |-> texts[i], attempt |-> try, seq |-> count + N(i)]
              \in [type : {"delta"}, field : Forwarded, attempt : Tries, seq : Nat]
      BY <1>10
    <3> QED
      BY <1>8, <3>1 DEF Events
  <2>2. D \in [1..n -> Events]
    BY <1>5, <2>1
  <2> QED
    BY <1>3, <2>2
<1>12. \A i, j \in 1..n : i < j => D[i].seq < D[j].seq
  BY <1>10, <1>9
<1>13. ASSUME Forwarded = Fields, NEW m \in (count + 1)..(count + Cardinality(grown))
      PROVE  \E i \in 1..n : D[i].seq = m
  <2>1. told = grown
    BY <1>1, <1>13 DEF told
  <2>2. m - count \in 1..n /\ count + (m - count) = m
    BY <1>3, <1>13, <2>1 DEF n
  <2>3. D[m - count].seq = count + (m - count)
    BY <1>4, <1>10, <2>1, <2>2 DEF N
  <2> QED
    BY <2>2, <2>3
<1>14. Numbered(D, count, count + Cardinality(grown))
  <2>1. \A i \in 1..n : count < D[i].seq /\ D[i].seq <= count + Cardinality(grown)
    BY <1>3, <1>10
  <2> QED
    BY <1>10, <1>11, <1>12, <1>13, <2>1 DEF Numbered
<1> QED
  BY <1>3, <1>10, <1>11, <1>14 DEF D

\* The fields of a line continue, in turn, what this attempt has sent.
Continues(events, low, high) ==
    /\ \A i \in 1..Len(events) :
          events[i].type = "field" =>
              /\ events[i].field \in Forwarded
              /\ low < events[i].field /\ events[i].field <= high
    /\ \A i, j \in 1..Len(events) :
          i < j /\ events[i].type = "field" /\ events[j].type = "field" =>
              events[i].field < events[j].field
    /\ \A f \in Forwarded :
          low < f /\ f <= high =>
              \E i \in 1..Len(events) : events[i].type = "field" /\ events[i].field = f

LEMMA FieldsAreListed ==
    ASSUME emitted \in Nat, try \in Tries, NEW prefix \in 0..FieldCount
    PROVE  /\ FieldEvents(prefix) \in Seq(Events)
           /\ \A i \in 1..Len(FieldEvents(prefix)) :
                  FieldEvents(prefix)[i].type = "field" /\ FieldEvents(prefix)[i].attempt = try
           /\ Continues(FieldEvents(prefix), emitted, prefix)
<1> DEFINE next == ((emitted + 1)..prefix) \cap Forwarded
           fields == InOrder(next)
           n == Cardinality(next)
           F == FieldEvents(prefix)
<1>1. next \in SUBSET Nat /\ next \in SUBSET Fields /\ IsFiniteSet(next)
  BY FieldSets, FS_Subset
<1>2. /\ fields \in Seq(next) /\ Len(fields) = n /\ DOMAIN fields = 1..n
      /\ \A i, j \in 1..n : i < j => fields[i] < fields[j]
  BY <1>1, InOrderLists
<1>3. F = [i \in 1..n |-> [type |-> "field", field |-> fields[i], attempt |-> try]]
  BY <1>2 DEF FieldEvents
<1>4. \A i \in 1..n : fields[i] \in next
  BY <1>2
<1>5. \A f \in next : \E i \in 1..n : fields[i] = f
  BY <1>1, InOrderHasAll
<1>6. /\ \A f \in next : f \in Forwarded /\ emitted < f /\ f <= prefix
      /\ \A f \in Forwarded : emitted < f /\ f <= prefix => f \in next
  BY FieldSets, StreamAssumption DEF StreamAssumption, Fields
<1>7. n \in Nat
  BY <1>1, FS_CardinalityType
<1> HIDE DEF next, fields, F, n
<1>8. \A i \in 1..n : /\ F[i] \in Events /\ F[i].type = "field" /\ F[i].attempt = try
                      /\ F[i].field = fields[i]
  <2> TAKE i \in 1..n
  <2>1. F[i] = [type |-> "field", field |-> fields[i], attempt |-> try] /\ fields[i] \in Forwarded
    BY <1>3, <1>4, <1>6
  <2>2. F[i] \in [type : {"field"}, field : Forwarded, attempt : Tries]
    BY <2>1
  <2> QED
    BY <2>1, <2>2 DEF Events
<1>9. F \in Seq(Events) /\ Len(F) = n
  <2>1. F \in [1..n -> Events]
    BY <1>3, <1>8
  <2> QED
    BY <1>7, <2>1
<1>10. Continues(F, emitted, prefix)
  <2>1. \A i \in 1..n : F[i].field \in Forwarded /\ emitted < F[i].field /\ F[i].field <= prefix
    BY <1>4, <1>6, <1>8
  <2>2. \A f \in Forwarded : emitted < f /\ f <= prefix => \E i \in 1..n : F[i].field = f
    BY <1>5, <1>6, <1>8
  <2>3. \A i, j \in 1..n : i < j => F[i].field < F[j].field
    BY <1>2, <1>8
  <2> QED
    BY <1>8, <1>9, <2>1, <2>2, <2>3 DEF Continues
<1> QED
  BY <1>8, <1>9, <1>10 DEF F

\* The fields completed in a row, from the first on.
LEMMA PrefixExists ==
    ASSUME NEW done
    PROVE  \E n \in 0..FieldCount : 1..n \subseteq done /\ (n = FieldCount \/ n + 1 \notin done)
<1> DEFINE S == {m \in 1..(FieldCount + 1) : m = FieldCount + 1 \/ m \notin done}
<1>1. FieldCount \in Nat
  BY StreamAssumption DEF StreamAssumption
<1>2. S \in SUBSET Nat /\ FieldCount + 1 \in S
  BY <1>1
<1>3. PICK m \in S : \A k \in S : m <= k
  BY <1>2, LeastExists
<1>4. m - 1 \in 0..FieldCount /\ (m - 1) + 1 = m
  BY <1>1, <1>3
<1>5. 1..(m - 1) \subseteq done
  <2> SUFFICES ASSUME NEW k \in 1..(m - 1), k \notin done PROVE FALSE
    OBVIOUS
  <2>1. k \in S /\ ~(m <= k)
    BY <1>1, <1>3
  <2> QED
    BY <1>3, <2>1
<1>6. m - 1 = FieldCount \/ (m - 1) + 1 \notin done
  BY <1>1, <1>3
<1> QED
  BY <1>4, <1>5, <1>6

LEMMA LineIsNumbered ==
    ASSUME count \in Nat, emitted \in Nat, try \in Tries, NEW grown \in SUBSET DeltaFields, NEW done
    PROVE  LET line == LineEvents(grown, done) IN
           /\ Cardinality(grown) \in Nat
           /\ line.prefix \in Nat
           /\ line.events \in Seq(Events)
           /\ \A i \in 1..Len(line.events) :
                  line.events[i].type \in {"delta", "field"} /\ line.events[i].attempt = try
           /\ Numbered(line.events, count, count + Cardinality(grown))
           /\ Continues(line.events, emitted, line.prefix)
<1> DEFINE prefix == CHOOSE n \in 0..FieldCount :
                         1..n \subseteq done /\ (n = FieldCount \/ n + 1 \notin done)
           D == DeltaEvents(grown)
           F == FieldEvents(prefix)
<1>1. prefix \in 0..FieldCount
  BY PrefixExists
<1>2. LineEvents(grown, done) = [events |-> D \o F, prefix |-> prefix]
  BY DEF LineEvents
<1> HIDE DEF prefix
<1>3. /\ Cardinality(grown) \in Nat /\ D \in Seq(Events)
      /\ Numbered(D, count, count + Cardinality(grown))
      /\ \A i \in 1..Len(D) : D[i].type = "delta" /\ D[i].attempt = try
  BY DeltasAreNumbered
<1>4. /\ F \in Seq(Events) /\ \A i \in 1..Len(F) : F[i].type = "field" /\ F[i].attempt = try
      /\ Continues(F, emitted, prefix)
  BY <1>1, FieldsAreListed
<1> HIDE DEF D, F
<1>5. Numbered(F, count + Cardinality(grown), count + Cardinality(grown))
  <2>1. count + Cardinality(grown) \in Nat /\ \A i \in 1..Len(F) : F[i].type # "delta"
    BY <1>3, <1>4
  <2> QED
    BY <1>4, <2>1, NumberedWithoutDeltas
<1>6. Numbered(D \o F, count, count + Cardinality(grown))
  <2>1. /\ count + Cardinality(grown) \in Nat
        /\ count <= count + Cardinality(grown)
        /\ count + Cardinality(grown) <= count + Cardinality(grown)
    BY <1>3
  <2> QED
    BY <1>3, <1>4, <1>5, <2>1, NumberedConcat
<1>7. /\ D \o F \in Seq(Events)
      /\ \A i \in 1..Len(D \o F) :
            (D \o F)[i].type \in {"delta", "field"} /\ (D \o F)[i].attempt = try
  BY <1>3, <1>4
<1>8. prefix \in Nat
  BY <1>1, StreamAssumption DEF StreamAssumption
<1>9. LineEvents(grown, done).events = D \o F /\ LineEvents(grown, done).prefix = prefix
  BY <1>2
<1>10. Continues(D \o F, emitted, prefix)
  <2> DEFINE all == D \o F
             d == Len(D)
  <2>1. /\ d \in Nat /\ Len(F) \in Nat /\ Len(all) = d + Len(F)
        /\ \A i \in 1..d : all[i] = D[i]
        /\ \A i \in 1..Len(F) : all[d + i] = F[i] /\ d + i \in 1..Len(all)
    BY <1>3, <1>4
  <2>2. \A i \in 1..Len(all) : i > d => i - d \in 1..Len(F) /\ d + (i - d) = i
    BY <2>1
  <2>3. \A i \in 1..d : all[i].type = "delta"
    BY <1>3, <2>1
  <2> HIDE DEF all, d
  <2>4. \A i \in 1..Len(all) : all[i].type = "field" =>
            i - d \in 1..Len(F) /\ all[i] = F[i - d]
    BY <2>1, <2>2, <2>3
  <2>5. \A i, j \in 1..Len(all) : i < j => i - d < j - d
    BY <2>1
  <2>6. Continues(all, emitted, prefix)
    <3>1. \A i \in 1..Len(all) : all[i].type = "field" =>
              /\ all[i].field \in Forwarded
              /\ emitted < all[i].field /\ all[i].field <= prefix
      BY <1>4, <2>4 DEF Continues
    <3>2. ASSUME NEW i \in 1..Len(all), NEW j \in 1..Len(all), i < j,
                 all[i].type = "field", all[j].type = "field"
          PROVE  all[i].field < all[j].field
      <4>1. /\ i - d \in 1..Len(F) /\ all[i] = F[i - d] /\ F[i - d].type = "field"
            /\ j - d \in 1..Len(F) /\ all[j] = F[j - d] /\ F[j - d].type = "field"
            /\ i - d < j - d
        BY <2>4, <2>5, <3>2
      <4> QED
        BY <1>4, <4>1 DEF Continues
    <3>3. ASSUME NEW f \in Forwarded, emitted < f, f <= prefix
          PROVE  \E i \in 1..Len(all) : all[i].type = "field" /\ all[i].field = f
      <4>1. PICK i \in 1..Len(F) : F[i].type = "field" /\ F[i].field = f
        BY <1>4, <3>3 DEF Continues
      <4> QED
        BY <2>1, <4>1
    <3> QED
      BY <3>1, <3>2, <3>3 DEF Continues
  <2> QED
    BY <2>6 DEF all
<1> QED
  BY <1>3, <1>6, <1>7, <1>8, <1>9, <1>10

-----------------------------------------------------------------------------
(* What the client sees.                                                   *)

\* The events on their way to the client: those on the queue, and those the generator
\* has yet to yield.
Waiting == IF wpc = "put" THEN out ELSE IF wpc = "signal" THEN Tail(out) ELSE <<>>
Pipe == queue \o Waiting

Shape ==
    /\ count \in Nat /\ emitted \in Nat /\ seq \in Nat /\ seq <= count
    /\ queue \in Seq(Events) /\ out \in Seq(Events)
    /\ wpc \in {"put", "signal"} => out # <<>>
    /\ after \notin {"put", "signal"}

\* The bridge starts the worker, and takes events as long as none has ended the stream.
EndInv ==
    /\ cpc = "start" => wpc = "none"
    /\ cpc \in {"start", "drain", "recheck", "await", "yielded"} => end = "open"
    /\ cpc = "yieldedFinal" => end = "final"

HasReset(events) == \E i \in 1..Len(events) : events[i].type = "reset"
OneReset(events) ==
    \A i, j \in 1..Len(events) :
        events[i].type = "reset" /\ events[j].type = "reset" => i = j

\* The one reset is on its way as long as the client sees the first attempt and the
\* worker is in the second.
ResetInv ==
    /\ try \in Tries /\ attempt \in Tries
    /\ try = 1 => attempt = 1
    /\ HasReset(Pipe) => attempt = 1 /\ try = 2
    /\ OneReset(Pipe)

PipeInv == Shape /\ EndInv /\ Numbered(Pipe, seq, count) /\ ResetInv

LEMMA InitPipeInv == Init => PipeInv
<1> SUFFICES ASSUME Init PROVE PipeInv
  OBVIOUS
<1>1. Pipe = <<>>
  BY DEF Init, Pipe, Waiting
<1>2. Numbered(Pipe, seq, count) /\ ~HasReset(Pipe) /\ OneReset(Pipe)
  BY <1>1 DEF Init, Numbered, HasReset, OneReset
<1>3. Shape /\ EndInv
  BY DEF Init, Shape, EndInv
<1> QED
  BY <1>2, <1>3 DEF Init, PipeInv, ResetInv, Tries

\* The generator yields events numbered from where it stood, and perhaps the reset.
LEMMA YieldKeepsPipeInv ==
    ASSUME PipeInv, NEW events \in Seq(Events), NEW label, NEW n \in Nat,
           wpc \notin {"none", "put", "signal"}, label \notin {"put", "signal"},
           Yield(events, label),
           count' = n, count <= n, Numbered(events, count, n),
           emitted' \in Nat,
           UNCHANGED <<queue, consumerVars>>,
           \/ try' = try /\ ~HasReset(events)
           \/ try = 1 /\ try' = 2 /\ events = <<Reset>>
    PROVE  PipeInv'
<1>1. /\ queue \in Seq(Events) /\ count \in Nat /\ seq \in Nat /\ seq <= count
      /\ Pipe = queue /\ UNCHANGED <<seq, attempt, cpc, end>>
  BY DEF PipeInv, Shape, Pipe, Waiting, consumerVars, viewVars
<1>2. /\ Pipe' = queue \o events /\ Shape'
  <2>1. CASE events = <<>>
    BY <1>1, <2>1 DEF Yield, Pipe, Waiting, Shape
  <2>2. CASE events # <<>>
    BY <1>1, <2>2 DEF Yield, Pipe, Waiting, Shape
  <2> QED
    BY <2>1, <2>2
<1>3. Numbered(Pipe, seq, count)' 
  <2>1. Numbered(queue, seq, count)
    BY <1>1 DEF PipeInv
  <2>2. Numbered(queue \o events, seq, n)
    BY <1>1, <2>1, NumberedConcat
  <2> QED
    BY <1>1, <1>2, <2>2
<1>4. EndInv'
  BY <1>1 DEF PipeInv, EndInv
<1>5. CASE try' = try /\ ~HasReset(events)
  <2> DEFINE all == queue \o events
  <2>1. /\ Len(queue) \in Nat /\ Len(events) \in Nat /\ Len(all) = Len(queue) + Len(events)
        /\ \A i \in 1..Len(queue) : all[i] = queue[i]
        /\ \A i \in 1..Len(all) : i > Len(queue) =>
              all[i] = events[i - Len(queue)] /\ i - Len(queue) \in 1..Len(events)
    BY <1>1
  <2> HIDE DEF all
  <2>2. ASSUME NEW i \in 1..Len(all), all[i].type = "reset"
        PROVE  i \in 1..Len(queue) /\ queue[i].type = "reset"
    <3>1. CASE i > Len(queue)
      <4>1. events[i - Len(queue)].type = "reset" /\ i - Len(queue) \in 1..Len(events)
        BY <2>1, <2>2, <3>1
      <4> QED
        BY <1>5, <4>1 DEF HasReset
    <3>2. CASE i <= Len(queue)
      BY <2>1, <2>2, <3>2
    <3> QED
      BY <2>1, <3>1, <3>2
  <2>3. (HasReset(all) => HasReset(queue)) /\ (OneReset(queue) => OneReset(all))
    BY <2>2 DEF HasReset, OneReset
  <2>4. Pipe' = all
    BY <1>2 DEF all
  <2>5. OneReset(queue) /\ (HasReset(queue) => attempt = 1 /\ try = 2)
    BY <1>1 DEF PipeInv, ResetInv
  <2>6. HasReset(Pipe)' = HasReset(all) /\ OneReset(Pipe)' = OneReset(all)
    BY <2>4 DEF HasReset, OneReset
  <2> QED
    BY <1>1, <1>2, <1>3, <1>4, <1>5, <2>3, <2>5, <2>6 DEF PipeInv, ResetInv
<1>6. CASE try = 1 /\ try' = 2 /\ events = <<Reset>>
  <2>1. attempt = 1 /\ ~HasReset(queue)
    BY <1>1, <1>6 DEF PipeInv, ResetInv
  <2>2. Pipe' = queue \o <<Reset>> /\ Len(queue) \in Nat
    BY <1>1, <1>2, <1>6
  <2>3. \A i \in 1..Len(Pipe') : Pipe'[i].type = "reset" => i = Len(queue) + 1
    BY <1>1, <2>1, <2>2 DEF HasReset
  <2>4. OneReset(Pipe)'
    BY <2>3 DEF OneReset
  <2> QED
    BY <1>1, <1>2, <1>3, <1>4, <1>6, <2>1, <2>4 DEF PipeInv, ResetInv, Tries
<1> QED
  BY <1>5, <1>6

LEMMA WorkerKeepsPipeInv == PipeInv /\ WorkerStep => PipeInv'
<1> SUFFICES ASSUME PipeInv, WorkerStep PROVE PipeInv'
  OBVIOUS
<1>1. /\ count \in Nat /\ emitted \in Nat /\ try \in Tries
      /\ queue \in Seq(Events) /\ out \in Seq(Events)
      /\ count <= count
  BY DEF PipeInv, Shape, ResetInv
<1>2. /\ <<>> \in Seq(Events) /\ <<Final, Sentinel>> \in Seq(Events)
      /\ <<Exception>> \in Seq(Events) /\ <<Reset>> \in Seq(Events)
  BY DEF Events, Final, Sentinel, Exception, Reset
<1>3. \A events \in {<<>>, <<Final, Sentinel>>, <<Exception>>, <<Reset>>} :
          /\ events \in Seq(Events) /\ Numbered(events, count, count)
          /\ events # <<Reset>> => ~HasReset(events)
  <2>1. \A events \in {<<>>, <<Final, Sentinel>>, <<Exception>>, <<Reset>>} :
            \A i \in 1..Len(events) :
                /\ events[i].type # "delta"
                /\ events # <<Reset>> => events[i].type # "reset"
    BY DEF Final, Sentinel, Exception, Reset
  <2> QED
    BY <1>1, <1>2, <2>1, NumberedWithoutDeltas DEF HasReset
<1>4. ASSUME NEW events \in {<<>>, <<Final, Sentinel>>, <<Exception>>, <<Reset>>}, NEW label,
             wpc \notin {"none", "put", "signal"}, label \notin {"put", "signal"},
             Yield(events, label), emitted' \in Nat,
             UNCHANGED <<count, queue, consumerVars>>,
             IF events = <<Reset>> THEN try = 1 /\ try' = 2 ELSE try' = try
      PROVE  PipeInv'
  BY <1>1, <1>3, <1>4, YieldKeepsPipeInv
<1>5. CASE Begin \/ CheckCancelled \/ Post \/ Register \/ CloseNow \/ ReadEnds
  <2>1. /\ wpc \notin {"none", "put", "signal"} /\ emitted' \in Nat
        /\ UNCHANGED <<count, queue, consumerVars, try>>
    BY <1>1, <1>5 DEF Begin, CheckCancelled, Post, Register, CloseNow, ReadEnds, genVars
  <2>2. \E events \in {<<>>, <<Final, Sentinel>>} :
            \E label \in {"exit", "check", "decide", "post", "register", "closeNow", "read"} :
                Yield(events, label)
    BY <1>5 DEF Begin, CheckCancelled, Post, Register, CloseNow, ReadEnds, Continue
  <2>3. <<>> # <<Reset>> /\ <<Final, Sentinel>> # <<Reset>>
    OBVIOUS
  <2> QED
    BY <1>4, <2>1, <2>2, <2>3
<1>6. CASE Decide
  <2>1. /\ wpc \notin {"none", "put", "signal"} /\ emitted' \in Nat
        /\ UNCHANGED <<count, queue, consumerVars>>
    BY <1>1, <1>6 DEF Decide
  <2>2. <<Exception>> # <<Reset>> /\ <<Final, Sentinel>> # <<Reset>>
    BY DEF Exception, Reset
  <2>3. \/ Yield(<<Exception>>, "exit") /\ try' = try
        \/ Yield(<<Final, Sentinel>>, "exit") /\ try' = try
        \/ Yield(<<Reset>>, "check") /\ try = 1 /\ try' = 2
    BY <1>6 DEF Decide
  <2> QED
    BY <1>4, <2>1, <2>2, <2>3
<1>7. CASE Line
  <2>1. PICK grown \in SUBSET DeltaFields, more \in SUBSET Fields :
            /\ emitted' = LineEvents(grown, complete \cup more).prefix
            /\ count' = count + Cardinality(grown)
            /\ Yield(LineEvents(grown, complete \cup more).events, "read")
    BY <1>7 DEF Line
  <2> DEFINE line == LineEvents(grown, complete \cup more)
  <2>2. /\ Cardinality(grown) \in Nat /\ line.prefix \in Nat /\ line.events \in Seq(Events)
        /\ \A i \in 1..Len(line.events) : line.events[i].type \in {"delta", "field"}
        /\ Numbered(line.events, count, count + Cardinality(grown))
    BY <1>1, LineIsNumbered
  <2>3. /\ wpc \notin {"none", "put", "signal"} /\ UNCHANGED <<queue, consumerVars, try>>
    BY <1>7 DEF Line
  <2> HIDE DEF line
  <2>4. ~HasReset(line.events)
    BY <2>2 DEF HasReset
  <2>5. count + Cardinality(grown) \in Nat /\ count <= count + Cardinality(grown)
    BY <1>1, <2>2
  <2>6. emitted' = line.prefix /\ Yield(line.events, "read")
    BY <2>1 DEF line
  <2> QED
    BY <2>1, <2>2, <2>3, <2>4, <2>5, <2>6, YieldKeepsPipeInv
<1>8. CASE Put
  <2>1. out # <<>> /\ wpc = "put" /\ wpc' = "signal" /\ queue' = Append(queue, Head(out))
        /\ UNCHANGED <<genVars, out, after, consumerVars>>
    BY <1>8 DEF Put, PipeInv, Shape
  <2>2. queue \o out = queue' \o Tail(out) /\ queue' \in Seq(Events)
    BY <1>1, <2>1
  <2>3. Pipe' = Pipe
    BY <2>1, <2>2 DEF Pipe, Waiting
  <2>4. Shape'
    BY <2>1, <2>2 DEF PipeInv, Shape, genVars, consumerVars, viewVars
  <2> QED
    BY <2>1, <2>3, <2>4 DEF PipeInv, EndInv, ResetInv, genVars, consumerVars, viewVars
<1>9. CASE Signal
  <2>1. out # <<>> /\ wpc = "signal" /\ UNCHANGED <<genVars, queue, consumerVars>>
        /\ Yield(Tail(out), after) /\ after \notin {"put", "signal"}
    BY <1>9 DEF Signal, PipeInv, Shape
  <2>2. Tail(out) \in Seq(Events)
    BY <1>1, <2>1
  <2>3. Pipe' = Pipe /\ Shape'
    <3>1. CASE Tail(out) = <<>>
      BY <1>1, <2>1, <2>2, <3>1 DEF Yield, Pipe, Waiting, PipeInv, Shape, genVars, consumerVars, viewVars
    <3>2. CASE Tail(out) # <<>>
      BY <1>1, <2>1, <2>2, <3>2 DEF Yield, Pipe, Waiting, PipeInv, Shape, genVars, consumerVars, viewVars
    <3> QED
      BY <3>1, <3>2
  <2> QED
    BY <2>1, <2>3 DEF PipeInv, EndInv, ResetInv, genVars, consumerVars, viewVars
<1> QED
  BY <1>5, <1>6, <1>7, <1>8, <1>9 DEF WorkerStep

\* The rest of the pipe, when the client has been sent its first event.
LEMMA TakenFromPipe ==
    ASSUME PipeInv, queue # <<>>, queue' = Tail(queue), UNCHANGED <<wpc, out>>
    PROVE  /\ Pipe \in Seq(Events) /\ Pipe # <<>>
           /\ Head(queue) = Head(Pipe) /\ Head(Pipe) = Pipe[1]
           /\ Pipe' = Tail(Pipe) /\ queue' \in Seq(Events)
<1>1. queue \in Seq(Events) /\ Waiting \in Seq(Events) /\ Waiting' = Waiting
  BY DEF PipeInv, Shape, Waiting
<1> QED
  BY <1>1 DEF Pipe

LEMMA TakeKeepsPipeInv ==
    ASSUME PipeInv, TakeEvent
    PROVE  PipeInv'
<1> DEFINE e == Head(queue)
<1>1. /\ cpc = "drain" /\ queue # <<>> /\ queue' = Tail(queue)
      /\ attempt' = IF e.type = "reset" THEN 2 ELSE attempt
      /\ seq' = IF e.type = "delta" THEN e.seq ELSE seq
      /\ end' = IF e = Final THEN "final" ELSE IF e \in {Sentinel, Exception} THEN "broken" ELSE end
      /\ cpc' = IF e = Final THEN "yieldedFinal"
                ELSE IF e \in {Sentinel, Exception} THEN "cancel" ELSE "yielded"
      /\ UNCHANGED <<wpc, out, after, try, count, emitted>>
  BY DEF TakeEvent, workerVars, genVars
<1> HIDE DEF e
<1>2. /\ Pipe \in Seq(Events) /\ Pipe # <<>> /\ e = Head(Pipe) /\ e = Pipe[1]
      /\ Pipe' = Tail(Pipe) /\ queue' \in Seq(Events)
  BY <1>1, TakenFromPipe DEF e
<1>3. /\ count \in Nat /\ seq \in Nat /\ seq <= count /\ end = "open"
      /\ Numbered(Pipe, seq, count) /\ attempt \in Tries /\ try \in Tries
  BY <1>1 DEF PipeInv, Shape, EndInv, ResetInv
<1>4. /\ e \in Events
      /\ e.type = "delta" =>
            /\ seq < e.seq /\ e.seq <= count
            /\ Forwarded = Fields => e.seq = seq + 1
            /\ Numbered(Tail(Pipe), e.seq, count)
      /\ e.type # "delta" => Numbered(Tail(Pipe), seq, count)
  BY <1>2, <1>3, NumberedTail
<1>5. e.type = "delta" => e.seq \in Nat
  BY <1>4, DeltaHasNumber
<1>6. e.type = "reset" => attempt = 1 /\ try = 2 /\ ~HasReset(Tail(Pipe))
  <2> SUFFICES ASSUME e.type = "reset" PROVE attempt = 1 /\ try = 2 /\ ~HasReset(Tail(Pipe))
    OBVIOUS
  <2>1. 1 \in 1..Len(Pipe) /\ Pipe[1].type = "reset"
    BY <1>2
  <2>2. attempt = 1 /\ try = 2
    BY <2>1 DEF PipeInv, ResetInv, HasReset
  <2>3. ASSUME NEW i \in 1..Len(Tail(Pipe)), Tail(Pipe)[i].type = "reset" PROVE FALSE
    <3>1. i + 1 \in 1..Len(Pipe) /\ Pipe[i + 1].type = "reset"
      BY <1>2, <2>3
    <3>2. i + 1 # 1
      BY <2>3
    <3> QED
      BY <2>1, <3>1, <3>2 DEF PipeInv, ResetInv, OneReset
  <2> QED
    BY <2>2, <2>3 DEF HasReset
<1>7. (HasReset(Tail(Pipe)) => HasReset(Pipe)) /\ (OneReset(Pipe) => OneReset(Tail(Pipe)))
  <2>1. \A i \in 1..Len(Tail(Pipe)) : i + 1 \in 1..Len(Pipe) /\ Tail(Pipe)[i] = Pipe[i + 1]
    BY <1>2
  <2>2. \A i, j \in 1..Len(Tail(Pipe)) : i + 1 = j + 1 => i = j
    BY <1>2
  <2> QED
    BY <2>1, <2>2 DEF HasReset, OneReset
<1>8. PipeInv'
  <2>1. Shape'
    BY <1>1, <1>2, <1>3, <1>4, <1>5 DEF PipeInv, Shape
  <2>2. EndInv'
    BY <1>1, <1>3 DEF EndInv
  <2>3. Numbered(Pipe, seq, count)'
    BY <1>1, <1>2, <1>4
  <2>4. ResetInv'
    <3>1. HasReset(Pipe)' = HasReset(Tail(Pipe)) /\ OneReset(Pipe)' = OneReset(Tail(Pipe))
      BY <1>2 DEF HasReset, OneReset
    <3> QED
      BY <1>1, <1>6, <1>7, <3>1 DEF PipeInv, ResetInv, Tries
  <2> QED
    BY <2>1, <2>2, <2>3, <2>4 DEF PipeInv
<1> QED
  BY <1>8

LEMMA LoopKeepsPipeInv ==
    PipeInv /\ (LoopStep \/ RunSignal \/ ClientLeaves) => PipeInv'
<1> SUFFICES ASSUME PipeInv, LoopStep \/ RunSignal \/ ClientLeaves PROVE PipeInv'
  OBVIOUS
<1>1. ASSUME UNCHANGED <<wpc, out, after, try, count, emitted, queue, seq, attempt>>, EndInv' PROVE PipeInv'
  BY <1>1 DEF PipeInv, Shape, ResetInv, Pipe, Waiting
<1>2. CASE BridgeStarts
  <2>1. /\ UNCHANGED <<out, after, try, count, emitted, queue, viewVars>> /\ wpc' = "begin"
        /\ cpc = "start" /\ cpc' = "drain"
    BY <1>2 DEF BridgeStarts, genVars, bridgeVars
  <2>2. Pipe' = Pipe
    BY <2>1 DEF PipeInv, EndInv, Pipe, Waiting
  <2>3. Shape' /\ EndInv'
    BY <2>1 DEF PipeInv, Shape, EndInv, viewVars
  <2> QED
    BY <2>1, <2>2, <2>3 DEF PipeInv, ResetInv, viewVars
<1>3. CASE TakeEvent
  BY <1>3, TakeKeepsPipeInv
<1>4. CASE ClearWake \/ Recheck \/ WakeUp \/ Resume \/ CloseDropped \/ Cancel \/ CallBack \/ RunSignal
  <2>1. /\ UNCHANGED <<wpc, out, after, try, count, emitted, queue, viewVars>>
        /\ \/ cpc' = cpc
           \/ cpc \in {"drain", "recheck", "await", "yielded"} /\ cpc' \in {"drain", "recheck", "await"}
           \/ cpc' \in {"cancel", "callBack", "closed"}
    BY <1>4 DEF ClearWake, Recheck, WakeUp, Resume, CloseDropped, Cancel, CallBack, RunSignal,
                workerVars, genVars, bridgeVars
  <2>2. EndInv'
    BY <2>1 DEF PipeInv, EndInv, viewVars
  <2> QED
    BY <1>1, <2>1, <2>2 DEF viewVars
<1>5. CASE Finish \/ ClientLeaves
  <2>1. /\ UNCHANGED <<wpc, out, after, try, count, emitted, queue, seq, attempt>>
        /\ cpc' \in {"dropped", "closed", "cancel"}
        /\ \/ cpc = "yieldedFinal" /\ end' = "done"
           \/ cpc \in {"start", "await", "yielded", "yieldedFinal"} /\ end' = "left"
    BY <1>5 DEF Finish, ClientLeaves, EndsAs, workerVars, genVars, bridgeVars
  <2>2. EndInv'
    BY <2>1 DEF EndInv
  <2> QED
    BY <1>1, <2>1, <2>2
<1> QED
  BY <1>2, <1>3, <1>4, <1>5 DEF LoopStep

LEMMA StepKeepsPipeInv == PipeInv /\ [Next]_vars => PipeInv'
<1>1. PipeInv /\ UNCHANGED vars => PipeInv'
  <2> SUFFICES ASSUME PipeInv, UNCHANGED vars PROVE PipeInv'
    OBVIOUS
  <2>1. UNCHANGED <<wpc, out, after, try, count, emitted, queue, cpc, viewVars>>
    BY DEF vars, genVars, consumerVars
  <2>2. Pipe' = Pipe
    BY <2>1 DEF Pipe, Waiting
  <2> QED
    BY <2>1, <2>2 DEF PipeInv, Shape, EndInv, ResetInv, viewVars
<1> QED
  BY <1>1, WorkerKeepsPipeInv, LoopKeepsPipeInv DEF Next

-----------------------------------------------------------------------------
(* The fields, in order and from one attempt.                              *)

IsText(e) == e.type \in {"delta", "field"}
FieldOf(e, f, a) == e.type = "field" /\ e.field = f /\ e.attempt = a

\* Each field event continues what the client will have been shown by then: `n` fields
\* of the attempt `now`, none of another.
Chained(events, now, n) ==
    \A i \in 1..Len(events) :
        events[i].type = "field" =>
            /\ events[i].field \in Forwarded
            /\ \/ events[i].field = (IF events[i].attempt = now THEN n + 1 ELSE 1)
               \/ \E j \in 1..Len(events) :
                     j < i /\ FieldOf(events[j], events[i].field - 1, events[i].attempt)

Ascending(events) ==
    \A i, j \in 1..Len(events) :
        /\ i < j /\ events[i].type = "field" /\ events[j].type = "field"
        /\ events[i].attempt = events[j].attempt
        => events[i].field < events[j].field

\* Text and fields are of the attempt `now` before the reset, of the second after it.
ResetBefore(events, i) == \E j \in 1..Len(events) : j < i /\ events[j].type = "reset"
Sorted(events, now) ==
    \A i \in 1..Len(events) :
        IsText(events[i]) => events[i].attempt = IF ResetBefore(events, i) THEN 2 ELSE now

\* What this attempt has yielded is shown or on its way.
Sent(events, f) ==
    \/ try = attempt /\ f <= Len(shown)
    \/ \E i \in 1..Len(events) : FieldOf(events[i], f, try)

\* The attempt may still yield fields.
Sending == wpc \notin {"decide", "exit"} /\ (wpc \in {"put", "signal"} => after \notin {"decide", "exit"})

FieldInv ==
    /\ shown \in Seq([field : Forwarded, attempt : Tries])
    /\ Chained(Pipe, attempt, Len(shown)) /\ Ascending(Pipe) /\ Sorted(Pipe, attempt)
    /\ try = 2 => attempt = 2 \/ HasReset(Pipe)
    /\ Sending => \A f \in Forwarded : Sent(Pipe, f) <=> f <= emitted
    /\ emitted # 0 => wpc = "read" \/ (wpc \in {"put", "signal"} /\ after = "read")
    /\ emitted \in 0..FieldCount /\ 1..emitted \subseteq complete

LEMMA FieldNumbers == \A e \in Events : /\ IsText(e) => e.attempt \in Tries /\ e.field \in Forwarded
                                        /\ e.type = "field" => e.field \in Nat /\ IsText(e)
<1>1. \A f \in Forwarded : f \in Nat
  BY FieldSets
<1>2. \A e \in Events : IsText(e) => e.attempt \in Tries /\ e.field \in Forwarded
  BY DEF IsText, Events
<1> QED
  BY <1>1, <1>2 DEF IsText

LEMMA ConcatAt ==
    ASSUME NEW P \in Seq(Events), NEW Q \in Seq(Events)
    PROVE  /\ P \o Q \in Seq(Events)
           /\ Len(P) \in Nat /\ Len(Q) \in Nat /\ Len(P \o Q) = Len(P) + Len(Q)
           /\ \A i \in 1..Len(P) : i \in 1..Len(P \o Q) /\ (P \o Q)[i] = P[i]
           /\ \A i \in 1..Len(Q) : Len(P) + i \in 1..Len(P \o Q) /\ (P \o Q)[Len(P) + i] = Q[i]
           /\ \A i \in 1..Len(P \o Q) :
                 \/ i \in 1..Len(P) /\ (P \o Q)[i] = P[i]
                 \/ \E k \in 1..Len(Q) : i = Len(P) + k /\ (P \o Q)[i] = Q[k]
<1> DEFINE R == P \o Q
<1>1. /\ R \in Seq(Events) /\ Len(P) \in Nat /\ Len(Q) \in Nat /\ Len(R) = Len(P) + Len(Q)
      /\ \A i \in 1..Len(P) : R[i] = P[i]
      /\ \A i \in 1..Len(Q) : R[Len(P) + i] = Q[i]
  OBVIOUS
<1> HIDE DEF R
<1>2. /\ \A i \in 1..Len(P) : i \in 1..Len(R)
      /\ \A i \in 1..Len(Q) : Len(P) + i \in 1..Len(R)
  BY <1>1
<1>3. \A i \in 1..Len(R) :
          \/ i \in 1..Len(P) /\ R[i] = P[i]
          \/ \E k \in 1..Len(Q) : i = Len(P) + k /\ R[i] = Q[k]
  <2> TAKE i \in 1..Len(R)
  <2>1. CASE i <= Len(P)
    BY <1>1, <2>1
  <2>2. CASE i > Len(P)
    <3>1. i - Len(P) \in 1..Len(Q) /\ i = Len(P) + (i - Len(P))
      BY <1>1, <2>2
    <3> QED
      BY <1>1, <3>1
  <2> QED
    BY <1>1, <2>1, <2>2
<1> QED
  BY <1>1, <1>2, <1>3, Zenon DEF R

\* Events without text change nothing of this.
LEMMA NoTextAppended ==
    ASSUME NEW P \in Seq(Events), NEW Q \in Seq(Events), NEW now, NEW n,
           Chained(P, now, n), Ascending(P), Sorted(P, now),
           \A i \in 1..Len(Q) : ~IsText(Q[i])
    PROVE  /\ Chained(P \o Q, now, n) /\ Ascending(P \o Q) /\ Sorted(P \o Q, now)
           /\ \A f : Sent(P \o Q, f) <=> Sent(P, f)
<1> DEFINE R == P \o Q
<1>1. /\ R \in Seq(Events) /\ Len(P) \in Nat /\ Len(R) = Len(P) + Len(Q) /\ Len(Q) \in Nat
      /\ \A i \in 1..Len(P) : i \in 1..Len(R) /\ R[i] = P[i]
      /\ \A i \in 1..Len(R) : IsText(R[i]) => i \in 1..Len(P) /\ R[i] = P[i]
  BY ConcatAt, ZenonT(60)
<1> HIDE DEF R
<1>2. \A i \in 1..Len(R) : R[i].type = "field" => i \in 1..Len(P) /\ R[i] = P[i]
  BY <1>1 DEF IsText
<1>3. Chained(R, now, n)
  BY <1>1, <1>2 DEF Chained
<1>4. Ascending(R)
  BY <1>1, <1>2 DEF Ascending
<1>5. Sorted(R, now)
  <2> SUFFICES ASSUME NEW i \in 1..Len(R), IsText(R[i])
               PROVE  R[i].attempt = IF ResetBefore(R, i) THEN 2 ELSE now
    BY DEF Sorted
  <2>1. i \in 1..Len(P) /\ R[i] = P[i] /\ IsText(P[i])
    BY <1>1
  <2>2. ResetBefore(R, i) <=> ResetBefore(P, i)
    <3>1. \A j \in 1..Len(R) : j < i => j \in 1..Len(P) /\ R[j] = P[j]
      BY <1>1, <2>1
    <3> QED
      BY <1>1, <2>1, <3>1 DEF ResetBefore
  <2> QED
    BY <2>1, <2>2 DEF Sorted
<1>6. \A f : Sent(R, f) <=> Sent(P, f)
  BY <1>1, <1>2 DEF Sent, FieldOf
<1> QED
  BY <1>3, <1>4, <1>5, <1>6 DEF R

\* The events of a line: its fields are the next of the attempt.
LEMMA FieldsAppended ==
    ASSUME NEW P \in Seq(Events), NEW Q \in Seq(Events), NEW low \in Nat, NEW high \in Nat,
           low <= high, try \in Tries, attempt \in Tries, Len(shown) \in Nat,
           Chained(P, attempt, Len(shown)), Ascending(P), Sorted(P, attempt),
           \A f \in Forwarded : Sent(P, f) <=> f <= low,
           try = IF HasReset(P) THEN 2 ELSE attempt,
           \A i \in 1..Len(Q) : IsText(Q[i]) /\ Q[i].attempt = try,
           Continues(Q, low, high)
    PROVE  /\ Chained(P \o Q, attempt, Len(shown)) /\ Ascending(P \o Q) /\ Sorted(P \o Q, attempt)
           /\ \A f \in Forwarded : Sent(P \o Q, f) <=> f <= high
<1> DEFINE R == P \o Q
           p == Len(P)
<1>1. /\ R \in Seq(Events) /\ p \in Nat /\ Len(R) = p + Len(Q) /\ Len(Q) \in Nat
      /\ \A i \in 1..p : i \in 1..Len(R) /\ R[i] = P[i] /\ P[i] \in Events
      /\ \A i \in 1..Len(Q) : p + i \in 1..Len(R) /\ R[p + i] = Q[i]
      /\ \A i \in 1..Len(R) :
            \/ i \in 1..p /\ R[i] = P[i]
            \/ \E k \in 1..Len(Q) : i = p + k /\ R[i] = Q[k]
  BY ConcatAt
<1>2. /\ Forwarded = 1..Cardinality(Forwarded) /\ Cardinality(Forwarded) \in Nat \ {0}
  BY ForwardedFields
<1>3. \A i \in 1..p : P[i].type = "field" /\ P[i].attempt = try => P[i].field \in Nat /\ P[i].field <= low
  <2> SUFFICES ASSUME NEW i \in 1..p, P[i].type = "field", P[i].attempt = try
               PROVE  P[i].field \in Nat /\ P[i].field <= low
    OBVIOUS
  <2>1. P[i].field \in Forwarded
    BY <2>1 DEF Chained
  <2>2. Sent(P, P[i].field)
    BY DEF Sent, FieldOf
  <2> QED
    BY <1>2, <2>1, <2>2
<1> HIDE DEF R, p
<1>4. Chained(R, attempt, Len(shown))
  <2> SUFFICES ASSUME NEW i \in 1..Len(R), R[i].type = "field"
               PROVE  /\ R[i].field \in Forwarded
                      /\ \/ R[i].field = (IF R[i].attempt = attempt THEN Len(shown) + 1 ELSE 1)
                         \/ \E j \in 1..Len(R) :
                               j < i /\ FieldOf(R[j], R[i].field - 1, R[i].attempt)
    BY DEF Chained
  <2>1. CASE i \in 1..p /\ R[i] = P[i]
    <3>1. CASE R[i].field = (IF R[i].attempt = attempt THEN Len(shown) + 1 ELSE 1)
      BY <2>1, <3>1 DEF Chained, p
    <3>2. CASE \E j \in 1..p : j < i /\ FieldOf(P[j], P[i].field - 1, P[i].attempt)
      <4>1. PICK j \in 1..p : j < i /\ FieldOf(P[j], P[i].field - 1, P[i].attempt)
        BY <3>2
      <4>2. j \in 1..Len(R) /\ FieldOf(R[j], R[i].field - 1, R[i].attempt)
        BY <1>1, <2>1, <4>1
      <4> QED
        BY <2>1, <4>1, <4>2 DEF Chained, p
    <3> QED
      BY <2>1, <3>1, <3>2 DEF Chained, p
  <2>2. CASE \E k \in 1..Len(Q) : i = p + k /\ R[i] = Q[k]
    <3>1. PICK k \in 1..Len(Q) : i = p + k /\ R[i] = Q[k]
      BY <2>2
    <3> DEFINE f == Q[k].field
    <3>2. f \in Forwarded /\ low < f /\ f <= high /\ Q[k].type = "field" /\ Q[k].attempt = try
      BY <3>1 DEF Continues
    <3>3. CASE f = 1
      <4>1. ~Sent(P, f)
        BY <3>2, <3>3
      <4>2. try = attempt => Len(shown) = 0
        BY <3>3, <4>1 DEF Sent
      <4>3. R[i].field = f /\ R[i].attempt = try
        BY <3>1, <3>2
      <4>4. R[i].field = (IF R[i].attempt = attempt THEN Len(shown) + 1 ELSE 1)
        BY <3>3, <4>2, <4>3
      <4> QED
        BY <3>2, <4>3, <4>4
    <3>4. CASE f > 1 /\ f = low + 1
      <4>1. f - 1 \in Forwarded /\ f - 1 <= low /\ f \in Nat
        BY <1>2, <3>2, <3>4
      <4>2. Sent(P, f - 1) /\ ~Sent(P, f)
        BY <3>2, <4>1
      <4>3. CASE try = attempt /\ f - 1 <= Len(shown)
        <5>1. ~(f <= Len(shown))
          BY <4>2, <4>3 DEF Sent
        <5> QED
          BY <3>1, <3>2, <4>1, <4>3, <5>1, SMTT(40)
      <4>4. CASE \E j \in 1..p : FieldOf(P[j], f - 1, try)
        <5>1. PICK j \in 1..p : FieldOf(P[j], f - 1, try)
          BY <4>4
        <5>2. j \in 1..Len(R) /\ j < i /\ FieldOf(R[j], f - 1, try)
          BY <1>1, <3>1, <5>1
        <5> QED
          BY <3>1, <3>2, <5>2
      <4> QED
        BY <4>2, <4>3, <4>4 DEF Sent, p
    <3>5. CASE f # 1 /\ f # low + 1
      <4>1. f - 1 \in Forwarded /\ low < f - 1 /\ f - 1 <= high /\ f \in Nat
        <5>1. f \in Nat \ {0} /\ f <= Cardinality(Forwarded)
          BY <1>2, <3>2, SMTT(40)
        <5> HIDE DEF f
        <5>2. f - 1 \in 1..Cardinality(Forwarded) /\ low < f - 1 /\ f - 1 <= high
          BY <1>2, <3>2, <3>5, <5>1
        <5> QED
          BY <1>2, <5>1, <5>2
      <4>2. PICK l \in 1..Len(Q) : Q[l].type = "field" /\ Q[l].field = f - 1
        BY <4>1 DEF Continues
      <4>3. l < k
        <5>1. ~(k < l)
          BY <3>2, <4>1, <4>2, SMTT(40) DEF Continues
        <5>2. k # l
          BY <4>1, <4>2
        <5> QED
          BY <5>1, <5>2
      <4>4. p + l \in 1..Len(R) /\ p + l < i /\ FieldOf(R[p + l], f - 1, try)
        BY <1>1, <3>1, <4>2, <4>3, SMTT(40) DEF FieldOf
      <4> QED
        BY <3>1, <3>2, <4>4
    <3> QED
      BY <1>2, <3>2, <3>3, <3>4, <3>5
  <2> QED
    BY <1>1, <2>1, <2>2
<1>5. Ascending(R)
  <2> SUFFICES ASSUME NEW i \in 1..Len(R), NEW j \in 1..Len(R), i < j,
                      R[i].type = "field", R[j].type = "field", R[i].attempt = R[j].attempt
               PROVE  R[i].field < R[j].field
    BY DEF Ascending
  <2>1. CASE j \in 1..p /\ R[j] = P[j]
    <3>1. i \in 1..p /\ R[i] = P[i]
      BY <1>1, <2>1
    <3> QED
      BY <2>1, <3>1 DEF Ascending, p
  <2>2. CASE \E l \in 1..Len(Q) : j = p + l /\ R[j] = Q[l]
    <3>1. PICK l \in 1..Len(Q) : j = p + l /\ R[j] = Q[l]
      BY <2>2
    <3>2. R[j].attempt = try /\ R[j].field \in Forwarded /\ low < R[j].field
      BY <3>1 DEF Continues
    <3>3. CASE i \in 1..p /\ R[i] = P[i]
      BY <1>2, <1>3, <3>2, <3>3, SMTT(40)
    <3>4. CASE \E k \in 1..Len(Q) : i = p + k /\ R[i] = Q[k]
      <4>1. PICK k \in 1..Len(Q) : i = p + k /\ R[i] = Q[k]
        BY <3>4
      <4>2. k < l
        BY <1>1, <3>1, <4>1
      <4> QED
        BY <3>1, <4>1, <4>2 DEF Continues
    <3> QED
      BY <1>1, <3>3, <3>4
  <2> QED
    BY <1>1, <2>1, <2>2
<1>6. Sorted(R, attempt)
  <2> SUFFICES ASSUME NEW i \in 1..Len(R), IsText(R[i])
               PROVE  R[i].attempt = IF ResetBefore(R, i) THEN 2 ELSE attempt
    BY DEF Sorted
  <2>1. CASE i \in 1..p /\ R[i] = P[i]
    <3>1. \A j \in 1..Len(R) : j < i => j \in 1..p /\ R[j] = P[j]
      BY <1>1, <2>1
    <3>2. ResetBefore(R, i) <=> ResetBefore(P, i)
      BY <1>1, <2>1, <3>1 DEF ResetBefore, p
    <3> QED
      BY <2>1, <3>2 DEF Sorted, p
  <2>2. CASE \E k \in 1..Len(Q) : i = p + k /\ R[i] = Q[k]
    <3>1. R[i].attempt = try
      BY <2>2
    <3>2. \A j \in 1..Len(R) : R[j].type = "reset" => j \in 1..p /\ R[j] = P[j]
      BY <1>1 DEF IsText
    <3>3. \A j \in 1..p : j < i
      BY <1>1, <2>2
    <3>4. ResetBefore(R, i) <=> HasReset(P)
      BY <1>1, <3>2, <3>3 DEF ResetBefore, HasReset, p
    <3> QED
      BY <3>1, <3>4
  <2> QED
    BY <1>1, <2>1, <2>2
<1>7. \A f \in Forwarded : Sent(R, f) <=> f <= high
  <2> SUFFICES ASSUME NEW f \in Forwarded PROVE Sent(R, f) <=> f <= high
    OBVIOUS
  <2>1. f \in Nat
    BY <1>2
  <2>2. ASSUME f <= low PROVE Sent(R, f) /\ f <= high
    <3>1. Sent(P, f) /\ f <= high
      BY <2>1, <2>2
    <3> QED
      BY <1>1, <3>1 DEF Sent, p
  <2>3. ASSUME low < f, f <= high PROVE Sent(R, f)
    <3>1. PICK k \in 1..Len(Q) : Q[k].type = "field" /\ Q[k].field = f
      BY <2>3 DEF Continues
    <3>2. p + k \in 1..Len(R) /\ FieldOf(R[p + k], f, try)
      BY <1>1, <3>1 DEF FieldOf
    <3> QED
      BY <3>2 DEF Sent
  <2>4. ASSUME Sent(R, f) PROVE f <= high
    <3>1. CASE Sent(P, f)
      BY <2>1, <3>1
    <3>2. CASE \E i \in 1..Len(R) : FieldOf(R[i], f, try)
      <4>1. PICK i \in 1..Len(R) : FieldOf(R[i], f, try)
        BY <3>2
      <4>2. CASE i \in 1..p /\ R[i] = P[i]
        BY <2>1, <4>1, <4>2, <1>3 DEF FieldOf
      <4>3. CASE \E k \in 1..Len(Q) : i = p + k /\ R[i] = Q[k]
        BY <4>1, <4>3 DEF FieldOf, Continues
      <4> QED
        BY <1>1, <4>2, <4>3
    <3> QED
      BY <2>4, <3>1, <3>2 DEF Sent
  <2> QED
    BY <2>1, <2>2, <2>3, <2>4
<1> QED
  BY <1>4, <1>5, <1>6, <1>7 DEF R

LEMMA InitFieldInv == Init => FieldInv
<1> SUFFICES ASSUME Init PROVE FieldInv
  OBVIOUS
<1>1. /\ Pipe = <<>> /\ shown = <<>> /\ emitted = 0 /\ try = 1 /\ wpc = "none"
      /\ emitted \in 0..FieldCount /\ 1..emitted \subseteq complete
  BY StreamAssumption DEF Init, Pipe, Waiting, StreamAssumption
<1>2. Chained(Pipe, attempt, Len(shown)) /\ Ascending(Pipe) /\ Sorted(Pipe, attempt)
  BY <1>1 DEF Chained, Ascending, Sorted
<1>3. \A f \in Forwarded : ~Sent(Pipe, f) /\ ~(f <= emitted)
  <2>1. \A f \in Forwarded : ~(f <= 0)
    BY ForwardedFields
  <2> QED
    BY <1>1, <2>1 DEF Sent
<1> QED
  BY <1>1, <1>2, <1>3 DEF FieldInv

\* The generator yields something other than the events of a line.
LEMMA YieldKeepsFieldInv ==
    ASSUME PipeInv, FieldInv, NEW events \in Seq(Events), NEW label,
           wpc \notin {"put", "signal"}, label \notin {"put", "signal"},
           Yield(events, label), UNCHANGED <<queue, consumerVars>>,
           \A i \in 1..Len(events) : ~IsText(events[i]),
           emitted' = 0,
           \/ try' = try /\ ((Sending /\ emitted = 0) \/ label \in {"decide", "exit"})
           \/ try = 1 /\ try' = 2 /\ events = <<Reset>>
    PROVE  FieldInv'
<1>1. /\ queue \in Seq(Events) /\ Pipe = queue /\ UNCHANGED <<shown, attempt>>
  BY DEF PipeInv, Shape, FieldInv, Pipe, Waiting, consumerVars, viewVars
<1>2. Pipe' = queue \o events
  <2>1. CASE events = <<>>
    BY <1>1, <2>1 DEF Yield, Pipe, Waiting
  <2>2. CASE events # <<>>
    BY <1>1, <2>2 DEF Yield, Pipe, Waiting
  <2> QED
    BY <2>1, <2>2
<1> DEFINE all == queue \o events
<1>3. /\ Chained(all, attempt, Len(shown)) /\ Ascending(all) /\ Sorted(all, attempt)
      /\ \A f : Sent(all, f) <=> Sent(queue, f)
  BY <1>1, NoTextAppended DEF FieldInv
<1>4. \A i \in 1..Len(all) :
          \/ i \in 1..Len(queue) /\ all[i] = queue[i]
          \/ \E k \in 1..Len(events) : all[i] = events[k]
  <2>1. \A i \in 1..Len(all) :
            \/ i \in 1..Len(queue) /\ all[i] = queue[i]
            \/ \E k \in 1..Len(events) : i = Len(queue) + k /\ all[i] = events[k]
    BY <1>1, ConcatAt, Zenon
  <2> HIDE DEF all
  <2> QED
    BY <2>1, Zenon
<1>5. /\ HasReset(queue) => HasReset(all)
      /\ events = <<Reset>> => HasReset(all)
  <2>1. /\ \A i \in 1..Len(queue) : i \in 1..Len(all) /\ all[i] = queue[i]
        /\ \A i \in 1..Len(events) : Len(queue) + i \in 1..Len(all) /\ all[Len(queue) + i] = events[i]
    BY <1>1, ConcatAt
  <2>2. HasReset(queue) => HasReset(all)
    BY <2>1 DEF HasReset
  <2>3. ASSUME events = <<Reset>> PROVE HasReset(all)
    <3>1. 1 \in 1..Len(events) /\ events[1].type = "reset"
      BY <2>3 DEF Reset
    <3> QED
      BY <2>1, <3>1 DEF HasReset
  <2> QED
    BY <2>2, <2>3
<1> HIDE DEF all
<1>6. Pipe' = all
  BY <1>2 DEF all
<1>7. /\ Chained(Pipe, attempt, Len(shown))' /\ Ascending(Pipe)' /\ Sorted(Pipe, attempt)'
      /\ (HasReset(Pipe))' = HasReset(all)
  BY <1>1, <1>3, <1>6 DEF Chained, Ascending, Sorted, ResetBefore, HasReset
<1>8. /\ (shown \in Seq([field : Forwarded, attempt : Tries]))' /\ emitted' = 0
      /\ (emitted \in 0..FieldCount /\ 1..emitted \subseteq complete)'
      /\ (try = 2 => attempt = 2 \/ HasReset(Pipe))'
  BY <1>1, <1>5, <1>7, StreamAssumption DEF FieldInv, StreamAssumption
<1>9. Sending' => \A f \in Forwarded : Sent(Pipe, f)' <=> f <= emitted'
  <2>1. CASE try' = try /\ ((Sending /\ emitted = 0) \/ label \in {"decide", "exit"})
    <3>1. \A f : Sent(Pipe, f)' <=> Sent(all, f)
      BY <1>1, <1>6, <2>1 DEF Sent, FieldOf
    <3>2. Sending' => Sending /\ emitted = 0
      BY <2>1 DEF Yield, Sending
    <3>3. Sending => \A f \in Forwarded : Sent(queue, f) <=> f <= emitted
      BY <1>1 DEF FieldInv
    <3> QED
      BY <1>3, <1>8, <3>1, <3>2, <3>3
  <2>2. CASE try = 1 /\ try' = 2 /\ events = <<Reset>>
    <3>1. attempt = 1 /\ ~HasReset(queue)
      BY <1>1, <2>2 DEF PipeInv, ResetInv
    <3>2. ASSUME NEW i \in 1..Len(all), IsText(all[i]) PROVE all[i].attempt = 1
      <4>2. i \in 1..Len(queue) /\ all[i] = queue[i]
        <5>1. \/ i \in 1..Len(queue) /\ all[i] = queue[i]
              \/ \E k \in 1..Len(events) : all[i] = events[k]
          BY <1>4, Zenon
        <5> QED
          BY <3>2, <5>1
      <4>3. ~ResetBefore(queue, i)
        BY <3>1 DEF HasReset, ResetBefore
      <4> QED
        BY <1>1, <3>1, <3>2, <4>2, <4>3 DEF FieldInv, Sorted
    <3>3. \A f : ~Sent(Pipe, f)'
      <4>1. \A i \in 1..Len(all) : all[i].type = "field" => all[i].attempt # 2
        BY <3>2 DEF IsText
      <4> QED
        BY <1>1, <1>6, <2>2, <3>1, <4>1 DEF Sent, FieldOf
    <3>4. \A f \in Forwarded : ~(f <= 0)
      BY ForwardedFields
    <3> QED
      BY <1>8, <3>3, <3>4
  <2> QED
    BY <2>1, <2>2
<1> QED
  BY <1>7, <1>8, <1>9 DEF FieldInv

\* A line: its fields are the next of the attempt.
LEMMA LineKeepsFieldInv == PipeInv /\ FieldInv /\ Line => FieldInv'
<1> SUFFICES ASSUME PipeInv, FieldInv, Line PROVE FieldInv'
  OBVIOUS
<1>1. PICK grown \in SUBSET DeltaFields, more \in SUBSET Fields :
          /\ complete' = complete \cup more
          /\ emitted' = LineEvents(grown, complete \cup more).prefix
          /\ Yield(LineEvents(grown, complete \cup more).events, "read")
  BY DEF Line
<1> DEFINE line == LineEvents(grown, complete \cup more)
           events == line.events
           all == queue \o events
<1>2. /\ count \in Nat /\ emitted \in Nat /\ queue \in Seq(Events) /\ Pipe = queue
      /\ try \in Tries /\ attempt \in Tries /\ wpc = "read" /\ Sending
      /\ UNCHANGED <<queue, try, attempt, shown>>
  BY DEF Line, PipeInv, Shape, ResetInv, Pipe, Waiting, Sending, consumerVars, viewVars
<1>3. /\ line.prefix \in Nat /\ events \in Seq(Events)
      /\ \A i \in 1..Len(events) : events[i].type \in {"delta", "field"} /\ events[i].attempt = try
      /\ Continues(events, emitted, line.prefix)
  BY <1>2, LineIsNumbered
<1>4. \A i \in 1..Len(events) : IsText(events[i]) /\ events[i].attempt = try
  BY <1>3 DEF IsText
<1>5. emitted' = line.prefix /\ Yield(events, "read")
  BY <1>1
<1> HIDE DEF line, events
<1>6. Pipe' = queue \o events /\ Sending'
  <2>1. CASE events = <<>>
    BY <1>2, <1>5, <2>1 DEF Yield, Pipe, Waiting, Sending
  <2>2. CASE events # <<>>
    BY <1>2, <1>5, <2>2 DEF Yield, Pipe, Waiting, Sending
  <2> QED
    BY <2>1, <2>2
<1>7. /\ Chained(queue, attempt, Len(shown)) /\ Ascending(queue) /\ Sorted(queue, attempt)
      /\ \A f \in Forwarded : Sent(queue, f) <=> f <= emitted
      /\ try = IF HasReset(queue) THEN 2 ELSE attempt
      /\ Len(shown) \in Nat
  BY <1>2 DEF FieldInv, PipeInv, ResetInv, Tries
<1>8. emitted <= line.prefix /\ line.prefix \in 0..FieldCount /\ 1..line.prefix \subseteq complete'
  <2> DEFINE done == complete \cup more
             prefix == CHOOSE n \in 0..FieldCount :
                           1..n \subseteq done /\ (n = FieldCount \/ n + 1 \notin done)
  <2>1. /\ prefix \in 0..FieldCount /\ 1..prefix \subseteq done
        /\ prefix = FieldCount \/ prefix + 1 \notin done
    BY PrefixExists
  <2>2. line.prefix = prefix
    BY DEF line, LineEvents
  <2> HIDE DEF prefix
  <2>3. emitted \in 0..FieldCount /\ 1..emitted \subseteq done /\ FieldCount \in Nat
    BY StreamAssumption DEF FieldInv, StreamAssumption
  <2>4. emitted <= prefix
    <3> SUFFICES ASSUME ~(emitted <= prefix) PROVE FALSE
      OBVIOUS
    <3>1. prefix + 1 \in 1..emitted /\ prefix # FieldCount
      BY <2>1, <2>3
    <3> QED
      BY <2>1, <2>3, <3>1
  <2> QED
    BY <1>1, <2>1, <2>2, <2>4
<1>9. /\ Chained(all, attempt, Len(shown)) /\ Ascending(all) /\ Sorted(all, attempt)
      /\ \A f \in Forwarded : Sent(all, f) <=> f <= line.prefix
  BY <1>2, <1>3, <1>4, <1>7, <1>8, FieldsAppended
<1>10. HasReset(queue) => HasReset(all)
  <2>1. \A i \in 1..Len(queue) : i \in 1..Len(all) /\ all[i] = queue[i]
    BY <1>2, <1>3, ConcatAt
  <2> QED
    BY <2>1 DEF HasReset
<1>11. Pipe' = all
  BY <1>6
<1> HIDE DEF all
<1>12. /\ Chained(Pipe, attempt, Len(shown))' /\ Ascending(Pipe)' /\ Sorted(Pipe, attempt)'
       /\ (HasReset(Pipe))' = HasReset(all)
       /\ \A f : Sent(Pipe, f)' <=> Sent(all, f)
  BY <1>2, <1>9, <1>11 DEF Chained, Ascending, Sorted, ResetBefore, HasReset, Sent, FieldOf
<1>13. wpc' = "read" \/ (wpc' \in {"put", "signal"} /\ after' = "read")
  BY <1>5 DEF Yield
<1> QED
  BY <1>2, <1>5, <1>7, <1>8, <1>9, <1>10, <1>12, <1>13 DEF FieldInv

LEMMA WorkerKeepsFieldInv == PipeInv /\ FieldInv /\ WorkerStep => FieldInv'
<1> SUFFICES ASSUME PipeInv, FieldInv, WorkerStep PROVE FieldInv'
  OBVIOUS
<1>1. /\ try \in Tries /\ emitted \in Nat /\ queue \in Seq(Events) /\ out \in Seq(Events)
      /\ wpc # "read" /\ wpc \notin {"put", "signal"} => emitted = 0
  BY DEF PipeInv, Shape, ResetInv, FieldInv
<1>2. \A events \in {<<>>, <<Final, Sentinel>>, <<Exception>>, <<Reset>>} :
          events \in Seq(Events) /\ \A i \in 1..Len(events) : ~IsText(events[i])
  <2>1. /\ <<>> \in Seq(Events) /\ <<Final, Sentinel>> \in Seq(Events)
        /\ <<Exception>> \in Seq(Events) /\ <<Reset>> \in Seq(Events)
    BY DEF Events, Final, Sentinel, Exception, Reset
  <2>2. \A events \in {<<>>, <<Final, Sentinel>>, <<Exception>>, <<Reset>>} :
            \A i \in 1..Len(events) : events[i].type \notin {"delta", "field"}
    BY DEF Final, Sentinel, Exception, Reset
  <2> QED
    BY <2>1, <2>2 DEF IsText
<1>3. ASSUME NEW events \in {<<>>, <<Final, Sentinel>>, <<Exception>>, <<Reset>>}, NEW label,
             wpc \notin {"put", "signal"}, label \notin {"put", "signal"},
             Yield(events, label), UNCHANGED <<queue, consumerVars>>, emitted' = 0,
             \/ try' = try /\ ((Sending /\ emitted = 0) \/ label \in {"decide", "exit"})
             \/ try = 1 /\ try' = 2 /\ events = <<Reset>>
      PROVE  FieldInv'
  BY <1>2, <1>3, YieldKeepsFieldInv
<1>4. CASE Begin \/ CheckCancelled \/ Post \/ Register \/ CloseNow
  <2>1. /\ wpc \notin {"put", "signal"} /\ emitted' = 0 /\ Sending /\ emitted = 0
        /\ UNCHANGED <<queue, consumerVars, try>>
    BY <1>1, <1>4 DEF Begin, CheckCancelled, Post, Register, CloseNow, genVars, Sending
  <2>2. \E events \in {<<>>, <<Final, Sentinel>>} :
            \E label \in {"exit", "check", "decide", "post", "register", "closeNow", "read"} :
                Yield(events, label)
    BY <1>4 DEF Begin, CheckCancelled, Post, Register, CloseNow, Continue
  <2> QED
    BY <1>3, <2>1, <2>2
<1>5. CASE ReadEnds
  <2>1. /\ wpc \notin {"put", "signal"} /\ emitted' = 0 /\ Yield(<<>>, "decide")
        /\ UNCHANGED <<queue, consumerVars, try>>
    BY <1>5 DEF ReadEnds, Continue
  <2> QED
    BY <1>3, <2>1
<1>6. CASE Decide
  <2>1. /\ wpc \notin {"put", "signal"} /\ emitted' = 0 /\ UNCHANGED <<queue, consumerVars>>
    BY <1>1, <1>6 DEF Decide
  <2>2. \/ Yield(<<Exception>>, "exit") /\ try' = try
        \/ Yield(<<Final, Sentinel>>, "exit") /\ try' = try
        \/ Yield(<<Reset>>, "check") /\ try = 1 /\ try' = 2
    BY <1>6 DEF Decide
  <2> QED
    BY <1>3, <2>1, <2>2
<1>7. CASE Line
  BY <1>7, LineKeepsFieldInv
<1>8. ASSUME Pipe' = Pipe, UNCHANGED <<try, emitted, complete, attempt, shown>>, Sending' = Sending,
             emitted # 0 => wpc' = "read" \/ (wpc' \in {"put", "signal"} /\ after' = "read")
      PROVE  FieldInv'
  BY <1>8 DEF FieldInv, Chained, Ascending, Sorted, ResetBefore, HasReset, Sent, FieldOf, IsText
<1>9. CASE Put
  <2>1. out # <<>> /\ wpc = "put" /\ wpc' = "signal" /\ queue' = Append(queue, Head(out))
        /\ UNCHANGED <<genVars, out, after, consumerVars>>
    BY <1>9 DEF Put, PipeInv, Shape
  <2>2. queue \o out = queue' \o Tail(out)
    BY <1>1, <2>1
  <2>3. Pipe' = Pipe
    BY <2>1, <2>2 DEF Pipe, Waiting
  <2>4. Sending' = Sending /\ UNCHANGED <<try, emitted, complete, attempt, shown, after>>
    BY <2>1 DEF Sending, genVars, consumerVars, viewVars
  <2> QED
    BY <1>8, <2>1, <2>3, <2>4 DEF FieldInv
<1>10. CASE Signal
  <2>1. out # <<>> /\ wpc = "signal" /\ UNCHANGED <<genVars, queue, consumerVars>>
        /\ Yield(Tail(out), after) /\ after \notin {"put", "signal"}
    BY <1>10 DEF Signal, PipeInv, Shape
  <2>2. Tail(out) \in Seq(Events) /\ UNCHANGED <<try, emitted, complete, attempt, shown>>
    BY <1>1, <2>1 DEF genVars, consumerVars, viewVars
  <2>3. CASE Tail(out) = <<>>
    <3>1. wpc' = after /\ Pipe' = Pipe
      BY <1>1, <2>1, <2>3 DEF Yield, Pipe, Waiting
    <3>2. Sending' = Sending /\ (emitted # 0 => wpc' = "read")
      BY <2>1, <3>1 DEF Sending, FieldInv
    <3> QED
      BY <1>8, <2>2, <3>1, <3>2
  <2>4. CASE Tail(out) # <<>>
    <3>1. wpc' = "put" /\ after' = after /\ Pipe' = Pipe
      BY <1>1, <2>1, <2>4 DEF Yield, Pipe, Waiting
    <3>2. Sending' = Sending /\ (emitted # 0 => after' = "read")
      BY <2>1, <3>1 DEF Sending, FieldInv
    <3> QED
      BY <1>8, <2>2, <3>1, <3>2
  <2> QED
    BY <2>3, <2>4
<1> QED
  BY <1>4, <1>5, <1>6, <1>7, <1>9, <1>10 DEF WorkerStep

\* The first event of the pipe is what the protocol lets the client see next, and the
\* rest continues from there.
LEMMA FieldsTaken ==
    ASSUME NEW P \in Seq(Events), P # <<>>, NEW now \in Tries, NEW n \in Nat,
           Chained(P, now, n), Ascending(P), Sorted(P, now), OneReset(P),
           HasReset(P) => now = 1
    PROVE  LET e == P[1]
               T == Tail(P)
               next == IF e.type = "reset" THEN 2 ELSE now
               m == IF e.type = "reset" THEN 0 ELSE IF e.type = "field" THEN n + 1 ELSE n
           IN  /\ IsText(e) => e.attempt = now
               /\ e.type = "field" => e.field = n + 1 /\ e.field \in Forwarded
               /\ Chained(T, next, m) /\ Ascending(T) /\ Sorted(T, next)
               /\ \A f, a : (\E i \in 1..Len(P) : FieldOf(P[i], f, a)) <=>
                               FieldOf(e, f, a) \/ \E i \in 1..Len(T) : FieldOf(T[i], f, a)
<1> DEFINE e == P[1]
           T == Tail(P)
           next == IF e.type = "reset" THEN 2 ELSE now
           m == IF e.type = "reset" THEN 0 ELSE IF e.type = "field" THEN n + 1 ELSE n
<1>1. /\ Len(P) \in Nat \ {0} /\ Len(T) = Len(P) - 1 /\ 1 \in 1..Len(P)
      /\ T \in Seq(Events) /\ e \in Events
      /\ \A i \in 1..Len(T) : i + 1 \in 1..Len(P) /\ T[i] = P[i + 1] /\ T[i] \in Events
  OBVIOUS
<1>2. \A i \in 1..Len(P) : i = 1 \/ (i - 1 \in 1..Len(T) /\ P[i] = T[i - 1])
  <2> TAKE i \in 1..Len(P)
  <2>1. i # 1 => i - 1 \in 1..Len(T) /\ (i - 1) + 1 = i
    BY <1>1
  <2> QED
    BY <1>1, <2>1
<1>3. IsText(e) => e.attempt = now
  <2>1. ~ResetBefore(P, 1)
    BY <1>1 DEF ResetBefore
  <2> QED
    BY <1>1, <2>1 DEF Sorted
<1>4. e.type = "field" => e.field = n + 1 /\ e.field \in Forwarded
  <2>1. \A j \in 1..Len(P) : ~(j < 1)
    BY <1>1
  <2> QED
    BY <1>1, <1>3, <2>1 DEF Chained, IsText
<1> HIDE DEF e, T
<1>5. \A f, a : (\E i \in 1..Len(P) : FieldOf(P[i], f, a)) <=>
                   FieldOf(e, f, a) \/ \E i \in 1..Len(T) : FieldOf(T[i], f, a)
  BY <1>1, <1>2 DEF e
<1>6. Ascending(T)
  <2>1. \A i, j \in 1..Len(T) : i < j => i + 1 < j + 1
    BY <1>1
  <2> QED
    BY <1>1, <2>1, ZenonT(60) DEF Ascending
<1>7. \A i \in 1..Len(T) : IsText(T[i]) =>
          T[i].attempt = IF e.type = "reset" \/ ResetBefore(T, i) THEN 2 ELSE now
  <2> TAKE i \in 1..Len(T)
  <2>1. ResetBefore(P, i + 1) <=> e.type = "reset" \/ ResetBefore(T, i)
    <3>1. ASSUME ResetBefore(P, i + 1) PROVE e.type = "reset" \/ ResetBefore(T, i)
      <4>1. PICK j \in 1..Len(P) : j < i + 1 /\ P[j].type = "reset"
        BY <3>1 DEF ResetBefore
      <4>2. CASE j = 1
        BY <4>1, <4>2 DEF e
      <4>3. CASE j # 1
        <5>1. j - 1 \in 1..Len(T) /\ j - 1 < i /\ T[j - 1].type = "reset"
          BY <1>1, <1>2, <4>1, <4>3
        <5> QED
          BY <5>1 DEF ResetBefore
      <4> QED
        BY <4>2, <4>3
    <3>2. ASSUME e.type = "reset" PROVE ResetBefore(P, i + 1)
      <4>1. 1 < i + 1 /\ P[1].type = "reset"
        BY <1>1, <3>2 DEF e
      <4> QED
        BY <1>1, <4>1 DEF ResetBefore
    <3>3. ASSUME ResetBefore(T, i) PROVE ResetBefore(P, i + 1)
      <4>1. PICK j \in 1..Len(T) : j < i /\ T[j].type = "reset"
        BY <3>3 DEF ResetBefore
      <4>2. j + 1 \in 1..Len(P) /\ j + 1 < i + 1 /\ P[j + 1].type = "reset"
        BY <1>1, <4>1
      <4> QED
        BY <4>2 DEF ResetBefore
    <3> QED
      BY <3>1, <3>2, <3>3
  <2> QED
    BY <1>1, <2>1 DEF Sorted
<1>8. Sorted(T, next)
  BY <1>7 DEF Sorted
<1>9. Chained(T, next, m)
  <2> SUFFICES ASSUME NEW i \in 1..Len(T), T[i].type = "field"
               PROVE  /\ T[i].field \in Forwarded
                      /\ \/ T[i].field = (IF T[i].attempt = next THEN m + 1 ELSE 1)
                         \/ \E j \in 1..Len(T) :
                               j < i /\ FieldOf(T[j], T[i].field - 1, T[i].attempt)
    BY DEF Chained
  <2> DEFINE k == i + 1
  <2>1. /\ k \in 1..Len(P) /\ P[k] = T[i] /\ i \in Nat
        /\ P[k].field \in Nat /\ IsText(P[k])
    <3>1. i + 1 \in 1..Len(P) /\ P[i + 1] = T[i] /\ i \in Nat /\ T[i] \in Events
      BY <1>1
    <3> QED
      BY <3>1, FieldNumbers
  <2>2. CASE \E j \in 1..Len(P) : j < k /\ j # 1 /\ FieldOf(P[j], P[k].field - 1, P[k].attempt)
    <3>1. PICK j \in 1..Len(P) : j < k /\ j # 1 /\ FieldOf(P[j], P[k].field - 1, P[k].attempt)
      BY <2>2
    <3>2. j - 1 \in 1..Len(T) /\ j - 1 < i /\ FieldOf(T[j - 1], T[i].field - 1, T[i].attempt)
      BY <1>1, <1>2, <2>1, <3>1
    <3>3. T[i].field \in Forwarded
      BY <2>1 DEF Chained
    <3> QED
      BY <3>2, <3>3
  <2>3. CASE FieldOf(e, P[k].field - 1, P[k].attempt)
    <3>1. e.type = "field" /\ e.field = P[k].field - 1 /\ e.attempt = P[k].attempt /\ e.attempt = now
      BY <1>3, <2>3 DEF FieldOf, IsText
    <3>2. P[k].field = n + 2 /\ P[k].attempt = now /\ next = now /\ m = n + 1
      BY <1>4, <2>1, <3>1
    <3>3. T[i].field \in Forwarded
      BY <2>1 DEF Chained
    <3> QED
      BY <2>1, <3>2, <3>3
  <2>4. CASE P[k].field = (IF P[k].attempt = now THEN n + 1 ELSE 1)
    <3>1. T[i].field \in Forwarded
      BY <2>1 DEF Chained
    <3>2. CASE e.type = "reset"
      <4>1. P[k].attempt = 2 /\ now = 1 /\ next = 2 /\ m = 0
        <5>1. HasReset(P)
          BY <1>1, <3>2 DEF HasReset, e
        <5> QED
          BY <1>7, <2>1, <3>2, <5>1
      <4> QED
        BY <2>1, <2>4, <3>1, <4>1
    <3>3. CASE e.type = "field"
      <4>1. P[k].attempt # now
        <5> SUFFICES ASSUME P[k].attempt = now PROVE FALSE
          OBVIOUS
        <5>1. P[1].field < P[k].field /\ P[1].field = n + 1
          <6>1. 1 < k /\ P[1].type = "field" /\ P[k].type = "field" /\ P[1].attempt = P[k].attempt
            BY <1>3, <2>1, <3>3 DEF e, IsText
          <6> QED
            BY <1>1, <1>4, <2>1, <3>3, <6>1 DEF Ascending, e
        <5> QED
          BY <2>4, <5>1
      <4> QED
        BY <2>1, <2>4, <3>1, <3>3, <4>1
    <3>4. CASE e.type \notin {"reset", "field"}
      BY <2>1, <2>4, <3>1, <3>4
    <3> QED
      BY <3>2, <3>3, <3>4
  <2>5. \/ P[k].field = (IF P[k].attempt = now THEN n + 1 ELSE 1)
        \/ \E j \in 1..Len(P) : j < k /\ FieldOf(P[j], P[k].field - 1, P[k].attempt)
    BY <2>1 DEF Chained
  <2> HIDE DEF k, next, m
  <2> QED
    BY <2>2, <2>3, <2>4, <2>5 DEF e
<1> QED
  BY <1>3, <1>4, <1>5, <1>6, <1>8, <1>9 DEF e, T

LEMMA TakeFollowsProtocol ==
    ASSUME PipeInv, FieldInv, TakeEvent
    PROVE  FieldInv' /\ Protocol!Next
<1> DEFINE e == Head(queue)
<1>1. /\ cpc = "drain" /\ queue # <<>> /\ queue' = Tail(queue)
      /\ attempt' = IF e.type = "reset" THEN 2 ELSE attempt
      /\ seq' = IF e.type = "delta" THEN e.seq ELSE seq
      /\ partial' = IF e.type = "reset" THEN {}
                    ELSE IF e.type = "delta" THEN partial \cup {ItemOf(e)} ELSE partial
      /\ shown' = IF e.type = "reset" THEN <<>>
                  ELSE IF e.type = "field" THEN Append(shown, ItemOf(e)) ELSE shown
      /\ end' = IF e = Final THEN "final" ELSE IF e \in {Sentinel, Exception} THEN "broken" ELSE end
      /\ UNCHANGED <<wpc, out, after, try, emitted, complete>>
  BY DEF TakeEvent, workerVars, genVars
<1> HIDE DEF e
<1>2. /\ Pipe \in Seq(Events) /\ Pipe # <<>> /\ e = Head(Pipe) /\ e = Pipe[1]
      /\ Pipe' = Tail(Pipe) /\ e \in Events
  BY <1>1, TakenFromPipe DEF e
<1> DEFINE T == Tail(Pipe)
           m == IF e.type = "reset" THEN 0 ELSE IF e.type = "field" THEN Len(shown) + 1 ELSE Len(shown)
<1>3. /\ attempt \in Tries /\ try \in Tries /\ OneReset(Pipe)
      /\ HasReset(Pipe) => attempt = 1 /\ try = 2
      /\ shown \in Seq([field : Forwarded, attempt : Tries]) /\ Len(shown) \in Nat
      /\ Chained(Pipe, attempt, Len(shown)) /\ Ascending(Pipe) /\ Sorted(Pipe, attempt)
  BY DEF PipeInv, ResetInv, FieldInv
<1>4. /\ IsText(e) => e.attempt = attempt
      /\ e.type = "field" => e.field = Len(shown) + 1 /\ e.field \in Forwarded
      /\ Chained(T, attempt', m) /\ Ascending(T) /\ Sorted(T, attempt')
      /\ \A f, a : (\E i \in 1..Len(Pipe) : FieldOf(Pipe[i], f, a)) <=>
                      FieldOf(e, f, a) \/ \E i \in 1..Len(T) : FieldOf(T[i], f, a)
  BY <1>1, <1>2, <1>3, FieldsTaken, ZenonT(60)
<1>5. IsText(e) => ItemOf(e) \in [field : Forwarded, attempt : Tries]
  BY <1>2, FieldNumbers DEF ItemOf
<1>6. shown' \in Seq([field : Forwarded, attempt : Tries]) /\ Len(shown') = m
  <2>1. CASE e.type = "field"
    <3>1. ItemOf(e) \in [field : Forwarded, attempt : Tries] /\ shown' = Append(shown, ItemOf(e))
      BY <1>1, <1>5, <2>1 DEF IsText
    <3> HIDE DEF e
    <3> QED
      BY <1>3, <2>1, <3>1
  <2>2. CASE e.type # "field"
    BY <1>1, <1>3, <2>2
  <2> QED
    BY <2>1, <2>2
<1>7. Chained(Pipe, attempt, Len(shown))' /\ Ascending(Pipe)' /\ Sorted(Pipe, attempt)'
  BY <1>2, <1>4, <1>6 DEF Chained, Ascending, Sorted, ResetBefore
<1>8. (try = 2 => attempt = 2 \/ HasReset(Pipe))'
  <2> SUFFICES ASSUME try = 2, e.type # "reset", attempt # 2 PROVE HasReset(T)
    BY <1>1, <1>2 DEF HasReset
  <2>1. PICK i \in 1..Len(Pipe) : Pipe[i].type = "reset"
    BY DEF FieldInv, HasReset
  <2>2. i # 1 /\ i - 1 \in 1..Len(T) /\ T[i - 1] = Pipe[i]
    BY <1>2, <2>1
  <2> QED
    BY <2>1, <2>2 DEF HasReset
<1>9. \A f \in Forwarded : Sent(Pipe, f)' <=> Sent(Pipe, f)
  <2> SUFFICES ASSUME NEW f \in Forwarded PROVE Sent(Pipe, f)' <=> Sent(Pipe, f)
    OBVIOUS
  <2>1. Sent(Pipe, f)' <=> (try = attempt' /\ f <= m) \/ \E i \in 1..Len(T) : FieldOf(T[i], f, try)
    BY <1>1, <1>2, <1>6 DEF Sent, FieldOf
  <2>2. Sent(Pipe, f) <=> (try = attempt /\ f <= Len(shown)) \/ FieldOf(e, f, try)
                              \/ \E i \in 1..Len(T) : FieldOf(T[i], f, try)
    BY <1>4 DEF Sent
  <2>3. f \in Nat \ {0}
    BY ForwardedFields
  <2>4. CASE e.type = "reset"
    <3>1. HasReset(Pipe)
      <4>1. 1 \in 1..Len(Pipe) /\ Pipe[1].type = "reset"
        BY <1>2, <2>4
      <4> QED
        BY <4>1 DEF HasReset
    <3>2. try # attempt /\ m = 0 /\ ~FieldOf(e, f, try)
      BY <1>3, <2>4, <3>1 DEF FieldOf
    <3> QED
      BY <2>1, <2>2, <2>3, <3>2
  <2>5. CASE e.type = "field"
    <3>1. attempt' = attempt /\ m = Len(shown) + 1 /\ (FieldOf(e, f, try) <=> f = m /\ try = attempt)
      BY <1>1, <1>4, <2>5 DEF FieldOf, IsText
    <3>2. f <= m <=> f <= Len(shown) \/ f = m
      BY <1>3, <2>3, <3>1
    <3> QED
      BY <2>1, <2>2, <3>1, <3>2
  <2>6. CASE e.type \notin {"reset", "field"}
    <3>1. attempt' = attempt /\ m = Len(shown) /\ ~FieldOf(e, f, try)
      BY <1>1, <2>6 DEF FieldOf
    <3> QED
      BY <2>1, <2>2, <3>1
  <2> QED
    BY <2>4, <2>5, <2>6
<1>10. FieldInv'
  <2>1. Sending' = Sending /\ UNCHANGED <<emitted, complete>>
    BY <1>1 DEF Sending
  <2> QED
    BY <1>1, <1>6, <1>7, <1>8, <1>9, <2>1 DEF FieldInv
<1>11. /\ seq \in Nat /\ end = "open"
       /\ e.type = "delta" =>
             /\ e.seq \in Nat /\ seq < e.seq
             /\ Forwarded = Fields => e.seq = seq + 1
  <2>1. seq \in Nat /\ count \in Nat /\ end = "open" /\ Numbered(Pipe, seq, count)
    BY <1>1 DEF PipeInv, Shape, EndInv
  <2> QED
    BY <1>2, <2>1, NumberedTail, DeltaHasNumber
<1>12. /\ \A f \in Forwarded : f \in DOMAIN InOrder(Forwarded) /\ InOrder(Forwarded)[f] = f
       /\ Len(InOrder(Forwarded)) = Cardinality(Forwarded)
       /\ \A f \in Forwarded : f \in Nat /\ f <= Cardinality(Forwarded)
  <2> DEFINE k == Cardinality(Forwarded)
  <2>1. Forwarded = 1..k /\ k \in Nat
    BY ForwardedFields
  <2> HIDE DEF k
  <2>2. \A f \in Forwarded : f \in Nat /\ f <= k
    BY <2>1
  <2> QED
    BY <2>2, ForwardedFields, Zenon DEF k
<1>13. Protocol!Next
  <2>0. IsText(e) => ItemOf(e) = Protocol!Item(e.field)
    BY <1>4 DEF ItemOf, Protocol!Item
  <2>1. CASE e.type = "delta"
    <3>1. e # Final /\ e \notin {Sentinel, Exception}
      BY <2>1 DEF Final, Sentinel, Exception
    <3>2. e.field \in Forwarded
      BY <1>2, <2>1, FieldNumbers DEF IsText
    <3>3. \E i \in DOMAIN InOrder(Forwarded) :
              partial' = partial \cup {Protocol!Item(InOrder(Forwarded)[i])}
      BY <1>1, <1>12, <2>0, <2>1, <3>2 DEF IsText
    <3>4. Protocol!Delta
      BY <1>1, <1>11, <2>1, <3>1, <3>3 DEF Protocol!Delta
    <3> QED
      BY <3>4 DEF Protocol!Next
  <2>2. CASE e.type = "field"
    <3>1. e # Final /\ e \notin {Sentinel, Exception}
      BY <2>2 DEF Final, Sentinel, Exception
    <3>2. /\ Len(shown) < Len(InOrder(Forwarded))
          /\ InOrder(Forwarded)[Len(shown) + 1] = e.field
      BY <1>3, <1>4, <1>12, <2>2
    <3>3. Protocol!Field
      BY <1>1, <1>11, <2>0, <2>2, <3>1, <3>2 DEF Protocol!Field, IsText
    <3> QED
      BY <3>3 DEF Protocol!Next
  <2>3. CASE e.type = "reset"
    <3>1. e # Final /\ e \notin {Sentinel, Exception}
      BY <2>3 DEF Final, Sentinel, Exception
    <3>2. attempt = 1
      <4>1. 1 \in 1..Len(Pipe) /\ Pipe[1].type = "reset"
        BY <1>2, <2>3
      <4> QED
        BY <1>3, <4>1 DEF HasReset
    <3>3. Protocol!Reset
      BY <1>1, <1>11, <2>3, <3>1, <3>2 DEF Protocol!Reset
    <3> QED
      BY <3>3 DEF Protocol!Next
  <2>4. CASE e = Final
    <3>1. Protocol!Final
      BY <1>1, <1>11, <2>4 DEF Final, Protocol!Final, Protocol!EndsAs
    <3> QED
      BY <3>1 DEF Protocol!Next
  <2>5. CASE e \in {Sentinel, Exception}
    <3>1. e # Final /\ e.type \notin {"delta", "field", "reset"}
      BY <2>5 DEF Final, Sentinel, Exception
    <3>2. Protocol!Break
      BY <1>1, <1>11, <2>5, <3>1 DEF Protocol!Break, Protocol!EndsAs
    <3> QED
      BY <3>2 DEF Protocol!Next
  <2> QED
    BY <1>2, <2>1, <2>2, <2>3, <2>4, <2>5 DEF Events, Final, Sentinel, Exception
<1> QED
  BY <1>10, <1>13

LEMMA StepKeepsFieldInv ==
    PipeInv /\ FieldInv /\ [Next]_vars => FieldInv' /\ [Protocol!Next]_viewVars
<1> SUFFICES ASSUME PipeInv, FieldInv, [Next]_vars PROVE FieldInv' /\ [Protocol!Next]_viewVars
  OBVIOUS
<1>1. ASSUME Pipe' = Pipe, UNCHANGED <<try, emitted, complete, attempt, shown>>, Sending' = Sending,
             emitted # 0 => wpc' = "read" \/ (wpc' \in {"put", "signal"} /\ after' = "read")
      PROVE  FieldInv'
  BY <1>1 DEF FieldInv, Chained, Ascending, Sorted, ResetBefore, HasReset, Sent, FieldOf, IsText
<1>2. ASSUME UNCHANGED <<wpc, out, after, queue, try, emitted, complete, attempt, shown>> PROVE FieldInv'
  <2>1. Pipe' = Pipe /\ Sending' = Sending
    BY <1>2 DEF Pipe, Waiting, Sending
  <2>2. emitted # 0 => wpc' = "read" \/ (wpc' \in {"put", "signal"} /\ after' = "read")
    BY <1>2 DEF FieldInv
  <2> QED
    BY <1>1, <1>2, <2>1, <2>2
<1>3. CASE WorkerStep
  <2>1. UNCHANGED viewVars
    BY <1>3 DEF WorkerStep, Begin, CheckCancelled, Post, Register, CloseNow, Line, ReadEnds, Decide,
                Put, Signal, consumerVars
  <2> QED
    BY <1>3, <2>1, WorkerKeepsFieldInv
<1>4. CASE BridgeStarts
  <2>1. /\ UNCHANGED <<out, try, emitted, complete, queue, viewVars>> /\ wpc' = "begin" /\ wpc = "none"
    BY <1>4 DEF BridgeStarts, PipeInv, EndInv, genVars, bridgeVars
  <2>2. Pipe' = Pipe /\ Sending' = Sending /\ emitted = 0
    BY <2>1 DEF Pipe, Waiting, Sending, FieldInv
  <2> QED
    BY <1>1, <2>1, <2>2 DEF viewVars
<1>5. CASE TakeEvent
  BY <1>5, TakeFollowsProtocol
<1>6. CASE ClearWake \/ Recheck \/ WakeUp \/ Resume \/ CloseDropped \/ Cancel \/ CallBack \/ RunSignal
  <2>1. UNCHANGED <<wpc, out, after, try, emitted, complete, queue, viewVars>>
    BY <1>6 DEF ClearWake, Recheck, WakeUp, Resume, CloseDropped, Cancel, CallBack, RunSignal,
                workerVars, genVars, bridgeVars
  <2> QED
    BY <1>2, <2>1 DEF viewVars
<1>7. CASE Finish \/ ClientLeaves
  <2>1. /\ UNCHANGED <<wpc, out, after, try, emitted, complete, queue, seq, attempt, partial, shown>>
        /\ \/ cpc = "yieldedFinal" /\ end' = "done"
           \/ cpc \in {"start", "await", "yielded", "yieldedFinal"} /\ end' = "left"
    BY <1>7 DEF Finish, ClientLeaves, EndsAs, workerVars, genVars, bridgeVars
  <2>2. Protocol!Done \/ Protocol!Leave
    BY <2>1 DEF PipeInv, EndInv, Protocol!Done, Protocol!Leave, Protocol!EndsAs
  <2> QED
    BY <1>2, <2>1, <2>2 DEF Protocol!Next
<1>8. CASE UNCHANGED vars
  <2>1. UNCHANGED <<wpc, out, after, try, emitted, complete, queue, viewVars>>
    BY <1>8 DEF vars, genVars, consumerVars
  <2> QED
    BY <1>2, <2>1 DEF viewVars
<1> QED
  BY <1>3, <1>4, <1>5, <1>6, <1>7, <1>8 DEF Next, LoopStep

\* Whatever Ollama sends and however thread, queue and event loop interleave, the
\* client sees what StreamProtocol allows: the numbers grow over both attempts, without
\* a gap if all is forwarded; the fields come in the order of _STREAM_FIELD_ORDER, none
\* left out and none of an attempt the client does not look at; one reset separates the
\* attempts, and nothing but `done` comes after `final`
\* (generate_analysis_with_ollama_stream, ndjson_stream).
THEOREM ClientSeesTheProtocol == Spec => ClientSeesProtocol
<1>1. Init => Protocol!Init
  BY DEF Init, Protocol!Init
<1>2. [Protocol!Next]_viewVars => [Protocol!Next]_(Protocol!vars)
  BY DEF viewVars, Protocol!vars
<1> QED
  BY <1>1, <1>2, InitPipeInv, StepKeepsPipeInv, InitFieldInv, StepKeepsFieldInv,
     PTL DEF Spec, ClientSeesProtocol, Protocol!Spec

-----------------------------------------------------------------------------
(* A client that stays gets its `final`.                                   *)

\* The bridge takes no more events.
Gone == cpc \in {"yieldedFinal", "dropped", "cancel", "callBack", "closed"}

Ends(e) == e \in {Sentinel, Exception}
FinalFirst(events) ==
    \A i \in 1..Len(events) : Ends(events[i]) => \E j \in 1..Len(events) : j < i /\ events[j] = Final

\* What ends the stream comes after a `final`, unless the bridge has cancelled it.
FinalInv ==
    /\ outcome = "cancelled" => cancelled
    /\ Gone \/ FinalFirst(Pipe)
    /\ end # "broken"

LEMMA EventsApart == Final \notin {Sentinel, Exception, Reset} /\ ~Ends(Final) /\ ~Ends(Reset)
BY DEF Final, Sentinel, Exception, Reset, Ends

LEMMA InitFinalInv == Init => FinalInv
<1> SUFFICES ASSUME Init PROVE FinalInv
  OBVIOUS
<1>1. Pipe = <<>>
  BY DEF Init, Pipe, Waiting
<1> QED
  BY <1>1 DEF Init, FinalInv, FinalFirst

\* Events that bring their own `final`, or none that end the stream, do no harm.
LEMMA YieldKeepsFinalInv ==
    ASSUME PipeInv, FinalInv, NEW events \in Seq(Events), NEW label,
           wpc \notin {"put", "signal"}, label \notin {"put", "signal"},
           Yield(events, label), FinalFirst(events) \/ Gone,
           UNCHANGED <<queue, consumerVars, cancelled>>,
           outcome' = "cancelled" => cancelled
    PROVE  FinalInv'
<1>1. /\ queue \in Seq(Events) /\ Pipe = queue /\ UNCHANGED <<cpc, end, cancelled>>
  BY DEF PipeInv, Shape, Pipe, Waiting, consumerVars, viewVars
<1>2. Pipe' = queue \o events
  <2>1. CASE events = <<>>
    BY <1>1, <2>1 DEF Yield, Pipe, Waiting
  <2>2. CASE events # <<>>
    BY <1>1, <2>2 DEF Yield, Pipe, Waiting
  <2> QED
    BY <2>1, <2>2
<1>3. ASSUME FinalFirst(queue), FinalFirst(events) PROVE FinalFirst(queue \o events)
  <2> DEFINE all == queue \o events
  <2>1. /\ Len(queue) \in Nat /\ Len(events) \in Nat /\ Len(all) = Len(queue) + Len(events)
        /\ \A i \in 1..Len(queue) : all[i] = queue[i]
        /\ \A i \in 1..Len(events) : all[Len(queue) + i] = events[i]
    BY <1>1
  <2> HIDE DEF all
  <2>2. ASSUME NEW i \in 1..Len(all), Ends(all[i])
        PROVE  \E j \in 1..Len(all) : j < i /\ all[j] = Final
    <3>1. CASE i <= Len(queue)
      <4>1. PICK j \in 1..Len(queue) : j < i /\ queue[j] = Final
        BY <1>3, <2>1, <2>2, <3>1 DEF FinalFirst
      <4> QED
        BY <2>1, <4>1
    <3>2. CASE i > Len(queue)
      <4> DEFINE k == i - Len(queue)
      <4>1. k \in 1..Len(events) /\ i = Len(queue) + k
        BY <2>1, <3>2
      <4> HIDE DEF k
      <4>2. all[i] = events[k]
        BY <2>1, <4>1
      <4>3. PICK j \in 1..Len(events) : j < k /\ events[j] = Final
        BY <1>3, <2>2, <4>1, <4>2 DEF FinalFirst
      <4>4. Len(queue) + j \in 1..Len(all) /\ Len(queue) + j < i /\ all[Len(queue) + j] = Final
        BY <2>1, <4>1, <4>3
      <4> QED
        BY <4>4
    <3> QED
      BY <2>1, <3>1, <3>2
  <2> QED
    BY <2>2 DEF FinalFirst, all
<1>4. Gone' <=> Gone
  BY <1>1 DEF Gone
<1>5. CASE Gone
  BY <1>1, <1>4, <1>5 DEF FinalInv
<1>6. CASE ~Gone
  <2>1. FinalFirst(queue \o events)
    BY <1>1, <1>3, <1>6 DEF FinalInv
  <2>2. FinalFirst(Pipe)'
    BY <1>2, <2>1 DEF FinalFirst
  <2> QED
    BY <1>1, <2>2 DEF FinalInv
<1> QED
  BY <1>5, <1>6

LEMMA WorkerKeepsFinalInv == PipeInv /\ CancelInv /\ FinalInv /\ WorkerStep => FinalInv'
<1> SUFFICES ASSUME PipeInv, CancelInv, FinalInv, WorkerStep PROVE FinalInv'
  OBVIOUS
<1>1. /\ count \in Nat /\ emitted \in Nat /\ try \in Tries
      /\ queue \in Seq(Events) /\ out \in Seq(Events)
  BY DEF PipeInv, Shape, ResetInv
<1>2. /\ <<>> \in Seq(Events) /\ <<Final, Sentinel>> \in Seq(Events)
      /\ <<Exception>> \in Seq(Events) /\ <<Reset>> \in Seq(Events)
  BY DEF Events, Final, Sentinel, Exception, Reset
<1>3. FinalFirst(<<>>) /\ FinalFirst(<<Final, Sentinel>>) /\ FinalFirst(<<Reset>>)
  <2>1. FinalFirst(<<>>)
    BY DEF FinalFirst
  <2>2. FinalFirst(<<Final, Sentinel>>)
    <3> DEFINE t == <<Final, Sentinel>>
    <3>1. Len(t) = 2 /\ t[1] = Final /\ t[2] = Sentinel
      OBVIOUS
    <3> HIDE DEF t
    <3>2. ASSUME NEW i \in 1..Len(t), Ends(t[i]) PROVE \E j \in 1..Len(t) : j < i /\ t[j] = Final
      <4>1. i = 2
        BY <3>1, <3>2, EventsApart
      <4> QED
        BY <3>1, <4>1
    <3> QED
      BY <3>2 DEF FinalFirst, t
  <2>3. FinalFirst(<<Reset>>)
    BY EventsApart DEF FinalFirst
  <2> QED
    BY <2>1, <2>2, <2>3
<1>4. ASSUME NEW events \in {<<>>, <<Final, Sentinel>>, <<Reset>>}, NEW label,
             wpc \notin {"put", "signal"}, label \notin {"put", "signal"},
             Yield(events, label), UNCHANGED <<queue, consumerVars, cancelled>>,
             outcome' = "cancelled" => cancelled
      PROVE  FinalInv'
  BY <1>2, <1>3, <1>4, YieldKeepsFinalInv
<1>5. CASE Begin \/ CheckCancelled \/ Post \/ Register \/ CloseNow
  <2>1. /\ wpc \notin {"put", "signal"} /\ (outcome' = "cancelled" => cancelled)
        /\ UNCHANGED <<queue, consumerVars, cancelled>>
    BY <1>5 DEF Begin, CheckCancelled, Post, Register, CloseNow, genVars, cancelVars, FinalInv
  <2>2. \E events \in {<<>>, <<Final, Sentinel>>} :
            \E label \in {"exit", "check", "decide", "post", "register", "closeNow", "read"} :
                Yield(events, label)
    BY <1>5 DEF Begin, CheckCancelled, Post, Register, CloseNow, Continue
  <2> QED
    BY <1>4, <2>1, <2>2
<1>6. CASE ReadEnds
  <2>1. /\ wpc = "read" /\ (outcome' = "cancelled" => cancelled) /\ Yield(<<>>, "decide")
        /\ UNCHANGED <<queue, consumerVars, cancelled>>
    BY <1>6 DEF ReadEnds, Continue
  <2> QED
    BY <1>4, <2>1
<1>7. CASE Decide
  <2>1. wpc = "decide" /\ outcome' = "none" /\ UNCHANGED <<queue, consumerVars, cancelled>>
    BY <1>7 DEF Decide, cancelVars
  <2>2. CASE Yield(<<Exception>>, "exit") /\ cancelled
    <3>1. Gone
      BY <2>2 DEF CancelInv, Gone
    <3> QED
      BY <1>2, <2>1, <2>2, <3>1, YieldKeepsFinalInv
  <2>3. CASE Yield(<<Final, Sentinel>>, "exit") \/ Yield(<<Reset>>, "check")
    BY <1>4, <2>1, <2>3
  <2> QED
    BY <1>7, <2>2, <2>3 DEF Decide, FinalInv
<1>8. CASE Line
  <2>1. PICK grown \in SUBSET DeltaFields, more \in SUBSET Fields :
            Yield(LineEvents(grown, complete \cup more).events, "read")
    BY <1>8 DEF Line
  <2> DEFINE events == LineEvents(grown, complete \cup more).events
  <2>2. events \in Seq(Events) /\ \A i \in 1..Len(events) : events[i].type \in {"delta", "field"}
    BY <1>1, LineIsNumbered
  <2>3. /\ wpc = "read" /\ UNCHANGED <<queue, consumerVars, cancelled, outcome>>
    BY <1>8 DEF Line, cancelVars
  <2> HIDE DEF events
  <2>4. \A i \in 1..Len(events) : ~Ends(events[i])
    BY <2>2 DEF Ends, Sentinel, Exception
  <2>5. FinalFirst(events) /\ Yield(events, "read") /\ (outcome' = "cancelled" => cancelled)
    BY <2>1, <2>3, <2>4 DEF FinalFirst, FinalInv, events
  <2> QED
    BY <2>2, <2>3, <2>5, YieldKeepsFinalInv
<1>9. CASE Put
  <2>1. out # <<>> /\ wpc = "put" /\ wpc' = "signal" /\ queue' = Append(queue, Head(out))
        /\ UNCHANGED <<out, outcome, cancelled, cpc, end>>
    BY <1>9 DEF Put, PipeInv, Shape, genVars, cancelVars, consumerVars, viewVars
  <2>2. queue \o out = queue' \o Tail(out)
    BY <1>1, <2>1
  <2>3. Pipe' = Pipe
    BY <2>1, <2>2 DEF Pipe, Waiting
  <2> QED
    BY <2>1, <2>3 DEF FinalInv, FinalFirst, Gone
<1>10. CASE Signal
  <2>1. out # <<>> /\ wpc = "signal" /\ UNCHANGED <<queue, outcome, cancelled, cpc, end>>
        /\ Yield(Tail(out), after) /\ after \notin {"put", "signal"}
    BY <1>10 DEF Signal, PipeInv, Shape, genVars, cancelVars, consumerVars, viewVars
  <2>2. Pipe' = Pipe
    <3>1. CASE Tail(out) = <<>>
      BY <1>1, <2>1, <3>1 DEF Yield, Pipe, Waiting
    <3>2. CASE Tail(out) # <<>>
      BY <1>1, <2>1, <3>2 DEF Yield, Pipe, Waiting
    <3> QED
      BY <3>1, <3>2
  <2> QED
    BY <2>1, <2>2 DEF FinalInv, FinalFirst, Gone
<1> QED
  BY <1>5, <1>6, <1>7, <1>8, <1>9, <1>10 DEF WorkerStep

LEMMA LoopKeepsFinalInv ==
    PipeInv /\ FinalInv /\ (LoopStep \/ RunSignal \/ ClientLeaves) => FinalInv'
<1> SUFFICES ASSUME PipeInv, FinalInv, LoopStep \/ RunSignal \/ ClientLeaves PROVE FinalInv'
  OBVIOUS
<1>1. CASE BridgeStarts
  <2>1. /\ UNCHANGED <<out, queue, outcome, cancelled, end>> /\ wpc' = "begin" /\ wpc = "none"
        /\ cpc = "start" /\ cpc' = "drain"
    BY <1>1 DEF BridgeStarts, PipeInv, EndInv, genVars, cancelVars, bridgeVars, viewVars
  <2>2. Pipe' = Pipe
    BY <2>1 DEF Pipe, Waiting
  <2> QED
    BY <2>1, <2>2 DEF FinalInv, FinalFirst, Gone
<1>2. CASE TakeEvent
  <2> DEFINE e == Head(queue)
  <2>1. /\ cpc = "drain" /\ queue # <<>> /\ queue' = Tail(queue)
        /\ end' = IF e = Final THEN "final" ELSE IF Ends(e) THEN "broken" ELSE end
        /\ cpc' = IF e = Final THEN "yieldedFinal" ELSE IF Ends(e) THEN "cancel" ELSE "yielded"
        /\ UNCHANGED <<wpc, out, outcome, cancelled>>
    BY <1>2 DEF TakeEvent, workerVars, genVars, cancelVars, Ends
  <2> HIDE DEF e
  <2>2. /\ Pipe \in Seq(Events) /\ Pipe # <<>> /\ e = Pipe[1] /\ Pipe' = Tail(Pipe)
    BY <2>1, TakenFromPipe DEF e
  <2>3. FinalFirst(Pipe)
    BY <2>1 DEF FinalInv, Gone
  <2>4. ~Ends(e)
    <3>1. 1 \in 1..Len(Pipe) /\ \A j \in 1..Len(Pipe) : ~(j < 1)
      BY <2>2
    <3> QED
      BY <2>2, <2>3, <3>1 DEF FinalFirst
  <2>5. CASE e = Final
    BY <2>1, <2>5 DEF FinalInv, Gone
  <2>6. CASE e # Final
    <3>1. ASSUME NEW i \in 1..Len(Tail(Pipe)), Ends(Tail(Pipe)[i])
          PROVE  \E j \in 1..Len(Tail(Pipe)) : j < i /\ Tail(Pipe)[j] = Final
      <4>1. i + 1 \in 1..Len(Pipe) /\ Ends(Pipe[i + 1])
        BY <2>2, <3>1
      <4>2. PICK j \in 1..Len(Pipe) : j < i + 1 /\ Pipe[j] = Final
        BY <2>3, <4>1 DEF FinalFirst
      <4>3. j # 1
        BY <2>2, <2>6, <4>2
      <4>4. j - 1 \in 1..Len(Tail(Pipe)) /\ j - 1 < i /\ Tail(Pipe)[j - 1] = Pipe[j]
        BY <2>2, <3>1, <4>2, <4>3
      <4> QED
        BY <4>2, <4>4
    <3>2. FinalFirst(Pipe)'
      BY <2>2, <3>1 DEF FinalFirst
    <3> QED
      BY <2>1, <2>4, <2>6, <3>2 DEF FinalInv
  <2> QED
    BY <2>5, <2>6
<1>3. CASE ClearWake \/ Recheck \/ WakeUp \/ Resume \/ CloseDropped \/ Cancel \/ CallBack
           \/ RunSignal \/ Finish \/ ClientLeaves
  <2>1. /\ UNCHANGED <<wpc, out, queue, outcome>>
        /\ cancelled' = cancelled \/ cancelled'
        /\ end' \in {end, "done", "left"}
        /\ \/ cpc' = cpc
           \/ cpc \in {"drain", "recheck", "await", "yielded"}
           \/ cpc' \in {"dropped", "cancel", "callBack", "closed"}
    BY <1>3 DEF ClearWake, Recheck, WakeUp, Resume, CloseDropped, Cancel, CallBack, RunSignal, Finish,
                ClientLeaves, EndsAs, workerVars, genVars, cancelVars, bridgeVars, viewVars
  <2>2. Pipe' = Pipe /\ (Gone => Gone') /\ end' # "broken"
    BY <2>1 DEF Pipe, Waiting, Gone, FinalInv
  <2> QED
    BY <2>1, <2>2 DEF FinalInv, FinalFirst
<1> QED
  BY <1>1, <1>2, <1>3 DEF LoopStep

\* The generator chain never ends, and never raises, before it has yielded a `final`,
\* unless it was cancelled and nobody listens: the stream does not break off
\* (analyze_text_streaming, `_run`).
THEOREM StreamNeverBreaks == Spec => []AlwaysFinal
<1>1. PipeInv /\ CancelInv /\ FinalInv /\ [Next]_vars => FinalInv'
  <2>1. ASSUME FinalInv, UNCHANGED vars PROVE FinalInv'
    <3>1. UNCHANGED <<wpc, out, queue, cpc, end, outcome, cancelled>>
      BY <2>1 DEF vars, genVars, cancelVars, consumerVars, viewVars
    <3>2. Pipe' = Pipe
      BY <3>1 DEF Pipe, Waiting
    <3> QED
      BY <2>1, <3>1, <3>2 DEF FinalInv, FinalFirst, Gone
  <2> QED
    BY <2>1, WorkerKeepsFinalInv, LoopKeepsFinalInv DEF Next
<1>2. FinalInv => AlwaysFinal
  BY DEF FinalInv, AlwaysFinal
<1> QED
  BY <1>1, <1>2, InitCancelInv, StepKeepsCancelInv, InitPipeInv, StepKeepsPipeInv, InitFinalInv,
     PTL DEF Spec

=============================================================================
