--------------------------- MODULE CardSyncProofs ---------------------------
(***************************************************************************)
(* Proofs about CardSync, for any number of calls, devices' requests,      *)
(* cards and cleanups.                                                     *)
(***************************************************************************)
EXTENDS CardSync, TLAPS

Labels == {"idle", "lookUp", "insert", "lookUpAgain", "find", "insertCard",
           "lock", "commit", "done"}

\* The state without the two histories and the saved responses, which no
\* transition of a card depends on.
Typed ==
    /\ card \in [Cards -> Row]
    /\ pc \in [Calls -> Labels]
    /\ req \in [Calls -> {NoAction} \cup Requests]
    /\ work \in [Calls -> Row]

\* A call under way has a request, and is where its kind of request goes.
Placed ==
    \A c \in Calls :
        /\ pc[c] # "idle" => req[c] \in Requests
        /\ pc[c] \in {"find", "insertCard"} => req[c].op = "CREATE"
        /\ pc[c] = "lock" => req[c].op # "CREATE"
        /\ pc[c] # "idle" /\ req[c].op # "CREATE" => Current(c).version > 0

\* Two calls never hold the same card.
OneHolder ==
    \A c, d \in Calls : c # d /\ HoldsCard(c) /\ HoldsCard(d) => req[c].card # req[d].card

\* What the holder of a card is about to write follows what is committed.
Follows(c, before, next) ==
    \/ next = before
    \/ /\ before.version = 0
       /\ req[c].op = "CREATE"
       /\ next.version = 1
       /\ ~next.deleted
    \/ /\ before.version > 0
       /\ ~before.deleted
       /\ req[c].op # "CREATE"
       /\ req[c].base \in {0, before.version}
       /\ next.version = before.version + 1
       /\ \/ next.deleted = before.deleted
          \/ next.deleted /\ next.content = before.content

WorkFollows == \A c \in Calls : HoldsCard(c) => Follows(c, Current(c), work[c])

IInv == Typed /\ Placed /\ OneHolder /\ WorkFollows

LEMMA RequestFields ==
    ASSUME NEW r \in Requests
    PROVE  /\ r.card \in Cards
           /\ r.base \in Nat
           /\ r.content \in Contents
           /\ r.op \in {"CREATE", "UPDATE", "DELETE"}
           /\ r.action \in Actions \cup {NoAction}
           /\ r.action # NoAction /\ r.op # "CREATE" => r.base > 0
BY CardSyncAssumption DEF CardSyncAssumption

LEMMA NoRowIsRow == NoRow \in Row
BY CardSyncAssumption DEF CardSyncAssumption, NoRow, Row, NoContent

LEMMA InitIInv == Init => IInv
BY NoRowIsRow DEF Init, IInv, Typed, Placed, OneHolder, WorkFollows, HoldsCard, Labels

\* A step that moves one call and changes neither cards nor requests nor work, and
\* takes no lock.
LEMMA MoveKeepsIInv ==
    ASSUME IInv, NEW c \in Calls, NEW label \in Labels,
           pc' = [pc EXCEPT ![c] = label],
           label # "idle", label # "commit", pc[c] # "idle",
           label \in {"find", "insertCard"} => req[c].op = "CREATE",
           label = "lock" => req[c].op # "CREATE",
           UNCHANGED <<card, req, work>>
    PROVE  IInv'
<1>1. Typed'
  BY DEF IInv, Typed
<1>2. Placed'
  BY DEF IInv, Typed, Placed, Current
<1>3. \A d \in Calls : HoldsCard(d)' => HoldsCard(d)
  BY DEF IInv, Typed, HoldsCard, Exists, Current
<1>4. OneHolder'
  BY <1>3 DEF IInv, OneHolder
<1>5. WorkFollows'
  BY <1>3 DEF IInv, WorkFollows, Follows, Current
<1> QED
  BY <1>1, <1>2, <1>4, <1>5 DEF IInv

\* A step that takes one call to its commit, with a row that follows the committed
\* one if the call holds the card.
LEMMA ReadyKeepsIInv ==
    ASSUME IInv, NEW c \in Calls, NEW row \in Row, pc[c] # "idle",
           pc' = [pc EXCEPT ![c] = "commit"],
           work' = [work EXCEPT ![c] = row],
           UNCHANGED <<card, req>>,
           (req[c].op = "CREATE" => ~Exists(c)) => CardIsFree(c) /\ Follows(c, Current(c), row)
    PROVE  IInv'
<1>1. Typed'
  BY DEF IInv, Typed, Labels
<1>2. Placed'
  BY DEF IInv, Typed, Placed, Current
<1>3. \A d \in Calls : d # c /\ HoldsCard(d)' => HoldsCard(d) /\ work'[d] = work[d]
  BY DEF IInv, Typed, HoldsCard, Exists, Current
<1>4. HoldsCard(c)' => CardIsFree(c) /\ Follows(c, Current(c), row)
  BY DEF IInv, Typed, HoldsCard, Exists, Current
<1>5. OneHolder'
  BY <1>3, <1>4 DEF IInv, OneHolder, CardIsFree
<1>6. WorkFollows'
  BY <1>3, <1>4 DEF IInv, Typed, WorkFollows, Follows, Current
<1> QED
  BY <1>1, <1>2, <1>5, <1>6 DEF IInv

LEMMA LockedRow ==
    ASSUME IInv, NEW c \in Calls, pc[c] = "lock", ~Current(c).deleted,
           req[c].base \in {0, Current(c).version},
           NEW row, row = IF req[c].op = "UPDATE"
                          THEN Edited(Current(c), req[c].content)
                          ELSE Deleted(Current(c))
    PROVE  row \in Row /\ Follows(c, Current(c), row)
<1>1. req[c] \in Requests /\ req[c].op # "CREATE" /\ Current(c).version > 0
  BY DEF IInv, Placed
<1>2. req[c].card \in Cards /\ req[c].content \in Contents
  BY <1>1, RequestFields
<1>3. Current(c) \in Row
  BY <1>2 DEF IInv, Typed, Current
<1> QED
  BY <1>1, <1>2, <1>3 DEF Row, Edited, Deleted, Follows

LEMMA CommitKeepsIInv ==
    ASSUME IInv, NEW c \in Calls, Commit(c)
    PROVE  IInv'
<1>1. /\ pc[c] = "commit"
      /\ pc' = [pc EXCEPT ![c] = "done"]
      /\ card' = IF HoldsCard(c) THEN [card EXCEPT ![req[c].card] = work[c]] ELSE card
      /\ UNCHANGED <<req, work>>
  BY DEF Commit, Answer, GoTo
<1>2. req[c] \in Requests /\ req[c].card \in Cards
  BY <1>1, RequestFields DEF IInv, Placed
<1>3. HoldsCard(c) => Follows(c, Current(c), work[c])
  BY DEF IInv, WorkFollows
<1>4. Current(c) \in Row /\ work[c] \in Row
  BY <1>2 DEF IInv, Typed, Current
<1>5. \A l \in Cards : card'[l] \in Row /\ card'[l].version >= card[l].version
  BY <1>1, <1>2, <1>3, <1>4 DEF IInv, Typed, Follows, Current, Row
<1>6. Typed'
  BY <1>1, <1>2, <1>5 DEF IInv, Typed, Labels
<1>7. ASSUME NEW d \in Calls, pc[d] # "idle"
      PROVE  req[d] \in Requests /\ req[d].card \in Cards
  BY <1>7, RequestFields DEF IInv, Placed
<1>8. Placed'
  <2> SUFFICES ASSUME NEW d \in Calls, pc'[d] # "idle"
               PROVE  /\ req[d] \in Requests
                      /\ pc'[d] \in {"find", "insertCard"} => req[d].op = "CREATE"
                      /\ pc'[d] = "lock" => req[d].op # "CREATE"
                      /\ req[d].op # "CREATE" => card'[req[d].card].version > 0
    BY <1>1 DEF Placed, Current, IInv, Typed
  <2>1. pc[d] # "idle" /\ (d # c => pc'[d] = pc[d])
    BY <1>1 DEF IInv, Typed
  <2>2. card[req[d].card] \in Row /\ card'[req[d].card] \in Row
        /\ card'[req[d].card].version >= card[req[d].card].version
    BY <2>1, <1>5, <1>7 DEF IInv, Typed
  <2> QED
    BY <2>1, <2>2, <1>1 DEF IInv, Placed, Current, Typed, Row
<1>9. ASSUME NEW d \in Calls, HoldsCard(d)'
      PROVE  d # c /\ HoldsCard(d) /\ (HoldsCard(c) => req[d].card # req[c].card)
  <2>1. pc'[d] = "commit" /\ d # c /\ pc[d] = "commit"
    BY <1>1, <1>9 DEF HoldsCard, IInv, Typed
  <2>2. req[d].card \in Cards
    BY <2>1, <1>7
  <2>3. card'[req[d].card].version = 0 => card[req[d].card].version = 0
    BY <2>2, <1>5 DEF IInv, Typed, Row
  <2>4. HoldsCard(d)
    BY <2>1, <2>2, <2>3, <1>1, <1>9, <1>5 DEF HoldsCard, Exists, Current, IInv, Typed, Row
  <2> QED
    BY <2>1, <2>4 DEF IInv, OneHolder
<1>10. OneHolder'
  BY <1>1, <1>9 DEF IInv, OneHolder
<1>11. WorkFollows'
  <2> SUFFICES ASSUME NEW d \in Calls, HoldsCard(d)'
               PROVE  Follows(d, Current(d), work[d])'
    BY DEF WorkFollows
  <2>1. d # c /\ HoldsCard(d) /\ (HoldsCard(c) => req[d].card # req[c].card)
    BY <1>9
  <2>2. req[d].card \in Cards
    BY <2>1, <1>7 DEF HoldsCard
  <2>3. Current(d)' = Current(d)
    BY <2>1, <2>2, <1>1, <1>2 DEF Current, IInv, Typed
  <2> QED
    BY <2>1, <2>3, <1>1 DEF IInv, WorkFollows, Follows
<1> QED
  BY <1>6, <1>8, <1>10, <1>11 DEF IInv

LEMMA SendKeepsIInv ==
    ASSUME IInv, NEW c \in Calls, NEW r \in Requests, Send(c, r)
    PROVE  IInv'
<1>1. /\ pc[c] = "idle"
      /\ r.op # "CREATE" => card[r.card].version > 0
      /\ req' = [req EXCEPT ![c] = r]
      /\ pc' = [pc EXCEPT ![c] = IF r.action = NoAction THEN FirstStatement(r) ELSE "lookUp"]
      /\ UNCHANGED <<card, work>>
  BY DEF Send, GoTo
<1>2. Typed'
  BY <1>1 DEF IInv, Typed, Labels, FirstStatement
<1>3. Placed'
  BY <1>1 DEF IInv, Typed, Placed, Current, FirstStatement
<1>4. \A d \in Calls : HoldsCard(d)' => d # c /\ HoldsCard(d) /\ req'[d] = req[d]
  BY <1>1 DEF IInv, Typed, HoldsCard, Exists, Current, FirstStatement
<1>5. OneHolder'
  BY <1>4 DEF IInv, OneHolder
<1>6. WorkFollows'
  BY <1>1, <1>4 DEF IInv, WorkFollows, Follows, Current
<1> QED
  BY <1>2, <1>3, <1>5, <1>6 DEF IInv

LEMMA StepKeepsIInv == IInv /\ [Next]_vars => IInv'
<1> SUFFICES ASSUME IInv, [Next]_vars PROVE IInv'
  OBVIOUS
<1>1. CASE UNCHANGED vars
  BY <1>1 DEF vars, IInv, Typed, Placed, OneHolder, WorkFollows, Follows, HoldsCard,
              Exists, Current
<1>2. ASSUME NEW c \in Calls, NEW r \in Requests, Send(c, r) PROVE IInv'
  BY <1>2, SendKeepsIInv
<1>3. ASSUME NEW c \in Calls, LookUp(c) PROVE IInv'
  <2>1. pc' = [pc EXCEPT ![c] = "done"] \/ pc' = [pc EXCEPT ![c] = "insert"]
    BY <1>3 DEF LookUp, ReturnExisting, Answer, GoTo
  <2> QED
    BY <1>3, <2>1, MoveKeepsIInv DEF LookUp, Labels
<1>4. ASSUME NEW c \in Calls, Insert(c) PROVE IInv'
  <2>1. \/ pc' = [pc EXCEPT ![c] = "lookUpAgain"]
        \/ pc' = [pc EXCEPT ![c] = FirstStatement(req[c])]
    BY <1>4 DEF Insert, GoTo
  <2> QED
    BY <1>4, <2>1, MoveKeepsIInv DEF Insert, Labels, FirstStatement
<1>5. ASSUME NEW c \in Calls, LookUpAgain(c) PROVE IInv'
  <2>1. pc' = [pc EXCEPT ![c] = "done"]
    BY <1>5 DEF LookUpAgain, ReturnExisting, Answer, GoTo
  <2> QED
    BY <1>5, <2>1, MoveKeepsIInv DEF LookUpAgain, Labels
<1>6. ASSUME NEW c \in Calls, FindCard(c) PROVE IInv'
  <2>1. pc[c] = "find" /\ req[c] \in Requests /\ req[c].op = "CREATE"
    BY <1>6 DEF FindCard, IInv, Placed
  <2>2. CASE Exists(c)
    <3>1. Current(c) \in Row
      BY <2>1, RequestFields DEF IInv, Typed, Current
    <3> QED
      BY <1>6, <2>1, <2>2, <3>1, ReadyKeepsIInv DEF FindCard, GoTo
  <2>3. CASE ~Exists(c)
    BY <1>6, <2>1, <2>3, MoveKeepsIInv DEF FindCard, GoTo, Labels
  <2> QED
    BY <2>2, <2>3
<1>7. ASSUME NEW c \in Calls, InsertCard(c) PROVE IInv'
  <2>1. pc[c] = "insertCard" /\ req[c] \in Requests /\ req[c].op = "CREATE"
    BY <1>7 DEF InsertCard, IInv, Placed
  <2>2. CASE ~Exists(c)
    <3> DEFINE row == [version |-> 1, deleted |-> FALSE, content |-> req[c].content]
    <3>1. row \in Row
      BY <2>1, RequestFields DEF Row
    <3>2. Current(c).version = 0
      BY <2>1, <2>2, RequestFields DEF IInv, Typed, Current, Exists, Row
    <3>3. Follows(c, Current(c), row)
      BY <2>1, <3>2 DEF Follows
    <3>4. /\ pc' = [pc EXCEPT ![c] = "commit"]
          /\ work' = [work EXCEPT ![c] = row]
          /\ UNCHANGED <<card, req>>
          /\ CardIsFree(c)
      BY <1>7, <2>2 DEF InsertCard, GoTo
    <3> QED
      BY <2>1, <3>1, <3>3, <3>4, ReadyKeepsIInv
  <2>3. CASE Exists(c)
    BY <1>7, <2>1, <2>3, MoveKeepsIInv DEF InsertCard, Answer, GoTo, Labels
  <2> QED
    BY <2>2, <2>3
<1>8. ASSUME NEW c \in Calls, Lock(c) PROVE IInv'
  <2>1. pc[c] = "lock" /\ req[c] \in Requests /\ req[c].op # "CREATE" /\ CardIsFree(c)
        /\ UNCHANGED <<card, req>>
    BY <1>8 DEF Lock, IInv, Placed
  <2>2. Current(c) \in Row
    BY <2>1, RequestFields DEF IInv, Typed, Current
  <2>3. CASE pc' = [pc EXCEPT ![c] = "done"] /\ UNCHANGED work
    BY <2>1, <2>3, MoveKeepsIInv DEF Labels
  <2>4. CASE /\ pc' = [pc EXCEPT ![c] = "commit"]
             /\ work' = [work EXCEPT ![c] = Current(c)]
    BY <2>1, <2>2, <2>4, ReadyKeepsIInv DEF Follows
  <2>5. CASE /\ ~Current(c).deleted
             /\ req[c].base \in {0, Current(c).version}
             /\ pc' = [pc EXCEPT ![c] = "commit"]
             /\ work' = [work EXCEPT ![c] =
                           IF req[c].op = "UPDATE"
                           THEN Edited(Current(c), req[c].content)
                           ELSE Deleted(Current(c))]
    <3> DEFINE row == IF req[c].op = "UPDATE"
                      THEN Edited(Current(c), req[c].content)
                      ELSE Deleted(Current(c))
    <3>1. row \in Row /\ Follows(c, Current(c), row)
      BY <2>1, <2>5, LockedRow
    <3>2. work' = [work EXCEPT ![c] = row]
      BY <2>5
    <3> HIDE DEF row
    <3> QED
      BY <2>1, <2>5, <3>1, <3>2, ReadyKeepsIInv
  <2> QED
    BY <1>8, <2>3, <2>4, <2>5 DEF Lock, Answer, GoTo
<1>9. ASSUME NEW c \in Calls, Commit(c) PROVE IInv'
  BY <1>9, CommitKeepsIInv
<1>10. ASSUME NEW c \in Calls, Abort(c) PROVE IInv'
  BY <1>10, MoveKeepsIInv DEF Abort, Answer, GoTo, Labels
<1>11. CASE Cleanup
  BY <1>11 DEF Cleanup, IInv, Typed, Placed, OneHolder, WorkFollows, Follows, HoldsCard,
               Exists, Current
<1> QED
  BY <1>1, <1>2, <1>3, <1>4, <1>5, <1>6, <1>7, <1>8, <1>9, <1>10, <1>11 DEF Next, Step

LEMMA AlwaysIInv == Spec => []IInv
<1> QED
  BY InitIInv, StepKeepsIInv, PTL DEF Spec

-----------------------------------------------------------------------------
\* Every step of the calls is a step of CardStore, or leaves the cards alone.
LEMMA StepIsStoreStep == IInv /\ [Next]_vars => [Store!Next]_card
<1> SUFFICES ASSUME IInv, [Next]_vars, card' # card PROVE Store!Next
  OBVIOUS
<1>1. PICK c \in Calls : Commit(c) /\ HoldsCard(c)
  BY DEF Next, Step, Send, LookUp, Insert, LookUpAgain, FindCard, InsertCard, Lock, Commit,
         Abort, Cleanup, vars
<1> DEFINE l == req[c].card
           before == card[l]
           next == work[c]
<1>2. card' = [card EXCEPT ![l] = next]
  BY <1>1 DEF Commit
<1>3. l \in Cards
  BY <1>1, RequestFields DEF HoldsCard, IInv, Placed
<1>4. before \in Row /\ next \in Row
  BY <1>3 DEF IInv, Typed
<1>5. Follows(c, before, next)
  BY <1>1 DEF IInv, WorkFollows, Current
<1>6. next # before
  BY <1>2, <1>3 DEF IInv, Typed
<1>7. CASE before.version = 0 /\ next.version = 1 /\ ~next.deleted
  <2>1. next = [version |-> 1, deleted |-> FALSE, content |-> next.content]
        /\ next.content \in Contents
    BY <1>4, <1>7 DEF Row
  <2>2. Store!Create(l)
    BY <1>2, <1>7, <2>1 DEF Store!Create
  <2> QED
    BY <1>3, <2>2 DEF Store!Next
<1>8. CASE before.version > 0 /\ ~before.deleted /\ next.version = before.version + 1
           /\ next.deleted = before.deleted
  <2>1. next = [before EXCEPT !.version = @ + 1, !.content = next.content]
        /\ next.content \in Contents
    BY <1>4, <1>8 DEF Row
  <2>2. Store!Edit(l)
    BY <1>2, <1>3, <1>8, <2>1 DEF Store!Edit, IInv, Typed
  <2> QED
    BY <1>3, <2>2 DEF Store!Next
<1>9. CASE before.version > 0 /\ ~before.deleted /\ next.version = before.version + 1
           /\ next.deleted /\ next.content = before.content
  <2>1. next = [before EXCEPT !.version = @ + 1, !.deleted = TRUE]
    BY <1>4, <1>9 DEF Row
  <2>2. Store!Delete(l)
    BY <1>2, <1>3, <1>9, <2>1 DEF Store!Delete, IInv, Typed
  <2> QED
    BY <1>3, <2>2 DEF Store!Next
<1> QED
  BY <1>5, <1>6, <1>7, <1>8, <1>9 DEF Follows

\* The transactions implement the store: no change is lost or made to an outdated
\* row, and a tombstone stays, whatever calls interleave (card_service.py).
THEOREM CardsImplementStore == Spec => ImplementsCardStore
<1>1. Init => Store!Init
  BY DEF Init, Store!Init, NoRow
<1> QED
  BY <1>1, AlwaysIInv, StepIsStoreStep, PTL DEF Spec, ImplementsCardStore, Store!Spec

-----------------------------------------------------------------------------
(* The history of the changes.                                             *)

Change == [req : Requests, row : Row]

\* A change of an operation that names its version is the one after that version.
Expected(x) ==
    /\ x.req.op = "CREATE" => x.row.version = 1
    /\ x.req.op # "CREATE" /\ x.req.base > 0 => x.row.version = x.req.base + 1

\* The changes of a card have growing versions, up to that of the committed row.
HInv ==
    /\ log \in Seq(Change)
    /\ \A i \in 1..Len(log) :
          /\ Expected(log[i])
          /\ log[i].row.version <= card[log[i].req.card].version
    /\ \A i, j \in 1..Len(log) :
          i < j /\ log[i].req.card = log[j].req.card =>
              log[i].row.version < log[j].row.version

LEMMA InitHInv == Init => HInv
BY DEF Init, HInv

LEMMA CommitKeepsHInv ==
    ASSUME IInv, HInv, NEW c \in Calls, Commit(c)
    PROVE  HInv'
<1> DEFINE l == req[c].card
           before == card[l]
           next == work[c]
           x == [req |-> req[c], row |-> next]
<1>1. /\ req[c] \in Requests /\ l \in Cards
      /\ before \in Row /\ next \in Row
  BY RequestFields DEF Commit, IInv, Typed, Placed
<1>2. CASE ~(HoldsCard(c) /\ next # before)
  <2>1. UNCHANGED <<card, log>>
    BY <1>1, <1>2 DEF Commit, Current, IInv, Typed
  <2> QED
    BY <2>1 DEF HInv
<1>3. CASE HoldsCard(c) /\ next # before
  <2>1. card' = [card EXCEPT ![l] = next] /\ log' = Append(log, x)
    BY <1>3 DEF Commit, Current
  <2>2. next.version = before.version + 1 /\ Expected(x)
    <3>1. Follows(c, before, next)
      BY <1>3 DEF IInv, WorkFollows, Current
    <3> QED
      BY <1>1, <1>3, <3>1, RequestFields DEF Follows, Expected, Row
  <2>3. x \in Change
    BY <1>1 DEF Change
  <2>4. /\ log' \in Seq(Change)
        /\ Len(log') = Len(log) + 1
        /\ log'[Len(log) + 1] = x
        /\ \A i \in 1..Len(log) : log'[i] = log[i]
    BY <2>1, <2>3 DEF HInv
  <2>5. ASSUME NEW i \in 1..Len(log)
        PROVE  /\ log[i].req.card \in Cards
               /\ log[i].row.version \in Nat
               /\ card[log[i].req.card].version \in Nat
    <3>1. log[i] \in Change
      BY DEF HInv
    <3> QED
      BY <3>1, RequestFields DEF Change, Row, IInv, Typed
  <2>6. ASSUME NEW i \in 1..Len(log')
        PROVE  /\ Expected(log'[i])
               /\ log'[i].row.version <= card'[log'[i].req.card].version
    <3>1. CASE i = Len(log) + 1
      BY <1>1, <2>1, <2>2, <2>4, <3>1 DEF IInv, Typed, Row
    <3>2. CASE i \in 1..Len(log)
      <4>1. log'[i] = log[i] /\ Expected(log[i])
            /\ log[i].row.version <= card[log[i].req.card].version
        BY <2>4, <3>2 DEF HInv
      <4> DEFINE m == log[i].req.card
      <4>2. m \in Cards /\ log[i].row.version \in Nat /\ card[m].version \in Nat
        BY <2>5, <3>2
      <4>3. card'[m] = IF m = l THEN next ELSE card[m]
        BY <2>1, <4>2 DEF IInv, Typed
      <4>4. card'[m].version \in {card[m].version, card[m].version + 1}
        BY <2>2, <4>3
      <4> QED
        BY <4>1, <4>2, <4>4
    <3>3. Len(log) \in Nat
      BY DEF HInv
    <3> QED
      BY <2>4, <3>1, <3>2, <3>3
  <2>7. ASSUME NEW i \in 1..Len(log'), NEW j \in 1..Len(log'), i < j,
               log'[i].req.card = log'[j].req.card
        PROVE  log'[i].row.version < log'[j].row.version
    <3>1. Len(log) \in Nat /\ i \in 1..Len(log)
      BY <2>4, <2>7 DEF HInv
    <3>2. CASE j = Len(log) + 1
      <4>1. log[i].row.version <= before.version
        BY <2>4, <2>7, <3>1, <3>2 DEF HInv
      <4> QED
        BY <1>1, <2>2, <2>4, <2>5, <3>1, <3>2, <4>1 DEF Row
    <3>3. CASE j \in 1..Len(log)
      BY <2>4, <2>7, <3>1, <3>3 DEF HInv
    <3> QED
      BY <2>4, <3>1, <3>2, <3>3
  <2> QED
    BY <2>4, <2>6, <2>7 DEF HInv
<1> QED
  BY <1>2, <1>3

LEMMA StepKeepsHInv == IInv /\ HInv /\ [Next]_vars => HInv'
<1> SUFFICES ASSUME IInv, HInv, [Next]_vars PROVE HInv'
  OBVIOUS
<1>1. ASSUME NEW c \in Calls, Commit(c) PROVE HInv'
  BY <1>1, CommitKeepsHInv
<1>2. CASE UNCHANGED <<card, log>>
  BY <1>2 DEF HInv
<1> QED
  BY <1>1, <1>2 DEF Next, Step, Send, LookUp, Insert, LookUpAgain, FindCard, InsertCard,
                    Lock, Abort, Cleanup, vars

LEMMA AlwaysHInv == Spec => [](IInv /\ HInv)
<1> QED
  BY InitIInv, StepKeepsIInv, InitHInv, StepKeepsHInv, PTL DEF Spec

\* However often an operation is sent to /api/cards/sync, and even after its record
\* has been cleaned up, it changes its card at most once (card_sync_service.py).
THEOREM OperationsApplyOnce == Spec => []AppliedOnce
<1>1. IInv /\ HInv => AppliedOnce
  <2> SUFFICES ASSUME HInv, NEW i \in 1..Len(log), NEW j \in 1..Len(log), i # j,
                      log[i].req.action # NoAction, log[i].req = log[j].req
               PROVE  FALSE
    BY DEF AppliedOnce
  <2>1. log[i] \in Change /\ log[j] \in Change
    BY DEF HInv
  <2>2. log[i].req.op = "CREATE" \/ log[i].req.base > 0
    BY <2>1, RequestFields DEF Change
  <2>3. log[i].row.version = log[j].row.version /\ log[i].row.version \in Nat
    BY <2>1, <2>2 DEF HInv, Expected, Change, Row
  <2>4. Len(log) \in Nat
    BY DEF HInv
  <2> QED
    BY <2>1, <2>3, <2>4 DEF HInv
<1> QED
  BY <1>1, AlwaysHInv, PTL

\* An operation with a base_version changes that version of the card and no other, so
\* it never overwrites what its device has not seen (apply_card_update).
THEOREM NothingIsOverwritten == Spec => []NothingOverwritten
<1>1. HInv => NothingOverwritten
  BY DEF HInv, Expected, NothingOverwritten
<1> QED
  BY <1>1, AlwaysHInv, PTL

-----------------------------------------------------------------------------
(* The records of the actions, and the answers.                            *)

\* The key of a client_actions row is held by one call at a time, and only while no
\* row is committed under it.
KeysInv ==
    /\ rows \in [Actions -> {NoAnswer} \cup [req : Requests, row : Row]]
    /\ cleaned \in Nat
    /\ \A c, d \in Calls : c # d /\ HoldsAction(c) /\ HoldsAction(d) => req[c].action # req[d].action
    /\ \A c \in Calls : HoldsAction(c) => rows[req[c].action] = NoAnswer

\* Until a cleanup, every success told to a device is on record as it was told.
OnRecord(x) == rows[x.req.action] = [req |-> x.req, row |-> x.row]

AnswersInv ==
    /\ \A x \in answers : x.req \in Requests /\ x.req.action \in Actions
    /\ cleaned = 0 => \A x \in answers : x.kind = "ok" => OnRecord(x)
    /\ cleaned = 0 => RetriesAgree

LEMMA RecordsAreNotNone == \A r, w : [req |-> r, row |-> w] # NoAnswer
<1> TAKE r, w
<1>1. DOMAIN [req |-> r, row |-> w] = {"req", "row"} /\ DOMAIN NoAnswer = {"req"}
  BY DEF NoAnswer
<1>2. "row" \notin {"req"}
  OBVIOUS
<1> QED
  BY <1>1, <1>2

\* A synchronised call under way names an action.
LEMMA SyncedAction ==
    ASSUME IInv, NEW c \in Calls, pc[c] # "idle", Synced(c)
    PROVE  req[c] \in Requests /\ req[c].action \in Actions
BY RequestFields DEF IInv, Placed, Synced

LEMMA InitRecords == Init => KeysInv /\ AnswersInv
<1> SUFFICES ASSUME Init PROVE KeysInv /\ AnswersInv
  OBVIOUS
<1>1. KeysInv
  BY DEF Init, KeysInv, HoldsAction
<1>2. AnswersInv
  BY DEF Init, AnswersInv, RetriesAgree
<1> QED
  BY <1>1, <1>2

\* Nothing is on record before it is committed, and nothing but a cleanup removes it.
LEMMA StepKeepsKeys == IInv /\ KeysInv /\ [Next]_vars => KeysInv'
<1> SUFFICES ASSUME IInv, KeysInv, [Next]_vars PROVE KeysInv'
  OBVIOUS
<1>1. ASSUME NEW c \in Calls, Insert(c) PROVE KeysInv'
  <2>1. \A d \in Calls : HoldsAction(d)' => d = c \/ HoldsAction(d)
    BY <1>1 DEF Insert, GoTo, HoldsAction, Synced, IInv, Typed
  <2>2. HoldsAction(c)' => ActionIsFree(c) /\ rows[req[c].action] = NoAnswer
    BY <1>1 DEF Insert, GoTo, HoldsAction, FirstStatement, IInv, Typed
  <2> QED
    BY <1>1, <2>1, <2>2 DEF Insert, KeysInv, ActionIsFree
<1>2. ASSUME NEW c \in Calls, Commit(c) PROVE KeysInv'
  <2>1. \A d \in Calls : HoldsAction(d)' => d # c /\ HoldsAction(d)
    BY <1>2 DEF Commit, Answer, GoTo, HoldsAction, Synced, IInv, Typed
  <2>2. CASE ~Synced(c)
    BY <1>2, <2>1, <2>2 DEF Commit, KeysInv
  <2>3. CASE Synced(c)
    <3>1. req[c] \in Requests /\ req[c].action \in Actions /\ work[c] \in Row
      BY <1>2, <2>3, SyncedAction DEF Commit, IInv, Typed
    <3>2. rows' = [rows EXCEPT ![req[c].action] = [req |-> req[c], row |-> work[c]]]
      BY <1>2, <2>3 DEF Commit
    <3>3. HoldsAction(c)
      BY <1>2, <2>3 DEF Commit, HoldsAction
    <3>4. \A d \in Calls : HoldsAction(d)' => req[d].action # req[c].action /\ HoldsAction(d)
      BY <2>1, <3>3 DEF KeysInv
    <3>5. UNCHANGED <<req, cleaned>>
      BY <1>2 DEF Commit
    <3> QED
      BY <2>1, <3>1, <3>2, <3>4, <3>5 DEF KeysInv
  <2> QED
    BY <2>2, <2>3
<1>3. ASSUME NEW c \in Calls, NEW r \in Requests, Send(c, r) PROVE KeysInv'
  <2>1. \A d \in Calls : HoldsAction(d)' => d # c /\ HoldsAction(d) /\ req'[d] = req[d]
    BY <1>3 DEF Send, GoTo, HoldsAction, Synced, IInv, Typed, FirstStatement
  <2> QED
    BY <1>3, <2>1 DEF Send, KeysInv
<1>4. ASSUME NEW c \in Calls, LookUp(c) \/ LookUpAgain(c) \/ FindCard(c) \/ InsertCard(c) \/ Lock(c) \/ Abort(c)
      PROVE  KeysInv'
  <2>1. /\ UNCHANGED <<rows, req, cleaned>>
        /\ \E label \in Labels :
              /\ pc' = [pc EXCEPT ![c] = label]
              /\ label \in {"find", "insertCard", "lock", "commit"}
                    => pc[c] \in {"find", "insertCard", "lock", "commit"}
    <3>1. CASE LookUp(c) \/ LookUpAgain(c)
      BY <3>1 DEF LookUp, LookUpAgain, ReturnExisting, Answer, GoTo, Labels
    <3>2. CASE FindCard(c) \/ InsertCard(c)
      BY <3>2 DEF FindCard, InsertCard, Answer, GoTo, Labels
    <3>3. CASE Lock(c) \/ Abort(c)
      BY <3>3 DEF Lock, Abort, Answer, GoTo, Labels
    <3> QED
      BY <1>4, <3>1, <3>2, <3>3
  <2>2. \A d \in Calls : HoldsAction(d)' => HoldsAction(d)
    BY <2>1 DEF HoldsAction, Synced, IInv, Typed
  <2> QED
    BY <2>1, <2>2 DEF KeysInv
<1>5. CASE Cleanup
  <2>1. /\ rows' = [a \in Actions |-> NoAnswer] /\ cleaned' = cleaned + 1
        /\ UNCHANGED <<pc, req>>
    BY <1>5 DEF Cleanup
  <2>2. \A d \in Calls : HoldsAction(d)' => HoldsAction(d) /\ req[d].action \in Actions
    BY <2>1, SyncedAction DEF HoldsAction, Synced
  <2>3. \A d \in Calls : HoldsAction(d)' => rows'[req'[d].action] = NoAnswer
    BY <2>1, <2>2
  <2> QED
    BY <2>1, <2>2, <2>3 DEF KeysInv
<1>6. CASE UNCHANGED vars
  BY <1>6 DEF vars, KeysInv, HoldsAction, Synced
<1> QED
  BY <1>1, <1>2, <1>3, <1>4, <1>5, <1>6 DEF Next, Step

\* An answer that leaves the records alone: a success repeats what is on record, and
\* what has been a success is answered with nothing but that or an error.
LEMMA AnswerKeepsAnswers ==
    ASSUME IInv, AnswersInv, NEW c \in Calls, NEW kind \in Kinds, NEW row, Answer(c, kind, row), pc[c] # "idle",
           UNCHANGED <<rows, cleaned>>,
           Synced(c) /\ kind = "ok" => rows[req[c].action] = [req |-> req[c], row |-> row],
           Synced(c) /\ cleaned = 0 /\ Succeeded(req[c]) => kind \in {"ok", "error"}
    PROVE  AnswersInv'
<1>1. CASE ~Synced(c)
  BY <1>1 DEF Answer, AnswersInv, RetriesAgree, OnRecord
<1>2. CASE Synced(c)
  <2> DEFINE new == [req |-> req[c], kind |-> kind, row |-> row, again |-> Succeeded(req[c])]
  <2>1. answers' = answers \cup {new}
    BY <1>2 DEF Answer
  <2>2. /\ new.req = req[c] /\ new.kind = kind /\ new.row = row
        /\ new.again => Succeeded(req[c])
        /\ req[c] \in Requests /\ req[c].action \in Actions
    BY <1>2, SyncedAction
  <2> HIDE DEF new
  <2>3. \A x \in answers' : x.req \in Requests /\ x.req.action \in Actions
    BY <2>1, <2>2 DEF AnswersInv
  <2>4. ASSUME cleaned = 0, NEW x \in answers', x.kind = "ok" PROVE OnRecord(x)'
    BY <1>2, <2>1, <2>2, <2>4 DEF AnswersInv, OnRecord
  <2>5. ASSUME cleaned = 0 PROVE RetriesAgree'
    <3>1. \A x \in answers' : x.again => x.kind \in {"ok", "error"}
      BY <1>2, <2>1, <2>2, <2>5 DEF AnswersInv, RetriesAgree
    <3>2. ASSUME NEW x \in answers', NEW y \in answers', x.req = y.req, x.kind = "ok", y.kind = "ok"
          PROVE  x.row = y.row
      <4>1. OnRecord(x)' /\ OnRecord(y)'
        BY <2>4, <2>5, <3>2
      <4> QED
        BY <3>2, <4>1 DEF OnRecord
    <3> QED
      BY <3>1, <3>2 DEF RetriesAgree
  <2> QED
    BY <2>3, <2>4, <2>5 DEF AnswersInv
<1> QED
  BY <1>1, <1>2

\* A replay answers with what is on record under the action.
LEMMA ReplayKeepsAnswers ==
    ASSUME IInv, KeysInv, AnswersInv, NEW c \in Calls, pc[c] # "idle", Synced(c),
           rows[req[c].action] # NoAnswer, ReturnExisting(c), UNCHANGED <<rows, cleaned>>
    PROVE  AnswersInv'
<1> DEFINE saved == rows[req[c].action]
<1>1. req[c].action \in Actions
  BY SyncedAction
<1>2. saved \in [req : Requests, row : Row]
  BY <1>1 DEF KeysInv
<1>3. saved = [req |-> saved.req, row |-> saved.row]
  BY <1>2
<1>4. CASE saved.req = req[c]
  <2>1. Answer(c, "ok", saved.row)
    BY <1>4 DEF ReturnExisting
  <2>2. saved = [req |-> req[c], row |-> saved.row]
    BY <1>3, <1>4
  <2> QED
    BY <2>1, <2>2, AnswerKeepsAnswers DEF Kinds
<1>5. CASE saved.req # req[c]
  <2>1. Answer(c, "reused", NoRow)
    BY <1>5 DEF ReturnExisting
  <2>2. ASSUME cleaned = 0, Succeeded(req[c]) PROVE FALSE
    <3>1. PICK x \in answers : x.req = req[c] /\ x.kind = "ok"
      BY <2>2 DEF Succeeded
    <3>2. saved = [req |-> req[c], row |-> x.row]
      BY <2>2, <3>1 DEF AnswersInv, OnRecord
    <3> QED
      BY <1>5, <3>2
  <2> QED
    BY <2>1, <2>2, AnswerKeepsAnswers DEF Kinds
<1> QED
  BY <1>4, <1>5

\* An operation that is carried out has not been answered with success.
LEMMA CarriedOutIsNew ==
    ASSUME IInv, KeysInv, AnswersInv, cleaned = 0, NEW c \in Calls, HoldsAction(c), NEW x \in answers, x.kind = "ok"
    PROVE  x.req.action # req[c].action
<1>1. rows[req[c].action] = NoAnswer
  BY DEF KeysInv
<1>2. rows[x.req.action] = [req |-> x.req, row |-> x.row]
  BY DEF AnswersInv, OnRecord
<1> QED
  BY <1>1, <1>2, RecordsAreNotNone

LEMMA CommitKeepsAnswers ==
    ASSUME IInv, KeysInv, AnswersInv, NEW c \in Calls, Commit(c)
    PROVE  AnswersInv'
<1>1. CASE ~Synced(c)
  BY <1>1 DEF Commit, Answer, AnswersInv, RetriesAgree, OnRecord
<1>2. CASE Synced(c)
  <2> DEFINE new == [req |-> req[c], kind |-> "ok", row |-> work[c], again |-> Succeeded(req[c])]
  <2>1. /\ answers' = answers \cup {new} /\ UNCHANGED cleaned
        /\ rows' = [rows EXCEPT ![req[c].action] = [req |-> req[c], row |-> work[c]]]
    BY <1>2 DEF Commit, Answer
  <2>2. new.req = req[c] /\ new.kind = "ok" /\ new.row = work[c]
    OBVIOUS
  <2>3. req[c] \in Requests /\ req[c].action \in Actions /\ HoldsAction(c)
    BY <1>2, SyncedAction DEF Commit, HoldsAction
  <2> HIDE DEF new
  <2>4. \A x \in answers' : x.req \in Requests /\ x.req.action \in Actions
    BY <2>1, <2>2, <2>3 DEF AnswersInv
  <2>5. ASSUME cleaned = 0, NEW x \in answers', x.kind = "ok" PROVE OnRecord(x)'
    <3>1. CASE x \in answers
      <4>1. x.req.action # req[c].action /\ OnRecord(x)
        BY <2>3, <2>5, <3>1, CarriedOutIsNew DEF AnswersInv
      <4> QED
        BY <2>1, <2>3, <3>1, <4>1 DEF OnRecord, KeysInv, AnswersInv
    <3>2. CASE x = new
      BY <2>1, <2>2, <2>3, <3>2 DEF OnRecord, KeysInv
    <3> QED
      BY <2>1, <2>5, <3>1, <3>2
  <2>6. ASSUME cleaned = 0 PROVE RetriesAgree'
    <3>1. \A x \in answers' : x.again => x.kind \in {"ok", "error"}
      BY <2>1, <2>2, <2>6 DEF AnswersInv, RetriesAgree
    <3>2. ASSUME NEW x \in answers', NEW y \in answers', x.req = y.req, x.kind = "ok", y.kind = "ok"
          PROVE  x.row = y.row
      <4>1. OnRecord(x)' /\ OnRecord(y)'
        BY <2>5, <2>6, <3>2
      <4> QED
        BY <3>2, <4>1 DEF OnRecord
    <3> QED
      BY <3>1, <3>2 DEF RetriesAgree
  <2> QED
    BY <2>1, <2>4, <2>5, <2>6 DEF AnswersInv
<1> QED
  BY <1>1, <1>2

LEMMA StepKeepsAnswers == IInv /\ KeysInv /\ AnswersInv /\ [Next]_vars => AnswersInv'
<1> SUFFICES ASSUME IInv, KeysInv, AnswersInv, [Next]_vars PROVE AnswersInv'
  OBVIOUS
<1>1. CASE UNCHANGED <<rows, cleaned, answers>>
  BY <1>1 DEF AnswersInv, RetriesAgree, OnRecord
<1>2. CASE Cleanup
  <2>1. cleaned' # 0 /\ UNCHANGED answers
    BY <1>2 DEF Cleanup, KeysInv
  <2> QED
    BY <2>1 DEF AnswersInv
<1>3. ASSUME NEW c \in Calls, LookUp(c) \/ LookUpAgain(c) PROVE AnswersInv'
  <2>1. pc[c] # "idle" /\ UNCHANGED <<rows, cleaned>>
    BY <1>3 DEF LookUp, LookUpAgain
  <2>2. CASE Answer(c, "error", NoRow)
    BY <2>1, <2>2, AnswerKeepsAnswers DEF Kinds
  <2>3. CASE rows[req[c].action] # NoAnswer /\ ReturnExisting(c)
    <3>1. CASE Synced(c)
      BY <2>1, <2>3, <3>1, ReplayKeepsAnswers
    <3>2. CASE ~Synced(c)
      BY <2>1, <2>3, <3>2 DEF ReturnExisting, Answer, AnswersInv, RetriesAgree, OnRecord
    <3> QED
      BY <3>1, <3>2
  <2> QED
    BY <1>1, <1>3, <2>1, <2>2, <2>3 DEF LookUp, LookUpAgain
<1>4. ASSUME NEW c \in Calls, InsertCard(c) \/ Lock(c) PROVE AnswersInv'
  <2>1. pc[c] \in {"insertCard", "lock"} /\ UNCHANGED <<rows, cleaned>>
    BY <1>4 DEF InsertCard, Lock
  <2>2. ASSUME NEW kind \in Kinds \ {"ok"}, Answer(c, kind, NoRow) PROVE AnswersInv'
    <3>1. ASSUME Synced(c), cleaned = 0, Succeeded(req[c]) PROVE FALSE
      <4>1. HoldsAction(c)
        BY <2>1, <3>1 DEF HoldsAction
      <4> QED
        BY <3>1, <4>1, CarriedOutIsNew DEF Succeeded
    <3> QED
      BY <2>1, <2>2, <3>1, AnswerKeepsAnswers
  <2> QED
    BY <1>1, <1>4, <2>1, <2>2 DEF InsertCard, Lock, Kinds
<1>5. ASSUME NEW c \in Calls, Abort(c) PROVE AnswersInv'
  <2>1. Answer(c, "error", NoRow) /\ pc[c] # "idle" /\ UNCHANGED <<rows, cleaned>>
    BY <1>5 DEF Abort
  <2> QED
    BY <2>1, AnswerKeepsAnswers DEF Kinds
<1> QED
  BY <1>1, <1>2, <1>3, <1>4, <1>5, CommitKeepsAnswers DEF Next, Step, Send, Insert, FindCard, vars

\* _return_existing_action: as long as the record of it is kept, an operation that was
\* answered with success is answered with the same card again, or with a 500, by
\* however many calls it is sent and wherever they meet.
THEOREM RetriesAreReplayed == Spec => [](cleaned = 0 => RetriesAgree)
<1>1. AnswersInv => (cleaned = 0 => RetriesAgree)
  BY DEF AnswersInv
<1> QED
  BY <1>1, InitIInv, StepKeepsIInv, InitRecords, StepKeepsKeys, StepKeepsAnswers, PTL DEF Spec

\* create_processing_action, _return_existing_action: as long as the records are kept,
\* an id stands for one operation; of two that share it at most one succeeds, in
\* whatever order their calls arrive.
THEOREM ActionIsOneOperation == Spec => [](cleaned = 0 => OneOperationPerAction)
<1>1. AnswersInv => (cleaned = 0 => OneOperationPerAction)
  <2> SUFFICES ASSUME AnswersInv, cleaned = 0, NEW x \in answers, NEW y \in answers,
                      x.req.action = y.req.action, x.kind = "ok", y.kind = "ok"
               PROVE  x.req = y.req
    BY DEF OneOperationPerAction
  <2>1. [req |-> x.req, row |-> x.row] = [req |-> y.req, row |-> y.row]
    BY DEF AnswersInv, OnRecord
  <2> QED
    BY <2>1
<1> QED
  BY <1>1, InitIInv, StepKeepsIInv, InitRecords, StepKeepsKeys, StepKeepsAnswers, PTL DEF Spec

-----------------------------------------------------------------------------
(* What a success tells.                                                   *)

\* The row has been committed for the card.
Committed(h, l, row) == \E i \in 1..Len(h) : h[i].req.card = l /\ h[i].row = row

\* Every row there is, on record or told, was committed as a change of its card; so is
\* the row a call is about to return, unless it is about to commit that change.
RealInv ==
    /\ \A l \in Cards : card[l].version > 0 => Committed(log, l, card[l])
    /\ \A a \in Actions : rows[a] # NoAnswer => Committed(log, rows[a].req.card, rows[a].row)
    /\ \A c \in Calls : pc[c] = "commit" /\ ~HoldsCard(c) => Committed(log, req[c].card, work[c])
    /\ \A c \in Calls : pc[c] = "commit" => work[c].version > 0
    /\ AnswersAreReal

LEMMA InitRealInv == Init => RealInv
BY DEF Init, RealInv, NoRow, AnswersAreReal

\* A change stays in the history.
LEMMA RealStays ==
    ASSUME HInv, NEW x \in Change, log' = log \/ log' = Append(log, x)
    PROVE  /\ \A l, row : Committed(log, l, row) => Committed(log', l, row)
           /\ log' = Append(log, x) => Committed(log', x.req.card, x.row)
<1>1. Len(log) \in Nat /\ log \in Seq(Change)
  BY DEF HInv
<1>2. CASE log' = log
  <2>1. \A l, row : Committed(log, l, row) => Committed(log', l, row)
    BY <1>2 DEF Committed
  <2>2. log' # Append(log, x)
    BY <1>1, <1>2
  <2> QED
    BY <2>1, <2>2
<1>3. CASE log' = Append(log, x)
  <2>1. /\ Len(log') = Len(log) + 1
        /\ log'[Len(log) + 1] = x
        /\ \A i \in 1..Len(log) : log'[i] = log[i] /\ i \in 1..Len(log')
    BY <1>1, <1>3
  <2>2. Len(log) + 1 \in 1..Len(log')
    BY <1>1, <2>1
  <2> QED
    BY <2>1, <2>2 DEF Committed
<1> QED
  BY <1>2, <1>3

\* A step that commits nothing: what it answers with success is real already.
LEMMA QuietKeepsReal ==
    ASSUME IInv, RealInv, NEW c \in Calls, NEW label \in Labels, pc[c] # "idle",
           pc' = [pc EXCEPT ![c] = label],
           UNCHANGED <<card, rows, req, log>>,
           \A d \in Calls \ {c} : work'[d] = work[d],
           label = "commit" => /\ work'[c].version > 0
                               /\ HoldsCard(c)' \/ Committed(log, req[c].card, work'[c]),
           \A x \in answers' : x \in answers \/ (x.kind = "ok" => Committed(log, x.req.card, x.row))
    PROVE  RealInv'
<1>1. \A l, row : Committed(log', l, row) <=> Committed(log, l, row)
  BY DEF Committed
<1>2. \A d \in Calls : pc'[d] = IF d = c THEN label ELSE pc[d]
  BY DEF IInv, Typed
<1>3. \A d \in Calls \ {c} : HoldsCard(d)' <=> HoldsCard(d)
  BY <1>2 DEF HoldsCard, Exists, Current
<1>4. AnswersAreReal'
  <2>1. \A x \in answers : x.kind = "ok" => Committed(log, x.req.card, x.row)
    BY DEF RealInv, AnswersAreReal, Committed
  <2> QED
    BY <1>1, <2>1 DEF AnswersAreReal, Committed
<1> QED
  BY <1>1, <1>2, <1>3, <1>4 DEF RealInv

LEMMA CommitKeepsReal ==
    ASSUME IInv, HInv, KeysInv, RealInv, NEW c \in Calls, Commit(c)
    PROVE  RealInv'
<1> DEFINE x == [req |-> req[c], row |-> work[c]]
<1>1. /\ pc[c] = "commit" /\ pc' = [pc EXCEPT ![c] = "done"] /\ UNCHANGED <<req, work>>
      /\ card' = IF HoldsCard(c) THEN [card EXCEPT ![req[c].card] = work[c]] ELSE card
      /\ log' = IF HoldsCard(c) /\ work[c] # Current(c) THEN Append(log, x) ELSE log
      /\ rows' = IF Synced(c) THEN [rows EXCEPT ![req[c].action] = x] ELSE rows
  BY DEF Commit, Answer, GoTo
<1>2. req[c] \in Requests /\ req[c].card \in Cards /\ x \in Change
  BY <1>1, RequestFields DEF IInv, Typed, Placed, Change
<1>3. \A l, row : Committed(log, l, row) => Committed(log', l, row)
  BY <1>1, <1>2, RealStays
<1>4. Committed(log', req[c].card, work[c])
  <2>1. CASE ~HoldsCard(c)
    BY <1>1, <1>3, <2>1 DEF RealInv
  <2>2. CASE HoldsCard(c) /\ work[c] = Current(c)
    BY <1>1, <1>2, <1>3, <2>2 DEF RealInv, Current
  <2>3. CASE HoldsCard(c) /\ work[c] # Current(c)
    <3>1. log' = Append(log, x)
      BY <1>1, <2>3
    <3> QED
      BY <1>2, <3>1, RealStays
  <2> QED
    BY <2>1, <2>2, <2>3
<1>5. \A l \in Cards : card'[l].version > 0 => Committed(log', l, card'[l])
  <2> TAKE l \in Cards
  <2>1. card'[l] = card[l] \/ (l = req[c].card /\ card'[l] = work[c])
    BY <1>1, <1>2 DEF IInv, Typed
  <2> QED
    BY <1>3, <1>4, <2>1 DEF RealInv
<1>6. \A a \in Actions : rows'[a] # NoAnswer => Committed(log', rows'[a].req.card, rows'[a].row)
  <2> TAKE a \in Actions
  <2>1. rows'[a] = rows[a] \/ rows'[a] = x
    BY <1>1 DEF KeysInv
  <2> QED
    BY <1>3, <1>4, <2>1 DEF RealInv
<1>7. \A d \in Calls : pc'[d] = "commit" => d # c /\ pc[d] = "commit"
  BY <1>1 DEF IInv, Typed
<1>8. ASSUME NEW d \in Calls, pc'[d] = "commit", ~HoldsCard(d)'
      PROVE  Committed(log', req'[d].card, work'[d])
  <2>1. CASE ~HoldsCard(d)
    BY <1>1, <1>3, <1>7, <1>8, <2>1 DEF RealInv
  <2>2. CASE HoldsCard(d)
    \* the card of a creation that holds it cannot have come to be by another's commit
    <3>1. d # c /\ pc[d] = "commit" /\ req[d].op = "CREATE" /\ ~Exists(d) /\ Exists(d)'
      BY <1>1, <1>7, <1>8, <2>2 DEF HoldsCard
    <3>2. HoldsCard(c) => req[c].card # req[d].card
      BY <2>2, <3>1 DEF IInv, OneHolder
    <3>3. req[d].card \in Cards
      BY <3>1, RequestFields DEF IInv, Placed
    <3>4. card'[req[d].card] = card[req[d].card]
      BY <1>1, <1>2, <3>2, <3>3 DEF IInv, Typed
    <3> QED
      BY <1>1, <3>1, <3>4 DEF Exists, Current
  <2> QED
    BY <2>1, <2>2
<1>9. AnswersAreReal'
  <2>1. \A y \in answers : y.kind = "ok" => Committed(log, y.req.card, y.row)
    BY DEF RealInv, AnswersAreReal, Committed
  <2>2. \A y \in answers' : y \in answers \/ (y.req = req[c] /\ y.row = work[c])
    BY DEF Commit, Answer
  <2>3. \A y \in answers' : y.kind = "ok" => Committed(log', y.req.card, y.row)
    BY <1>3, <1>4, <2>1, <2>2
  <2> QED
    BY <2>3 DEF AnswersAreReal, Committed
<1>10. \A d \in Calls : pc'[d] = "commit" => work'[d].version > 0
  BY <1>1, <1>7 DEF RealInv
<1> QED
  BY <1>5, <1>6, <1>8, <1>9, <1>10 DEF RealInv

LEMMA StepKeepsReal == IInv /\ HInv /\ KeysInv /\ RealInv /\ [Next]_vars => RealInv'
<1> SUFFICES ASSUME IInv, HInv, KeysInv, RealInv, [Next]_vars PROVE RealInv'
  OBVIOUS
<1>1. \A l, row : log' = log => (Committed(log', l, row) <=> Committed(log, l, row))
  BY DEF Committed
<1>2. ASSUME NEW c \in Calls, NEW r \in Requests, Send(c, r) PROVE RealInv'
  <2>1. /\ UNCHANGED <<card, rows, work, log, answers>>
        /\ pc' = [pc EXCEPT ![c] = pc'[c]] /\ pc'[c] # "commit" /\ req' = [req EXCEPT ![c] = r]
    BY <1>2 DEF Send, GoTo, FirstStatement, IInv, Typed
  <2>2. \A d \in Calls : pc'[d] = "commit" =>
            /\ pc[d] = "commit" /\ req'[d] = req[d]
            /\ HoldsCard(d)' <=> HoldsCard(d)
    BY <2>1 DEF IInv, Typed, HoldsCard, Exists, Current
  <2> QED
    BY <1>1, <2>1, <2>2 DEF RealInv, AnswersAreReal, Committed
<1>3. ASSUME NEW c \in Calls, Insert(c) PROVE RealInv'
  BY <1>3, QuietKeepsReal DEF Insert, GoTo, FirstStatement, Labels
<1>4. ASSUME NEW c \in Calls, NEW kind \in Kinds, NEW row,
             Answer(c, kind, row), pc[c] # "idle",
             UNCHANGED <<card, rows, req, work, log>>,
             Synced(c) /\ kind = "ok" => Committed(log, req[c].card, row)
      PROVE  RealInv'
  <2>1. \A x \in answers' : x \in answers
            \/ (x.req = req[c] /\ x.kind = kind /\ x.row = row /\ Synced(c))
    BY <1>4 DEF Answer
  <2> QED
    BY <1>4, <2>1, QuietKeepsReal DEF Answer, GoTo, Labels
<1>5. ASSUME NEW c \in Calls, LookUp(c) \/ LookUpAgain(c) PROVE RealInv'
  <2>1. pc[c] # "idle" /\ UNCHANGED <<card, rows, req, work, log>>
    BY <1>5 DEF LookUp, LookUpAgain
  <2>2. CASE GoTo(c, "insert") /\ UNCHANGED answers
    BY <2>1, <2>2, QuietKeepsReal DEF GoTo, Labels
  <2>3. CASE Answer(c, "error", NoRow)
    BY <1>4, <2>1, <2>3 DEF Kinds
  <2>4. CASE rows[req[c].action] # NoAnswer /\ ReturnExisting(c)
    <3>1. CASE Answer(c, "reused", NoRow)
      BY <1>4, <2>1, <3>1 DEF Kinds
    <3>2. CASE rows[req[c].action].req = req[c] /\ Answer(c, "ok", rows[req[c].action].row)
      <4>1. Synced(c) => Committed(log, req[c].card, rows[req[c].action].row)
        BY <2>1, <2>4, <3>2, SyncedAction DEF RealInv
      <4> QED
        BY <1>4, <2>1, <3>2, <4>1 DEF Kinds
    <3> QED
      BY <2>4, <3>1, <3>2 DEF ReturnExisting
  <2> QED
    BY <1>5, <2>2, <2>3, <2>4 DEF LookUp, LookUpAgain
<1>6. ASSUME NEW c \in Calls, FindCard(c) PROVE RealInv'
  <2>1. pc[c] = "find" /\ req[c].card \in Cards /\ req[c].op = "CREATE" /\ UNCHANGED <<card, rows, req, log, answers>>
    BY <1>6, RequestFields DEF FindCard, IInv, Placed
  <2>2. CASE Exists(c)
    <3>1. work' = [work EXCEPT ![c] = Current(c)] /\ GoTo(c, "commit")
      BY <1>6, <2>2 DEF FindCard
    <3>2. work'[c] = Current(c) /\ \A d \in Calls \ {c} : work'[d] = work[d]
      BY <3>1 DEF IInv, Typed
    <3>3. Committed(log, req[c].card, Current(c)) /\ Current(c).version > 0
      BY <2>1, <2>2 DEF RealInv, Exists, Current
    <3> QED
      BY <2>1, <3>1, <3>2, <3>3, QuietKeepsReal DEF GoTo, Labels
  <2>3. CASE ~Exists(c)
    BY <1>6, <2>1, <2>3, QuietKeepsReal DEF FindCard, GoTo, Labels
  <2> QED
    BY <2>2, <2>3
<1>7. ASSUME NEW c \in Calls, InsertCard(c) PROVE RealInv'
  <2>1. pc[c] = "insertCard" /\ req[c].op = "CREATE" /\ UNCHANGED <<card, rows, req, log>>
    BY <1>7 DEF InsertCard, IInv, Placed
  <2>2. CASE ~Exists(c)
    <3>1. /\ work'[c].version = 1 /\ \A d \in Calls \ {c} : work'[d] = work[d]
          /\ GoTo(c, "commit") /\ UNCHANGED answers
      BY <1>7, <2>2 DEF InsertCard, IInv, Typed
    <3>2. HoldsCard(c)' /\ work'[c].version > 0
      BY <2>1, <2>2, <3>1 DEF HoldsCard, GoTo, Exists, Current, IInv, Typed
    <3> QED
      BY <2>1, <3>1, <3>2, QuietKeepsReal DEF GoTo, Labels
  <2>3. CASE Exists(c)
    BY <1>4, <1>7, <2>1, <2>3 DEF InsertCard, Kinds
  <2> QED
    BY <2>2, <2>3
<1>8. ASSUME NEW c \in Calls, Lock(c) PROVE RealInv'
  <2>1. /\ pc[c] = "lock" /\ req[c].op # "CREATE" /\ Current(c).version > 0
        /\ req[c] \in Requests /\ req[c].card \in Cards
        /\ UNCHANGED <<card, rows, req, log>>
    BY <1>8, RequestFields DEF Lock, IInv, Placed
  <2>2. ASSUME NEW kind \in Kinds \ {"ok"}, Answer(c, kind, NoRow), UNCHANGED work PROVE RealInv'
    BY <1>4, <2>1, <2>2
  <2>3. CASE GoTo(c, "commit") /\ UNCHANGED answers
    <3>1. /\ work'[c].version > 0 /\ \A d \in Calls \ {c} : work'[d] = work[d]
      <4>1. Current(c) \in Row /\ Current(c).version + 1 > 0
        BY <2>1 DEF IInv, Typed, Current, Row
      <4>2. Edited(Current(c), req[c].content).version > 0 /\ Deleted(Current(c)).version > 0
        BY <2>1, <4>1 DEF Edited, Deleted
      <4>3. \E row \in {Current(c), Edited(Current(c), req[c].content), Deleted(Current(c))} :
                work' = [work EXCEPT ![c] = row]
        BY <1>8, <2>1, <2>3 DEF Lock, Answer, GoTo, IInv, Typed
      <4> QED
        BY <2>1, <4>2, <4>3 DEF IInv, Typed
    <3>2. HoldsCard(c)'
      BY <2>1, <2>3 DEF HoldsCard, GoTo, IInv, Typed
    <3> QED
      BY <2>1, <2>3, <3>1, <3>2, QuietKeepsReal DEF GoTo, Labels
  <2> QED
    BY <1>8, <2>2, <2>3 DEF Lock, Kinds
<1>9. ASSUME NEW c \in Calls, Abort(c) PROVE RealInv'
  BY <1>4, <1>9 DEF Abort, Kinds
<1>10. CASE Cleanup
  <2>1. /\ UNCHANGED <<card, pc, req, work, log, answers>>
        /\ \A a \in Actions : rows'[a] = NoAnswer
    BY <1>10 DEF Cleanup
  <2>2. \A d \in Calls : HoldsCard(d)' <=> HoldsCard(d)
    BY <2>1 DEF HoldsCard, Exists, Current
  <2> QED
    BY <1>1, <2>1, <2>2 DEF RealInv, AnswersAreReal
<1>11. CASE UNCHANGED vars
  BY <1>1, <1>11 DEF vars, RealInv, AnswersAreReal, HoldsCard, Exists, Current
<1> QED
  BY <1>2, <1>3, <1>5, <1>6, <1>7, <1>8, <1>9, <1>10, <1>11, CommitKeepsReal DEF Next, Step

\* A success, whether given by the call that made the change, by one that found it made
\* or from the record of an earlier one, tells of a card as it was committed
\* (card_sync_service.py).
THEOREM SuccessesAreReal == Spec => []AnswersAreReal
<1>1. RealInv => AnswersAreReal
  BY DEF RealInv
<1> QED
  BY <1>1, InitIInv, StepKeepsIInv, InitHInv, StepKeepsHInv, InitRecords, StepKeepsKeys,
     InitRealInv, StepKeepsReal, PTL DEF Spec

=============================================================================
