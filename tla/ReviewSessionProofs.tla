------------------------ MODULE ReviewSessionProofs ------------------------
(***************************************************************************)
(* Proofs about ReviewSession, for any number of calls, actions, cards and *)
(* sessions.                                                               *)
(***************************************************************************)
EXTENDS ReviewSession, FiniteSetTheorems, NaturalsInduction, WellFoundedInduction, TLAPS

-----------------------------------------------------------------------------
(* Types, and where a call can be with what.                               *)

Items == [card : Cards, repeat : BOOLEAN, done : BOOLEAN, question : Nat]
Row == [type : Types, status : {"active", "completed", "abandoned"}, total : Nat, reviewed : Nat]
Loaded == [type : Types \cup {"none"}, status : {"active", "completed", "abandoned", "none"},
           total : Nat, reviewed : Nat]
Asking == [session : Nat, item : Nat, version : Nat]
Replies == [question : Asking, correct : BOOLEAN]
Views == UNION {[D -> Nat] : D \in SUBSET Nat}
Work == [session : Nat, loaded : Loaded, row : Loaded, held : BOOLEAN, view : Views,
         left : SUBSET Nat, new : SUBSET Nat, stale : SUBSET Nat]
Logged == [action : Actions, question : Asking, correct : BOOLEAN]

AnswerLabels == {"lookUp", "insert", "session", "card", "question", "next", "commit"}
RefreshLabels == {"total", "reviewed", "pending", "flush"}
AskingLabels == {"look", "write", "key"}
OpenLabels == {"decide", "abandon", "create"} \cup AskingLabels
Labels == AnswerLabels \cup RefreshLabels \cup OpenLabels \cup {"idle", "read", "done"}

TypedRows ==
    /\ card \in [Cards -> [version : Nat \ {0}, eligible : BOOLEAN]]
    /\ session \in Seq(Row)
    /\ item \in Seq(Seq(Items))
    /\ Len(item) = Len(session)
    /\ rows \in [Actions -> {"none", "succeeded", "ignored", "failed"}]
    /\ log \in Seq(Logged)

TypedCalls ==
    /\ pc \in [Calls -> Labels]
    /\ req \in [Calls -> {NoRequest, Overview} \cup Openings
                             \cup [kind : {"answer"}, action : Actions]]
    /\ work \in [Calls -> Work]
    /\ shown \subseteq Asking
    /\ sent \in [Actions -> {NoReply} \cup Replies]

\* There is an item the question is about.
Names(q) == q.session \in DOMAIN item /\ q.item \in DOMAIN item[q.session]

Placed(c) ==
    /\ pc[c] \in AnswerLabels => req[c].action \in Actions /\ sent[req[c].action] # NoReply
    /\ pc[c] \in RefreshLabels \cup OpenLabels \cup {"read"} => req[c] \in Openings \cup {Overview}
    /\ pc[c] \in OpenLabels => req[c] \in Openings
    /\ pc[c] \in {"idle", "read", "done"} \cup (AnswerLabels \ {"commit"}) => work[c] = NoWork
    /\ pc[c] = "commit" => work[c].session = 0 /\ ~work[c].held
    /\ pc[c] \in RefreshLabels => ~work[c].held
    /\ pc[c] \in RefreshLabels \cup (OpenLabels \ {"create"}) => work[c].session # 0
    /\ work[c].session # 0 => /\ work[c].session \in DOMAIN session
                             /\ work[c].loaded.status = "active"
                             /\ work[c].row.status # "none"

\* An opening deals with the questions by their position, one at a time.
Paced(c) ==
    LET made == work[c].new \cup work[c].stale
        left == work[c].left
    IN /\ work[c].new \cap work[c].stale = {}
       /\ \A i \in made \ left, j \in left : i < j
       /\ pc[c] = "look" => made \cap left = {}
       /\ pc[c] \in {"write", "key"} =>
             \E i \in left : made \cap left = {i} /\ \A j \in left : i <= j
       /\ pc[c] = "key" => work[c].new \cap left # {}

\* What a call is about to write or show concerns items there are.
Viewed(c) ==
    /\ work[c].new \cup work[c].stale \cup work[c].left \subseteq DOMAIN work[c].view
    /\ pc[c] \notin {"commit"} \cup AskingLabels => work[c].new \cup work[c].stale \cup work[c].left = {}
    /\ pc[c] \in AskingLabels => DOMAIN work[c].view \subseteq DOMAIN item[work[c].session] /\ Paced(c)
    /\ pc[c] = "commit" => DOMAIN work[c].view \subseteq DOMAIN AfterAnswer(c) /\ work[c].left = {}

Typed ==
    /\ TypedRows /\ TypedCalls
    /\ \A q \in shown : Names(q)
    /\ \A a \in Actions : sent[a] # NoReply => Names(sent[a].question)
    /\ \A c \in Calls : Placed(c) /\ Viewed(c)

LEMMA NoWorkIsWork == NoWork \in Work /\ NoWork.session = 0 /\ ~NoWork.held /\ NoWork.new = {} /\ NoWork.stale = {}
                      /\ NoWork.left = {} /\ DOMAIN NoWork.view = {}
<1>1. <<>> \in [{} -> Nat] /\ DOMAIN <<>> = {}
  OBVIOUS
<1>2. <<>> \in Views
  BY <1>1 DEF Views
<1>3. NoSession \in Loaded
  BY DEF NoSession, Loaded
<1> QED
  BY <1>1, <1>2, <1>3 DEF NoWork, Work

\* The question a call answers.
LEMMA AskedIs ==
    ASSUME Typed, NEW c \in Calls, pc[c] \in AnswerLabels
    PROVE  /\ req[c].action \in Actions
           /\ sent[req[c].action] \in Replies
           /\ Asked(c) \in Asking /\ Correct(c) \in BOOLEAN
           /\ Asked(c).session \in DOMAIN session /\ Asked(c).session \in DOMAIN item
           /\ Asked(c).item \in DOMAIN item[Asked(c).session]
           /\ item[Asked(c).session] \in Seq(Items)
           /\ item[Asked(c).session][Asked(c).item] \in Items
           /\ AskedCard(c) \in Cards
<1>1. req[c].action \in Actions /\ sent[req[c].action] # NoReply /\ Names(sent[req[c].action].question)
  BY DEF Typed, Placed
<1>2. sent[req[c].action] \in Replies
  BY <1>1 DEF Typed, TypedCalls
<1>3. Asked(c) \in Asking /\ Correct(c) \in BOOLEAN /\ Names(Asked(c))
  BY <1>1, <1>2 DEF Asked, Correct, Replies
<1>4. DOMAIN item = DOMAIN session /\ Asked(c).session \in DOMAIN item /\ item \in Seq(Seq(Items))
  BY <1>3 DEF Typed, TypedRows, Names
<1>5. item[Asked(c).session] \in Seq(Items)
  BY <1>4
<1>6. item[Asked(c).session][Asked(c).item] \in Items
  BY <1>3, <1>5 DEF Names
<1>7. AskedCard(c) \in Cards
  BY <1>6 DEF AskedCard, Items
<1> QED
  BY <1>1, <1>2, <1>3, <1>4, <1>5, <1>6, <1>7 DEF Names

\* AfterAnswer, of the items, the item answered and whether the answer was right.
Ended(items, i, correct) ==
    LET marked == [items EXCEPT ![i].done = TRUE]
    IN IF ~correct /\ NeedsRepeat(items, i) THEN Append(marked, RepeatOf(items[i].card)) ELSE marked

LEMMA AfterAnswerIsEnded ==
    \A c : AfterAnswer(c) = Ended(item[Asked(c).session], Asked(c).item, Correct(c))
BY DEF AfterAnswer, Ended

\* The item is marked, and there may be a repeat of its card.
LEMMA EndedIs ==
    ASSUME NEW items \in Seq(Items), NEW i \in DOMAIN items, NEW correct \in BOOLEAN
    PROVE  LET after == Ended(items, i, correct)
           IN /\ after \in Seq(Items)
              /\ DOMAIN items = 1..Len(items) /\ DOMAIN items \subseteq DOMAIN after
              /\ \A j \in DOMAIN items : /\ after[j].card = items[j].card
                                         /\ after[j].repeat = items[j].repeat
                                         /\ after[j].done <=> (j = i \/ items[j].done)
              /\ IF ~correct /\ NeedsRepeat(items, i)
                 THEN \E n : /\ n \notin DOMAIN items /\ DOMAIN after = DOMAIN items \cup {n}
                             /\ after[n].card = items[i].card /\ after[n].repeat /\ ~after[n].done
                 ELSE DOMAIN after = DOMAIN items
<1> DEFINE marked == [items EXCEPT ![i].done = TRUE]
           more == RepeatOf(items[i].card)
<1>1. DOMAIN items = 1..Len(items) /\ Len(items) \in Nat /\ \A j \in DOMAIN items : items[j] \in Items
  OBVIOUS
<1>2. Ended(items, i, correct) = IF ~correct /\ NeedsRepeat(items, i) THEN Append(marked, more) ELSE marked
  BY DEF Ended
<1>3. [items[i] EXCEPT !.done = TRUE] \in Items
  BY <1>1 DEF Items
<1>4. DOMAIN marked = DOMAIN items
      /\ \A j \in DOMAIN items : marked[j] = IF j = i THEN [items[j] EXCEPT !.done = TRUE] ELSE items[j]
  BY <1>1
<1>11. \A j \in DOMAIN items : /\ marked[j].card = items[j].card
                               /\ marked[j].repeat = items[j].repeat
                               /\ marked[j].done <=> (j = i \/ items[j].done)
  <2> SUFFICES ASSUME NEW j \in DOMAIN items
               PROVE  /\ marked[j].card = items[j].card
                      /\ marked[j].repeat = items[j].repeat
                      /\ marked[j].done <=> (j = i \/ items[j].done)
    OBVIOUS
  <2>1. CASE j = i
    <3>1. marked[j] = [items[j] EXCEPT !.done = TRUE]
      BY <1>4, <2>1
    <3> QED
      BY <1>1, <2>1, <3>1 DEF Items
  <2>2. CASE j # i
    <3>1. marked[j] = items[j] /\ items[j].done \in BOOLEAN
      BY <1>1, <1>4, <2>2 DEF Items
    <3> QED
      BY <2>2, <3>1
  <2> QED
    BY <2>1, <2>2
<1>5. more \in Items /\ more.card = items[i].card /\ more.repeat /\ ~more.done
  BY <1>1 DEF RepeatOf, Items
<1> HIDE DEF marked, more
<1>6. marked \in Seq(Items) /\ Len(marked) = Len(items)
  <2>1. \A j \in DOMAIN items : marked[j] \in Items
    BY <1>1, <1>3, <1>4
  <2>2. marked \in [1..Len(items) -> Items]
    <3>1. marked = [j \in DOMAIN items |-> marked[j]]
      BY <1>4 DEF marked
    <3> QED
      BY <1>1, <2>1, <3>1
  <2> QED
    BY <1>1, <2>2
<1>7. /\ Append(marked, more) \in Seq(Items)
      /\ Append(marked, more)[Len(items) + 1] = more
      /\ \A j \in 1..Len(items) : Append(marked, more)[j] = marked[j]
      /\ DOMAIN Append(marked, more) = 1..(Len(items) + 1)
  BY <1>1, <1>5, <1>6
<1>8. 1..(Len(items) + 1) = (1..Len(items)) \cup {Len(items) + 1} /\ Len(items) + 1 \notin 1..Len(items)
  BY <1>1
<1>9. CASE ~correct /\ NeedsRepeat(items, i)
  <2>1. Ended(items, i, correct) = Append(marked, more)
    BY <1>2, <1>9
  <2>2. \E n : /\ n \notin DOMAIN items /\ DOMAIN Append(marked, more) = DOMAIN items \cup {n}
              /\ Append(marked, more)[n] = more
    BY <1>1, <1>7, <1>8
  <2>3. \A j \in DOMAIN items : Append(marked, more)[j] = marked[j]
    BY <1>1, <1>7
  <2> QED
    BY <1>1, <1>5, <1>7, <1>9, <1>11, <2>1, <2>2, <2>3
<1>10. CASE ~(~correct /\ NeedsRepeat(items, i))
  <2>1. Ended(items, i, correct) = marked
    BY <1>2, <1>10
  <2> QED
    BY <1>1, <1>4, <1>6, <1>10, <1>11, <2>1
<1> QED
  BY <1>9, <1>10

\* WithQuestions changes nothing but questions.
LEMMA WithQuestionsIs ==
    ASSUME Typed, NEW c \in Calls, NEW items \in Seq(Items)
    PROVE  LET asked == WithQuestions(c, items)
           IN /\ asked \in Seq(Items)
              /\ Len(asked) = Len(items) /\ DOMAIN asked = DOMAIN items
              /\ \A i \in DOMAIN items :
                    /\ asked[i].card = items[i].card
                    /\ asked[i].repeat = items[i].repeat
                    /\ asked[i].done = items[i].done
                    /\ asked[i].question = IF i \in work[c].new \cup work[c].stale
                                           THEN work[c].view[i] ELSE items[i].question
<1> DEFINE asked == WithQuestions(c, items)
           row(i) == IF i \in work[c].new \cup work[c].stale
                     THEN [items[i] EXCEPT !.question = work[c].view[i]]
                     ELSE items[i]
<1>1. asked = [i \in DOMAIN items |-> row(i)]
  BY DEF WithQuestions
<1>2. \A i \in DOMAIN items : items[i] \in Items
  OBVIOUS
<1>3. \A i \in work[c].new \cup work[c].stale : work[c].view[i] \in Nat
  <2>1. work[c] \in Work /\ work[c].new \cup work[c].stale \subseteq DOMAIN work[c].view
    BY DEF Typed, TypedCalls, Viewed
  <2>2. PICK D \in SUBSET Nat : work[c].view \in [D -> Nat]
    BY <2>1 DEF Work, Views
  <2> QED
    BY <2>1, <2>2
<1>4. ASSUME NEW i \in DOMAIN items
      PROVE  /\ row(i) \in Items
             /\ row(i).card = items[i].card
             /\ row(i).repeat = items[i].repeat
             /\ row(i).done = items[i].done
             /\ row(i).question = IF i \in work[c].new \cup work[c].stale
                                  THEN work[c].view[i] ELSE items[i].question
  <2>1. CASE i \in work[c].new \cup work[c].stale
    BY <1>2, <1>3, <2>1 DEF Items
  <2>2. CASE i \notin work[c].new \cup work[c].stale
    BY <1>2, <2>2 DEF Items
  <2> QED
    BY <2>1, <2>2
<1> HIDE DEF row
<1>5. DOMAIN items = 1..Len(items) /\ Len(items) \in Nat
  OBVIOUS
<1>6. asked \in Seq(Items) /\ Len(asked) = Len(items) /\ DOMAIN asked = DOMAIN items
  BY <1>1, <1>4, <1>5
<1> QED
  BY <1>1, <1>4, <1>6

\* What the commit of an answer makes of the items of its session.
LEMMA CommittedItems ==
    ASSUME Typed, NEW c \in Calls, pc[c] = "commit"
    PROVE  LET items == item[Asked(c).session]
               i == Asked(c).item
               after == WithQuestions(c, AfterAnswer(c))
           IN /\ after \in Seq(Items)
              /\ DOMAIN after = DOMAIN AfterAnswer(c)
              /\ DOMAIN items \subseteq DOMAIN after
              /\ \A j \in DOMAIN items : /\ after[j].card = items[j].card
                                         /\ after[j].repeat = items[j].repeat
                                         /\ after[j].done <=> (j = i \/ items[j].done)
              /\ IF ~Correct(c) /\ NeedsRepeat(items, i)
                 THEN \E n : /\ n \notin DOMAIN items /\ DOMAIN after = DOMAIN items \cup {n}
                             /\ after[n].card = items[i].card /\ after[n].repeat /\ ~after[n].done
                 ELSE DOMAIN after = DOMAIN items
<1> DEFINE items == item[Asked(c).session]
           i == Asked(c).item
           ended == AfterAnswer(c)
           after == WithQuestions(c, ended)
<1>1. items \in Seq(Items) /\ i \in DOMAIN items /\ Correct(c) \in BOOLEAN
  BY AskedIs DEF AnswerLabels
<1>2. ended = Ended(items, i, Correct(c))
  BY AfterAnswerIsEnded
<1> HIDE DEF items, i, ended
<1>3. /\ ended \in Seq(Items)
      /\ DOMAIN items \subseteq DOMAIN ended
      /\ \A j \in DOMAIN items : /\ ended[j].card = items[j].card
                                 /\ ended[j].repeat = items[j].repeat
                                 /\ ended[j].done <=> (j = i \/ items[j].done)
      /\ IF ~Correct(c) /\ NeedsRepeat(items, i)
         THEN \E n : /\ n \notin DOMAIN items /\ DOMAIN ended = DOMAIN items \cup {n}
                     /\ ended[n].card = items[i].card /\ ended[n].repeat /\ ~ended[n].done
         ELSE DOMAIN ended = DOMAIN items
  <2> DEFINE correct == Correct(c)
  <2>1. correct \in BOOLEAN /\ ended = Ended(items, i, correct)
    BY <1>1, <1>2
  <2> HIDE DEF correct
  <2>2. /\ ended \in Seq(Items)
        /\ DOMAIN items \subseteq DOMAIN ended
        /\ \A j \in DOMAIN items : /\ ended[j].card = items[j].card
                                   /\ ended[j].repeat = items[j].repeat
                                   /\ ended[j].done <=> (j = i \/ items[j].done)
        /\ IF ~correct /\ NeedsRepeat(items, i)
           THEN \E n : /\ n \notin DOMAIN items /\ DOMAIN ended = DOMAIN items \cup {n}
                       /\ ended[n].card = items[i].card /\ ended[n].repeat /\ ~ended[n].done
           ELSE DOMAIN ended = DOMAIN items
    BY <1>1, <2>1, EndedIs
  <2> QED
    BY <2>2 DEF correct
<1>4. /\ after \in Seq(Items)
      /\ DOMAIN after = DOMAIN ended
      /\ \A j \in DOMAIN ended : /\ after[j].card = ended[j].card
                                 /\ after[j].repeat = ended[j].repeat
                                 /\ after[j].done = ended[j].done
  BY <1>3, WithQuestionsIs
<1> HIDE DEF after
<1>5. \A j \in DOMAIN items : /\ after[j].card = items[j].card
                              /\ after[j].repeat = items[j].repeat
                              /\ after[j].done <=> (j = i \/ items[j].done)
  <2> SUFFICES ASSUME NEW j \in DOMAIN items
               PROVE  /\ after[j].card = items[j].card
                      /\ after[j].repeat = items[j].repeat
                      /\ after[j].done <=> (j = i \/ items[j].done)
    OBVIOUS
  <2>1. after[j].done = ended[j].done /\ ended[j].done <=> (j = i \/ items[j].done)
    BY <1>3, <1>4
  <2> QED
    BY <1>3, <1>4, <2>1
<1>6. ASSUME ~Correct(c), NeedsRepeat(items, i)
      PROVE  \E n : /\ n \notin DOMAIN items /\ DOMAIN after = DOMAIN items \cup {n}
                    /\ after[n].card = items[i].card /\ after[n].repeat /\ ~after[n].done
  <2>1. PICK n : /\ n \notin DOMAIN items /\ DOMAIN ended = DOMAIN items \cup {n}
                 /\ ended[n].card = items[i].card /\ ended[n].repeat /\ ~ended[n].done
    BY <1>3, <1>6
  <2> QED
    BY <1>4, <2>1
<1>7. IF ~Correct(c) /\ NeedsRepeat(items, i)
      THEN \E n : /\ n \notin DOMAIN items /\ DOMAIN after = DOMAIN items \cup {n}
                  /\ after[n].card = items[i].card /\ after[n].repeat /\ ~after[n].done
      ELSE DOMAIN after = DOMAIN items
  BY <1>3, <1>4, <1>6
<1> QED
  BY <1>3, <1>4, <1>5, <1>7 DEF items, i, after, ended

-----------------------------------------------------------------------------
(* What a step leaves alone.                                               *)

StepOf(c) ==
    \/ \E a \in Actions : AnswerAgain(c, a)
    \/ \E a \in Actions, q \in shown, correct \in BOOLEAN : Answer(c, a, q, correct)
    \/ \E r \in Openings \cup {Overview} : Open(c, r)
    \/ Step(c)
    \/ Fail(c)

\* An opening asks its questions.
Asks(c) == LookAtQuestion(c) \/ WriteQuestion(c) \/ ShareRows(c)

LEMMA NextIsStepOf == Next => (\E c \in Calls : StepOf(c)) \/ (\E k \in Cards : EditCard(k))
BY DEF Next, StepOf

\* A call changes nothing of another call.
Own(c) ==
    /\ pc' = [d \in Calls |-> pc'[d]] /\ req' = [d \in Calls |-> req'[d]]
    /\ work' = [d \in Calls |-> work'[d]]
    /\ \A d \in Calls \ {c} : pc'[d] = pc[d] /\ req'[d] = req[d] /\ work'[d] = work[d]
    /\ \A a \in Actions : sent[a] # NoReply => sent'[a] = sent[a]

USE DEF Labels, AnswerLabels, RefreshLabels, OpenLabels, AskingLabels

LEMMA CallsAreApart ==
    ASSUME Typed, NEW c \in Calls, StepOf(c)
    PROVE  Own(c) /\ UNCHANGED card
<1> USE DEF GoTo, End, Own
<1>1. /\ DOMAIN pc = Calls /\ DOMAIN req = Calls /\ DOMAIN work = Calls
      /\ DOMAIN sent = Actions
      /\ pc = [d \in Calls |-> pc[d]] /\ req = [d \in Calls |-> req[d]]
      /\ work = [d \in Calls |-> work[d]]
  BY DEF Typed, TypedCalls
<1>2. CASE \E a \in Actions : AnswerAgain(c, a)
  BY <1>1, <1>2 DEF AnswerAgain, db
<1>3. CASE \E a \in Actions, q \in shown, correct \in BOOLEAN : Answer(c, a, q, correct)
  BY <1>1, <1>3 DEF Answer, db
<1>4. CASE \E r \in Openings \cup {Overview} : Open(c, r)
  BY <1>1, <1>4 DEF Open, db
<1>5. CASE Fail(c)
  BY <1>1, <1>5 DEF Fail, db
<1>6. CASE LookUp(c) \/ Insert(c)
  BY <1>1, <1>6 DEF LookUp, Insert, db
<1>7. CASE LockSession(c) \/ LockCard(c) \/ LockQuestion(c)
  BY <1>1, <1>7 DEF LockSession, LockCard, LockQuestion, Decline, db
<1>8. CASE AskNext(c) \/ Commit(c)
  BY <1>1, <1>8 DEF AskNext, Commit, AskFor, db
<1>9. CASE Read(c) \/ CountItems(c) \/ CountReviewed(c) \/ FindPending(c)
  BY <1>1, <1>9 DEF Read, CountItems, CountReviewed, FindPending, Refresh, db
<1>10. CASE Flush(c) \/ Decide(c) \/ Abandon(c)
  BY <1>1, <1>10 DEF Flush, Decide, Abandon, db
<1>11. CASE Create(c) \/ Return(c)
  BY <1>1, <1>11 DEF Create, Return, db
<1>12. CASE Asks(c)
  BY <1>1, <1>12 DEF Asks, LookAtQuestion, WriteQuestion, ShareRows, db
<1> QED
  BY <1>2, <1>3, <1>4, <1>5, <1>6, <1>7, <1>8, <1>9, <1>10, <1>11, <1>12 DEF StepOf, Step, Asks

\* Of what matters here, Written changes the status of the session, if that has changed.
LEMMA WrittenIs ==
    ASSUME Typed, NEW c \in Calls
    PROVE  /\ Written(c) \in Seq(Row)
           /\ Len(Written(c)) = Len(session) /\ DOMAIN Written(c) = DOMAIN session
           /\ \A s \in DOMAIN session :
                 Written(c)[s].status =
                    IF s = work[c].session /\ work[c].row.status # work[c].loaded.status
                    THEN work[c].row.status ELSE session[s].status
<1> DEFINE row == work[c].row
           new(s) == [f \in DOMAIN session[s] |->
                         IF f \in Changed(c) THEN row[f] ELSE session[s][f]]
<1>1. session \in Seq(Row) /\ DOMAIN session = 1..Len(session) /\ Len(session) \in Nat
      /\ \A s \in DOMAIN session : session[s] \in Row
  BY DEF Typed, TypedRows
<1>2. row \in Loaded /\ work[c].loaded \in Loaded
  BY DEF Typed, TypedCalls, Work
<1>3. work[c].session \in DOMAIN session => row.status # "none"
  <2>1. 0 \notin DOMAIN session
    BY <1>1
  <2> QED
    BY <2>1 DEF Typed, Placed
<1>4. Changed(c) \subseteq {"status", "total", "reviewed"}
      /\ ("status" \in Changed(c) <=> row.status # work[c].loaded.status)
  BY <1>2 DEF Changed, Loaded
<1> HIDE DEF row
<1>5. ASSUME NEW s \in DOMAIN session, s = work[c].session
      PROVE  /\ new(s) \in Row
             /\ new(s).status = IF row.status # work[c].loaded.status THEN row.status ELSE session[s].status
  BY <1>1, <1>2, <1>3, <1>4, <1>5 DEF Row, Loaded
<1>6. Written(c) = [s \in DOMAIN session |-> IF s = work[c].session THEN new(s) ELSE session[s]]
  BY DEF Written, row
<1> HIDE DEF new
<1>7. \A s \in DOMAIN session : Written(c)[s] \in Row
  BY <1>1, <1>5, <1>6
<1>8. Written(c) \in Seq(Row) /\ Len(Written(c)) = Len(session) /\ DOMAIN Written(c) = DOMAIN session
  <2>1. Written(c) \in [1..Len(session) -> Row]
    BY <1>1, <1>6, <1>7
  <2> QED
    BY <1>1, <2>1
<1>9. ASSUME NEW s \in DOMAIN session
      PROVE  Written(c)[s].status =
                IF s = work[c].session /\ row.status # work[c].loaded.status
                THEN row.status ELSE session[s].status
  BY <1>5, <1>6
<1> QED
  BY <1>8, <1>9 DEF row

\* What a step can do to sessions, items and answers: nothing, ...
SameItems ==
    /\ item' \in Seq(Seq(Items)) /\ DOMAIN item' = DOMAIN item /\ Len(item') = Len(item)
    /\ \A s \in DOMAIN item :
          /\ DOMAIN item'[s] = DOMAIN item[s]
          /\ \A i \in DOMAIN item[s] : /\ item'[s][i].card = item[s][i].card
                                       /\ item'[s][i].repeat = item[s][i].repeat
                                       /\ item'[s][i].done <=> item[s][i].done

\* ... write what has changed of a session, ...
Writes(c) ==
    /\ pc[c] \in {"flush", "create", "look"}
    /\ session' = Written(c)
    /\ SameItems
    /\ pc[c] = "flush" /\ Changed(c) # {} => SessionIsFree(c, work[c].session)
    /\ UNCHANGED <<rows, log>>

\* ... create a session, ...
Creates(c) ==
    /\ pc[c] = "create"
    /\ OtherActive(c) = {}
    /\ \E cs \in Selections :
          /\ session' = Append(Written(c), [type |-> req[c].type, status |-> "active",
                                            total |-> Len(cs), reviewed |-> 0])
          /\ item' = Append(item, FirstItems(cs))
    /\ UNCHANGED <<rows, log>>

\* ... or commit an answer.
Commits(c) == Commit(c) /\ ~QuestionIsThere(c, Asked(c).session)

LEMMA ReturnItems ==
    ASSUME Typed, NEW c \in Calls, pc[c] = "look",
           item' = [item EXCEPT ![work[c].session] = WithQuestions(c, item[work[c].session])]
    PROVE  SameItems
<1> DEFINE s == work[c].session
           asked == WithQuestions(c, item[s])
<1>1. item \in Seq(Seq(Items)) /\ s \in DOMAIN item /\ item[s] \in Seq(Items)
  <2>1. s # 0 /\ s \in DOMAIN session /\ DOMAIN session = DOMAIN item /\ item \in Seq(Seq(Items))
    BY DEF Typed, TypedRows, Placed
  <2> QED
    BY <2>1
<1>2. /\ asked \in Seq(Items) /\ DOMAIN asked = DOMAIN item[s]
      /\ \A i \in DOMAIN item[s] : /\ asked[i].card = item[s][i].card
                                   /\ asked[i].repeat = item[s][i].repeat
                                   /\ asked[i].done = item[s][i].done
  BY <1>1, WithQuestionsIs
<1> HIDE DEF asked, s
<1>3. item' = [item EXCEPT ![s] = asked]
  BY DEF s, asked
<1>4. /\ DOMAIN item = 1..Len(item) /\ Len(item) \in Nat /\ DOMAIN item' = DOMAIN item
      /\ item'[s] = asked /\ \A t \in DOMAIN item \ {s} : item'[t] = item[t]
      /\ \A t \in DOMAIN item : item[t] \in Seq(Items)
  BY <1>1, <1>3
<1>5. item' \in Seq(Seq(Items)) /\ Len(item') = Len(item)
  <2>1. \A t \in DOMAIN item : item'[t] \in Seq(Items)
    BY <1>2, <1>4
  <2>2. item' = [t \in DOMAIN item |-> item'[t]]
    BY <1>3
  <2>3. item' \in [1..Len(item) -> Seq(Items)]
    BY <1>4, <2>1, <2>2
  <2> QED
    BY <1>4, <2>3
<1>6. ASSUME NEW t \in DOMAIN item
      PROVE  /\ DOMAIN item'[t] = DOMAIN item[t]
             /\ \A i \in DOMAIN item[t] : /\ item'[t][i].card = item[t][i].card
                                          /\ item'[t][i].repeat = item[t][i].repeat
                                          /\ item'[t][i].done <=> item[t][i].done
  BY <1>2, <1>4
<1> QED
  BY <1>4, <1>5, <1>6 DEF SameItems

LEMMA StepEffects ==
    ASSUME Typed, NEW c \in Calls, StepOf(c)
    PROVE  UNCHANGED <<session, item, log>> \/ Writes(c) \/ Creates(c) \/ Commits(c)
<1>1. item' = item => SameItems
  BY DEF Typed, TypedRows, SameItems
<1>2. CASE \/ \E a \in Actions : AnswerAgain(c, a)
           \/ \E a \in Actions, q \in shown, correct \in BOOLEAN : Answer(c, a, q, correct)
           \/ \E r \in Openings \cup {Overview} : Open(c, r)
           \/ Fail(c)
  BY <1>2 DEF AnswerAgain, Answer, Open, Fail, db
<1>3. CASE LookUp(c) \/ Insert(c) \/ LockSession(c) \/ LockCard(c) \/ LockQuestion(c) \/ AskNext(c)
  BY <1>3 DEF LookUp, Insert, LockSession, LockCard, LockQuestion, AskNext, db
<1>4. CASE Commit(c)
  BY <1>4 DEF Commit, Commits, db
<1>5. CASE \/ Read(c) \/ CountItems(c) \/ CountReviewed(c) \/ FindPending(c) \/ Decide(c)
           \/ Abandon(c) \/ Asks(c)
  BY <1>5 DEF Read, CountItems, CountReviewed, FindPending, Refresh, Decide, Abandon, Asks, LookAtQuestion, WriteQuestion, ShareRows, db
<1>6. CASE Flush(c)
  BY <1>1, <1>6 DEF Flush, Writes
<1>7. CASE Create(c)
  BY <1>1, <1>7 DEF Create, Writes, Creates
<1>8. CASE Return(c)
  <2>1. /\ item' = [item EXCEPT ![work[c].session] = WithQuestions(c, item[work[c].session])]
        /\ session' = Written(c) /\ pc[c] = "look" /\ UNCHANGED <<rows, log>>
    BY <1>8 DEF Return
  <2>2. SameItems
    BY <2>1, ReturnItems
  <2> QED
    BY <2>1, <2>2 DEF Writes
<1> QED
  BY <1>2, <1>3, <1>4, <1>5, <1>6, <1>7, <1>8 DEF StepOf, Step, Asks

-----------------------------------------------------------------------------
(* Steps keep the types.                                                   *)

\* Rows are never deleted, and items keep their card; what is answered stays answered.
Grows ==
    /\ DOMAIN session \subseteq DOMAIN session'
    /\ DOMAIN item \subseteq DOMAIN item'
    /\ \A s \in DOMAIN item :
          /\ DOMAIN item[s] \subseteq DOMAIN item'[s]
          /\ \A i \in DOMAIN item[s] : /\ item'[s][i].card = item[s][i].card
                                       /\ item'[s][i].repeat = item[s][i].repeat
                                       /\ item[s][i].done => item'[s][i].done

LEMMA ProgressIs ==
    ASSUME NEW row \in Loaded, NEW items \in Seq(Items)
    PROVE  /\ Progress(row, items) \in Loaded
           /\ Progress(row, items).type = row.type
           /\ Progress(row, items).status =
                 IF \A i \in DOMAIN items : items[i].done THEN "completed" ELSE row.status
<1> DEFINE done == {i \in DOMAIN items : items[i].done}
<1>1. IsFiniteSet(1..Len(items)) /\ DOMAIN items = 1..Len(items) /\ Len(items) \in Nat
  BY FS_Interval
<1>2. Cardinality(done) \in Nat
  BY <1>1, FS_Subset, FS_CardinalityType
<1> QED
  BY <1>1, <1>2 DEF Progress, Loaded

\* The session an answer completes or carries on.
LEMMA CommitWrites ==
    ASSUME Typed, NEW c \in Calls, Commits(c)
    PROVE  LET q == Asked(c)
               after == WithQuestions(c, AfterAnswer(c))
               progress == Progress(session[q.session], AfterAnswer(c))
           IN /\ q.session \in DOMAIN session /\ q.session \in DOMAIN item
              /\ q.item \in DOMAIN item[q.session]
              /\ after \in Seq(Items) /\ progress \in Row
              /\ DOMAIN session' = DOMAIN session /\ DOMAIN item' = DOMAIN item
              /\ Len(item') = Len(item) /\ Len(session') = Len(session)
              /\ session'[q.session] = progress /\ item'[q.session] = after
              /\ \A s \in DOMAIN item \ {q.session} : item'[s] = item[s] /\ session'[s] = session[s]
              /\ progress.status = IF \A i \in DOMAIN after : after[i].done
                                   THEN "completed" ELSE session[q.session].status
<1> DEFINE s == Asked(c).session
           ended == AfterAnswer(c)
           after == WithQuestions(c, ended)
           progress == Progress(session[s], ended)
<1>1. pc[c] = "commit" /\ pc[c] \in AnswerLabels
  BY DEF Commits, Commit
<1>2. s \in DOMAIN session /\ s \in DOMAIN item /\ Asked(c).item \in DOMAIN item[s]
      /\ item[s] \in Seq(Items) /\ Correct(c) \in BOOLEAN
  BY <1>1, AskedIs
<1>3. ended \in Seq(Items)
  <2>1. ended = Ended(item[s], Asked(c).item, Correct(c))
    BY AfterAnswerIsEnded
  <2> QED
    BY <1>2, <2>1, EndedIs
<1>4. session' = [session EXCEPT ![s] = progress] /\ item' = [item EXCEPT ![s] = after]
  BY DEF Commits, Commit
<1>5. /\ after \in Seq(Items) /\ DOMAIN after = DOMAIN ended
      /\ \A i \in DOMAIN ended : after[i].done = ended[i].done
  BY <1>3, WithQuestionsIs
<1> HIDE DEF s, ended, after, progress
<1>6. session \in Seq(Row) /\ item \in Seq(Seq(Items)) /\ Len(item) = Len(session) /\ session[s] \in Row
  BY <1>2 DEF Typed, TypedRows
<1>7. session[s] \in Loaded
  BY <1>6 DEF Row, Loaded
<1>8. /\ progress \in Loaded
      /\ progress.type = session[s].type
      /\ progress.status = IF \A i \in DOMAIN ended : ended[i].done THEN "completed" ELSE session[s].status
  BY <1>3, <1>7, ProgressIs DEF progress
<1>9. progress \in Row
  BY <1>6, <1>8 DEF Row, Loaded
<1>10. progress.status = IF \A i \in DOMAIN after : after[i].done THEN "completed" ELSE session[s].status
  BY <1>5, <1>8
<1>11. /\ DOMAIN session' = DOMAIN session /\ DOMAIN item' = DOMAIN item
       /\ session'[s] = progress /\ item'[s] = after
       /\ \A t \in DOMAIN item \ {s} : item'[t] = item[t] /\ session'[t] = session[t]
  BY <1>2, <1>4, <1>6
<1>12. Len(item') = Len(item) /\ Len(session') = Len(session)
  BY <1>4, <1>6
<1> QED
  BY <1>2, <1>5, <1>9, <1>10, <1>11, <1>12 DEF s, after, ended, progress

\* A new session: its items have to be answered, and are no repeats.
LEMMA CreateWrites ==
    ASSUME Typed, NEW c \in Calls, Creates(c)
    PROVE  LET n == Len(session) + 1
           IN /\ session' \in Seq(Row) /\ item' \in Seq(Seq(Items))
              /\ DOMAIN session = DOMAIN item /\ n \notin DOMAIN session
              /\ DOMAIN session' = DOMAIN session \cup {n} /\ DOMAIN item' = DOMAIN session'
              /\ Len(item') = Len(session')
              /\ session'[n].status = "active" /\ item'[n] \in Seq(Items) /\ DOMAIN item'[n] # {}
              /\ \A i \in DOMAIN item'[n] : ~item'[n][i].done /\ ~item'[n][i].repeat
              /\ \A s \in DOMAIN session : item'[s] = item[s] /\ session'[s] = Written(c)[s]
              /\ \A s \in DOMAIN session : session'[s].status # "active"
<1> DEFINE n == Len(session) + 1
<1>1. PICK cs \in Selections :
          /\ session' = Append(Written(c), [type |-> req[c].type, status |-> "active",
                                            total |-> Len(cs), reviewed |-> 0])
          /\ item' = Append(item, FirstItems(cs))
  BY DEF Creates
<1> DEFINE row == [type |-> req[c].type, status |-> "active", total |-> Len(cs), reviewed |-> 0]
           first == FirstItems(cs)
<1>2. session \in Seq(Row) /\ item \in Seq(Seq(Items)) /\ Len(item) = Len(session) /\ Len(session) \in Nat
  BY DEF Typed, TypedRows
<1>3. cs \in Seq(Cards) /\ cs # <<>> /\ DOMAIN cs = 1..Len(cs) /\ Len(cs) \in Nat /\ 1 \in DOMAIN cs
  BY ReviewAssumption
<1>4. req[c] \in Openings /\ req[c].type \in Types
  BY ReviewAssumption DEF Typed, Placed, Creates
<1>5. row \in Row
  BY <1>3, <1>4 DEF Row
<1>6. /\ first \in Seq(Items) /\ DOMAIN first = DOMAIN cs
      /\ \A i \in DOMAIN cs : ~first[i].done /\ ~first[i].repeat
  <2> DEFINE new(i) == [card |-> cs[i], repeat |-> FALSE, done |-> FALSE, question |-> card[cs[i]].version]
  <2>1. first = [i \in DOMAIN cs |-> new(i)]
    BY DEF FirstItems
  <2>2. \A i \in DOMAIN cs : new(i) \in Items /\ ~new(i).done /\ ~new(i).repeat
    <3> SUFFICES ASSUME NEW i \in DOMAIN cs PROVE new(i) \in Items /\ ~new(i).done /\ ~new(i).repeat
      OBVIOUS
    <3>1. cs[i] \in Cards /\ card[cs[i]].version \in Nat
      BY <1>3 DEF Typed, TypedRows
    <3> QED
      BY <3>1 DEF Items
  <2> HIDE DEF new, first
  <2> QED
    BY <1>3, <2>1, <2>2
<1>7. Written(c) \in Seq(Row) /\ Len(Written(c)) = Len(session)
  BY WrittenIs
<1>8. session' = Append(Written(c), row) /\ item' = Append(item, first)
  BY <1>1
<1>9. row.status = "active"
  OBVIOUS
<1> HIDE DEF row, first
<1>10. /\ session' \in Seq(Row) /\ Len(session') = n /\ session'[n] = row
       /\ \A s \in 1..Len(session) : session'[s] = Written(c)[s]
  BY <1>2, <1>5, <1>7, <1>8
<1>11. /\ item' \in Seq(Seq(Items)) /\ Len(item') = n /\ item'[n] = first
       /\ \A s \in 1..Len(session) : item'[s] = item[s]
  BY <1>2, <1>6, <1>8
<1>12. /\ DOMAIN session = 1..Len(session) /\ DOMAIN item = DOMAIN session
       /\ DOMAIN session' = 1..n /\ DOMAIN item' = 1..n
       /\ 1..n = (1..Len(session)) \cup {n} /\ n \notin 1..Len(session)
  BY <1>2, <1>10, <1>11
<1>13. \A s \in DOMAIN session : Written(c)[s].status # "active"
  BY DEF Creates, OtherActive
<1> QED
  BY <1>3, <1>6, <1>9, <1>10, <1>11, <1>12, <1>13

LEMMA SameItemsGrow == SameItems /\ DOMAIN session \subseteq DOMAIN session' => Grows
BY DEF SameItems, Grows

LEMMA CallsGrow ==
    ASSUME Typed, NEW c \in Calls, StepOf(c)
    PROVE  Grows /\ session' \in Seq(Row) /\ item' \in Seq(Seq(Items)) /\ Len(item') = Len(session')
<1>1. session \in Seq(Row) /\ item \in Seq(Seq(Items)) /\ Len(item) = Len(session)
  BY DEF Typed, TypedRows
<1>2. CASE UNCHANGED <<session, item, log>>
  BY <1>1, <1>2 DEF Grows
<1>3. CASE Writes(c)
  <2>1. session' \in Seq(Row) /\ Len(session') = Len(session) /\ DOMAIN session' = DOMAIN session
    BY <1>3, WrittenIs DEF Writes
  <2> QED
    BY <1>1, <1>3, <2>1, SameItemsGrow DEF Writes, SameItems
<1>4. CASE Creates(c)
  BY <1>1, <1>4, CreateWrites DEF Grows
<1>5. CASE Commits(c)
  <2> DEFINE s == Asked(c).session
             after == WithQuestions(c, AfterAnswer(c))
             progress == Progress(session[s], AfterAnswer(c))
  <2>1. /\ s \in DOMAIN session /\ s \in DOMAIN item
        /\ after \in Seq(Items) /\ progress \in Row
        /\ DOMAIN session' = DOMAIN session /\ DOMAIN item' = DOMAIN item
        /\ Len(item') = Len(item) /\ Len(session') = Len(session)
        /\ session'[s] = progress /\ item'[s] = after
        /\ \A t \in DOMAIN item \ {s} : item'[t] = item[t] /\ session'[t] = session[t]
        /\ session' = [session EXCEPT ![s] = progress] /\ item' = [item EXCEPT ![s] = after]
    BY <1>5, CommitWrites DEF Commits, Commit
  <2>2. /\ DOMAIN item[s] \subseteq DOMAIN after
        /\ \A j \in DOMAIN item[s] : /\ after[j].card = item[s][j].card
                                     /\ after[j].repeat = item[s][j].repeat
                                     /\ item[s][j].done => after[j].done
    BY <1>5, CommittedItems DEF Commits, Commit
  <2> HIDE DEF s, after, progress
  <2>3. Grows
    BY <2>1, <2>2 DEF Grows
  <2>4. DOMAIN item = DOMAIN session /\ DOMAIN session = 1..Len(session) /\ Len(session) \in Nat
        /\ \A t \in DOMAIN item : session[t] \in Row /\ item[t] \in Seq(Items)
    BY <1>1
  <2>5. \A t \in DOMAIN item : session'[t] \in Row /\ item'[t] \in Seq(Items)
    BY <2>1, <2>4
  <2>6. session' = [t \in 1..Len(session) |-> session'[t]] /\ item' = [t \in 1..Len(session) |-> item'[t]]
    BY <2>1, <2>4
  <2>7. session' \in [1..Len(session) -> Row] /\ item' \in [1..Len(session) -> Seq(Items)]
    BY <2>4, <2>5, <2>6
  <2> QED
    BY <1>1, <2>1, <2>3, <2>4, <2>7
<1> QED
  BY <1>2, <1>3, <1>4, <1>5, StepEffects

LEMMA NextGrows == Typed /\ Next => Grows
<1> SUFFICES ASSUME Typed, Next PROVE Grows
  OBVIOUS
<1>1. CASE \E k \in Cards : EditCard(k)
  BY <1>1 DEF EditCard, Grows
<1> QED
  BY <1>1, CallsGrow, NextIsStepOf

\* rows: at most the row of the call's own action.
LEMMA CallsKeepRows ==
    ASSUME Typed, NEW c \in Calls, StepOf(c)
    PROVE  /\ rows' \in [Actions -> {"none", "succeeded", "ignored", "failed"}]
           /\ \/ UNCHANGED rows
              \/ /\ HoldsAction(c) /\ pc'[c] = "done"
                 /\ \A a \in Actions \ {req[c].action} : rows'[a] = rows[a]
                 /\ rows'[req[c].action] = "succeeded" <=> Commits(c)
           /\ Commits(c) => rows'[req[c].action] = "succeeded" /\ HoldsAction(c)
<1> USE DEF HoldsAction
<1>1. rows \in [Actions -> {"none", "succeeded", "ignored", "failed"}] /\ pc \in [Calls -> Labels]
  BY DEF Typed, TypedRows, TypedCalls
<1>2. CASE \/ \E a \in Actions : AnswerAgain(c, a)
           \/ \E a \in Actions, q \in shown, correct \in BOOLEAN : Answer(c, a, q, correct)
           \/ \E r \in Openings \cup {Overview} : Open(c, r)
  <2>1. UNCHANGED rows /\ pc[c] = "idle"
    BY <1>2 DEF AnswerAgain, Answer, Open, db
  <2> QED
    BY <1>1, <2>1 DEF Commits, Commit
<1>3. CASE Fail(c)
  <2>1. UNCHANGED rows /\ UNCHANGED log
    BY <1>3 DEF Fail, db
  <2>2. ~Commits(c)
    <3>1. log \in Seq(Logged)
      BY DEF Typed, TypedRows
    <3>2. Commits(c) => \E e : log' = Append(log, e)
      BY DEF Commits, Commit
    <3> QED
      BY <2>1, <3>1, <3>2
  <2> QED
    BY <1>1, <2>1, <2>2
<1>4. CASE LookUp(c) \/ Insert(c) \/ AskNext(c) \/ Read(c) \/ CountItems(c) \/ CountReviewed(c)
           \/ FindPending(c) \/ Flush(c) \/ Decide(c) \/ Abandon(c) \/ Create(c) \/ Asks(c)
           \/ Return(c)
  <2>1. UNCHANGED rows /\ pc[c] # "commit"
    BY <1>4 DEF LookUp, Insert, AskNext, Read, CountItems, CountReviewed, FindPending, Refresh, Flush,
                Decide, Abandon, Create, Asks, LookAtQuestion, WriteQuestion, ShareRows, Return, db
  <2> QED
    BY <1>1, <2>1 DEF Commits, Commit
<1>5. CASE LockSession(c) \/ LockCard(c) \/ LockQuestion(c)
  <2>1. pc[c] \in {"session", "card", "question"} /\ req[c].action \in Actions
    BY <1>5, AskedIs DEF LockSession, LockCard, LockQuestion
  <2>2. \/ UNCHANGED rows
        \/ Decline(c, "ignored") \/ Decline(c, "failed")
    BY <1>5 DEF LockSession, LockCard, LockQuestion
  <2> QED
    BY <1>1, <2>1, <2>2 DEF Decline, GoTo, Commits, Commit
<1>6. CASE Commit(c)
  <2>1. pc[c] = "commit" /\ req[c].action \in Actions
    BY <1>6, AskedIs DEF Commit
  <2>2. CASE QuestionIsThere(c, Asked(c).session)
    BY <1>1, <1>6, <2>2 DEF Commit, Commits, db
  <2>3. CASE ~QuestionIsThere(c, Asked(c).session)
    BY <1>1, <1>6, <2>1, <2>3 DEF Commit, Commits, End, GoTo
  <2> QED
    BY <2>2, <2>3
<1> QED
  BY <1>2, <1>3, <1>4, <1>5, <1>6 DEF StepOf, Step, Asks

LEMMA CommitLogs ==
    ASSUME Typed, NEW c \in Calls, Commits(c)
    PROVE  LET q == Asked(c)
               entry == [action |-> req[c].action, correct |-> Correct(c),
                         question |-> [q EXCEPT !.version = item[q.session][q.item].question]]
           IN /\ entry \in Logged /\ log' = Append(log, entry) /\ log' \in Seq(Logged)
              /\ entry.question.session = q.session /\ entry.question.item = q.item
              /\ entry.question.version = item[q.session][q.item].question
<1> DEFINE q == Asked(c)
           asked == [q EXCEPT !.version = item[q.session][q.item].question]
           entry == [action |-> req[c].action, correct |-> Correct(c), question |-> asked]
<1>1. pc[c] \in AnswerLabels
  BY DEF Commits, Commit
<1>2. req[c].action \in Actions /\ q \in Asking /\ Correct(c) \in BOOLEAN
      /\ item[q.session][q.item] \in Items
  BY <1>1, AskedIs
<1>3. log' = Append(log, entry)
  BY DEF Commits, Commit
<1>4. log \in Seq(Logged)
  BY DEF Typed, TypedRows
<1>5. item[q.session][q.item].question \in Nat
  BY <1>2 DEF Items
<1> HIDE DEF q
<1>6. asked \in Asking /\ asked.session = q.session /\ asked.item = q.item
      /\ asked.version = item[q.session][q.item].question
  BY <1>2, <1>5 DEF Asking
<1>7. entry \in Logged
  BY <1>2, <1>6 DEF Logged
<1>8. entry.question.session = q.session /\ entry.question.item = q.item
      /\ entry.question.version = item[q.session][q.item].question
  BY <1>6
<1> HIDE DEF entry, asked
<1>9. log' \in Seq(Logged)
  BY <1>3, <1>4, <1>7
<1> QED
  BY <1>3, <1>7, <1>8, <1>9 DEF q, asked, entry

LEMMA RowsStayTyped == Typed /\ Next => TypedRows'
<1> SUFFICES ASSUME Typed, Next PROVE TypedRows'
  OBVIOUS
<1>1. ASSUME NEW c \in Calls, StepOf(c) PROVE TypedRows'
  <2>1. UNCHANGED card
    BY <1>1, CallsAreApart
  <2>2. log' \in Seq(Logged)
    <3>1. log \in Seq(Logged)
      BY DEF Typed, TypedRows
    <3>2. UNCHANGED log \/ Commits(c)
      BY <1>1, StepEffects DEF Writes, Creates
    <3>3. Commits(c) => log' \in Seq(Logged)
      BY <1>1, CommitLogs
    <3> QED
      BY <3>1, <3>2, <3>3
  <2> QED
    BY <1>1, <2>1, <2>2, CallsGrow, CallsKeepRows DEF Typed, TypedRows
<1>2. ASSUME NEW k \in Cards, EditCard(k) PROVE TypedRows'
  BY <1>2 DEF EditCard, Typed, TypedRows
<1> QED
  BY <1>1, <1>2, NextIsStepOf

LEMMA AskForIs ==
    ASSUME work \in [Calls -> Work], NEW c \in Calls, NEW items, NEW i \in Nat, NEW version \in Nat,
           AskFor(c, items, i, version)
    PROVE  /\ work'[c] \in Work
           /\ work'[c].session = work[c].session /\ work'[c].held = work[c].held
           /\ work'[c].left = work[c].left
           /\ DOMAIN work'[c].view = {i} /\ work'[c].new \cup work'[c].stale \subseteq {i}
<1> DEFINE view == [j \in {i} |-> version]
           new == {j \in {i} : IsNew(items[j])}
           stale == {j \in {i} : IsStale(items[j], version)}
<1>1. work'[c] = [work[c] EXCEPT !.view = view, !.new = new, !.stale = stale]
  BY DEF AskFor
<1>2. view \in [{i} -> Nat] /\ {i} \in SUBSET Nat /\ DOMAIN view = {i}
  OBVIOUS
<1>3. view \in Views
  BY <1>2 DEF Views
<1>4. new \subseteq {i} /\ stale \subseteq {i}
  OBVIOUS
<1> HIDE DEF new, stale, view
<1>5. work[c] \in Work /\ new \in SUBSET Nat /\ stale \in SUBSET Nat
  BY <1>4
<1>6. /\ work'[c] \in Work
      /\ work'[c].session = work[c].session /\ work'[c].held = work[c].held
      /\ work'[c].left = work[c].left
      /\ work'[c].view = view /\ work'[c].new = new /\ work'[c].stale = stale
  BY <1>1, <1>3, <1>5 DEF Work
<1> QED
  BY <1>2, <1>4, <1>6

\* What Typed says of the call that takes the step.
Calm(c) == /\ pc'[c] \in Labels
           /\ req'[c] \in {NoRequest, Overview} \cup Openings \cup [kind : {"answer"}, action : Actions]
           /\ work'[c] \in Work
           /\ Placed(c)' /\ Viewed(c)'

LEMMA Frame ==
    ASSUME Typed, NEW c \in Calls
    PROVE  /\ \A l : GoTo(c, l) => pc'[c] = l
           /\ End(c) => pc'[c] = "done" /\ work'[c] = NoWork
           /\ work[c] \in Work /\ pc[c] \in Labels
           /\ req[c] \in {NoRequest, Overview} \cup Openings \cup [kind : {"answer"}, action : Actions]
BY DEF Typed, TypedCalls, GoTo, End

LEMMA EndIsCalm ==
    ASSUME Typed, NEW c \in Calls, End(c), UNCHANGED req
    PROVE  Calm(c)
<1>1. /\ pc'[c] = "done" /\ work'[c] = NoWork /\ req'[c] = req[c]
      /\ req[c] \in {NoRequest, Overview} \cup Openings \cup [kind : {"answer"}, action : Actions]
  BY Frame
<1>2. Placed(c)'
  BY <1>1, NoWorkIsWork DEF Placed
<1>3. Viewed(c)'
  BY <1>1, NoWorkIsWork DEF Viewed
<1> QED
  BY <1>1, <1>2, <1>3, NoWorkIsWork DEF Calm

\* The locks of an answer are taken one after the other.
LEMMA LocksLead ==
    ASSUME Typed, NEW c \in Calls, LockSession(c) \/ LockCard(c) \/ LockQuestion(c)
    PROVE  /\ UNCHANGED <<card, session, item, log, req, work, shown, sent>>
           /\ Asked(c)' = Asked(c) /\ work[c] = NoWork
           /\ \/ pc[c] = "session" /\ pc'[c] \in {"card", "done"}
              \/ pc[c] = "card" /\ pc'[c] \in {"question", "done"}
              \/ pc[c] = "question" /\ pc'[c] \in {"next", "done"}
           /\ rows' = rows \/ \E status \in {"ignored", "failed"} : Decline(c, status)
<1> USE Frame DEF Decline
<1>1. CASE LockSession(c)
  BY <1>1 DEF LockSession, Asked, Typed, Placed
<1>2. CASE LockCard(c)
  BY <1>2 DEF LockCard, Asked, Typed, Placed
<1>3. CASE LockQuestion(c)
  BY <1>3 DEF LockQuestion, Asked, Typed, Placed
<1> QED
  BY <1>1, <1>2, <1>3

\* An answer up to the item's and the card's locks, and what begins or ends a request.
LEMMA AnswersAreCalm ==
    ASSUME Typed, NEW c \in Calls,
           \/ \E a \in Actions : AnswerAgain(c, a)
           \/ \E a \in Actions, q \in shown, correct \in BOOLEAN : Answer(c, a, q, correct)
           \/ \E r \in Openings \cup {Overview} : Open(c, r)
           \/ LookUp(c) \/ Insert(c) \/ LockSession(c) \/ LockCard(c) \/ LockQuestion(c)
    PROVE  Calm(c)
<1> USE Frame
<1>1. work'[c] = NoWork
  <2>1. pc[c] \in {"idle"} \cup (AnswerLabels \ {"commit"}) /\ UNCHANGED work
    BY LocksLead DEF AnswerAgain, Answer, Open, LookUp, Insert
  <2> QED
    BY <2>1 DEF Typed, Placed
<1>2. Viewed(c)'
  <2>1. pc'[c] \in AnswerLabels \cup {"read", "done"}
    BY LocksLead DEF AnswerAgain, Answer, Open, LookUp, Insert
  <2> QED
    BY <1>1, <2>1, NoWorkIsWork DEF Viewed
<1>3. ASSUME NEW a \in Actions, pc'[c] = "lookUp", req'[c] = [kind |-> "answer", action |-> a],
             sent'[a] # NoReply
      PROVE  Calm(c)
  <2>1. req'[c].action = a /\ req'[c] \in [kind : {"answer"}, action : Actions]
    BY <1>3
  <2> QED
    BY <1>1, <1>2, <1>3, <2>1, NoWorkIsWork DEF Calm, Placed
<1>4. CASE \E a \in Actions : AnswerAgain(c, a)
  <2>1. PICK a \in Actions : AnswerAgain(c, a)
    BY <1>4
  <2>2. pc'[c] = "lookUp" /\ req'[c] = [kind |-> "answer", action |-> a] /\ sent'[a] # NoReply
    BY <2>1 DEF AnswerAgain, Typed, TypedCalls
  <2> QED
    BY <1>3, <2>2
<1>5. CASE \E a \in Actions, q \in shown, correct \in BOOLEAN : Answer(c, a, q, correct)
  <2>1. PICK a \in Actions, q \in shown, correct \in BOOLEAN : Answer(c, a, q, correct)
    BY <1>5
  <2>2. pc'[c] = "lookUp" /\ req'[c] = [kind |-> "answer", action |-> a]
        /\ sent'[a] = [question |-> q, correct |-> correct]
    BY <2>1 DEF Answer, Typed, TypedCalls
  <2>3. [question |-> q, correct |-> correct] # NoReply
    BY DEF NoReply
  <2> QED
    BY <1>3, <2>2, <2>3
<1>6. CASE \E r \in Openings \cup {Overview} : Open(c, r)
  <2>1. pc'[c] = "read" /\ req'[c] \in Openings \cup {Overview}
    BY <1>6 DEF Open, Typed, TypedCalls
  <2> QED
    BY <1>1, <1>2, <2>1, NoWorkIsWork DEF Calm, Placed
<1>7. CASE LookUp(c) \/ Insert(c) \/ LockSession(c) \/ LockCard(c) \/ LockQuestion(c)
  <2>1. /\ pc[c] \in AnswerLabels /\ pc'[c] \in {"insert", "session", "card", "question", "next", "done"}
        /\ UNCHANGED <<req, sent>>
    BY <1>7, LocksLead DEF LookUp, Insert
  <2>2. req[c].action \in Actions /\ sent[req[c].action] # NoReply
    BY <2>1 DEF Typed, Placed
  <2> QED
    BY <1>1, <1>2, <2>1, <2>2, NoWorkIsWork DEF Calm, Placed
<1> QED
  BY <1>4, <1>5, <1>6, <1>7

LEMMA LeastExists == ASSUME NEW S \in SUBSET Nat, S # {} PROVE \E i \in S : \A j \in S : i <= j
<1>1. PICK i \in S : \A j \in S : ~(<<j, i>> \in OpToRel(<, Nat))
  BY NatLessThanWellFounded, WFMin, Zenon
<1>2. \A j \in S : ~(j < i)
  BY <1>1 DEF OpToRel
<1> QED
  BY <1>2

LEMMA AskNextIsCalm ==
    ASSUME Typed, NEW c \in Calls, AskNext(c)
    PROVE  Calm(c)
<1> DEFINE items == AfterAnswer(c)
           open == {i \in DOMAIN items : ~items[i].done}
           next == CHOOSE i \in open : \A j \in open : i <= j
           k == card[items[next].card]
<1> USE Frame
<1>1. pc[c] = "next" /\ UNCHANGED <<db, req, sent>> /\ work[c] = NoWork
      /\ req[c].action \in Actions /\ sent[req[c].action] # NoReply
  BY DEF AskNext, Typed, Placed
<1>2. AfterAnswer(c)' = AfterAnswer(c)
  BY <1>1 DEF AfterAnswer, Asked, Correct, NeedsRepeat, db
<1>3. /\ items = Ended(item[Asked(c).session], Asked(c).item, Correct(c))
      /\ item[Asked(c).session] \in Seq(Items) /\ Asked(c).item \in DOMAIN item[Asked(c).session]
      /\ Correct(c) \in BOOLEAN
  BY <1>1, AskedIs, AfterAnswerIsEnded
<1>4. items \in Seq(Items)
  BY <1>3, EndedIs
<1>5. CASE open = {} /\ GoTo(c, "commit") /\ UNCHANGED work
  <2>1. pc'[c] = "commit" /\ work'[c] = NoWork /\ req'[c] = req[c] /\ sent' = sent
    BY <1>1, <1>5
  <2> QED
    BY <1>1, <2>1, NoWorkIsWork DEF Calm, Placed, Viewed
<1>6. CASE open # {} /\ AskFor(c, items, next, k.version)
  <2> HIDE DEF items
  <2>1. open \in SUBSET Nat
    BY <1>4
  <2>2. next \in open
    <3> HIDE DEF open
    <3>1. \E i \in open : \A j \in open : i <= j
      BY <1>6, <2>1, LeastExists
    <3> QED
      BY <3>1, Zenon
  <2>3. items[next].card \in Cards
    <3> HIDE DEF next
    <3>1. items[next] \in Items
      BY <1>4, <2>2
    <3> QED
      BY <3>1 DEF Items
  <2>4. k.version \in Nat
    BY <2>3 DEF Typed, TypedRows
  <2>5. next \in DOMAIN items /\ next \in Nat
    BY <2>1, <2>2
  <2> HIDE DEF next, k
  <2>6. /\ work'[c] \in Work
        /\ work'[c].session = work[c].session /\ work'[c].held = work[c].held
        /\ work'[c].left = work[c].left
        /\ DOMAIN work'[c].view = {next} /\ work'[c].new \cup work'[c].stale \subseteq {next}
    BY <1>6, <2>4, <2>5, AskForIs DEF Typed, TypedCalls
  <2>7. work'[c].session = 0 /\ ~work'[c].held /\ work'[c].left = {}
    BY <1>1, <2>6, NoWorkIsWork
  <2>8. pc'[c] = "commit" /\ req'[c] = req[c] /\ sent' = sent
    BY <1>1, <1>6 DEF AskFor
  <2>9. Placed(c)'
    BY <1>1, <2>7, <2>8 DEF Placed
  <2>10. DOMAIN work'[c].view \subseteq DOMAIN AfterAnswer(c)'
    BY <1>2, <2>5, <2>6 DEF items
  <2>11. Viewed(c)'
    BY <2>6, <2>7, <2>8, <2>10 DEF Viewed
  <2> QED
    BY <1>1, <2>6, <2>8, <2>9, <2>11 DEF Calm
<1>7. CASE End(c)
  BY <1>1, <1>7, EndIsCalm
<1> QED
  BY <1>5, <1>6, <1>7 DEF AskNext

LEMMA CommitIsCalm ==
    ASSUME Typed, NEW c \in Calls, Commit(c)
    PROVE  Calm(c)
BY EndIsCalm DEF Commit

\* The read of an opening or an overview.
LEMMA ReadIsCalm ==
    ASSUME Typed, NEW c \in Calls, Read(c)
    PROVE  Calm(c)
<1> USE Frame
<1>1. pc[c] = "read" /\ UNCHANGED <<db, req, sent>> /\ work[c] = NoWork /\ req[c] \in Openings \cup {Overview}
  BY DEF Read, Typed, Placed
<1>2. CASE GoTo(c, IF IsOverview(c) THEN "done" ELSE "create") /\ UNCHANGED work
  <2>1. pc'[c] = (IF IsOverview(c) THEN "done" ELSE "create") /\ work'[c] = NoWork /\ req'[c] = req[c]
    BY <1>1, <1>2
  <2> QED
    BY <1>1, <2>1, NoWorkIsWork DEF Calm, Placed, Viewed, IsOverview
<1>3. ASSUME NEW s \in DOMAIN session, session[s].status = "active", GoTo(c, "total"),
             work' = [work EXCEPT ![c].session = s, ![c].loaded = session[s], ![c].row = session[s]]
      PROVE  Calm(c)
  <2>1. session[s] \in Loaded /\ s \in Nat /\ s # 0
    <3>1. session \in Seq(Row)
      BY DEF Typed, TypedRows
    <3>2. session[s] \in Row /\ s \in 1..Len(session) /\ Len(session) \in Nat
      BY <1>3, <3>1
    <3> QED
      BY <3>2 DEF Row, Loaded
  <2>2. work'[c] = [NoWork EXCEPT !.session = s, !.loaded = session[s], !.row = session[s]]
    BY <1>1, <1>3 DEF Typed, TypedCalls
  <2>3. /\ work'[c] \in Work /\ work'[c].session = s /\ work'[c].loaded = session[s]
        /\ work'[c].row = session[s] /\ ~work'[c].held
        /\ work'[c].new = NoWork.new /\ work'[c].stale = NoWork.stale /\ work'[c].left = NoWork.left
    BY <2>1, <2>2, NoWorkIsWork DEF Work
  <2>4. pc'[c] = "total" /\ req'[c] = req[c] /\ session' = session
    BY <1>1, <1>3 DEF db
  <2>5. work'[c].new \cup work'[c].stale \cup work'[c].left = {}
    BY <2>3, NoWorkIsWork
  <2>6. Placed(c)'
    BY <1>1, <1>3, <2>1, <2>3, <2>4 DEF Placed
  <2>7. Viewed(c)'
    BY <2>4, <2>5 DEF Viewed
  <2> QED
    BY <1>1, <2>3, <2>4, <2>6, <2>7 DEF Calm
<1> QED
  BY <1>1, <1>2, <1>3 DEF Read

LEMMA RefreshIsCalm ==
    ASSUME Typed, NEW c \in Calls, NEW label, NEW field, NEW next, Refresh(c, label, field, next),
           \/ label = "total" /\ field = "total" /\ next = "reviewed"
           \/ label = "reviewed" /\ field = "reviewed" /\ next = "pending"
           \/ label = "pending" /\ field = "status" /\ next = "flush"
    PROVE  /\ Calm(c)
           /\ \E value : /\ work' = [work EXCEPT ![c].row[field] = value]
                         /\ value = Progress(work[c].row, item[work[c].session])[field]
<1> DEFINE progress == Progress(work[c].row, item[work[c].session])
<1> USE Frame
<1>1. /\ pc[c] = label /\ pc[c] \in RefreshLabels /\ pc'[c] = next /\ UNCHANGED <<db, req, sent>>
      /\ work' = [work EXCEPT ![c].row[field] = progress[field]]
  BY DEF Refresh
<1>2. /\ work[c].session \in DOMAIN session /\ work[c].session # 0 /\ ~work[c].held
      /\ work[c].loaded.status = "active" /\ work[c].row.status # "none"
      /\ req[c] \in Openings \cup {Overview}
      /\ work[c].new \cup work[c].stale \cup work[c].left = {}
  BY <1>1 DEF Typed, Placed, Viewed
<1>3. item[work[c].session] \in Seq(Items) /\ work[c].row \in Loaded
  BY <1>2 DEF Typed, TypedRows, TypedCalls, Work
<1>4. progress \in Loaded /\ (progress.status = "completed" \/ progress.status = work[c].row.status)
  BY <1>3, ProgressIs
<1> HIDE DEF progress
<1>5. work'[c] = [work[c] EXCEPT !.row = [work[c].row EXCEPT ![field] = progress[field]]]
  BY <1>1 DEF Typed, TypedCalls
<1> DEFINE row == [work[c].row EXCEPT ![field] = progress[field]]
<1>6. row \in Loaded /\ row.status # "none"
  BY <1>2, <1>3, <1>4 DEF Loaded
<1> HIDE DEF row
<1>7. /\ work'[c] \in Work /\ work'[c].session = work[c].session /\ work'[c].loaded = work[c].loaded
      /\ work'[c].row = row /\ work'[c].held = work[c].held
      /\ work'[c].new = work[c].new /\ work'[c].stale = work[c].stale /\ work'[c].left = work[c].left
  <2>1. work'[c] = [work[c] EXCEPT !.row = row] /\ work[c] \in Work
    BY <1>5 DEF row
  <2> QED
    BY <1>6, <2>1 DEF Work
<1>8. pc'[c] \in RefreshLabels /\ req'[c] = req[c] /\ session' = session
  BY <1>1 DEF db
<1>9. Placed(c)'
  BY <1>2, <1>6, <1>7, <1>8 DEF Placed
<1>10. Viewed(c)'
  BY <1>2, <1>7, <1>8 DEF Viewed
<1>11. Calm(c)
  BY <1>7, <1>8, <1>9, <1>10 DEF Calm
<1> QED
  BY <1>1, <1>11 DEF progress

LEMMA FlushIsCalm ==
    ASSUME Typed, NEW c \in Calls, Flush(c)
    PROVE  Calm(c)
<1> USE Frame
<1>1. pc[c] = "flush" /\ UNCHANGED <<item, req, sent>>
      /\ work[c].session # 0 /\ work[c].session \in DOMAIN session
      /\ work[c].loaded.status = "active" /\ work[c].row.status # "none"
      /\ req[c] \in Openings \cup {Overview} /\ work[c].new \cup work[c].stale \cup work[c].left = {}
  BY DEF Flush, Typed, Placed, Viewed
<1>2. CASE IsOverview(c)
  BY <1>2, EndIsCalm DEF Flush
<1>3. CASE ~IsOverview(c)
  <2> DEFINE held == Changed(c) # {}
  <2>1. work' = [work EXCEPT ![c].held = held] /\ pc'[c] = "decide" /\ UNCHANGED session
    BY <1>3 DEF Flush
  <2>2. held \in BOOLEAN
    OBVIOUS
  <2> HIDE DEF held
  <2>3. work'[c] = [work[c] EXCEPT !.held = held]
    BY <2>1 DEF Typed, TypedCalls
  <2>4. /\ work'[c] \in Work /\ work'[c].session = work[c].session /\ work'[c].loaded = work[c].loaded
        /\ work'[c].row = work[c].row /\ work'[c].new = work[c].new /\ work'[c].stale = work[c].stale /\ work'[c].left = work[c].left
    BY <2>2, <2>3 DEF Work
  <2>5. req'[c] = req[c] /\ req[c] \in Openings
    BY <1>1, <1>3 DEF IsOverview
  <2>6. Placed(c)'
    BY <1>1, <2>1, <2>4, <2>5 DEF Placed
  <2>7. Viewed(c)'
    BY <1>1, <2>1, <2>4 DEF Viewed
  <2> QED
    BY <2>1, <2>4, <2>5, <2>6, <2>7 DEF Calm
<1> QED
  BY <1>2, <1>3

\* The decision to return a session leaves what is known of its row.
KeepsRow(c) ==
    /\ work'[c].session = work[c].session /\ work'[c].loaded = work[c].loaded
    /\ work'[c].row = work[c].row /\ work'[c].held = work[c].held
    /\ work'[c].new = work[c].new /\ work'[c].stale = work[c].stale

LEMMA DecideLeads ==
    ASSUME Typed, NEW c \in Calls, Decide(c)
    PROVE  \/ End(c)
           \/ UNCHANGED work /\ pc'[c] \in {"create", "abandon"}
           \/ pc'[c] = "look" /\ KeepsRow(c)
<1> DEFINE view == [i \in Pending(work[c].session) |-> VersionOf(work[c].session, i)]
           left == Pending(work[c].session)
           Goes == work' = [work EXCEPT ![c].view = view, ![c].left = left] /\ GoTo(c, "look")
<1>1. \/ End(c)
      \/ UNCHANGED work /\ (GoTo(c, "create") \/ GoTo(c, "abandon"))
      \/ Goes
  BY DEF Decide
<1> HIDE DEF view, left
<1>2. ASSUME Goes PROVE KeepsRow(c)
  BY <1>2 DEF KeepsRow, Typed, TypedCalls, Work
<1> QED
  BY <1>1, <1>2, Frame

LEMMA DecideIsCalm ==
    ASSUME Typed, NEW c \in Calls, Decide(c)
    PROVE  Calm(c)
<1> DEFINE s == work[c].session
           view == [i \in Pending(s) |-> VersionOf(s, i)]
<1> USE Frame
<1>1. pc[c] = "decide" /\ UNCHANGED <<db, req, sent>>
      /\ s # 0 /\ s \in DOMAIN session /\ req[c] \in Openings
      /\ work[c].loaded.status = "active" /\ work[c].row.status # "none"
      /\ work[c].new \cup work[c].stale \cup work[c].left = {}
  BY DEF Decide, Typed, Placed, Viewed
<1>2. CASE pc'[c] \in {"create", "abandon"} /\ UNCHANGED work
  <2>1. work'[c] = work[c] /\ req'[c] = req[c] /\ session' = session
    BY <1>1, <1>2 DEF db
  <2>2. Placed(c)'
    BY <1>1, <1>2, <2>1 DEF Placed
  <2>3. Viewed(c)'
    BY <1>1, <1>2, <2>1 DEF Viewed
  <2> QED
    BY <1>2, <2>1, <2>2, <2>3 DEF Calm
<1>3. CASE End(c)
  BY <1>1, <1>3, EndIsCalm
<1>4. CASE work' = [work EXCEPT ![c].view = view, ![c].left = Pending(s)] /\ GoTo(c, "look")
  <2>1. item \in Seq(Seq(Items)) /\ s \in DOMAIN item
    BY <1>1 DEF Typed, TypedRows
  <2>2. Pending(s) \in SUBSET Nat /\ Pending(s) \subseteq DOMAIN item[s]
        /\ \A i \in Pending(s) : item[s][i] \in Items
    BY <2>1 DEF Pending, ItemsOf
  <2>3. \A i \in Pending(s) : VersionOf(s, i) \in Nat
    BY <2>2 DEF VersionOf, Items, Typed, TypedRows
  <2>4. view \in [Pending(s) -> Nat] /\ DOMAIN view = Pending(s)
    BY <2>3
  <2>5. view \in Views
    BY <2>2, <2>4 DEF Views
  <2>6. work'[c] = [work[c] EXCEPT !.view = view, !.left = Pending(s)]
    BY <1>4 DEF Typed, TypedCalls
  <2>7. DOMAIN view \subseteq DOMAIN item[s]
    BY <2>2, <2>4
  <2> HIDE DEF view
  <2>8. /\ work'[c] \in Work /\ work'[c].session = s /\ work'[c].loaded = work[c].loaded
        /\ work'[c].row = work[c].row /\ work'[c].new = work[c].new /\ work'[c].stale = work[c].stale
        /\ work'[c].left = Pending(s) /\ work'[c].view = view
    BY <2>2, <2>5, <2>6 DEF Work
  <2>9. pc'[c] = "look" /\ req'[c] = req[c] /\ session' = session /\ item' = item
    BY <1>1, <1>4 DEF db
  <2>12. /\ work'[c].new = {} /\ work'[c].stale = {}
         /\ work'[c].left \subseteq DOMAIN work'[c].view
    BY <1>1, <2>4, <2>8 DEF view
  <2> HIDE DEF s
  <2>10. Placed(c)'
    BY <1>1, <2>8, <2>9 DEF Placed
  <2>11. Viewed(c)'
    BY <1>1, <2>7, <2>8, <2>9, <2>12 DEF Viewed, Paced
  <2> QED
    BY <2>8, <2>9, <2>10, <2>11 DEF Calm
<1> QED
  BY <1>2, <1>3, <1>4 DEF Decide

LEMMA AbandonIsCalm ==
    ASSUME Typed, NEW c \in Calls, Abandon(c)
    PROVE  Calm(c)
<1> USE Frame
<1>1. pc[c] = "abandon" /\ UNCHANGED <<db, req, sent>> /\ pc'[c] = "create"
      /\ work[c].session # 0 /\ work[c].session \in DOMAIN session /\ req[c] \in Openings
      /\ work[c].loaded.status = "active" /\ work[c].new \cup work[c].stale \cup work[c].left = {}
  BY DEF Abandon, Typed, Placed, Viewed
<1> DEFINE row == [work[c].row EXCEPT !.status = "abandoned"]
<1>2. work'[c] = [work[c] EXCEPT !.row = row, !.held = TRUE]
  BY DEF Abandon, Typed, TypedCalls
<1>3. row \in Loaded /\ row.status = "abandoned"
  <2>1. work[c].row \in Loaded
    BY DEF Work
  <2> QED
    BY <2>1 DEF Loaded
<1> HIDE DEF row
<1>4. /\ work'[c] \in Work /\ work'[c].session = work[c].session /\ work'[c].loaded = work[c].loaded
      /\ work'[c].row = row /\ work'[c].new = work[c].new /\ work'[c].stale = work[c].stale /\ work'[c].left = work[c].left
  BY <1>2, <1>3 DEF Work
<1>5. req'[c] = req[c] /\ session' = session
  BY <1>1 DEF db
<1>6. Placed(c)'
  BY <1>1, <1>3, <1>4, <1>5 DEF Placed
<1>7. Viewed(c)'
  BY <1>1, <1>4 DEF Viewed
<1> QED
  BY <1>1, <1>4, <1>5, <1>6, <1>7 DEF Calm

\* What an opening keeps in mind while it looks at questions and writes them.
KeepsAsking(c) ==
    /\ pc[c] \in AskingLabels /\ pc'[c] \in AskingLabels
    /\ UNCHANGED <<db, req, shown, sent>>
    /\ work'[c] \in Work
    /\ work'[c].session = work[c].session /\ work'[c].loaded = work[c].loaded
    /\ work'[c].row = work[c].row /\ work'[c].held = work[c].held
    /\ work'[c].view = work[c].view
    /\ work'[c].new \cup work'[c].stale \cup work'[c].left \subseteq DOMAIN work[c].view
    /\ Paced(c)'

LEMMA LookIs ==
    ASSUME Typed, NEW c \in Calls, LookAtQuestion(c)
    PROVE  KeepsAsking(c)
<1> DEFINE new == work[c].new
           stale == work[c].stale
           left == work[c].left
<1> USE Frame
<1>1. /\ pc[c] = "look" /\ UNCHANGED <<db, req, shown, sent>> /\ work[c] \in Work
      /\ left \in SUBSET Nat /\ new \in SUBSET Nat /\ stale \in SUBSET Nat
      /\ new \cap stale = {} /\ (new \cup stale) \cap left = {}
      /\ \A i \in (new \cup stale) \ left, j \in left : i < j
      /\ new \cup stale \cup left \subseteq DOMAIN work[c].view
  BY DEF LookAtQuestion, Typed, Viewed, Paced, Work
<1>2. PICK i \in FirstOf(left) :
        \/ work' = [work EXCEPT ![c].new = @ \cup {i}] /\ GoTo(c, "write")
        \/ work' = [work EXCEPT ![c].stale = @ \cup {i}] /\ GoTo(c, "write")
        \/ work' = [work EXCEPT ![c].left = @ \ {i}] /\ UNCHANGED pc
  BY DEF LookAtQuestion
<1>3. i \in left /\ i \in Nat /\ \A j \in left : i <= j
  BY <1>1, <1>2 DEF FirstOf
<1>4. CASE work' = [work EXCEPT ![c].new = @ \cup {i}] /\ GoTo(c, "write")
  <2>1. work'[c] = [work[c] EXCEPT !.new = new \cup {i}]
    BY <1>4 DEF Typed, TypedCalls
  <2>2. /\ work'[c] \in Work /\ work'[c].new = new \cup {i} /\ work'[c].stale = stale /\ work'[c].left = left
        /\ work'[c].session = work[c].session /\ work'[c].loaded = work[c].loaded
        /\ work'[c].row = work[c].row /\ work'[c].held = work[c].held /\ work'[c].view = work[c].view
    BY <1>1, <1>3, <2>1 DEF Work
  <2>3. pc'[c] = "write"
    BY <1>4
  <2> HIDE DEF new, stale, left
  <2>4. (new \cup {i}) \cap stale = {} /\ ((new \cup {i}) \cup stale) \cap left = {i}
        /\ \A m \in ((new \cup {i}) \cup stale) \ left, j \in left : m < j
    BY <1>1, <1>3
  <2>5. Paced(c)'
    BY <1>3, <2>2, <2>3, <2>4 DEF Paced
  <2> QED
    <3>1. work'[c].new \cup work'[c].stale \cup work'[c].left \subseteq DOMAIN work[c].view
      BY <1>1, <1>3, <2>2
    <3> QED
      BY <1>1, <2>2, <2>3, <2>5, <3>1 DEF KeepsAsking
<1>5. CASE work' = [work EXCEPT ![c].stale = @ \cup {i}] /\ GoTo(c, "write")
  <2>1. work'[c] = [work[c] EXCEPT !.stale = stale \cup {i}]
    BY <1>5 DEF Typed, TypedCalls
  <2>2. /\ work'[c] \in Work /\ work'[c].new = new /\ work'[c].stale = stale \cup {i} /\ work'[c].left = left
        /\ work'[c].session = work[c].session /\ work'[c].loaded = work[c].loaded
        /\ work'[c].row = work[c].row /\ work'[c].held = work[c].held /\ work'[c].view = work[c].view
    BY <1>1, <1>3, <2>1 DEF Work
  <2>3. pc'[c] = "write"
    BY <1>5
  <2> HIDE DEF new, stale, left
  <2>4. new \cap (stale \cup {i}) = {} /\ (new \cup (stale \cup {i})) \cap left = {i}
        /\ \A m \in (new \cup (stale \cup {i})) \ left, j \in left : m < j
    BY <1>1, <1>3
  <2>5. Paced(c)'
    BY <1>3, <2>2, <2>3, <2>4 DEF Paced
  <2> QED
    <3>1. work'[c].new \cup work'[c].stale \cup work'[c].left \subseteq DOMAIN work[c].view
      BY <1>1, <1>3, <2>2
    <3> QED
      BY <1>1, <2>2, <2>3, <2>5, <3>1 DEF KeepsAsking
<1>6. CASE work' = [work EXCEPT ![c].left = @ \ {i}] /\ UNCHANGED pc
  <2>1. work'[c] = [work[c] EXCEPT !.left = left \ {i}]
    BY <1>6 DEF Typed, TypedCalls
  <2>2. /\ work'[c] \in Work /\ work'[c].new = new /\ work'[c].stale = stale /\ work'[c].left = left \ {i}
        /\ work'[c].session = work[c].session /\ work'[c].loaded = work[c].loaded
        /\ work'[c].row = work[c].row /\ work'[c].held = work[c].held /\ work'[c].view = work[c].view
    BY <1>1, <1>3, <2>1 DEF Work
  <2>3. pc'[c] = "look"
    BY <1>1, <1>6
  <2> HIDE DEF new, stale, left
  <2>4. (new \cup stale) \cap (left \ {i}) = {}
        /\ \A m \in (new \cup stale) \ (left \ {i}), j \in left \ {i} : m < j
    BY <1>1, <1>3
  <2>5. Paced(c)'
    BY <1>1, <2>2, <2>3, <2>4 DEF Paced
  <2> QED
    <3>1. work'[c].new \cup work'[c].stale \cup work'[c].left \subseteq DOMAIN work[c].view
      BY <1>1, <1>3, <2>2
    <3> QED
      BY <1>1, <2>2, <2>3, <2>5, <3>1 DEF KeepsAsking
<1> QED
  BY <1>2, <1>4, <1>5, <1>6

\* The question at hand has been written, or waits for its foreign keys.
LEMMA PassIs ==
    ASSUME Typed, NEW c \in Calls, NEW i, pc[c] \in {"write", "key"},
           i \in work[c].left, i \in work[c].new \cup work[c].stale,
           UNCHANGED <<db, req, shown, sent>>,
           \/ work' = [work EXCEPT ![c].left = @ \ {i}] /\ GoTo(c, "look")
           \/ UNCHANGED work /\ GoTo(c, "key") /\ i \in work[c].new
    PROVE  KeepsAsking(c)
<1> DEFINE made == work[c].new \cup work[c].stale
           left == work[c].left
<1> USE Frame
<1>1. /\ work[c] \in Work /\ left \in SUBSET Nat /\ made \in SUBSET Nat
      /\ made \cap left = {i} /\ \A j \in left : i <= j
      /\ \A m \in made \ left, j \in left : m < j
      /\ work[c].new \cap work[c].stale = {}
      /\ made \cup left \subseteq DOMAIN work[c].view
  BY DEF Typed, Viewed, Paced, Work
<1>2. CASE work' = [work EXCEPT ![c].left = @ \ {i}] /\ GoTo(c, "look")
  <2>1. work'[c] = [work[c] EXCEPT !.left = left \ {i}]
    BY <1>2 DEF Typed, TypedCalls
  <2>2. /\ work'[c] \in Work /\ work'[c].new = work[c].new /\ work'[c].stale = work[c].stale
        /\ work'[c].left = left \ {i}
        /\ work'[c].session = work[c].session /\ work'[c].loaded = work[c].loaded
        /\ work'[c].row = work[c].row /\ work'[c].held = work[c].held /\ work'[c].view = work[c].view
    BY <1>1, <2>1 DEF Work
  <2>3. pc'[c] = "look"
    BY <1>2
  <2>4. work'[c].new \cup work'[c].stale = made
    BY <2>2
  <2> HIDE DEF made, left
  <2>5. made \cap (left \ {i}) = {} /\ \A m \in made \ (left \ {i}), j \in left \ {i} : m < j
    BY <1>1
  <2>6. Paced(c)'
    BY <1>1, <2>2, <2>3, <2>4, <2>5 DEF Paced
  <2>7. work'[c].new \cup work'[c].stale \cup work'[c].left \subseteq DOMAIN work[c].view
    BY <1>1, <2>2, <2>4
  <2> QED
    BY <2>2, <2>3, <2>6, <2>7 DEF KeepsAsking
<1>3. CASE UNCHANGED work /\ GoTo(c, "key") /\ i \in work[c].new
  <2>1. pc'[c] = "key" /\ work'[c] = work[c]
    BY <1>3
  <2>2. Paced(c)'
    BY <1>1, <1>3, <2>1 DEF Paced
  <2>3. work'[c].new \cup work'[c].stale \cup work'[c].left \subseteq DOMAIN work[c].view
    BY <1>1, <2>1 DEF made
  <2> QED
    BY <1>1, <2>1, <2>2, <2>3 DEF KeepsAsking
<1> QED
  BY <1>2, <1>3

LEMMA AsksIs ==
    ASSUME Typed, NEW c \in Calls, Asks(c)
    PROVE  \/ KeepsAsking(c)
           \/ pc[c] = "write" /\ UNCHANGED <<db, req, shown, sent>> /\ End(c)
<1>1. CASE LookAtQuestion(c)
  BY <1>1, LookIs
<1>2. CASE WriteQuestion(c)
  BY <1>2, PassIs DEF WriteQuestion
<1>3. CASE ShareRows(c)
  <2>1. PICK i \in work[c].left \cap work[c].new : work' = [work EXCEPT ![c].left = @ \ {i}]
    BY <1>3 DEF ShareRows
  <2> DEFINE less == [work EXCEPT ![c].left = @ \ {i}]
  <2>2. pc[c] \in {"write", "key"}
    BY <1>3 DEF ShareRows
  <2>3. GoTo(c, "look") /\ UNCHANGED <<db, req, shown, sent>>
    BY <1>3 DEF ShareRows
  <2>4. i \in work[c].left /\ i \in work[c].new \cup work[c].stale
    BY <2>1
  <2>5. work' = less
    BY <2>1
  <2> HIDE DEF less
  <2>6. (work' = less /\ GoTo(c, "look")) \/ (UNCHANGED work /\ GoTo(c, "key") /\ i \in work[c].new)
    BY <2>3, <2>5
  <2>7. KeepsAsking(c)
    BY <2>2, <2>3, <2>4, <2>6, PassIs DEF less
  <2> QED
    BY <2>7
<1> QED
  BY <1>1, <1>2, <1>3 DEF Asks

LEMMA AsksIsCalm ==
    ASSUME Typed, NEW c \in Calls, Asks(c)
    PROVE  Calm(c)
<1>1. CASE End(c) /\ UNCHANGED req
  BY <1>1, EndIsCalm
<1>2. CASE KeepsAsking(c)
  <2>1. /\ work[c].session # 0 /\ work[c].session \in DOMAIN session /\ req[c] \in Openings
        /\ work[c].loaded.status = "active" /\ work[c].row.status # "none"
        /\ DOMAIN work[c].view \subseteq DOMAIN item[work[c].session]
    BY <1>2 DEF KeepsAsking, Typed, Placed, Viewed
  <2>2. req'[c] = req[c] /\ session' = session /\ item' = item
    BY <1>2 DEF KeepsAsking, db
  <2>3. Placed(c)'
    BY <1>2, <2>1, <2>2 DEF KeepsAsking, Placed
  <2>4. Viewed(c)'
    BY <1>2, <2>1, <2>2 DEF KeepsAsking, Viewed
  <2> QED
    BY <1>2, <2>2, <2>3, <2>4, Frame DEF KeepsAsking, Calm
<1> QED
  BY <1>1, <1>2, AsksIs

LEMMA CallsAreCalm ==
    ASSUME Typed, NEW c \in Calls, StepOf(c)
    PROVE  Calm(c)
<1>1. CASE Fail(c)
  BY <1>1, EndIsCalm DEF Fail
<1>2. CASE Create(c) \/ Return(c)
  BY <1>2, EndIsCalm DEF Create, Return
<1>3. CASE CountItems(c) \/ CountReviewed(c) \/ FindPending(c)
  BY <1>3, RefreshIsCalm DEF CountItems, CountReviewed, FindPending
<1> QED
  BY <1>1, <1>2, <1>3, AnswersAreCalm, AskNextIsCalm, CommitIsCalm, ReadIsCalm, FlushIsCalm,
     DecideIsCalm, AbandonIsCalm, AsksIsCalm DEF StepOf, Step, Asks

-----------------------------------------------------------------------------
(* Locks.                                                                  *)

\* No two calls hold a session, or the row of a client action.
OneHolder ==
    /\ \A c, d \in Calls, s \in Nat :
          LocksSession(c, s) /\ LocksSession(d, s) => c = d
    /\ \A c, d \in Calls :
          HoldsAction(c) /\ HoldsAction(d) /\ req[c].action = req[d].action => c = d

\* Items that differ in their questions at most.
Alike(x, y) ==
    /\ DOMAIN x = DOMAIN y
    /\ \A i \in DOMAIN x : /\ x[i].card = y[i].card
                           /\ x[i].repeat <=> y[i].repeat
                           /\ x[i].done <=> y[i].done

LEMMA EndedDomain ==
    ASSUME NEW items \in Seq(Items), NEW i \in DOMAIN items, NEW correct
    PROVE  DOMAIN Ended(items, i, correct) =
               IF ~correct /\ NeedsRepeat(items, i) THEN 1..(Len(items) + 1) ELSE 1..Len(items)
<1> DEFINE marked == [items EXCEPT ![i].done = TRUE]
           more == RepeatOf(items[i].card)
<1>1. Ended(items, i, correct) = IF ~correct /\ NeedsRepeat(items, i) THEN Append(marked, more) ELSE marked
  BY DEF Ended
<1>2. DOMAIN marked = 1..Len(items) /\ Len(items) \in Nat
  OBVIOUS
<1>3. \A j \in DOMAIN items : items[j] \in Items
  OBVIOUS
<1>4. marked \in Seq(Items) /\ Len(marked) = Len(items)
  <2>1. [items[i] EXCEPT !.done = TRUE] \in Items
    BY <1>3 DEF Items
  <2>2. marked = [j \in DOMAIN items |-> marked[j]] /\ \A j \in DOMAIN items : marked[j] \in Items
    BY <1>3, <2>1
  <2>3. marked \in [1..Len(items) -> Items]
    BY <1>2, <2>2
  <2> QED
    BY <1>2, <2>3
<1> HIDE DEF marked, more
<1>5. DOMAIN Append(marked, more) = 1..(Len(items) + 1)
  BY <1>2, <1>4
<1> QED
  BY <1>1, <1>2, <1>5

LEMMA EndedAlike ==
    ASSUME NEW x \in Seq(Items), NEW y \in Seq(Items), Alike(x, y), NEW i \in DOMAIN x, NEW correct
    PROVE  DOMAIN Ended(x, i, correct) = DOMAIN Ended(y, i, correct)
<1>1. i \in DOMAIN y /\ Len(x) = Len(y)
  <2>1. DOMAIN x = 1..Len(x) /\ DOMAIN y = 1..Len(y) /\ Len(x) \in Nat /\ Len(y) \in Nat
    OBVIOUS
  <2>2. DOMAIN x = DOMAIN y
    BY DEF Alike
  <2>3. Len(x) \in DOMAIN x /\ Len(y) \in DOMAIN y
    BY <2>1, <2>2
  <2>4. Len(x) <= Len(y) /\ Len(y) <= Len(x)
    BY <2>1, <2>2, <2>3
  <2>5. Len(x) = Len(y)
    <3>1. Len(x) \in Nat /\ Len(y) \in Nat
      BY <2>1
    <3>2. \A m, n \in Nat : m <= n /\ n <= m => m = n
      OBVIOUS
    <3> QED
      BY <2>4, <3>1, <3>2, Zenon
  <2>6. i \in DOMAIN y
    BY <2>2
  <2> QED
    BY <2>5, <2>6
<1>2. NeedsRepeat(x, i) <=> NeedsRepeat(y, i)
  BY <1>1 DEF Alike, NeedsRepeat
<1>3. DOMAIN Ended(x, i, correct) =
         IF ~correct /\ NeedsRepeat(x, i) THEN 1..(Len(x) + 1) ELSE 1..Len(x)
  BY EndedDomain
<1>4. DOMAIN Ended(y, i, correct) =
         IF ~correct /\ NeedsRepeat(y, i) THEN 1..(Len(y) + 1) ELSE 1..Len(y)
  BY <1>1, EndedDomain
<1> QED
  BY <1>1, <1>2, <1>3, <1>4

\* The answer of another call stays what it is, ...
LEMMA AskedStays ==
    ASSUME Typed, NEW c \in Calls, StepOf(c), NEW d \in Calls \ {c}, pc[d] \in AnswerLabels
    PROVE  /\ pc'[d] = pc[d] /\ req'[d] = req[d] /\ work'[d] = work[d]
           /\ req[d].action \in Actions
           /\ sent'[req[d].action] = sent[req[d].action] /\ sent[req[d].action] # NoReply
           /\ Asked(d)' = Asked(d) /\ Correct(d)' = Correct(d)
<1>1. pc'[d] = pc[d] /\ req'[d] = req[d] /\ work'[d] = work[d]
  BY CallsAreApart DEF Own
<1>2. req[d].action \in Actions /\ sent[req[d].action] # NoReply
  BY DEF Typed, Placed
<1>3. sent'[req[d].action] = sent[req[d].action]
  BY <1>2, CallsAreApart DEF Own
<1> QED
  BY <1>1, <1>2, <1>3 DEF Asked, Correct

\* ... and while it holds its session, nobody else answers in it.
LEMMA SessionStays ==
    ASSUME Typed, OneHolder, NEW c \in Calls, StepOf(c), NEW d \in Calls \ {c},
           pc[d] \in {"card", "question", "next", "commit"}
    PROVE  Alike(item'[Asked(d).session], item[Asked(d).session])
<1> DEFINE s == Asked(d).session
<1>1. s \in DOMAIN session /\ s \in DOMAIN item /\ item[s] \in Seq(Items) /\ s \in Nat
  BY AskedIs DEF Asking
<1>2. LocksSession(d, s)
  BY DEF LocksSession, AnswerLocks
<1> SUFFICES Alike(item'[s], item[s])
  OBVIOUS
<1> HIDE DEF s
<1>3. CASE UNCHANGED <<session, item, log>>
  BY <1>3 DEF Alike
<1>4. CASE Writes(c)
  BY <1>1, <1>4 DEF Writes, SameItems, Alike
<1>5. CASE Creates(c)
  <2>1. item'[s] = item[s]
    BY <1>1, <1>5, CreateWrites
  <2> QED
    BY <2>1 DEF Alike
<1>6. CASE Commits(c)
  <2>1. LocksSession(c, Asked(c).session)
    BY <1>6 DEF Commits, Commit, LocksSession, AnswerLocks
  <2>2. Asked(c).session # s
    BY <1>1, <1>2, <2>1 DEF OneHolder
  <2>3. item'[s] = item[s]
    BY <1>1, <1>6, <2>2, CommitWrites
  <2> QED
    BY <2>3 DEF Alike
<1> QED
  BY <1>3, <1>4, <1>5, <1>6, StepEffects

LEMMA OthersStayCalm ==
    ASSUME Typed, OneHolder, NEW c \in Calls, StepOf(c), NEW d \in Calls \ {c}
    PROVE  Placed(d)' /\ Viewed(d)'
<1>1. pc'[d] = pc[d] /\ req'[d] = req[d] /\ work'[d] = work[d]
  BY CallsAreApart DEF Own
<1>2. Placed(d) /\ Viewed(d) /\ DOMAIN item = DOMAIN session
  BY DEF Typed, TypedRows
<1>3. Grows
  BY CallsGrow
<1>4. pc[d] \in AnswerLabels => sent'[req[d].action] = sent[req[d].action]
  BY AskedStays
<1>5. Placed(d)'
  BY <1>1, <1>2, <1>3, <1>4 DEF Placed, Grows
<1>6. pc[d] \in AskingLabels => DOMAIN work[d].view \subseteq DOMAIN item'[work[d].session]
  BY <1>2, <1>3 DEF Placed, Viewed, Grows
<1>8. Paced(d)' <=> Paced(d)
  BY <1>1 DEF Paced
<1>7. ASSUME pc[d] = "commit" PROVE DOMAIN work[d].view \subseteq DOMAIN AfterAnswer(d)'
  <2> DEFINE s == Asked(d).session
             i == Asked(d).item
             correct == Correct(d)
  <2>1. /\ s \in DOMAIN item /\ item[s] \in Seq(Items) /\ i \in DOMAIN item[s]
    BY <1>7, AskedIs
  <2>2. Alike(item'[s], item[s])
    BY <1>7, SessionStays
  <2>3. item'[s] \in Seq(Items)
    BY <1>3, <2>1, CallsGrow DEF Grows
  <2>4. Asked(d)' = Asked(d) /\ Correct(d)' = Correct(d)
    BY <1>7, AskedStays
  <2>5. AfterAnswer(d) = Ended(item[s], i, correct)
    BY AfterAnswerIsEnded
  <2>6. AfterAnswer(d)' = Ended(item'[s], i, correct)
    <3>1. AfterAnswer(d)' = Ended(item'[Asked(d)'.session], Asked(d)'.item, Correct(d)')
      BY DEF AfterAnswer, Ended
    <3> QED
      BY <2>4, <3>1
  <2> HIDE DEF s, i, correct
  <2>7. i \in DOMAIN item'[s]
    BY <2>1, <2>2 DEF Alike
  <2>8. DOMAIN AfterAnswer(d)' = DOMAIN AfterAnswer(d)
    BY <2>1, <2>2, <2>3, <2>5, <2>6, <2>7, EndedAlike
  <2> QED
    BY <1>2, <1>7, <2>8 DEF Viewed
<1> QED
  BY <1>1, <1>2, <1>5, <1>6, <1>7, <1>8 DEF Viewed

\* What is shown is a question about an item there is.
LEMMA ShownIsTyped ==
    ASSUME Typed, NEW c \in Calls, StepOf(c)
    PROVE  shown' \subseteq Asking /\ \A q \in shown' : Names(q)'
<1>1. shown \subseteq Asking /\ \A q \in shown : Names(q)
  BY DEF Typed, TypedCalls
<1>2. \A q \in shown : Names(q)'
  BY <1>1, CallsGrow DEF Names, Grows
<1>3. ASSUME NEW s \in DOMAIN item', NEW view \in Views, DOMAIN view \subseteq DOMAIN item'[s],
             shown' = shown \cup {[session |-> s, item |-> i, version |-> view[i]] : i \in DOMAIN view}
      PROVE  shown' \subseteq Asking /\ \A q \in shown' : Names(q)'
  <2>1. s \in Nat
    BY CallsGrow
  <2>2. PICK D \in SUBSET Nat : view \in [D -> Nat]
    BY DEF Views
  <2>3. \A i \in DOMAIN view : i \in Nat /\ view[i] \in Nat
    BY <2>2
  <2>4. ASSUME NEW q \in shown', q \notin shown PROVE q \in Asking /\ Names(q)'
    <3>1. PICK i \in DOMAIN view : q = [session |-> s, item |-> i, version |-> view[i]]
      BY <1>3, <2>4
    <3> QED
      BY <1>3, <2>1, <2>3, <3>1 DEF Asking, Names
  <2> QED
    BY <1>1, <1>2, <2>4
<1>4. CASE UNCHANGED shown
  BY <1>1, <1>2, <1>4
<1>5. CASE Commits(c)
  <2> DEFINE s == Asked(c).session
  <2>1. Show(c, s) /\ pc[c] = "commit"
    BY <1>5 DEF Commits, Commit
  <2>2. /\ s \in DOMAIN item' /\ item'[s] = WithQuestions(c, AfterAnswer(c))
        /\ work[c].view \in Views /\ DOMAIN work[c].view \subseteq DOMAIN AfterAnswer(c)
    BY <1>5, <2>1, CommitWrites DEF Typed, TypedCalls, Work, Viewed
  <2>3. DOMAIN work[c].view \subseteq DOMAIN item'[s]
    BY <2>1, <2>2, CommittedItems
  <2> HIDE DEF s
  <2> QED
    BY <1>3, <2>1, <2>2, <2>3 DEF Show
<1>6. CASE Return(c)
  <2> DEFINE s == work[c].session
  <2>1. pc[c] = "look" /\ Show(c, s)
    BY <1>6 DEF Return
  <2>2. s \in DOMAIN item /\ DOMAIN work[c].view \subseteq DOMAIN item[s] /\ work[c].view \in Views
    BY <2>1 DEF Typed, TypedRows, TypedCalls, Work, Placed, Viewed
  <2>3. s \in DOMAIN item' /\ DOMAIN work[c].view \subseteq DOMAIN item'[s]
    BY <2>2, CallsGrow DEF Grows
  <2> HIDE DEF s
  <2> QED
    BY <1>3, <1>4, <2>1, <2>2, <2>3 DEF Show
<1>7. CASE Create(c)
  <2> SUFFICES ASSUME NEW cs \in Selections,
                      session' = Append(Written(c), [type |-> req[c].type, status |-> "active",
                                                     total |-> Len(cs), reviewed |-> 0]),
                      item' = Append(item, FirstItems(cs)),
                      shown' = shown \cup
                          {[session |-> Len(session'), item |-> i, version |-> card[cs[i]].version] :
                              i \in DOMAIN cs}
               PROVE  shown' \subseteq Asking /\ \A q \in shown' : Names(q)'
    BY <1>4, <1>7 DEF Create
  <2> DEFINE s == Len(session')
             view == [i \in DOMAIN cs |-> card[cs[i]].version]
             first == FirstItems(cs)
  <2>1. cs \in Seq(Cards) /\ DOMAIN cs = 1..Len(cs) /\ Len(cs) \in Nat
    BY ReviewAssumption
  <2>2. \A i \in DOMAIN cs : card[cs[i]].version \in Nat
    BY <2>1 DEF Typed, TypedRows
  <2>3. view \in [DOMAIN cs -> Nat] /\ DOMAIN cs \in SUBSET Nat /\ DOMAIN view = DOMAIN cs
    BY <2>1, <2>2
  <2>4. view \in Views
    BY <2>3 DEF Views
  <2>5. DOMAIN first = DOMAIN cs
    BY DEF FirstItems
  <2>6. item \in Seq(Seq(Items)) /\ Len(item) = Len(session) /\ Len(Written(c)) = Len(session)
        /\ Written(c) \in Seq(Row)
    BY WrittenIs DEF Typed, TypedRows
  <2> HIDE DEF first
  <2>7. item' = Append(item, first)
    BY DEF first
  <2>8. Len(session') = Len(session) + 1
    BY <2>6
  <2>9. s \in DOMAIN item' /\ item'[s] = first
    BY <2>6, <2>7, <2>8
  <2> HIDE DEF s
  <2>10. shown' = shown \cup {[session |-> s, item |-> i, version |-> view[i]] : i \in DOMAIN view}
    BY <2>3 DEF s
  <2> HIDE DEF view
  <2> QED
    BY <1>3, <2>3, <2>4, <2>5, <2>9, <2>10
<1>8. CASE UNCHANGED <<session, item, log>> /\ ~Commits(c) /\ ~Return(c) /\ ~Create(c)
  BY <1>4, <1>8 DEF StepOf, Step, AnswerAgain, Answer, Open, Fail, LookUp, Insert, LockSession, LockCard, LockQuestion,
     AskNext, Commit, Commits, Read, CountItems, CountReviewed, FindPending, Refresh, Flush, Decide, Abandon,
     Asks, LookAtQuestion, WriteQuestion, ShareRows
<1>9. Flush(c) => UNCHANGED shown
  BY DEF Flush
<1>10. Writes(c) => Flush(c) \/ Return(c) \/ Create(c) \/ UNCHANGED <<session, item, log>>
  BY DEF Writes, StepOf, Step, AnswerAgain, Answer, Open, Fail, LookUp, Insert, LockSession, LockCard, LockQuestion,
     AskNext, Commit, Read, CountItems, CountReviewed, FindPending, Refresh, Decide, Abandon, Asks, LookAtQuestion, WriteQuestion, ShareRows, db
<1>11. Creates(c) => Create(c) \/ UNCHANGED <<session, item, log>>
  BY DEF Creates, StepOf, Step, AnswerAgain, Answer, Open, Fail, LookUp, Insert, LockSession, LockCard, LockQuestion,
     AskNext, Commit, Read, CountItems, CountReviewed, FindPending, Refresh, Flush, Decide, Abandon,
     Asks, LookAtQuestion, WriteQuestion, ShareRows, Return, db
<1> QED
  BY <1>4, <1>5, <1>6, <1>7, <1>8, <1>9, <1>10, <1>11, StepEffects

LEMMA SentIsTyped ==
    ASSUME Typed, NEW c \in Calls, StepOf(c)
    PROVE  /\ sent' \in [Actions -> {NoReply} \cup Replies]
           /\ (\A a \in Actions : sent[a] # NoReply => Names(sent[a].question))'
<1>1. sent \in [Actions -> {NoReply} \cup Replies]
      /\ \A a \in Actions : sent[a] # NoReply => Names(sent[a].question)
  BY DEF Typed, TypedCalls
<1>2. Grows
  BY CallsGrow
<1>3. UNCHANGED sent \/ \E a \in Actions, q \in shown, correct \in BOOLEAN : Answer(c, a, q, correct)
  BY DEF StepOf, Step, AnswerAgain, Open, Fail, LookUp, Insert, LockSession, LockCard, LockQuestion,
     AskNext, Commit, Read, CountItems, CountReviewed, FindPending, Refresh, Flush, Decide, Abandon,
     Create, Asks, LookAtQuestion, WriteQuestion, ShareRows, Return
<1>4. CASE UNCHANGED sent
  BY <1>1, <1>2, <1>4 DEF Names, Grows
<1>5. ASSUME NEW a \in Actions, NEW q \in shown, NEW correct \in BOOLEAN, Answer(c, a, q, correct)
      PROVE  /\ sent' \in [Actions -> {NoReply} \cup Replies]
             /\ (\A b \in Actions : sent[b] # NoReply => Names(sent[b].question))'
  <2> DEFINE reply == [question |-> q, correct |-> correct]
  <2>1. q \in Asking /\ Names(q) /\ reply \in Replies /\ reply.question = q
    BY DEF Typed, TypedCalls, Replies
  <2>2. sent' = [sent EXCEPT ![a] = reply] /\ item' = item
    BY <1>5 DEF Answer, db
  <2> HIDE DEF reply
  <2>3. sent'[a] = reply /\ \A b \in Actions \ {a} : sent'[b] = sent[b]
    BY <1>1, <2>2
  <2>4. (\A b \in Actions : sent[b] # NoReply => Names(sent[b].question))'
    BY <1>1, <2>1, <2>2, <2>3 DEF Names
  <2> QED
    BY <1>1, <2>1, <2>2, <2>4
<1> QED
  BY <1>3, <1>4, <1>5

LEMMA InitIsTyped == Init => Typed
<1> SUFFICES ASSUME Init PROVE Typed
  OBVIOUS
<1>1. TypedRows
  <2>1. 1 \in 1..MaxVersion /\ session = <<>> /\ item = <<>> /\ log = <<>>
    BY ReviewAssumption DEF Init
  <2>2. session \in Seq(Row) /\ item \in Seq(Seq(Items)) /\ log \in Seq(Logged) /\ Len(item) = Len(session)
    BY <2>1
  <2> QED
    BY <2>2 DEF Init, TypedRows
<1>2. TypedCalls
  BY NoWorkIsWork DEF Init, TypedCalls
<1>3. \A c \in Calls : Placed(c) /\ Viewed(c)
  BY NoWorkIsWork DEF Init, Placed, Viewed
<1> QED
  BY <1>1, <1>2, <1>3 DEF Init, Typed

LEMMA TypedStays == Typed /\ OneHolder /\ [Next]_vars => Typed'
<1> SUFFICES ASSUME Typed, OneHolder, [Next]_vars PROVE Typed'
  OBVIOUS
<1>1. ASSUME NEW c \in Calls, StepOf(c) PROVE Typed'
  <2>1. TypedRows'
    BY <1>1, RowsStayTyped DEF Next, StepOf
  <2>2. \A d \in Calls : Placed(d)' /\ Viewed(d)'
    BY <1>1, CallsAreCalm, OthersStayCalm DEF Calm
  <2>3. /\ pc' \in [Calls -> Labels]
        /\ req' \in [Calls -> {NoRequest, Overview} \cup Openings
                                 \cup [kind : {"answer"}, action : Actions]]
        /\ work' \in [Calls -> Work]
    <3>1. \A d \in Calls : /\ pc'[d] \in Labels /\ work'[d] \in Work
                           /\ req'[d] \in {NoRequest, Overview} \cup Openings
                                             \cup [kind : {"answer"}, action : Actions]
      <4> HIDE DEF Labels
      <4> QED
        BY <1>1, CallsAreCalm, CallsAreApart DEF Calm, Own, Typed, TypedCalls
    <3>2. /\ pc' = [d \in Calls |-> pc'[d]] /\ req' = [d \in Calls |-> req'[d]]
          /\ work' = [d \in Calls |-> work'[d]]
      BY <1>1, CallsAreApart DEF Own
    <3> HIDE DEF Labels
    <3> QED
      BY <3>1, <3>2
  <2>4. TypedCalls'
    BY <1>1, <2>3, ShownIsTyped, SentIsTyped DEF TypedCalls
  <2>5. (\A q \in shown : Names(q))'
    BY <1>1, ShownIsTyped
  <2>6. (\A a \in Actions : sent[a] # NoReply => Names(sent[a].question))'
    BY <1>1, SentIsTyped
  <2> QED
    BY <2>1, <2>2, <2>4, <2>5, <2>6 DEF Typed
<1>2. ASSUME NEW k \in Cards, EditCard(k) PROVE Typed'
  <2>1. TypedRows'
    BY <1>2, RowsStayTyped DEF Next
  <2>2. UNCHANGED <<session, item, rows, log, pc, req, work, shown, sent>>
    BY <1>2 DEF EditCard
  <2>3. TypedCalls'
    BY <2>2 DEF Typed, TypedCalls
  <2>4. \A c \in Calls : Placed(c)' /\ Viewed(c)'
    <3> SUFFICES ASSUME NEW c \in Calls PROVE Placed(c)' /\ Viewed(c)'
      OBVIOUS
    <3>1. Placed(c) /\ Viewed(c) /\ AfterAnswer(c)' = AfterAnswer(c)
      BY <2>2 DEF Typed, AfterAnswer, Asked, Correct, NeedsRepeat
    <3>2. Paced(c)' <=> Paced(c)
      BY <2>2 DEF Paced
    <3>3. Placed(c)'
      BY <2>2, <3>1 DEF Placed
    <3>4. Viewed(c)'
      BY <2>2, <3>1, <3>2 DEF Viewed
    <3> QED
      BY <3>3, <3>4
  <2> QED
    BY <2>1, <2>2, <2>3, <2>4 DEF Typed, Names
<1>3. CASE UNCHANGED vars
  <2>1. UNCHANGED <<card, session, item, rows, log, pc, req, work, shown, sent>>
    BY <1>3 DEF vars
  <2>2. \A c \in Calls : AfterAnswer(c)' = AfterAnswer(c)
    BY <2>1 DEF AfterAnswer, Asked, Correct, NeedsRepeat
  <2>3. TypedRows' /\ TypedCalls'
    BY <2>1 DEF Typed, TypedRows, TypedCalls
  <2>4. \A c \in Calls : Placed(c)' /\ Viewed(c)'
    <3> SUFFICES ASSUME NEW c \in Calls PROVE Placed(c)' /\ Viewed(c)'
      OBVIOUS
    <3>1. Placed(c) /\ Viewed(c)
      BY DEF Typed
    <3>2. Paced(c)' <=> Paced(c)
      BY <2>1 DEF Paced
    <3>3. Placed(c)'
      BY <2>1, <3>1 DEF Placed
    <3>4. Viewed(c)'
      BY <2>1, <2>2, <3>1, <3>2 DEF Viewed
    <3> QED
      BY <3>3, <3>4
  <2> QED
    BY <2>1, <2>3, <2>4 DEF Typed, Names
<1> QED
  BY <1>1, <1>2, <1>3, NextIsStepOf

\* A call takes a lock only when it is free.
LEMMA LocksAreFree ==
    ASSUME Typed, NEW c \in Calls, StepOf(c)
    PROVE  /\ \A s : LocksSession(c, s)' => LocksSession(c, s) \/ SessionIsFree(c, s)
           /\ HoldsAction(c)' => req'[c] = req[c] /\ (HoldsAction(c) \/ ActionIsFree(c))
<1> DEFINE Fine == /\ \A s : LocksSession(c, s)' => LocksSession(c, s) \/ SessionIsFree(c, s)
                   /\ HoldsAction(c)' => req'[c] = req[c] /\ (HoldsAction(c) \/ ActionIsFree(c))
<1> USE Frame
<1>1. Calm(c)
  BY CallsAreCalm
<1>2. ASSUME pc'[c] \notin {"session", "card", "question", "next", "commit"}, ~work'[c].held PROVE Fine
  BY <1>2 DEF LocksSession, AnswerLocks, HoldsAction
<1>3. pc'[c] \notin OpenLabels => ~work'[c].held
  BY <1>1, NoWorkIsWork DEF Calm, Placed
<1>4. CASE pc'[c] \notin OpenLabels \cup {"session", "card", "question", "next", "commit"}
  BY <1>2, <1>3, <1>4
<1>5. CASE \/ \E a \in Actions : AnswerAgain(c, a)
           \/ \E a \in Actions, q \in shown, correct \in BOOLEAN : Answer(c, a, q, correct)
           \/ \E r \in Openings \cup {Overview} : Open(c, r)
           \/ LookUp(c) \/ Fail(c) \/ Commit(c) \/ Create(c) \/ Return(c)
           \/ CountItems(c) \/ CountReviewed(c) \/ FindPending(c)
  <2>1. pc'[c] \notin OpenLabels \cup {"session", "card", "question", "next", "commit"}
    BY <1>5 DEF AnswerAgain, Answer, Open, LookUp, Fail, Commit, Create, Return, CountItems, CountReviewed,
                FindPending, Refresh
  <2> QED
    BY <1>4, <2>1
<1>6. CASE Read(c)
  <2>1. pc[c] = "read" /\ work[c] = NoWork /\ pc'[c] \in {"done", "create", "total"}
        /\ (pc'[c] = "create" => work'[c] = NoWork)
    BY <1>6 DEF Read, Typed, Placed
  <2> QED
    BY <1>2, <1>3, <2>1, NoWorkIsWork
<1>7. CASE Insert(c)
  <2>1. pc'[c] \in {"session", "done"} /\ ActionIsFree(c) /\ req'[c] = req[c] /\ ~work'[c].held
    BY <1>3, <1>7 DEF Insert
  <2> QED
    BY <2>1 DEF LocksSession, AnswerLocks
<1>8. CASE LockSession(c) \/ LockCard(c) \/ LockQuestion(c) \/ AskNext(c)
  <2>1. /\ pc[c] \in {"session", "card", "question", "next"}
        /\ pc'[c] \in {"card", "question", "next", "commit", "done"}
        /\ UNCHANGED <<req, sent>> /\ ~work'[c].held
    <3>1. CASE AskNext(c)
      BY <1>3, <3>1 DEF AskNext, AskFor
    <3>2. CASE LockSession(c) \/ LockCard(c) \/ LockQuestion(c)
      BY <1>3, <3>2, LocksLead
    <3> QED
      BY <1>8, <3>1, <3>2
  <2>3. pc[c] = "session" => SessionIsFree(c, Asked(c).session)
    BY <1>8 DEF LockSession, LockCard, LockQuestion, AskNext
  <2>2. Asked(c)' = Asked(c)
    BY <2>1 DEF Asked
  <2> QED
    BY <2>1, <2>2, <2>3 DEF LocksSession, AnswerLocks, HoldsAction
<1>9. CASE Flush(c)
  <2>1. CASE IsOverview(c)
    BY <1>4, <1>9, <2>1 DEF Flush
  <2>2. CASE ~IsOverview(c)
    <3>1. work' = [work EXCEPT ![c].held = Changed(c) # {}] /\ pc'[c] = "decide"
          /\ (Changed(c) # {} => SessionIsFree(c, work[c].session))
      BY <1>9, <2>2 DEF Flush
    <3>2. work'[c].session = work[c].session /\ (work'[c].held <=> Changed(c) # {})
      BY <3>1 DEF Typed, TypedCalls, Work
    <3> QED
      BY <3>1, <3>2 DEF LocksSession, AnswerLocks, HoldsAction
  <2> QED
    BY <2>1, <2>2
<1>10. CASE Decide(c)
  <2>1. CASE End(c)
    BY <1>4, <2>1
  <2>2. CASE UNCHANGED work /\ pc'[c] \in {"create", "abandon"}
    BY <2>2 DEF LocksSession, AnswerLocks, HoldsAction
  <2>3. CASE pc'[c] = "look" /\ KeepsRow(c)
    BY <2>3 DEF KeepsRow, LocksSession, AnswerLocks, HoldsAction
  <2> QED
    BY <1>10, <2>1, <2>2, <2>3, DecideLeads
<1>11. CASE Abandon(c)
  <2>1. SessionIsFree(c, work[c].session) /\ pc'[c] = "create"
        /\ work' = [work EXCEPT ![c].row.status = "abandoned", ![c].held = TRUE]
    BY <1>11 DEF Abandon
  <2>2. work'[c].session = work[c].session
    BY <2>1 DEF Typed, TypedCalls, Work
  <2> QED
    BY <2>1, <2>2 DEF LocksSession, AnswerLocks, HoldsAction
<1>12. CASE Asks(c)
  <2>1. CASE End(c)
    BY <1>4, <2>1
  <2>2. CASE KeepsAsking(c)
    BY <2>2 DEF KeepsAsking, LocksSession, AnswerLocks, HoldsAction
  <2> QED
    BY <1>12, <2>1, <2>2, AsksIs
<1> QED
  BY <1>5, <1>6, <1>7, <1>8, <1>9, <1>10, <1>11, <1>12 DEF StepOf, Step, Asks

LEMMA OneHolderStays == Typed /\ OneHolder /\ [Next]_vars => OneHolder'
<1> SUFFICES ASSUME Typed, OneHolder, [Next]_vars PROVE OneHolder'
  OBVIOUS
<1>1. ASSUME NEW c \in Calls, StepOf(c) PROVE OneHolder'
  <2>1. ASSUME NEW d \in Calls \ {c}
        PROVE  /\ \A s : LocksSession(d, s)' => LocksSession(d, s)
               /\ HoldsAction(d)' => HoldsAction(d) /\ req'[d] = req[d]
    <3>1. pc'[d] = pc[d] /\ work'[d] = work[d] /\ req'[d] = req[d]
      BY <1>1, CallsAreApart DEF Own
    <3>2. pc[d] \in AnswerLabels => Asked(d)' = Asked(d)
      BY <1>1, AskedStays
    <3> QED
      BY <3>1, <3>2 DEF LocksSession, AnswerLocks, HoldsAction
  <2>2. ASSUME NEW d \in Calls, NEW e \in Calls, NEW s \in Nat, LocksSession(d, s)', LocksSession(e, s)', d # e
        PROVE  FALSE
    <3>1. \A x \in Calls : \A y \in Calls \ {x} : SessionIsFree(x, s) => ~LocksSession(y, s)
      BY DEF SessionIsFree
    <3> QED
      BY <1>1, <2>1, <2>2, <3>1, LocksAreFree DEF OneHolder
  <2>3. ASSUME NEW d \in Calls, NEW e \in Calls, HoldsAction(d)', HoldsAction(e)',
               req'[d].action = req'[e].action, d # e
        PROVE  FALSE
    <3>1. \A x \in Calls : \A y \in Calls \ {x} :
             ActionIsFree(x) /\ HoldsAction(y) => req[y].action # req[x].action
      BY DEF ActionIsFree
    <3> QED
      BY <1>1, <2>1, <2>3, <3>1, LocksAreFree DEF OneHolder
  <2> QED
    BY <2>2, <2>3 DEF OneHolder
<1>2. CASE (\E k \in Cards : EditCard(k)) \/ UNCHANGED vars
  <2>1. UNCHANGED <<pc, req, work, sent>>
    BY <1>2 DEF EditCard, vars
  <2> QED
    BY <2>1 DEF OneHolder, LocksSession, AnswerLocks, HoldsAction, Asked
<1> QED
  BY <1>1, <1>2, NextIsStepOf

LEMMA InitIsOneHolder == Init => OneHolder
BY NoWorkIsWork DEF Init, OneHolder, LocksSession, AnswerLocks, HoldsAction

-----------------------------------------------------------------------------
(* What a call knows while it holds its locks.                             *)

\* A changed status is written under the lock of the session.
Changes(c) ==
    pc[c] \in OpenLabels /\ work[c].row.status # work[c].loaded.status => work[c].held

\* An answer that has got past a check finds what it checked until it commits.
Graded(c) ==
    LET q == Asked(c) IN
    /\ pc[c] \in {"card", "question", "next", "commit"} =>
          session[q.session].status = "active" /\ ~item[q.session][q.item].done
    /\ pc[c] \in {"next", "commit"} =>
          /\ Eligible(q.session, q.item)
          /\ item[q.session][q.item].question = VersionOf(q.session, q.item)

\* No two calls hold the row of a question.
OneWriter ==
    \A c, d \in Calls, s \in Nat \ {0}, i \in Nat :
        LocksQuestion(c, s, i) /\ LocksQuestion(d, s, i) => c = d

GradedInv == Typed /\ OneHolder /\ OneWriter /\ \A c \in Calls : Changes(c) /\ Graded(c)

LEMMA StatusIsChanged ==
    ASSUME Typed, NEW c \in Calls, work[c].row.status # work[c].loaded.status
    PROVE  Changed(c) # {}
BY DEF Typed, TypedCalls, Work, Loaded, Changed

LEMMA ChangesStays ==
    ASSUME Typed, NEW c \in Calls, Changes(c), NEW d \in Calls, StepOf(d)
    PROVE  Changes(c)'
<1> USE Frame
<1>1. CASE c # d
  <2>1. pc'[c] = pc[c] /\ work'[c] = work[c]
    BY <1>1, CallsAreApart DEF Own
  <2> QED
    BY <2>1 DEF Changes
<1>2. CASE c = d
  <2>1. CASE pc'[c] \notin OpenLabels
    BY <2>1 DEF Changes
  <2>2. CASE \/ \E a \in Actions : AnswerAgain(c, a)
             \/ \E a \in Actions, q \in shown, correct \in BOOLEAN : Answer(c, a, q, correct)
             \/ \E r \in Openings \cup {Overview} : Open(c, r)
             \/ LookUp(c) \/ Insert(c) \/ LockSession(c) \/ LockCard(c) \/ LockQuestion(c) \/ AskNext(c)
             \/ Fail(c) \/ Commit(c) \/ Create(c) \/ Return(c)
             \/ CountItems(c) \/ CountReviewed(c) \/ FindPending(c)
    <3>1. pc'[c] \notin OpenLabels
      BY <2>2, LocksLead DEF AnswerAgain, Answer, Open, LookUp, Insert, AskNext, AskFor, Fail,
                  Commit, Create, Return, CountItems, CountReviewed, FindPending, Refresh
    <3> QED
      BY <2>1, <3>1
  <2>3. CASE Read(c)
    <3>1. pc'[c] \in {"done", "total"} \/ work'[c] = NoWork
      BY <2>3 DEF Read, Typed, Placed
    <3> QED
      BY <2>1, <3>1 DEF Changes, NoWork
  <2>4. CASE Flush(c)
    <3>1. CASE IsOverview(c)
      BY <2>1, <2>4, <3>1 DEF Flush
    <3>2. CASE ~IsOverview(c)
      <4>1. work' = [work EXCEPT ![c].held = Changed(c) # {}]
        BY <2>4, <3>2 DEF Flush
      <4>2. work'[c].row = work[c].row /\ work'[c].loaded = work[c].loaded
            /\ (work'[c].held <=> Changed(c) # {})
        BY <4>1 DEF Typed, TypedCalls, Work
      <4> QED
        BY <4>2, StatusIsChanged DEF Changes
    <3> QED
      BY <3>1, <3>2
  <2>5. CASE Decide(c)
    <3>1. CASE End(c)
      BY <2>1, <3>1
    <3>2. CASE UNCHANGED work
      BY <2>5, <3>2 DEF Changes, Decide
    <3>3. CASE KeepsRow(c)
      BY <2>5, <3>3 DEF KeepsRow, Changes, Decide
    <3> QED
      BY <2>5, <3>1, <3>2, <3>3, DecideLeads
  <2>6. CASE Abandon(c)
    <3>1. work' = [work EXCEPT ![c].row.status = "abandoned", ![c].held = TRUE]
      BY <2>6 DEF Abandon
    <3>2. work'[c].held
      BY <3>1 DEF Typed, TypedCalls, Work
    <3> QED
      BY <3>2 DEF Changes
  <2>7. CASE Asks(c)
    <3>1. CASE End(c)
      BY <2>1, <3>1
    <3>2. CASE KeepsAsking(c)
      BY <3>2 DEF KeepsAsking, Changes
    <3> QED
      BY <2>7, <3>1, <3>2, AsksIs
  <2> QED
    BY <1>2, <2>2, <2>3, <2>4, <2>5, <2>6, <2>7 DEF StepOf, Step, Asks
<1> QED
  BY <1>1, <1>2

\* The status of a session is written under its lock.
LEMMA StatusStays ==
    ASSUME Typed, OneHolder, NEW c \in Calls, Changes(c), StepOf(c), NEW s \in DOMAIN session,
           NEW d \in Calls \ {c}, LocksSession(d, s)
    PROVE  session'[s].status = session[s].status
<1>1. s \in Nat /\ ~LocksSession(c, s) /\ ~SessionIsFree(c, s)
  BY DEF Typed, TypedRows, OneHolder, SessionIsFree
<1>2. CASE UNCHANGED <<session, item, log>>
  BY <1>2
<1>3. ASSUME pc[c] \in {"create", "look"} \/ (pc[c] = "flush" /\ (Changed(c) # {} => SessionIsFree(c, work[c].session)))
      PROVE  Written(c)[s].status = session[s].status
  <2>1. SUFFICES ASSUME s = work[c].session, work[c].row.status # work[c].loaded.status PROVE FALSE
    BY WrittenIs
  <2>2. pc[c] = "flush"
    BY <1>1, <1>3, <2>1 DEF Changes, LocksSession, AnswerLocks
  <2> QED
    BY <1>1, <1>3, <2>1, <2>2, StatusIsChanged
<1>4. CASE Writes(c)
  BY <1>3, <1>4 DEF Writes
<1>5. CASE Creates(c)
  <2>1. session'[s] = Written(c)[s] /\ pc[c] = "create"
    BY <1>5, CreateWrites DEF Creates
  <2> QED
    BY <1>3, <2>1
<1>6. CASE Commits(c)
  <2>1. LocksSession(c, Asked(c).session)
    BY <1>6 DEF Commits, Commit, LocksSession, AnswerLocks
  <2>2. s \in DOMAIN item
    BY DEF Typed, TypedRows
  <2> QED
    BY <1>1, <1>6, <2>1, <2>2, CommitWrites
<1> QED
  BY <1>2, <1>4, <1>5, <1>6, StepEffects

LEMMA WritesAre ==
    ASSUME Typed, NEW c \in Calls, StepOf(c), Writes(c)
    PROVE  UNCHANGED item \/ Return(c)
<1>1. CASE Create(c)
  <2>1. ASSUME NEW cs, item' = Append(item, FirstItems(cs)) PROVE FALSE
    <3>1. item \in Seq(Seq(Items)) /\ Len(item') = Len(item)
      BY DEF Typed, TypedRows, Writes, SameItems
    <3> QED
      BY <2>1, <3>1
  <2> QED
    BY <1>1, <2>1 DEF Create
<1>2. pc[c] # "commit"
  BY DEF Writes
<1> QED
  BY <1>1, <1>2 DEF StepOf, Step, AnswerAgain, Answer, Open, Fail, LookUp, Insert, LockSession, LockCard, LockQuestion,
     AskNext, Commit, Read, CountItems, CountReviewed, FindPending, Refresh, Flush, Decide, Abandon,
     Asks, LookAtQuestion, WriteQuestion, ShareRows, db

\* A question that is being answered is not made anew, nor taken for missing.
LEMMA QuestionStays ==
    ASSUME Typed, OneHolder, OneWriter, NEW c \in Calls, StepOf(c), NEW d \in Calls \ {c},
           pc[d] \in {"next", "commit"}
    PROVE  item'[Asked(d).session][Asked(d).item].question = item[Asked(d).session][Asked(d).item].question
<1> DEFINE s == Asked(d).session
           i == Asked(d).item
<1>1. /\ s \in DOMAIN session /\ s \in DOMAIN item /\ item[s] \in Seq(Items) /\ i \in DOMAIN item[s]
      /\ s \in Nat \ {0} /\ i \in Nat
  <2>1. /\ s \in DOMAIN session /\ s \in DOMAIN item /\ item[s] \in Seq(Items) /\ i \in DOMAIN item[s]
    BY AskedIs
  <2>2. session \in Seq(Row)
    BY DEF Typed, TypedRows
  <2> QED
    BY <2>1, <2>2
<1>2. LocksSession(d, s) /\ LocksQuestion(d, s, i)
  BY DEF LocksSession, AnswerLocks, LocksQuestion
<1> SUFFICES item'[s][i].question = item[s][i].question
  OBVIOUS
<1> HIDE DEF s, i
<1>4. CASE UNCHANGED item
  BY <1>4
<1>5. CASE Return(c)
  <2> DEFINE t == work[c].session
  <2>1. /\ t \in DOMAIN item /\ item' = [item EXCEPT ![t] = WithQuestions(c, item[t])]
        /\ work[c].left = {}
    BY <1>5 DEF Return, Typed, TypedRows, Placed
  <2>2. CASE t = s
    <3>1. i \notin work[c].new \cup work[c].stale
      <4>1. ASSUME i \in work[c].new \cup work[c].stale PROVE LocksQuestion(c, s, i)
        BY <2>1, <2>2, <4>1 DEF LocksQuestion, Wrote
      <4> QED
        BY <1>1, <1>2, <4>1 DEF OneWriter
    <3>2. item'[s] = WithQuestions(c, item[s])
      BY <1>1, <2>1, <2>2
    <3> QED
      BY <1>1, <3>1, <3>2, WithQuestionsIs
  <2>3. CASE t # s
    <3> HIDE DEF t
    <3>1. item'[s] = item[s]
      BY <1>1, <2>1, <2>3
    <3> QED
      BY <3>1
  <2> QED
    BY <2>2, <2>3
<1>6. CASE Creates(c)
  <2>1. item'[s] = item[s]
    BY <1>1, <1>6, CreateWrites
  <2> QED
    BY <2>1
<1>7. CASE Commits(c)
  <2>1. LocksSession(c, Asked(c).session)
    BY <1>7 DEF Commits, Commit, LocksSession, AnswerLocks
  <2>2. Asked(c).session # s
    BY <1>1, <1>2, <2>1 DEF OneHolder
  <2>3. item'[s] = item[s]
    BY <1>1, <1>7, <2>2, CommitWrites
  <2> QED
    BY <2>3
<1> QED
  BY <1>4, <1>5, <1>6, <1>7, StepEffects, WritesAre

LEMMA GradedStays ==
    ASSUME GradedInv, NEW c \in Calls, StepOf(c), NEW d \in Calls
    PROVE  Graded(d)'
<1> DEFINE s == Asked(d).session
           i == Asked(d).item
<1> USE Frame DEF GradedInv
<1>1. UNCHANGED card
  BY CallsAreApart
<1>2. CASE d # c
  <2>1. CASE pc[d] \notin {"card", "question", "next", "commit"}
    <3>1. pc'[d] = pc[d]
      BY <1>2, CallsAreApart DEF Own
    <3> QED
      BY <2>1, <3>1 DEF Graded
  <2>2. CASE pc[d] \in {"card", "question", "next", "commit"}
    <3>1. pc'[d] = pc[d] /\ Asked(d)' = Asked(d)
      BY <1>2, <2>2, AskedStays
    <3>2. s \in DOMAIN session /\ i \in DOMAIN item[s] /\ LocksSession(d, s)
      BY <2>2, AskedIs DEF LocksSession, AnswerLocks
    <3>3. session'[s].status = session[s].status
      BY <1>2, <3>2, StatusStays
    <3>4. Alike(item'[s], item[s])
      BY <1>2, <2>2, SessionStays
    <3>5. item'[s][i].card = item[s][i].card /\ (item'[s][i].done <=> item[s][i].done)
      BY <3>2, <3>4 DEF Alike
    <3>6. pc[d] \in {"next", "commit"} => item'[s][i].question = item[s][i].question
      BY <1>2, QuestionStays
    <3>7. session[s].status = "active" /\ ~item[s][i].done
          /\ (pc[d] \in {"next", "commit"} =>
                card[item[s][i].card].eligible /\ item[s][i].question = card[item[s][i].card].version)
      BY <2>2 DEF Graded, Eligible, VersionOf
    <3>8. Asked(d)'.session = s /\ Asked(d)'.item = i
      BY <3>1
    <3> HIDE DEF s, i
    <3> QED
      BY <1>1, <3>1, <3>3, <3>5, <3>6, <3>7, <3>8 DEF Graded, Eligible, VersionOf
  <2> QED
    BY <2>1, <2>2
<1>3. CASE d = c
  <2>1. CASE pc'[c] \notin {"card", "question", "next", "commit"}
    BY <1>3, <2>1 DEF Graded
  <2>2. CASE LockSession(c) \/ LockCard(c) \/ LockQuestion(c) \/ AskNext(c)
    <3>1. /\ UNCHANGED <<card, session, item, req, sent>>
          /\ pc[c] \in {"session", "card", "question", "next"}
          /\ pc'[c] \in {"card", "question", "next", "commit"} =>
                (pc[c] = "session" <=> pc'[c] = "card") /\ (pc[c] = "card" <=> pc'[c] = "question")
          /\ pc'[c] = "commit" => pc[c] = "next"
      BY <2>2, LocksLead DEF AskNext, AskFor, db
    <3>2. Asked(c)' = Asked(c)
      BY <3>1 DEF Asked
    <3>3. pc[c] = "session" /\ pc'[c] = "card" =>
             session[Asked(c).session].status = "active" /\ ~item[Asked(c).session][Asked(c).item].done
      BY <2>2 DEF LockSession, LockCard, LockQuestion, AskNext, Decline
    <3>4. pc[c] = "question" /\ pc'[c] = "next" =>
             /\ Eligible(Asked(c).session, Asked(c).item)
             /\ item[Asked(c).session][Asked(c).item].question = VersionOf(Asked(c).session, Asked(c).item)
      BY <2>2 DEF LockSession, LockCard, LockQuestion, AskNext, Decline
    <3> QED
      BY <1>3, <3>1, <3>2, <3>3, <3>4 DEF Graded, Eligible, VersionOf
  <2>3. pc'[c] \in {"card", "question", "next", "commit"} => LockSession(c) \/ LockCard(c) \/ LockQuestion(c) \/ AskNext(c)
    BY DEF StepOf, Step, AnswerAgain, Answer, Open, Fail, LookUp, Insert, Commit, Read, CountItems,
       CountReviewed, FindPending, Refresh, Flush, Decide, Abandon, Create, Asks, LookAtQuestion, WriteQuestion, ShareRows, Return
  <2> QED
    BY <2>1, <2>2, <2>3
<1> QED
  BY <1>2, <1>3

\* A question is written only by who finds its row free.
LEMMA AsksWrote ==
    ASSUME Typed, NEW c \in Calls, Asks(c), NEW s, NEW i, i \in Wrote(c, s)'
    PROVE  \/ i \in Wrote(c, s)
           \/ s = work[c].session /\ QuestionIsFree(c, s, i)
           \/ s = work[c].session /\ KeyIsFree(c, s, i) /\ IsNew(item[s][i])
<1> USE Frame
<1>1. /\ work[c] \in Work /\ work[c].new \cap work[c].stale = {}
      /\ pc[c] = "look" => (work[c].new \cup work[c].stale) \cap work[c].left = {}
      /\ pc[c] \in {"write", "key"} =>
            \E j \in work[c].left : (work[c].new \cup work[c].stale) \cap work[c].left = {j}
  BY DEF Asks, LookAtQuestion, WriteQuestion, ShareRows, Typed, Viewed, Paced
<1>2. CASE End(c)
  BY <1>2, NoWorkIsWork DEF Wrote
<1>3. CASE LookAtQuestion(c)
  <2>1. PICK j \in FirstOf(work[c].left) :
          \/ work' = [work EXCEPT ![c].new = @ \cup {j}] /\ GoTo(c, "write")
          \/ work' = [work EXCEPT ![c].stale = @ \cup {j}] /\ GoTo(c, "write")
          \/ work' = [work EXCEPT ![c].left = @ \ {j}] /\ UNCHANGED pc
    BY <1>3 DEF LookAtQuestion
  <2>2. /\ work'[c].session = work[c].session
        /\ \/ work'[c].new \cup work'[c].stale = work[c].new \cup work[c].stale \cup {j} /\ work'[c].left = work[c].left
           \/ work'[c].new = work[c].new /\ work'[c].stale = work[c].stale
              /\ work'[c].left = work[c].left \ {j}
    BY <2>1 DEF Typed, TypedCalls, Work
  <2>3. pc[c] = "look" /\ pc'[c] \in {"look", "write"} /\ j \in work[c].left
    BY <1>3, <2>1 DEF LookAtQuestion, FirstOf
  <2> QED
    BY <1>1, <2>2, <2>3 DEF Wrote
<1>4. ASSUME NEW j \in work[c].left, j \in work[c].new \cup work[c].stale,
             pc[c] \in {"write", "key"},
             \/ work' = [work EXCEPT ![c].left = @ \ {j}] /\ GoTo(c, "look")
             \/ UNCHANGED work /\ GoTo(c, "key")
      PROVE  i \in Wrote(c, s) \/ (i = j /\ s = work[c].session)
  <2>1. /\ work'[c].session = work[c].session
        /\ work'[c].new = work[c].new /\ work'[c].stale = work[c].stale
        /\ \/ work'[c].left = work[c].left \ {j} /\ pc'[c] = "look"
           \/ work'[c].left = work[c].left /\ pc'[c] = "key"
    BY <1>4 DEF Typed, TypedCalls, Work
  <2>2. (work[c].new \cup work[c].stale) \cap work[c].left = {j}
    BY <1>1, <1>4
  <2> QED
    BY <2>1, <2>2 DEF Wrote
<1>5. CASE WriteQuestion(c) /\ ~End(c)
  <2>1. PICK j \in work[c].left :
          \/ /\ j \in work[c].stale /\ QuestionIsFree(c, work[c].session, j)
             /\ work' = [work EXCEPT ![c].left = @ \ {j}] /\ GoTo(c, "look")
          \/ /\ j \in work[c].new /\ KeyIsFree(c, work[c].session, j) /\ IsNew(item[work[c].session][j])
             /\ GoTo(c, "key") /\ UNCHANGED work
    BY <1>5 DEF WriteQuestion
  <2>2. pc[c] = "write"
    BY <1>5 DEF WriteQuestion
  <2>3. i \in Wrote(c, s) \/ (i = j /\ s = work[c].session)
    BY <1>4, <2>1, <2>2
  <2> QED
    BY <2>1, <2>3
<1>6. CASE ShareRows(c)
  <2>1. PICK j \in work[c].left \cap work[c].new :
          work' = [work EXCEPT ![c].left = @ \ {j}] /\ GoTo(c, "look")
    BY <1>6 DEF ShareRows
  <2>2. pc[c] = "key"
    BY <1>6 DEF ShareRows
  <2>3. i \in Wrote(c, s) \/ (i = j /\ s = work[c].session)
    BY <1>4, <2>1, <2>2
  <2> QED
    BY <2>1, <2>2, <2>3 DEF Wrote
<1> QED
  BY <1>2, <1>3, <1>5, <1>6 DEF Asks

LEMMA AskingIsBegun ==
    ASSUME Typed, NEW c \in Calls, StepOf(c), pc'[c] \in AskingLabels
    PROVE  Asks(c) \/ (Decide(c) /\ pc'[c] = "look")
<1> USE Frame
<1>1. Decide(c) => pc'[c] \notin {"write", "key"}
  BY DecideLeads
<1>2. LockSession(c) \/ LockCard(c) \/ LockQuestion(c) => pc'[c] \notin AskingLabels
  BY LocksLead
<1> QED
  BY <1>1, <1>2 DEF StepOf, Step, AnswerAgain, Answer, Open, Fail, LookUp, Insert, AskNext, AskFor,
     Commit, Read, CountItems, CountReviewed, FindPending, Refresh, Flush, Abandon, Create, Asks, Return

LEMMA QuestionsAreFree ==
    ASSUME GradedInv, NEW c \in Calls, StepOf(c), NEW s \in Nat \ {0}, NEW i \in Nat, LocksQuestion(c, s, i)'
    PROVE  LocksQuestion(c, s, i) \/ QuestionIsFree(c, s, i)
<1> USE Frame DEF GradedInv
<1>1. CASE Asks(c)
  <2>1. i \in Wrote(c, s)'
    <3>1. pc'[c] \notin {"next", "commit"}
      BY <1>1, AsksIs DEF KeepsAsking
    <3> QED
      BY <3>1 DEF LocksQuestion
  <2>2. ASSUME s = work[c].session, KeyIsFree(c, s, i), IsNew(item[s][i]) PROVE QuestionIsFree(c, s, i)
    <3> SUFFICES ASSUME NEW d \in Calls \ {c}, pc[d] \in {"next", "commit"}, Asked(d).session = s, Asked(d).item = i
                 PROVE  FALSE
      BY <2>2 DEF QuestionIsFree, KeyIsFree, LocksQuestion
    <3>1. item[s][i].question = card[item[s][i].card].version
      BY DEF Graded, VersionOf
    <3>2. item[s][i] \in Items
      BY AskedIs
    <3> QED
      BY <2>2, <3>1, <3>2 DEF IsNew, Items, Typed, TypedRows
  <2> QED
    BY <1>1, <2>1, <2>2, AsksWrote DEF LocksQuestion
<1>2. Calm(c)
  BY CallsAreCalm
<1>3. CASE pc'[c] \notin AskingLabels
  <2>1. Wrote(c, s)' = {}
    <3>1. pc'[c] # "commit" => work'[c].new \cup work'[c].stale = {}
      BY <1>2, <1>3 DEF Calm, Viewed
    <3>2. pc'[c] = "commit" => work'[c].session = 0
      BY <1>2 DEF Calm, Placed
    <3> QED
      BY <3>1, <3>2 DEF Wrote
  <2>2. pc'[c] \in {"next", "commit"} /\ Asked(c)'.session = s /\ Asked(c)'.item = i
    BY <2>1 DEF LocksQuestion
  <2>3. LockQuestion(c) \/ AskNext(c)
    <3>1. ~LockSession(c) /\ ~LockCard(c)
      BY <2>2, LocksLead DEF LockSession, LockCard
    <3>2. ~Asks(c)
      BY <2>2, AsksIs DEF KeepsAsking
    <3>3. ~Decide(c)
      BY <2>2, DecideLeads
    <3> QED
      BY <2>2, <3>1, <3>2, <3>3 DEF StepOf, Step, AnswerAgain, Answer, Open, Fail, LookUp, Insert,
         Commit, Read, CountItems, CountReviewed, FindPending, Refresh, Flush, Abandon, Create, Asks, Return
  <2>4. Asked(c)' = Asked(c)
    BY <2>3 DEF LockQuestion, AskNext, Asked
  <2> QED
    BY <2>2, <2>3, <2>4 DEF LockQuestion, AskNext, LocksQuestion
<1>4. CASE Decide(c) /\ pc'[c] = "look"
  <2>1. pc[c] = "decide"
    BY <1>4 DEF Decide
  <2>2. work'[c].new = work[c].new /\ work'[c].stale = work[c].stale
    <3>1. ~End(c) /\ pc'[c] \notin {"create", "abandon"}
      BY <1>4, Frame
    <3> QED
      BY <1>4, <3>1, DecideLeads DEF KeepsRow
  <2>3. work[c].new \cup work[c].stale = {}
    BY <1>4 DEF Decide, Typed, Viewed
  <2> QED
    BY <1>4, <2>2, <2>3 DEF LocksQuestion, Wrote
<1> QED
  BY <1>1, <1>3, <1>4, AskingIsBegun

LEMMA OneWriterStays == GradedInv /\ [Next]_vars => OneWriter'
<1> SUFFICES ASSUME GradedInv, [Next]_vars PROVE OneWriter'
  OBVIOUS
<1> USE DEF GradedInv
<1>1. ASSUME NEW c \in Calls, StepOf(c) PROVE OneWriter'
  <2>1. ASSUME NEW d \in Calls \ {c}, NEW s \in Nat \ {0}, NEW i \in Nat, LocksQuestion(d, s, i)'
        PROVE  LocksQuestion(d, s, i)
    <3>1. pc'[d] = pc[d] /\ work'[d] = work[d]
      BY <1>1, CallsAreApart DEF Own
    <3>2. pc[d] \in AnswerLabels => Asked(d)' = Asked(d)
      BY <1>1, AskedStays
    <3> QED
      BY <2>1, <3>1, <3>2 DEF LocksQuestion, Wrote
  <2>2. ASSUME NEW d \in Calls, NEW e \in Calls, NEW s \in Nat \ {0}, NEW i \in Nat,
               LocksQuestion(d, s, i)', LocksQuestion(e, s, i)', d # e
        PROVE  FALSE
    <3>1. \A x \in Calls : \A y \in Calls \ {x} : QuestionIsFree(x, s, i) => ~LocksQuestion(y, s, i)
      BY DEF QuestionIsFree
    <3> QED
      BY <1>1, <2>1, <2>2, <3>1, QuestionsAreFree DEF OneWriter
  <2> QED
    BY <2>2 DEF OneWriter
<1>2. CASE (\E k \in Cards : EditCard(k)) \/ UNCHANGED vars
  <2>1. UNCHANGED <<pc, req, work, sent>>
    BY <1>2 DEF EditCard, vars
  <2> QED
    BY <2>1 DEF OneWriter, LocksQuestion, Wrote, Asked
<1> QED
  BY <1>1, <1>2, NextIsStepOf

LEMMA EditsKeepGraded ==
    ASSUME GradedInv, NEW k \in Cards, EditCard(k), NEW d \in Calls
    PROVE  Graded(d)'
<1>1. UNCHANGED <<session, item, pc, req, sent>> /\ Asked(d)' = Asked(d)
      /\ \A m \in Cards \ {k} : card'[m] = card[m]
  BY DEF EditCard, Asked, GradedInv, Typed, TypedRows
<1>2. CASE pc[d] \in {"next", "commit"}
  <2>1. AskedCard(d) \in Cards \ {k}
    BY <1>2, AskedIs DEF GradedInv, EditCard, CardIsFree, LocksCard
  <2>2. Graded(d)
    BY DEF GradedInv
  <2> QED
    BY <1>1, <2>1, <2>2 DEF Graded, Eligible, VersionOf, AskedCard
<1>3. CASE pc[d] \notin {"next", "commit"}
  BY <1>1, <1>3 DEF Graded, GradedInv
<1> QED
  BY <1>2, <1>3

LEMMA InitGradedInv == Init => GradedInv
<1>1. Init => \A c \in Calls : Changes(c) /\ Graded(c)
  BY DEF Init, Changes, Graded
<1>2. Init => OneWriter
  BY NoWorkIsWork DEF Init, OneWriter, LocksQuestion, Wrote
<1> QED
  BY <1>1, <1>2, InitIsTyped, InitIsOneHolder DEF GradedInv

LEMMA GradedInvStays == GradedInv /\ [Next]_vars => GradedInv'
<1> SUFFICES ASSUME GradedInv, [Next]_vars PROVE GradedInv'
  OBVIOUS
<1>1. Typed' /\ OneHolder' /\ OneWriter'
  BY TypedStays, OneHolderStays, OneWriterStays DEF GradedInv
<1>2. ASSUME NEW c \in Calls, StepOf(c) PROVE \A d \in Calls : Changes(d)' /\ Graded(d)'
  BY <1>2, ChangesStays, GradedStays DEF GradedInv
<1>3. ASSUME NEW k \in Cards, EditCard(k) PROVE \A d \in Calls : Changes(d)' /\ Graded(d)'
  <2>1. UNCHANGED <<pc, work>>
    BY <1>3 DEF EditCard
  <2> QED
    BY <1>3, <2>1, EditsKeepGraded DEF Changes, GradedInv
<1>4. ASSUME UNCHANGED vars PROVE \A d \in Calls : Changes(d)' /\ Graded(d)'
  BY <1>4 DEF vars, GradedInv, Changes, Graded, Asked, Eligible, VersionOf
<1>5. \A d \in Calls : Changes(d)' /\ Graded(d)'
  BY <1>2, <1>3, <1>4, NextIsStepOf
<1> QED
  BY <1>1, <1>5 DEF GradedInv

LEMMA AnswersAreCommits ==
    ASSUME Typed, [Next]_vars, log' # log
    PROVE  \E c \in Calls : StepOf(c) /\ Commits(c)
<1>1. \E c \in Calls : StepOf(c)
  BY NextIsStepOf DEF EditCard, vars
<1> QED
  BY <1>1, StepEffects DEF Writes, Creates

\* Rows and calls are typed, every question a device holds or has answered is one of an
\* item there is, and where a call stands determines what it holds, has loaded and is
\* about to write (the handlers of routers/reviews.py between their statements).
THEOREM RowsAndCallsAreTyped == Spec => []Typed
<1>1. GradedInv => Typed
  BY DEF GradedInv
<1> QED
  BY <1>1, InitGradedInv, GradedInvStays, PTL DEF Spec

\* What is graded is the card as it is, in a session that is still active, however
\* edits, other devices and openings interleave with the statements of an answer: the
\* locks that submit_review_feedback takes on session, card and question, and the guard
\* of the unlocked writers, suffice (routers/reviews.py).
THEOREM AnswersAreGradedWhenCurrent == Spec => GradedWhenCurrent
<1> DEFINE A == log' # log =>
                   LET q == log'[Len(log')].question
                       k == card[item[q.session][q.item].card]
                   IN k.eligible /\ k.version = q.version /\ session[q.session].status = "active"
<1>1. GradedInv /\ [Next]_vars => A
  <2> SUFFICES ASSUME GradedInv, [Next]_vars, log' # log PROVE A
    OBVIOUS
  <2>1. PICK c \in Calls : StepOf(c) /\ Commits(c)
    BY AnswersAreCommits DEF GradedInv
  <2> DEFINE q == Asked(c)
             entry == [action |-> req[c].action, correct |-> Correct(c),
                       question |-> [q EXCEPT !.version = item[q.session][q.item].question]]
  <2>2. /\ entry \in Logged /\ log' = Append(log, entry)
        /\ entry.question.session = q.session /\ entry.question.item = q.item
        /\ entry.question.version = item[q.session][q.item].question
    BY <2>1, CommitLogs DEF GradedInv
  <2>3. pc[c] = "commit"
    BY <2>1 DEF Commits, Commit
  <2>4. /\ session[q.session].status = "active"
        /\ card[item[q.session][q.item].card].eligible
        /\ item[q.session][q.item].question = card[item[q.session][q.item].card].version
    BY <2>3 DEF GradedInv, Graded, Eligible, VersionOf
  <2> HIDE DEF entry, q
  <2>5. log'[Len(log')] = entry
    <3>1. log \in Seq(Logged)
      BY DEF GradedInv, Typed, TypedRows
    <3> QED
      BY <2>2, <3>1
  <2> QED
    BY <2>2, <2>4, <2>5
<1>2. [][A]_vars <=> GradedWhenCurrent
  BY DEF GradedWhenCurrent
<1> HIDE DEF A
<1> QED
  BY <1>1, <1>2, InitGradedInv, GradedInvStays, PTL DEF Spec

-----------------------------------------------------------------------------
(* The status of a session.                                                *)

\* Who is about to complete a session has found nothing pending, and nothing comes back.
PendingIsOver(c) ==
    work[c].session # 0 /\ work[c].row.status = "completed" => Pending(work[c].session) = {}

StatusInv == GradedInv /\ StatusTellsPending /\ \A c \in Calls : PendingIsOver(c)

LEMMA NothingComesBack ==
    ASSUME GradedInv, NEW c \in Calls, StepOf(c), NEW s \in DOMAIN item, Pending(s) = {}
    PROVE  Pending(s)' = {}
<1> USE DEF GradedInv
<1>1. CASE UNCHANGED <<session, item, log>>
  BY <1>1 DEF Pending, ItemsOf
<1>2. CASE Writes(c)
  BY <1>2 DEF Writes, SameItems, Pending, ItemsOf
<1>3. CASE Creates(c)
  <2>1. item'[s] = item[s]
    BY <1>3, CreateWrites
  <2> QED
    BY <2>1 DEF Pending, ItemsOf
<1>4. CASE Commits(c)
  <2>1. pc[c] = "commit" /\ Asked(c).item \in DOMAIN item[Asked(c).session]
    BY <1>4, AskedIs DEF Commits, Commit
  <2>2. Asked(c).item \in Pending(Asked(c).session)
    BY <2>1 DEF Graded, Pending, ItemsOf
  <2>3. Asked(c).session # s
    BY <2>2
  <2>4. item'[s] = item[s]
    BY <1>4, <2>3, CommitWrites
  <2> QED
    BY <2>4 DEF Pending, ItemsOf
<1> QED
  BY <1>1, <1>2, <1>3, <1>4, StepEffects

LEMMA RefreshFinds ==
    ASSUME Typed, NEW c \in Calls, PendingIsOver(c), UNCHANGED item, NEW label, NEW field, NEW next,
           Refresh(c, label, field, next),
           \/ label = "total" /\ field = "total" /\ next = "reviewed"
           \/ label = "reviewed" /\ field = "reviewed" /\ next = "pending"
           \/ label = "pending" /\ field = "status" /\ next = "flush"
    PROVE  PendingIsOver(c)'
<1> DEFINE s == work[c].session
           progress == Progress(work[c].row, item[s])
<1>1. pc[c] \in RefreshLabels /\ work' = [work EXCEPT ![c].row[field] = progress[field]]
  BY DEF Refresh
<1>2. s \in DOMAIN item /\ item[s] \in Seq(Items) /\ work[c].row \in Loaded /\ s # 0
  BY <1>1 DEF Typed, TypedRows, TypedCalls, Work, Placed
<1>3. progress \in Loaded
      /\ progress.status = IF \A i \in DOMAIN item[s] : item[s][i].done THEN "completed" ELSE work[c].row.status
  BY <1>2, ProgressIs
<1> HIDE DEF progress
<1>4. work'[c] = [work[c] EXCEPT !.row = [work[c].row EXCEPT ![field] = progress[field]]]
  BY <1>1 DEF Typed, TypedCalls
<1>5. work'[c].session = s /\ work'[c].row = [work[c].row EXCEPT ![field] = progress[field]]
  BY <1>4 DEF Typed, TypedCalls, Work
<1>6. work'[c].row.status = "completed" =>
         work[c].row.status = "completed" \/ \A i \in DOMAIN item[s] : item[s][i].done
  BY <1>2, <1>3, <1>5 DEF Loaded
<1>7. (\A i \in DOMAIN item[s] : item[s][i].done) => Pending(s) = {}
  BY DEF Pending, ItemsOf
<1> HIDE DEF s
<1>8. work'[c].row.status = "completed" => Pending(s) = {}
  BY <1>2, <1>6, <1>7 DEF PendingIsOver, s
<1> QED
  BY <1>5, <1>8 DEF PendingIsOver, Pending, ItemsOf

LEMMA PendingIsOverStays ==
    ASSUME GradedInv, NEW c \in Calls, PendingIsOver(c), NEW d \in Calls, StepOf(d)
    PROVE  PendingIsOver(c)'
<1> USE Frame DEF GradedInv
<1>1. ASSUME work'[c].session = work[c].session, work'[c].row.status = work[c].row.status
      PROVE  PendingIsOver(c)'
  <2>1. SUFFICES ASSUME work[c].session # 0, work[c].row.status = "completed"
                 PROVE  Pending(work[c].session)' = {}
    BY <1>1 DEF PendingIsOver, Pending, ItemsOf
  <2>2. Pending(work[c].session) = {} /\ work[c].session \in DOMAIN item
    BY <2>1 DEF PendingIsOver, Typed, TypedRows, Placed
  <2>3. \A s \in DOMAIN item : Pending(s) = {} => {i \in DOMAIN item'[s] : ~item'[s][i].done} = {}
    BY NothingComesBack DEF Pending, ItemsOf
  <2> QED
    BY <1>1, <2>2, <2>3 DEF Pending, ItemsOf
<1>2. CASE c # d
  <2>1. work'[c] = work[c]
    BY <1>2, CallsAreApart DEF Own
  <2> QED
    BY <1>1, <2>1
<1>3. CASE c = d
  <2>1. CASE work'[c] = work[c]
    BY <1>1, <2>1
  <2>2. CASE work'[c] = NoWork
    BY <2>2, NoWorkIsWork DEF PendingIsOver
  <2>3. CASE \/ \E a \in Actions : AnswerAgain(c, a)
             \/ \E a \in Actions, q \in shown, correct \in BOOLEAN : Answer(c, a, q, correct)
             \/ \E r \in Openings \cup {Overview} : Open(c, r)
             \/ LookUp(c) \/ Insert(c) \/ LockSession(c) \/ LockCard(c) \/ LockQuestion(c)
             \/ Fail(c) \/ Commit(c) \/ Create(c) \/ Return(c)
    BY <2>1, <2>2, <2>3, LocksLead DEF AnswerAgain, Answer, Open, LookUp, Insert, Fail, Commit, Create, Return
  <2>4. CASE AskNext(c)
    <3>1. pc'[c] \in {"commit", "done"}
      BY <2>4 DEF AskNext, AskFor
    <3>2. work'[c].session = 0
      BY <1>3, <3>1, CallsAreCalm, NoWorkIsWork DEF Calm, Placed
    <3> QED
      BY <3>2 DEF PendingIsOver
  <2>5. CASE Read(c)
    <3>1. ASSUME NEW s \in DOMAIN session, session[s].status = "active",
                 work' = [work EXCEPT ![c].session = s, ![c].loaded = session[s], ![c].row = session[s]]
          PROVE  PendingIsOver(c)'
      <4>1. work'[c].row = session[s]
        BY <3>1 DEF Typed, TypedCalls, Work
      <4> QED
        BY <3>1, <4>1 DEF PendingIsOver
    <3> QED
      BY <2>1, <2>5, <3>1 DEF Read
  <2>6. CASE CountItems(c) \/ CountReviewed(c) \/ FindPending(c)
    <3>1. UNCHANGED item
      BY <2>6 DEF CountItems, CountReviewed, FindPending, Refresh, db
    <3> QED
      BY <2>6, <3>1, RefreshFinds DEF CountItems, CountReviewed, FindPending
  <2>7. CASE Flush(c)
    <3>1. (work'[c].session = work[c].session /\ work'[c].row = work[c].row) \/ work'[c] = NoWork
      BY <2>7 DEF Flush, Typed, TypedCalls, Work
    <3> QED
      BY <1>1, <2>2, <3>1
  <2>8. CASE Decide(c)
    <3>1. ASSUME NEW view, work' = [work EXCEPT ![c].view = view]
          PROVE  work'[c].session = work[c].session /\ work'[c].row = work[c].row
      BY <3>1 DEF Typed, TypedCalls, Work
    <3>2. \/ work'[c] = work[c] \/ work'[c] = NoWork
          \/ \E view : work' = [work EXCEPT ![c].view = view]
      BY <2>8 DEF Decide
    <3> QED
      BY <1>1, <2>1, <2>2, <3>1, <3>2
  <2>9. CASE Abandon(c)
    <3>1. work' = [work EXCEPT ![c].row.status = "abandoned", ![c].held = TRUE]
      BY <2>9 DEF Abandon
    <3>2. work'[c].row.status = "abandoned"
      BY <3>1 DEF Typed, TypedCalls, Work, Loaded
    <3> QED
      BY <3>2 DEF PendingIsOver
  <2>10. CASE Asks(c)
    <3>1. CASE End(c)
      BY <3>1, NoWorkIsWork DEF PendingIsOver, NoWork, NoSession
    <3>2. CASE KeepsAsking(c)
      BY <1>1, <3>2 DEF KeepsAsking
    <3> QED
      BY <2>10, <3>1, <3>2, AsksIs
  <2> QED
    BY <1>3, <2>3, <2>4, <2>5, <2>6, <2>7, <2>8, <2>9, <2>10 DEF StepOf, Step, Asks
<1> QED
  BY <1>2, <1>3

\* What Written makes of a session is true of what is pending in it.
LEMMA WrittenTellsPending ==
    ASSUME StatusInv, NEW c \in Calls, NEW s \in DOMAIN session
    PROVE  /\ Written(c)[s].status = "active" => Pending(s) # {}
           /\ Written(c)[s].status = "completed" => Pending(s) = {}
<1>1. CASE s = work[c].session /\ work[c].row.status # work[c].loaded.status
  <2>1. s # 0 /\ s \in DOMAIN session
    BY DEF StatusInv, GradedInv, Typed, TypedRows
  <2>2. work[c].loaded.status = "active" /\ PendingIsOver(c)
    BY <1>1, <2>1 DEF StatusInv, GradedInv, Typed, Placed
  <2>3. Written(c)[s].status = work[c].row.status
    BY <1>1, WrittenIs DEF StatusInv, GradedInv
  <2> QED
    BY <1>1, <2>1, <2>2, <2>3 DEF PendingIsOver
<1>2. CASE ~(s = work[c].session /\ work[c].row.status # work[c].loaded.status)
  <2>1. Written(c)[s].status = session[s].status
    BY <1>2, WrittenIs DEF StatusInv, GradedInv
  <2> QED
    BY <2>1 DEF StatusInv, StatusTellsPending
<1> QED
  BY <1>1, <1>2

LEMMA CallsKeepStatus ==
    ASSUME StatusInv, NEW c \in Calls, StepOf(c)
    PROVE  StatusTellsPending'
<1> DEFINE Left(s) == {i \in DOMAIN item'[s] : ~item'[s][i].done}
           Told(s) == /\ session'[s].status = "active" => Left(s) # {}
                      /\ session'[s].status = "completed" => Left(s) = {}
<1> SUFFICES ASSUME NEW s \in DOMAIN session' PROVE Told(s)
  BY DEF StatusTellsPending, Pending, ItemsOf
<1>1. Typed /\ GradedInv /\ DOMAIN item = DOMAIN session
      /\ \A t \in DOMAIN session : /\ session[t].status = "active" => Pending(t) # {}
                                   /\ session[t].status = "completed" => Pending(t) = {}
  BY DEF StatusInv, GradedInv, Typed, TypedRows, StatusTellsPending
<1>2. ASSUME s \in DOMAIN session, item'[s] = item[s] PROVE Left(s) = Pending(s)
  BY <1>2 DEF Pending, ItemsOf
<1>3. CASE UNCHANGED <<session, item, log>>
  BY <1>1, <1>2, <1>3
<1>4. CASE Writes(c)
  <2>1. s \in DOMAIN session /\ session'[s] = Written(c)[s]
    BY <1>1, <1>4, WrittenIs DEF Writes
  <2>2. DOMAIN item'[s] = DOMAIN item[s]
        /\ \A i \in DOMAIN item[s] : item'[s][i].done <=> item[s][i].done
    BY <1>1, <1>4, <2>1 DEF Writes, SameItems
  <2>3. Left(s) = Pending(s)
    BY <2>2 DEF Pending, ItemsOf
  <2> QED
    BY <2>1, <2>3, WrittenTellsPending
<1>5. CASE Creates(c)
  <2>1. CASE s \in DOMAIN session
    <3>1. session'[s] = Written(c)[s] /\ item'[s] = item[s]
      BY <1>1, <1>5, <2>1, CreateWrites
    <3> QED
      BY <1>2, <2>1, <3>1, WrittenTellsPending
  <2>2. CASE s \notin DOMAIN session
    <3>1. /\ session'[s].status = "active" /\ DOMAIN item'[s] # {}
          /\ \A i \in DOMAIN item'[s] : ~item'[s][i].done
      BY <1>1, <1>5, <2>2, CreateWrites
    <3> QED
      BY <3>1
  <2> QED
    BY <2>1, <2>2
<1>6. CASE Commits(c)
  <2> DEFINE t == Asked(c).session
             after == WithQuestions(c, AfterAnswer(c))
  <2>1. /\ t \in DOMAIN session /\ DOMAIN session' = DOMAIN session
        /\ item'[t] = after
        /\ session'[t].status = IF \A i \in DOMAIN after : after[i].done
                                THEN "completed" ELSE session[t].status
        /\ \A u \in DOMAIN item \ {t} : item'[u] = item[u] /\ session'[u] = session[u]
    BY <1>1, <1>6, CommitWrites
  <2>2. session[t].status = "active"
    <3>1. pc[c] = "commit"
      BY <1>6 DEF Commits, Commit
    <3> QED
      BY <1>1, <3>1 DEF GradedInv, Graded
  <2> HIDE DEF t, after
  <2>3. CASE s = t
    BY <2>1, <2>2, <2>3
  <2>4. CASE s # t
    <3>1. s \in DOMAIN session /\ item'[s] = item[s] /\ session'[s] = session[s]
      BY <1>1, <2>1, <2>4
    <3> QED
      BY <1>1, <1>2, <3>1
  <2> QED
    BY <2>3, <2>4
<1> QED
  BY <1>1, <1>3, <1>4, <1>5, <1>6, StepEffects

LEMMA InitStatusInv == Init => StatusInv
<1> SUFFICES ASSUME Init PROVE StatusInv
  OBVIOUS
<1>1. DOMAIN session = {} /\ \A c \in Calls : work[c] = NoWork
  BY DEF Init
<1> QED
  BY <1>1, InitGradedInv, NoWorkIsWork DEF StatusInv, StatusTellsPending, PendingIsOver

LEMMA StatusInvStays == StatusInv /\ [Next]_vars => StatusInv'
<1> SUFFICES ASSUME StatusInv, [Next]_vars PROVE StatusInv'
  OBVIOUS
<1>1. GradedInv'
  BY GradedInvStays DEF StatusInv
<1>2. ASSUME NEW c \in Calls, StepOf(c)
      PROVE  StatusTellsPending' /\ \A d \in Calls : PendingIsOver(d)'
  BY <1>2, CallsKeepStatus, PendingIsOverStays DEF StatusInv
<1>3. CASE (\E k \in Cards : EditCard(k)) \/ UNCHANGED vars
  <2>1. UNCHANGED <<session, item, work>>
    BY <1>3 DEF EditCard, vars
  <2> QED
    BY <1>1, <2>1 DEF StatusInv, StatusTellsPending, PendingIsOver, Pending, ItemsOf
<1> QED
  BY <1>1, <1>2, <1>3, NextIsStepOf DEF StatusInv

\* A session is active as long as something in it is pending, and no longer, whoever
\* counts its progress without locks in the meantime: what _refresh_session_progress
\* found stays true until it is written (routers/reviews.py).
THEOREM StatusIsTrue == Spec => []StatusTellsPending
<1>1. StatusInv => StatusTellsPending
  BY DEF StatusInv
<1> QED
  BY <1>1, InitStatusInv, StatusInvStays, PTL DEF Spec

-----------------------------------------------------------------------------
(* Answers.                                                                *)

\* The items and the actions that have an answer are those that say so, and have one.
LogNames ==
    \A n \in DOMAIN log : /\ rows[log[n].action] = "succeeded"
                          /\ Names(log[n].question)
                          /\ item[log[n].question.session][log[n].question.item].done

LogOnce ==
    \A n, m \in DOMAIN log :
        \/ log[n].action = log[m].action
        \/ /\ log[n].question.session = log[m].question.session
           /\ log[n].question.item = log[m].question.item
        => n = m

LogAll ==
    /\ \A a \in Actions : rows[a] = "succeeded" => \E n \in DOMAIN log : log[n].action = a
    /\ \A s \in DOMAIN item : \A i \in DOMAIN item[s] :
          item[s][i].done => \E n \in DOMAIN log : log[n].question.session = s
                                                   /\ log[n].question.item = i

\* The row of the client action is inserted, not committed, while it is held.
Processing == \A c \in Calls : HoldsAction(c) => rows[req[c].action] = "none"

LogInv == GradedInv /\ LogNames /\ LogOnce /\ LogAll /\ Processing

\* What the commit of an answer does, of what matters to the log.
Answers(c, e) ==
    LET s == e.question.session
        i == e.question.item
        n == Len(log) + 1
    IN /\ n \notin DOMAIN log /\ DOMAIN log' = DOMAIN log \cup {n}
       /\ log'[n] = e /\ \A m \in DOMAIN log : log'[m] = log[m]
       /\ s \in DOMAIN item /\ i \in DOMAIN item[s] /\ ~item[s][i].done
       /\ DOMAIN item' = DOMAIN item
       /\ \A t \in DOMAIN item \ {s} : item'[t] = item[t]
       /\ \A j \in DOMAIN item[s] : /\ j \in DOMAIN item'[s]
                                    /\ item'[s][j].card = item[s][j].card
                                    /\ item'[s][j].repeat = item[s][j].repeat
                                    /\ item'[s][j].done <=> (j = i \/ item[s][j].done)
       /\ IF ~e.correct /\ NeedsRepeat(item[s], i)
          THEN \E m : /\ m \notin DOMAIN item[s] /\ DOMAIN item'[s] = DOMAIN item[s] \cup {m}
                      /\ item'[s][m].card = item[s][i].card /\ item'[s][m].repeat
                      /\ ~item'[s][m].done
          ELSE DOMAIN item'[s] = DOMAIN item[s]
       /\ e.action = req[c].action /\ e.action \in Actions /\ rows'[e.action] = "succeeded"
       /\ HoldsAction(c)
       /\ \A a \in Actions \ {e.action} : rows'[a] = rows[a]

LEMMA CommitAnswers ==
    ASSUME GradedInv, NEW c \in Calls, StepOf(c), Commits(c)
    PROVE  \E e \in Logged : Answers(c, e)
<1> DEFINE q == Asked(c)
           s == q.session
           i == q.item
           after == WithQuestions(c, AfterAnswer(c))
           e == [action |-> req[c].action, correct |-> Correct(c),
                 question |-> [q EXCEPT !.version = item[s][i].question]]
           n == Len(log) + 1
<1>1. pc[c] = "commit" /\ Typed /\ log \in Seq(Logged) /\ HoldsAction(c)
  BY DEF Commits, Commit, GradedInv, Typed, TypedRows, HoldsAction
<1>2. e \in Logged /\ log' = Append(log, e) /\ e.question.session = s /\ e.question.item = i
  BY <1>1, CommitLogs
<1>3. e.action = req[c].action /\ (e.correct <=> Correct(c))
  OBVIOUS
<1>4. e.action \in Actions /\ Correct(c) \in BOOLEAN
  BY <1>1, AskedIs
<1>5. /\ s \in DOMAIN item /\ i \in DOMAIN item[s] /\ DOMAIN item' = DOMAIN item
      /\ item'[s] = after /\ \A t \in DOMAIN item \ {s} : item'[t] = item[t]
  BY <1>1, CommitWrites
<1>6. ~item[s][i].done
  BY <1>1 DEF GradedInv, Graded
<1>7. /\ DOMAIN item[s] \subseteq DOMAIN after
      /\ \A j \in DOMAIN item[s] : /\ after[j].card = item[s][j].card
                                   /\ after[j].repeat = item[s][j].repeat
                                   /\ after[j].done <=> (j = i \/ item[s][j].done)
      /\ IF ~Correct(c) /\ NeedsRepeat(item[s], i)
         THEN \E m : /\ m \notin DOMAIN item[s] /\ DOMAIN after = DOMAIN item[s] \cup {m}
                     /\ after[m].card = item[s][i].card /\ after[m].repeat /\ ~after[m].done
         ELSE DOMAIN after = DOMAIN item[s]
  BY <1>1, CommittedItems
<1>8. rows'[req[c].action] = "succeeded" /\ \A a \in Actions \ {req[c].action} : rows'[a] = rows[a]
  <2>1. rows' = [rows EXCEPT ![req[c].action] = "succeeded"]
    BY DEF Commits, Commit
  <2>2. rows \in [Actions -> {"none", "succeeded", "ignored", "failed"}] /\ req[c].action \in Actions
    BY <1>1, <1>3, <1>4 DEF Typed, TypedRows
  <2> QED
    BY <2>1, <2>2
<1> HIDE DEF q, s, i, after, e
<1>9. /\ n \notin DOMAIN log /\ DOMAIN log' = DOMAIN log \cup {n}
      /\ log'[n] = e /\ \A m \in DOMAIN log : log'[m] = log[m]
  BY <1>1, <1>2
<1>10. Answers(c, e)
  <2>2. \A j \in DOMAIN item[s] : /\ j \in DOMAIN item'[s]
                                  /\ item'[s][j].card = item[s][j].card
                                  /\ item'[s][j].repeat = item[s][j].repeat
                                  /\ item'[s][j].done <=> (j = i \/ item[s][j].done)
    BY <1>5, <1>7
  <2>3. IF ~e.correct /\ NeedsRepeat(item[s], i)
        THEN \E m : /\ m \notin DOMAIN item[s] /\ DOMAIN item'[s] = DOMAIN item[s] \cup {m}
                    /\ item'[s][m].card = item[s][i].card /\ item'[s][m].repeat
                    /\ ~item'[s][m].done
        ELSE DOMAIN item'[s] = DOMAIN item[s]
    BY <1>3, <1>5, <1>7
  <2> QED
    BY <1>1, <1>2, <1>3, <1>4, <1>5, <1>6, <1>8, <1>9, <2>2, <2>3 DEF Answers
<1> QED
  BY <1>2, <1>10

\* What any other step does.
Quiet ==
    /\ log' = log
    /\ DOMAIN item \subseteq DOMAIN item'
    /\ \A s \in DOMAIN item : Alike(item'[s], item[s])
    /\ \A s \in DOMAIN item' \ DOMAIN item : \A i \in DOMAIN item'[s] : ~item'[s][i].done /\ ~item'[s][i].repeat

LEMMA OtherStepsAreQuiet ==
    ASSUME Typed, NEW c \in Calls, StepOf(c), ~Commits(c)
    PROVE  Quiet
<1>1. CASE UNCHANGED <<session, item, log>>
  BY <1>1 DEF Quiet, Alike
<1>2. CASE Writes(c)
  BY <1>2 DEF Writes, SameItems, Quiet, Alike
<1>3. CASE Creates(c)
  <2>1. /\ DOMAIN session = DOMAIN item /\ DOMAIN item' = DOMAIN session'
        /\ DOMAIN session' = DOMAIN session \cup {Len(session) + 1}
        /\ \A i \in DOMAIN item'[Len(session) + 1] :
              ~item'[Len(session) + 1][i].done /\ ~item'[Len(session) + 1][i].repeat
        /\ \A s \in DOMAIN session : item'[s] = item[s]
    BY <1>3, CreateWrites
  <2>2. log' = log
    BY <1>3 DEF Creates
  <2> QED
    BY <2>1, <2>2 DEF Quiet, Alike
<1> QED
  BY <1>1, <1>2, <1>3, StepEffects

LEMMA ProcessingStays ==
    ASSUME LogInv, NEW c \in Calls, StepOf(c)
    PROVE  Processing'
<1> SUFFICES ASSUME NEW d \in Calls, HoldsAction(d)' PROVE rows'[req'[d].action] = "none"
  BY DEF Processing
<1>1. Typed /\ OneHolder /\ Processing
  BY DEF LogInv, GradedInv
<1>2. CASE d # c
  <2>1. HoldsAction(d) /\ req'[d] = req[d] /\ pc[d] \in AnswerLabels
    BY <1>1, <1>2, CallsAreApart DEF HoldsAction, Own
  <2>2. req[d].action \in Actions /\ rows[req[d].action] = "none"
    BY <1>1, <2>1, AskedIs DEF Processing
  <2>3. HoldsAction(c) => req[c].action # req[d].action
    BY <1>1, <1>2, <2>1 DEF OneHolder
  <2> QED
    BY <1>1, <2>1, <2>2, <2>3, CallsKeepRows
<1>3. CASE d = c
  <2>1. CASE Insert(c)
    <3>1. pc'[c] = (IF rows[req[c].action] = "none" THEN "session" ELSE "done")
          /\ UNCHANGED <<rows, req>>
      BY <1>1, <2>1, Frame DEF Insert, db
    <3> QED
      BY <1>3, <3>1 DEF HoldsAction
  <2>2. CASE ~Insert(c)
    <3>1. HoldsAction(c)
      BY <1>1, <1>3, <2>2, Frame DEF HoldsAction, StepOf, Step, AnswerAgain, Answer, Open, Fail, LookUp,
         LockSession, LockCard, LockQuestion, AskNext, Commit, Read, CountItems, CountReviewed, FindPending, Refresh,
         Flush, Decide, Abandon, Create, Asks, LookAtQuestion, WriteQuestion, ShareRows, Return
    <3>2. pc'[c] # "done"
      BY <1>3 DEF HoldsAction
    <3>3. UNCHANGED rows /\ req'[c] = req[c]
      BY <1>1, <1>3, <3>2, CallsKeepRows, LocksAreFree
    <3> QED
      BY <1>1, <1>3, <3>1, <3>3 DEF Processing
  <2> QED
    BY <2>1, <2>2
<1> QED
  BY <1>2, <1>3

LEMMA QuietKeepsLog ==
    ASSUME LogInv, Quiet, \A a \in Actions : rows'[a] = "succeeded" <=> rows[a] = "succeeded"
    PROVE  LogNames' /\ LogOnce' /\ LogAll'
<1>1. log \in Seq(Logged) /\ \A n \in DOMAIN log : log[n] \in Logged
  BY DEF LogInv, GradedInv, Typed, TypedRows
<1>2. LogNames'
  <2>1. ASSUME NEW n \in DOMAIN log
        PROVE  /\ rows'[log[n].action] = "succeeded"
               /\ log[n].question.session \in DOMAIN item'
               /\ log[n].question.item \in DOMAIN item'[log[n].question.session]
               /\ item'[log[n].question.session][log[n].question.item].done
    <3>1. /\ rows[log[n].action] = "succeeded" /\ Names(log[n].question) /\ log[n].action \in Actions
          /\ item[log[n].question.session][log[n].question.item].done
      BY <1>1 DEF LogInv, LogNames, Logged
    <3> QED
      BY <3>1 DEF Names, Quiet, Alike
  <2> QED
    BY <2>1 DEF LogNames, Names, Quiet
<1>3. LogOnce'
  BY DEF LogInv, LogOnce, Quiet
<1>4. LogAll'
  <2>1. ASSUME NEW a \in Actions, rows'[a] = "succeeded" PROVE \E n \in DOMAIN log : log[n].action = a
    BY <2>1 DEF LogInv, LogAll
  <2>2. ASSUME NEW s \in DOMAIN item', NEW i \in DOMAIN item'[s], item'[s][i].done
        PROVE  \E n \in DOMAIN log : log[n].question.session = s /\ log[n].question.item = i
    <3>1. s \in DOMAIN item
      BY <2>2 DEF Quiet
    <3>2. i \in DOMAIN item[s] /\ item[s][i].done
      BY <2>2, <3>1 DEF Quiet, Alike
    <3> QED
      BY <3>1, <3>2 DEF LogInv, LogAll
  <2> QED
    BY <2>1, <2>2 DEF LogAll, Quiet
<1> QED
  BY <1>2, <1>3, <1>4

LEMMA AnswerKeepsLog ==
    ASSUME LogInv, NEW c \in Calls, NEW e \in Logged, Answers(c, e)
    PROVE  LogNames' /\ LogOnce' /\ LogAll'
<1> DEFINE s == e.question.session
           i == e.question.item
           n == Len(log) + 1
<1>1. \A m \in DOMAIN log : log[m] \in Logged
  BY DEF LogInv, GradedInv, Typed, TypedRows
<1>2. /\ n \notin DOMAIN log /\ DOMAIN log' = DOMAIN log \cup {n}
      /\ log'[n] = e /\ \A m \in DOMAIN log : log'[m] = log[m]
      /\ s \in DOMAIN item /\ i \in DOMAIN item[s] /\ ~item[s][i].done
      /\ DOMAIN item' = DOMAIN item /\ \A t \in DOMAIN item \ {s} : item'[t] = item[t]
      /\ \A j \in DOMAIN item[s] : /\ j \in DOMAIN item'[s]
                                   /\ item'[s][j].done <=> (j = i \/ item[s][j].done)
      /\ \A j \in DOMAIN item'[s] \ DOMAIN item[s] : ~item'[s][j].done
      /\ e.action \in Actions /\ rows'[e.action] = "succeeded" /\ rows[e.action] = "none"
      /\ \A a \in Actions \ {e.action} : rows'[a] = rows[a]
  BY DEF Answers, LogInv, Processing
<1>3. \A m \in DOMAIN log : /\ rows[log[m].action] = "succeeded" /\ Names(log[m].question)
                            /\ item[log[m].question.session][log[m].question.item].done
                            /\ log[m].action \in Actions
  BY <1>1 DEF LogInv, LogNames, Logged
<1> HIDE DEF n
<1>4. LogNames'
  <2>1. ASSUME NEW m \in DOMAIN log
        PROVE  /\ rows'[log[m].action] = "succeeded"
               /\ log[m].question.session \in DOMAIN item'
               /\ log[m].question.item \in DOMAIN item'[log[m].question.session]
               /\ item'[log[m].question.session][log[m].question.item].done
    BY <1>2, <1>3 DEF Names
  <2> QED
    BY <1>2, <2>1 DEF LogNames, Names
<1>5. LogOnce'
  <2>1. \A m \in DOMAIN log : /\ log[m].action # e.action
                              /\ ~(log[m].question.session = s /\ log[m].question.item = i)
    BY <1>2, <1>3
  <2>2. \A m, k \in DOMAIN log :
            \/ log[m].action = log[k].action
            \/ /\ log[m].question.session = log[k].question.session
               /\ log[m].question.item = log[k].question.item
            => m = k
    BY DEF LogInv, LogOnce
  <2>3. ASSUME NEW m \in DOMAIN log', NEW k \in DOMAIN log', m # k
        PROVE  /\ log'[m].action # log'[k].action
               /\ ~(log'[m].question.session = log'[k].question.session
                    /\ log'[m].question.item = log'[k].question.item)
    <3>1. CASE m = n
      BY <1>2, <2>1, <2>3, <3>1
    <3>2. CASE k = n
      BY <1>2, <2>1, <2>3, <3>2
    <3>3. CASE m # n /\ k # n
      BY <1>2, <2>2, <2>3, <3>3
    <3> QED
      BY <3>1, <3>2, <3>3
  <2> QED
    BY <2>3 DEF LogOnce
<1>6. LogAll'
  <2>1. ASSUME NEW a \in Actions, rows'[a] = "succeeded"
        PROVE  \E m \in DOMAIN log' : log'[m].action = a
    <3>1. CASE a = e.action
      BY <1>2, <3>1
    <3>2. CASE a # e.action
      <4>1. \E m \in DOMAIN log : log[m].action = a
        BY <1>2, <2>1, <3>2 DEF LogInv, LogAll
      <4> QED
        BY <1>2, <4>1
    <3> QED
      BY <3>1, <3>2
  <2>2. ASSUME NEW t \in DOMAIN item', NEW j \in DOMAIN item'[t], item'[t][j].done
        PROVE  \E m \in DOMAIN log' : log'[m].question.session = t /\ log'[m].question.item = j
    <3>1. CASE t = s /\ j = i
      BY <1>2, <3>1
    <3>2. CASE ~(t = s /\ j = i)
      <4>1. t \in DOMAIN item /\ j \in DOMAIN item[t] /\ item[t][j].done
        BY <1>2, <2>2, <3>2
      <4>2. \E m \in DOMAIN log : log[m].question.session = t /\ log[m].question.item = j
        BY <4>1 DEF LogInv, LogAll
      <4> QED
        BY <1>2, <4>2
    <3> QED
      BY <3>1, <3>2
  <2> QED
    BY <2>1, <2>2 DEF LogAll
<1> QED
  BY <1>4, <1>5, <1>6

LEMMA LogInvStays == LogInv /\ [Next]_vars => LogInv'
<1> SUFFICES ASSUME LogInv, [Next]_vars PROVE LogInv'
  OBVIOUS
<1>1. GradedInv'
  BY GradedInvStays DEF LogInv
<1>2. ASSUME NEW c \in Calls, StepOf(c) PROVE LogNames' /\ LogOnce' /\ LogAll' /\ Processing'
  <2>1. Processing'
    BY <1>2, ProcessingStays
  <2>2. CASE Commits(c)
    <3>1. PICK e \in Logged : Answers(c, e)
      BY <1>2, <2>2, CommitAnswers DEF LogInv
    <3> QED
      BY <2>1, <3>1, AnswerKeepsLog
  <2>3. CASE ~Commits(c)
    <3>1. Quiet
      BY <1>2, <2>3, OtherStepsAreQuiet DEF LogInv, GradedInv
    <3>2. ASSUME NEW a \in Actions PROVE rows'[a] = "succeeded" <=> rows[a] = "succeeded"
      <4>1. HoldsAction(c) => rows[req[c].action] = "none"
        BY DEF LogInv, Processing
      <4> QED
        BY <1>2, <2>3, <4>1, CallsKeepRows DEF LogInv, GradedInv
    <3> QED
      BY <2>1, <3>1, <3>2, QuietKeepsLog
  <2> QED
    BY <2>2, <2>3
<1>3. CASE (\E k \in Cards : EditCard(k)) \/ UNCHANGED vars
  <2>1. UNCHANGED <<session, item, rows, log, pc, req>>
    BY <1>3 DEF EditCard, vars
  <2> QED
    BY <1>1, <2>1 DEF LogInv, LogNames, LogOnce, LogAll, Processing, Names, HoldsAction
<1> QED
  BY <1>1, <1>2, <1>3, NextIsStepOf DEF LogInv

LEMMA InitLogInv == Init => LogInv
<1> SUFFICES ASSUME Init PROVE LogInv
  OBVIOUS
<1>1. DOMAIN log = {} /\ DOMAIN item = {} /\ \A c \in Calls : pc[c] = "idle"
  BY DEF Init
<1>2. \A a \in Actions : rows[a] = "none"
  BY DEF Init
<1> QED
  BY <1>1, <1>2, InitGradedInv DEF LogInv, LogNames, LogOnce, LogAll, Processing, HoldsAction

\* A set with an element and no other has one; there is none or one of what is unique.
LEMMA OneOrNone ==
    ASSUME NEW S, \A x, y \in S : x = y
    PROVE  Cardinality(S) = IF S # {} THEN 1 ELSE 0
<1>1. CASE S = {}
  BY <1>1, FS_EmptySet
<1>2. CASE S # {}
  <2>1. PICK x \in S : S = {x}
    BY <1>2
  <2> QED
    BY <1>2, <2>1, FS_Singleton
<1> QED
  BY <1>1, <1>2

\* However often and by however many devices an action is sent, and wherever a process
\* dies: it succeeded exactly if there is one answer of its, and an item is done exactly
\* if there is one answer to it (submit_review_feedback and services/idempotency.py).
THEOREM AnswersAreAllOrNothing == Spec => []AnswersAreWhole
<1>1. LogInv => AnswersAreWhole
  <2> SUFFICES ASSUME LogInv PROVE AnswersAreWhole
    OBVIOUS
  <2>1. ASSUME NEW a \in Actions
        PROVE  Cardinality({n \in DOMAIN log : log[n].action = a}) = IF rows[a] = "succeeded" THEN 1 ELSE 0
    <3> DEFINE S == {n \in DOMAIN log : log[n].action = a}
    <3>1. \A x, y \in S : x = y
      BY DEF LogInv, LogOnce
    <3>2. S # {} <=> rows[a] = "succeeded"
      BY DEF LogInv, LogNames, LogAll
    <3> QED
      BY <3>1, <3>2, OneOrNone
  <2>2. ASSUME NEW s \in DOMAIN item, NEW i \in DOMAIN item[s]
        PROVE  Cardinality({n \in DOMAIN log : log[n].question.session = s /\ log[n].question.item = i})
                   = IF item[s][i].done THEN 1 ELSE 0
    <3> DEFINE S == {n \in DOMAIN log : log[n].question.session = s /\ log[n].question.item = i}
    <3>1. \A x, y \in S : x = y
      BY DEF LogInv, LogOnce
    <3>2. S # {} <=> item[s][i].done
      BY DEF LogInv, LogNames, LogAll
    <3> QED
      BY <3>1, <3>2, OneOrNone
  <2> QED
    BY <2>1, <2>2 DEF AnswersAreWhole, ItemsOf
<1> QED
  BY <1>1, InitLogInv, LogInvStays, PTL DEF Spec

-----------------------------------------------------------------------------
(* Repeats.                                                                *)

\* There is a repeat of a card in a session exactly if it was answered wrong there.
RepeatOnce ==
    \A s \in DOMAIN item : \A i, j \in DOMAIN item[s] :
        item[s][i].repeat /\ item[s][j].repeat /\ item[s][i].card = item[s][j].card => i = j

RepeatHasReason ==
    \A s \in DOMAIN item : \A i \in DOMAIN item[s] :
        item[s][i].repeat => \E n \in DOMAIN log : /\ log[n].question.session = s
                                                   /\ item[s][log[n].question.item].card = item[s][i].card
                                                   /\ ~log[n].correct

WrongComesBack ==
    \A n \in DOMAIN log :
        LET s == log[n].question.session
        IN ~log[n].correct => \E i \in DOMAIN item[s] : /\ item[s][i].repeat
                                                        /\ item[s][i].card = item[s][log[n].question.item].card

RepeatInv == LogInv /\ RepeatOnce /\ RepeatHasReason /\ WrongComesBack

LEMMA QuietKeepsRepeats ==
    ASSUME RepeatInv, Quiet
    PROVE  RepeatOnce' /\ RepeatHasReason' /\ WrongComesBack'
<1>1. \A n \in DOMAIN log : Names(log[n].question)
  BY DEF RepeatInv, LogInv, LogNames
<1>2. RepeatOnce'
  <2>1. ASSUME NEW s \in DOMAIN item', NEW i \in DOMAIN item'[s], NEW j \in DOMAIN item'[s],
               item'[s][i].repeat, item'[s][j].repeat, item'[s][i].card = item'[s][j].card
        PROVE  i = j
    <3>1. s \in DOMAIN item
      BY <2>1 DEF Quiet
    <3>2. Alike(item'[s], item[s])
      BY <3>1 DEF Quiet
    <3> QED
      BY <2>1, <3>1, <3>2 DEF Alike, RepeatInv, RepeatOnce
  <2> QED
    BY <2>1 DEF RepeatOnce
<1>3. RepeatHasReason'
  <2>1. ASSUME NEW s \in DOMAIN item', NEW i \in DOMAIN item'[s], item'[s][i].repeat
        PROVE  \E n \in DOMAIN log : /\ log[n].question.session = s
                                     /\ item'[s][log[n].question.item].card = item'[s][i].card
                                     /\ ~log[n].correct
    <3>1. s \in DOMAIN item
      BY <2>1 DEF Quiet
    <3>2. Alike(item'[s], item[s])
      BY <3>1 DEF Quiet
    <3>3. PICK n \in DOMAIN log : /\ log[n].question.session = s
                                  /\ item[s][log[n].question.item].card = item[s][i].card
                                  /\ ~log[n].correct
      BY <2>1, <3>1, <3>2 DEF Alike, RepeatInv, RepeatHasReason
    <3>4. log[n].question.item \in DOMAIN item[s]
      BY <1>1, <3>3 DEF Names
    <3> QED
      BY <2>1, <3>2, <3>3, <3>4 DEF Alike
  <2> QED
    BY <2>1 DEF RepeatHasReason, Quiet
<1>4. WrongComesBack'
  <2>1. ASSUME NEW n \in DOMAIN log, ~log[n].correct
        PROVE  LET s == log[n].question.session
               IN \E i \in DOMAIN item'[s] : /\ item'[s][i].repeat
                                             /\ item'[s][i].card = item'[s][log[n].question.item].card
    <3> DEFINE s == log[n].question.session
    <3>1. s \in DOMAIN item /\ log[n].question.item \in DOMAIN item[s]
      BY <1>1 DEF Names
    <3>2. Alike(item'[s], item[s])
      BY <3>1 DEF Quiet
    <3>3. PICK i \in DOMAIN item[s] : /\ item[s][i].repeat
                                      /\ item[s][i].card = item[s][log[n].question.item].card
      BY <2>1 DEF RepeatInv, WrongComesBack
    <3> HIDE DEF s
    <3>4. i \in DOMAIN item'[s] /\ item'[s][i].repeat
          /\ item'[s][i].card = item'[s][log[n].question.item].card
      BY <3>1, <3>2, <3>3 DEF Alike
    <3> QED
      BY <3>4 DEF s
  <2> QED
    BY <2>1 DEF WrongComesBack, Quiet
<1> QED
  BY <1>2, <1>3, <1>4

LEMMA AnswerKeepsRepeats ==
    ASSUME RepeatInv, NEW c \in Calls, NEW e \in Logged, Answers(c, e)
    PROVE  RepeatOnce' /\ RepeatHasReason' /\ WrongComesBack'
<1> DEFINE s == e.question.session
           i == e.question.item
           n == Len(log) + 1
           back == ~e.correct /\ NeedsRepeat(item[s], i)
<1>1. /\ n \notin DOMAIN log /\ DOMAIN log' = DOMAIN log \cup {n}
      /\ log'[n] = e /\ \A m \in DOMAIN log : log'[m] = log[m]
      /\ s \in DOMAIN item /\ i \in DOMAIN item[s]
      /\ DOMAIN item' = DOMAIN item /\ \A t \in DOMAIN item \ {s} : item'[t] = item[t]
      /\ \A j \in DOMAIN item[s] : /\ j \in DOMAIN item'[s]
                                   /\ item'[s][j].card = item[s][j].card
                                   /\ item'[s][j].repeat = item[s][j].repeat
      /\ back => \E m : /\ m \notin DOMAIN item[s] /\ DOMAIN item'[s] = DOMAIN item[s] \cup {m}
                        /\ item'[s][m].card = item[s][i].card /\ item'[s][m].repeat
      /\ ~back => DOMAIN item'[s] = DOMAIN item[s]
  BY DEF Answers
<1>2. \A m \in DOMAIN log : Names(log[m].question)
  BY DEF RepeatInv, LogInv, LogNames
<1>3. back => \A j \in DOMAIN item[s] : ~(item[s][j].repeat /\ item[s][j].card = item[s][i].card)
  BY DEF NeedsRepeat
<1>4. ~e.correct /\ ~back => \E j \in DOMAIN item[s] : item[s][j].repeat /\ item[s][j].card = item[s][i].card
  BY <1>1 DEF NeedsRepeat
<1> HIDE DEF n, back
<1>5. RepeatOnce'
  <2>1. ASSUME NEW t \in DOMAIN item', NEW x \in DOMAIN item'[t], NEW y \in DOMAIN item'[t],
               item'[t][x].repeat, item'[t][y].repeat, item'[t][x].card = item'[t][y].card
        PROVE  x = y
    <3>1. t \in DOMAIN item
      BY <1>1
    <3>2. \A a, b \in DOMAIN item[t] :
             item[t][a].repeat /\ item[t][b].repeat /\ item[t][a].card = item[t][b].card => a = b
      BY <3>1 DEF RepeatInv, RepeatOnce
    <3>3. CASE t # s
      BY <1>1, <2>1, <3>1, <3>2, <3>3
    <3>4. CASE t = s /\ x \in DOMAIN item[s] /\ y \in DOMAIN item[s]
      BY <1>1, <2>1, <3>2, <3>4
    <3>5. CASE t = s /\ ~(x \in DOMAIN item[s] /\ y \in DOMAIN item[s])
      <4>1. back
        BY <1>1, <2>1, <3>5
      <4>2. PICK m : /\ m \notin DOMAIN item[s] /\ DOMAIN item'[s] = DOMAIN item[s] \cup {m}
                     /\ item'[s][m].card = item[s][i].card /\ item'[s][m].repeat
        BY <1>1, <4>1
      <4>3. \A j \in DOMAIN item[s] : ~(item'[s][j].repeat /\ item'[s][j].card = item[s][i].card)
        BY <1>1, <1>3, <4>1
      <4> QED
        BY <2>1, <3>5, <4>2, <4>3
    <3> QED
      BY <3>3, <3>4, <3>5
  <2> QED
    BY <2>1 DEF RepeatOnce
<1>6. RepeatHasReason'
  <2>1. ASSUME NEW t \in DOMAIN item', NEW x \in DOMAIN item'[t], item'[t][x].repeat
        PROVE  \E m \in DOMAIN log' : /\ log'[m].question.session = t
                                      /\ item'[t][log'[m].question.item].card = item'[t][x].card
                                      /\ ~log'[m].correct
    <3>1. t \in DOMAIN item
      BY <1>1
    <3>2. CASE x \in DOMAIN item[t]
      <4>1. item[t][x].repeat /\ item'[t][x].card = item[t][x].card
        BY <1>1, <2>1, <3>1, <3>2
      <4>2. PICK m \in DOMAIN log : /\ log[m].question.session = t
                                    /\ item[t][log[m].question.item].card = item[t][x].card
                                    /\ ~log[m].correct
        BY <3>1, <3>2, <4>1 DEF RepeatInv, RepeatHasReason
      <4>3. log[m].question.item \in DOMAIN item[t]
        BY <1>2, <4>2 DEF Names
      <4>4. item'[t][log[m].question.item].card = item[t][log[m].question.item].card
        BY <1>1, <3>1, <4>3
      <4> QED
        BY <1>1, <4>1, <4>2, <4>4
    <3>3. CASE x \notin DOMAIN item[t]
      <4>1. t = s
        BY <1>1, <2>1, <3>1, <3>3
      <4>2. back
        BY <1>1, <2>1, <3>3, <4>1
      <4>3. PICK m : /\ m \notin DOMAIN item[s] /\ DOMAIN item'[s] = DOMAIN item[s] \cup {m}
                     /\ item'[s][m].card = item[s][i].card
        BY <1>1, <4>2
      <4>4. x = m /\ item'[t][x].card = item'[t][i].card /\ ~e.correct
        BY <1>1, <2>1, <3>3, <4>1, <4>2, <4>3 DEF back
      <4> QED
        BY <1>1, <4>1, <4>4
    <3> QED
      BY <3>2, <3>3
  <2> QED
    BY <2>1 DEF RepeatHasReason
<1>7. WrongComesBack'
  <2>1. ASSUME NEW m \in DOMAIN log, ~log[m].correct
        PROVE  \E x \in DOMAIN item'[log[m].question.session] :
                  /\ item'[log[m].question.session][x].repeat
                  /\ item'[log[m].question.session][x].card
                         = item'[log[m].question.session][log[m].question.item].card
    <3> DEFINE t == log[m].question.session
    <3>1. t \in DOMAIN item /\ log[m].question.item \in DOMAIN item[t]
      BY <1>2 DEF Names
    <3>2. PICK x \in DOMAIN item[t] : /\ item[t][x].repeat
                                      /\ item[t][x].card = item[t][log[m].question.item].card
      BY <2>1 DEF RepeatInv, WrongComesBack
    <3> HIDE DEF t
    <3>3. x \in DOMAIN item'[t] /\ item'[t][x].repeat
          /\ item'[t][x].card = item'[t][log[m].question.item].card
      BY <1>1, <3>1, <3>2
    <3> QED
      BY <3>3 DEF t
  <2>2. ASSUME ~e.correct
        PROVE  \E x \in DOMAIN item'[s] : item'[s][x].repeat /\ item'[s][x].card = item'[s][i].card
    <3>1. CASE back
      BY <1>1, <3>1
    <3>2. CASE ~back
      BY <1>1, <1>4, <2>2, <3>2
    <3> QED
      BY <3>1, <3>2
  <2> QED
    BY <1>1, <2>1, <2>2 DEF WrongComesBack
<1> QED
  BY <1>5, <1>6, <1>7

LEMMA RepeatInvStays == RepeatInv /\ [Next]_vars => RepeatInv'
<1> SUFFICES ASSUME RepeatInv, [Next]_vars PROVE RepeatInv'
  OBVIOUS
<1>1. LogInv'
  BY LogInvStays DEF RepeatInv
<1>2. ASSUME NEW c \in Calls, StepOf(c) PROVE RepeatOnce' /\ RepeatHasReason' /\ WrongComesBack'
  <2>1. CASE Commits(c)
    <3>1. PICK e \in Logged : Answers(c, e)
      BY <1>2, <2>1, CommitAnswers DEF RepeatInv, LogInv
    <3> QED
      BY <3>1, AnswerKeepsRepeats
  <2>2. CASE ~Commits(c)
    BY <1>2, <2>2, OtherStepsAreQuiet, QuietKeepsRepeats DEF RepeatInv, LogInv, GradedInv
  <2> QED
    BY <2>1, <2>2
<1>3. CASE (\E k \in Cards : EditCard(k)) \/ UNCHANGED vars
  <2>1. UNCHANGED <<item, log>>
    BY <1>3 DEF EditCard, vars
  <2> QED
    BY <1>1, <2>1 DEF RepeatInv, RepeatOnce, RepeatHasReason, WrongComesBack
<1> QED
  BY <1>1, <1>2, <1>3, NextIsStepOf DEF RepeatInv

LEMMA InitRepeatInv == Init => RepeatInv
<1> SUFFICES ASSUME Init PROVE RepeatInv
  OBVIOUS
<1>1. DOMAIN log = {} /\ DOMAIN item = {}
  BY DEF Init
<1> QED
  BY <1>1, InitLogInv DEF RepeatInv, RepeatOnce, RepeatHasReason, WrongComesBack

\* A card answered wrong, also where it is answered wrong again or by two devices, comes
\* back in its session once (_submit_review_feedback_observed in routers/reviews.py).
THEOREM WrongAnswersComeBackOnce == Spec => []ComesBackOnce
<1>1. RepeatInv => ComesBackOnce
  <2> SUFFICES ASSUME RepeatInv, NEW s \in DOMAIN item, NEW k \in Cards
               PROVE  Cardinality({i \in DOMAIN item[s] : item[s][i].card = k /\ item[s][i].repeat})
                          = IF \E n \in DOMAIN log : /\ log[n].question.session = s
                                                     /\ item[s][log[n].question.item].card = k
                                                     /\ ~log[n].correct
                            THEN 1 ELSE 0
    BY DEF ComesBackOnce, ItemsOf
  <2> DEFINE S == {i \in DOMAIN item[s] : item[s][i].card = k /\ item[s][i].repeat}
  <2>1. \A x, y \in S : x = y
    BY DEF RepeatInv, RepeatOnce
  <2>2. S # {} <=> \E n \in DOMAIN log : /\ log[n].question.session = s
                                         /\ item[s][log[n].question.item].card = k
                                         /\ ~log[n].correct
    BY DEF RepeatInv, RepeatHasReason, WrongComesBack
  <2> QED
    BY <2>1, <2>2, OneOrNone
<1> QED
  BY <1>1, InitRepeatInv, RepeatInvStays, PTL DEF Spec

-----------------------------------------------------------------------------
(* Waiting.                                                                *)

\* The unique index of active sessions, from the code's side.
OneActive ==
    \A s, t \in DOMAIN session :
        session[s].status = "active" /\ session[t].status = "active" => s = t

\* Who refers to a session with a question he has inserted keeps answers out of it.
OneSharer ==
    \A c, d \in Calls, s \in Nat : ~(SharesSession(c, s) /\ AnswerLocks(d, s))

CircleInv == GradedInv /\ OneActive /\ OneSharer

\* What a call writes of a session does not make it active.
LEMMA WrittenIsNotRevived ==
    ASSUME Typed, NEW c \in Calls, NEW s \in DOMAIN session, Written(c)[s].status = "active"
    PROVE  session[s].status = "active"
<1>1. s # 0
  BY DEF Typed, TypedRows
<1>2. s = work[c].session => work[c].loaded.status = "active"
  BY <1>1 DEF Typed, Placed
<1> QED
  BY <1>2, WrittenIs

LEMMA OneActiveStays == Typed /\ OneActive /\ [Next]_vars => OneActive'
<1> SUFFICES ASSUME Typed, OneActive, [Next]_vars PROVE OneActive'
  OBVIOUS
<1>1. ASSUME NEW c \in Calls, StepOf(c) PROVE OneActive'
  <2> SUFFICES ASSUME NEW s \in DOMAIN session', NEW t \in DOMAIN session',
                      session'[s].status = "active", session'[t].status = "active"
               PROVE  s = t
    BY DEF OneActive
  <2>1. DOMAIN session = DOMAIN item
    BY DEF Typed, TypedRows
  <2>2. SUFFICES ASSUME NEW u \in {s, t}, ~Creates(c)
                 PROVE  u \in DOMAIN session /\ session[u].status = "active"
    <3>1. CASE Creates(c)
      <4> DEFINE n == Len(session) + 1
      <4>1. /\ DOMAIN session' = DOMAIN session \cup {n}
            /\ \A r \in DOMAIN session : session'[r].status # "active"
        BY <1>1, <3>1, CreateWrites
      <4> HIDE DEF n
      <4> QED
        BY <4>1
    <3> QED
      BY <2>2, <3>1 DEF OneActive
  <2>3. CASE UNCHANGED <<session, item, log>>
    BY <2>3
  <2>4. CASE Writes(c)
    <3>1. u \in DOMAIN session /\ session'[u] = Written(c)[u]
      BY <2>4, WrittenIs DEF Writes
    <3> QED
      BY <3>1, WrittenIsNotRevived
  <2>5. CASE Commits(c)
    <3> DEFINE q == Asked(c).session
               after == WithQuestions(c, AfterAnswer(c))
    <3>1. /\ DOMAIN session' = DOMAIN session
          /\ session'[q].status = IF \A i \in DOMAIN after : after[i].done THEN "completed" ELSE session[q].status
          /\ \A r \in DOMAIN item \ {q} : session'[r] = session[r]
      BY <1>1, <2>5, CommitWrites
    <3> HIDE DEF q, after
    <3> QED
      BY <2>1, <3>1
  <2> QED
    BY <1>1, <2>2, <2>3, <2>4, <2>5, StepEffects
<1>2. CASE (\E k \in Cards : EditCard(k)) \/ UNCHANGED vars
  BY <1>2 DEF EditCard, vars, OneActive
<1> QED
  BY <1>1, <1>2, NextIsStepOf

\* Questions are inserted by ShareRows only.
LEMMA AsksShares ==
    ASSUME Typed, NEW c \in Calls, Asks(c), ~ShareRows(c), NEW s \in Nat, SharesSession(c, s)'
    PROVE  SharesSession(c, s)
<1> USE Frame
<1>1. /\ work[c] \in Work /\ work[c].new \cap work[c].stale = {} /\ work[c].session # 0
      /\ pc[c] = "look" => (work[c].new \cup work[c].stale) \cap work[c].left = {}
  BY DEF Asks, LookAtQuestion, WriteQuestion, ShareRows, Typed, Placed, Viewed, Paced
<1>2. CASE End(c)
  BY <1>2, NoWorkIsWork DEF SharesSession, Inserted
<1>3. ASSUME work'[c].session = work[c].session, work'[c].new \ work'[c].left = work[c].new \ work[c].left
      PROVE  SharesSession(c, s)
  BY <1>3 DEF SharesSession, Inserted
<1>4. CASE LookAtQuestion(c)
  <2>1. PICK j \in FirstOf(work[c].left) :
          \/ work' = [work EXCEPT ![c].new = @ \cup {j}]
          \/ work' = [work EXCEPT ![c].stale = @ \cup {j}]
          \/ work' = [work EXCEPT ![c].left = @ \ {j}]
    BY <1>4 DEF LookAtQuestion
  <2>2. j \in work[c].left /\ pc[c] = "look"
    BY <1>4, <2>1 DEF FirstOf, LookAtQuestion
  <2>3. /\ work'[c].session = work[c].session
        /\ \/ work'[c].new = work[c].new \cup {j} /\ work'[c].left = work[c].left
           \/ work'[c].new = work[c].new /\ work'[c].left = work[c].left
           \/ work'[c].new = work[c].new /\ work'[c].left = work[c].left \ {j}
    BY <2>1 DEF Typed, TypedCalls, Work
  <2>4. work'[c].new \ work'[c].left = work[c].new \ work[c].left
    BY <1>1, <2>2, <2>3
  <2> QED
    BY <1>3, <2>3, <2>4
<1>5. CASE WriteQuestion(c) /\ ~End(c)
  <2>1. PICK j \in work[c].left :
          \/ j \in work[c].stale /\ work' = [work EXCEPT ![c].left = @ \ {j}]
          \/ UNCHANGED work
    BY <1>5 DEF WriteQuestion
  <2>2. /\ work'[c].session = work[c].session /\ work'[c].new = work[c].new
        /\ \/ work'[c].left = work[c].left
           \/ j \in work[c].stale /\ work'[c].left = work[c].left \ {j}
    BY <2>1 DEF Typed, TypedCalls, Work
  <2>3. work'[c].new \ work'[c].left = work[c].new \ work[c].left
    BY <1>1, <2>2
  <2> QED
    BY <1>3, <2>2, <2>3
<1> QED
  BY <1>2, <1>4, <1>5 DEF Asks

LEMMA SharesAreFree ==
    ASSUME Typed, NEW c \in Calls, StepOf(c), NEW s \in Nat, SharesSession(c, s)'
    PROVE  /\ SharesSession(c, s) \/ \A d \in Calls : ~AnswerLocks(d, s)
           /\ ~AnswerLocks(c, s)'
<1> USE Frame
<1>1. Calm(c)
  BY CallsAreCalm
<1>2. work'[c].session = s /\ work'[c].session # 0 /\ work'[c].new # {}
  BY DEF SharesSession, Inserted
<1>3. pc'[c] \in AskingLabels
  BY <1>1, <1>2 DEF Calm, Placed, Viewed
<1>4. ~AnswerLocks(c, s)'
  BY <1>3 DEF AnswerLocks
<1>5. CASE Decide(c)
  <2>1. pc[c] = "decide" /\ ~End(c) /\ pc'[c] \notin {"create", "abandon"}
    BY <1>3, <1>5 DEF Decide
  <2>2. work'[c].new = work[c].new
    BY <1>5, <2>1, DecideLeads DEF KeepsRow
  <2>3. work[c].new = {}
    BY <2>1 DEF Typed, Viewed
  <2> QED
    BY <1>2, <2>2, <2>3
<1>6. CASE ShareRows(c)
  <2>1. \A d \in Calls : ~AnswerLocks(d, work[c].session)
    BY <1>6 DEF ShareRows
  <2>2. work'[c].session = work[c].session
    <3>1. Asks(c) /\ ~End(c)
      BY <1>3, <1>6 DEF Asks
    <3> QED
      BY <3>1, AsksIs DEF KeepsAsking
  <2> QED
    BY <1>2, <1>4, <2>1, <2>2
<1>7. CASE Asks(c) /\ ~ShareRows(c)
  BY <1>4, <1>7, AsksShares
<1> QED
  BY <1>3, <1>5, <1>6, <1>7, AskingIsBegun

LEMMA AnswersAreFree ==
    ASSUME Typed, NEW d \in Calls, StepOf(d), NEW s \in Nat, AnswerLocks(d, s)'
    PROVE  AnswerLocks(d, s) \/ \A c \in Calls : ~SharesSession(c, s)
<1> USE Frame
<1>1. pc'[d] \in {"card", "question", "next", "commit"} /\ Asked(d)'.session = s
  BY DEF AnswerLocks
<1>2. LockSession(d) \/ LockCard(d) \/ LockQuestion(d) \/ AskNext(d)
  <2>1. ~Asks(d)
    BY <1>1, AsksIs DEF KeepsAsking
  <2>2. ~Decide(d)
    BY <1>1, DecideLeads
  <2> QED
    BY <1>1, <2>1, <2>2 DEF StepOf, Step, AnswerAgain, Answer, Open, Fail, LookUp, Insert,
       Commit, Read, CountItems, CountReviewed, FindPending, Refresh, Flush, Abandon, Create, Asks, Return
<1>3. CASE AskNext(d)
  <2>1. pc[d] = "next" /\ Asked(d)' = Asked(d)
    BY <1>3 DEF AskNext, Asked
  <2> QED
    BY <1>1, <2>1 DEF AnswerLocks
<1>4. CASE LockSession(d) \/ LockCard(d) \/ LockQuestion(d)
  <2>1. Asked(d)' = Asked(d) /\ (pc[d] \in {"card", "question"} \/ LockSession(d))
    BY <1>4, LocksLead DEF LockCard, LockQuestion
  <2> QED
    BY <1>1, <2>1 DEF AnswerLocks, LockSession
<1> QED
  BY <1>2, <1>3, <1>4

LEMMA OneSharerStays == Typed /\ OneSharer /\ [Next]_vars => OneSharer'
<1> SUFFICES ASSUME Typed, OneSharer, [Next]_vars, NEW c \in Calls, NEW d \in Calls, NEW s \in Nat,
                    SharesSession(c, s)', AnswerLocks(d, s)'
             PROVE  FALSE
  BY DEF OneSharer
<1>1. ASSUME NEW e \in Calls, StepOf(e) PROVE FALSE
  <2>1. CASE c = e
    <3>1. d # e /\ (SharesSession(c, s) \/ ~AnswerLocks(d, s))
      BY <1>1, <2>1, SharesAreFree
    <3>2. pc'[d] = pc[d] /\ (pc[d] \in AnswerLabels => Asked(d)' = Asked(d))
      BY <1>1, <3>1, CallsAreApart, AskedStays DEF Own
    <3>3. AnswerLocks(d, s)
      BY <3>2 DEF AnswerLocks
    <3> QED
      BY <3>1, <3>3 DEF OneSharer
  <2>2. CASE c # e
    <3>1. work'[c] = work[c]
      BY <1>1, <2>2, CallsAreApart DEF Own
    <3>2. SharesSession(c, s)
      BY <3>1 DEF SharesSession, Inserted
    <3>3. CASE d # e
      <4>1. pc'[d] = pc[d] /\ (pc[d] \in AnswerLabels => Asked(d)' = Asked(d))
        BY <1>1, <3>3, CallsAreApart, AskedStays DEF Own
      <4>2. AnswerLocks(d, s)
        BY <4>1 DEF AnswerLocks
      <4> QED
        BY <3>2, <4>2 DEF OneSharer
    <3>4. CASE d = e
      <4>1. AnswerLocks(d, s) \/ ~SharesSession(c, s)
        BY <1>1, <3>4, AnswersAreFree
      <4> QED
        BY <3>2, <4>1 DEF OneSharer
    <3> QED
      BY <3>3, <3>4
  <2> QED
    BY <2>1, <2>2
<1>2. CASE (\E k \in Cards : EditCard(k)) \/ UNCHANGED vars
  <2>1. UNCHANGED <<pc, req, work, sent>>
    BY <1>2 DEF EditCard, vars
  <2> QED
    BY <2>1 DEF OneSharer, SharesSession, Inserted, AnswerLocks, Asked
<1> QED
  BY <1>1, <1>2, NextIsStepOf

LEMMA CircleInvStays == CircleInv /\ [Next]_vars => CircleInv'
BY GradedInvStays, OneActiveStays, OneSharerStays DEF CircleInv, GradedInv

LEMMA InitCircleInv == Init => CircleInv
BY InitGradedInv, NoWorkIsWork DEF Init, CircleInv, OneActive, OneSharer, SharesSession, Inserted

\* Where a call may stand in a circle without an answer that wants a question.
Waiting == {"insert", "session", "flush", "abandon", "create", "card", "write", "key"}

\* How far a call has got through its locks: it waits only for one further up, or for
\* one that writes a later question of the same session.
Answered(s) == \E d \in Calls : AnswerLocks(d, s)
Level(c) ==
    CASE pc[c] = "insert" -> 0
      [] pc[c] \in {"session", "flush", "abandon"} -> 1
      [] pc[c] = "create" -> 2
      [] pc[c] = "write" /\ Answered(work[c].session) -> 3
      [] pc[c] = "key" /\ Answered(work[c].session) -> 4
      [] pc[c] = "card" -> 5
      [] pc[c] = "write" /\ ~Answered(work[c].session) -> 6
      [] OTHER -> 7

AtHand(c, i) == i \in work[c].left /\ \A j \in work[c].left : i <= j

WritesLater(c, d) ==
    /\ pc[c] = "write" /\ pc[d] = "write"
    /\ work[d].session = work[c].session /\ Level(d) = Level(c)
    /\ \A i, j : AtHand(c, i) /\ AtHand(d, j) => i < j

LEMMA LevelIs ==
    ASSUME NEW c
    PROVE  /\ Level(c) \in 0..7
           /\ pc[c] = "insert" => Level(c) = 0
           /\ pc[c] \in {"session", "flush", "abandon"} => Level(c) = 1
           /\ pc[c] = "create" => Level(c) = 2
           /\ pc[c] = "card" => Level(c) = 5
           /\ pc[c] = "write" => Level(c) = IF Answered(work[c].session) THEN 3 ELSE 6
           /\ pc[c] = "key" => Level(c) = IF Answered(work[c].session) THEN 4 ELSE 7
BY DEF Level

\* Who has written or inserted questions, or holds a session, is where an opening is.
LEMMA HoldersAre ==
    ASSUME Typed, NEW d \in Calls
    PROVE  /\ work[d].held => pc[d] \in OpenLabels
           /\ \A s \in Nat \ {0} : Wrote(d, s) # {} => pc[d] \in AskingLabels /\ work[d].session = s
           /\ Inserted(d) # {} => pc[d] \in AskingLabels
<1>1. work[d].held => pc[d] \in OpenLabels
  BY NoWorkIsWork DEF Typed, TypedCalls, Placed
<1>2. pc[d] \notin {"commit"} \cup AskingLabels => work[d].new \cup work[d].stale = {}
  BY DEF Typed, Viewed
<1>3. pc[d] = "commit" => work[d].session = 0
  BY DEF Typed, Placed
<1>4. pc[d] \in Labels
  BY DEF Typed, TypedCalls
<1>5. ASSUME NEW s \in Nat \ {0}, Wrote(d, s) # {} PROVE pc[d] \in AskingLabels /\ work[d].session = s
  BY <1>2, <1>3, <1>5 DEF Wrote
<1>6. Inserted(d) # {} => pc[d] \in AskingLabels
  BY <1>2, <1>3 DEF Inserted
<1> QED
  BY <1>1, <1>5, <1>6

\* A call waits only for one that is under way.
LEMMA AwaitedAreUnderWay ==
    ASSUME Typed, NEW c \in Calls, NEW d \in Calls, WaitsFor(c, d)
    PROVE  UnderWay(d)
<1>1. pc[c] \in AnswerLabels => Asked(c).session \in Nat \ {0}
  <2>1. session \in Seq(Row)
    BY DEF Typed, TypedRows
  <2> QED
    BY <2>1, AskedIs
<1>2. pc[c] = "write" => work[c].session \in Nat \ {0}
  BY DEF Typed, TypedCalls, Work, Placed
<1>3. \/ HoldsAction(d) \/ work[d].held \/ Inserted(d) # {}
      \/ pc[d] \in {"card", "question", "next", "commit"}
      \/ \E s \in Nat \ {0} : Wrote(d, s) # {}
  BY <1>1, <1>2 DEF WaitsFor, LocksSession, AnswerLocks, SharesSession, SharesCard, LocksCard, LocksQuestion
<1> QED
  BY <1>3, HoldersAre DEF UnderWay, HoldsAction

\* An opening that has written the question another one is about to write is writing a
\* later one itself, or inserts this one.
LEMMA WritersFollow ==
    ASSUME Typed, NEW c \in Calls, NEW d \in Calls, pc[c] = "write", pc[d] \in Waiting,
           NEW i \in work[c].left, i \in work[c].new \cup work[c].stale,
           i \in Wrote(d, work[c].session)
    PROVE  Level(c) < Level(d) \/ WritesLater(c, d)
<1> DEFINE s == work[c].session
<1>1. s \in Nat \ {0} /\ work[c].left \in SUBSET Nat
  BY DEF Typed, TypedCalls, Work, Placed
<1>2. pc[d] \in {"write", "key"} /\ work[d].session = s
  BY <1>1, HoldersAre DEF Waiting
<1>3. CASE pc[d] = "key"
  BY <1>2, <1>3, LevelIs
<1>4. CASE pc[d] = "write"
  <2>1. i \in (work[d].new \cup work[d].stale) \ work[d].left
    BY <1>4 DEF Wrote
  <2>2. \A j \in work[d].left : i < j
    BY <1>4, <2>1 DEF Typed, Viewed, Paced
  <2>3. \A m : AtHand(c, m) => m = i
    <3>1. PICK n \in work[c].left : /\ (work[c].new \cup work[c].stale) \cap work[c].left = {n}
                                    /\ \A j \in work[c].left : n <= j
      BY DEF Typed, Viewed, Paced
    <3>2. n = i
      BY <3>1
    <3>3. \A m \in work[c].left : m <= n => m = n
      BY <1>1, <3>1
    <3> QED
      BY <1>1, <3>2, <3>3 DEF AtHand
  <2>4. Level(d) = Level(c)
    BY <1>2, <1>4, LevelIs
  <2> QED
    BY <1>2, <1>4, <2>2, <2>3, <2>4 DEF WritesLater, AtHand
<1> QED
  BY <1>2, <1>3, <1>4

LEMMA WaitsClimb ==
    ASSUME CircleInv, NEW c \in Calls, NEW d \in Calls, NEW e \in Calls,
           WaitsFor(c, d), WaitsFor(d, e), pc[c] \in Waiting, pc[d] \in Waiting
    PROVE  Level(c) < Level(d) \/ WritesLater(c, d)
<1> USE DEF CircleInv, GradedInv
<1>1. /\ work[d].held => pc[d] \in OpenLabels
      /\ Inserted(d) # {} => pc[d] \in AskingLabels
      /\ work[c].session \in Nat /\ work[d].session \in Nat /\ work[e].session \in Nat
  BY HoldersAre DEF Typed, TypedCalls, Work
<1>2. \A x, y \in Calls, s \in Nat : LocksSession(x, s) /\ LocksSession(y, s) => x = y
  BY DEF OneHolder
\* Who holds a session does not wait for its lock.
<1>3. work[d].held => pc[d] \in {"create", "write", "key"}
  <2> SUFFICES ASSUME work[d].held PROVE pc[d] # "abandon"
    BY <1>1 DEF Waiting
  <2>1. ASSUME pc[d] = "abandon" PROVE d # e /\ LocksSession(e, work[d].session)
    BY <2>1 DEF WaitsFor
  <2>2. LocksSession(d, work[d].session)
    BY DEF LocksSession
  <2> QED
    BY <1>1, <1>2, <2>1, <2>2
<1>4. \A s : LocksSession(d, s) => pc[d] \in {"card", "create", "write", "key"}
  BY <1>3 DEF LocksSession, AnswerLocks, Waiting
<1>5. CASE pc[c] = "insert"
  <2>1. pc[d] \in {"session", "card"}
    BY <1>5 DEF WaitsFor, HoldsAction, Waiting
  <2> QED
    BY <1>5, <2>1, LevelIs
<1>6. CASE pc[c] \in {"session", "flush", "abandon"}
  <2>1. pc[d] \in {"card", "create", "write", "key"}
    BY <1>1, <1>4, <1>6 DEF WaitsFor, SharesSession, Waiting
  <2> QED
    BY <1>6, <2>1, LevelIs
<1>7. CASE pc[c] = "create"
  <2>1. work[d].held /\ work[d].session \in DOMAIN session /\ session[work[d].session].status = "active"
    BY <1>7, WrittenIsNotRevived DEF WaitsFor, OtherActive
  <2>2. pc[d] # "create"
    <3> SUFFICES ASSUME pc[d] = "create" PROVE FALSE
      OBVIOUS
    <3>1. d # e /\ work[e].held /\ work[e].session \in DOMAIN session
          /\ session[work[e].session].status = "active"
      BY WrittenIsNotRevived DEF WaitsFor, OtherActive
    <3>2. work[e].session = work[d].session
      BY <2>1, <3>1 DEF OneActive
    <3> QED
      BY <1>1, <1>2, <2>1, <3>1, <3>2 DEF LocksSession
  <2>3. pc[d] \in {"write", "key"}
    BY <1>3, <2>1, <2>2
  <2> QED
    BY <1>7, <2>3, LevelIs
<1>8. CASE pc[c] = "card"
  <2>1. SharesCard(d, AskedCard(c))
    BY <1>8 DEF WaitsFor, LocksCard, Waiting
  <2>2. Inserted(d) # {}
    BY <2>1 DEF SharesCard
  <2>3. pc[d] \in {"write", "key"}
    BY <1>1, <2>2 DEF Waiting
  <2>4. ~Answered(work[d].session)
    BY <1>1, <2>2 DEF Answered, OneSharer, SharesSession
  <2> QED
    BY <1>8, <2>3, <2>4, LevelIs
<1>9. CASE pc[c] = "write"
  <2>1. PICK i \in work[c].left : /\ i \in work[c].new \cup work[c].stale
                                  /\ i \in Wrote(d, work[c].session)
    BY <1>9 DEF WaitsFor, LocksQuestion, Waiting
  <2> QED
    BY <1>9, <2>1, WritersFollow
<1>10. CASE pc[c] = "key"
  <2>1. AnswerLocks(d, work[c].session) /\ pc[d] = "card"
    BY <1>10 DEF WaitsFor, LocksCard, AnswerLocks, Waiting
  <2>2. Answered(work[c].session)
    BY <2>1 DEF Answered
  <2> QED
    BY <1>10, <2>1, <2>2, LevelIs
<1> QED
  BY <1>5, <1>6, <1>7, <1>8, <1>9, <1>10 DEF Waiting

\* Hence calls that neither lock the question they answer nor commit the next one are
\* not in a circle by themselves.
LEMMA WaitersEscape ==
    ASSUME CircleInv, NEW circle \in SUBSET Calls, circle # {},
           \A c \in circle : \E d \in circle : WaitsFor(c, d),
           \A c \in circle : pc[c] \in Waiting
    PROVE  FALSE
<1>1. \A c, d \in circle : WaitsFor(c, d) => Level(c) < Level(d) \/ WritesLater(c, d)
  BY WaitsClimb
<1>2. PICK c \in circle : \A d \in circle : Level(d) <= Level(c)
  <2> DEFINE Below == {7 - Level(d) : d \in circle}
  <2>1. \A d \in circle : Level(d) \in 0..7
    BY LevelIs
  <2>2. Below \in SUBSET Nat /\ Below # {}
    BY <2>1
  <2>3. PICK n \in Below : \A m \in Below : n <= m
    <3> HIDE DEF Below
    <3> QED
      BY <2>2, LeastExists
  <2>4. PICK c \in circle : n = 7 - Level(c)
    BY DEF Below
  <2>5. \A d \in circle : 7 - Level(c) <= 7 - Level(d)
    BY <2>3, <2>4
  <2> HIDE DEF Below
  <2>6. \A k, m \in 0..7 : 7 - k <= 7 - m => m <= k
    OBVIOUS
  <2> QED
    BY <2>1, <2>5, <2>6
<1> DEFINE s == work[c].session
           Later == {d \in circle : /\ pc[d] = "write" /\ work[d].session = s
                                    /\ Level(d) = Level(c)}
           Hands == {i \in Nat : \E d \in Later : AtHand(d, i)}
<1>3. \A d \in circle : Level(d) \in Nat
  BY LevelIs
<1>4. \A d \in circle : Level(d) = Level(c) =>
          \E e \in circle : WritesLater(d, e)
  BY <1>1, <1>2, <1>3
<1>5. c \in Later
  BY <1>4 DEF WritesLater
<1>6. \A d \in Later : \E e \in Later : WritesLater(d, e)
  BY <1>4 DEF WritesLater
<1>7. s \in DOMAIN item /\ item[s] \in Seq(Items)
  BY <1>5 DEF CircleInv, GradedInv, Typed, TypedRows, Placed
<1>8. \A d \in Later : \E i \in DOMAIN item[s] : AtHand(d, i)
  <2> SUFFICES ASSUME NEW d \in Later PROVE \E i \in DOMAIN item[s] : AtHand(d, i)
    OBVIOUS
  <2>1. /\ \E i \in work[d].left : \A j \in work[d].left : i <= j
        /\ work[d].left \subseteq DOMAIN item[s]
    BY DEF CircleInv, GradedInv, Typed, Viewed, Paced
  <2> QED
    BY <2>1 DEF AtHand
<1> DEFINE n == Len(item[s])
           Rest == {n - i : i \in Hands}
<1>9. n \in Nat /\ DOMAIN item[s] = 1..n
  BY <1>7
<1>10. \A d \in Later : \A i : AtHand(d, i) => i \in 1..n
  <2> SUFFICES ASSUME NEW d \in Later, NEW i, AtHand(d, i) PROVE i \in 1..n
    OBVIOUS
  <2>1. i \in work[d].left /\ work[d].left \subseteq DOMAIN item[s]
    BY DEF AtHand, CircleInv, GradedInv, Typed, Viewed
  <2> QED
    BY <1>9, <2>1
<1> HIDE DEF n, s, Later
<1>11. \A i \in Hands : i \in 1..n
  BY <1>10
<1>12. Rest \in SUBSET Nat /\ Rest # {}
  <2>1. Hands # {}
    BY <1>5, <1>8, <1>9
  <2> QED
    BY <1>9, <1>11, <2>1
<1>13. PICK r \in Rest : \A m \in Rest : r <= m
  <2> HIDE DEF Rest
  <2> QED
    BY <1>12, LeastExists
<1>14. PICK i \in Hands : r = n - i
  OBVIOUS
<1>15. PICK d \in Later : AtHand(d, i)
  BY <1>14
<1>16. PICK e \in Later : WritesLater(d, e)
  BY <1>6
<1>17. PICK j \in 1..n : AtHand(e, j)
  BY <1>8, <1>9
<1>18. i < j
  BY <1>15, <1>16, <1>17 DEF WritesLater
<1>19. n - j \in Rest
  BY <1>9, <1>17
<1>20. n - i <= n - j
  BY <1>13, <1>14, <1>19
<1>21. i \in 1..n
  BY <1>11
<1> HIDE DEF Rest, Hands
<1> QED
  BY <1>9, <1>17, <1>18, <1>20, <1>21

\* Calls wait only for calls that are under way, and in a circle only if among them is
\* an answer that wants the row of a question, its own or the next, and an opening that
\* has written some of the session's and is not through with that: all other locks of
\* routers/reviews.py and services/review_v1.py are taken in an order, client action,
\* session, card, questions by their position.
THEOREM CirclesGoThroughQuestions == Spec => []CirclesNeedQuestions
<1>1. ASSUME CircleInv PROVE CirclesNeedQuestions
  <2> USE <1>1 DEF CircleInv, GradedInv
  <2>1. \A c, d \in Calls : WaitsFor(c, d) => UnderWay(d)
    BY AwaitedAreUnderWay
  <2>2. ASSUME NEW circle \in SUBSET Calls, circle # {},
               \A c \in circle : \E d \in circle : WaitsFor(c, d)
        PROVE  (\E c \in circle : AsksForRow(c)) /\ (\E c \in circle : WritesOn(c))
    <3>1. \A c, d : WaitsFor(c, d) => pc[c] \in Waiting \/ AsksForRow(c)
      BY DEF WaitsFor, Waiting, AsksForRow
    <3>2. PICK c \in circle : AsksForRow(c)
      <4>1. SUFFICES ASSUME \A c \in circle : ~AsksForRow(c) PROVE FALSE
        OBVIOUS
      <4>2. \A c \in circle : pc[c] \in Waiting
        BY <2>2, <3>1, <4>1
      <4> QED
        BY <2>2, <4>2, WaitersEscape
    <3>3. PICK d \in circle : WaitsFor(c, d)
      BY <2>2
    <3>4. PICK e \in circle : WaitsFor(d, e)
      BY <2>2
    <3> DEFINE s == Asked(c).session
    <3>5. s \in Nat \ {0}
      <4>1. session \in Seq(Row)
        BY DEF Typed, TypedRows
      <4> QED
        BY <3>2, <4>1, AskedIs DEF AsksForRow
    <3>6. Wrote(d, s) # {}
      <4>1. CASE pc[c] = "commit"
        BY <3>3, <4>1 DEF WaitsFor
      <4>2. CASE pc[c] = "question"
        <5>1. d # c /\ LocksQuestion(d, s, Asked(c).item)
          BY <3>3, <4>2 DEF WaitsFor
        <5>2. LocksSession(c, s)
          BY <4>2 DEF LocksSession, AnswerLocks
        <5>3. ~LocksSession(d, s)
          BY <3>5, <5>1, <5>2 DEF OneHolder
        <5> QED
          BY <5>1, <5>3 DEF LocksQuestion, LocksSession, AnswerLocks
      <4> QED
        BY <3>2, <4>1, <4>2 DEF AsksForRow
    <3>7. pc[d] \in AskingLabels /\ work[d].session = s
      BY <3>5, <3>6, HoldersAre
    <3>8. pc[d] # "look"
      BY <3>4 DEF WaitsFor
    <3>9. WritesOn(d)
      BY <3>6, <3>7, <3>8 DEF WritesOn
    <3> QED
      BY <3>2, <3>9
  <2> QED
    BY <2>1, <2>2 DEF CirclesNeedQuestions
<1> QED
  BY <1>1, InitCircleInv, CircleInvStays, PTL DEF Spec

=============================================================================
