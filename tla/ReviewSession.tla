--------------------------- MODULE ReviewSession ---------------------------
(***************************************************************************)
(* Review sessions of one user: routers/reviews.py with the questions of   *)
(* services/review_v1.py and the client actions of services/idempotency.py.*)
(*                                                                         *)
(* A call is one request in a READ COMMITTED transaction of its own: an    *)
(* answer (POST /feedback), an opening (GET /today, POST /review-sessions) *)
(* or a look at the overview (GET /overview).  Nothing a call writes is    *)
(* seen before it commits, so its writes are made in its last step; what   *)
(* is kept from the statement on are the locks.  An answer locks the       *)
(* session, the card and the question; openings and overviews read without *)
(* locks and lock the rows they change, an opening one question after the  *)
(* other.  The INSERT of a question also takes its key and, for its        *)
(* foreign keys, shares the rows of session and card.                      *)
(*                                                                         *)
(* An answer and what goes with it (`done`, answered_at, ReviewAnswerLog,  *)
(* FSRS state) are written together; the model keeps `done` and the log.   *)
(***************************************************************************)
EXTENDS Naturals, Sequences, FiniteSets, Functions

CONSTANTS
    Calls,       \* requests received
    Actions,     \* client_action_ids of answers
    Cards,       \* cards of the user
    Selections,  \* lists of cards select_review_v1_cards may offer
    Openings,    \* openings the devices may ask for
    NoRequest,   \* ... of a call that has not begun
    MaxVersion   \* bound: edits of a card

Types == {"daily_suggested", "free_review"}
Overview == [kind |-> "overview"]

ASSUME ReviewAssumption ==
    /\ Selections \subseteq Seq(Cards)
    /\ \A cs \in Selections : cs # <<>> /\ IsInjective(cs)
    /\ Openings \subseteq [kind : {"open"}, type : Types, restart : BOOLEAN]
    /\ MaxVersion \in Nat \ {0}

VARIABLES
    card,     \* rows of `cards`: version, and whether it can be asked
    session,  \* rows of `review_sessions`, oldest first
    item,     \* the items of each session by position, with their questions
    rows,     \* status of the rows of `client_actions`
    log,      \* rows of `review_answer_logs`
    pc,       \* where a call is in its handler
    req,      \* the request of a call
    work,     \* what a call has read and is about to write
    shown,    \* questions on the screens of the devices
    sent      \* the answer each client_action_id stands for

db == <<card, session, item, rows, log>>
vars == <<card, session, item, rows, log, pc, req, work, shown, sent>>

NoReply == [session |-> 0]
Question == [session : 1..Cardinality(Calls), item : Nat \ {0}, version : 1..MaxVersion]
Reply == [question : Question, correct : BOOLEAN]

NoSession == [type |-> "none", status |-> "none", total |-> 0, reviewed |-> 0]

\* view: versions of the cards whose questions are to be returned; left: those of them
\* still to be dealt with; new, stale: those that had no row, or one to be made anew.
NoWork == [session |-> 0, loaded |-> NoSession, row |-> NoSession, held |-> FALSE,
           view |-> <<>>, left |-> {}, new |-> {}, stale |-> {}]

TypeOK ==
    /\ card \in [Cards -> [version : 1..MaxVersion, eligible : BOOLEAN]]
    /\ session \in Seq([type : Types, status : {"active", "completed", "abandoned"},
                        total : Nat \ {0}, reviewed : Nat])
    /\ item \in Seq(Seq([card : Cards, repeat : BOOLEAN, done : BOOLEAN,
                         question : 0..MaxVersion]))
    /\ Len(item) = Len(session)
    /\ rows \in [Actions -> {"none", "succeeded", "ignored", "failed"}]
    /\ log \in Seq([action : Actions, question : Question, correct : BOOLEAN])
    /\ pc \in [Calls -> {"idle", "lookUp", "insert", "session", "card", "question", "next",
                         "commit", "read", "total", "reviewed", "pending", "flush", "decide",
                         "abandon", "create", "look", "write", "key", "done"}]
    /\ req \in [Calls -> {NoRequest, Overview} \cup Openings
                             \cup [kind : {"answer"}, action : Actions]]
    /\ shown \subseteq Question
    /\ sent \in [Actions -> {NoReply} \cup Reply]

Init ==
    /\ card = [k \in Cards |-> [version |-> 1, eligible |-> TRUE]]
    /\ session = <<>>
    /\ item = <<>>
    /\ rows = [a \in Actions |-> "none"]
    /\ log = <<>>
    /\ pc = [c \in Calls |-> "idle"]
    /\ req = [c \in Calls |-> NoRequest]
    /\ work = [c \in Calls |-> NoWork]
    /\ shown = {}
    /\ sent = [a \in Actions |-> NoReply]

-----------------------------------------------------------------------------
(* Rows and locks.                                                         *)

ItemsOf(s) == DOMAIN item[s]
Pending(s) == {i \in ItemsOf(s) : ~item[s][i].done}
Eligible(s, i) == card[item[s][i].card].eligible
VersionOf(s, i) == card[item[s][i].card].version

Asked(c) == sent[req[c].action].question
Correct(c) == sent[req[c].action].correct
AskedCard(c) == item[Asked(c).session][Asked(c).item].card

HoldsAction(c) == pc[c] \in {"session", "card", "question", "next", "commit"}

\* SELECT ... FOR UPDATE, and the UPDATE of an opening.
AnswerLocks(c, s) ==
    pc[c] \in {"card", "question", "next", "commit"} /\ Asked(c).session = s
LocksSession(c, s) ==
    \/ AnswerLocks(c, s)
    \/ work[c].held /\ work[c].session = s

\* Mutant: the card is selected without FOR UPDATE.
LocksNoCard(c, k) == FALSE

LocksCard(c, k) == pc[c] \in {"question", "next", "commit"} /\ AskedCard(c) = k

\* Questions an opening has written, and those of them whose INSERT is through.
Wrote(c, s) ==
    {i \in work[c].new \cup work[c].stale :
        /\ work[c].session = s
        /\ i \notin work[c].left \/ (pc[c] = "key" /\ i \in work[c].new)}
Inserted(c) == IF work[c].session = 0 THEN {} ELSE work[c].new \ work[c].left

LocksQuestion(c, s, i) ==
    \/ pc[c] \in {"next", "commit"} /\ Asked(c).session = s /\ Asked(c).item = i
    \/ i \in Wrote(c, s)

\* SELECT ... FOR KEY SHARE of the foreign keys.
SharesSession(c, s) == work[c].session = s /\ Inserted(c) # {}
SharesCard(c, k) == \E i \in Inserted(c) : item[work[c].session][i].card = k

ActionIsFree(c) ==
    \A d \in Calls \ {c} : HoldsAction(d) => req[d].action # req[c].action
\* Mutant: a second connection is used, for which the call's own lock is in the way.
SessionIsFreeForAll(c, s) == \A d \in Calls : ~LocksSession(d, s)

SessionIsFree(c, s) == \A d \in Calls \ {c} : ~LocksSession(d, s)
CardIsFree(k) == \A d \in Calls : ~LocksCard(d, k) /\ ~SharesCard(d, k)
QuestionIsFree(c, s, i) == \A d \in Calls \ {c} : ~LocksQuestion(d, s, i)
KeyIsFree(c, s, i) == \A d \in Calls \ {c} : i \notin Wrote(d, s)

GoTo(c, label) == pc' = [pc EXCEPT ![c] = label]

\* The transaction is over, by commit or rollback, and its locks with it.
End(c) ==
    /\ GoTo(c, "done")
    /\ work' = [work EXCEPT ![c] = NoWork]

\* _refresh_session_progress, and what is written of it: the attributes that
\* differ from those loaded, into the row as it is by then.
Progress(row, items) ==
    [type |-> row.type,
     status |-> IF \A i \in DOMAIN items : items[i].done THEN "completed" ELSE row.status,
     total |-> Len(items),
     reviewed |-> Cardinality({i \in DOMAIN items : items[i].done})]

Changed(c) == {f \in {"status", "total", "reviewed"} : work[c].row[f] # work[c].loaded[f]}

Written(c) ==
    [s \in DOMAIN session |->
        IF s = work[c].session
        THEN [f \in DOMAIN session[s] |->
                 IF f \in Changed(c) THEN work[c].row[f] ELSE session[s][f]]
        ELSE session[s]]

\* ensure_question_for_item: whether the question of an item has to be inserted, or
\* made anew for the card as it was loaded.
IsNew(it) == it.question = 0
IsStale(it, version) == it.question # 0 /\ (it.done \/ it.question # version)

\* The unique key of session_item_id: another call has inserted the question since.
QuestionIsThere(c, s) == \E i \in work[c].new \cap ItemsOf(s) : item[s][i].question # 0

WithQuestions(c, items) ==
    [i \in DOMAIN items |->
        IF i \in work[c].new \cup work[c].stale
        THEN [items[i] EXCEPT !.question = work[c].view[i]]
        ELSE items[i]]

Show(c, s) ==
    shown' = shown \cup {[session |-> s, item |-> i, version |-> work[c].view[i]] :
                            i \in DOMAIN work[c].view}

-----------------------------------------------------------------------------
(* Answers: _submit_review_feedback_observed.                              *)

\* A device answers a question it was shown, under a new client_action_id ...
Answer(c, a, question, correct) ==
    /\ pc[c] = "idle" /\ sent[a] = NoReply
    /\ sent' = [sent EXCEPT ![a] = [question |-> question, correct |-> correct]]
    /\ req' = [req EXCEPT ![c] = [kind |-> "answer", action |-> a]]
    /\ GoTo(c, "lookUp")
    /\ UNCHANGED <<db, work, shown>>

\* ... or sends an answer again.
AnswerAgain(c, a) ==
    /\ pc[c] = "idle" /\ sent[a] # NoReply
    /\ req' = [req EXCEPT ![c] = [kind |-> "answer", action |-> a]]
    /\ GoTo(c, "lookUp")
    /\ UNCHANGED <<db, work, shown, sent>>

\* get_existing_client_action: what was decided is replayed.  A failed action is
\* taken up like a new one; `processing` is never committed.
LookUp(c) ==
    /\ pc[c] = "lookUp"
    /\ GoTo(c, IF rows[req[c].action] \in {"succeeded", "ignored"} THEN "done" ELSE "insert")
    /\ UNCHANGED <<db, req, work, shown, sent>>

\* create_processing_action waits for the key.  If the row is there, the
\* IntegrityError becomes a 500.
Insert(c) ==
    /\ pc[c] = "insert"
    /\ ActionIsFree(c)
    /\ GoTo(c, IF rows[req[c].action] = "none" THEN "session" ELSE "done")
    /\ UNCHANGED <<db, req, work, shown, sent>>

\* mark_action_ignored, mark_action_failed: the row is all that is committed.
Decline(c, status) ==
    /\ rows' = [rows EXCEPT ![req[c].action] = status]
    /\ GoTo(c, "done")

\* The session and its item FOR UPDATE.
LockSession(c) ==
    LET q == Asked(c) IN
    /\ pc[c] = "session"
    /\ SessionIsFree(c, q.session) /\ \A d \in Calls : ~SharesSession(d, q.session)
    /\ IF session[q.session].status # "active" \/ item[q.session][q.item].done
       THEN Decline(c, "ignored")
       ELSE GoTo(c, "card") /\ UNCHANGED rows
    /\ UNCHANGED <<card, session, item, log, req, work, shown, sent>>

\* The card FOR UPDATE, which is found unless it is deleted ...
LockCard(c) ==
    LET q == Asked(c) IN
    /\ pc[c] = "card"
    /\ CardIsFree(AskedCard(c))
    /\ \/ GoTo(c, "question") /\ UNCHANGED rows
       \/ ~Eligible(q.session, q.item) /\ Decline(c, "failed")
    /\ UNCHANGED <<card, session, item, log, req, work, shown, sent>>

\* ... and the question FOR UPDATE, which has to be made from the card as it is.
LockQuestion(c) ==
    LET q == Asked(c) IN
    /\ pc[c] = "question"
    /\ QuestionIsFree(c, q.session, q.item)
    /\ IF /\ Eligible(q.session, q.item)
          /\ item[q.session][q.item].question = VersionOf(q.session, q.item)
       THEN GoTo(c, "next") /\ UNCHANGED rows
       ELSE Decline(c, "failed")
    /\ UNCHANGED <<card, session, item, log, req, work, shown, sent>>

\* Mutant: the repeated item does not say that it is one.
RepeatUnmarked(k) == [card |-> k, repeat |-> FALSE, done |-> FALSE, question |-> 0]

\* A wrong answer brings the card back once, at the end of the session.
RepeatOf(k) == [card |-> k, repeat |-> TRUE, done |-> FALSE, question |-> 0]

NeedsRepeat(items, i) ==
    /\ ~items[i].repeat
    /\ \A j \in DOMAIN items : ~(items[j].repeat /\ items[j].card = items[i].card)

AfterAnswer(c) ==
    LET i == Asked(c).item
        items == item[Asked(c).session]
        marked == [items EXCEPT ![i].done = TRUE]
    IN IF ~Correct(c) /\ NeedsRepeat(items, i)
       THEN Append(marked, RepeatOf(items[i].card))
       ELSE marked

AskFor(c, items, i, version) ==
    /\ work' = [work EXCEPT ![c].view = [j \in {i} |-> version],
                            ![c].new = {j \in {i} : IsNew(items[j])},
                            ![c].stale = {j \in {i} : IsStale(items[j], version)}]
    /\ GoTo(c, "commit")

\* Mutant: the answer is committed before the next question is looked for.
AskNextAfterCommit(c) ==
    LET q == Asked(c)
        items == AfterAnswer(c)
        open == {i \in DOMAIN items : ~items[i].done}
        next == CHOOSE i \in open : \A j \in open : i <= j
        k == card[items[next].card]
    IN /\ pc[c] = "next"
       /\ \/ open = {} /\ GoTo(c, "commit") /\ UNCHANGED <<item, log, work>>
          \/ open # {} /\ k.eligible /\ AskFor(c, items, next, k.version)
             /\ UNCHANGED <<item, log>>
          \/ /\ open # {} /\ ~k.eligible
             /\ item' = [item EXCEPT ![q.session] = items]
             /\ log' = Append(log, [action |-> req[c].action, correct |-> Correct(c),
                                    question |-> q])
             /\ End(c)
       /\ UNCHANGED <<card, session, rows, req, shown, sent>>

\* _next_pending_item and its question.  If its card cannot be asked any more, the
\* answer is rolled back with 409.
AskNext(c) ==
    LET items == AfterAnswer(c)
        open == {i \in DOMAIN items : ~items[i].done}
        next == CHOOSE i \in open : \A j \in open : i <= j
        k == card[items[next].card]
    IN /\ pc[c] = "next"
       /\ \/ open = {} /\ GoTo(c, "commit") /\ UNCHANGED work
          \/ open # {} /\ k.eligible /\ AskFor(c, items, next, k.version)
          \/ open # {} /\ ~k.eligible /\ End(c)
       /\ UNCHANGED <<db, req, shown, sent>>

\* Mutant: progress is counted before db.flush() has written the answer.
CommitCountingBefore(c) ==
    LET q == Asked(c) IN
    /\ pc[c] = "commit"
    /\ \A i \in work[c].new \cup work[c].stale : KeyIsFree(c, q.session, i)
    /\ IF QuestionIsThere(c, q.session)
       THEN UNCHANGED <<db, shown>>
       ELSE /\ item' = [item EXCEPT ![q.session] = WithQuestions(c, AfterAnswer(c))]
            /\ session' = [session EXCEPT ![q.session] = Progress(@, item[q.session])]
            /\ rows' = [rows EXCEPT ![req[c].action] = "succeeded"]
            /\ log' = Append(log, [action |-> req[c].action, correct |-> Correct(c),
                          question |-> [q EXCEPT !.version = item[q.session][q.item].question]])
            /\ Show(c, q.session)
            /\ UNCHANGED card
    /\ End(c)
    /\ UNCHANGED <<req, sent>>

\* Answer, repeat, progress, the next question and the response are committed
\* together, once no opening has written that question.
Commit(c) ==
    LET q == Asked(c) IN
    /\ pc[c] = "commit"
    /\ \A i \in work[c].new \cup work[c].stale : KeyIsFree(c, q.session, i)
    /\ IF QuestionIsThere(c, q.session)
       THEN UNCHANGED <<db, shown>>
       ELSE /\ item' = [item EXCEPT ![q.session] = WithQuestions(c, AfterAnswer(c))]
            /\ session' = [session EXCEPT ![q.session] = Progress(@, AfterAnswer(c))]
            /\ rows' = [rows EXCEPT ![req[c].action] = "succeeded"]
            /\ log' = Append(log, [action |-> req[c].action, correct |-> Correct(c),
                          question |-> [q EXCEPT !.version = item[q.session][q.item].question]])
            /\ Show(c, q.session)
            /\ UNCHANGED card
    /\ End(c)
    /\ UNCHANGED <<req, sent>>

-----------------------------------------------------------------------------
(* Openings: _create_or_return_session, and the overview's refresh.        *)

Open(c, r) ==
    /\ pc[c] = "idle"
    /\ req' = [req EXCEPT ![c] = r]
    /\ GoTo(c, "read")
    /\ UNCHANGED <<db, work, shown, sent>>

IsOverview(c) == req[c] = Overview

\* _active_sessions, _get_active_session: unlocked.
Read(c) ==
    LET active == {s \in DOMAIN session : session[s].status = "active"} IN
    /\ pc[c] = "read"
    /\ \/ /\ active = {}
          /\ GoTo(c, IF IsOverview(c) THEN "done" ELSE "create")
          /\ UNCHANGED work
       \/ \E s \in active :
             /\ work' = [work EXCEPT ![c].session = s, ![c].loaded = session[s],
                                     ![c].row = session[s]]
             /\ GoTo(c, "total")
    /\ UNCHANGED <<db, req, shown, sent>>

\* The three statements of _refresh_session_progress, each with its own snapshot.
Refresh(c, label, field, next) ==
    /\ pc[c] = label
    /\ work' = [work EXCEPT ![c].row[field] =
                    Progress(work[c].row, item[work[c].session])[field]]
    /\ GoTo(c, next)
    /\ UNCHANGED <<db, req, shown, sent>>

CountItems(c) == Refresh(c, "total", "total", "reviewed")
CountReviewed(c) == Refresh(c, "reviewed", "reviewed", "pending")
FindPending(c) == Refresh(c, "pending", "status", "flush")

\* db.flush(): an UPDATE, if anything has changed, waits for the row.  The overview
\* flushes with its commit.
Flush(c) ==
    /\ pc[c] = "flush"
    /\ Changed(c) # {} => SessionIsFree(c, work[c].session)
    /\ IF IsOverview(c)
       THEN session' = Written(c) /\ End(c)
       ELSE /\ work' = [work EXCEPT ![c].held = Changed(c) # {}]
            /\ GoTo(c, "decide")
            /\ UNCHANGED session
    /\ UNCHANGED <<card, item, rows, log, req, shown, sent>>

\* An active session of the type asked for is returned, if all that is pending can
\* be asked; one of the other type needs `restart`, or 409.
Decide(c) ==
    LET s == work[c].session
        isActive == work[c].row.status = "active"
        isOther == work[c].row.type # req[c].type
    IN /\ pc[c] = "decide"
       /\ \/ ~isActive /\ GoTo(c, "create") /\ UNCHANGED work
          \/ isActive /\ req[c].restart /\ GoTo(c, "abandon") /\ UNCHANGED work
          \/ isActive /\ ~req[c].restart /\ isOther /\ End(c)
          \/ /\ isActive /\ ~req[c].restart /\ ~isOther
             /\ IF \A i \in Pending(s) : Eligible(s, i)
                THEN /\ work' = [work EXCEPT ![c].view = [i \in Pending(s) |-> VersionOf(s, i)],
                                             ![c].left = Pending(s)]
                     /\ GoTo(c, "look")
                ELSE GoTo(c, "abandon") /\ UNCHANGED work
       /\ UNCHANGED <<db, req, shown, sent>>

Abandon(c) ==
    /\ pc[c] = "abandon"
    /\ SessionIsFree(c, work[c].session)
    /\ work' = [work EXCEPT ![c].row.status = "abandoned", ![c].held = TRUE]
    /\ GoTo(c, "create")
    /\ UNCHANGED <<db, req, shown, sent>>

\* Sessions that ux_review_sessions_one_active_per_user finds active.
OtherActive(c) == {s \in DOMAIN session : Written(c)[s].status = "active"}

FirstItems(cs) ==
    [i \in DOMAIN cs |-> [card |-> cs[i], repeat |-> FALSE, done |-> FALSE,
                          question |-> card[cs[i]].version]]

\* _create_session with the questions of its items.  The INSERT waits for whoever
\* has changed an active session, and fails if it is still active.  Which of the
\* cards are due is left open; if none is, there is no session.
Create(c) ==
    /\ pc[c] = "create"
    /\ \A s \in OtherActive(c), d \in Calls \ {c} : ~(work[d].held /\ work[d].session = s)
    /\ \/ /\ session' = Written(c)
          /\ UNCHANGED <<item, shown>>
       \/ \E cs \in Selections :
             /\ \A i \in DOMAIN cs : card[cs[i]].eligible
             /\ OtherActive(c) = {}
             /\ session' = Append(Written(c),
                              [type |-> req[c].type, status |-> "active",
                               total |-> Len(cs), reviewed |-> 0])
             /\ item' = Append(item, FirstItems(cs))
             /\ shown' = shown \cup
                   {[session |-> Len(session'), item |-> i, version |-> card[cs[i]].version] :
                       i \in DOMAIN cs}
       \/ OtherActive(c) # {} /\ UNCHANGED <<session, item, shown>>
    /\ End(c)
    /\ UNCHANGED <<card, rows, log, req, sent>>

\* Mutant: the pending items come in any order.
AnyOf(left) == left

\* _pending_items come by their position.
FirstOf(left) == {i \in left : \A j \in left : i <= j}

\* The questions to be returned are read one by one ...
LookAtQuestion(c) ==
    LET items == item[work[c].session] IN
    /\ pc[c] = "look"
    /\ \E i \in FirstOf(work[c].left) :
          \/ /\ IsNew(items[i])
             /\ work' = [work EXCEPT ![c].new = @ \cup {i}]
             /\ GoTo(c, "write")
          \/ /\ IsStale(items[i], work[c].view[i])
             /\ work' = [work EXCEPT ![c].stale = @ \cup {i}]
             /\ GoTo(c, "write")
          \/ /\ ~IsNew(items[i]) /\ ~IsStale(items[i], work[c].view[i])
             /\ work' = [work EXCEPT ![c].left = @ \ {i}]
             /\ UNCHANGED pc
    /\ UNCHANGED <<db, req, shown, sent>>

\* ... and flushed one by one where that is due: the UPDATE waits for whoever has locked
\* or written the row, the INSERT for whoever has written one with its key, and ...
WriteQuestion(c) ==
    LET s == work[c].session IN
    /\ pc[c] = "write"
    /\ \E i \in work[c].left :
          \/ /\ i \in work[c].stale
             /\ QuestionIsFree(c, s, i)
             /\ work' = [work EXCEPT ![c].left = @ \ {i}]
             /\ GoTo(c, "look")
          \/ /\ i \in work[c].new
             /\ KeyIsFree(c, s, i)
             /\ IF IsNew(item[s][i]) THEN GoTo(c, "key") /\ UNCHANGED work ELSE End(c)
    /\ UNCHANGED <<db, req, shown, sent>>

\* ... for the answers that lock the session and the card it refers to.
ShareRows(c) ==
    LET s == work[c].session IN
    /\ pc[c] = "key"
    /\ \E i \in work[c].left \cap work[c].new :
          /\ \A d \in Calls : ~AnswerLocks(d, s) /\ ~LocksCard(d, item[s][i].card)
          /\ work' = [work EXCEPT ![c].left = @ \ {i}]
    /\ GoTo(c, "look")
    /\ UNCHANGED <<db, req, shown, sent>>

\* The commit shows what was written.
Return(c) ==
    LET s == work[c].session IN
    /\ pc[c] = "look" /\ work[c].left = {}
    /\ item' = [item EXCEPT ![s] = WithQuestions(c, @)]
    /\ session' = Written(c)
    /\ Show(c, s)
    /\ End(c)
    /\ UNCHANGED <<card, rows, log, req, sent>>

-----------------------------------------------------------------------------
\* A card is edited, deleted (see CardSync), or loses or regains its understanding.
EditCard(k) ==
    /\ CardIsFree(k) /\ card[k].version < MaxVersion
    /\ \E eligible \in BOOLEAN :
          card' = [card EXCEPT ![k] = [version |-> @.version + 1, eligible |-> eligible]]
    /\ UNCHANGED <<session, item, rows, log, pc, req, work, shown, sent>>

\* No distractors can be generated, the connection is lost, the process dies: the
\* transaction is rolled back.
Fail(c) ==
    /\ pc[c] \notin {"idle", "done"}
    /\ End(c)
    /\ UNCHANGED <<db, req, shown, sent>>

Step(c) ==
    \/ LookUp(c) \/ Insert(c) \/ LockSession(c) \/ LockCard(c) \/ LockQuestion(c)
    \/ AskNext(c) \/ Commit(c)
    \/ Read(c) \/ CountItems(c) \/ CountReviewed(c) \/ FindPending(c) \/ Flush(c)
    \/ Decide(c) \/ Abandon(c) \/ Create(c)
    \/ LookAtQuestion(c) \/ WriteQuestion(c) \/ ShareRows(c) \/ Return(c)

Next ==
    \/ \E c \in Calls :
          \/ \E a \in Actions : AnswerAgain(c, a)
          \/ \E a \in Actions, q \in shown, correct \in BOOLEAN : Answer(c, a, q, correct)
          \/ \E r \in Openings \cup {Overview} : Open(c, r)
          \/ Step(c)
          \/ Fail(c)
    \/ \E k \in Cards : EditCard(k)

Spec == Init /\ [][Next]_vars

-----------------------------------------------------------------------------
(* Properties.                                                             *)

\* An answer is all or nothing: a client action succeeded exactly if there is one
\* answer of its, and an item is done exactly if there is one answer to it, however
\* often and by however many devices it was answered.
AnswersAreWhole ==
    /\ \A a \in Actions :
          Cardinality({n \in DOMAIN log : log[n].action = a})
              = IF rows[a] = "succeeded" THEN 1 ELSE 0
    /\ \A s \in DOMAIN item : \A i \in ItemsOf(s) :
          Cardinality({n \in DOMAIN log : log[n].question.session = s /\ log[n].question.item = i})
              = IF item[s][i].done THEN 1 ELSE 0

\* An answer is graded against the card as it is at that moment, and in a session
\* that is still active.
GradedWhenCurrent ==
    [][log' # log =>
          LET q == log'[Len(log')].question
              k == card[item[q.session][q.item].card]
          IN k.eligible /\ k.version = q.version /\ session[q.session].status = "active"]_vars

\* A session is active as long as it has something to ask, and no longer: the last
\* answer completes it, whoever else refreshes its progress meanwhile.
StatusTellsPending ==
    \A s \in DOMAIN session :
        /\ session[s].status = "active" => Pending(s) # {}
        /\ session[s].status = "completed" => Pending(s) = {}

\* A card answered wrong comes back in its session, once.
ComesBackOnce ==
    \A s \in DOMAIN item : \A k \in Cards :
        Cardinality({i \in ItemsOf(s) : item[s][i].card = k /\ item[s][i].repeat})
            = IF \E n \in DOMAIN log : /\ log[n].question.session = s
                                       /\ item[s][log[n].question.item].card = k
                                       /\ ~log[n].correct
              THEN 1 ELSE 0

\* Whose transaction has to end before a call takes its next step.
WaitsFor(c, d) ==
    LET q == Asked(c)
        s == work[c].session
    IN /\ d # c
       /\ \/ pc[c] = "insert" /\ HoldsAction(d) /\ req[d].action = req[c].action
          \/ /\ pc[c] = "session"
             /\ LocksSession(d, q.session) \/ SharesSession(d, q.session)
          \/ pc[c] = "card" /\ (LocksCard(d, AskedCard(c)) \/ SharesCard(d, AskedCard(c)))
          \/ pc[c] = "question" /\ LocksQuestion(d, q.session, q.item)
          \/ pc[c] = "commit" /\ Wrote(d, q.session) \cap (work[c].new \cup work[c].stale) # {}
          \/ /\ pc[c] = "abandon" \/ (pc[c] = "flush" /\ Changed(c) # {})
             /\ LocksSession(d, s)
          \/ pc[c] = "create" /\ work[d].held /\ work[d].session \in OtherActive(c)
          \/ /\ pc[c] = "write"
             /\ \/ \E i \in work[c].stale \cap work[c].left : LocksQuestion(d, s, i)
                \/ Wrote(d, s) \cap work[c].new \cap work[c].left # {}
          \/ /\ pc[c] = "key"
             /\ \E i \in work[c].new \cap work[c].left :
                   AnswerLocks(d, s) \/ LocksCard(d, item[s][i].card)

UnderWay(c) == pc[c] \notin {"idle", "done"}
AsksForRow(c) == pc[c] \in {"question", "commit"}
WritesOn(c) == pc[c] \in {"write", "key"} /\ Wrote(c, work[c].session) # {}

\* Calls never wait for one that is over; and they wait for each other in a circle only
\* if among them is an answer that wants the row of a question, its own or the next, and
\* an opening that has written some and is not through with its INSERT or wants to write
\* more.  There the code has circles, which end with the error PostgreSQL raises in one
\* of the transactions.
CirclesNeedQuestions ==
    /\ \A c, d \in Calls : WaitsFor(c, d) => UnderWay(d)
    /\ \A circle \in (SUBSET Calls) \ {{}} :
          (\A c \in circle : \E d \in circle : WaitsFor(c, d)) =>
              /\ \E c \in circle : AsksForRow(c)
              /\ \E c \in circle : WritesOn(c)

\* Only locks stop a call: one that waits for nobody has a step to take.  As no call
\* goes back, every call ends.
OnlyLocksStop ==
    \A c \in Calls : UnderWay(c) /\ (\A d \in Calls : ~WaitsFor(c, d)) => ENABLED Step(c)

\* The audit of e2e/run_level7_e2e.py, "completed_session_progress_mismatch": all
\* that is in a completed session is counted as reviewed.
CompletedIsCounted ==
    \A s \in DOMAIN session :
        session[s].status = "completed" => session[s].reviewed = session[s].total

=============================================================================
