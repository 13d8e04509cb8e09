------------------------------ MODULE CardSync ------------------------------
(***************************************************************************)
(* Cards edited by several devices: POST /api/cards/sync, where every      *)
(* operation carries a client_action_id and may be sent again, and the     *)
(* direct endpoints of routers/cards.py, which carry none.                 *)
(*                                                                         *)
(* A call is one request on its way through the server, in one transaction *)
(* of its own.  PostgreSQL runs READ COMMITTED: a statement sees what is   *)
(* committed when it starts, an INSERT waits for an uncommitted row of the *)
(* same unique key, SELECT ... FOR UPDATE waits for the row's lock and     *)
(* then reads it anew.  Calls interleave between their statements.         *)
(***************************************************************************)
EXTENDS Naturals, Sequences

CONSTANTS
    Calls,       \* requests received, the same operation sent again included
    Actions,     \* client_action_ids
    NoAction,    \* ... and what a direct request has instead
    Cards,       \* local ids of the cards of one user
    Contents,    \* contents an edit may write
    Requests,    \* the requests the devices may send
    MaxCleanups  \* bound: runs of scripts/cleanup_client_actions.py

NoContent == CHOOSE x \in Contents : TRUE  \* of a row that is not there yet

ASSUME CardSyncAssumption ==
    /\ NoAction \notin Actions
    /\ Contents # {}
    /\ MaxCleanups \in Nat
    /\ Requests \subseteq
          [action : Actions \cup {NoAction}, op : {"CREATE", "UPDATE", "DELETE"},
           card : Cards, base : Nat, content : Contents]
    \* `base_version` is required by CardSyncRequest, optional (0) elsewhere.
    /\ \A r \in Requests : r.action # NoAction /\ r.op # "CREATE" => r.base > 0

VARIABLES
    card,     \* committed rows of `cards`
    rows,     \* committed rows of `client_actions`: request and response
    pc,       \* where a call is in its handler
    req,      \* the request of a call
    work,     \* the row a call is about to return, and to write if it locks it
    cleaned,  \* runs of the cleanup so far
    log,      \* history: the changes committed, in order
    answers   \* history: answers given to synchronised requests, and whether one had
              \* been answered with success before

vars == <<card, rows, pc, req, work, cleaned, log, answers>>

Row == [version : Nat, deleted : BOOLEAN, content : Contents]
NoRow == [version |-> 0, deleted |-> FALSE, content |-> NoContent]

NoAnswer == [req |-> "none"]
Kinds == {"ok", "conflict", "missing", "reused", "integrity", "error"}

TypeOK ==
    /\ card \in [Cards -> Row]
    /\ rows \in [Actions -> {NoAnswer} \cup [req : Requests, row : Row]]
    /\ pc \in [Calls -> {"idle", "lookUp", "insert", "lookUpAgain", "find", "insertCard",
                         "lock", "commit", "done"}]
    /\ req \in [Calls -> {NoAction} \cup Requests]
    /\ work \in [Calls -> Row]
    /\ cleaned \in 0..MaxCleanups
    /\ log \in Seq([req : Requests, row : Row])
    /\ answers \subseteq [req : Requests, kind : Kinds, row : Row, again : BOOLEAN]

Init ==
    /\ card = [l \in Cards |-> NoRow]
    /\ rows = [a \in Actions |-> NoAnswer]
    /\ pc = [c \in Calls |-> "idle"]
    /\ req = [c \in Calls |-> NoAction]
    /\ work = [c \in Calls |-> NoRow]
    /\ cleaned = 0
    /\ log = <<>>
    /\ answers = {}

-----------------------------------------------------------------------------
Synced(c) == req[c].action # NoAction
Current(c) == card[req[c].card]
Exists(c) == Current(c).version > 0

\* A call holds the key of the client_actions row it has inserted ...
HoldsAction(c) ==
    pc[c] \in {"find", "insertCard", "lock", "commit"} /\ Synced(c)

\* ... and the lock of the card it has inserted or selected FOR UPDATE.
HoldsCard(c) ==
    /\ pc[c] = "commit"
    /\ req[c].op = "CREATE" => ~Exists(c)

ActionIsFree(c) == \A d \in Calls \ {c} : HoldsAction(d) => req[d].action # req[c].action
CardIsFree(c) == \A d \in Calls \ {c} : HoldsCard(d) => req[d].card # req[c].card

GoTo(c, label) == pc' = [pc EXCEPT ![c] = label]

Succeeded(r) == \E x \in answers : x.req = r /\ x.kind = "ok"

\* The call ends with its transaction rolled back, and answers.
Answer(c, kind, row) ==
    /\ GoTo(c, "done")
    /\ answers' = IF Synced(c)
                  THEN answers \cup {[req |-> req[c], kind |-> kind, row |-> row,
                                      again |-> Succeeded(req[c])]}
                  ELSE answers

FirstStatement(r) ==
    IF r.op = "CREATE" THEN "find" ELSE "lock"

\* A device sends a request.  It can name a card and a version only if it has seen
\* them.
Send(c, r) ==
    /\ pc[c] = "idle"
    /\ r.op # "CREATE" => card[r.card].version > 0
    /\ r.base <= card[r.card].version
    /\ req' = [req EXCEPT ![c] = r]
    /\ GoTo(c, IF r.action = NoAction THEN FirstStatement(r) ELSE "lookUp")
    /\ UNCHANGED <<card, rows, work, cleaned, log, answers>>

\* Mutant: the client_action_id alone identifies the operation.
ReturnAnyExisting(c) == Answer(c, "ok", rows[req[c].action].row)

\* _return_existing_action.  A committed row is always `succeeded`: the row and its
\* response are committed together.
ReturnExisting(c) ==
    LET saved == rows[req[c].action] IN
    IF saved.req = req[c]
    THEN Answer(c, "ok", saved.row)
    ELSE Answer(c, "reused", NoRow)

\* get_existing_client_action.
LookUp(c) ==
    /\ pc[c] = "lookUp"
    /\ IF rows[req[c].action] # NoAnswer
       THEN ReturnExisting(c)
       ELSE GoTo(c, "insert") /\ UNCHANGED answers
    /\ UNCHANGED <<card, rows, req, work, cleaned, log>>

\* Mutant: two calls may hold a row of the same client_action_id.
InsertWithoutKey(c) ==
    /\ pc[c] = "insert"
    /\ GoTo(c, FirstStatement(req[c]))
    /\ UNCHANGED <<card, rows, req, work, cleaned, log, answers>>

\* create_processing_action: the INSERT waits for the key, and fails if the row is
\* there by then.
Insert(c) ==
    /\ pc[c] = "insert"
    /\ ActionIsFree(c)
    /\ GoTo(c, IF rows[req[c].action] # NoAnswer
               THEN "lookUpAgain" ELSE FirstStatement(req[c]))
    /\ UNCHANGED <<card, rows, req, work, cleaned, log, answers>>

\* Mutant: after the IntegrityError the INSERT is tried again.
InsertAgain(c) ==
    /\ pc[c] = "lookUpAgain"
    /\ GoTo(c, "insert")
    /\ UNCHANGED <<card, rows, req, work, cleaned, log, answers>>

\* After the IntegrityError and the rollback; the row may be cleaned up by now.
LookUpAgain(c) ==
    /\ pc[c] = "lookUpAgain"
    /\ IF rows[req[c].action] # NoAnswer
       THEN ReturnExisting(c)
       ELSE Answer(c, "error", NoRow)
    /\ UNCHANGED <<card, rows, req, work, cleaned, log>>

\* create_card_in_transaction: the card of this local id is returned as it is,
\* tombstone or not, and is not locked.
FindCard(c) ==
    /\ pc[c] = "find"
    /\ IF Exists(c)
       THEN work' = [work EXCEPT ![c] = Current(c)] /\ GoTo(c, "commit")
       ELSE GoTo(c, "insertCard") /\ UNCHANGED work
    /\ UNCHANGED <<card, rows, req, cleaned, log, answers>>

\* The INSERT of the card.  If another call has created it meanwhile, the
\* synchronised request is refused, the direct one returns that card.
InsertCard(c) ==
    /\ pc[c] = "insertCard"
    /\ CardIsFree(c)
    /\ IF ~Exists(c)
       THEN /\ work' = [work EXCEPT ![c] = [version |-> 1, deleted |-> FALSE,
                                            content |-> req[c].content]]
            /\ GoTo(c, "commit")
            /\ UNCHANGED answers
       ELSE Answer(c, "integrity", NoRow) /\ UNCHANGED work
    /\ UNCHANGED <<card, rows, req, cleaned, log>>

\* apply_card_update; fields set to what they are issue no UPDATE and leave the
\* version alone.
Edited(row, content) ==
    IF content = row.content
    THEN row
    ELSE [version |-> row.version + 1, deleted |-> row.deleted, content |-> content]

Deleted(row) == [version |-> row.version + 1, deleted |-> TRUE, content |-> row.content]

\* Mutant: the card is selected without FOR UPDATE.
LockNothing(c) ==
    /\ pc[c] = "lock"
    /\ IF Current(c).deleted
       THEN Answer(c, "missing", NoRow) /\ UNCHANGED work
       ELSE IF req[c].base \notin {0, Current(c).version}
       THEN Answer(c, "conflict", NoRow) /\ UNCHANGED work
       ELSE /\ work' = [work EXCEPT ![c] =
                          IF req[c].op = "UPDATE"
                          THEN Edited(Current(c), req[c].content)
                          ELSE Deleted(Current(c))]
            /\ GoTo(c, "commit") /\ UNCHANGED answers
    /\ UNCHANGED <<card, rows, req, cleaned, log>>

\* Mutant: base_version only guards against a card that is older than it.
LockIgnoringNewer(c) ==
    /\ pc[c] = "lock"
    /\ CardIsFree(c)
    /\ IF Current(c).deleted
       THEN Answer(c, "missing", NoRow) /\ UNCHANGED work
       ELSE /\ work' = [work EXCEPT ![c] =
                          IF req[c].op = "UPDATE"
                          THEN Edited(Current(c), req[c].content)
                          ELSE Deleted(Current(c))]
            /\ GoTo(c, "commit") /\ UNCHANGED answers
    /\ UNCHANGED <<card, rows, req, cleaned, log>>

\* get_card_or_404 FOR UPDATE and the check of base_version.  Deleting a tombstone
\* through /sync returns it, through DELETE it is not found.
Lock(c) ==
    /\ pc[c] = "lock"
    /\ CardIsFree(c)
    /\ \/ /\ Current(c).deleted
          /\ IF req[c].op = "DELETE" /\ Synced(c)
             THEN /\ work' = [work EXCEPT ![c] = Current(c)]
                  /\ GoTo(c, "commit") /\ UNCHANGED answers
             ELSE Answer(c, "missing", NoRow) /\ UNCHANGED work
       \/ /\ ~Current(c).deleted
          /\ req[c].base \notin {0, Current(c).version}
          /\ Answer(c, "conflict", NoRow)
          /\ UNCHANGED work
       \/ /\ ~Current(c).deleted
          /\ req[c].base \in {0, Current(c).version}
          /\ work' = [work EXCEPT ![c] =
                        IF req[c].op = "UPDATE"
                        THEN Edited(Current(c), req[c].content)
                        ELSE Deleted(Current(c))]
          /\ GoTo(c, "commit") /\ UNCHANGED answers
    /\ UNCHANGED <<card, rows, req, cleaned, log>>

\* Mutant: the request is not saved with the action.
CommitWithoutRequest(c) ==
    /\ pc[c] = "commit"
    /\ card' = IF HoldsCard(c) THEN [card EXCEPT ![req[c].card] = work[c]] ELSE card
    /\ log' = log
    /\ rows' = IF Synced(c) THEN [rows EXCEPT ![req[c].action] = [row |-> work[c]]] ELSE rows
    /\ Answer(c, "ok", work[c])
    /\ UNCHANGED <<req, work, cleaned>>

\* Mutant: mark_action_succeeded is forgotten, and the row goes with the session.
CommitUnrecorded(c) ==
    /\ pc[c] = "commit"
    /\ card' = IF HoldsCard(c) THEN [card EXCEPT ![req[c].card] = work[c]] ELSE card
    /\ log' = IF HoldsCard(c) /\ work[c] # Current(c)
              THEN Append(log, [req |-> req[c], row |-> work[c]])
              ELSE log
    /\ Answer(c, "ok", work[c])
    /\ UNCHANGED <<rows, req, work, cleaned>>

\* mark_action_succeeded and the commit: card, client_actions row and response
\* become visible together.
Commit(c) ==
    /\ pc[c] = "commit"
    /\ card' = IF HoldsCard(c) THEN [card EXCEPT ![req[c].card] = work[c]] ELSE card
    /\ log' = IF HoldsCard(c) /\ work[c] # Current(c)
              THEN Append(log, [req |-> req[c], row |-> work[c]])
              ELSE log
    /\ rows' = IF Synced(c)
               THEN [rows EXCEPT ![req[c].action] = [req |-> req[c], row |-> work[c]]]
               ELSE rows
    /\ Answer(c, "ok", work[c])
    /\ UNCHANGED <<req, work, cleaned>>

\* Mutant: the action is committed on its own, before the card.
AbortKeepingAction(c) ==
    /\ pc[c] \notin {"idle", "done"}
    /\ rows' = IF pc[c] = "commit" /\ Synced(c)
               THEN [rows EXCEPT ![req[c].action] = [req |-> req[c], row |-> work[c]]]
               ELSE rows
    /\ Answer(c, "error", NoRow)
    /\ UNCHANGED <<card, req, work, cleaned, log>>

\* A validation error, a lost connection or the death of the process: everything
\* the transaction did is rolled back.
Abort(c) ==
    /\ pc[c] \notin {"idle", "done"}
    /\ Answer(c, "error", NoRow)
    /\ UNCHANGED <<card, rows, req, work, cleaned, log>>

\* scripts/cleanup_client_actions.py: the cutoff is the present, so every committed
\* row is older than it.
Cleanup ==
    /\ cleaned < MaxCleanups
    /\ cleaned' = cleaned + 1
    /\ rows' = [a \in Actions |-> NoAnswer]
    /\ UNCHANGED <<card, pc, req, work, log, answers>>

Step(c) ==
    \/ LookUp(c) \/ Insert(c) \/ LookUpAgain(c) \/ FindCard(c) \/ InsertCard(c)
    \/ Lock(c) \/ Commit(c)

Next ==
    \/ \E c \in Calls : (\E r \in Requests : Send(c, r)) \/ Step(c) \/ Abort(c)
    \/ Cleanup

Spec == Init /\ [][Next]_vars

\* PostgreSQL runs every statement that is not waiting, and grants locks in turn.
FairSpec == Spec /\ \A c \in Calls : WF_vars(Step(c))

-----------------------------------------------------------------------------
(* Properties.                                                             *)

\* Whatever calls interleave, the cards change as CardStore promises.
Store == INSTANCE CardStore
ImplementsCardStore == Store!Spec

\* A synchronised operation changes its card at most once however often it is sent,
\* and even if the record of it has been cleaned up: local id, base_version and
\* tombstone stop it again.
AppliedOnce ==
    \A i, j \in 1..Len(log) :
        i # j /\ log[i].req.action # NoAction => log[i].req # log[j].req

\* No change overwrites one its device had not seen: an operation with a
\* base_version is applied to that version and no other.
NothingOverwritten ==
    \A i \in 1..Len(log) :
        log[i].req.op # "CREATE" /\ log[i].req.base > 0 => log[i].row.version = log[i].req.base + 1

\* While client_actions are kept, an id stands for one operation: of two operations
\* that share it, at most one succeeds, in whatever order they arrive.
OneOperationPerAction ==
    \A x, y \in answers :
        x.req.action = y.req.action /\ x.kind = "ok" /\ y.kind = "ok" => x.req = y.req

\* Once an operation has been answered with success, sending it again is answered
\* with the same card, or with a 500: never with a conflict, and never with another
\* version.  (A conflict before that is possible: a deletion that came late is a
\* success once the card has been deleted otherwise.)
RetriesAgree ==
    /\ \A x \in answers : x.again => x.kind \in {"ok", "error"}
    /\ \A x, y \in answers : x.req = y.req /\ x.kind = "ok" /\ y.kind = "ok" => x.row = y.row

\* A success tells of a card as it was committed: row and response are one.
AnswersAreReal ==
    \A x \in answers :
        x.kind = "ok" =>
            \E i \in 1..Len(log) : log[i].req.card = x.req.card /\ log[i].row = x.row

\* Every request is answered: calls never wait for each other in a circle.
EveryoneIsAnswered == \A c \in Calls : pc[c] # "idle" ~> pc[c] = "done"

=============================================================================
