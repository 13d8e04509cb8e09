---------------------------- MODULE ReviewReports ----------------------------
(***************************************************************************)
(* What the review endpoints report (app/routers/reviews.py): the history  *)
(* of a user's cards with its summary, its details and the list of today,  *)
(* and the summary of a session.                                           *)
(*                                                                         *)
(* A report is made of several SELECTs under READ COMMITTED, with edits,   *)
(* deletions and answers committed between them.  The history reads        *)
(* review_logs, which the program no longer writes (its only INSERT is     *)
(* behind a `raise` in _submit_review_feedback_observed): the logs stand   *)
(* still and the cards change.  Sessions are answered into                 *)
(* review_answer_logs; an answer is one transaction under the session's    *)
(* lock, taken apart in ReviewSession.                                     *)
(***************************************************************************)
EXTENDS Integers, Sequences, FiniteSets

Grades == {"forgot", "shaky", "got_it", "fluent"}

CONSTANTS
    ReportCards, \* the cards of the user
    Ledgers,     \* review_logs: [card, at, result, snap] in the order of their ids
    DayStart,    \* when each local day begins: days are not equally long
    Today,       \* the local day of the request
    Queries,     \* [from, to, results, term, limit, offset]
    NoDate,      \* no date_from, no date_to
    NoSnapshot,  \* card_snapshot is null
    Sheets       \* [status, items]: sessions, some begun before there were answer logs

Snapshots == {NoSnapshot} \cup [content : STRING, note : STRING]
OldLogs == [card : ReportCards, at : Nat, result : Grades, snap : Snapshots]
SheetItems == [card : ReportCards, repeat : BOOLEAN, done : BOOLEAN, result : Grades \cup {"none"}]

\* An item that was answered before there were answer logs has its result; a session
\* is completed only with all its items.
ASSUME ReportAssumption ==
    /\ ReportCards \subseteq Int
    /\ Ledgers \subseteq Seq(OldLogs)
    /\ \A q \in Queries : q.limit \in Nat /\ q.offset \in Nat
    /\ Sheets \subseteq [status : {"active", "completed"}, items : Seq(SheetItems)]
    /\ \A s \in Sheets :
        /\ \A i \in DOMAIN s.items : s.items[i].done <=> s.items[i].result # "none"
        /\ s.status = "completed" => \A i \in DOMAIN s.items : s.items[i].done

VARIABLES
    ledger, \* review_logs
    shelf,  \* the cards: [live, content, note]
    query,  \* the request for the history and its summary
    told,   \* [at] and what has been read so far
    edited, \* history: a card changed since the request
    sheet,  \* a session and its items
    marked, \* its review_answer_logs
    sum     \* [at] and what the summary of the session has read so far

historyVars == <<ledger, shelf, query, told, edited>>
sessionVars == <<sheet, marked, sum>>
reportVars == <<historyVars, sessionVars>>

\* What a reader has before it starts.
Untold == [at |-> "start", total |-> 0, page |-> <<>>, details |-> <<>>, reviews |-> 0, unique |-> 0,
           latest |-> [g \in Grades |-> 0], today |-> {}]
Unasked == [at |-> "start", status |-> "none", answers |-> 0, cards |-> 0, right |-> 0, wrong |-> 0,
            graded |-> [g \in Grades |-> 0]]

ReportInit ==
    /\ ledger \in Ledgers
    /\ shelf = [c \in ReportCards |-> [live |-> TRUE, content |-> "old", note |-> ""]]
    /\ query \in Queries
    /\ told = Untold
    /\ edited = FALSE
    /\ sheet \in Sheets
    /\ marked = <<>>
    /\ sum = Unasked

-----------------------------------------------------------------------------
(* The history *)

\* A card that was reviewed is edited, or deleted for good (deleted_at).
ChangeCard(c) ==
    /\ shelf[c].live
    /\ \/ shelf' = [shelf EXCEPT ![c].content = "new", ![c].note = "new"]
       \/ shelf' = [shelf EXCEPT ![c].live = FALSE]
    /\ edited' = TRUE
    /\ UNCHANGED <<ledger, query, told>>

\* From the beginning of the first day to the beginning of the day after the last.
InDays(l, first, last) ==
    /\ first = NoDate \/ ledger[l].at >= DayStart[first]
    /\ last = NoDate \/ ledger[l].at < DayStart[last + 1]
Asked(q) == {l \in DOMAIN ledger : InDays(l, q.from, q.to)}

\* row_number() over the logs of a card, by reviewed_at and then id, descending
Later(l, k) == ledger[l].at > ledger[k].at \/ (ledger[l].at = ledger[k].at /\ l > k)

Latest(logs) ==
    {l \in logs : \A k \in logs \ {l} : ledger[k].card = ledger[l].card => Later(l, k)}

\* The search looks at the card as it is, also where its snapshot is shown.
Matches(l, term) == term = "" \/ shelf[ledger[l].card].content = term

\* One row for each live card, which stands for its latest review in the range.
HistoryRows(q) ==
    {l \in Latest(Asked(q)) :
        /\ shelf[ledger[l].card].live
        /\ q.results = {} \/ ledger[l].result \in q.results
        /\ Matches(l, q.term)}

\* Of a snapshot only what was filled in is shown; the rest is the card of today.
ShownContent(l) == IF ledger[l].snap = NoSnapshot THEN shelf[ledger[l].card].content ELSE ledger[l].snap.content
ShownNote(l) ==
    IF ledger[l].snap = NoSnapshot \/ ledger[l].snap.note = "" THEN shelf[ledger[l].card].note
    ELSE ledger[l].snap.note
HistoryEntry(l, q) ==
    [log |-> l, card |-> ledger[l].card, result |-> ledger[l].result, content |-> ShownContent(l), note |-> ShownNote(l),
     reviews |-> Cardinality({k \in Asked(q) : ledger[k].card = ledger[l].card})]

PageOf(rows, q) ==
    LET Rank(l) == Cardinality({k \in rows : ledger[k].at > ledger[l].at
                                    \/ (ledger[k].at = ledger[l].at /\ ledger[k].card < ledger[l].card)})
        sorted == [p \in 1..Cardinality(rows) |-> CHOOSE l \in rows : Rank(l) = p - 1]
        page == SubSeq(sorted, q.offset + 1, IF q.offset + q.limit < Cardinality(rows) THEN q.offset + q.limit ELSE Cardinality(rows))
    IN [p \in DOMAIN page |-> HistoryEntry(page[p], q)]

\* A range that ends before it begins is refused with 400.
Request ==
    /\ told.at = "start"
    /\ told' = [Untold EXCEPT !.at =
                    IF query.from # NoDate /\ query.to # NoDate /\ query.from > query.to THEN "refused" ELSE "count"]
    /\ edited' = FALSE
    /\ UNCHANGED <<ledger, shelf, query>>

ReadsHistory(at) == told.at = at /\ UNCHANGED <<ledger, shelf, query, edited>>

CountRows ==
    /\ ReadsHistory("count")
    /\ told' = [told EXCEPT !.at = "page", !.total = Cardinality(HistoryRows(query))]

ReadPage ==
    /\ ReadsHistory("page")
    /\ told' = [told EXCEPT !.at = "reviews", !.page = PageOf(HistoryRows(query), query)]

\* The summary of the same range: the logs of deleted cards count, and so do the
\* results that the list leaves out.
Found(q) == {l \in Asked(q) : Matches(l, q.term)}

CountReviews ==
    /\ ReadsHistory("reviews")
    /\ told' = [told EXCEPT !.at = "unique", !.reviews = Cardinality(Found(query))]

CountUnique ==
    /\ ReadsHistory("unique")
    /\ told' = [told EXCEPT !.at = "latest", !.unique = Cardinality({ledger[l].card : l \in Found(query)})]

CountLatest ==
    /\ ReadsHistory("latest")
    /\ told' = [told EXCEPT !.at = "today",
                    !.latest = [g \in Grades |-> Cardinality({l \in Latest(Found(query)) : ledger[l].result = g})]]

\* get_today_reviewed: the cards reviewed today that are still there, as they are now.
ReadToday ==
    /\ ReadsHistory("today")
    /\ LET q == [from |-> Today, to |-> Today, results |-> {}, term |-> ""]
       IN told' = [told EXCEPT !.at = "detail", !.today =
                    {[card |-> ledger[l].card, result |-> ledger[l].result,
                      reviews |-> Cardinality({k \in Asked(q) : ledger[k].card = ledger[l].card})] : l \in HistoryRows(q)}]

\* get_review_history_detail for each row of the page: the snapshot as it was taken,
\* else the card of today, else nothing.
DetailOf(l) ==
    IF ledger[l].snap # NoSnapshot THEN [source |-> "snapshot", content |-> ledger[l].snap.content, note |-> ledger[l].snap.note]
    ELSE IF shelf[ledger[l].card].live
         THEN [source |-> "current_card", content |-> shelf[ledger[l].card].content, note |-> shelf[ledger[l].card].note]
         ELSE [source |-> "missing", content |-> "", note |-> ""]

ReadDetails ==
    /\ ReadsHistory("detail")
    /\ told' = [told EXCEPT !.at = "told", !.details = [p \in DOMAIN told.page |-> DetailOf(told.page[p].log)]]

HistoryNext ==
    \/ \E c \in ReportCards : ChangeCard(c)
    \/ Request \/ CountRows \/ ReadPage \/ CountReviews \/ CountUnique \/ CountLatest \/ ReadToday \/ ReadDetails

-----------------------------------------------------------------------------
(* The summary of a session *)

\* Mutant: whether the session is complete is decided before the repeat is added.
StatusBeforeRepeat(items, repeated) == IF \E i \in DOMAIN items : ~items[i].done THEN "active" ELSE "completed"

StatusOf(items, repeated) ==
    IF \E i \in DOMAIN repeated : ~repeated[i].done THEN "active" ELSE "completed"

\* A card that was answered wrongly comes back once.
AnswerItem(i, right) ==
    LET items == [sheet.items EXCEPT ![i].done = TRUE]
        card == items[i].card
        again == /\ ~right /\ ~items[i].repeat
                 /\ \A j \in DOMAIN items : items[j].card = card => ~items[j].repeat
        repeated == IF again THEN Append(items, [card |-> card, repeat |-> TRUE, done |-> FALSE, result |-> "none"])
                    ELSE items
    IN /\ sheet.status = "active" /\ ~sheet.items[i].done
       /\ sheet' = [status |-> StatusOf(items, repeated), items |-> repeated]
       /\ marked' = Append(marked, [card |-> card, right |-> right])
       /\ UNCHANGED sum

ReadsSession(at) == sum.at = at /\ UNCHANGED <<sheet, marked>>

ReadStatus ==
    /\ ReadsSession("start")
    /\ sum' = [Unasked EXCEPT !.at = "answers", !.status = sheet.status]

\* Without an answer log the session is taken for one from before there were any.
CountAnswers ==
    /\ ReadsSession("answers")
    /\ sum' = [sum EXCEPT !.at = IF marked = <<>> THEN "items" ELSE "cards", !.answers = Len(marked)]

CountCards ==
    /\ ReadsSession("cards")
    /\ sum' = [sum EXCEPT !.at = "right", !.cards = Cardinality({marked[k].card : k \in DOMAIN marked})]

CountRight ==
    /\ ReadsSession("right")
    /\ sum' = [sum EXCEPT !.at = "wrong", !.right = Cardinality({k \in DOMAIN marked : marked[k].right})]

CountWrong ==
    /\ ReadsSession("wrong")
    /\ sum' = [sum EXCEPT !.at = "summed", !.wrong = Cardinality({k \in DOMAIN marked : ~marked[k].right})]

\* The items that are done, in one SELECT, with the four results of old.
ReadOldItems ==
    /\ ReadsSession("items")
    /\ LET done == {i \in DOMAIN sheet.items : sheet.items[i].done}
       IN sum' = [sum EXCEPT !.at = "graded", !.answers = Cardinality(done),
                    !.cards = Cardinality({sheet.items[i].card : i \in done}),
                    !.graded = [g \in Grades |-> Cardinality({i \in done : sheet.items[i].result = g})]]

SummaryNext ==
    \/ \E i \in DOMAIN sheet.items, right \in BOOLEAN : AnswerItem(i, right)
    \/ ReadStatus \/ CountAnswers \/ CountCards \/ CountRight \/ CountWrong \/ ReadOldItems

ReportSpec ==
    ReportInit /\ [][(HistoryNext /\ UNCHANGED sessionVars) \/ (SummaryNext /\ UNCHANGED historyVars)]_reportVars

-----------------------------------------------------------------------------

AllLatest == told.latest["forgot"] + told.latest["shaky"] + told.latest["got_it"] + told.latest["fluent"]
Whole(q) == q.offset = 0 /\ told.total <= q.limit

\* Whatever is edited meanwhile, a page has each card once and the newest first.  If
\* nothing is, list, total, summary, details and the list of today tell the same
\* story, except that the summary also counts deleted cards, and that a detail leaves
\* a note empty which the list takes from the card of today.
HistoryAddsUp ==
    told.at = "told" =>
        LET page == told.page
            AllLive == \A l \in Asked(query) : shelf[ledger[l].card].live
            Listed(g) == IF query.results = {} \/ g \in query.results THEN told.latest[g] ELSE 0
        IN /\ \A p, o \in DOMAIN page : p < o =>
                /\ page[p].card # page[o].card
                /\ ledger[page[p].log].at >= ledger[page[o].log].at
           /\ query.term = "" => (AllLatest = told.unique /\ told.total <= told.unique)
           /\ edited \/ told.unique <= told.reviews
           /\ ~edited =>
                /\ AllLatest = told.unique
                /\ Len(page) = IF told.total <= query.offset THEN 0
                               ELSE IF told.total - query.offset <= query.limit THEN told.total - query.offset
                               ELSE query.limit
                /\ AllLive =>
                    told.total = Listed("forgot") + Listed("shaky") + Listed("got_it") + Listed("fluent")
                /\ \A p \in DOMAIN page :
                    /\ told.details[p].content = page[p].content
                    /\ told.details[p].note \in {"", page[p].note}
                /\ (query.from = Today /\ query.to = Today /\ query.results = {} /\ query.term = "" /\ Whole(query)) =>
                    told.today = {[card |-> e.card, result |-> e.result, reviews |-> e.reviews]
                                    : e \in {page[p] : p \in DOMAIN page}}

\* A summary that is read while answers arrive is never ahead of its own right and
\* wrong answers; of a session that was complete it tells all there is.
SummariesAddUp ==
    /\ sum.at = "summed" =>
        /\ sum.answers <= sum.right + sum.wrong /\ sum.cards <= sum.right + sum.wrong
        /\ sum.status = "completed" =>
            /\ sum.answers = sum.right + sum.wrong
            /\ sum.answers = Cardinality({i \in DOMAIN sheet.items : sheet.items[i].result = "none"})
    /\ sum.at = "graded" =>
        /\ sum.cards <= sum.answers
        /\ sum.status = "completed" =>
            /\ sum.answers = Len(sheet.items)
            /\ sum.answers = sum.graded["forgot"] + sum.graded["shaky"] + sum.graded["got_it"] + sum.graded["fluent"]

\* The reports of the review endpoints add up, read as they are in several steps.
ReportsAddUp == HistoryAddsUp /\ SummariesAddUp

=============================================================================
