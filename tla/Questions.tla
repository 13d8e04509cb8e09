----------------------------- MODULE Questions ------------------------------
(***************************************************************************)
(* How a session chooses its cards and a question its wrong answers:       *)
(* app/services/review_v1.py, _select_session_cards of                     *)
(* app/routers/reviews.py and the dictionary's distractors                 *)
(* (app/services/ecdict_service.py).                                       *)
(*                                                                         *)
(* The cards that are due are tried in order; for each, three answers are  *)
(* looked for in stages, among the user's other cards first and then in    *)
(* the dictionary, whose rows come in random order.  Both queries have a   *)
(* limit, and what lies beyond it is not considered.  Answers are compared *)
(* in their normal form, but the dictionary's meanings as they are written. *)
(***************************************************************************)
EXTENDS Integers, FiniteSets, Sequences, SequencesExt, Lists

CONSTANTS
    Banks,     \* sets of cards: [id, eligible, due, type, pos, freq, answer]
    Lexicons,  \* dictionaries: sets of [word, pos, meanings], or {} if not installed
    Normal,    \* of each text, the form it is compared in (_normalize_answer)
    Visible,   \* the texts that may be shown (_is_visible_answer_text)
    Chinese,   \* the visible texts with a Chinese character
    Wanted,    \* limit of the session
    CardLimit, \* cards that are considered for a question: 500
    RowLimit,  \* rows of a query of the dictionary: 480
    EntryLimit, \* entries that a query returns: 120
    NoValue    \* no part of speech, no frequency

ASSUME QuestionAssumption ==
    /\ {Wanted, CardLimit, RowLimit, EntryLimit} \subseteq Nat \ {0}
    /\ Chinese \subseteq Visible

\* Ids are primary keys; days and frequencies are numbers.
ASSUME BankAssumption ==
    \A cards \in Banks :
        /\ IsFiniteSet(cards)
        /\ \A c \in cards : c.id \in Int /\ c.due \in Int \cup {NoValue} /\ c.freq \in Int \cup {NoValue}
        /\ \A c, d \in cards : c.id = d.id => c = d

ASSUME DictionaryAssumption ==
    \A words \in Lexicons : IsFiniteSet(words) /\ \A e \in words : e.meanings \in Seq(ToSet(e.meanings))

Opened == 12
Failed == -1

VARIABLES
    bank,      \* the user's active cards, as one transaction sees them
    lexicon,   \* the dictionary
    waiting,   \* candidate_cards not tried yet
    picked,    \* selected
    stage,     \* 0 before the query, 1..6 of the user's cards, 7..10 of the dictionary,
               \* 11 after them, or Opened, Failed
    considered, \* rows: the cards the query gave
    distractors, \* chosen: [text, key, source, from], key the normal form of text
    reached    \* history: the entries that the last pass over the dictionary looked at

questionVars == <<bank, lexicon, waiting, picked, stage, considered, distractors, reached>>

-----------------------------------------------------------------------------

Earlier(c, d) ==
    IF c.due = d.due THEN c.id < d.id ELSE c.due < d.due

\* select_review_v1_cards: new cards (due 0) first, then those due for longest.  The
\* statement asks for an answer and for content that is short enough.
Candidates(cards) ==
    LET dueOnes == {c \in cards : c.eligible /\ c.due # NoValue}
        n == Cardinality(dueOnes)
    IN SubSeq(SortedBy(dueOnes, {p \in dueOnes \X dueOnes : Earlier(p[1], p[2])}), 1,
              IF n < 3 * Wanted THEN n ELSE 3 * Wanted)

QuestionInit ==
    /\ bank \in Banks
    /\ lexicon \in Lexicons
    /\ waiting = Candidates(bank)
    /\ picked = <<>>
    /\ stage = IF waiting = <<>> THEN Opened ELSE 0
    /\ considered = {}
    /\ distractors = <<>>
    /\ reached = {}

Target == Head(waiting)
Others == {c \in bank : c.eligible /\ c.id # Target.id}
Keys == {d.key : d \in ToSet(distractors)}

\* Mutant: only the distractors are kept apart, not the right answer.
SeenDistractors == Keys

\* seen_answers
Seen == Keys \cup {Normal[Target.answer]}

SamePos(c) == Target.pos # NoValue /\ c.pos = Target.pos
SameType(c) == c.type = Target.type
Distance(c) == IF c.freq > Target.freq THEN c.freq - Target.freq ELSE Target.freq - c.freq
HasDistance(c) == c.freq # NoValue /\ Target.freq # NoValue
CloseFreq(c) == HasDistance(c) /\ Distance(c) <= 2000

FreqScore(c) ==
    IF ~HasDistance(c) THEN 0
    ELSE IF Distance(c) <= 500 THEN 10
    ELSE IF Distance(c) <= 2000 THEN 6
    ELSE IF Distance(c) <= 8000 THEN 3
    ELSE 0

\* user_stages
Fits(c, s) ==
    CASE s = 1 -> SameType(c) /\ SamePos(c) /\ CloseFreq(c)
      [] s = 2 -> SameType(c) /\ SamePos(c)
      [] s = 3 -> SameType(c) /\ CloseFreq(c)
      [] s = 4 -> SameType(c)
      [] s = 5 -> SamePos(c)
      [] s = 6 -> TRUE

\* sort(reverse=True) by frequency score and created_at, which goes with the id.
Nearer(c, d) == IF FreqScore(c) = FreqScore(d) THEN c.id > d.id ELSE FreqScore(c) > FreqScore(d)

\* _add_distractor for each of a list that is legal until there are three.
Adding(list, legal) ==
    FoldLeft(LAMBDA acc, d :
                IF Len(acc) < 3 /\ d.text \in legal /\ d.key \notin Seen \cup {e.key : e \in ToSet(acc)}
                THEN Append(acc, d) ELSE acc,
             distractors, list)

Goes(s) == stage' = s
SameCards == UNCHANGED <<bank, lexicon>>

\* The results a query with a LIMIT and an order of its own may have.
LimitedTo(limit, rows) ==
    {some \in SUBSET rows : Cardinality(some) = IF Cardinality(rows) < limit THEN Cardinality(rows) ELSE limit}

\* _candidate_cards, which has no ORDER BY: beyond the limit, any of the cards.
FetchCards ==
    /\ stage = 0
    /\ considered' \in LimitedTo(CardLimit, Others)
    /\ Goes(1)
    /\ SameCards
    /\ UNCHANGED <<waiting, picked, distractors, reached>>

\* What follows the answers found by a stage, and the entries it read: the card is
\* taken and the next one tried, or the next stage.
Continue(found, read) ==
    IF Len(found) = 3
    THEN /\ picked' = Append(picked, Target)
         /\ distractors' = <<>>
         /\ considered' = {}
         /\ reached' = {}
         /\ waiting' = Tail(waiting)
         /\ Goes(IF Len(picked') >= Wanted \/ Tail(waiting) = <<>> THEN Opened ELSE 0)
    ELSE /\ distractors' = found
         /\ reached' = read
         /\ Goes(stage + 1)
         /\ UNCHANGED <<waiting, picked, considered>>

FoundByCards ==
    LET fitting == {c \in considered : Fits(c, stage)}
        rows == SortedBy(fitting, {p \in fitting \X fitting : Nearer(p[1], p[2])})
    IN Adding([n \in DOMAIN rows |-> [text |-> rows[n].answer, key |-> Normal[rows[n].answer],
                                       source |-> "user_card", from |-> rows[n].id]], Visible)

CardStage ==
    /\ stage \in 1..6
    /\ Continue(FoundByCards, {})
    /\ SameCards

\* The loop skips the rows of another part of speech (stages 7 and 8) unless either
\* has none.
OfPos(e) == stage \in {7, 8} /\ Target.pos # NoValue => e.pos \in {NoValue, Target.pos}

\* The first meaning of each row that was not seen, as it is written, in the answers
\* or in the rows before it, until there are enough entries.
Offering(order) ==
    FoldLeft(LAMBDA acc, e :
                LET unseen == Without(e.meanings, acc.seen) IN
                IF Len(acc.list) = EntryLimit THEN acc
                ELSE IF unseen = <<>> THEN [acc EXCEPT !.read = @ \cup {e}]
                ELSE [seen |-> acc.seen \cup {unseen[1]}, read |-> acc.read \cup {e},
                      list |-> Append(acc.list, [text |-> unseen[1], key |-> Normal[unseen[1]],
                                                 source |-> "ecdict", from |-> e.word])],
             [seen |-> Seen, read |-> {}, list |-> <<>>], order)

\* One query of the dictionary, which leaves out the word itself and whose rows come in
\* any order; those with a Chinese character are added.
DictionaryStage ==
    /\ stage \in 7..10
    /\ \E rows \in LimitedTo(RowLimit, {e \in lexicon : e.word # Target.id}) :
        \E order \in SetToSeqs({e \in rows : OfPos(e)}) :
            Continue(Adding(Offering(order).list, Chinese), Offering(order).read)
    /\ SameCards

\* DistractorGenerationError, which nothing between here and the client catches: no
\* session is opened for any card.
GiveUpQuestion ==
    /\ stage = 11
    /\ Goes(Failed)
    /\ UNCHANGED <<bank, lexicon, waiting, picked, considered, distractors, reached>>

QuestionNext == FetchCards \/ CardStage \/ DictionaryStage \/ GiveUpQuestion

QuestionSpec == QuestionInit /\ [][QuestionNext]_questionVars

-----------------------------------------------------------------------------

BestStage(c) == CHOOSE s \in 1..6 : Fits(c, s) /\ \A r \in 1..(s - 1) : ~Fits(c, r)

\* The card's answer could be added.
Unused(c) == c.answer \in Visible /\ Normal[c.answer] \notin Seen

\* The wrong answers differ from the right one and from each other, however they are
\* written, and can be shown.
AnswersAreWrong ==
    /\ Cardinality(Seen) = 1 + Len(distractors)
    /\ \A d \in ToSet(distractors) : d.text \in Visible /\ d.key = Normal[d.text]

\* Of the cards that are considered (all that the user has, up to the limit), none is
\* used that fits worse than one left out, and the dictionary only for what they do not
\* give.
CardsComeFirst ==
    LET left == {c \in considered : Unused(c)} IN
    /\ Cardinality(Others) <= CardLimit => considered = Others
    /\ (\E d \in ToSet(distractors) : d.source = "ecdict") => left = {}
    /\ \A d \in ToSet(distractors) : d.source = "user_card" =>
        \A u \in considered : u.id = d.from => \A c \in left : BestStage(u) <= BestStage(c)

\* An entry could give another answer: its first meaning that is not the normal form of
\* a seen one is legal.  (One that is such an answer in another spelling is tried, is
\* refused and stands before the entry's further meanings.)
Offers(e) ==
    LET unseen == Without(e.meanings, Seen)
    IN unseen # <<>> /\ unseen[1] \in Chinese /\ Normal[unseen[1]] \notin Seen

\* The search fails only when neither the cards considered nor the entries that the last
\* pass looked at have a legal answer left, but for an entry that gave one already (a
\* pass takes one of each) or whose meaning another one gave in another spelling.
FailsForWant ==
    stage = 11 =>
        /\ \A c \in considered : ~Unused(c)
        /\ \A e \in reached : Offers(e) =>
            \E d \in ToSet(distractors) :
                /\ d.source = "ecdict"
                /\ d.from = e.word \/ (d.key \in ToSet(e.meanings) /\ d.text # d.key)

\* A session that opens has as many cards as it can have, in the order they are due.
OpensWhole ==
    stage = Opened =>
        /\ picked = SubSeq(Candidates(bank), 1, Len(picked))
        /\ Len(picked) < Wanted => Len(picked) = Len(Candidates(bank))

\* generate_distractors and _select_session_cards: right from wrong, the user's own
\* material first, and a session is refused only for a card for which the last query of
\* the dictionary brought nothing new.
QuestionsAreFair ==
    /\ stage \in 1..11 => AnswersAreWrong /\ CardsComeFirst /\ FailsForWant
    /\ OpensWhole

=============================================================================
