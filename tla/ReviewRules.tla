----------------------------- MODULE ReviewRules ----------------------------
(***************************************************************************)
(* The rules of Phase 2 reviews: app/services/review_rules.py, and the     *)
(* feedback of app/routers/reviews.py that used them.  Version 1 keeps     *)
(* the normalisation of limits and goals; the rest is tested but has no    *)
(* caller any more (the old feedback stands behind a return).              *)
(*                                                                         *)
(* A request selects cards of a deck (`deck`, `request`, `chosen`); a      *)
(* round asks its cards, some of them again, and moves each card between   *)
(* its states (`study`, `round`).  Times are days, Never for None.         *)
(***************************************************************************)
EXTENDS Integers, FiniteSets, Sequences, SequencesExt, Lists

CONSTANTS
    Decks,      \* sets of cards a user may have
    Requests,   \* records [limit, goalMode, fill, reviewed]
    Studied,    \* the cards of the round
    ReappearGap \* 5 in the code: how far behind the item its repeat is put

ASSUME RuleAssumption == IsFiniteSet(Studied) /\ ReappearGap \in Nat \ {0}

\* A card of a deck: its last result, and days; its id is its own.
States == {"new", "strengthening", "reviewing", "mastered"}
Cards == [id : Int, ready : BOOLEAN, state : States, recovery : Nat,
          last : {"none", "forgot", "shaky", "got_it", "fluent"}, next : Int, reviewed : Int, created : Int]
IsDeck(cards) == IsFiniteSet(cards) /\ cards \subseteq Cards /\ \A c, d \in cards : c.id = d.id => c = d

ASSUME DeckAssumption == \A cards \in Decks : IsDeck(cards)

Now == 0
Never == 1000
Results == {"forgot", "shaky", "got_it", "fluent"}
Failures == {"forgot", "shaky"}

VARIABLES
    deck,    \* the user's cards
    request, \* what a session is asked for
    chosen,  \* the cards that were selected
    study,   \* card -> [state, score, recovery, interval, last]
    round    \* session items: [card, position, reappear, first, result]

ruleVars == <<deck, request, chosen, study, round>>

Smaller(m, n) == IF m < n THEN m ELSE n
Larger(m, n) == IF m < n THEN n ELSE m

-----------------------------------------------------------------------------
(* Normalisation and quotas.                                               *)

ReviewLimit(limit) == IF limit \in {5, 10, 15} THEN limit ELSE 5
DailyGoal(goal) == IF goal \in {3, 5, 10, 15} THEN goal ELSE 5
NewQuota(limit) == ReviewLimit(limit) \div 5

EffectiveNewQuota(limit, strengthening, due) ==
    IF strengthening >= 2 * ReviewLimit(limit) THEN 0
    ELSE IF due >= 2 * ReviewLimit(limit) THEN NewQuota(limit) \div 2
    ELSE NewQuota(limit)

-----------------------------------------------------------------------------
(* Feedback on a card.                                                     *)

ScoreAfter(score, result) ==
    CASE result = "forgot" -> <<0, 0, 0, 1, 2, 3>>[score + 1]
      [] result = "shaky" -> <<0, 1, 2, 2, 3, 4>>[score + 1]
      [] result = "got_it" -> Smaller(score + 1, 5)
      [] result = "fluent" -> Smaller(score + 2, 5)

RecoveryAfter(recovery, result) ==
    CASE result = "forgot" -> 2
      [] result = "shaky" -> 1
      [] OTHER -> Larger(recovery - 1, 0)

\* Mutant: a repeat is as good as a first answer.
StateIgnoringRepeats(result, score, recovery, isReappear, first) ==
    IF result \in Failures THEN "strengthening"
    ELSE IF result = "fluent" /\ score >= 5 /\ recovery = 0 THEN "mastered"
    ELSE "reviewing"

StateAfter(result, score, recovery, isReappear, first) ==
    IF result \in Failures THEN "strengthening"
    ELSE IF result = "fluent" /\ score >= 5 /\ recovery = 0 /\ ~(isReappear /\ first \in Failures)
    THEN "mastered"
    ELSE "reviewing"

\* Days until next_review_at.
IntervalAfter(result, score, recovery) ==
    LET base == <<1, 2, 4, 7, 14, 30>>[score + 1] IN
    IF result = "forgot" THEN 1
    ELSE IF result = "shaky" THEN 2
    ELSE IF recovery = 2 THEN Smaller(base, 7)
    ELSE IF recovery = 1 THEN Smaller(base, 14)
    ELSE base

Reappears(result, count) ==
    \/ result = "forgot" /\ count < 2
    \/ result = "shaky" /\ count < 1

InsertPosition(position, highest) == Smaller(position + ReappearGap, highest + 1)

\* apply_review_feedback_to_card
Graded(card, result, isReappear, first) ==
    LET score == ScoreAfter(card.score, result)
        recovery == RecoveryAfter(card.recovery, result)
        state == StateAfter(result, score, recovery, isReappear, first)
    IN [state |-> IF card.state = "new" /\ result = "fluent" THEN "reviewing" ELSE state,
        score |-> score,
        recovery |-> recovery,
        interval |-> IntervalAfter(result, score, card.recovery),
        last |-> result]

-----------------------------------------------------------------------------
(* Selection.                                                              *)

IsDue(c) == c.next <= Now

DueReason(c) ==
    IF c.state \in {"new", "strengthening"} THEN c.state
    ELSE IF ~IsDue(c) THEN "none"
    ELSE IF c.recovery > 0 THEN "recovery_due"
    ELSE IF c.state = "reviewing" THEN "reviewing_due"
    ELSE IF c.state = "mastered" THEN "mastered_due"
    ELSE "none"

DueReasons == {"recovery_due", "reviewing_due", "mastered_due"}

\* sorted(cards, key): the domain of key by its tuples, compared from the left.
Precedes(s, t) == \E n \in DOMAIN s : s[n] < t[n] /\ \A m \in 1..(n - 1) : s[m] = t[m]
Sorted(key) ==
    LET all == DOMAIN key
    IN SortedBy(all, {p \in all \X all : Precedes(key[p[1]], key[p[2]])})

Flag(condition) == IF condition THEN 1 ELSE 0

StrengtheningKey(c) ==
    <<Flag(~IsDue(c)), -c.recovery,
      IF c.last = "forgot" THEN 0 ELSE IF c.last = "shaky" THEN 1 ELSE 2,
      c.next, c.reviewed, c.created, c.id>>

DueKey(c) ==
    <<CASE DueReason(c) = "recovery_due" -> 0
        [] DueReason(c) = "reviewing_due" -> 1
        [] DueReason(c) = "mastered_due" -> 2
        [] OTHER -> 3,
      c.next, -c.recovery, c.reviewed, c.created, c.id>>

AgeKey(c) == <<c.created, c.id>>

FillKey(c, reviewed) ==
    <<Flag(c.id \in reviewed), Flag(c.state = "mastered" /\ ~IsDue(c)), c.created, c.id>>

Ready(cards) == {c \in cards : c.ready}

Dedupe(cards) == FoldLeft(LAMBDA acc, c : IF c \in ToSet(acc) THEN acc ELSE Append(acc, c), <<>>, cards)

Take(cards, n) == SubSeq(cards, 1, Smaller(n, Len(cards)))

FillToTarget(selected, pool, target, reviewed) ==
    IF Len(Dedupe(selected)) >= target THEN Take(Dedupe(selected), target)
    ELSE Take(Dedupe(selected) \o
              Sorted([c \in pool \ ToSet(selected) |-> FillKey(c, reviewed)]), target)

\* Goal mode: new cards, then weak, due and mastered ones and those answered fluently,
\* of the cards not reviewed today; then the fillers.
SelectForGoal(cards, target, reviewed) ==
    LET left == {c \in Ready(cards) : c.id \notin reviewed}
        weak == {c \in left : c.state = "strengthening"}
        due == {c \in left : DueReason(c) \in DueReasons}
        new == {c \in left : c.state = "new"}
        mastered == {c \in left \ due : c.state = "mastered"}
        fluent == {c \in left \ due : c.state = "reviewing" /\ c.last = "fluent"}
    IN FillToTarget(Sorted([c \in new |-> AgeKey(c)]) \o Sorted([c \in weak |-> StrengtheningKey(c)])
                        \o Sorted([c \in due |-> DueKey(c)]) \o Sorted([c \in mastered |-> AgeKey(c)])
                        \o Sorted([c \in fluent |-> AgeKey(c)]),
                    Ready(cards), target, reviewed)

\* Otherwise: new cards up to their quota, weak and due ones, more new cards; and
\* fillers if there is a target to fill.
SelectByQuota(cards, limit, target, fills, reviewed) ==
    LET candidates == {c \in Ready(cards) : DueReason(c) # "none"}
        weak == Sorted([c \in {d \in candidates : DueReason(d) = "strengthening"} |-> StrengtheningKey(c)])
        due == Sorted([c \in {d \in candidates : DueReason(d) \in DueReasons} |-> DueKey(c)])
        new == Sorted([c \in {d \in candidates : DueReason(d) = "new"} |-> AgeKey(c)])
        first == Take(new, EffectiveNewQuota(limit, Len(weak), Len(due)))
        old == Take(weak \o due, target - Len(first))
        selected == IF Len(first \o old) < target
                    THEN first \o old \o SubSeq(new, Len(first) + 1, Len(new))
                    ELSE first \o old
    IN IF Len(selected) >= target \/ ~fills THEN Take(selected, target)
       ELSE FillToTarget(selected, Ready(cards), target, reviewed)

\* `fill` is -1 when there is no fill_target.
Fills(r) == r.fill # -1
Places(r) == IF Fills(r) THEN DailyGoal(r.fill) ELSE ReviewLimit(r.limit)

SelectReviewCards(cards, r) ==
    IF r.goalMode THEN SelectForGoal(cards, Places(r), r.reviewed)
    ELSE SelectByQuota(cards, r.limit, Places(r), Fills(r), r.reviewed)

-----------------------------------------------------------------------------

NewCard == [state |-> "new", score |-> 0, recovery |-> 0, interval |-> 0, last |-> "none"]

ItemsOf(cards) ==
    {[card |-> cards[p], position |-> p - 1, reappear |-> 0, first |-> "none", result |-> "none"]
        : p \in DOMAIN cards}

RuleInit ==
    /\ deck \in Decks
    /\ request \in Requests
    /\ chosen = <<>>
    /\ study = [c \in Studied |-> NewCard]
    /\ round = {}

Select ==
    /\ chosen' = SelectReviewCards(deck, request)
    /\ UNCHANGED <<deck, request, study, round>>

Pending == {i \in round : i.result = "none"}
NextItem == CHOOSE i \in Pending : \A j \in Pending : i.position <= j.position
HighestPosition == CHOOSE p \in {i.position : i \in round} : \A i \in round : i.position <= p

\* A round begins, with the cards in any order, when the last one has ended.
OpenRound ==
    /\ Pending = {}
    /\ \E order \in [1..Cardinality(Studied) -> Studied] :
        /\ \A c \in Studied : \E p \in DOMAIN order : order[p] = c
        /\ round' = ItemsOf(order)
    /\ UNCHANGED <<deck, request, chosen, study>>

\* The feedback on the next item: the card is graded, the item is done, and a repeat
\* is put in, the items behind it moving on by one (_shift_items_for_insert).
Feedback(result) ==
    /\ Pending # {}
    /\ LET i == NextItem
           done == [i EXCEPT !.result = result, !.first = IF i.first = "none" THEN result ELSE i.first]
           at == InsertPosition(i.position, HighestPosition)
           moved == {IF j.position >= at THEN [j EXCEPT !.position = j.position + 1] ELSE j
                        : j \in (round \ {i}) \cup {done}}
       IN /\ study' = [study EXCEPT ![i.card] = Graded(@, result, i.reappear > 0, i.first)]
          /\ round' = IF Reappears(result, i.reappear)
                      THEN moved \cup {[card |-> i.card, position |-> at, reappear |-> i.reappear + 1,
                                        first |-> done.first, result |-> "none"]}
                      ELSE (round \ {i}) \cup {done}
    /\ UNCHANGED <<deck, request, chosen>>

StudyNext == OpenRound \/ \E result \in Results : Feedback(result)

RuleSpec == RuleInit /\ [][Select \/ StudyNext]_ruleVars

-----------------------------------------------------------------------------

\* The selection is as large as it can be, takes each card once and none that is not
\* ready.  With a goal nobody reviewed today comes before a card that waits; without
\* one, new cards beyond their quota come only after every card that is due.
SelectionIsSound ==
    chosen # <<>> =>
        LET taken == ToSet(chosen)
            candidates == {c \in Ready(deck) : DueReason(c) # "none"}
            pool == IF request.goalMode \/ Fills(request) THEN Ready(deck) ELSE candidates
            newTaken == {c \in taken : c.state = "new"}
            Count(reason) == Cardinality({c \in candidates : DueReason(c) \in reason})
        IN /\ taken \subseteq pool
           /\ Cardinality(taken) = Len(chosen)
           /\ Len(chosen) = Smaller(Places(request), Cardinality(pool))
           /\ request.goalMode =>
                \/ \A c \in Ready(deck) \ taken : c.id \in request.reviewed
                \/ \A c \in taken : c.id \notin request.reviewed
           /\ ~request.goalMode =>
                \/ {c \in candidates : c.state # "new"} \subseteq taken
                \/ Cardinality(newTaken)
                    <= EffectiveNewQuota(request.limit, Count({"strengthening"}), Count(DueReasons))

\* A card is mastered only with full marks and no weakness left, and not in a round in
\* which it failed, however its repeats went; the items of a round keep to a line.
MasteryIsEarned ==
    /\ \A c \in Studied : study[c].state = "mastered" =>
        /\ study[c].score = 5 /\ study[c].recovery = 0 /\ study[c].last = "fluent"
        /\ ~\E i \in round : i.card = c /\ i.first \in Failures
    /\ {i.position : i \in round} = 0..(Cardinality(round) - 1)

\* What the rules promise of a selection and of a round.
RulesAreSound == SelectionIsSound /\ MasteryIsEarned

=============================================================================
