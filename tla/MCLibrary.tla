------------------------------ MODULE MCLibrary -----------------------------
(* The parts around the core, which share no state: a behaviour steps one of   *)
(* them, chosen at the start.                                                  *)
EXTENDS Accounts, CardFeed, Discovery, ReviewRules, Questions,
        ScenarioMaterials, ReviewReports, Lexicon, RateLimiter, TLC

CONSTANTS a, b, c, askQuote, askItems, askPacks, m1, m2, m3, v, w, x, xx, y, z, packP, packQ

\* Editions that grow, shrink, turn round and share items, and one with a duplicate.
SomeEditions == {<<a>>, <<b, c>>, <<c, a, b>>, <<a, a>>}
LongestWithholds(specs) == IF Len(specs) = 3 THEN {c} ELSE {}
SomeAsks == askQuote :> "quote" @@ askItems :> "items" @@ askPacks :> "packs"
SomeWishes ==
    m1 :> [item |-> a, known |-> TRUE] @@ m2 :> [item |-> a, known |-> TRUE]
    @@ m3 :> [item |-> a, known |-> FALSE]

\* Decks by their numbers of weak, due, new and idle cards, with one that is not ready;
\* the newest card has the smallest id.  Ten weak or due cards close the new quota.
DeckCard(id, state, recovery, last, next) ==
    [id |-> id, ready |-> id # 50, state |-> state, recovery |-> recovery, last |-> last,
     next |-> next, reviewed |-> -(id % 3), created |-> 50 - id]
DeckOf(weakOnes, due, new, idle) ==
    {DeckCard(k, "strengthening", 1 + (k % 2), IF k % 2 = 0 THEN "shaky" ELSE "forgot", k % 2) : k \in 1..weakOnes}
    \cup {DeckCard(10 + k, IF k % 2 = 0 THEN "mastered" ELSE "reviewing", IF k = 1 THEN 1 ELSE 0, "fluent", -k) : k \in 1..due}
    \cup {DeckCard(20 + k, "new", 0, "none", Never) : k \in 1..new}
    \cup {DeckCard(30 + k, <<"mastered", "reviewing", "reviewing">>[k], 0, <<"fluent", "fluent", "got_it">>[k], k) : k \in 1..idle}
    \cup {DeckCard(50, "new", 0, "none", Never)}
SomeDecks == {DeckOf(weak, d, n, i) : weak \in {0, 2, 10}, d \in {0, 2, 10}, n \in {0, 4}, i \in {0, 3}}
SomeRequests ==
    [limit : {5, 10}, goalMode : BOOLEAN, fill : {-1, 3, 10}, reviewed : {{}, {2, 12, 21, 22, 31}}]

\* xx is another spelling of x.
NormalForm == v :> v @@ w :> w @@ x :> x @@ xx :> x @@ y :> y @@ z :> z

\* Four cards with every choice of answers, z not fit to be shown, or five, one more than
\* are considered; card 1 is new and card 2 due, the others only lend their answers.
Kinds == {<<"word", "word", "word", "word">>, <<"word", "phrase", "word", "word">>}
Frequencies == {<<0, 400, 1500, 9000>>, <<100, NoValue, 100, 100>>}
BankOf(answers, kinds, freqs) ==
    {[id |-> k, eligible |-> TRUE, due |-> <<0, 1, NoValue, NoValue>>[k], type |-> kinds[k],
      pos |-> <<"n", "v", "n", NoValue>>[k], freq |-> freqs[k], answer |-> answers[k]] : k \in 1..4}
Fifth(text) == [id |-> 5, eligible |-> TRUE, due |-> NoValue, type |-> "word", pos |-> "n", freq |-> 400, answer |-> text]
SomeBanks ==
    {BankOf(n, k, f) : n \in [1..4 -> {w, x, y, z}], k \in Kinds, f \in Frequencies}
    \cup {BankOf(n, k, f) \cup {Fifth(xx)} :
            n \in {<<w, y, z, y>>, <<w, x, y, v>>}, k \in Kinds, f \in Frequencies}
SomeLexicons ==
    {{}, {[word |-> 2, pos |-> "n", meanings |-> <<v>>], [word |-> 6, pos |-> "adv", meanings |-> <<x, w>>],
          [word |-> 7, pos |-> NoValue, meanings |-> <<z, w>>], [word |-> 8, pos |-> "adv", meanings |-> <<xx, w>>]},
     {[word |-> 6, pos |-> "adv", meanings |-> <<v, x, w>>]}}

\* Sentences of two packs with the same text or fingerprint within and across sources.
Sentence(id, norm, print, pref, inP, inQ) ==
    [id |-> id, norm |-> norm, print |-> print, pref |-> pref, fits |-> packP :> inP @@ packQ :> inQ]
PacksInOrder == <<packP, packQ>>
OrderOfAssignment == <<packQ, packP>>
SomePairs ==
    {Sentence(1, 1, 1, 1, 3, 0), Sentence(2, 1, 1, 2, 5, 5), Sentence(3, 2, 1, 1, 2, 0), Sentence(4, 3, 3, 1, 2, 1)}
SomeEnglish == {Sentence(11, 1, 1, 1, 1, 1), Sentence(12, 4, 4, 1, 0, 2), Sentence(13, 5, 5, 1, 2, 0)}
SomeDialogues ==
    <<Sentence(21, 4, 4, 1, 0, 2), Sentence(22, 6, 6, 1, 0, 1), Sentence(23, 6, 6, 1, 1, 0), Sentence(24, 7, 7, 1, 1, 0)>>

\* Three cards reviewed on two days, the first longer; two reviews in one moment, one
\* whose time (the client's) is before an earlier one's, snapshots old, partial, none.
Days == <<0, 3, 5>>
Log(card, at, result, snap) == [card |-> card, at |-> at, result |-> result, snap |-> snap]
FullSnap == [content |-> "old", note |-> "old"]
BareSnap == [content |-> "old", note |-> ""]
SomeLedgers ==
    {<<>>, <<Log(1, 2, "forgot", FullSnap), Log(2, 4, "shaky", BareSnap), Log(1, 2, "fluent", BareSnap), Log(2, 3, "got_it", NoSnapshot)>>,
     <<Log(1, 3, "shaky", NoSnapshot), Log(1, 4, "forgot", FullSnap), Log(2, 4, "forgot", NoSnapshot)>>}
SomeQueries ==
    {[from |-> range[1], to |-> range[2], results |-> results, term |-> term, limit |-> page[1], offset |-> page[2]] :
        range \in {<<NoDate, NoDate>>, <<1, 1>>, <<2, 2>>, <<NoDate, 1>>, <<2, 1>>},
        results \in {{}, {"forgot", "got_it"}}, term \in {"", "new"}, page \in {<<3, 0>>, <<1, 0>>, <<1, 1>>}}

\* Sessions of two cards: fresh, answered before there were answer logs, half and half.
SheetOf(status, first, second) ==
    [status |-> status, items |->
        <<[card |-> 1, repeat |-> FALSE, done |-> first # "none", result |-> first],
          [card |-> 2, repeat |-> FALSE, done |-> second # "none", result |-> second]>>]
SomeSheets ==
    {SheetOf("active", "none", "none"), SheetOf("completed", "fluent", "shaky"), SheetOf("active", "forgot", "none")}

VARIABLE part

\* The three kinds of readers change nothing: one of them reads at a time.
ReadsAlone(reader) == \A other \in Readers \ {reader} : reading[other] = "start"

Start ==
    /\ part \in {"accounts", "feed", "marks", "reading", "selection", "rounds", "questions", "materials",
                 "history", "summaries", "lexicon", "limiter"}
    /\ IF part = "selection" THEN TRUE
       ELSE /\ deck = DeckOf(0, 0, 0, 0)
            /\ request = [limit |-> 5, goalMode |-> FALSE, fill |-> -1, reviewed |-> {}]
    /\ IF part = "questions" THEN TRUE
       ELSE /\ bank = BankOf(<<w, x, y, z>>, <<"word", "word", "word", "word">>, <<0, 400, 1500, 9000>>)
            /\ lexicon = {}
    /\ IF part = "history" THEN TRUE
       ELSE /\ ledger = <<>>
            /\ query = [from |-> NoDate, to |-> NoDate, results |-> {}, term |-> "", limit |-> 1, offset |-> 0]
    /\ IF part = "summaries" THEN TRUE ELSE sheet = SheetOf("active", "none", "none")
    /\ IF part = "lexicon" THEN TRUE ELSE file = "none" /\ content = [k \in LexCards |-> Blank]
    /\ AccountInit /\ FeedInit /\ DiscoveryInit /\ RuleInit /\ QuestionInit /\ MaterialInit /\ ReportInit /\ LexiconInit /\ LimiterInit

Move ==
    /\ UNCHANGED part
    /\ \/ part = "accounts" /\ AccountNext /\ UNCHANGED <<feedVars, discoveryVars, ruleVars, questionVars, materialVars, reportVars, lexiconVars, limiterVars>>
       \/ part = "feed" /\ FeedNext /\ UNCHANGED <<accountVars, discoveryVars, ruleVars, questionVars, materialVars, reportVars, lexiconVars, limiterVars>>
       \/ /\ part = "marks"
          /\ ImportNext \/ \E m \in Markers : MarkNext(m)
          /\ UNCHANGED <<accountVars, feedVars, ruleVars, questionVars, materialVars, reportVars, lexiconVars, limiterVars>>
       \/ /\ part = "reading"
          /\ ImportNext \/ \E reader \in Readers : ReadsAlone(reader) /\ ReadNext(reader)
          /\ UNCHANGED <<accountVars, feedVars, ruleVars, questionVars, materialVars, reportVars, lexiconVars, limiterVars>>
       \/ part = "selection" /\ Select /\ UNCHANGED <<accountVars, feedVars, discoveryVars, questionVars, materialVars, reportVars, lexiconVars, limiterVars>>
       \/ part = "rounds" /\ StudyNext /\ UNCHANGED <<accountVars, feedVars, discoveryVars, questionVars, materialVars, reportVars, lexiconVars, limiterVars>>
       \/ part = "questions" /\ QuestionNext /\ UNCHANGED <<accountVars, feedVars, discoveryVars, ruleVars, materialVars, reportVars, lexiconVars, limiterVars>>
       \/ /\ part = "materials"
          /\ MaterialNext
          /\ UNCHANGED <<accountVars, feedVars, discoveryVars, ruleVars, questionVars, reportVars, lexiconVars, limiterVars>>
       \/ part = "history" /\ HistoryNext /\ UNCHANGED <<accountVars, feedVars, discoveryVars, ruleVars, questionVars, materialVars, sessionVars, lexiconVars, limiterVars>>
       \/ part = "summaries" /\ SummaryNext /\ UNCHANGED <<accountVars, feedVars, discoveryVars, ruleVars, questionVars, materialVars, historyVars, lexiconVars, limiterVars>>
       \/ /\ part = "lexicon" /\ LexiconNext
          /\ UNCHANGED <<accountVars, feedVars, discoveryVars, ruleVars, questionVars, materialVars, reportVars, limiterVars>>
       \/ part = "limiter" /\ LimiterNext /\ UNCHANGED <<accountVars, feedVars, discoveryVars, ruleVars, questionVars, materialVars, reportVars, lexiconVars>>

LibrarySpec == Start /\ [][Move]_<<part, accountVars, feedVars, discoveryVars, ruleVars, questionVars, materialVars, reportVars, lexiconVars, limiterVars>>

=============================================================================
