-------------------------- MODULE ScenarioMaterials --------------------------
(***************************************************************************)
(* The production of the scenario packs:                                   *)
(* app/services/scenario_material_pipeline.py.                             *)
(*                                                                         *)
(* A run downloads and checks its sources, puts bilingual sentences into   *)
(* packs, has some of them reviewed, fills the packs up with English       *)
(* sentences that it has translated, and has the translations reviewed.    *)
(* What the models answered is kept in files, so that a run that stopped   *)
(* is started again and goes on.  A run is one process; it may die at any  *)
(* point, also while it writes a file.  Every stage is enabled.            *)
(***************************************************************************)
EXTENDS Integers, FiniteSets, Sequences, SequencesExt, Lists

CONSTANTS
    SceneCodes,      \* the packs, in the order of the manifest
    AssignmentOrder, \* SPECIFIC_ASSIGNMENT_ORDER + BROAD_ASSIGNMENT_ORDER
    Bilingual,       \* clean sentences: [id, norm, print, pref, fits]
    OpenEnglish,     \* the CC0 sentences, in the same form
    Dialogues,       \* those of the supplement sources, source by source and pack by pack
    TargetPerPack, ItemsPerPack, BatchSize,
    MaxTranslated,   \* max_translated_items of the CC0 source
    SaveEvery,       \* 25 in the code: translations between two writes
    Translations,    \* what the translator may answer
    MaxRuns          \* bound on runs

\* `norm` is the normalized text, `print` the fingerprint of near duplicates, `pref`
\* the preference among translations, and `fits` the score for each pack, 0 below its
\* minimum.
Codes == ToSet(SceneCodes)
Sentences == Bilingual \cup OpenEnglish \cup ToSet(Dialogues)

ASSUME MaterialAssumption ==
    /\ SceneCodes \in Seq(Codes) /\ IsInjective(SceneCodes)
    /\ AssignmentOrder \in Seq(Codes) /\ ToSet(AssignmentOrder) = Codes
    /\ {TargetPerPack, ItemsPerPack, BatchSize, SaveEvery, MaxRuns} \subseteq Nat \ {0}
    /\ MaxTranslated \in Nat

\* A source_id belongs to one sentence; its beginning tells the source.  The adapter of
\* a supplement source puts a sentence into one pack.
ASSUME SentenceAssumption ==
    /\ IsFiniteSet(Sentences) /\ Dialogues \in Seq(ToSet(Dialogues))
    /\ \A row \in Sentences : row.id \in Nat /\ row.fits \in [Codes -> Nat]
    /\ \A row, other \in Sentences : row.id = other.id => row = other
    /\ Bilingual \cap (OpenEnglish \cup ToSet(Dialogues)) = {}
    /\ \A row \in ToSet(Dialogues) : \E p \in Codes : \A q \in Codes : row.fits[q] > 0 <=> q = p

Archives == {"tatoeba", "cc0", "dialogues"}
Phases == <<"tatoeba", "review", "cc0", "open", "dialogues", "adapt", "spoken", "chinese">>

VARIABLES
    runs,         \* runs begun
    phase,        \* the stage of the run, or "idle"
    options,      \* "plain", "offline" or "refresh"
    archives,     \* files of the sources, as downloaded and, "adapt", what the adapters
                  \* made of the dialogues: "none", "good" or "bad"
    decisions,    \* ai-review.json: <<pack, id>> -> keep, and category as proposed
    translations, \* ai-translations.json: id -> Chinese
    reviews,      \* ai-chinese-review.json: <<id, Chinese>> -> [status, chinese]
    torn,         \* the files of answers whose writing was cut off
    packs,        \* `classified`: what the run has made so far
    todo,         \* `misses`: what the stage has still to ask
    fresh,        \* translations that are not written yet
    outcome,      \* how the last run ended
    finished      \* history: what finished runs produced

askVars == <<decisions, translations, reviews>>
endVars == <<outcome, finished>>
materialVars == <<runs, phase, options, archives, askVars, torn, packs, todo, fresh, endVars>>

NoAnswers == [k \in {} |-> ""]
EmptyPacks == [p \in Codes |-> <<>>]

MaterialInit ==
    /\ runs = 0 /\ phase = "idle" /\ options = "plain"
    /\ archives = [a \in Archives \cup {"adapt"} |-> "none"]
    /\ decisions = NoAnswers /\ translations = NoAnswers /\ reviews = NoAnswers
    /\ torn = {}
    /\ packs = EmptyPacks /\ todo = <<>> /\ fresh = NoAnswers
    /\ outcome = "none" /\ finished = {}

-----------------------------------------------------------------------------
(* What a run makes of its sources and of the answers.                     *)

RowsOf(table) == UNION {ToSet(table[p]) : p \in Codes}
Norms(set) == {row.norm : row \in set}
Least(m, n) == IF m < n THEN m ELSE n
ItemsOfAll(table) == UNION {{p} \X DOMAIN table[p] : p \in Codes}

\* _read_tatoeba_pairs: one sentence for each text, that with the best translation.
Cleaned(set) == {row \in set : \A other \in set : other.norm = row.norm => row.pref <= other.pref}

Options(set, p) == {row \in set : row.fits[p] > 0}
Better(rows, p) ==
    {pair \in rows \X rows :
        \/ pair[1].fits[p] > pair[2].fits[p]
        \/ pair[1].fits[p] = pair[2].fits[p] /\ pair[1].id < pair[2].id}
Ranked(set, p) == SortedBy(Options(set, p), Better(Options(set, p), p))

\* A sentence goes into a pack unless its text or its fingerprint is in one.
Admit(table, p, limit, list) ==
    FoldLeft(LAMBDA t, row :
                IF Len(t[p]) < limit /\ \A o \in RowsOf(t) : o.norm # row.norm /\ o.print # row.print
                THEN [t EXCEPT ![p] = Append(@, row)] ELSE t,
             table, list)

ClassifyCandidates(set, order, limit) ==
    FoldLeft(LAMBDA t, p : Admit(t, p, limit, Ranked(set, p)), EmptyPacks, order)

Classified == ClassifyCandidates(Cleaned(Bilingual), AssignmentOrder, TargetPerPack + ItemsPerPack)

\* The last ItemsPerPack of the first TargetPerPack of each pack are reviewed.
ReviewEnd(p) == Least(TargetPerPack, Len(Classified[p]))
ReviewStart(p) == ReviewEnd(p) - Least(ItemsPerPack, ReviewEnd(p))
Selected(p) == SubSeq(Classified[p], ReviewStart(p) + 1, ReviewEnd(p))

\* The packs after the review: without the rejected rows, with the reserve.
Rejected(p) == {row \in Bilingual : <<p, row.id>> \in DOMAIN decisions /\ ~decisions[<<p, row.id>>]}

Reviewed(table) ==
    [p \in Codes |->
        LET kept == Without(table[p], Rejected(p))
        IN SubSeq(kept, 1, Least(TargetPerPack, Len(kept)))]

\* _translate_supplements takes one more sentence for the smallest pack while any is
\* short of its target.
Supplemented(base, extra, most) ==
    LET Rank(p) == CHOOSE k \in DOMAIN SceneCodes : SceneCodes[k] = p
        Size(n, p) == Len(base[p]) + n[p]
        Open(n) == {p \in Codes : Size(n, p) < TargetPerPack /\ n[p] < Len(extra[p])}
        Smallest(n) == CHOOSE p \in Open(n) : \A q \in Open(n) :
            \/ Size(n, p) < Size(n, q)
            \/ Size(n, p) = Size(n, q) /\ Rank(p) <= Rank(q)
        taken == FoldLeft(LAMBDA n, k : IF Open(n) = {} THEN n ELSE [n EXCEPT ![Smallest(n)] = @ + 1],
                          [p \in Codes |-> 0], [k \in 1..most |-> k])
    IN [p \in Codes |-> base[p] \o SubSeq(extra[p], 1, taken[p])]

\* Mutant: what an earlier run had translated counts as used.
OpenOptionsUntranslated(base) ==
    ClassifyCandidates({row \in OpenEnglish : row.norm \notin Norms(RowsOf(base)) /\ row.id \notin DOMAIN translations},
                       AssignmentOrder, TargetPerPack)

\* CC0 sentences whose text is in no pack.
OpenOptions(base) ==
    ClassifyCandidates({row \in OpenEnglish : row.norm \notin Norms(RowsOf(base))}, AssignmentOrder, TargetPerPack)

\* What the adapters read and the shared `excluded` lets through, the texts in the packs
\* as they are now among it; of near duplicates the first is an option.
Distinct(list, excluded) ==
    FoldLeft(LAMBDA acc, row : IF row.norm \in excluded \cup Norms(ToSet(acc)) THEN acc ELSE Append(acc, row),
             <<>>, list)

\* Mutant: texts that came in with the CC0 sentences are not excluded.
ExcludedBefore(base) == Norms(RowsOf(base) \ OpenEnglish)

Excluded(base) == Norms(RowsOf(base))

SpokenOptions(base) ==
    LET rows == ToSet(Distinct(Dialogues, Excluded(base)))
    IN ClassifyCandidates(rows, SceneCodes, Cardinality(rows))

\* The packs at the beginning of a stage.
PacksFor(p) ==
    CASE p = "tatoeba" -> EmptyPacks
      [] p = "review" -> Classified
      [] p = "cc0" -> Reviewed(packs)
      [] p = "open" -> Supplemented(packs, OpenOptions(packs), MaxTranslated)
      [] p = "spoken" -> Supplemented(packs, SpokenOptions(packs), TargetPerPack * Len(SceneCodes))
      [] OTHER -> packs

InScenes(table) == FlattenSeq([k \in DOMAIN SceneCodes |-> table[SceneCodes[k]]])
Translated(table) == Without(InScenes(table), Bilingual)
ReviewKeys == InScenes([p \in Codes |-> [n \in DOMAIN Selected(p) |-> <<p, Selected(p)[n].id>>]])
ChineseKey(row) == <<row.id, translations[row.id]>>

Undecided == Without(ReviewKeys, DOMAIN decisions)

\* What a stage asks for: all it needs that is not in its cache.
Misses(p, table) ==
    CASE p = "review" -> Undecided
      [] p \in {"open", "spoken"} ->
            Without(Translated(table), {row \in Sentences : row.id \in DOMAIN translations})
      [] p = "chinese" ->
            Without(Translated(table), {row \in ToSet(Translated(table)) :
                ChineseKey(row) \in DOMAIN reviews /\ reviews[ChineseKey(row)].status = "success"})
      [] OTHER -> <<>>

-----------------------------------------------------------------------------
(* The run.                                                                *)

CacheOf(p) == CASE p = "review" -> "decisions" [] p \in {"open", "spoken"} -> "translations"
                [] p = "chinese" -> "reviews" [] OTHER -> "none"

StageAfter(p) == Phases[1 + CHOOSE k \in DOMAIN Phases : Phases[k] = p]

\* The run goes on with a stage, whose misses are determined at its beginning.
GoOn(p) ==
    /\ phase' = p /\ packs' = PacksFor(p)
    /\ todo' = Misses(p, packs') /\ fresh' = NoAnswers

Stop(how) ==
    /\ phase' = "idle" /\ packs' = EmptyPacks /\ todo' = <<>> /\ fresh' = NoAnswers
    /\ outcome' = how
    /\ UNCHANGED <<runs, options, finished>>

Same == UNCHANGED <<runs, options, endVars>>

StartRun(how) ==
    /\ phase = "idle"
    /\ runs < MaxRuns
    /\ runs' = runs + 1
    /\ options' = how
    /\ GoOn("tatoeba")
    /\ UNCHANGED <<archives, askVars, torn, endVars>>

\* _download_source, _download_named_source: what comes is written, then checked; a
\* file that is there is only checked.
UseArchive(content) ==
    /\ archives' = [archives EXCEPT ![phase] = content]
    /\ IF content = "good" THEN GoOn(StageAfter(phase)) /\ Same ELSE Stop("checksum")
    /\ UNCHANGED <<askVars, torn>>

IsThere == archives[phase] # "none" /\ options # "refresh"

ReadArchive == phase \in Archives /\ IsThere /\ UseArchive(archives[phase])

Download ==
    /\ phase \in Archives /\ ~IsThere
    /\ \/ options # "offline" /\ \E content \in {"good", "bad"} : UseArchive(content)
       \/ Stop("unavailable") /\ UNCHANGED <<archives, askVars, torn>>

\* _cached_source_adapter: what an earlier run made of the dialogues is read as it is,
\* which fails if its writing was cut off; otherwise it is made and written.
Adapt ==
    /\ phase = "adapt"
    /\ IF archives[phase] = "bad"
       THEN Stop("torn") /\ UNCHANGED archives
       ELSE archives' = [archives EXCEPT ![phase] = "good"] /\ GoOn(StageAfter(phase)) /\ Same
    /\ UNCHANGED <<askVars, torn>>

\* json.loads of a file whose writing was cut off.
CacheIsTorn ==
    /\ phase # "idle" /\ CacheOf(phase) \in torn
    /\ Stop("torn")
    /\ UNCHANGED <<archives, askVars, torn>>

Asking(p) == phase = p /\ CacheOf(p) \notin torn /\ todo # <<>>
Batch == SubSeq(todo, 1, Least(BatchSize, Len(todo)))
AfterBatch == SubSeq(todo, Len(Batch) + 1, Len(todo))

\* A batch of _apply_ai_review: it is decided and written, or the answer is not one
\* decision for every row and the run ends.
ReviewBatch ==
    /\ Asking("review")
    /\ \/ /\ \E keep \in [ToSet(Batch) -> BOOLEAN] :
                decisions' = [k \in DOMAIN decisions \cup ToSet(Batch) |->
                                IF k \in ToSet(Batch) THEN keep[k] ELSE decisions[k]]
          /\ todo' = AfterBatch
          /\ Same /\ UNCHANGED <<phase, packs, fresh>>
       \/ Stop("malformed") /\ UNCHANGED decisions
    /\ UNCHANGED <<archives, translations, reviews, torn>>

\* A future of the pool is taken, in any order; the file is written for every
\* SaveEvery of them and for the last.
Translate ==
    /\ phase \in {"open", "spoken"} /\ Asking(phase)
    /\ \E row \in ToSet(todo), text \in Translations :
        LET known == [id \in DOMAIN fresh \cup {row.id} |-> IF id = row.id THEN text ELSE fresh[id]]
            saved == Cardinality(DOMAIN known) = SaveEvery \/ todo' = <<>>
        IN /\ todo' = Without(todo, {row})
           /\ fresh' = IF saved THEN NoAnswers ELSE known
           /\ translations' = IF ~saved THEN translations
                ELSE [id \in DOMAIN translations \cup DOMAIN known |->
                        IF id \in DOMAIN known THEN known[id] ELSE translations[id]]
    /\ Same /\ UNCHANGED <<phase, packs, archives, decisions, reviews, torn>>

\* The future of a row that was not translated is taken: what is not written is lost.
TranslationFails ==
    /\ phase \in {"open", "spoken"} /\ Asking(phase)
    /\ Stop("translation")
    /\ UNCHANGED <<archives, askVars, torn>>

\* A batch of _apply_chinese_quality_review: every row of it is reviewed or every row
\* has failed, whichever of them was wrong; the run goes on.
ReviewChinese ==
    /\ Asking("chinese")
    /\ LET keys == {ChineseKey(row) : row \in ToSet(Batch)}
           Put(entry) == reviews' = [k \in DOMAIN reviews \cup keys |-> IF k \in keys THEN entry[k] ELSE reviews[k]]
       IN \/ \E changed \in SUBSET keys :
                Put([k \in keys |-> [status |-> "success", chinese |-> IF k \in changed THEN "corrected" ELSE k[2]]])
          \/ Put([k \in keys |-> [status |-> "failed", chinese |-> k[2]]])
    /\ todo' = AfterBatch
    /\ Same /\ UNCHANGED <<phase, packs, fresh, archives, decisions, translations, torn>>

EndStage ==
    /\ phase \in {"review", "open", "spoken"}
    /\ CacheOf(phase) \notin torn /\ todo = <<>>
    /\ GoOn(StageAfter(phase))
    /\ Same /\ UNCHANGED <<archives, askVars, torn>>

\* A row of the result, with its Chinese and how often that was looked at.
Final(row) ==
    IF row \in Bilingual THEN [row |-> row, chinese |-> "own", status |-> "success"]
    ELSE [row |-> row, chinese |-> reviews[ChineseKey(row)].chinese, status |-> reviews[ChineseKey(row)].status]

Result == [p \in Codes |-> [k \in DOMAIN packs[p] |-> Final(packs[p][k])]]

\* _build_imports and the two checks behind it.
Produce ==
    /\ phase = "chinese" /\ CacheOf(phase) \notin torn /\ todo = <<>>
    /\ IF Cardinality(Norms(RowsOf(packs))) = Cardinality(ItemsOfAll(packs))
       THEN /\ phase' = "idle" /\ packs' = EmptyPacks
            /\ outcome' = "produced" /\ finished' = finished \cup {Result}
            /\ UNCHANGED <<runs, options, todo, fresh>>
       ELSE Stop("duplicates")
    /\ UNCHANGED <<archives, askVars, torn>>

\* The process dies, perhaps while it writes the stage's cache.
Die ==
    /\ phase # "idle"
    /\ torn' \in {torn, torn \cup ({CacheOf(phase)} \ {"none"})}
    /\ \/ UNCHANGED archives
       \/ /\ phase = "adapt" /\ archives[phase] = "none"
          /\ archives' = [archives EXCEPT ![phase] = "bad"]
    /\ Stop("died")
    /\ UNCHANGED askVars

MaterialNext ==
    \/ \E how \in {"plain", "offline", "refresh"} : StartRun(how)
    \/ ReadArchive \/ Download \/ Adapt \/ CacheIsTorn \/ ReviewBatch \/ Translate \/ TranslationFails
    \/ ReviewChinese \/ EndStage \/ Produce \/ Die

MaterialSpec == MaterialInit /\ [][MaterialNext]_materialVars

-----------------------------------------------------------------------------

\* The texts of all packs differ, so that the last check of a run never fails; no pack
\* is above its target, and one is below it only if no dialogue is left for it; no row
\* the reviewer rejected is in its pack.
MaterialsAreWhole ==
    /\ outcome # "duplicates"
    /\ \A made \in finished : \A p \in Codes :
        LET rows == {made[p][k].row : k \in DOMAIN made[p]}
            All == UNION {{made[c][k].row : k \in DOMAIN made[c]} : c \in Codes}
        IN /\ Len(made[p]) <= TargetPerPack
           /\ Len(made[p]) < TargetPerPack =>
                \A row \in ToSet(Dialogues) :
                    row.fits[p] > 0 => \E other \in All \cup (ToSet(Dialogues) \ {row}) :
                        other.norm = row.norm \/ other.print = row.print
           /\ \A row \in rows : <<p, row.id>> \in DOMAIN decisions => decisions[<<p, row.id>>]

\* However often runs were stopped and started again, two that finished have the same
\* sentences in the same order, and the same Chinese where both had it reviewed.
RunsRepeat ==
    \A one, two \in finished : \A p \in Codes :
        /\ Len(one[p]) = Len(two[p])
        /\ \A k \in DOMAIN one[p] :
            /\ one[p][k].row = two[p][k].row
            /\ one[p][k].status = "success" /\ two[p][k].status = "success" => one[p][k] = two[p][k]

=============================================================================
