------------------------------- MODULE Lexicon -------------------------------
(***************************************************************************)
(* The dictionary and what the cards keep of it: app/services/             *)
(* ecdict_service.py, lexical_metadata.py, the on-demand refresh of        *)
(* review_v1._metadata_for_card, and the scripts build_ecdict.py and       *)
(* backfill_card_lexical_metadata.py.                                      *)
(*                                                                         *)
(* A process finds out once what the dictionary file offers and keeps the  *)
(* answer (lru_cache), also that there is none.  Its look-ups are cached   *)
(* too, which adds nothing: they depend on that answer and on the word.    *)
(* A card's metadata row is written from a look-up by whoever edits the    *)
(* card, asks a question about it or backfills it; the last two do not     *)
(* lock the card.                                                          *)
(***************************************************************************)
EXTENDS Integers, FiniteSets

CONSTANTS
    LexCards,  \* cards
    LexWords,  \* what a card may contain
    Known,     \* the words the dictionary has
    TooLong,   \* the words longer than a review question may be
    BatchLimit \* --batch-size of the backfill

ASSUME LexiconAssumption ==
    /\ LexCards \subseteq Int /\ IsFiniteSet(LexCards)
    /\ Known \subseteq LexWords /\ TooLong \subseteq LexWords /\ BatchLimit \in Nat \ {0}

\* A legacy dictionary has no frequencies.  `edit` saves a card, `open` opens a
\* session in the server, `fill` is the backfill script.
Dictionaries == {"none", "legacy", "full"}
Jobs == {"edit", "open", "fill"}
Process(j) == IF j = "fill" THEN "script" ELSE "server"

Blank == "blank"
Missing == [content |-> Blank, hit |-> FALSE, frq |-> FALSE]

VARIABLES
    file,     \* what settings.ecdict_db_path holds
    schema,   \* _resolve_schema of each process, or "unset"
    since,    \* history: the file when the process started
    content,  \* content_normalized of each card, Blank before it is created
    metadata, \* its CardLexicalMetadata row, or Missing
    batch,    \* the cards the backfill has still to look up, with their texts
    work,     \* what each job has read and is going to write, by card
    wrote,    \* history: the file when the row's writer started
    mixed     \* history: the rows with columns of two writers

lexiconVars == <<file, schema, since, content, metadata, batch, work, wrote, mixed>>

NoJob == [c \in {} |-> Missing]

\* Cards may be older than the table of their metadata.
LexiconInit ==
    /\ file \in {"none", "legacy"}
    /\ schema = [p \in {"server", "script"} |-> "unset"]
    /\ since = [server |-> file, script |-> "none"]
    /\ content \in [LexCards -> LexWords \cup {Blank}]
    /\ metadata = [c \in LexCards |-> Missing]
    /\ batch = [c \in {} |-> Blank]
    /\ work = [j \in Jobs |-> NoJob]
    /\ wrote = [c \in LexCards |-> "none"]
    /\ mixed = {}

-----------------------------------------------------------------------------
(* The dictionary *)

\* build_ecdict.py downloads and builds in a directory of its own; what has been
\* validated takes the file's place in one step, and a failure leaves it as it was.  A
\* complete dictionary is kept, unless --force replaces it by the same.
Build ==
    /\ file # "full"
    /\ file' = "full"
    /\ UNCHANGED <<schema, since, content, metadata, batch, work, wrote, mixed>>

Resolved(p) == IF schema[p] = "unset" THEN file ELSE schema[p]
Resolve(p) == schema' = [schema EXCEPT ![p] = Resolved(p)]

\* A word or a phrase is pronounced: the first use of the dictionary, perhaps.
Pronounce ==
    /\ schema["server"] = "unset"
    /\ Resolve("server")
    /\ UNCHANGED <<file, since, content, metadata, batch, work, wrote, mixed>>

\* The server starts anew; what it was doing is rolled back.
Restart ==
    /\ schema' = [schema EXCEPT !["server"] = "unset"]
    /\ since' = [since EXCEPT !["server"] = file]
    /\ work' = [work EXCEPT !["edit"] = NoJob, !["open"] = NoJob]
    /\ UNCHANGED <<file, content, metadata, batch, wrote, mixed>>

\* get_dictionary_entry: edict_hit and whether there is a frequency.
EntryFor(word, dictionary) ==
    [hit |-> word \in Known /\ dictionary # "none", frq |-> word \in Known /\ dictionary = "full"]

-----------------------------------------------------------------------------
(* The metadata *)

\* Mutant: a word that is not found keeps the frequency of the word before it.
PutKeepingFrequency(word, dictionary, row) ==
    IF word \in TooLong THEN Missing
    ELSE LET entry == EntryFor(word, dictionary)
         IN [content |-> word, hit |-> entry.hit, frq |-> IF entry.hit THEN entry.frq ELSE row.frq]

Put(word, dictionary, row) ==
    IF word \in TooLong THEN Missing
    ELSE LET entry == EntryFor(word, dictionary)
         IN [content |-> word, hit |-> entry.hit, frq |-> entry.frq]

Upsert(word, p, c) ==
    [content |-> word, read |-> metadata[c], put |-> Put(word, Resolved(p), metadata[c])]

Idle(j) == work[j] = NoJob
FitsCard(c) == metadata[c].content = content[c]

\* A look-up that raises leaves the edit as it is, and the metadata alone.
Skipped(word) == [content |-> word, read |-> Missing, put |-> Missing]

\* A card is created or its text edited, under the lock of its row.
Edit(c, word) ==
    /\ Idle("edit") /\ word # content[c]
    /\ Resolve("server")
    /\ \E saved \in {Upsert(word, "server", c), Skipped(word)} : work' = [work EXCEPT !["edit"] = [d \in {c} |-> saved]]
    /\ UNCHANGED <<file, since, content, metadata, batch, wrote, mixed>>

\* A question about the card finds its metadata missing or out of date.
Ask(c) ==
    /\ Idle("open") /\ content[c] \notin TooLong \cup {Blank} /\ ~FitsCard(c)
    /\ Resolve("server")
    /\ work' = [work EXCEPT !["open"] = [d \in {c} |-> Upsert(content[c], "server", c)]]
    /\ UNCHANGED <<file, since, content, metadata, batch, wrote, mixed>>

\* The backfill starts, as a new process, with the first cards that need it.
Outdated == {c \in LexCards : content[c] \notin TooLong \cup {Blank} /\ ~FitsCard(c)}
FirstOutdated == {c \in Outdated : Cardinality({d \in Outdated : d < c}) < BatchLimit}

Backfill ==
    /\ Idle("fill") /\ DOMAIN batch = {} /\ FirstOutdated # {}
    /\ since' = [since EXCEPT !["script"] = file]
    /\ batch' = [c \in FirstOutdated |-> content[c]]
    /\ UNCHANGED <<file, schema, content, metadata, work, wrote, mixed>>

\* One card of the batch after the other; all are committed at the end.
FillCard(c) ==
    /\ c \in DOMAIN batch
    /\ Resolve("script")
    /\ work' = [work EXCEPT !["fill"] =
                    [d \in DOMAIN @ \cup {c} |-> IF d = c THEN Upsert(batch[c], "script", c) ELSE @[d]]]
    /\ batch' = [d \in DOMAIN batch \ {c} |-> batch[d]]
    /\ UNCHANGED <<file, since, content, metadata, wrote, mixed>>

\* An INSERT needs that there is no row, an UPDATE that there still is one.
CanWrite(c, w) ==
    w.put = Missing \/ (w.read = Missing <=> metadata[c] = Missing)

\* An UPDATE sets the columns that differ from what was read, on the row as it is.
Written(c, w) ==
    IF w.read = Missing THEN IF w.put = Missing THEN metadata[c] ELSE w.put
    ELSE IF w.put = Missing THEN Missing
    ELSE [column \in DOMAIN Missing |-> IF w.put[column] # w.read[column] THEN w.put[column] ELSE metadata[c][column]]

\* The script has ended: nothing is left of its process.
Leave(j) ==
    IF j = "fill"
    THEN /\ schema' = [schema EXCEPT !["script"] = "unset"]
         /\ since' = [since EXCEPT !["script"] = "none"]
         /\ batch' = [c \in {} |-> Blank]
    ELSE UNCHANGED <<schema, since, batch>>

Touched(j) == {c \in DOMAIN work[j] : ~(work[j][c].read = Missing /\ work[j][c].put = Missing)}

\* The job's rows are written and committed, with the card's new text if it is edited.
CommitJob(j) ==
    /\ ~Idle(j)
    /\ j = "fill" => DOMAIN batch = {}
    /\ \A c \in DOMAIN work[j] : CanWrite(c, work[j][c])
    /\ metadata' = [c \in LexCards |-> IF c \in DOMAIN work[j] THEN Written(c, work[j][c]) ELSE metadata[c]]
    /\ content' = [c \in LexCards |-> IF j = "edit" /\ c \in DOMAIN work[j] THEN work[j][c].content ELSE content[c]]
    /\ wrote' = [c \in LexCards |-> IF metadata'[c] = Missing THEN "none" ELSE IF c \in Touched(j) THEN since[Process(j)] ELSE wrote[c]]
    /\ mixed' = (mixed \ Touched(j)) \cup {c \in Touched(j) : metadata[c] # work[j][c].read /\ work[j][c].put # Missing}
    /\ work' = [work EXCEPT ![j] = NoJob]
    /\ Leave(j)
    /\ UNCHANGED file

\* Another error, a row that came or went, or the end of the script: all is rolled back.
FailJob(j) ==
    /\ ~Idle(j) \/ (j = "fill" /\ DOMAIN batch # {})
    /\ work' = [work EXCEPT ![j] = NoJob]
    /\ Leave(j)
    /\ UNCHANGED <<file, content, metadata, wrote, mixed>>

LexiconNext ==
    \/ Build \/ Pronounce \/ Restart \/ Backfill
    \/ \E c \in LexCards : (\E word \in LexWords : Edit(c, word)) \/ Ask(c) \/ FillCard(c)
    \/ \E j \in Jobs : CommitJob(j) \/ FailJob(j)

LexiconSpec == LexiconInit /\ [][LexiconNext]_lexiconVars

-----------------------------------------------------------------------------

\* Once a row fits its card nobody looks the word up again, so it had better be right:
\* where it is not, its writer was a process older than the dictionary, or two
\* transactions that did not see each other each wrote some of its columns.
MetadataIsExplained ==
    \A c \in LexCards :
        \/ metadata[c] = Missing \/ ~FitsCard(c)
        \/ metadata[c] = Put(content[c], file, Missing)
        \/ wrote[c] # file
        \/ c \in mixed

=============================================================================
