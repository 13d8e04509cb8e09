----------------------------- MODULE Discovery ------------------------------
(***************************************************************************)
(* One pack of public materials, its importer and its readers:             *)
(* app/services/public_material_importer.py, discovery_service.py and      *)
(* app/routers/discovery.py over the tables of app/models/discovery.py.    *)
(*                                                                         *)
(* An import moves every row of the pack out of the way, lists the new     *)
(* edition at positions 1..n in one transaction and leaves the rows it no  *)
(* longer lists hidden.  (pack_id, position) is unique, and PostgreSQL     *)
(* checks it row by row.  Readers see what is committed, one statement at  *)
(* a time.  A user's marks are rows, unique for user and item.             *)
(***************************************************************************)
EXTENDS Integers, FiniteSets, Sequences, SequencesExt

CONSTANTS
    Items,      \* normalized contents of the pack: item_id is a function of them
    Editions,   \* item_specs of the imports there may be
    Withheld(_), \* of an edition, the items it lists with the status "hidden"
    MaxImports, \* bound on imports
    Asks,       \* reader -> "quote", "items" or "packs"
    Wishes,     \* call of PUT /items/{id}/state -> [item, known]
    InLibrary,  \* the items the user has an active card of
    Offsets     \* offsets the client asks for, and days of get_today_quote

ASSUME DiscoveryAssumption ==
    /\ IsFiniteSet(Items)
    /\ Editions \subseteq Seq(Items)
    /\ InLibrary \subseteq Items
    /\ Offsets \subseteq Nat

Readers == DOMAIN Asks
Markers == DOMAIN Wishes
NoRow == [position |-> 0, approved |-> FALSE]

VARIABLES
    packActive, \* status = 'active', as committed
    rows,       \* committed rows of public_material_items, NoRow before the first import
    listed,     \* history: the edition committed last
    imports,    \* imports begun
    importing,  \* "idle", or how far the import is
    edition,    \* its item_specs
    draft,      \* the rows as its transaction sees them
    unwritten,  \* the items it has still to flush
    reading,    \* how far each reader is
    found,      \* the rows or the count its last statement read
    answer,     \* what it was sent
    moved,      \* history: an import was committed while it was reading
    marks,      \* items with a row of user_material_states
    marking,    \* how far each marker is
    held        \* history: whether the item was marked, at each moment of the call

catalogueVars == <<packActive, rows, listed>>
importVars == <<imports, importing, edition, draft, unwritten>>
readVars == <<reading, found, answer, moved>>
markVars == <<marks, marking, held>>
discoveryVars == <<catalogueVars, importVars, readVars, markVars>>

DiscoveryInit ==
    /\ packActive = FALSE
    /\ rows = [i \in Items |-> NoRow]
    /\ listed = <<>>
    /\ imports = 0 /\ importing = "idle" /\ edition = <<>>
    /\ draft = rows
    /\ unwritten = {}
    /\ reading = [r \in Readers |-> "start"]
    /\ found = [r \in Readers |-> {}]
    /\ answer = [r \in Readers |-> <<>>]
    /\ moved = [r \in Readers |-> FALSE]
    /\ marks = {}
    /\ marking = [m \in Markers |-> "start"]
    /\ held = [m \in Markers |-> {}]

-----------------------------------------------------------------------------
(* The importer.                                                           *)

Existing(table) == {i \in Items : table[i].position # 0}
Positions(table) == {table[i].position : i \in Existing(table)}
Highest(table) == CHOOSE p \in Positions(table) : \A q \in Positions(table) : q <= p

\* Mutant: only the old positions are kept clear of, not those of the new list.
BaseOverOld(table, specs) == Highest(table)

\* temporary_base = max(max_position, len(item_specs))
TemporaryBase(table, specs) == IF Highest(table) > Len(specs) THEN Highest(table) ELSE Len(specs)

\* The bulk update: hidden, at the base plus the row number by position.
Renumbered(table, specs) ==
    [i \in Items |->
        IF i \notin Existing(table) THEN NoRow
        ELSE [position |-> TemporaryBase(table, specs)
                + Cardinality({j \in Existing(table) : table[j].position <= table[i].position}),
              approved |-> FALSE]]

\* The pack is found or made, and its rows are renumbered.
BeginImport ==
    /\ importing = "idle"
    /\ imports < MaxImports
    /\ imports' = imports + 1
    /\ \E specs \in Editions : edition' = specs /\ draft' = Renumbered(rows, specs)
    /\ importing' = "specs"
    /\ UNCHANGED <<catalogueVars, unwritten, readVars, markVars>>

\* The loop over item_specs: a content that is listed twice is a ValueError.
TakeSpecs ==
    /\ importing = "specs"
    /\ IF IsInjective(edition) THEN importing' = "flush" /\ unwritten' = ToSet(edition)
       ELSE importing' = "idle" /\ UNCHANGED unwritten
    /\ UNCHANGED <<catalogueVars, imports, edition, draft, readVars, markVars>>

PlaceOf(i) == CHOOSE p \in 1..Len(edition) : edition[p] = i

\* One row is flushed by commit(): updates before inserts, each checked against
\* uq_public_material_items_pack_position.  It has the status of its spec.
WriteRow(i) ==
    /\ importing = "flush"
    /\ i \in unwritten
    /\ i \in Existing(draft) \/ unwritten \cap Existing(draft) = {}
    /\ IF \E j \in Items \ {i} : draft[j].position = PlaceOf(i)
       THEN importing' = "violation" /\ UNCHANGED <<draft, unwritten>>
       ELSE /\ draft' = [draft EXCEPT ![i] = [position |-> PlaceOf(i),
                                              approved |-> i \notin Withheld(edition)]]
            /\ unwritten' = unwritten \ {i}
            /\ UNCHANGED importing
    /\ UNCHANGED <<catalogueVars, imports, edition, readVars, markVars>>

\* The rows and the status of the pack, "active" or "hidden", are committed.
CommitImport ==
    /\ importing = "flush"
    /\ unwritten = {}
    /\ importing' = "idle"
    /\ packActive' \in BOOLEAN
    /\ rows' = draft
    /\ listed' = edition
    /\ moved' = [r \in Readers |-> moved[r] \/ reading[r] \notin {"start", "end"}]
    /\ UNCHANGED <<imports, edition, draft, unwritten, reading, found, answer, markVars>>

\* The script stops or the connection breaks: nothing was committed.
ImportFails ==
    /\ importing \in {"specs", "flush", "violation"}
    /\ importing' = "idle"
    /\ unwritten' = {}
    /\ UNCHANGED <<catalogueVars, imports, edition, draft, readVars, markVars>>

-----------------------------------------------------------------------------
(* The readers.                                                            *)

Approved == {i \in Items : rows[i].approved}

\* `order_by(position)`
InOrder(set) == SetToSortSeq(set, LAMBDA i, j : rows[i].position < rows[j].position)

ReadTo(r, label) == reading' = [reading EXCEPT ![r] = label]

\* The pack is looked for: 404, 503 or an empty list without one.
FindPack(r) ==
    /\ reading[r] = "start"
    /\ IF packActive THEN ReadTo(r, "count") /\ UNCHANGED answer
       ELSE ReadTo(r, "end") /\ answer' = [answer EXCEPT ![r] = <<"none">>]
    /\ UNCHANGED <<catalogueVars, importVars, found, moved, markVars>>

\* The rows that a list shows: `include_known` is false, the default.
Listed(r) == IF Asks[r] = "items" THEN Approved \ marks ELSE Approved

\* The statement that counts, for a pack of list_material_packs its items.  A quote
\* of an empty pack is a 503.
CountItems(r) ==
    /\ reading[r] = "count"
    /\ found' = [found EXCEPT ![r] = Listed(r)]
    /\ IF Asks[r] = "quote" /\ Approved = {}
       THEN ReadTo(r, "end") /\ answer' = [answer EXCEPT ![r] = <<"none">>]
       ELSE ReadTo(r, "fetch") /\ UNCHANGED answer
    /\ UNCHANGED <<catalogueVars, importVars, moved, markVars>>

\* The statement that fetches.  The quote is the one at day % count of the rows
\* there are now, a 503 if they have become too few.
FetchQuote(r, day) ==
    LET at == (day % Cardinality(found[r])) + 1 IN
    /\ Asks[r] = "quote"
    /\ answer' = [answer EXCEPT ![r] =
            IF at > Cardinality(Approved) THEN <<"none">> ELSE <<"quote", InOrder(Approved)[at]>>]

FetchItems(r, offset) ==
    /\ Asks[r] = "items"
    /\ answer' = [answer EXCEPT ![r] =
            <<"items", Cardinality(found[r]), SubSeq(InOrder(Listed(r)), offset + 1, Len(InOrder(Listed(r))))>>]

\* remaining_count: neither known nor in the library by now.
FetchPacks(r) ==
    /\ Asks[r] = "packs"
    /\ answer' = [answer EXCEPT ![r] =
            <<"packs", Cardinality(found[r]), Cardinality((found[r] \ marks) \ InLibrary)>>]

Fetch(r) ==
    /\ reading[r] = "fetch"
    /\ \/ \E n \in Offsets : FetchQuote(r, n) \/ FetchItems(r, n)
       \/ FetchPacks(r)
    /\ ReadTo(r, "end")
    /\ UNCHANGED <<catalogueVars, importVars, found, moved, markVars>>

-----------------------------------------------------------------------------
(* Marks: set_material_known.                                              *)

Mark(m, label) == marking' = [marking EXCEPT ![m] = label]
Item(m) == Wishes[m].item
UnderWay(m) == marking[m] \notin {"start", "known", "unknown", "missing", "failed"}

\* The history after a step of m that leaves `marks` as they are, or as they become.
Witness(m, after) ==
    held' = [n \in Markers |->
        IF UnderWay(n) \/ n = m THEN held[n] \cup {Item(n) \in after} ELSE held[n]]

\* The item is looked for among the approved ones.
CheckItem(m) ==
    /\ marking[m] = "start"
    /\ Mark(m, IF Item(m) \notin Approved THEN "missing"
               ELSE IF Wishes[m].known THEN "look" ELSE "delete")
    /\ Witness(m, marks)
    /\ UNCHANGED <<catalogueVars, importVars, readVars, marks>>

\* Mutant: the deletion is not committed.
DeleteUncommitted(m) ==
    /\ marking[m] = "delete"
    /\ Mark(m, "unknown")
    /\ Witness(m, marks)
    /\ UNCHANGED <<catalogueVars, importVars, readVars, marks>>

DeleteMark(m) ==
    /\ marking[m] = "delete"
    /\ marks' = marks \ {Item(m)}
    /\ Mark(m, "unknown")
    /\ Witness(m, marks')
    /\ UNCHANGED <<catalogueVars, importVars, readVars>>

LookMark(m) ==
    /\ marking[m] = "look"
    /\ Mark(m, IF Item(m) \in marks THEN "known" ELSE "insert")
    /\ Witness(m, marks)
    /\ UNCHANGED <<catalogueVars, importVars, readVars, marks>>

\* The insert, which waits for other transactions on the key, and the commit.
InsertMark(m) ==
    /\ marking[m] = "insert"
    /\ IF Item(m) \in marks THEN Mark(m, "lookAgain") /\ UNCHANGED marks
       ELSE Mark(m, "known") /\ marks' = marks \cup {Item(m)}
    /\ Witness(m, marks')
    /\ UNCHANGED <<catalogueVars, importVars, readVars>>

\* After the rollback: the row that was in the way, or the error goes on (a 500).
LookMarkAgain(m) ==
    /\ marking[m] = "lookAgain"
    /\ Mark(m, IF Item(m) \in marks THEN "known" ELSE "failed")
    /\ Witness(m, marks)
    /\ UNCHANGED <<catalogueVars, importVars, readVars, marks>>

ImportNext ==
    \/ BeginImport \/ TakeSpecs \/ CommitImport \/ ImportFails
    \/ \E i \in Items : WriteRow(i)

ReadNext(r) == FindPack(r) \/ CountItems(r) \/ Fetch(r)

MarkNext(m) == CheckItem(m) \/ DeleteMark(m) \/ LookMark(m) \/ InsertMark(m) \/ LookMarkAgain(m)

DiscoveryNext ==
    \/ ImportNext
    \/ \E r \in Readers : ReadNext(r)
    \/ \E m \in Markers : MarkNext(m)

DiscoverySpec == DiscoveryInit /\ [][DiscoveryNext]_discoveryVars

-----------------------------------------------------------------------------

\* What is committed is one edition, in its order, with all it does not withhold shown,
\* and every other row is hidden behind it: an import never trips over the position of a
\* row, its own or one that an earlier edition left behind, whatever their order.
ShowsOneEdition ==
    /\ Approved = ToSet(listed) \ Withheld(listed)
    /\ \A p \in DOMAIN listed : rows[listed[p]].position = p
    /\ \A i \in Existing(rows) \ ToSet(listed) : rows[i].position > Len(listed)
    /\ Cardinality(Positions(rows)) = Cardinality(Existing(rows))

\* A reader is sent away from a pack that has items only if an import was committed
\* between two of its statements.
SentAwayFromNothing ==
    \A r \in Readers : answer[r] = <<"none">> /\ reading[r] = "end" /\ found[r] # {} => moved[r]

CatalogueIsWhole ==
    /\ importing # "violation"
    /\ ShowsOneEdition
    /\ SentAwayFromNothing

\* An answer of set_material_known was true at a moment of the call, and a call fails
\* only if the mark both was there and was not while it ran.
MarksAgree ==
    \A m \in Markers :
        /\ marking[m] = "known" => TRUE \in held[m]
        /\ marking[m] = "unknown" => FALSE \in held[m]
        /\ marking[m] = "failed" => held[m] = BOOLEAN

=============================================================================
