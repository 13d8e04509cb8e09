------------------------------ MODULE CardFeed ------------------------------
(***************************************************************************)
(* The incremental list of a user's cards: list_cards with updated_since   *)
(* (app/services/card_service.py) behind GET /api/cards.                   *)
(*                                                                         *)
(* A client keeps the cursor of the last page and asks for the cards whose *)
(* updated_at lies after it, deleted ones included.  updated_at is taken   *)
(* from the clock when the row is flushed, and nothing makes it unique;    *)
(* the row becomes visible when its transaction commits, perhaps after     *)
(* pages with later stamps.  Pages go by updated_at and then by the id,    *)
(* while the cursor is a time alone.                                       *)
(***************************************************************************)
EXTENDS Naturals, FiniteSets

CONSTANTS
    FeedCards,  \* the cards of the user, each by the rank of its id
    PageSize,   \* limit
    LastTick    \* bound on the clock

ASSUME FeedAssumption == FeedCards \subseteq Nat /\ IsFiniteSet(FeedCards) /\ PageSize \in Nat \ {0} /\ LastTick \in Nat

VARIABLES
    clock,   \* utc_now() of the last flush
    stamped, \* updated_at of each card's committed row, 0 before its creation
    flushed, \* updated_at in a transaction that is still open, 0 if there is none
    cursor,  \* the client's updated_since
    seen,    \* the updated_at of each card as the client last got it
    late,    \* history: cards committed with a stamp the cursor had already passed
    tied     \* history: cards a page left out that carry the stamp of a card it shows

feedVars == <<clock, stamped, flushed, cursor, seen, late, tied>>

FeedInit ==
    /\ clock = 0
    /\ stamped = [c \in FeedCards |-> 0]
    /\ flushed = [c \in FeedCards |-> 0]
    /\ cursor = 0
    /\ seen = [c \in FeedCards |-> 0]
    /\ late = {}
    /\ tied = {}

-----------------------------------------------------------------------------

\* A card is created, edited or deleted: its transaction holds the row and its stamp
\* (`default` and `onupdate=utc_now`), in the microsecond of the last flush or later.
Flush(c) ==
    /\ flushed[c] = 0
    /\ clock' \in {now \in 1..LastTick : now = clock \/ now = clock + 1}
    /\ flushed' = [flushed EXCEPT ![c] = clock']
    /\ UNCHANGED <<stamped, cursor, seen, late, tied>>

CommitCard(c) ==
    /\ flushed[c] # 0
    /\ stamped' = [stamped EXCEPT ![c] = flushed[c]]
    /\ late' = IF flushed[c] <= cursor THEN late \cup {c} ELSE late \ {c}
    /\ tied' = tied \ {c}
    /\ flushed' = [flushed EXCEPT ![c] = 0]
    /\ UNCHANGED <<clock, cursor, seen>>

RollBackCard(c) ==
    /\ flushed[c] # 0
    /\ flushed' = [flushed EXCEPT ![c] = 0]
    /\ UNCHANGED <<clock, stamped, cursor, seen, late, tied>>

\* `Card.updated_at > updated_since`
After(since) == {c \in FeedCards : stamped[c] > since}

\* Mutant: the page is not ordered by updated_at.
AnyPage(since) ==
    CHOOSE page \in SUBSET After(since) :
        Cardinality(page) = IF Cardinality(After(since)) < PageSize THEN Cardinality(After(since)) ELSE PageSize

\* `order_by(Card.updated_at.asc(), Card.id)`
Before(d, c) == stamped[d] < stamped[c] \/ (stamped[d] = stamped[c] /\ d < c)

\* The page: the first cards in that order, as many as the limit allows.
Page(since) ==
    {c \in After(since) : Cardinality({d \in After(since) : Before(d, c)}) < PageSize}

\* One request of the client, which goes on from the page's sync_cursor: the stamp
\* of the last card, or the cursor it came with if the page is empty.
Poll ==
    LET page == Page(cursor) IN
    /\ seen' = [c \in FeedCards |-> IF c \in page THEN stamped[c] ELSE seen[c]]
    /\ cursor' = IF page = {} THEN cursor
                 ELSE CHOOSE s \in {stamped[c] : c \in page} : \A c \in page : stamped[c] <= s
    /\ tied' = tied \cup {c \in After(cursor) \ page : \E d \in page : stamped[d] = stamped[c]}
    /\ UNCHANGED <<clock, stamped, flushed, late>>

FeedNext ==
    \/ \E c \in FeedCards : Flush(c) \/ CommitCard(c) \/ RollBackCard(c)
    \/ Poll

FeedSpec == FeedInit /\ [][FeedNext]_feedVars

-----------------------------------------------------------------------------

\* list_cards and its cursor: a change behind the cursor that the client does not have
\* was committed after the cursor had passed its stamp, or was cut off by the limit
\* from a page that ended within one microsecond; nothing else is lost, whatever the
\* size of the pages.  (Both losses are the code's: the cursor takes no account of
\* transactions that are still open, nor of the id the page was ordered by.)
MissesOnlyLateOrTied ==
    \A c \in FeedCards : stamped[c] <= cursor /\ seen[c] # stamped[c] => c \in late \cup tied

=============================================================================
