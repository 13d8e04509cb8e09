---------------------------- MODULE LibraryProofs ---------------------------
(***************************************************************************)
(* Theorems about six of the parts that MCLibrary bundles: sign-ins that   *)
(* race make one user (Accounts), what a client misses was committed       *)
(* behind its cursor or tied at the end of a page (CardFeed), no window of *)
(* the rate limiter has more calls in it than the limit allows, but for    *)
(* those that were overtaken                                               *)
(* (RateLimiter), a pack shows one edition, whole, while marks are what    *)
(* their devices are told (Discovery), a card's metadata is right or       *)
(* explained (Lexicon), and the reports of the reviews tell one story      *)
(* (ReviewReports).  The parts share no state.                             *)
(***************************************************************************)
EXTENDS Accounts, CardFeed, Discovery, RateLimiter, Lexicon, ReviewReports,
        SequenceTheorems, FiniteSetTheorems, NaturalsInduction, TLAPS

-----------------------------------------------------------------------------
(* Sign-in.                                                                *)

Versions == Nat \cup {NoUser}

Standings == {"start", "write", "token", "revoke", "answered", "failed", "refused"}

AccountTyped ==
    /\ tokenVersion \in Versions
    /\ readVersion \in [Callers -> Versions]
    /\ standing \in [Callers -> Standings]
    /\ newUser \subseteq Logins
    /\ issued \subseteq Nat

\* There is a row as soon as a call has found one or has a token to write, and a
\* sign-in that failed met one.
RowIsThere ==
    \A c \in Callers :
        \/ readVersion[c] # NoUser
        \/ standing[c] \in {"token", "failed", "revoke"}
        => tokenVersion # NoUser

\* Only sign-ins write and fetch tokens, and a sign-out has read the row it writes.
EachItsOwn ==
    \A c \in Callers :
        /\ standing[c] \in {"write", "token"} => c \in Logins
        /\ standing[c] = "revoke" => readVersion[c] # NoUser

\* The row was made by one sign-in, which has gone on since.
OneMaker ==
    /\ tokenVersion = NoUser => newUser = {}
    /\ tokenVersion # NoUser => \E c \in Logins : newUser = {c} /\ standing[c] \in {"token", "answered"}

AccountInv == AccountTyped /\ RowIsThere /\ EachItsOwn /\ OneMaker

-----------------------------------------------------------------------------

\* The invariant implies the property.
LEMMA OneMakerIsEnough == AccountInv => OneNewUser
<1> SUFFICES ASSUME AccountInv PROVE OneNewUser
  OBVIOUS
<1> USE DEF AccountInv
<1>1. CASE tokenVersion = NoUser
  <2>1. newUser = {} /\ Cardinality(newUser) = 0
    BY <1>1, FS_EmptySet DEF OneMaker
  <2>2. \A c \in Logins : standing[c] # "failed"
    BY <1>1 DEF RowIsThere, Callers
  <2> QED
    BY <1>1, <2>1, <2>2 DEF OneNewUser
<1>2. CASE tokenVersion # NoUser
  <2>1. PICK c \in Logins : newUser = {c} /\ standing[c] \in {"token", "answered"}
    BY <1>2 DEF OneMaker
  <2>2. Cardinality(newUser) = 1
    BY <2>1, FS_Singleton
  <2> QED
    BY <2>1, <2>2 DEF OneNewUser
<1> QED
  BY <1>1, <1>2

\* The initial state satisfies the invariant.
LEMMA AccountStarts == AccountInit => AccountInv
<1> SUFFICES ASSUME AccountInit PROVE AccountInv
  OBVIOUS
<1> USE DEF AccountInit
<1>1. AccountTyped
  BY DEF AccountTyped, Versions, Standings
<1>2. RowIsThere /\ EachItsOwn
  BY DEF RowIsThere, EachItsOwn
<1>3. OneMaker
  BY DEF OneMaker
<1> QED
  BY <1>1, <1>2, <1>3 DEF AccountInv

\* A sign-in that is refused or looks for its user.
LEMMA SignInKeeps == ASSUME AccountInv, NEW c \in Callers, SignIn(c) PROVE AccountInv'
<1> USE DEF AccountInv, AccountTyped
<1>1. /\ c \in Logins /\ standing[c] = "start"
      /\ UNCHANGED <<tokenVersion, newUser, issued>>
      /\ standing' = [standing EXCEPT ![c] = "refused"] \/ standing' = [standing EXCEPT ![c] = "write"]
      /\ readVersion' = readVersion \/ readVersion' = [readVersion EXCEPT ![c] = tokenVersion]
  BY DEF SignIn, StandTo
<1>2. AccountTyped'
  BY <1>1 DEF Standings
<1>3. RowIsThere'
  BY <1>1 DEF RowIsThere
<1>4. EachItsOwn'
  BY <1>1 DEF EachItsOwn
<1>5. OneMaker'
  BY <1>1 DEF OneMaker, Callers
<1> QED
  BY <1>2, <1>3, <1>4, <1>5

\* The insert makes the user once; the update and the lost race leave it alone.
LEMMA WriteUserKeeps == ASSUME AccountInv, NEW c \in Callers, WriteUser(c) PROVE AccountInv'
<1> USE DEF AccountInv, AccountTyped
<1>1. /\ standing[c] = "write" /\ c \in Logins
      /\ UNCHANGED <<readVersion, issued>>
  BY DEF WriteUser, EachItsOwn
<1>2. CASE /\ UNCHANGED <<tokenVersion, newUser>> /\ tokenVersion # NoUser
           /\ standing' = [standing EXCEPT ![c] = "token"] \/ standing' = [standing EXCEPT ![c] = "failed"]
  <2>1. AccountTyped'
    BY <1>1, <1>2 DEF Standings
  <2>2. RowIsThere'
    BY <1>1, <1>2 DEF RowIsThere
  <2>3. EachItsOwn'
    BY <1>1, <1>2 DEF EachItsOwn
  <2>4. OneMaker'
    BY <1>1, <1>2 DEF OneMaker, Callers
  <2> QED
    BY <2>1, <2>2, <2>3, <2>4
<1>3. CASE /\ tokenVersion = NoUser /\ tokenVersion' = 0 /\ newUser' = newUser \cup {c}
           /\ standing' = [standing EXCEPT ![c] = "token"]
  <2>1. AccountTyped'
    BY <1>1, <1>3 DEF Standings, Versions
  <2>2. tokenVersion' # NoUser
    BY <1>3 DEF NoUser
  <2>3. RowIsThere'
    BY <1>1, <2>2 DEF RowIsThere
  <2>4. EachItsOwn'
    BY <1>1, <1>3 DEF EachItsOwn
  <2>5. newUser' = {c} /\ standing'[c] = "token"
    BY <1>3 DEF OneMaker
  <2>6. OneMaker'
    BY <1>1, <2>2, <2>5 DEF OneMaker
  <2> QED
    BY <2>1, <2>3, <2>4, <2>6
<1> QED
  BY <1>1, <1>2, <1>3 DEF WriteUser, StandTo, RowIsThere

\* A sign-in goes on to its answer.
LEMMA IssueTokenKeeps == ASSUME AccountInv, NEW c \in Callers, IssueToken(c) PROVE AccountInv'
<1> USE DEF AccountInv, AccountTyped
<1>1. /\ standing[c] = "token" /\ standing' = [standing EXCEPT ![c] = "answered"]
      /\ UNCHANGED <<tokenVersion, readVersion, newUser>> /\ issued' = issued \cup {tokenVersion}
  BY DEF IssueToken, StandTo
<1>2. tokenVersion \in Nat
  BY <1>1 DEF RowIsThere, Versions
<1>3. AccountTyped'
  BY <1>1, <1>2 DEF Standings
<1>4. RowIsThere'
  BY <1>1 DEF RowIsThere
<1>5. EachItsOwn'
  BY <1>1 DEF EachItsOwn
<1>6. OneMaker'
  BY <1>1 DEF OneMaker, Callers
<1> QED
  BY <1>3, <1>4, <1>5, <1>6

\* A token was issued, so there is a row; the caller is no sign-in.
LEMMA AuthenticateKeeps == ASSUME AccountInv, NEW c \in Callers, Authenticate(c) PROVE AccountInv'
<1> USE DEF AccountInv, AccountTyped
<1>1. PICK label \in {"refused", "revoke", "answered"} :
      /\ standing[c] = "start" /\ standing' = [standing EXCEPT ![c] = label]
      /\ label = "revoke" => tokenVersion \in issued
      /\ UNCHANGED <<tokenVersion, newUser, issued>>
      /\ readVersion' = [readVersion EXCEPT ![c] = tokenVersion]
  BY DEF Authenticate, StandTo
<1>2. label = "revoke" => tokenVersion # NoUser
  BY <1>1 DEF NoUser
<1>3. AccountTyped'
  BY <1>1 DEF Standings
<1>4. RowIsThere'
  BY <1>1, <1>2 DEF RowIsThere
<1>5. EachItsOwn'
  BY <1>1, <1>2 DEF EachItsOwn
<1>6. OneMaker'
  BY <1>1 DEF OneMaker, Callers
<1> QED
  BY <1>3, <1>4, <1>5, <1>6

\* A sign-out writes a version of the row that is there.
LEMMA RevokeKeeps == ASSUME AccountInv, NEW c \in Callers, Revoke(c) PROVE AccountInv'
<1> USE DEF AccountInv, AccountTyped
<1>1. /\ standing[c] = "revoke" /\ standing' = [standing EXCEPT ![c] = "answered"]
      /\ UNCHANGED <<readVersion, newUser, issued>> /\ tokenVersion' = readVersion[c] + 1
  BY DEF Revoke, StandTo
<1>2. readVersion[c] \in Nat /\ tokenVersion # NoUser
  BY <1>1 DEF RowIsThere, EachItsOwn, Versions
<1>3. tokenVersion' \in Nat /\ tokenVersion' # NoUser
  BY <1>1, <1>2 DEF NoUser
<1>4. AccountTyped'
  BY <1>1, <1>3 DEF Standings, Versions
<1>5. RowIsThere'
  BY <1>1, <1>3 DEF RowIsThere
<1>6. EachItsOwn'
  BY <1>1 DEF EachItsOwn
<1>7. OneMaker'
  BY <1>1, <1>2, <1>3 DEF OneMaker, Callers
<1> QED
  BY <1>4, <1>5, <1>6, <1>7

\* Every step keeps the invariant.
LEMMA AccountKeeps == AccountInv /\ [AccountNext]_accountVars => AccountInv'
<1> SUFFICES ASSUME AccountInv, [AccountNext]_accountVars PROVE AccountInv'
  OBVIOUS
<1>1. CASE Deactivate
  BY <1>1 DEF Deactivate, AccountInv, AccountTyped, RowIsThere, EachItsOwn, OneMaker
<1>2. CASE UNCHANGED accountVars
  BY <1>2 DEF accountVars, AccountInv, AccountTyped, RowIsThere, EachItsOwn, OneMaker
<1> QED
  BY <1>1, <1>2, SignInKeeps, WriteUserKeeps, IssueTokenKeeps, AuthenticateKeeps, RevokeKeeps DEF AccountNext

\* wechat_login: for any number of sign-ins, sign-outs and other calls in any order of
\* their statements, one sign-in makes the user, one is told it is new, and one fails
\* only because another made it meanwhile.
THEOREM OneUserPerOpenid == AccountSpec => []OneNewUser
<1> QED
  BY AccountStarts, AccountKeeps, OneMakerIsEnough, PTL DEF AccountSpec

-----------------------------------------------------------------------------
(* The incremental card list.                                              *)

\* Stamps are taken from the clock, so none lies ahead of it.
FeedTyped ==
    /\ clock \in Nat /\ cursor \in Nat
    /\ stamped \in [FeedCards -> Nat]
    /\ flushed \in [FeedCards -> Nat]
    /\ seen \in [FeedCards -> Nat]
    /\ \A c \in FeedCards : stamped[c] <= clock /\ flushed[c] <= clock

FeedInv == FeedTyped /\ MissesOnlyLateOrTied

-----------------------------------------------------------------------------

\* A non-empty set of numbers below a bound has a greatest element, so that the
\* cursor of a page is the stamp of its last card.
LEMMA GreatestExists ==
    ASSUME NEW S \in SUBSET Nat, S # {}, NEW bound \in Nat, \A s \in S : s <= bound
    PROVE  \E m \in S : \A s \in S : s <= m
<1> DEFINE Above == {u \in Nat : \A s \in S : s <= u}
<1>1. Above \subseteq Nat /\ bound \in Above
  OBVIOUS
<1>2. PICK u \in Above : \A v \in Above : ~(<<v, u>> \in OpToRel(<, Nat))
  BY <1>1, NatLessThanWellFounded, WFMin, Zenon
<1>3. u \in Nat /\ \A s \in S : s <= u
  OBVIOUS
<1>4. \A v \in Above : ~(v < u)
  BY <1>2, <1>3 DEF OpToRel
<1>5. u \in S
  <2> SUFFICES ASSUME u \notin S PROVE FALSE
    OBVIOUS
  <2>1. PICK s \in S : TRUE
    OBVIOUS
  <2>2. s \in Nat /\ s < u
    BY <1>3, <2>1
  <2>3. u - 1 \in Nat
    BY <1>3, <2>2
  <2>4. \A t \in S : t <= u - 1
    BY <1>3
  <2> QED
    BY <1>3, <1>4, <2>3, <2>4
<1> QED
  BY <1>3, <1>5

\* A card that is not on the page is not older than one that is.
LEMMA PageIsOldest ==
    ASSUME FeedTyped, NEW c \in After(cursor), c \notin Page(cursor), NEW p \in Page(cursor)
    PROVE  stamped[p] <= stamped[c]
<1> DEFINE Older(d) == {e \in After(cursor) : Before(e, d)}
<1>1. p \in After(cursor) /\ Cardinality(Older(p)) < PageSize
  BY DEF Page
<1>2. ~(Cardinality(Older(c)) < PageSize)
  BY DEF Page
<1>3. After(cursor) \subseteq FeedCards
  BY DEF After
<1>4. IsFiniteSet(Older(p)) /\ IsFiniteSet(Older(c))
  BY <1>3, FS_Subset, FeedAssumption
<1>5. stamped[p] \in Nat /\ stamped[c] \in Nat
  BY <1>1, <1>3 DEF FeedTyped
<1>6. ASSUME stamped[c] < stamped[p] PROVE FALSE
  <2>1. Older(c) \subseteq Older(p)
    BY <1>3, <1>5, <1>6 DEF FeedTyped, Before
  <2>2. Cardinality(Older(c)) <= Cardinality(Older(p))
    BY <2>1, <1>4, FS_Subset
  <2>3. Cardinality(Older(c)) \in Nat /\ Cardinality(Older(p)) \in Nat
    BY <1>4, FS_CardinalityType
  <2> QED
    BY <1>1, <1>2, <2>2, <2>3, FeedAssumption
<1> QED
  BY <1>5, <1>6

-----------------------------------------------------------------------------

\* The initial state satisfies the invariant.
LEMMA FeedStarts == FeedInit => FeedInv
BY DEF FeedInit, FeedInv, FeedTyped, MissesOnlyLateOrTied

\* A commit puts its card either ahead of the cursor or among the late ones.
LEMMA CommitKeeps == ASSUME FeedInv, NEW c \in FeedCards, CommitCard(c) PROVE FeedInv'
<1>1. FeedTyped'
  BY DEF FeedInv, FeedTyped, CommitCard
<1>2. MissesOnlyLateOrTied'
  <2> SUFFICES ASSUME NEW d \in FeedCards, stamped'[d] <= cursor', seen'[d] # stamped'[d]
               PROVE  d \in late' \cup tied'
    BY DEF MissesOnlyLateOrTied
  <2>1. CASE d = c
    BY <2>1 DEF FeedInv, FeedTyped, CommitCard
  <2>2. CASE d # c
    BY <2>2 DEF FeedInv, FeedTyped, CommitCard, MissesOnlyLateOrTied
  <2> QED
    BY <2>1, <2>2
<1> QED
  BY <1>1, <1>2 DEF FeedInv

\* A page passes over no card that is ahead of the old cursor, unless it ends in its
\* microsecond.
LEMMA PollKeeps == ASSUME FeedInv, Poll PROVE FeedInv'
<1> USE DEF FeedInv
<1> DEFINE page == Page(cursor)
           stamps == {stamped[c] : c \in page}
<1>1. page \subseteq FeedCards
  BY DEF Page, After
<1>2. seen' \in [FeedCards -> Nat] /\ UNCHANGED <<clock, stamped, flushed, late>>
  BY <1>1 DEF Poll, FeedTyped
<1>3. CASE page = {}
  <2>1. cursor' = cursor /\ tied' = tied /\ \A c \in FeedCards : seen'[c] = seen[c]
    BY <1>3 DEF Poll
  <2> QED
    BY <2>1, <1>2 DEF FeedTyped, MissesOnlyLateOrTied
<1>4. CASE page # {}
  <2>1. stamps \in SUBSET Nat /\ stamps # {} /\ \A s \in stamps : s <= clock
    BY <1>1, <1>4 DEF FeedTyped
  <2>2. \E m \in stamps : \A s \in stamps : s <= m
    BY <2>1, GreatestExists DEF FeedTyped
  <2>3. cursor' = CHOOSE s \in stamps : \A c \in page : stamped[c] <= s
    BY <1>4 DEF Poll
  <2>4. \E m \in stamps : \A c \in page : stamped[c] <= m
    BY <2>2
  <2>5. cursor' \in stamps
    BY <2>3, <2>4
  <2>6. PICK p \in page : cursor' = stamped[p]
    BY <2>5
  <2>7. FeedTyped'
    BY <1>2, <2>1, <2>5 DEF FeedTyped
  <2>8. ASSUME NEW c \in FeedCards, stamped[c] <= cursor', seen'[c] # stamped[c]
        PROVE  c \in late \cup tied'
    <3>1. c \notin page /\ seen'[c] = seen[c]
      BY <2>8 DEF Poll
    <3>2. CASE stamped[c] <= cursor
      BY <3>1, <3>2, <2>8 DEF MissesOnlyLateOrTied, Poll
    <3>3. CASE ~(stamped[c] <= cursor)
      <4>1. c \in After(cursor)
        BY <3>3 DEF After, FeedTyped
      <4>2. stamped[p] <= stamped[c]
        BY <4>1, <3>1, PageIsOldest
      <4>3. stamped[p] \in Nat /\ stamped[c] \in Nat
        BY <1>1 DEF FeedTyped
      <4>4. stamped[p] = stamped[c]
        BY <4>2, <4>3, <2>6, <2>8
      <4> QED
        BY <4>1, <4>4, <3>1 DEF Poll
    <3> QED
      BY <3>2, <3>3
  <2>9. MissesOnlyLateOrTied'
    BY <2>8, <1>2 DEF MissesOnlyLateOrTied
  <2> QED
    BY <2>7, <2>9
<1> QED
  BY <1>3, <1>4

\* Every step keeps the invariant.
LEMMA FeedKeeps == FeedInv /\ [FeedNext]_feedVars => FeedInv'
<1> SUFFICES ASSUME FeedInv, [FeedNext]_feedVars PROVE FeedInv'
  OBVIOUS
<1>1. ASSUME NEW c \in FeedCards, Flush(c) PROVE FeedInv'
  BY <1>1, FeedAssumption DEF FeedInv, FeedTyped, Flush, MissesOnlyLateOrTied
<1>2. ASSUME NEW c \in FeedCards, RollBackCard(c) PROVE FeedInv'
  BY <1>2 DEF FeedInv, FeedTyped, RollBackCard, MissesOnlyLateOrTied
<1>3. CASE UNCHANGED feedVars
  BY <1>3 DEF FeedInv, FeedTyped, feedVars, MissesOnlyLateOrTied
<1> QED
  BY <1>1, <1>2, <1>3, CommitKeeps, PollKeeps DEF FeedNext

\* list_cards with updated_since: for any number of cards, pages of any size and any
\* interleaving of commits and polls, a change that lies behind the client's cursor
\* and that the client does not have was committed after the cursor had passed it, or
\* carries the very stamp in which the limit ended a page.
THEOREM ClientMissesOnlyLateOrTied == FeedSpec => []MissesOnlyLateOrTied
<1>1. FeedInv => MissesOnlyLateOrTied
  BY DEF FeedInv
<1> QED
  BY <1>1, FeedStarts, FeedKeeps, PTL DEF FeedSpec

-----------------------------------------------------------------------------
(* The rate limiter.  The queue forgets which call a stamp is from, and        *)
(* overtaken calls put their stamps out of order.  What holds is that a        *)
(* granted call whose window no checked call has left behind still has an      *)
(* entry of its own.                                                           *)

Checked(c) == verdict[c] # "waiting"

LimiterTyped ==
    /\ time \in Nat
    /\ stamp \in [Calls -> Nat \cup {NotYet}]
    /\ verdict \in [Calls -> {"waiting", "granted", "refused"}]
    /\ events \in Seq(Nat)
    /\ overtaken \subseteq Calls
    /\ \A c \in Calls : Checked(c) => stamp[c] # NotYet
    /\ \A c \in overtaken : Checked(c)

\* The granted calls that no checked call can have thrown out.
Live == {c \in Calls : verdict[c] = "granted" /\ \A d \in Calls : Checked(d) => stamp[d] < stamp[c] + Window}

IsPlacement(place) ==
    /\ \A c \in Live : place[c] \in 1..Len(events) /\ events[place[c]] = stamp[c]
    /\ \A c, d \in Live : c # d => place[c] # place[d]

LiveArePlaced == \E place \in [Calls -> Int] : IsPlacement(place)

\* The calls that count in the window from a second on.
Counted(from) == {c \in Calls : verdict[c] = "granted" /\ stamp[c] \in from..(from + Window - 1)} \ overtaken

LimiterInv == LimiterTyped /\ LiveArePlaced /\ WindowNeverOverrun

-----------------------------------------------------------------------------

LEMMA AllowedIsPositive == Allowed \in Nat /\ Allowed >= 1
BY LimiterAssumption DEF Allowed

\* WindowNeverOverrun in terms of Counted.
LEMMA CountedBounds ==
    WindowNeverOverrun <=> \A from \in 0..LastSecond : Cardinality(Counted(from)) <= Allowed
BY DEF WindowNeverOverrun, Counted

\* A non-empty set of numbers has a least element.
LEMMA LeastExists == ASSUME NEW S \in SUBSET Nat, S # {} PROVE \E m \in S : \A s \in S : m <= s
<1>1. PICK m \in S : \A s \in S : ~(<<s, m>> \in OpToRel(<, Nat))
  BY NatLessThanWellFounded, WFMin, Zenon
<1>2. \A s \in S : ~(s < m)
  BY <1>1 DEF OpToRel
<1> QED
  BY <1>2

\* What DropExpired leaves is a tail of the queue, with all that has not expired.
LEMMA DropKeeps ==
    ASSUME NEW queue \in Seq(Nat), NEW now \in Nat
    PROVE  \E first \in 1..(Len(queue) + 1) :
              /\ DropExpired(queue, now) \in Seq(Nat)
              /\ Len(DropExpired(queue, now)) = Len(queue) - first + 1
              /\ \A k \in first..Len(queue) : DropExpired(queue, now)[k - first + 1] = queue[k]
              /\ \A k \in 1..Len(queue) : queue[k] > now - Window => first <= k
<1> DEFINE kept == {k \in DOMAIN queue : queue[k] > now - Window}
           first == IF kept = {} THEN Len(queue) + 1 ELSE CHOOSE k \in kept : \A l \in kept : k <= l
<1>1. DOMAIN queue = 1..Len(queue) /\ Len(queue) \in Nat
  OBVIOUS
<1>2. first \in 1..(Len(queue) + 1) /\ \A k \in kept : first <= k
  <2>1. CASE kept = {}
    BY <1>1, <2>1
  <2>2. CASE kept # {}
    <3>1. kept \in SUBSET Nat
      BY <1>1
    <3>2. \E k \in kept : \A l \in kept : k <= l
      BY <2>2, <3>1, LeastExists
    <3> DEFINE least == CHOOSE k \in kept : \A l \in kept : k <= l
    <3>3. least \in kept /\ \A l \in kept : least <= l
      BY <3>2
    <3>4. first = least
      BY <2>2
    <3> HIDE DEF least, first
    <3> QED
      BY <1>1, <3>3, <3>4
  <2> QED
    BY <2>1, <2>2
<1>3. DropExpired(queue, now) = SubSeq(queue, first, Len(queue))
  BY DEF DropExpired
<1> HIDE DEF first
<1>4. \A i \in first..Len(queue) : queue[i] \in Nat
  BY <1>1, <1>2
<1>5. /\ SubSeq(queue, first, Len(queue)) \in Seq(Nat)
      /\ Len(SubSeq(queue, first, Len(queue))) = IF first <= Len(queue) THEN Len(queue) - first + 1 ELSE 0
      /\ \A i \in 1..(Len(queue) - first + 1) : SubSeq(queue, first, Len(queue))[i] = queue[first + i - 1]
  BY <1>1, <1>2, <1>4, SubSeqProperties
<1>6. \A k \in first..Len(queue) : SubSeq(queue, first, Len(queue))[k - first + 1] = queue[k]
  <2> TAKE k \in first..Len(queue)
  <2>1. k - first + 1 \in 1..(Len(queue) - first + 1) /\ first + (k - first + 1) - 1 = k
    BY <1>1, <1>2
  <2> QED
    BY <2>1, <1>5
<1>7. Len(SubSeq(queue, first, Len(queue))) = Len(queue) - first + 1
  BY <1>1, <1>2, <1>5
<1>8. \A k \in 1..Len(queue) : queue[k] > now - Window => first <= k
  BY <1>1, <1>2
<1> QED
  BY <1>2, <1>3, <1>5, <1>6, <1>7, <1>8

\* Counted calls are granted and not overtaken, of which there are finitely many.
LEMMA CountedIsFinite == ASSUME NEW from \in 0..LastSecond PROVE IsFiniteSet(Counted(from)) /\ Cardinality(Counted(from)) \in Nat
BY LimiterAssumption, FS_Subset, FS_CardinalityType DEF Counted

-----------------------------------------------------------------------------

\* The initial state satisfies the invariant.
LEMMA LimiterStarts == LimiterInit => LimiterInv
<1> SUFFICES ASSUME LimiterInit PROVE LimiterInv
  OBVIOUS
<1>1. LimiterTyped
  BY DEF LimiterInit, LimiterTyped, Checked
<1>2. Live = {}
  BY DEF LimiterInit, Live
<1>3. LiveArePlaced
  <2>1. [c \in Calls |-> 0] \in [Calls -> Int]
    OBVIOUS
  <2>2. IsPlacement([c \in Calls |-> 0])
    BY <1>2 DEF IsPlacement
  <2> QED
    BY <2>1, <2>2 DEF LiveArePlaced
<1>4. \A from \in 0..LastSecond : Counted(from) = {}
  BY DEF LimiterInit, Counted
<1>5. WindowNeverOverrun
  BY <1>4, CountedBounds, FS_EmptySet, AllowedIsPositive
<1> QED
  BY <1>1, <1>3, <1>5 DEF LimiterInv

\* Whoever has not been checked plays no part.
LEMMA ReadClockKeeps == ASSUME LimiterInv, NEW c \in Calls, ReadClock(c) PROVE LimiterInv'
<1> USE DEF LimiterInv
<1>1. /\ ~Checked(c) /\ stamp[c] = NotYet /\ stamp' = [stamp EXCEPT ![c] = time]
      /\ UNCHANGED <<time, verdict, events, overtaken>>
  BY DEF ReadClock, LimiterTyped
<1>2. \A d \in Calls : (Checked(d) <=> Checked(d)') /\ (Checked(d) => stamp'[d] = stamp[d])
  BY <1>1 DEF Checked, LimiterTyped
<1>3. LimiterTyped'
  BY <1>1, <1>2 DEF LimiterTyped, NotYet, Checked
<1>4. \A d \in Calls : verdict[d] = "granted" => stamp'[d] = stamp[d]
  BY <1>2 DEF Checked
<1>5. Live' = Live
  BY <1>1, <1>2, <1>4 DEF Live
<1>6. LiveArePlaced'
  <2>1. PICK place \in [Calls -> Int] : IsPlacement(place)
    BY DEF LiveArePlaced
  <2>2. IsPlacement(place)'
    BY <2>1, <1>1, <1>4, <1>5 DEF IsPlacement, Live
  <2> QED
    BY <2>2 DEF LiveArePlaced
<1>7. \A from \in 0..LastSecond : Counted(from)' = Counted(from)
  BY <1>1, <1>4 DEF Counted
<1>8. WindowNeverOverrun'
  <2>1. \A from \in 0..LastSecond : Cardinality(Counted(from)) <= Allowed
    BY CountedBounds
  <2>2. \A from \in 0..LastSecond : Cardinality(Counted(from)') <= Allowed
    BY <2>1, <1>7
  <2> QED
    BY <2>2 DEF WindowNeverOverrun, Counted
<1> QED
  BY <1>3, <1>6, <1>8

\* A check leaves every live call its entry: what it drops is out of the window of
\* everyone that is live after it.
LEMMA CheckKeepsPlaces == ASSUME LimiterInv, NEW c \in Calls, Check(c) PROVE LimiterTyped' /\ LiveArePlaced'
<1> USE DEF LimiterInv
<1> DEFINE left == DropExpired(events, stamp[c])
<1>1. stamp[c] \in Nat /\ ~Checked(c)
  BY DEF Check, LimiterTyped, Checked, NotYet
<1>2. PICK first \in 1..(Len(events) + 1) :
         /\ left \in Seq(Nat)
         /\ Len(left) = Len(events) - first + 1
         /\ \A k \in first..Len(events) : left[k - first + 1] = events[k]
         /\ \A k \in 1..Len(events) : events[k] > stamp[c] - Window => first <= k
  BY <1>1, DropKeeps DEF LimiterTyped
<1>3. \/ verdict' = [verdict EXCEPT ![c] = "refused"] /\ events' = left
      \/ verdict' = [verdict EXCEPT ![c] = "granted"] /\ events' = Append(left, stamp[c])
  BY DEF Check
<1>4. stamp' = stamp /\ time' = time /\ overtaken' \in {overtaken, overtaken \cup {c}}
  BY DEF Check
<1> HIDE DEF left
<1>5. LimiterTyped'
  <2>1. verdict' \in [Calls -> {"waiting", "granted", "refused"}]
    BY <1>3 DEF LimiterTyped
  <2>2. events' \in Seq(Nat)
    <3>1. left \in Seq(Nat) /\ stamp[c] \in Nat
      BY <1>1, <1>2
    <3>2. Append(left, stamp[c]) \in Seq(Nat)
      BY <3>1, AppendProperties
    <3> QED
      BY <3>1, <3>2, <1>3
  <2>3. \A d \in Calls : Checked(d)' <=> Checked(d) \/ d = c
    BY <1>3 DEF Checked, LimiterTyped
  <2> QED
    BY <1>1, <1>4, <2>1, <2>2, <2>3 DEF LimiterTyped, NotYet
<1>6. PICK place \in [Calls -> Int] : IsPlacement(place)
  BY DEF LiveArePlaced
<1> DEFINE later == [d \in Calls |-> IF d = c THEN Len(left) + 1 ELSE place[d] - first + 1]
<1>7. PICK shifted \in [Calls -> Int] :
         shifted[c] = Len(left) + 1 /\ \A d \in Calls \ {c} : shifted[d] = place[d] - first + 1
  <2>1. later \in [Calls -> Int] /\ later[c] = Len(left) + 1 /\ \A d \in Calls \ {c} : later[d] = place[d] - first + 1
    BY <1>2
  <2> HIDE DEF later
  <2> QED
    BY <2>1
<1>8. \A d \in Live' : d # c => d \in Live /\ stamp[d] \in Nat /\ stamp[c] < stamp[d] + Window
  <2> SUFFICES ASSUME NEW d \in Live', d # c PROVE d \in Live /\ stamp[d] \in Nat /\ stamp[c] < stamp[d] + Window
    OBVIOUS
  <2>1. d \in Calls /\ verdict[d] = "granted"
    BY <1>3 DEF Live, LimiterTyped
  <2>2. stamp[d] \in Nat
    BY <2>1 DEF LimiterTyped, Checked, NotYet
  <2>3. \A e \in Calls : Checked(e) \/ e = c => Checked(e)'
    BY <1>3 DEF Checked, LimiterTyped
  <2>4. \A e \in Calls : Checked(e) \/ e = c => stamp[e] < stamp[d] + Window
    BY <1>4, <2>3 DEF Live
  <2> QED
    BY <2>1, <2>2, <2>4 DEF Live
<1>9. \A d \in Live' : d # c =>
        /\ shifted[d] \in 1..Len(left)
        /\ left[shifted[d]] = stamp[d]
  <2> SUFFICES ASSUME NEW d \in Live', d # c PROVE shifted[d] \in 1..Len(left) /\ left[shifted[d]] = stamp[d]
    OBVIOUS
  <2>1. d \in Calls /\ place[d] \in 1..Len(events) /\ events[place[d]] = stamp[d]
    BY <1>6, <1>8 DEF IsPlacement, Live
  <2>2. stamp[d] > stamp[c] - Window
    BY <1>1, <1>8, LimiterAssumption
  <2>3. place[d] \in first..Len(events)
    BY <1>2, <2>1, <2>2
  <2>4. shifted[d] = place[d] - first + 1
    BY <1>7, <2>1
  <2> QED
    BY <1>2, <2>1, <2>3, <2>4
<1>10. IsPlacement(shifted)'
  <2>1. Len(left) \in Nat /\ Live' \subseteq Calls
    BY <1>2 DEF Live
  <2>2. ASSUME NEW d \in Live' PROVE shifted[d] \in 1..Len(events') /\ events'[shifted[d]] = stamp'[d]
    <3>1. CASE events' = left /\ verdict' = [verdict EXCEPT ![c] = "refused"]
      <4>1. d # c
        BY <3>1 DEF Live, LimiterTyped
      <4> QED
        BY <3>1, <4>1, <1>4, <1>9
    <3>2. CASE events' = Append(left, stamp[c])
      <4>0. left \in Seq(Nat) /\ stamp[c] \in Nat
        BY <1>1, <1>2
      <4>1. Len(events') = Len(left) + 1 /\ events'[Len(left) + 1] = stamp[c]
        BY <3>2, <4>0, AppendProperties
      <4>2. \A k \in 1..Len(left) : events'[k] = left[k]
        BY <3>2, <4>0, AppendProperties
      <4>3. CASE d = c
        BY <4>1, <4>3, <2>1, <1>4, <1>7
      <4>4. CASE d # c
        <5>1. shifted[d] \in 1..Len(left) /\ left[shifted[d]] = stamp[d]
          BY <4>4, <1>9
        <5> QED
          BY <5>1, <4>1, <4>2, <2>1, <1>4
      <4> QED
        BY <4>3, <4>4
    <3> QED
      BY <3>1, <3>2, <1>3
  <2>3. ASSUME NEW d \in Live', NEW e \in Live', d # e PROVE shifted[d] # shifted[e]
    <3>1. CASE d = c
      BY <3>1, <2>1, <2>3, <1>7, <1>9
    <3>2. CASE e = c
      BY <3>2, <2>1, <2>3, <1>7, <1>9
    <3>3. CASE d # c /\ e # c
      <4>1. d \in Live /\ e \in Live
        BY <3>3, <1>8
      <4>2. place[d] # place[e] /\ place[d] \in Int /\ place[e] \in Int
        BY <4>1, <2>1, <2>3, <1>6 DEF IsPlacement
      <4> QED
        BY <3>3, <4>2, <2>1, <1>2, <1>7
    <3> QED
      BY <3>1, <3>2, <3>3
  <2> QED
    BY <2>2, <2>3 DEF IsPlacement
<1>11. LiveArePlaced'
  BY <1>7, <1>10 DEF LiveArePlaced
<1> QED
  BY <1>5, <1>11

\* A call that is granted without having been overtaken finds all the calls of its
\* windows in the queue, fewer than the limit.
LEMMA CheckKeepsWindows == ASSUME LimiterInv, NEW c \in Calls, Check(c) PROVE WindowNeverOverrun'
<1> USE DEF LimiterInv
<1> DEFINE left == DropExpired(events, stamp[c])
<1> SUFFICES ASSUME NEW from \in 0..LastSecond PROVE Cardinality(Counted(from)') <= Allowed
  BY DEF WindowNeverOverrun, Counted
<1>1. /\ stamp[c] \in Nat /\ ~Checked(c) /\ stamp' = stamp
      /\ overtaken \subseteq overtaken'
      /\ \A d \in Calls : d # c => verdict'[d] = verdict[d]
  BY DEF Check, LimiterTyped, Checked, NotYet
<1>2. IsFiniteSet(Counted(from)) /\ Cardinality(Counted(from)) \in Nat /\ Cardinality(Counted(from)) <= Allowed
  BY CountedBounds, CountedIsFinite
<1>3. Counted(from)' \subseteq Counted(from) \cup {c} /\ c \notin Counted(from)
  BY <1>1 DEF Counted, Checked
<1>4. CASE c \notin Counted(from)'
  <2>1. Cardinality(Counted(from)') <= Cardinality(Counted(from)) /\ Cardinality(Counted(from)') \in Nat
    BY <1>2, <1>3, <1>4, FS_Subset, FS_CardinalityType
  <2> QED
    BY <2>1, <1>2, AllowedIsPositive
<1>5. CASE c \in Counted(from)'
  <2>1. stamp[c] \in from..(from + Window - 1) /\ verdict'[c] = "granted" /\ c \notin overtaken'
    BY <1>1, <1>5 DEF Counted
  <2>2. Len(left) < Allowed
    <3>1. left \in Seq(Nat)
      BY <1>1, DropKeeps DEF LimiterTyped
    <3>2. ~(Len(left) >= Allowed)
      BY <2>1 DEF Check, LimiterTyped
    <3> HIDE DEF left
    <3>3. Len(left) \in Nat
      BY <3>1
    <3> QED
      BY <3>2, <3>3, AllowedIsPositive
  <2>3. \A d \in Calls : Checked(d) => ~(stamp[d] > stamp[c])
    BY <2>1 DEF Check, Checked
  <2>4. PICK first \in 1..(Len(events) + 1) :
           /\ Len(left) = Len(events) - first + 1
           /\ \A k \in 1..Len(events) : events[k] > stamp[c] - Window => first <= k
    BY <1>1, DropKeeps DEF LimiterTyped
  <2> HIDE DEF left
  <2>5. PICK place \in [Calls -> Int] : IsPlacement(place)
    BY DEF LiveArePlaced
  <2>6. \A d \in Counted(from) : d \in Live /\ stamp[d] \in Nat /\ stamp[d] >= from
    <3> SUFFICES ASSUME NEW d \in Counted(from) PROVE d \in Live /\ stamp[d] \in Nat /\ stamp[d] >= from
      OBVIOUS
    <3>1. d \in Calls /\ verdict[d] = "granted" /\ stamp[d] \in from..(from + Window - 1)
      BY DEF Counted
    <3>2. stamp[d] \in Nat
      BY <3>1, LimiterAssumption
    <3>3. \A e \in Calls : Checked(e) => stamp[e] \in Nat
      BY DEF LimiterTyped, NotYet
    <3>4. \A e \in Calls : Checked(e) => stamp[e] < stamp[d] + Window
      BY <1>1, <2>1, <2>3, <3>1, <3>2, <3>3, LimiterAssumption
    <3> QED
      BY <3>1, <3>2, <3>4, LimiterAssumption DEF Live
  <2>7. \A d \in Counted(from) : place[d] \in first..Len(events)
    <3> SUFFICES ASSUME NEW d \in Counted(from) PROVE place[d] \in first..Len(events)
      OBVIOUS
    <3>1. place[d] \in 1..Len(events) /\ events[place[d]] = stamp[d]
      BY <2>5, <2>6 DEF IsPlacement
    <3>2. stamp[d] > stamp[c] - Window
      BY <1>1, <2>1, <2>6, LimiterAssumption
    <3> QED
      BY <2>4, <3>1, <3>2
  <2>8. Cardinality(Counted(from)) <= Cardinality(first..Len(events)) /\ IsFiniteSet(first..Len(events))
    <3> DEFINE entry == [d \in Counted(from) |-> place[d]]
    <3>1. entry \in [Counted(from) -> first..Len(events)]
      BY <2>7
    <3>2. \A d, e \in Counted(from) : entry[d] = entry[e] => d = e
      BY <2>5, <2>6 DEF IsPlacement
    <3> HIDE DEF entry
    <3>3. entry \in Injection(Counted(from), first..Len(events))
      BY <3>1, <3>2 DEF Injection, IsInjective
    <3>4. IsFiniteSet(first..Len(events))
      BY FS_Interval DEF LimiterTyped
    <3> QED
      BY <3>3, <3>4, FS_Injection
  <2>9. Cardinality(first..Len(events)) = Len(left)
    <3>1. Len(events) \in Nat
      BY DEF LimiterTyped
    <3>2. first \in Int /\ Len(events) \in Int
      BY <3>1
    <3>3. Cardinality(first..Len(events)) = IF first > Len(events) THEN 0 ELSE Len(events) - first + 1
      BY <3>2, FS_Interval, Zenon
    <3> QED
      BY <3>1, <3>3, <2>4
  <2>10. Cardinality(Counted(from) \cup {c}) = Cardinality(Counted(from)) + 1 /\ IsFiniteSet(Counted(from) \cup {c})
    BY <1>2, <1>3, FS_AddElement
  <2>11. Cardinality(Counted(from)') <= Cardinality(Counted(from) \cup {c}) /\ Cardinality(Counted(from)') \in Nat
    BY <1>3, <2>10, FS_Subset, FS_CardinalityType
  <2>12. Len(left) \in Nat
    BY <2>4 DEF LimiterTyped
  <2> QED
    BY <1>2, <2>2, <2>8, <2>9, <2>10, <2>11, <2>12, AllowedIsPositive
<1> QED
  BY <1>4, <1>5

\* Every step keeps the invariant.
LEMMA LimiterKeeps == LimiterInv /\ [LimiterNext]_limiterVars => LimiterInv'
<1> SUFFICES ASSUME LimiterInv, [LimiterNext]_limiterVars PROVE LimiterInv'
  OBVIOUS
<1>1. ASSUME NEW c \in Calls, Check(c) PROVE LimiterInv'
  BY <1>1, CheckKeepsPlaces, CheckKeepsWindows DEF LimiterInv
<1>2. CASE Pass \/ UNCHANGED limiterVars
  <2>1. time' \in Nat /\ UNCHANGED <<stamp, verdict, events, overtaken>>
    BY <1>2 DEF Pass, limiterVars, LimiterInv, LimiterTyped
  <2>2. LimiterTyped'
    BY <2>1 DEF LimiterInv, LimiterTyped, Checked
  <2>3. Live' = Live
    BY <2>1 DEF Live, Checked
  <2>4. PICK place \in [Calls -> Int] : IsPlacement(place)
    BY DEF LimiterInv, LiveArePlaced
  <2>5. IsPlacement(place)'
    BY <2>1, <2>3, <2>4 DEF IsPlacement
  <2>6. WindowNeverOverrun'
    BY <2>1 DEF LimiterInv, WindowNeverOverrun
  <2> QED
    BY <2>2, <2>5, <2>6 DEF LimiterInv, LiveArePlaced
<1> QED
  BY <1>1, <1>2, ReadClockKeeps DEF LimiterNext

\* WindowRateLimiter.check: for any number of calls on any threads, any limit and any
\* window, the calls granted within one window are no more than the limit, those
\* excepted that were overtaken between reading the clock and taking the lock.
THEOREM WindowsAreKept == LimiterSpec => []WindowNeverOverrun
<1>1. LimiterInv => WindowNeverOverrun
  BY DEF LimiterInv
<1> QED
  BY <1>1, LimiterStarts, LimiterKeeps, PTL DEF LimiterSpec

-----------------------------------------------------------------------------
(* The catalogue and the marks.                                            *)

Rows == [position : Nat, approved : BOOLEAN]
ImportLabels == {"idle", "specs", "flush"}
ReadLabels == {"start", "count", "fetch", "end"}
MarkLabels == {"start", "look", "insert", "lookAgain", "delete", "known", "unknown", "missing", "failed"}

DiscoveryTyped ==
    /\ rows \in [Items -> Rows] /\ draft \in [Items -> Rows]
    /\ listed \in Seq(Items) /\ edition \in Seq(Items)
    /\ importing \in ImportLabels
    /\ unwritten \subseteq Items
    /\ reading \in [Readers -> ReadLabels]
    /\ found \in [Readers -> SUBSET Items]
    /\ moved \in [Readers -> BOOLEAN]
    /\ DOMAIN answer = Readers
    /\ marking \in [Markers -> MarkLabels]
    /\ held \in [Markers -> SUBSET BOOLEAN]

\* No two rows are at one position; a row is hidden behind a list; a table has a list in
\* its places, with the status each item has there, and hides all else behind it.
Apart(table) == \A i, j \in Existing(table) : table[i].position = table[j].position => i = j
Hidden(row, specs) == row = NoRow \/ (~row.approved /\ row.position > Len(specs))
Listing(specs, p) == [position |-> p, approved |-> specs[p] \notin Withheld(specs)]
Shown(table, specs) ==
    /\ \A p \in DOMAIN specs : table[specs[p]] = Listing(specs, p)
    /\ \A i \in Items \ ToSet(specs) : Hidden(table[i], specs)

\* What the transaction of the import sees.
Drafted ==
    /\ importing \in {"specs", "flush"} => Apart(draft)
    /\ importing = "specs" => \A i \in Items : Hidden(draft[i], edition)
    /\ importing = "flush" =>
          /\ IsInjective(edition) /\ unwritten \subseteq ToSet(edition)
          /\ \A p \in DOMAIN edition :
                IF edition[p] \in unwritten THEN Hidden(draft[edition[p]], edition)
                ELSE draft[edition[p]] = Listing(edition, p)
          /\ \A i \in Items \ ToSet(edition) : Hidden(draft[i], edition)

\* What a reader has counted is what there is, or it has seen the catalogue move.
Told(r) ==
    /\ reading[r] \in {"start", "count"} => found[r] = {}
    /\ reading[r] = "fetch" /\ Asks[r] = "quote" => found[r] # {} /\ (found[r] = Approved \/ moved[r])
    /\ answer[r] = <<"none">> /\ found[r] # {} /\ reading[r] = "end" => moved[r]

\* Where a marker stands, and what its mark has been during its call.
Witnessed(m) ==
    /\ marking[m] \in {"known", "lookAgain"} => TRUE \in held[m]
    /\ marking[m] = "unknown" => FALSE \in held[m]
    /\ marking[m] = "failed" => held[m] = BOOLEAN

CatalogueInv ==
    /\ DiscoveryTyped
    /\ Apart(rows) /\ Shown(rows, listed) /\ Drafted
    /\ \A r \in Readers : Told(r)
    /\ \A m \in Markers : Witnessed(m)

-----------------------------------------------------------------------------

\* A non-empty finite set of numbers has a bound.
LEMMA FiniteIsBounded ==
    ASSUME NEW S \in SUBSET Nat, IsFiniteSet(S), S # {}
    PROVE  \E m \in S : \A s \in S : s <= m
<1> DEFINE UpTo(m) == {s \in S : s <= m}
           Counts == {Cardinality(UpTo(m)) : m \in S}
<1>1. \A m \in S : IsFiniteSet(UpTo(m)) /\ Cardinality(UpTo(m)) \in Nat /\ Cardinality(UpTo(m)) <= Cardinality(S)
  BY FS_Subset, FS_CardinalityType
<1>2. Cardinality(S) \in Nat
  BY FS_CardinalityType
<1>3. Counts \subseteq Nat /\ Counts # {} /\ \A n \in Counts : n <= Cardinality(S)
  <2> HIDE DEF UpTo
  <2> QED
    BY <1>1
<1>4. PICK n \in Counts : \A k \in Counts : k <= n
  <2> HIDE DEF Counts
  <2> QED
    BY <1>2, <1>3, GreatestExists
<1>5. PICK m \in S : n = Cardinality(UpTo(m))
  BY <1>4
<1>6. ASSUME NEW s \in S, s > m PROVE FALSE
  <2>0. s \in Nat /\ m \in Nat /\ s > m
    BY <1>6
  <2>1. UpTo(m) \subseteq UpTo(s) /\ s \in UpTo(s) /\ s \notin UpTo(m)
    <3>1. \A t \in S : t \in Nat /\ (t <= m => t <= s)
      BY <2>0
    <3>2. UpTo(m) \subseteq UpTo(s)
      BY <3>1
    <3>3. s <= s /\ ~(s <= m)
      BY <2>0
    <3> QED
      BY <3>2, <3>3
  <2>2. Cardinality(UpTo(s)) <= Cardinality(UpTo(m))
    BY <1>4, <1>5
  <2> HIDE DEF UpTo
  <2>3. Cardinality(UpTo(m)) <= Cardinality(UpTo(s)) /\ Cardinality(UpTo(m)) # Cardinality(UpTo(s))
    BY <1>1, <2>1, FS_Subset
  <2> QED
    BY <1>1, <2>2, <2>3
<1> QED
  BY <1>6

\* A table has finitely many rows, at positions that are numbers.
LEMMA PositionsAreFinite ==
    ASSUME NEW table \in [Items -> Rows]
    PROVE  /\ IsFiniteSet(Existing(table)) /\ Positions(table) \subseteq Nat
           /\ IsFiniteSet(Positions(table))
<1>1. IsFiniteSet(Existing(table))
  BY FS_Subset, DiscoveryAssumption DEF Existing
<1>2. Positions(table) \subseteq Nat
  BY DEF Positions, Existing, Rows
<1> DEFINE f == [i \in Existing(table) |-> table[i].position]
<1>3. f \in Surjection(Existing(table), Positions(table))
  BY DEF Surjection, Positions
<1> QED
  BY <1>1, <1>2, <1>3, FS_Surjection

\* Rows are apart exactly if there are as many positions as rows.
LEMMA ApartIsCounted ==
    ASSUME NEW table \in [Items -> Rows], Apart(table)
    PROVE  Cardinality(Positions(table)) = Cardinality(Existing(table))
<1> DEFINE f == [i \in Existing(table) |-> table[i].position]
<1>1. f \in Surjection(Existing(table), Positions(table))
  BY DEF Surjection, Positions
<1>2. f \in Injection(Existing(table), Positions(table))
  BY DEF Injection, IsInjective, Positions, Apart
<1> QED
  BY <1>1, <1>2, PositionsAreFinite, FS_Surjection

\* Renumbering hides every row behind both the old positions and the new list, and
\* keeps them apart.
LEMMA RenumberingHides ==
    ASSUME NEW table \in [Items -> Rows], Apart(table), NEW specs \in Seq(Items)
    PROVE  LET new == Renumbered(table, specs) IN
           new \in [Items -> Rows] /\ Apart(new) /\ \A i \in Items : Hidden(new[i], specs)
<1> DEFINE E == Existing(table)
           UpTo(i) == {j \in E : table[j].position <= table[i].position}
           base == TemporaryBase(table, specs)
           new == Renumbered(table, specs)
<1>1. E \subseteq Items /\ \A i \in E : table[i].position \in Nat
  BY DEF Existing, Rows
<1>2. \A i \in E : IsFiniteSet(UpTo(i)) /\ Cardinality(UpTo(i)) \in Nat /\ Cardinality(UpTo(i)) > 0
  <2> SUFFICES ASSUME NEW i \in E
               PROVE  IsFiniteSet(UpTo(i)) /\ Cardinality(UpTo(i)) \in Nat /\ Cardinality(UpTo(i)) > 0
    OBVIOUS
  <2>1. UpTo(i) \subseteq Items /\ i \in UpTo(i)
    BY <1>1
  <2>2. IsFiniteSet(UpTo(i))
    BY <2>1, FS_Subset, DiscoveryAssumption
  <2> HIDE DEF UpTo
  <2>3. Cardinality(UpTo(i)) \in Nat /\ Cardinality(UpTo(i)) # 0
    BY <2>1, <2>2, FS_CardinalityType, FS_EmptySet
  <2> QED
    BY <2>2, <2>3
<1>3. \A i, j \in E : i # j => Cardinality(UpTo(i)) # Cardinality(UpTo(j))
  <2>1. ASSUME NEW i \in E, NEW j \in E, table[i].position < table[j].position
        PROVE  Cardinality(UpTo(i)) # Cardinality(UpTo(j))
    <3>1. UpTo(i) \subseteq UpTo(j) /\ j \in UpTo(j) /\ j \notin UpTo(i)
      BY <1>1, <2>1
    <3> HIDE DEF UpTo
    <3> QED
      BY <3>1, <1>2, FS_Subset
  <2> SUFFICES ASSUME NEW i \in E, NEW j \in E, i # j
               PROVE  Cardinality(UpTo(i)) # Cardinality(UpTo(j))
    OBVIOUS
  <2>2. table[i].position < table[j].position \/ table[j].position < table[i].position
    BY <1>1 DEF Apart
  <2> HIDE DEF UpTo, E
  <2> QED
    BY <2>1, <2>2
<1>4. E # {} => base \in Nat /\ base >= Len(specs)
  <2> SUFFICES ASSUME E # {} PROVE base \in Nat /\ base >= Len(specs)
    OBVIOUS
  <2>1. Positions(table) # {}
    BY DEF Positions
  <2>2. \E p \in Positions(table) : \A q \in Positions(table) : q <= p
    BY <2>1, PositionsAreFinite, FiniteIsBounded
  <2>3. Highest(table) \in Nat
    BY <2>2, PositionsAreFinite DEF Highest
  <2> QED
    BY <2>3 DEF TemporaryBase
<1>5. /\ \A i \in Items \ E : new[i] = NoRow
      /\ \A i \in E : new[i] = [position |-> base + Cardinality(UpTo(i)), approved |-> FALSE]
  BY <1>1 DEF Renumbered
<1>6. DOMAIN new = Items /\ new = [i \in Items |-> new[i]]
  BY DEF Renumbered
<1> HIDE DEF UpTo, base, new, E
<1>7. \A i \in Items : new[i] \in Rows /\ Hidden(new[i], specs)
  <2> SUFFICES ASSUME NEW i \in Items PROVE new[i] \in Rows /\ Hidden(new[i], specs)
    OBVIOUS
  <2>1. CASE i \notin E
    <3>1. new[i] = NoRow
      BY <1>5, <2>1
    <3> QED
      BY <3>1 DEF NoRow, Rows, Hidden
  <2>2. CASE i \in E
    <3>1. new[i] = [position |-> base + Cardinality(UpTo(i)), approved |-> FALSE]
      BY <1>5, <2>2
    <3>2. base + Cardinality(UpTo(i)) \in Nat /\ base + Cardinality(UpTo(i)) > Len(specs)
      BY <1>2, <1>4, <2>2
    <3> QED
      BY <3>1, <3>2 DEF Rows, Hidden
  <2> QED
    BY <2>1, <2>2
<1>8. Apart(new)
  <2> SUFFICES ASSUME NEW i \in Existing(new), NEW j \in Existing(new), new[i].position = new[j].position, i # j
               PROVE  FALSE
    BY DEF Apart
  <2>1. \A k \in Existing(new) : k \in Items /\ k \in E
    <3>1. NoRow.position = 0
      BY DEF NoRow
    <3> QED
      BY <1>5, <3>1 DEF Existing
  <2>2. ASSUME NEW k \in Existing(new) PROVE new[k].position = base + Cardinality(UpTo(k))
    <3>1. new[k] = [position |-> base + Cardinality(UpTo(k)), approved |-> FALSE]
      BY <2>1, <1>5
    <3> QED
      BY <3>1
  <2>3. base \in Nat
    BY <2>1, <1>4
  <2>4. Cardinality(UpTo(i)) = Cardinality(UpTo(j))
    BY <2>1, <2>2, <2>3, <1>2
  <2> QED
    BY <2>1, <2>4, <1>3
<1>9. new \in [Items -> Rows]
  BY <1>6, <1>7
<1> QED
  BY <1>7, <1>8, <1>9 DEF new
-----------------------------------------------------------------------------

\* The initial state satisfies the invariant.
LEMMA CatalogueStarts == DiscoveryInit => CatalogueInv
<1> SUFFICES ASSUME DiscoveryInit PROVE CatalogueInv
  OBVIOUS
<1>1. \A i \in Items : rows[i] = NoRow /\ draft[i] = NoRow
  BY DEF DiscoveryInit
<1>2. rows \in [Items -> Rows] /\ draft \in [Items -> Rows]
  BY DEF DiscoveryInit, Rows, NoRow
<1>3. DiscoveryTyped
  BY <1>2 DEF DiscoveryInit, DiscoveryTyped, ImportLabels, ReadLabels, MarkLabels
<1>4. Existing(rows) = {}
  BY <1>1 DEF Existing, NoRow
<1>5. Apart(rows) /\ Shown(rows, listed)
  BY <1>1, <1>4 DEF Apart, Shown, Hidden, DiscoveryInit
<1>6. Drafted
  BY DEF Drafted, DiscoveryInit
<1>7. (\A r \in Readers : Told(r)) /\ (\A m \in Markers : Witnessed(m))
  BY DEF DiscoveryInit, Told, Witnessed
<1> QED
  BY <1>3, <1>5, <1>6, <1>7 DEF CatalogueInv

\* What is shown is what was listed last and not withheld.
LEMMA ApprovedAreListed ==
    ASSUME DiscoveryTyped, Shown(rows, listed)
    PROVE  Approved = ToSet(listed) \ Withheld(listed) /\ Approved \subseteq Existing(rows)
<1>1. \A i \in Items : i \notin ToSet(listed) => ~rows[i].approved
  BY DEF Shown, Hidden, NoRow
<1>2. ToSet(listed) \subseteq Items
  BY DEF ToSet, DiscoveryTyped
<1>3. \A i \in ToSet(listed) : (rows[i].approved <=> i \notin Withheld(listed)) /\ rows[i].position # 0
  <2> SUFFICES ASSUME NEW p \in DOMAIN listed
               PROVE  /\ (rows[listed[p]].approved <=> listed[p] \notin Withheld(listed))
                      /\ rows[listed[p]].position # 0
    BY DEF ToSet
  <2>1. rows[listed[p]] = [position |-> p, approved |-> listed[p] \notin Withheld(listed)]
    BY DEF Shown, Listing
  <2>2. p # 0
    BY DEF DiscoveryTyped
  <2>3. CASE listed[p] \in Withheld(listed)
    <3>1. rows[listed[p]] = [position |-> p, approved |-> FALSE]
      BY <2>1, <2>3
    <3> QED
      BY <2>2, <2>3, <3>1
  <2>4. CASE listed[p] \notin Withheld(listed)
    <3>1. rows[listed[p]] = [position |-> p, approved |-> TRUE]
      BY <2>1, <2>4
    <3> QED
      BY <2>2, <2>4, <3>1
  <2> QED
    BY <2>3, <2>4
<1> QED
  BY <1>1, <1>2, <1>3 DEF Approved, Existing

\* What the invariant says of readers and markers stays when an importer's step leaves
\* the committed rows alone.
LEMMA ImporterAlone ==
    ASSUME CatalogueInv, UNCHANGED <<catalogueVars, readVars, markVars>>
    PROVE  /\ Apart(rows)' /\ Shown(rows, listed)'
           /\ \A r \in Readers : Told(r)'
           /\ \A m \in Markers : Witnessed(m)'
<1>1. UNCHANGED <<rows, listed, reading, found, answer, moved, marking, held>>
  BY DEF catalogueVars, readVars, markVars
<1>2. Apart(rows)' /\ Shown(rows, listed)'
  BY <1>1 DEF CatalogueInv, Apart, Existing, Shown, Hidden
<1>3. \A r \in Readers : Told(r)'
  BY <1>1 DEF CatalogueInv, Told, Approved
<1>4. \A m \in Markers : Witnessed(m)'
  BY <1>1 DEF CatalogueInv, Witnessed
<1> QED
  BY <1>2, <1>3, <1>4

\* An import begins with every row hidden.
LEMMA BeginImportKeeps == ASSUME CatalogueInv, BeginImport PROVE CatalogueInv'
<1>1. PICK specs \in Editions : edition' = specs /\ draft' = Renumbered(rows, specs)
  BY DEF BeginImport
<1>2. specs \in Seq(Items)
  BY DiscoveryAssumption
<1>3. /\ draft' \in [Items -> Rows] /\ Apart(draft')
      /\ \A i \in Items : Hidden(draft'[i], edition')
  BY <1>1, <1>2, RenumberingHides DEF CatalogueInv, DiscoveryTyped
<1>4. Drafted'
  BY <1>3 DEF BeginImport, Drafted, Hidden, Apart, Existing
<1>5. DiscoveryTyped'
  BY <1>1, <1>2, <1>3 DEF BeginImport, catalogueVars, readVars, markVars, CatalogueInv, DiscoveryTyped, ImportLabels
<1>6. UNCHANGED <<catalogueVars, readVars, markVars>>
  BY DEF BeginImport
<1> QED
  BY <1>4, <1>5, <1>6, ImporterAlone DEF CatalogueInv

\* Only a list without duplicates is written.
LEMMA TakeSpecsKeeps == ASSUME CatalogueInv, TakeSpecs PROVE CatalogueInv'
<1>1. UNCHANGED <<catalogueVars, readVars, markVars>> /\ draft' = draft /\ edition' = edition
  BY DEF TakeSpecs
<1>2. unwritten' \subseteq Items /\ importing' \in ImportLabels
  BY DEF TakeSpecs, CatalogueInv, DiscoveryTyped, ToSet, ImportLabels
<1>3. DiscoveryTyped'
  BY <1>1, <1>2 DEF catalogueVars, readVars, markVars, CatalogueInv, DiscoveryTyped
<1>4. Drafted'
  <2>1. CASE ~IsInjective(edition)
    BY <2>1 DEF TakeSpecs, Drafted
  <2>2. CASE IsInjective(edition)
    <3>1. importing = "specs" /\ importing' = "flush" /\ unwritten' = ToSet(edition)
      BY <2>2 DEF TakeSpecs
    <3>2. \A p \in DOMAIN edition : edition[p] \in Items /\ edition[p] \in ToSet(edition)
      BY DEF CatalogueInv, DiscoveryTyped, ToSet
    <3> QED
      BY <1>1, <2>2, <3>1, <3>2 DEF CatalogueInv, Drafted, Apart, Existing, Hidden
  <2> QED
    BY <2>1, <2>2
<1> QED
  BY <1>1, <1>3, <1>4, ImporterAlone DEF CatalogueInv

\* A row finds its position free: whatever is there by then is of the list itself.
LEMMA WriteRowKeeps == ASSUME CatalogueInv, NEW i \in Items, WriteRow(i) PROVE CatalogueInv'
<1>1. /\ UNCHANGED <<catalogueVars, readVars, markVars>> /\ edition' = edition
      /\ importing = "flush" /\ i \in unwritten
  BY DEF WriteRow
<1>2. /\ IsInjective(edition) /\ unwritten \subseteq ToSet(edition) /\ Apart(draft)
      /\ edition \in Seq(Items) /\ draft \in [Items -> Rows]
  BY <1>1 DEF CatalogueInv, Drafted, DiscoveryTyped
<1>3. PICK at \in DOMAIN edition : edition[at] = i
  BY <1>1, <1>2 DEF ToSet
<1>4. at \in 1..Len(edition) /\ PlaceOf(i) = at
  <2>1. at \in 1..Len(edition) /\ \A p \in 1..Len(edition) : edition[p] = i => p = at
    BY <1>2, <1>3 DEF IsInjective
  <2> QED
    BY <2>1, <1>3 DEF PlaceOf
<1>5. \A p \in DOMAIN edition :
         IF edition[p] \in unwritten THEN Hidden(draft[edition[p]], edition)
         ELSE draft[edition[p]] = Listing(edition, p)
  BY <1>1 DEF CatalogueInv, Drafted
<1>6. \A j \in Items \ ToSet(edition) : Hidden(draft[j], edition)
  BY <1>1 DEF CatalogueInv, Drafted
<1>7. \A j \in Items \ {i} : draft[j].position # PlaceOf(i)
  <2> SUFFICES ASSUME NEW j \in Items, j # i, draft[j].position = at PROVE FALSE
    BY <1>4
  <2>1. ~Hidden(draft[j], edition)
    BY <1>4 DEF Hidden, NoRow
  <2>2. PICK p \in DOMAIN edition : edition[p] = j
    BY <1>6, <2>1 DEF ToSet
  <2>3. draft[j] = Listing(edition, p)
    BY <1>5, <2>1, <2>2
  <2>4. draft[j].position = p
    BY <2>3 DEF Listing
  <2> QED
    BY <1>3, <2>2, <2>4
<1>8. /\ draft' = [draft EXCEPT ![i] = Listing(edition, at)]
      /\ unwritten' = unwritten \ {i} /\ importing' = importing
  BY <1>3, <1>4, <1>7 DEF WriteRow, Listing
<1>9. /\ draft'[i] = Listing(edition, at) /\ draft'[i].position = at /\ draft' \in [Items -> Rows]
      /\ \A j \in Items \ {i} : draft'[j] = draft[j]
  BY <1>2, <1>4, <1>8 DEF Rows, Listing
<1>10. Apart(draft')
  <2> SUFFICES ASSUME NEW j \in Existing(draft'), NEW k \in Existing(draft'),
                      draft'[j].position = draft'[k].position
               PROVE  j = k
    BY DEF Apart
  <2>1. j \in Items /\ k \in Items
    BY DEF Existing
  <2>2. CASE j = i \/ k = i
    BY <1>4, <1>7, <1>9, <2>1, <2>2
  <2>3. CASE j # i /\ k # i
    BY <1>2, <1>9, <2>1, <2>3 DEF Apart, Existing
  <2> QED
    BY <2>2, <2>3
<1>11. \A p \in DOMAIN edition :
          IF edition[p] \in unwritten' THEN Hidden(draft'[edition[p]], edition)
          ELSE draft'[edition[p]] = Listing(edition, p)
  <2> SUFFICES ASSUME NEW p \in DOMAIN edition
               PROVE  IF edition[p] \in unwritten' THEN Hidden(draft'[edition[p]], edition)
                      ELSE draft'[edition[p]] = Listing(edition, p)
    OBVIOUS
  <2>1. edition[p] \in Items /\ (edition[p] = i <=> p = at)
    BY <1>2, <1>3 DEF IsInjective
  <2> QED
    BY <1>5, <1>8, <1>9, <2>1
<1>12. \A j \in Items \ ToSet(edition) : Hidden(draft'[j], edition)
  BY <1>1, <1>2, <1>6, <1>9
<1>13. Drafted'
  BY <1>1, <1>2, <1>8, <1>10, <1>11, <1>12 DEF Drafted, Apart, Existing, Hidden
<1>14. DiscoveryTyped'
  BY <1>1, <1>8, <1>9 DEF catalogueVars, readVars, markVars, CatalogueInv, DiscoveryTyped
<1> QED
  BY <1>1, <1>13, <1>14, ImporterAlone DEF CatalogueInv

\* What is committed is the list, whole; readers under way have seen it move.
LEMMA CommitImportKeeps == ASSUME CatalogueInv, CommitImport PROVE CatalogueInv'
<1>1. /\ importing = "flush" /\ unwritten = {} /\ importing' = "idle"
      /\ rows' = draft /\ listed' = edition /\ draft' = draft
      /\ UNCHANGED <<edition, unwritten, reading, found, answer, marking, held>>
      /\ moved' = [r \in Readers |-> moved[r] \/ reading[r] \notin {"start", "end"}]
  BY DEF CommitImport, markVars
<1>2. Apart(draft) /\ Shown(draft, edition)
  BY <1>1 DEF CatalogueInv, Drafted, Shown
<1>3. Apart(rows)' /\ Shown(rows, listed)'
  BY <1>1, <1>2 DEF Apart, Existing, Shown, Hidden
<1>4. \A r \in Readers : Told(r)'
  BY <1>1 DEF CatalogueInv, Told, DiscoveryTyped
<1>5. \A m \in Markers : Witnessed(m)'
  BY <1>1 DEF CatalogueInv, Witnessed
<1>6. DiscoveryTyped'
  BY <1>1 DEF CatalogueInv, DiscoveryTyped, ImportLabels
<1>7. Drafted'
  BY <1>1 DEF Drafted
<1> QED
  BY <1>3, <1>4, <1>5, <1>6, <1>7 DEF CatalogueInv

\* An import that fails leaves what was committed.
LEMMA ImportFailsKeeps == ASSUME CatalogueInv, ImportFails PROVE CatalogueInv'
<1>1. UNCHANGED <<catalogueVars, readVars, markVars>> /\ draft' = draft /\ edition' = edition
      /\ importing' = "idle" /\ unwritten' = {}
  BY DEF ImportFails
<1>2. DiscoveryTyped'
  BY <1>1 DEF catalogueVars, readVars, markVars, CatalogueInv, DiscoveryTyped, ImportLabels
<1>3. Drafted'
  BY <1>1 DEF Drafted
<1> QED
  BY <1>1, <1>2, <1>3, ImporterAlone DEF CatalogueInv

-----------------------------------------------------------------------------

\* A quote is sent away at its second statement only if the pack has changed since the first.
LEMMA ReadNextKeeps == ASSUME CatalogueInv, NEW r \in Readers, ReadNext(r) PROVE CatalogueInv'
<1>1. UNCHANGED <<catalogueVars, importVars, moved, markVars>>
  BY DEF ReadNext, FindPack, CountItems, Fetch
<1>2. UNCHANGED <<rows, listed, importing, edition, draft, unwritten, moved, marking, held>>
  BY <1>1 DEF catalogueVars, importVars, markVars
<1>3. /\ Apart(rows)' /\ Shown(rows, listed)' /\ Drafted'
      /\ \A m \in Markers : Witnessed(m)'
  BY <1>2 DEF CatalogueInv, Apart, Existing, Shown, Hidden, Drafted, Witnessed
<1>4. Approved' = Approved /\ Approved \subseteq Items /\ Listed(r) \subseteq Items
  BY <1>2 DEF Approved, Listed
<1>5. \A s \in Readers \ {r} : reading'[s] = reading[s] /\ found'[s] = found[s] /\ answer'[s] = answer[s]
  BY DEF ReadNext, FindPack, CountItems, Fetch, FetchQuote, FetchItems, FetchPacks, ReadTo, CatalogueInv, DiscoveryTyped
<1>6. /\ reading' \in [Readers -> ReadLabels] /\ found' \in [Readers -> SUBSET Items] /\ DOMAIN answer' = Readers
  BY <1>4 DEF ReadNext, FindPack, CountItems, Fetch, FetchQuote, FetchItems, FetchPacks, ReadTo,
              CatalogueInv, DiscoveryTyped, ReadLabels
<1>7. DiscoveryTyped'
  BY <1>2, <1>6 DEF CatalogueInv, DiscoveryTyped
<1>8. Told(r)'
  <2>1. CASE FindPack(r)
    BY <2>1 DEF FindPack, ReadTo, CatalogueInv, Told, DiscoveryTyped, ReadLabels
  <2>2. CASE CountItems(r)
    BY <2>2, <1>4 DEF CountItems, Listed, ReadTo, CatalogueInv, Told, DiscoveryTyped, ReadLabels
  <2>3. CASE Fetch(r)
    <3>1. reading[r] = "fetch" /\ reading'[r] = "end" /\ found'[r] = found[r] /\ moved'[r] = moved[r]
      BY <2>3, <1>2 DEF Fetch, ReadTo, CatalogueInv, DiscoveryTyped
    <3>2. SUFFICES answer'[r] = <<"none">> => moved[r]
      BY <3>1 DEF Told
    <3>3. CASE Asks[r] # "quote"
      <4>1. answer'[r] # <<"none">>
        BY <2>3, <3>3 DEF Fetch, FetchQuote, FetchItems, FetchPacks, CatalogueInv, DiscoveryTyped
      <4> QED
        BY <4>1
    <3>4. CASE Asks[r] = "quote"
      <4> SUFFICES ASSUME ~moved[r] PROVE answer'[r] # <<"none">>
        OBVIOUS
      <4>1. found[r] = Approved /\ found[r] # {}
        BY <3>1, <3>4 DEF CatalogueInv, Told
      <4>2. Cardinality(Approved) \in Nat /\ Cardinality(Approved) # 0
        BY <1>4, <4>1, DiscoveryAssumption, FS_Subset, FS_CardinalityType, FS_EmptySet
      <4>3. PICK n \in Offsets : FetchQuote(r, n)
        BY <2>3, <3>4 DEF Fetch, FetchItems, FetchPacks
      <4>4. (n % Cardinality(found[r])) + 1 <= Cardinality(Approved)
        BY <4>1, <4>2, DiscoveryAssumption
      <4> DEFINE at == (n % Cardinality(found[r])) + 1
      <4>5. answer'[r] = IF at > Cardinality(Approved) THEN <<"none">> ELSE <<"quote", InOrder(Approved)[at]>>
        BY <4>3 DEF FetchQuote, CatalogueInv, DiscoveryTyped
      <4>6. ~(at > Cardinality(Approved))
        BY <4>1, <4>2, <4>4, DiscoveryAssumption
      <4> HIDE DEF at
      <4>7. answer'[r] = <<"quote", InOrder(Approved)[at]>>
        BY <4>5, <4>6
      <4> QED
        BY <4>7
    <3> QED
      BY <3>3, <3>4
  <2> QED
    BY <2>1, <2>2, <2>3 DEF ReadNext
<1>9. \A s \in Readers : Told(s)'
  <2>1. \A s \in Readers \ {r} : Told(s)'
    BY <1>2, <1>4, <1>5 DEF CatalogueInv, Told
  <2> QED
    BY <1>8, <2>1
<1> QED
  BY <1>3, <1>7, <1>9 DEF CatalogueInv

-----------------------------------------------------------------------------

\* A marker sees its mark at the end of each of its statements.
LEMMA MarkNextKeeps == ASSUME CatalogueInv, NEW m \in Markers, MarkNext(m) PROVE CatalogueInv'
<1>1. UNCHANGED <<catalogueVars, importVars, readVars>>
  BY DEF MarkNext, CheckItem, DeleteMark, LookMark, InsertMark, LookMarkAgain
<1>2. UNCHANGED <<rows, listed, importing, edition, draft, unwritten, reading, found, answer, moved>>
  BY <1>1 DEF catalogueVars, importVars, readVars
<1>3. /\ Apart(rows)' /\ Shown(rows, listed)' /\ Drafted'
      /\ \A r \in Readers : Told(r)'
  BY <1>2 DEF CatalogueInv, Apart, Existing, Shown, Hidden, Drafted, Told, Approved
<1>4. /\ held' = [n \in Markers |->
              IF UnderWay(n) \/ n = m THEN held[n] \cup {Item(n) \in marks'} ELSE held[n]]
      /\ UNCHANGED marks \/ marking[m] \in {"delete", "insert"}
  BY DEF MarkNext, CheckItem, DeleteMark, LookMark, InsertMark, LookMarkAgain, Witness
<1>5. /\ held' \in [Markers -> SUBSET BOOLEAN]
      /\ \A n \in Markers : held[n] \subseteq held'[n]
      /\ held'[m] = held[m] \cup {Item(m) \in marks'}
  <2> DEFINE There(n) == Item(n) \in marks'
  <2>1. \A n \in Markers : There(n) \in BOOLEAN
    OBVIOUS
  <2> HIDE DEF There
  <2>2. held' = [n \in Markers |-> IF UnderWay(n) \/ n = m THEN held[n] \cup {There(n)} ELSE held[n]]
    BY <1>4 DEF There
  <2>3. \A n \in Markers : held'[n] = held[n] \/ held'[n] = held[n] \cup {There(n)}
    BY <2>2
  <2>4. held'[m] = held[m] \cup {There(m)}
    BY <2>2
  <2>5. \A n \in Markers : held'[n] \subseteq BOOLEAN
    BY <2>1, <2>3 DEF CatalogueInv, DiscoveryTyped
  <2> QED
    BY <2>2, <2>3, <2>4, <2>5 DEF There
<1>6. marking' \in [Markers -> MarkLabels] /\ \A n \in Markers \ {m} : marking'[n] = marking[n]
  BY DEF MarkNext, CheckItem, DeleteMark, LookMark, InsertMark, LookMarkAgain, Mark,
         CatalogueInv, DiscoveryTyped, MarkLabels
<1>7. DiscoveryTyped'
  BY <1>2, <1>5, <1>6 DEF CatalogueInv, DiscoveryTyped
<1>8. Witnessed(m)'
  <2>0. Witnessed(m) /\ held[m] \subseteq BOOLEAN /\ m \in DOMAIN marking
    BY DEF CatalogueInv, DiscoveryTyped
  <2>1. CASE CheckItem(m)
    BY <2>0, <2>1 DEF CheckItem, Mark, Witnessed
  <2>2. CASE DeleteMark(m)
    <3>1. marking'[m] = "unknown" /\ Item(m) \notin marks'
      BY <2>0, <2>2 DEF DeleteMark, Mark
    <3> QED
      BY <1>5, <3>1 DEF Witnessed
  <2>3. CASE LookMark(m) \/ InsertMark(m)
    <3>1. marking'[m] \in {"known", "lookAgain", "insert"} /\ (marking'[m] # "insert" => Item(m) \in marks')
      BY <2>0, <2>3 DEF LookMark, InsertMark, Mark
    <3> QED
      BY <1>5, <3>1 DEF Witnessed
  <2>4. CASE LookMarkAgain(m)
    <3>1. /\ marking[m] = "lookAgain"
          /\ marking'[m] = IF Item(m) \in marks' THEN "known" ELSE "failed"
      BY <2>0, <2>4 DEF LookMarkAgain, Mark
    <3>2. TRUE \in held[m]
      BY <2>0, <3>1 DEF Witnessed
    <3> QED
      BY <1>5, <2>0, <3>1, <3>2 DEF Witnessed
  <2> QED
    BY <2>1, <2>2, <2>3, <2>4 DEF MarkNext
<1>9. \A n \in Markers \ {m} : Witnessed(n)'
  <2> SUFFICES ASSUME NEW n \in Markers \ {m} PROVE Witnessed(n)'
    OBVIOUS
  <2>1. Witnessed(n) /\ held[n] \subseteq held'[n] /\ held'[n] \subseteq BOOLEAN /\ marking'[n] = marking[n]
    BY <1>5, <1>6 DEF CatalogueInv
  <2> QED
    BY <2>1 DEF Witnessed
<1> QED
  BY <1>3, <1>7, <1>8, <1>9 DEF CatalogueInv

\* Every step preserves the invariant.
LEMMA CatalogueKeeps == CatalogueInv /\ [DiscoveryNext]_discoveryVars => CatalogueInv'
<1> SUFFICES ASSUME CatalogueInv, [DiscoveryNext]_discoveryVars PROVE CatalogueInv'
  OBVIOUS
<1>1. CASE ImportNext
  BY <1>1, BeginImportKeeps, TakeSpecsKeeps, WriteRowKeeps, CommitImportKeeps, ImportFailsKeeps DEF ImportNext
<1>2. CASE \E r \in Readers : ReadNext(r)
  BY <1>2, ReadNextKeeps
<1>3. CASE \E m \in Markers : MarkNext(m)
  BY <1>3, MarkNextKeeps
<1>4. CASE UNCHANGED discoveryVars
  <2>1. UNCHANGED <<catalogueVars, readVars, markVars>>
        /\ UNCHANGED <<importing, edition, draft, unwritten>>
    BY <1>4 DEF discoveryVars, importVars
  <2>2. DiscoveryTyped'
    BY <2>1 DEF catalogueVars, readVars, markVars, CatalogueInv, DiscoveryTyped
  <2>3. Drafted'
    BY <2>1 DEF CatalogueInv, Drafted, Apart, Existing, Hidden
  <2> QED
    BY <2>1, <2>2, <2>3, ImporterAlone DEF CatalogueInv
<1> QED
  BY <1>1, <1>2, <1>3, <1>4 DEF DiscoveryNext

\* It holds throughout.
LEMMA CatalogueInvariant == DiscoverySpec => []CatalogueInv
BY CatalogueStarts, CatalogueKeeps, PTL DEF DiscoverySpec

\* Whatever editions are imported one after the other, over whatever rows earlier ones
\* left behind: the pack shows the one committed last, whole and in its order but for what
\* it withholds, no import
\* trips over a position, and a reader is sent away from a pack with items only if an
\* import was committed meanwhile (import_public_materials, discovery_service.py).
THEOREM PackShowsOneEdition == DiscoverySpec => []CatalogueIsWhole
<1>1. CatalogueInv => CatalogueIsWhole
  <2> SUFFICES ASSUME CatalogueInv PROVE CatalogueIsWhole
    OBVIOUS
  <2>1. DiscoveryTyped /\ Shown(rows, listed) /\ Apart(rows)
    BY DEF CatalogueInv
  <2>2. Approved = ToSet(listed) \ Withheld(listed)
    BY <2>1, ApprovedAreListed
  <2>3. \A p \in DOMAIN listed : rows[listed[p]].position = p
    <3> SUFFICES ASSUME NEW p \in DOMAIN listed PROVE rows[listed[p]].position = p
      OBVIOUS
    <3>1. rows[listed[p]] = [position |-> p, approved |-> listed[p] \notin Withheld(listed)]
      BY <2>1 DEF Shown, Listing
    <3> QED
      BY <3>1
  <2>4. \A i \in Existing(rows) \ ToSet(listed) : rows[i].position > Len(listed)
    BY <2>1, <2>2 DEF Shown, Hidden, Existing, NoRow
  <2>5. Cardinality(Positions(rows)) = Cardinality(Existing(rows))
    BY <2>1, ApartIsCounted DEF DiscoveryTyped
  <2>6. SentAwayFromNothing
    BY DEF CatalogueInv, Told, SentAwayFromNothing
  <2>7. importing # "violation"
    BY <2>1 DEF DiscoveryTyped, ImportLabels
  <2> QED
    BY <2>2, <2>3, <2>4, <2>5, <2>6, <2>7 DEF CatalogueIsWhole, ShowsOneEdition
<1> QED
  BY <1>1, CatalogueInvariant, PTL

\* Any number of devices mark and unmark the same item: what each is told was true at a
\* moment of its call, and it fails only if the mark came and went meanwhile
\* (set_material_known in discovery_service.py).
THEOREM MarksAreTold == DiscoverySpec => []MarksAgree
<1>1. CatalogueInv => MarksAgree
  BY DEF CatalogueInv, Witnessed, MarksAgree
<1> QED
  BY <1>1, CatalogueInvariant, PTL

-----------------------------------------------------------------------------
(* The dictionary and the metadata of cards.                               *)

Processes == {"server", "script"}
Texts == LexWords \cup {Blank}
MetadataRows == [content : Texts, hit : BOOLEAN, frq : BOOLEAN]
LookUps == [content : Texts, read : MetadataRows, put : MetadataRows]

LexiconTyped ==
    /\ file \in Dictionaries
    /\ schema \in [Processes -> Dictionaries \cup {"unset"}]
    /\ since \in [Processes -> Dictionaries]
    /\ content \in [LexCards -> Texts]
    /\ metadata \in [LexCards -> MetadataRows]
    /\ wrote \in [LexCards -> Dictionaries]
    /\ \A c \in DOMAIN batch : c \in LexCards /\ batch[c] \in Texts
    /\ DOMAIN work = Jobs
    /\ \A j \in Jobs : \A c \in DOMAIN work[j] : c \in LexCards /\ work[j][c] \in LookUps

\* A process that began after the dictionary was built knows it as it is.
KnowsIts(p) ==
    /\ since[p] = "full" => file = "full"
    /\ since[p] = file => schema[p] \in {"unset", file}

\* What a job is going to write it has looked up in the dictionary its process knows.
LookedUp(w, dictionary) ==
    w.put # Missing => dictionary # "unset" /\ w.put = Put(w.content, dictionary, Missing)

\* MetadataIsExplained of the row itself, whether it fits its card now or later.
RowIsExplained(c) ==
    /\ wrote[c] = "full" => file = "full"
    /\ \/ metadata[c] = Missing
       \/ metadata[c] = Put(metadata[c].content, file, Missing)
       \/ wrote[c] # file
       \/ c \in mixed

LexiconInv ==
    /\ LexiconTyped
    /\ \A p \in Processes : KnowsIts(p)
    /\ \A j \in Jobs : \A c \in DOMAIN work[j] : LookedUp(work[j][c], schema[Process(j)])
    /\ Idle("fill") => schema["script"] = "unset"
    /\ \A c \in LexCards : RowIsExplained(c)

-----------------------------------------------------------------------------

\* A row that is put is of the text it was put for.
LEMMA PutIsOf ==
    ASSUME NEW word \in Texts, NEW dictionary \in Dictionaries
    PROVE  /\ Put(word, dictionary, Missing) \in MetadataRows
           /\ Put(word, dictionary, Missing) # Missing =>
                 Put(word, dictionary, Missing).content = word
BY DEF Put, EntryFor, MetadataRows, Missing, Texts

\* A job that has not begun has nothing to write.
LEMMA NoJobIsEmpty == DOMAIN NoJob = {}
BY DEF NoJob

\* A process that looks a word up knows the dictionary from then on.
LEMMA ResolveKeeps ==
    ASSUME LexiconInv, NEW p \in Processes, Resolve(p), UNCHANGED <<file, since>>
    PROVE  /\ Resolved(p) \in Dictionaries
           /\ schema' \in [Processes -> Dictionaries \cup {"unset"}]
           /\ schema'[p] = Resolved(p) /\ schema'[p] # "unset"
           /\ \A q \in Processes \ {p} : schema'[q] = schema[q]
           /\ \A q \in Processes : KnowsIts(q)'
           /\ \A q \in Processes, w \in LookUps : LookedUp(w, schema[q]) => LookedUp(w, schema'[q])
<1>1. Resolved(p) \in Dictionaries /\ Resolved(p) # "unset"
      /\ (schema[p] # "unset" => Resolved(p) = schema[p])
  BY DEF Resolved, LexiconInv, LexiconTyped, Dictionaries
<1>2. /\ schema' \in [Processes -> Dictionaries \cup {"unset"}]
      /\ schema'[p] = Resolved(p)
      /\ \A q \in Processes \ {p} : schema'[q] = schema[q]
  BY <1>1 DEF Resolve, LexiconInv, LexiconTyped
<1>3. ASSUME NEW q \in Processes PROVE KnowsIts(q)'
  BY <1>2 DEF KnowsIts, Resolved, LexiconInv
<1>4. \A q \in Processes, w \in LookUps : LookedUp(w, schema[q]) => LookedUp(w, schema'[q])
  BY <1>1, <1>2 DEF LookedUp
<1> QED
  BY <1>1, <1>2, <1>3, <1>4

\* What an upsert is going to write it has looked up.
LEMMA UpsertLooksUp ==
    ASSUME LexiconInv, NEW p \in Processes, NEW word \in Texts, NEW c \in LexCards, Resolved(p) \in Dictionaries
    PROVE  Upsert(word, p, c) \in LookUps /\ LookedUp(Upsert(word, p, c), Resolved(p))
<1>1. Put(word, Resolved(p), metadata[c]) = Put(word, Resolved(p), Missing)
  BY DEF Put
<1>2. Upsert(word, p, c) = [content |-> word, read |-> metadata[c], put |-> Put(word, Resolved(p), Missing)]
  BY <1>1 DEF Upsert
<1>3. metadata[c] \in MetadataRows /\ Put(word, Resolved(p), Missing) \in MetadataRows
  BY PutIsOf DEF LexiconInv, LexiconTyped
<1>4. "unset" \notin Dictionaries
  BY DEF Dictionaries
<1> QED
  BY <1>2, <1>3, <1>4 DEF LookUps, LookedUp

\* The initial state satisfies the invariant.
LEMMA LexiconStarts == LexiconInit => LexiconInv
<1> SUFFICES ASSUME LexiconInit PROVE LexiconInv
  OBVIOUS
<1>1. Missing \in MetadataRows
  BY DEF Missing, MetadataRows, Texts
<1>2. LexiconTyped
  BY <1>1, NoJobIsEmpty DEF LexiconInit, LexiconTyped, Dictionaries, Processes, Texts
<1>3. \A p \in Processes : KnowsIts(p)
  BY DEF LexiconInit, KnowsIts, Processes
<1>4. \A j \in Jobs : DOMAIN work[j] = {}
  BY NoJobIsEmpty DEF LexiconInit
<1>5. schema["script"] = "unset" /\ \A c \in LexCards : RowIsExplained(c)
  BY DEF LexiconInit, RowIsExplained
<1> QED
  BY <1>2, <1>3, <1>4, <1>5 DEF LexiconInv

\* A job that ends, without its rows: what it knew goes with the script's process.
LEMMA LeavingKeeps ==
    ASSUME LexiconInv, NEW j \in Jobs, Leave(j), work' = [work EXCEPT ![j] = NoJob], file' = file
    PROVE  /\ schema' \in [Processes -> Dictionaries \cup {"unset"}] /\ since' \in [Processes -> Dictionaries]
           /\ \A c \in DOMAIN batch' : c \in LexCards /\ batch'[c] \in Texts
           /\ DOMAIN work' = Jobs
           /\ \A k \in Jobs : \A c \in DOMAIN work'[k] : c \in LexCards /\ work'[k][c] \in LookUps
           /\ \A p \in Processes : KnowsIts(p)'
           /\ \A k \in Jobs : \A c \in DOMAIN work'[k] : LookedUp(work'[k][c], schema'[Process(k)])
           /\ Idle("fill")' => schema'["script"] = "unset"
<1>1. /\ DOMAIN work' = Jobs /\ work'[j] = NoJob /\ DOMAIN work'[j] = {}
      /\ \A k \in Jobs \ {j} : work'[k] = work[k]
  BY NoJobIsEmpty DEF LexiconInv, LexiconTyped
<1>2. CASE j = "fill"
  <2>1. /\ schema' = [schema EXCEPT !["script"] = "unset"] /\ since' = [since EXCEPT !["script"] = "none"]
        /\ DOMAIN batch' = {}
    BY <1>2 DEF Leave
  <2>2. /\ schema' \in [Processes -> Dictionaries \cup {"unset"}] /\ since' \in [Processes -> Dictionaries]
        /\ schema'["script"] = "unset" /\ since'["script"] = "none"
        /\ schema'["server"] = schema["server"] /\ since'["server"] = since["server"]
    BY <2>1 DEF LexiconInv, LexiconTyped, Processes, Dictionaries
  <2>3. \A p \in Processes : KnowsIts(p)'
    BY <2>2 DEF LexiconInv, KnowsIts, Processes
  <2>4. \A k \in Jobs \ {j} : Process(k) = "server"
    BY <1>2 DEF Process
  <2>5. \A k \in Jobs \ {j} : \A c \in DOMAIN work'[k] : LookedUp(work'[k][c], schema'[Process(k)])
    BY <1>1, <2>2, <2>4 DEF LexiconInv
  <2> QED
    BY <1>1, <2>1, <2>2, <2>3, <2>5 DEF LexiconInv, LexiconTyped
<1>3. CASE j # "fill"
  <2>1. UNCHANGED <<schema, since, batch>>
    BY <1>3 DEF Leave
  <2>2. Idle("fill")' => schema'["script"] = "unset"
    BY <1>1, <1>3, <2>1 DEF LexiconInv, Idle, Jobs
  <2>3. \A p \in Processes : KnowsIts(p)'
    BY <2>1 DEF LexiconInv, KnowsIts
  <2>4. \A k \in Jobs \ {j} : \A c \in DOMAIN work'[k] : LookedUp(work'[k][c], schema'[Process(k)])
    BY <1>1, <2>1 DEF LexiconInv
  <2> QED
    BY <1>1, <2>1, <2>2, <2>3, <2>4 DEF LexiconInv, LexiconTyped
<1> QED
  BY <1>2, <1>3

\* A job that begins, or goes on: it reads, and writes nothing yet.
LEMMA LookingUpKeeps ==
    ASSUME LexiconInv, NEW j \in Jobs, NEW p \in Processes, p = Process(j), Resolve(p),
           UNCHANGED <<file, since, content, metadata, wrote, mixed>>,
           NEW new, new # NoJob, work' = [work EXCEPT ![j] = new],
           \A c \in DOMAIN new : c \in LexCards /\ new[c] \in LookUps /\ LookedUp(new[c], Resolved(p)),
           \A c \in DOMAIN batch' : c \in LexCards /\ batch'[c] \in Texts
    PROVE  LexiconInv'
<1>1. /\ DOMAIN work' = Jobs /\ work'[j] = new /\ \A k \in Jobs \ {j} : work'[k] = work[k]
  BY DEF LexiconInv, LexiconTyped
<1>2. /\ schema' \in [Processes -> Dictionaries \cup {"unset"}]
      /\ schema'[p] = Resolved(p)
      /\ \A q \in Processes \ {p} : schema'[q] = schema[q]
      /\ \A q \in Processes : KnowsIts(q)'
      /\ \A q \in Processes, w \in LookUps : LookedUp(w, schema[q]) => LookedUp(w, schema'[q])
  BY ResolveKeeps
<1>3. \A k \in Jobs : Process(k) \in Processes
  BY DEF Process, Processes
<1>4. \A k \in Jobs \ {j} : \A c \in DOMAIN work'[k] :
          c \in LexCards /\ work'[k][c] \in LookUps /\ LookedUp(work'[k][c], schema'[Process(k)])
  <2> SUFFICES ASSUME NEW k \in Jobs \ {j}, NEW c \in DOMAIN work[k]
               PROVE  c \in LexCards /\ work[k][c] \in LookUps /\ LookedUp(work[k][c], schema'[Process(k)])
    BY <1>1
  <2>1. c \in LexCards /\ work[k][c] \in LookUps /\ LookedUp(work[k][c], schema[Process(k)])
    BY DEF LexiconInv, LexiconTyped
  <2> QED
    BY <1>2, <1>3, <2>1
<1>5. \A c \in DOMAIN work'[j] : c \in LexCards /\ work'[j][c] \in LookUps /\ LookedUp(work'[j][c], schema'[p])
  BY <1>1, <1>2
<1>6. LexiconTyped'
  BY <1>1, <1>2, <1>4, <1>5 DEF LexiconInv, LexiconTyped
<1>7. Idle("fill")' => schema'["script"] = "unset"
  <2>1. CASE j = "fill"
    BY <1>1, <2>1 DEF Idle
  <2>2. CASE j # "fill"
    <3>1. p = "server" /\ schema'["script"] = schema["script"] /\ work'["fill"] = work["fill"]
      BY <1>1, <1>2, <2>2 DEF Process, Processes, Jobs
    <3> QED
      BY <3>1 DEF LexiconInv, Idle
  <2> QED
    BY <2>1, <2>2
<1>8. \A c \in LexCards : RowIsExplained(c)'
  BY DEF LexiconInv, RowIsExplained
<1> QED
  BY <1>2, <1>4, <1>5, <1>6, <1>7, <1>8 DEF LexiconInv

\* An edit looks up, or skips what raised.
LEMMA EditKeeps == ASSUME LexiconInv, NEW c \in LexCards, NEW word \in LexWords, Edit(c, word) PROVE LexiconInv'
<1>1. Resolve("server") /\ UNCHANGED <<file, since>>
  BY DEF Edit
<1>2. "server" \in Processes /\ "edit" \in Jobs /\ Process("edit") = "server"
  BY DEF Processes, Jobs, Process
<1>3. Resolved("server") \in Dictionaries
  BY <1>1, <1>2, ResolveKeeps
<1>4. word \in Texts
  BY DEF Texts
<1>5. PICK saved \in {Upsert(word, "server", c), Skipped(word)} : work' = [work EXCEPT !["edit"] = [d \in {c} |-> saved]]
  BY DEF Edit
<1>6. Skipped(word) \in LookUps /\ LookedUp(Skipped(word), Resolved("server"))
  BY <1>4 DEF Skipped, LookUps, MetadataRows, Missing, LookedUp, Texts
<1>7. saved \in LookUps /\ LookedUp(saved, Resolved("server"))
  BY <1>2, <1>3, <1>4, <1>5, <1>6, UpsertLooksUp
<1> DEFINE new == [d \in {c} |-> saved]
<1>8. new # NoJob /\ \A d \in DOMAIN new : d \in LexCards /\ new[d] \in LookUps /\ LookedUp(new[d], Resolved("server"))
  BY <1>7, NoJobIsEmpty
<1>9. /\ UNCHANGED <<content, metadata, wrote, mixed, batch>>
      /\ \A d \in DOMAIN batch' : d \in LexCards /\ batch'[d] \in Texts
  BY DEF Edit, LexiconInv, LexiconTyped
<1> QED
  BY <1>1, <1>2, <1>5, <1>8, <1>9, LookingUpKeeps

\* A question looks up.
LEMMA AskKeeps == ASSUME LexiconInv, NEW c \in LexCards, Ask(c) PROVE LexiconInv'
<1>1. Resolve("server") /\ UNCHANGED <<file, since>>
  BY DEF Ask
<1>2. "server" \in Processes /\ "open" \in Jobs /\ Process("open") = "server"
  BY DEF Processes, Jobs, Process
<1>3. Resolved("server") \in Dictionaries
  BY <1>1, <1>2, ResolveKeeps
<1>4. content[c] \in Texts
  BY DEF LexiconInv, LexiconTyped
<1> DEFINE saved == Upsert(content[c], "server", c)
           new == [d \in {c} |-> saved]
<1>5. saved \in LookUps /\ LookedUp(saved, Resolved("server"))
  BY <1>2, <1>3, <1>4, UpsertLooksUp
<1>6. work' = [work EXCEPT !["open"] = new]
  BY DEF Ask
<1> HIDE DEF saved
<1>7. new # NoJob /\ \A d \in DOMAIN new : d \in LexCards /\ new[d] \in LookUps /\ LookedUp(new[d], Resolved("server"))
  BY <1>5, NoJobIsEmpty
<1>8. /\ UNCHANGED <<content, metadata, wrote, mixed, batch>>
      /\ \A d \in DOMAIN batch' : d \in LexCards /\ batch'[d] \in Texts
  BY DEF Ask, LexiconInv, LexiconTyped
<1> QED
  BY <1>1, <1>2, <1>6, <1>7, <1>8, LookingUpKeeps

\* The backfill looks up one card more.
LEMMA FillCardKeeps == ASSUME LexiconInv, NEW c \in LexCards, FillCard(c) PROVE LexiconInv'
<1>1. Resolve("script") /\ UNCHANGED <<file, since>>
  BY DEF FillCard
<1>2. "script" \in Processes /\ "fill" \in Jobs /\ Process("fill") = "script"
  BY DEF Processes, Jobs, Process
<1>3. Resolved("script") \in Dictionaries
      /\ \A w \in LookUps : LookedUp(w, schema["script"]) => LookedUp(w, schema'["script"])
      /\ schema'["script"] = Resolved("script")
  BY <1>1, <1>2, ResolveKeeps
<1>4. c \in DOMAIN batch /\ batch[c] \in Texts
  BY DEF FillCard, LexiconInv, LexiconTyped
<1> DEFINE saved == Upsert(batch[c], "script", c)
           old == work["fill"]
           new == [d \in DOMAIN old \cup {c} |-> IF d = c THEN saved ELSE old[d]]
<1>5. saved \in LookUps /\ LookedUp(saved, Resolved("script"))
  BY <1>2, <1>3, <1>4, UpsertLooksUp
<1>6. work' = [work EXCEPT !["fill"] = new]
  BY <1>2 DEF FillCard, LexiconInv, LexiconTyped
<1>7. \A d \in DOMAIN old : d \in LexCards /\ old[d] \in LookUps /\ LookedUp(old[d], Resolved("script"))
  <2>1. \A d \in DOMAIN old : d \in LexCards /\ old[d] \in LookUps /\ LookedUp(old[d], schema["script"])
    BY <1>2 DEF LexiconInv, LexiconTyped
  <2> HIDE DEF old
  <2> QED
    BY <1>3, <2>1
<1> HIDE DEF saved, old
<1>8. new # NoJob /\ \A d \in DOMAIN new : d \in LexCards /\ new[d] \in LookUps /\ LookedUp(new[d], Resolved("script"))
  <2>1. c \in DOMAIN new
    OBVIOUS
  <2> QED
    BY <1>5, <1>7, <2>1, NoJobIsEmpty
<1>9. /\ UNCHANGED <<content, metadata, wrote, mixed>>
      /\ \A d \in DOMAIN batch' : d \in LexCards /\ batch'[d] \in Texts
  BY DEF FillCard, LexiconInv, LexiconTyped
<1> HIDE DEF new
<1> QED
  BY <1>1, <1>2, <1>6, <1>8, <1>9, LookingUpKeeps

\* A new dictionary is newer than every process and every row.
LEMMA BuildKeeps == ASSUME LexiconInv, Build PROVE LexiconInv'
<1>1. file # "full" /\ file' = "full" /\ UNCHANGED <<schema, since, content, metadata, batch, work, wrote, mixed>>
  BY DEF Build
<1>2. LexiconTyped'
  BY <1>1 DEF LexiconInv, LexiconTyped, Dictionaries
<1>3. \A p \in Processes : KnowsIts(p)'
  BY <1>1 DEF LexiconInv, KnowsIts
<1>4. \A c \in LexCards : RowIsExplained(c)'
  BY <1>1 DEF LexiconInv, RowIsExplained
<1>5. (Idle("fill")' => schema'["script"] = "unset")
      /\ \A j \in Jobs : \A c \in DOMAIN work'[j] : LookedUp(work'[j][c], schema'[Process(j)])
  BY <1>1 DEF LexiconInv, Idle
<1> QED
  BY <1>2, <1>3, <1>4, <1>5 DEF LexiconInv

\* A pronunciation resolves the schema of the server.
LEMMA PronounceKeeps == ASSUME LexiconInv, Pronounce PROVE LexiconInv'
<1>1. /\ Resolve("server") /\ "server" \in Processes
      /\ UNCHANGED <<file, since, content, metadata, batch, work, wrote, mixed>>
  BY DEF Pronounce, Processes
<1>2. /\ schema' \in [Processes -> Dictionaries \cup {"unset"}]
      /\ \A q \in Processes \ {"server"} : schema'[q] = schema[q]
      /\ \A q \in Processes : KnowsIts(q)'
      /\ \A q \in Processes, w \in LookUps : LookedUp(w, schema[q]) => LookedUp(w, schema'[q])
  BY <1>1, ResolveKeeps
<1>3. LexiconTyped'
  BY <1>1, <1>2 DEF LexiconInv, LexiconTyped
<1>4. \A j \in Jobs : \A c \in DOMAIN work'[j] : LookedUp(work'[j][c], schema'[Process(j)])
  <2>1. \A j \in Jobs : Process(j) \in Processes
    BY DEF Process, Processes
  <2>2. \A j \in Jobs : \A c \in DOMAIN work[j] : work[j][c] \in LookUps /\ LookedUp(work[j][c], schema[Process(j)])
    BY DEF LexiconInv, LexiconTyped
  <2> QED
    BY <1>1, <1>2, <2>1, <2>2
<1>5. Idle("fill")' => schema'["script"] = "unset"
  BY <1>1, <1>2 DEF LexiconInv, Idle, Processes
<1>6. \A c \in LexCards : RowIsExplained(c)'
  BY <1>1 DEF LexiconInv, RowIsExplained
<1> QED
  BY <1>2, <1>3, <1>4, <1>5, <1>6 DEF LexiconInv

\* A new server knows nothing, and is as new as the file.
LEMMA RestartKeeps == ASSUME LexiconInv, Restart PROVE LexiconInv'
<1>1. /\ schema' = [schema EXCEPT !["server"] = "unset"] /\ since' = [since EXCEPT !["server"] = file]
      /\ work' = [work EXCEPT !["edit"] = NoJob, !["open"] = NoJob]
      /\ UNCHANGED <<file, content, metadata, batch, wrote, mixed>>
  BY DEF Restart
<1>2. /\ schema' \in [Processes -> Dictionaries \cup {"unset"}] /\ since' \in [Processes -> Dictionaries]
      /\ schema'["server"] = "unset" /\ since'["server"] = file
      /\ schema'["script"] = schema["script"] /\ since'["script"] = since["script"]
  BY <1>1 DEF LexiconInv, LexiconTyped, Processes
<1>3. /\ DOMAIN work' = Jobs /\ work'["fill"] = work["fill"]
      /\ DOMAIN work'["edit"] = {} /\ DOMAIN work'["open"] = {}
  BY <1>1, NoJobIsEmpty DEF LexiconInv, LexiconTyped, Jobs
<1>4. \A j \in Jobs : j = "fill" \/ DOMAIN work'[j] = {}
  BY <1>3 DEF Jobs
<1>5. LexiconTyped'
  BY <1>1, <1>2, <1>3, <1>4 DEF LexiconInv, LexiconTyped
<1>6. \A p \in Processes : KnowsIts(p)'
  BY <1>1, <1>2 DEF LexiconInv, KnowsIts, Processes
<1>7. \A j \in Jobs : \A c \in DOMAIN work'[j] : LookedUp(work'[j][c], schema'[Process(j)])
  BY <1>2, <1>3, <1>4 DEF LexiconInv, Process
<1>8. Idle("fill")' => schema'["script"] = "unset"
  BY <1>2, <1>3 DEF LexiconInv, Idle
<1>9. \A c \in LexCards : RowIsExplained(c)'
  BY <1>1 DEF LexiconInv, RowIsExplained
<1> QED
  BY <1>5, <1>6, <1>7, <1>8, <1>9 DEF LexiconInv

\* The script is a new process.
LEMMA BackfillKeeps == ASSUME LexiconInv, Backfill PROVE LexiconInv'
<1>1. /\ Idle("fill") /\ since' = [since EXCEPT !["script"] = file]
      /\ batch' = [c \in FirstOutdated |-> content[c]]
      /\ UNCHANGED <<file, schema, content, metadata, work, wrote, mixed>>
  BY DEF Backfill
<1>2. FirstOutdated \subseteq LexCards
  BY DEF FirstOutdated, Outdated
<1>3. since' \in [Processes -> Dictionaries] /\ since'["script"] = file /\ since'["server"] = since["server"]
  BY <1>1 DEF LexiconInv, LexiconTyped, Processes
<1>4. LexiconTyped'
  BY <1>1, <1>2, <1>3 DEF LexiconInv, LexiconTyped
<1>5. \A p \in Processes : KnowsIts(p)'
  BY <1>1, <1>3 DEF LexiconInv, KnowsIts, Processes
<1>6. (Idle("fill")' => schema'["script"] = "unset")
      /\ \A j \in Jobs : \A c \in DOMAIN work'[j] : LookedUp(work'[j][c], schema'[Process(j)])
  BY <1>1 DEF LexiconInv, Idle
<1>7. \A c \in LexCards : RowIsExplained(c)'
  BY <1>1 DEF LexiconInv, RowIsExplained
<1> QED
  BY <1>4, <1>5, <1>6, <1>7 DEF LexiconInv

\* A job that fails writes nothing.
LEMMA FailJobKeeps == ASSUME LexiconInv, NEW j \in Jobs, FailJob(j) PROVE LexiconInv'
<1>1. Leave(j) /\ work' = [work EXCEPT ![j] = NoJob] /\ UNCHANGED <<file, content, metadata, wrote, mixed>>
  BY DEF FailJob
<1>2. LexiconTyped'
  BY <1>1, LeavingKeeps DEF LexiconInv, LexiconTyped
<1>3. \A c \in LexCards : RowIsExplained(c)'
  BY <1>1 DEF LexiconInv, RowIsExplained
<1> QED
  BY <1>1, <1>2, <1>3, LeavingKeeps DEF LexiconInv

\* What an UPDATE makes of a row: all it wanted if the row is as it was read.
LEMMA WrittenIs ==
    ASSUME NEW c, metadata[c] \in MetadataRows, NEW w \in LookUps, CanWrite(c, w)
    PROVE  /\ Written(c, w) \in MetadataRows
           /\ w.read = Missing /\ w.put = Missing => Written(c, w) = metadata[c]
           /\ w.read # Missing /\ w.put = Missing => Written(c, w) = Missing
           /\ w.put # Missing /\ metadata[c] = w.read => Written(c, w) = w.put
<1>1. /\ w.read \in MetadataRows /\ w.put \in MetadataRows /\ Missing \in MetadataRows
  BY DEF LookUps, Missing, MetadataRows, Texts
<1>2. DOMAIN Missing = {"content", "hit", "frq"}
  BY DEF Missing
<1> DEFINE Columns(old, row, put) ==
              [column \in DOMAIN Missing |-> IF put[column] # old[column] THEN put[column] ELSE row[column]]
<1>3. CASE w.read # Missing /\ w.put # Missing
  <2>1. Written(c, w) = Columns(w.read, metadata[c], w.put)
    BY <1>3 DEF Written
  <2>2. ASSUME NEW old \in MetadataRows, NEW row \in MetadataRows, NEW put \in MetadataRows
        PROVE  /\ Columns(old, row, put) \in MetadataRows
               /\ row = old => Columns(old, row, put) = put
    <3>1. /\ Columns(old, row, put) =
                [content |-> IF put.content # old.content THEN put.content ELSE row.content,
                 hit |-> IF put.hit # old.hit THEN put.hit ELSE row.hit,
                 frq |-> IF put.frq # old.frq THEN put.frq ELSE row.frq]
      BY <1>2
    <3>2. put = [content |-> put.content, hit |-> put.hit, frq |-> put.frq]
      BY DEF MetadataRows
    <3> HIDE DEF Columns
    <3>3. Columns(old, row, put) \in MetadataRows
      BY <3>1 DEF MetadataRows
    <3>4. ASSUME row = old PROVE Columns(old, row, put) = put
      BY <3>1, <3>2, <3>4
    <3> QED
      BY <3>3, <3>4
  <2> HIDE DEF Columns
  <2> QED
    BY <1>1, <1>3, <2>1, <2>2
<1>4. CASE w.read = Missing \/ w.put = Missing
  BY <1>1, <1>4 DEF Written, CanWrite
<1> QED
  BY <1>3, <1>4

\* What is written is what was looked up, or a mixture that is known as one.
LEMMA CommitJobKeeps == ASSUME LexiconInv, NEW j \in Jobs, CommitJob(j) PROVE LexiconInv'
<1> DEFINE p == Process(j)
           W == work[j]
<1>1. /\ Leave(j) /\ work' = [work EXCEPT ![j] = NoJob] /\ file' = file
      /\ \A c \in DOMAIN W : CanWrite(c, W[c])
      /\ metadata' = [c \in LexCards |-> IF c \in DOMAIN W THEN Written(c, W[c]) ELSE metadata[c]]
      /\ content' = [c \in LexCards |-> IF j = "edit" /\ c \in DOMAIN W THEN W[c].content ELSE content[c]]
      /\ wrote' = [c \in LexCards |-> IF metadata'[c] = Missing THEN "none" ELSE IF c \in Touched(j) THEN since[p] ELSE wrote[c]]
      /\ mixed' = (mixed \ Touched(j)) \cup {c \in Touched(j) : metadata[c] # W[c].read /\ W[c].put # Missing}
  BY DEF CommitJob
<1>2. /\ \A c \in DOMAIN W : c \in LexCards /\ W[c] \in LookUps /\ LookedUp(W[c], schema[p])
      /\ \A c \in LexCards : metadata[c] \in MetadataRows /\ wrote[c] \in Dictionaries /\ content[c] \in Texts
      /\ p \in Processes /\ since[p] \in Dictionaries
  BY DEF LexiconInv, LexiconTyped, Process, Processes
<1>3. Touched(j) = {c \in DOMAIN W : ~(W[c].read = Missing /\ W[c].put = Missing)}
  BY DEF Touched
<1> HIDE DEF p, W
<1>4. \A c \in LexCards : metadata'[c] \in MetadataRows
  BY <1>1, <1>2, WrittenIs
<1>5. metadata' \in [LexCards -> MetadataRows] /\ content' \in [LexCards -> Texts] /\ wrote' \in [LexCards -> Dictionaries]
  <2>1. \A c \in DOMAIN W : W[c].content \in Texts
    BY <1>2 DEF LookUps
  <2>2. "none" \in Dictionaries
    BY DEF Dictionaries
  <2> QED
    BY <1>1, <1>2, <1>4, <2>1, <2>2
<1>6. LexiconTyped'
  BY <1>1, <1>5, LeavingKeeps DEF LexiconInv, LexiconTyped
<1>7. ASSUME NEW c \in LexCards PROVE RowIsExplained(c)'
  <2>1. RowIsExplained(c) /\ KnowsIts(p)
    BY <1>2 DEF LexiconInv
  <2>2. wrote'[c] = "full" => file = "full"
    BY <1>1, <2>1 DEF RowIsExplained, KnowsIts
  <2>3. CASE c \notin Touched(j)
    <3>1. metadata'[c] = metadata[c]
      BY <1>1, <1>2, <1>3, <2>3, WrittenIs
    <3>2. (c \in mixed => c \in mixed') /\ (metadata'[c] = Missing \/ wrote'[c] = wrote[c])
      BY <1>1, <2>3
    <3> QED
      BY <1>1, <2>1, <2>2, <3>1, <3>2 DEF RowIsExplained
  <2>4. CASE c \in Touched(j)
    <3> DEFINE w == W[c]
    <3>1. c \in DOMAIN W /\ w \in LookUps /\ LookedUp(w, schema[p]) /\ CanWrite(c, w)
          /\ metadata'[c] = Written(c, w) /\ ~(w.read = Missing /\ w.put = Missing)
      BY <1>1, <1>2, <1>3, <2>4
    <3>2. SUFFICES ASSUME metadata'[c] # Missing, wrote'[c] = file, c \notin mixed'
                   PROVE  metadata'[c] = Put(metadata'[c].content, file, Missing)
      BY <1>1, <2>2 DEF RowIsExplained
    <3>3. since[p] = file
      BY <1>1, <2>4, <3>2
    <3>4. ~(metadata[c] # w.read /\ w.put # Missing)
      BY <1>1, <2>4, <3>2
    <3> HIDE DEF w
    <3>5. w.put # Missing /\ metadata'[c] = w.put
      BY <1>2, <3>1, <3>2, <3>4, WrittenIs
    <3>6. w.put = Put(w.content, file, Missing)
      BY <2>1, <3>1, <3>3, <3>5 DEF KnowsIts, LookedUp
    <3>7. w.content \in Texts /\ file \in Dictionaries
      BY <3>1 DEF LookUps, LexiconInv, LexiconTyped
    <3>8. w.put.content = w.content
      BY <3>5, <3>6, <3>7, PutIsOf
    <3> QED
      BY <3>5, <3>6, <3>8
  <2> QED
    BY <2>3, <2>4
<1> QED
  BY <1>1, <1>6, <1>7, LeavingKeeps DEF LexiconInv

\* Every step preserves the invariant.
LEMMA LexiconKeeps == LexiconInv /\ [LexiconNext]_lexiconVars => LexiconInv'
<1> SUFFICES ASSUME LexiconInv, [LexiconNext]_lexiconVars PROVE LexiconInv'
  OBVIOUS
<1>1. CASE Build \/ Pronounce \/ Restart \/ Backfill
  BY <1>1, BuildKeeps, PronounceKeeps, RestartKeeps, BackfillKeeps
<1>2. CASE \E c \in LexCards : (\E word \in LexWords : Edit(c, word)) \/ Ask(c) \/ FillCard(c)
  BY <1>2, EditKeeps, AskKeeps, FillCardKeeps
<1>3. CASE \E j \in Jobs : CommitJob(j) \/ FailJob(j)
  BY <1>3, CommitJobKeeps, FailJobKeeps
<1>4. CASE UNCHANGED lexiconVars
  BY <1>4 DEF lexiconVars, LexiconInv, LexiconTyped, KnowsIts, Idle, RowIsExplained
<1> QED
  BY <1>1, <1>2, <1>3, <1>4 DEF LexiconNext

\* For any cards and words, and however edits, questions, backfills, restarts and the
\* building of the dictionary interleave: a row that fits its card is what the dictionary
\* says now, unless its writer was a process older than the dictionary or two transactions
\* each wrote some of its columns (ecdict_service.py, lexical_metadata.py).
THEOREM WrongRowsAreExplained == LexiconSpec => []MetadataIsExplained
<1>1. LexiconInv => MetadataIsExplained
  BY DEF LexiconInv, RowIsExplained, MetadataIsExplained, FitsCard
<1> QED
  BY <1>1, LexiconStarts, LexiconKeeps, PTL DEF LexiconSpec

-----------------------------------------------------------------------------
(* The reports of the reviews.                                             *)

\* The marks of each kind; the items that were done since there are answer logs.
RightOnes(logs) == {k \in DOMAIN logs : logs[k].right}
WrongOnes(logs) == {k \in DOMAIN logs : ~logs[k].right}
NewlyDone(items) == {i \in DOMAIN items : items[i].done /\ items[i].result = "none"}

Marks == [card : ReportCards, right : BOOLEAN]

\* A session has an answer log for each item that was done since there are any.
SheetInv ==
    /\ sheet \in [status : {"active", "completed"}, items : Seq(SheetItems)]
    /\ marked \in Seq(Marks)
    /\ \A i \in DOMAIN sheet.items : ~sheet.items[i].done => sheet.items[i].result = "none"
    /\ sheet.status = "completed" => \A i \in DOMAIN sheet.items : sheet.items[i].done
    /\ Cardinality(NewlyDone(sheet.items)) = Len(marked)

SumFields == {"at", "status", "answers", "cards", "right", "wrong", "graded"}
Completed == sum.status = "completed"

\* What has been read is not ahead of what is to be read, and is all there is if the
\* session was completed.
SumInv ==
    /\ DOMAIN sum = SumFields
    /\ sum.answers \in Nat /\ sum.cards \in Nat /\ sum.right \in Nat /\ sum.wrong \in Nat
    /\ sum.at # "start" /\ Completed => sheet.status = "completed"
    /\ sum.at = "items" /\ Completed => marked = <<>>
    /\ sum.at \in {"cards", "right", "wrong", "summed"} =>
        /\ sum.answers <= Len(marked)
        /\ Completed => sum.answers = Len(marked)
    /\ sum.at = "right" => sum.cards <= Len(marked)
    /\ sum.at = "wrong" =>
        /\ sum.answers <= sum.right + Cardinality(WrongOnes(marked))
        /\ sum.cards <= sum.right + Cardinality(WrongOnes(marked))
        /\ Completed => sum.answers = sum.right + Cardinality(WrongOnes(marked))
    /\ sum.at = "summed" =>
        /\ sum.answers <= sum.right + sum.wrong /\ sum.cards <= sum.right + sum.wrong
        /\ Completed => sum.answers = sum.right + sum.wrong
    /\ sum.at = "graded" =>
        /\ sum.cards <= sum.answers
        /\ Completed =>
            /\ sum.answers = Len(sheet.items)
            /\ sum.answers = sum.graded["forgot"] + sum.graded["shaky"] + sum.graded["got_it"] + sum.graded["fluent"]

-----------------------------------------------------------------------------

\* Counting in two parts, and in four.
LEMMA TwoParts ==
    ASSUME NEW S, IsFiniteSet(S), NEW A, NEW B, A \cup B = S, A \cap B = {}
    PROVE  /\ IsFiniteSet(A) /\ IsFiniteSet(B)
           /\ Cardinality(A) \in Nat /\ Cardinality(B) \in Nat
           /\ Cardinality(S) = Cardinality(A) + Cardinality(B)
<1>1. A \in SUBSET S /\ B \in SUBSET S
  OBVIOUS
<1>2. IsFiniteSet(A) /\ IsFiniteSet(B)
  BY <1>1, FS_Subset
<1>3. Cardinality(A \cap B) = 0
  BY FS_EmptySet
<1>4. Cardinality(A \cup B) = Cardinality(A) + Cardinality(B) - Cardinality(A \cap B)
  BY <1>2, FS_Union
<1>5. Cardinality(A) \in Nat /\ Cardinality(B) \in Nat
  BY <1>2, FS_CardinalityType
<1>6. Cardinality(S) = Cardinality(A) + Cardinality(B) - 0
  BY <1>3, <1>4
<1> QED
  BY <1>2, <1>5, <1>6

\* A set that four grades share out has as many elements as they have together.
LEMMA FourParts ==
    ASSUME NEW S, IsFiniteSet(S), NEW part \in [Grades -> SUBSET S],
           \A x \in S : \E g \in Grades : x \in part[g],
           \A g, h \in Grades : g # h => part[g] \cap part[h] = {}
    PROVE  /\ \A g \in Grades : Cardinality(part[g]) \in Nat
           /\ Cardinality(S) = Cardinality(part["forgot"]) + Cardinality(part["shaky"])
                                 + Cardinality(part["got_it"]) + Cardinality(part["fluent"])
<1> DEFINE A == part["forgot"]  B == part["shaky"]  C == part["got_it"]  D == part["fluent"]
<1>1. A \subseteq S /\ B \subseteq S /\ C \subseteq S /\ D \subseteq S
  BY DEF Grades
<1>2. S = A \cup (B \cup (C \cup D))
  <2>1. \A x \in S : x \in A \/ x \in B \/ x \in C \/ x \in D
    BY DEF Grades
  <2> HIDE DEF A, B, C, D
  <2> QED
    BY <1>1, <2>1
<1>3. /\ A \cap B = {} /\ A \cap C = {} /\ A \cap D = {}
      /\ B \cap C = {} /\ B \cap D = {} /\ C \cap D = {}
  BY DEF Grades
<1>4. \A g \in Grades : Cardinality(part[g]) \in Nat
  <2> SUFFICES ASSUME NEW g \in Grades PROVE Cardinality(part[g]) \in Nat
    OBVIOUS
  <2>1. part[g] \in SUBSET S
    OBVIOUS
  <2>2. IsFiniteSet(part[g])
    BY <2>1, FS_Subset
  <2> QED
    BY <2>2, FS_CardinalityType
<1> HIDE DEF A, B, C, D
<1>5. IsFiniteSet(B \cup (C \cup D)) /\ IsFiniteSet(C \cup D)
  <2>1. (B \cup (C \cup D)) \in SUBSET S /\ (C \cup D) \in SUBSET S
    BY <1>1
  <2> QED
    BY <2>1, FS_Subset
<1>6. Cardinality(S) = Cardinality(A) + Cardinality(B \cup (C \cup D))
  <2>1. A \cap (B \cup (C \cup D)) = {}
    BY <1>3
  <2> QED
    BY <1>2, <2>1, TwoParts
<1>7. Cardinality(B \cup (C \cup D)) = Cardinality(B) + Cardinality(C \cup D)
  <2> DEFINE E == C \cup D
             S2 == B \cup E
  <2>1. B \cap E = {} /\ IsFiniteSet(S2) /\ B \cup E = S2
    BY <1>3, <1>5
  <2> HIDE DEF E, S2
  <2>2. Cardinality(S2) = Cardinality(B) + Cardinality(E)
    BY <2>1, TwoParts
  <2> QED
    BY <2>2 DEF E, S2
<1>8. Cardinality(C \cup D) = Cardinality(C) + Cardinality(D)
  BY <1>3, <1>5, TwoParts
<1>9. /\ Cardinality(A) \in Nat /\ Cardinality(B) \in Nat
      /\ Cardinality(C) \in Nat /\ Cardinality(D) \in Nat
  BY <1>4 DEF Grades, A, B, C, D
<1>10. Cardinality(S) = Cardinality(A) + Cardinality(B) + Cardinality(C) + Cardinality(D)
  BY <1>6, <1>7, <1>8, <1>9
<1> QED
  BY <1>4, <1>10 DEF A, B, C, D

\* A function has no more values than arguments.
LEMMA FewerValues ==
    ASSUME NEW S, IsFiniteSet(S), NEW f, DOMAIN f = S
    PROVE  LET T == {f[x] : x \in S} IN
           IsFiniteSet(T) /\ Cardinality(T) \in Nat /\ Cardinality(T) <= Cardinality(S)
<1> DEFINE T == {f[x] : x \in S}
           g == [x \in S |-> f[x]]
<1>1. g \in Surjection(S, T)
  BY DEF Surjection
<1> HIDE DEF g
<1>2. IsFiniteSet(T) /\ Cardinality(T) <= Cardinality(S)
  BY <1>1, FS_Surjection
<1> QED
  BY <1>2, FS_CardinalityType

\* The marks are the right ones and the wrong ones.
LEMMA MarksInTwo ==
    ASSUME NEW logs \in Seq(Marks)
    PROVE  /\ IsFiniteSet(DOMAIN logs) /\ Cardinality(DOMAIN logs) = Len(logs)
           /\ Cardinality(RightOnes(logs)) \in Nat /\ Cardinality(WrongOnes(logs)) \in Nat
           /\ IsFiniteSet(WrongOnes(logs))
           /\ Len(logs) = Cardinality(RightOnes(logs)) + Cardinality(WrongOnes(logs))
<1>1. DOMAIN logs = 1..Len(logs) /\ Len(logs) \in Nat
  OBVIOUS
<1>2. IsFiniteSet(DOMAIN logs) /\ Cardinality(DOMAIN logs) = Len(logs)
  BY <1>1, FS_Interval
<1>3. RightOnes(logs) \cup WrongOnes(logs) = DOMAIN logs /\ RightOnes(logs) \cap WrongOnes(logs) = {}
  BY DEF RightOnes, WrongOnes
<1> QED
  BY <1>2, <1>3, TwoParts

-----------------------------------------------------------------------------

\* A session that nobody has answered since there are answer logs has none.
LEMMA SheetBegins == ReportInit => SheetInv /\ SumInv
<1> SUFFICES ASSUME ReportInit PROVE SheetInv /\ SumInv
  OBVIOUS
<1>1. sheet \in [status : {"active", "completed"}, items : Seq(SheetItems)] /\ marked = <<>>
  BY ReportAssumption DEF ReportInit
<1>2. NewlyDone(sheet.items) = {}
  BY ReportAssumption DEF ReportInit, NewlyDone
<1>3. Cardinality(NewlyDone(sheet.items)) = Len(marked)
  BY <1>1, <1>2, FS_EmptySet
<1>4. SheetInv
  <2>1. marked \in Seq(Marks)
    BY <1>1
  <2>2. /\ \A i \in DOMAIN sheet.items : ~sheet.items[i].done => sheet.items[i].result = "none"
        /\ sheet.status = "completed" => \A i \in DOMAIN sheet.items : sheet.items[i].done
    BY ReportAssumption DEF ReportInit
  <2> QED
    BY <1>1, <1>3, <2>1, <2>2 DEF SheetInv
<1>5. SumInv
  BY DEF ReportInit, SumInv, SumFields, Unasked, Completed
<1> QED
  BY <1>4, <1>5

\* What an answer does to the session.
LEMMA AnswerIsMarked ==
    ASSUME SheetInv, NEW i \in DOMAIN sheet.items, NEW right \in BOOLEAN, AnswerItem(i, right)
    PROVE  SheetInv' /\ sheet.status = "active" /\ (\E x \in Marks : marked' = Append(marked, x))
<1> DEFINE items == [sheet.items EXCEPT ![i].done = TRUE]
           card == items[i].card
           back == [card |-> card, repeat |-> TRUE, done |-> FALSE, result |-> "none"]
           mark == [card |-> card, right |-> right]
<1>1. /\ sheet.status = "active" /\ ~sheet.items[i].done
      /\ marked' = Append(marked, mark)
      /\ \E repeated \in {items, Append(items, back)} : sheet' = [status |-> StatusOf(items, repeated), items |-> repeated]
  BY DEF AnswerItem
<1>2. PICK repeated \in {items, Append(items, back)} : sheet' = [status |-> StatusOf(items, repeated), items |-> repeated]
  BY <1>1
<1>3. sheet.items \in Seq(SheetItems) /\ i \in 1..Len(sheet.items) /\ sheet.items[i] \in SheetItems
  BY DEF SheetInv
<1>4. /\ items \in Seq(SheetItems) /\ DOMAIN items = DOMAIN sheet.items
      /\ items[i].done /\ items[i].result = "none"
      /\ \A j \in DOMAIN items : j # i => items[j] = sheet.items[j]
  <2>1. /\ [sheet.items[i] EXCEPT !.done = TRUE] \in SheetItems
        /\ [sheet.items[i] EXCEPT !.done = TRUE].done
        /\ [sheet.items[i] EXCEPT !.done = TRUE].result = sheet.items[i].result
    BY <1>3 DEF SheetItems
  <2>2. sheet.items[i].result = "none"
    BY <1>1 DEF SheetInv
  <2> QED
    BY <1>3, <2>1, <2>2
<1>5. card \in ReportCards /\ mark \in Marks /\ back \in SheetItems
  BY <1>3, <1>4 DEF SheetItems, Marks
<1> HIDE DEF items, card, back, mark
<1>6. /\ repeated \in Seq(SheetItems)
      /\ \A j \in DOMAIN items : j \in DOMAIN repeated /\ repeated[j] = items[j]
      /\ \A j \in DOMAIN repeated : j \in DOMAIN items \/ repeated[j] = back
  <2>1. CASE repeated = items
    BY <1>4, <2>1
  <2>2. CASE repeated = Append(items, back)
    <3>1. /\ Append(items, back) \in Seq(SheetItems)
          /\ DOMAIN Append(items, back) = 1..(Len(items) + 1)
          /\ Append(items, back)[Len(items) + 1] = back
          /\ \A j \in 1..Len(items) : Append(items, back)[j] = items[j]
          /\ DOMAIN items = 1..Len(items) /\ Len(items) \in Nat
      BY <1>4, <1>5
    <3>2. \A j \in 1..(Len(items) + 1) : j \in 1..Len(items) \/ j = Len(items) + 1
      BY <3>1
    <3> QED
      BY <2>2, <3>1, <3>2
  <2> QED
    BY <2>1, <2>2
<1>7. back.done = FALSE /\ back.result = "none"
  BY DEF back
<1>8. sheet'.items = repeated /\ sheet'.status = StatusOf(items, repeated)
  BY <1>2
<1>9. sheet' \in [status : {"active", "completed"}, items : Seq(SheetItems)]
  BY <1>2, <1>6 DEF StatusOf
<1>10. marked' \in Seq(Marks) /\ Len(marked') = Len(marked) + 1
  BY <1>1, <1>5 DEF SheetInv
<1>11. \A j \in DOMAIN repeated : ~repeated[j].done => repeated[j].result = "none"
  BY <1>4, <1>6, <1>7 DEF SheetInv
<1>12. sheet'.status = "completed" => \A j \in DOMAIN repeated : repeated[j].done
  BY <1>8 DEF StatusOf
<1>13. NewlyDone(repeated) = NewlyDone(sheet.items) \cup {i} /\ i \notin NewlyDone(sheet.items)
  BY <1>1, <1>3, <1>4, <1>6, <1>7 DEF NewlyDone
<1>14. IsFiniteSet(NewlyDone(sheet.items))
  <2>1. IsFiniteSet(1..Len(sheet.items)) /\ NewlyDone(sheet.items) \in SUBSET (1..Len(sheet.items))
    <3>1. Len(sheet.items) \in Nat /\ DOMAIN sheet.items = 1..Len(sheet.items)
      BY <1>3
    <3>2. IsFiniteSet(1..Len(sheet.items))
      BY <3>1, FS_Interval
    <3> QED
      BY <3>1, <3>2 DEF NewlyDone
  <2> QED
    BY <2>1, FS_Subset
<1>15. Cardinality(NewlyDone(repeated)) = Len(marked')
  <2>1. Cardinality(NewlyDone(sheet.items) \cup {i}) = Cardinality(NewlyDone(sheet.items)) + 1
    BY <1>13, <1>14, FS_AddElement
  <2>2. Cardinality(NewlyDone(sheet.items)) = Len(marked)
    BY DEF SheetInv
  <2> QED
    BY <1>10, <1>13, <2>1, <2>2
<1>16. SheetInv'
  BY <1>8, <1>9, <1>10, <1>11, <1>12, <1>15 DEF SheetInv
<1> QED
  BY <1>1, <1>5, <1>16

\* An answer moves the counts that are still to be read, and only of a session that was
\* not completed.
LEMMA AnswerKeepsSum ==
    ASSUME SheetInv, SumInv, NEW i \in DOMAIN sheet.items, NEW right \in BOOLEAN, AnswerItem(i, right)
    PROVE  SumInv'
<1>1. sum' = sum
  BY DEF AnswerItem
<1>2. SheetInv' /\ sheet.status = "active" /\ (\E x \in Marks : marked' = Append(marked, x))
  BY AnswerIsMarked
<1>3. PICK x \in Marks : marked' = Append(marked, x)
  BY <1>2
<1>4. Len(marked') = Len(marked) + 1 /\ Len(marked) \in Nat
  BY <1>3 DEF SheetInv
<1>5. /\ Cardinality(WrongOnes(marked)) <= Cardinality(WrongOnes(marked'))
      /\ Cardinality(WrongOnes(marked)) \in Nat /\ Cardinality(WrongOnes(marked')) \in Nat
  <2>1. marked \in Seq(Marks) /\ marked' \in Seq(Marks)
    BY <1>2 DEF SheetInv
  <2>2. \A k \in DOMAIN marked : k \in DOMAIN marked' /\ marked'[k] = marked[k]
    BY <1>3, <2>1
  <2>3. WrongOnes(marked) \in SUBSET WrongOnes(marked')
    BY <2>2 DEF WrongOnes
  <2> QED
    BY <2>1, <2>3, MarksInTwo, FS_Subset
<1>6. ~Completed \/ sum.at = "start"
  BY <1>2 DEF SumInv
<1>7. Completed' = Completed
  BY <1>1 DEF Completed
<1> QED
  BY <1>1, <1>4, <1>5, <1>6, <1>7 DEF SumInv

\* Each statement of the reader.
LEMMA ReaderKeepsSum ==
    ASSUME SheetInv, SumInv,
           ReadStatus \/ CountAnswers \/ CountCards \/ CountRight \/ CountWrong \/ ReadOldItems
    PROVE  SumInv'
<1>1. UNCHANGED <<sheet, marked>>
  BY DEF ReadStatus, CountAnswers, CountCards, CountRight, CountWrong, ReadOldItems, ReadsSession
<1>2. marked \in Seq(Marks) /\ Len(marked) \in Nat
  BY DEF SheetInv
<1>3. /\ IsFiniteSet(DOMAIN marked) /\ Cardinality(DOMAIN marked) = Len(marked)
      /\ Cardinality(RightOnes(marked)) \in Nat /\ Cardinality(WrongOnes(marked)) \in Nat
      /\ Len(marked) = Cardinality(RightOnes(marked)) + Cardinality(WrongOnes(marked))
  BY <1>2, MarksInTwo
<1>4. CASE ReadStatus
  BY <1>1, <1>4 DEF ReadStatus, ReadsSession, SumInv, SumFields, Unasked, Completed
<1>5. CASE CountAnswers
  <2>1. /\ sum' = [sum EXCEPT !.at = IF marked = <<>> THEN "items" ELSE "cards", !.answers = Len(marked)]
        /\ sum.at = "answers"
    BY <1>5 DEF CountAnswers, ReadsSession
  <2>2. /\ sum'.at \in {"items", "cards"} /\ (sum'.at = "items" => marked = <<>>) /\ sum'.answers = Len(marked)
        /\ sum'.status = sum.status /\ sum'.cards = sum.cards /\ sum'.right = sum.right /\ sum'.wrong = sum.wrong
        /\ DOMAIN sum' = SumFields
    BY <2>1 DEF SumInv, SumFields
  <2> QED
    BY <1>1, <1>2, <2>1, <2>2 DEF SumInv, Completed
<1>6. CASE CountCards
  <2> DEFINE cards == {marked[k].card : k \in DOMAIN marked}
             f == [k \in DOMAIN marked |-> marked[k].card]
  <2>1. Cardinality(cards) \in Nat /\ Cardinality(cards) <= Len(marked)
    <3>1. cards = {f[k] : k \in DOMAIN marked} /\ DOMAIN f = DOMAIN marked
      OBVIOUS
    <3> HIDE DEF f, cards
    <3> QED
      BY <3>1, <1>3, FewerValues
  <2>2. sum' = [sum EXCEPT !.at = "right", !.cards = Cardinality(cards)] /\ sum.at = "cards"
    BY <1>6 DEF CountCards, ReadsSession
  <2> HIDE DEF cards
  <2>3. /\ sum'.at = "right" /\ sum'.cards = Cardinality(cards) /\ sum'.answers = sum.answers
        /\ sum'.status = sum.status /\ sum'.right = sum.right /\ sum'.wrong = sum.wrong
        /\ DOMAIN sum' = SumFields
    BY <2>2 DEF SumInv, SumFields
  <2> QED
    BY <1>1, <1>2, <2>1, <2>2, <2>3 DEF SumInv, Completed
<1>7. CASE CountRight
  <2>1. sum' = [sum EXCEPT !.at = "wrong", !.right = Cardinality(RightOnes(marked))] /\ sum.at = "right"
    BY <1>7 DEF CountRight, ReadsSession, RightOnes
  <2>2. /\ sum'.at = "wrong" /\ sum'.right = Cardinality(RightOnes(marked)) /\ sum'.answers = sum.answers
        /\ sum'.status = sum.status /\ sum'.cards = sum.cards /\ sum'.wrong = sum.wrong
        /\ DOMAIN sum' = SumFields
    BY <2>1 DEF SumInv, SumFields
  <2> QED
    BY <1>1, <1>2, <1>3, <2>1, <2>2 DEF SumInv, Completed
<1>8. CASE CountWrong
  <2>1. sum' = [sum EXCEPT !.at = "summed", !.wrong = Cardinality(WrongOnes(marked))] /\ sum.at = "wrong"
    BY <1>8 DEF CountWrong, ReadsSession, WrongOnes
  <2>2. /\ sum'.at = "summed" /\ sum'.wrong = Cardinality(WrongOnes(marked)) /\ sum'.answers = sum.answers
        /\ sum'.status = sum.status /\ sum'.cards = sum.cards /\ sum'.right = sum.right
        /\ DOMAIN sum' = SumFields
    BY <2>1 DEF SumInv, SumFields
  <2> QED
    BY <1>1, <1>2, <1>3, <2>1, <2>2 DEF SumInv, Completed
<1>9. CASE ReadOldItems
  <2> DEFINE done == {i \in DOMAIN sheet.items : sheet.items[i].done}
             cards == {sheet.items[i].card : i \in done}
             f == [i \in done |-> sheet.items[i].card]
             with == [g \in Grades |-> {i \in done : sheet.items[i].result = g}]
             graded == [g \in Grades |-> Cardinality(with[g])]
  <2>1. sheet.items \in Seq(SheetItems) /\ DOMAIN sheet.items = 1..Len(sheet.items) /\ Len(sheet.items) \in Nat
    BY DEF SheetInv
  <2>2. IsFiniteSet(DOMAIN sheet.items) /\ Cardinality(DOMAIN sheet.items) = Len(sheet.items)
    BY <2>1, FS_Interval
  <2>3. IsFiniteSet(done) /\ Cardinality(done) \in Nat
    <3>1. done \in SUBSET DOMAIN sheet.items
      OBVIOUS
    <3> QED
      BY <2>2, <3>1, FS_Subset, FS_CardinalityType
  <2>4. Cardinality(cards) \in Nat /\ Cardinality(cards) <= Cardinality(done)
    <3>1. cards = {f[i] : i \in done} /\ DOMAIN f = done
      OBVIOUS
    <3> HIDE DEF f, cards, done
    <3> QED
      BY <3>1, <2>3, FewerValues
  <2>5. /\ sum.at = "items"
        /\ sum' = [sum EXCEPT !.at = "graded", !.answers = Cardinality(done), !.cards = Cardinality(cards),
                              !.graded = [g \in Grades |-> Cardinality({i \in done : sheet.items[i].result = g})]]
    BY <1>9 DEF ReadOldItems, ReadsSession
  <2>6. graded = [g \in Grades |-> Cardinality({i \in done : sheet.items[i].result = g})]
    OBVIOUS
  <2>7. ASSUME Completed
        PROVE  /\ Cardinality(done) = Len(sheet.items)
               /\ Cardinality(done) = graded["forgot"] + graded["shaky"] + graded["got_it"] + graded["fluent"]
    <3>1. sheet.status = "completed" /\ marked = <<>>
      BY <2>5, <2>7 DEF SumInv
    <3>2. done = DOMAIN sheet.items
      BY <3>1 DEF SheetInv
    <3>3. NewlyDone(sheet.items) = {}
      <4>1. Cardinality(NewlyDone(sheet.items)) = 0
        BY <3>1 DEF SheetInv
      <4>2. NewlyDone(sheet.items) \in SUBSET DOMAIN sheet.items
        BY DEF NewlyDone
      <4>3. IsFiniteSet(NewlyDone(sheet.items))
        BY <4>2, <2>2, FS_Subset
      <4> QED
        BY <4>1, <4>3, FS_EmptySet
    <3>4. \A i \in done : sheet.items[i].result \in Grades
      <4> SUFFICES ASSUME NEW i \in DOMAIN sheet.items PROVE sheet.items[i].result \in Grades
        BY <3>2
      <4>1. sheet.items[i] \in SheetItems
        BY <2>1
      <4>2. sheet.items[i].done /\ i \notin NewlyDone(sheet.items)
        BY <3>2, <3>3
      <4> QED
        BY <4>1, <4>2 DEF NewlyDone, SheetItems
    <3>5. /\ with \in [Grades -> SUBSET done]
          /\ \A i \in done : \E g \in Grades : i \in with[g]
          /\ \A g, h \in Grades : g # h => with[g] \cap with[h] = {}
      BY <3>4
    <3> HIDE DEF with, done
    <3>6. Cardinality(done) = Cardinality(with["forgot"]) + Cardinality(with["shaky"])
                                + Cardinality(with["got_it"]) + Cardinality(with["fluent"])
      BY <2>3, <3>5, FourParts
    <3>7. \A g \in Grades : graded[g] = Cardinality(with[g])
      OBVIOUS
    <3> QED
      BY <2>2, <3>2, <3>6, <3>7 DEF Grades
  <2> HIDE DEF done, cards, graded
  <2>8. sum' = [sum EXCEPT !.at = "graded", !.answers = Cardinality(done), !.cards = Cardinality(cards), !.graded = graded]
    BY <2>5, <2>6
  <2>9. /\ sum'.at = "graded" /\ sum'.answers = Cardinality(done) /\ sum'.cards = Cardinality(cards)
        /\ sum'.graded = graded
        /\ sum'.status = sum.status /\ sum'.right = sum.right /\ sum'.wrong = sum.wrong
        /\ DOMAIN sum' = SumFields
    BY <2>8 DEF SumInv, SumFields
  <2> QED
    BY <1>1, <2>3, <2>4, <2>5, <2>7, <2>9 DEF SumInv, Completed
<1> QED
  BY <1>4, <1>5, <1>6, <1>7, <1>8, <1>9

\* The session's part of the property follows.
LEMMA SummariesHold == SheetInv /\ SumInv => SummariesAddUp
<1> SUFFICES ASSUME SheetInv, SumInv PROVE SummariesAddUp
  OBVIOUS
<1>1. ASSUME sum.at = "summed", Completed
      PROVE  sum.answers = Cardinality({i \in DOMAIN sheet.items : sheet.items[i].result = "none"})
  <2>1. \A i \in DOMAIN sheet.items : sheet.items[i].done
    BY <1>1 DEF SheetInv, SumInv
  <2>2. NewlyDone(sheet.items) = {i \in DOMAIN sheet.items : sheet.items[i].result = "none"}
    BY <2>1 DEF NewlyDone
  <2>3. sum.answers = Len(marked) /\ Cardinality(NewlyDone(sheet.items)) = Len(marked)
    BY <1>1 DEF SumInv, SheetInv
  <2> QED
    BY <2>2, <2>3
<1> QED
  BY <1>1 DEF SumInv, SummariesAddUp, Completed

\* Every step of the session's part keeps its invariants.
LEMMA SessionStays ==
    SheetInv /\ SumInv /\ (SummaryNext \/ UNCHANGED sessionVars) => SheetInv' /\ SumInv'
<1> SUFFICES ASSUME SheetInv, SumInv, SummaryNext \/ UNCHANGED sessionVars PROVE SheetInv' /\ SumInv'
  OBVIOUS
<1>1. CASE \E i \in DOMAIN sheet.items, right \in BOOLEAN : AnswerItem(i, right)
  BY <1>1, AnswerIsMarked, AnswerKeepsSum
<1>2. CASE ReadStatus \/ CountAnswers \/ CountCards \/ CountRight \/ CountWrong \/ ReadOldItems
  <2>1. UNCHANGED <<sheet, marked>>
    BY <1>2 DEF ReadStatus, CountAnswers, CountCards, CountRight, CountWrong, ReadOldItems, ReadsSession
  <2>2. SheetInv'
    BY <2>1 DEF SheetInv
  <2> QED
    BY <1>2, <2>2, ReaderKeepsSum
<1>3. CASE UNCHANGED sessionVars
  BY <1>3 DEF sessionVars, SheetInv, SumInv, Completed
<1> QED
  BY <1>1, <1>2, <1>3 DEF SummaryNext

-----------------------------------------------------------------------------

LedgerTyped == ledger \in Seq(OldLogs)
CardsOf(logs) == {ledger[l].card : l \in logs}
Ahead(logs, l) ==
    {k \in logs : ledger[k].at > ledger[l].at \/ (ledger[k].at = ledger[l].at /\ ledger[k].card < ledger[l].card)}
OneEach(logs) == \A k, l \in logs : ledger[k].card = ledger[l].card => k = l

\* The logs are finitely many, and so are their cards.
LEMMA LedgerIsFinite ==
    ASSUME LedgerTyped, NEW S \in SUBSET DOMAIN ledger
    PROVE  /\ IsFiniteSet(S) /\ Cardinality(S) \in Nat /\ S \subseteq Nat
           /\ IsFiniteSet(CardsOf(S)) /\ Cardinality(CardsOf(S)) \in Nat /\ Cardinality(CardsOf(S)) <= Cardinality(S)
           /\ \A l \in S : ledger[l].card \in Int /\ ledger[l].at \in Nat /\ ledger[l].result \in Grades
<1>1. DOMAIN ledger = 1..Len(ledger) /\ Len(ledger) \in Nat
  BY DEF LedgerTyped
<1>2. IsFiniteSet(S) /\ Cardinality(S) \in Nat /\ S \subseteq Nat
  <2>1. IsFiniteSet(DOMAIN ledger)
    BY <1>1, FS_Interval
  <2>2. IsFiniteSet(S)
    BY <2>1, FS_Subset
  <2> QED
    BY <1>1, <2>2, FS_CardinalityType
<1>3. IsFiniteSet(CardsOf(S)) /\ Cardinality(CardsOf(S)) \in Nat /\ Cardinality(CardsOf(S)) <= Cardinality(S)
  <2> DEFINE f == [l \in S |-> ledger[l].card]
  <2>1. CardsOf(S) = {f[l] : l \in S} /\ DOMAIN f = S
    BY DEF CardsOf
  <2> HIDE DEF f
  <2> QED
    BY <1>2, <2>1, FewerValues
<1>4. \A l \in S : ledger[l].card \in Int /\ ledger[l].at \in Nat /\ ledger[l].result \in Grades
  <2> SUFFICES ASSUME NEW l \in S PROVE ledger[l].card \in Int /\ ledger[l].at \in Nat /\ ledger[l].result \in Grades
    OBVIOUS
  <2>1. ledger[l] \in OldLogs
    BY <1>1 DEF LedgerTyped
  <2> QED
    BY <2>1, ReportAssumption DEF OldLogs
<1> QED
  BY <1>2, <1>3, <1>4

\* Among logs of different cards, as many cards as logs.
LEMMA OneEachIsCounted ==
    ASSUME LedgerTyped, NEW S \in SUBSET DOMAIN ledger, OneEach(S)
    PROVE  Cardinality(CardsOf(S)) = Cardinality(S)
<1> DEFINE f == [l \in S |-> ledger[l].card]
<1>1. f \in Injection(S, CardsOf(S)) /\ f \in Surjection(S, CardsOf(S))
  BY DEF OneEach, CardsOf, Injection, Surjection, IsInjective
<1>2. IsFiniteSet(S)
  BY LedgerIsFinite
<1> HIDE DEF f
<1> QED
  BY <1>1, <1>2, FS_Surjection

\* row_number() = 1 is one log for each card.
LEMMA LatestIsOneEach ==
    ASSUME LedgerTyped, NEW S \in SUBSET DOMAIN ledger
    PROVE  /\ Latest(S) \in SUBSET S
           /\ OneEach(Latest(S))
           /\ CardsOf(Latest(S)) = CardsOf(S)
<1>1. Latest(S) \in SUBSET S
  BY DEF Latest
<1>2. OneEach(Latest(S))
  <2> SUFFICES ASSUME NEW k \in Latest(S), NEW l \in Latest(S), ledger[k].card = ledger[l].card, k # l PROVE FALSE
    BY DEF OneEach
  <2>1. k \in S /\ l \in S /\ Later(l, k) /\ Later(k, l)
    BY DEF Latest
  <2>2. k \in Nat /\ l \in Nat /\ ledger[k].at \in Nat /\ ledger[l].at \in Nat
    BY <2>1, LedgerIsFinite
  <2> QED
    BY <2>1, <2>2 DEF Later
<1>3. ASSUME NEW c \in CardsOf(S) PROVE c \in CardsOf(Latest(S))
  <2> DEFINE logs == {l \in S : ledger[l].card = c}
             f == [l \in logs |-> ledger[l].at]
             times == {f[l] : l \in logs}
  <2>1. logs \in SUBSET S /\ logs \in SUBSET DOMAIN ledger /\ logs # {}
    BY DEF CardsOf
  <2>2. /\ IsFiniteSet(logs) /\ logs \subseteq Nat
        /\ \A l \in logs : ledger[l].at \in Nat
    BY <2>1, LedgerIsFinite
  <2>3. times \in SUBSET Nat /\ times # {}
    BY <2>1, <2>2
  <2>4. IsFiniteSet(times)
    <3> HIDE DEF logs, f
    <3>1. DOMAIN f = logs
      BY DEF f
    <3> QED
      BY <2>2, <3>1, FewerValues
  <2>5. PICK m \in times : \A t \in times : t <= m
    <3> HIDE DEF times
    <3> QED
      BY <2>3, <2>4, FiniteIsBounded
  <2> DEFINE newest == {l \in logs : ledger[l].at = m}
  <2>6. newest \in SUBSET Nat /\ newest # {} /\ IsFiniteSet(newest)
    <3>1. newest \in SUBSET logs
      OBVIOUS
    <3>2. newest # {}
      BY <2>5
    <3> QED
      BY <2>2, <3>1, <3>2, FS_Subset
  <2>7. PICK l \in newest : \A k \in newest : k <= l
    <3> HIDE DEF newest
    <3> QED
      BY <2>6, FiniteIsBounded
  <2>8. l \in S /\ l \in Nat /\ ledger[l].card = c /\ ledger[l].at = m /\ m \in Nat
    BY <2>2, <2>3, <2>6
  <2>9. ASSUME NEW k \in S, k # l, ledger[k].card = c PROVE Later(l, k)
    <3>1. k \in logs /\ k \in Nat /\ ledger[k].at \in Nat
      BY <2>2, <2>9
    <3>2. f[k] \in times /\ f[k] = ledger[k].at
      BY <3>1
    <3>3. ledger[k].at <= m
      BY <2>5, <3>2
    <3>4. ledger[k].at = m => k <= l
      BY <3>1, <2>7
    <3> QED
      BY <2>8, <2>9, <3>1, <3>3, <3>4 DEF Later
  <2>10. l \in Latest(S)
    BY <2>8, <2>9 DEF Latest
  <2> QED
    BY <2>8, <2>10 DEF CardsOf
<1>4. CardsOf(Latest(S)) = CardsOf(S)
  BY <1>1, <1>3 DEF CardsOf
<1> QED
  BY <1>1, <1>2, <1>4

\* There are as many latest logs as cards.
LEMMA LatestIsCounted ==
    ASSUME LedgerTyped, NEW S \in SUBSET DOMAIN ledger
    PROVE  Cardinality(Latest(S)) = Cardinality(CardsOf(S))
<1>1. Latest(S) \in SUBSET DOMAIN ledger /\ OneEach(Latest(S)) /\ CardsOf(Latest(S)) = CardsOf(S)
  BY LatestIsOneEach
<1> QED
  BY <1>1, OneEachIsCounted

\* Logs are counted by their results.
LEMMA LogsInFour ==
    ASSUME LedgerTyped, NEW S \in SUBSET DOMAIN ledger,
           NEW count, count = [g \in Grades |-> Cardinality({l \in S : ledger[l].result = g})]
    PROVE  /\ \A g \in Grades : count[g] \in Nat
           /\ Cardinality(S) = count["forgot"] + count["shaky"] + count["got_it"] + count["fluent"]
<1> DEFINE with == [g \in Grades |-> {l \in S : ledger[l].result = g}]
<1>1. IsFiniteSet(S) /\ \A l \in S : ledger[l].result \in Grades
  BY LedgerIsFinite
<1>2. /\ with \in [Grades -> SUBSET S]
      /\ \A l \in S : \E g \in Grades : l \in with[g]
      /\ \A g, h \in Grades : g # h => with[g] \cap with[h] = {}
  BY <1>1
<1>3. \A g \in Grades : count[g] = Cardinality(with[g])
  OBVIOUS
<1> HIDE DEF with
<1>4. /\ \A g \in Grades : Cardinality(with[g]) \in Nat
      /\ Cardinality(S) = Cardinality(with["forgot"]) + Cardinality(with["shaky"])
                            + Cardinality(with["got_it"]) + Cardinality(with["fluent"])
  BY <1>1, <1>2, FourParts
<1> QED
  BY <1>3, <1>4 DEF Grades

\* ORDER BY reviewed_at DESC, card: each row has a place of its own.
LEMMA EachHasItsPlace ==
    ASSUME LedgerTyped, NEW S \in SUBSET DOMAIN ledger, OneEach(S)
    PROVE  /\ \A l \in S : Cardinality(Ahead(S, l)) \in 0..(Cardinality(S) - 1)
           /\ \A k, l \in S : k # l /\ Cardinality(Ahead(S, k)) <= Cardinality(Ahead(S, l)) => k \in Ahead(S, l)
           /\ \A k, l \in S : Cardinality(Ahead(S, k)) = Cardinality(Ahead(S, l)) => k = l
           /\ \A n \in 0..(Cardinality(S) - 1) : \E l \in S : Cardinality(Ahead(S, l)) = n
<1>1. /\ IsFiniteSet(S) /\ Cardinality(S) \in Nat
      /\ \A l \in S : ledger[l].card \in Int /\ ledger[l].at \in Nat
  BY LedgerIsFinite
<1>2. \A l \in S : IsFiniteSet(Ahead(S, l)) /\ Cardinality(Ahead(S, l)) \in Nat
  BY <1>1, FS_Subset, FS_CardinalityType DEF Ahead
<1>3. ASSUME NEW k \in S, NEW l \in S, k \in Ahead(S, l) PROVE Cardinality(Ahead(S, k)) < Cardinality(Ahead(S, l))
  <2>1. Ahead(S, k) \in SUBSET Ahead(S, l) /\ k \notin Ahead(S, k)
    BY <1>1, <1>3 DEF Ahead
  <2>2. Ahead(S, k) # Ahead(S, l)
    BY <1>3, <2>1
  <2> QED
    BY <1>2, <2>1, <2>2, FS_Subset
<1>4. \A k, l \in S : k # l => k \in Ahead(S, l) \/ l \in Ahead(S, k)
  BY <1>1 DEF Ahead, OneEach
<1>5. \A k, l \in S : k # l /\ Cardinality(Ahead(S, k)) <= Cardinality(Ahead(S, l)) => k \in Ahead(S, l)
  BY <1>2, <1>3, <1>4
<1>6. \A k, l \in S : Cardinality(Ahead(S, k)) = Cardinality(Ahead(S, l)) => k = l
  BY <1>2, <1>3, <1>4
<1>7. \A l \in S : Cardinality(Ahead(S, l)) \in 0..(Cardinality(S) - 1)
  <2> SUFFICES ASSUME NEW l \in S PROVE Cardinality(Ahead(S, l)) \in 0..(Cardinality(S) - 1)
    OBVIOUS
  <2>1. Ahead(S, l) \in SUBSET S /\ l \notin Ahead(S, l)
    BY <1>1 DEF Ahead
  <2>2. Ahead(S, l) # S
    BY <2>1
  <2>3. Cardinality(Ahead(S, l)) <= Cardinality(S) /\ Cardinality(Ahead(S, l)) # Cardinality(S)
    BY <1>1, <2>1, <2>2, FS_Subset
  <2> QED
    BY <1>1, <1>2, <2>3
<1>8. \A n \in 0..(Cardinality(S) - 1) : \E l \in S : Cardinality(Ahead(S, l)) = n
  <2> DEFINE f == [l \in S |-> Cardinality(Ahead(S, l))]
             N == 0..(Cardinality(S) - 1)
  <2>1. f \in Injection(S, N)
    BY <1>6, <1>7 DEF Injection, IsInjective
  <2>2. IsFiniteSet(N) /\ Cardinality(N) = Cardinality(S)
    BY <1>1, FS_Interval
  <2>3. f \in Surjection(S, N)
    <3> HIDE DEF f, N
    <3> QED
      BY <2>1, <2>2, FS_Injection
  <2> QED
    BY <2>3 DEF Surjection
<1> QED
  BY <1>5, <1>6, <1>7, <1>8

-----------------------------------------------------------------------------

PageLength(total, q) ==
    IF total <= q.offset THEN 0 ELSE IF total - q.offset <= q.limit THEN total - q.offset ELSE q.limit

\* A page has distinct rows in their order, as many as there are; a page with room for
\* all has all.
LEMMA PageIsRight ==
    ASSUME LedgerTyped, NEW S \in SUBSET DOMAIN ledger, OneEach(S), NEW q \in Queries
    PROVE  LET page == PageOf(S, q) IN
           /\ DOMAIN page = 1..PageLength(Cardinality(S), q) /\ Len(page) = PageLength(Cardinality(S), q)
           /\ \A p \in DOMAIN page : page[p].log \in S /\ page[p] = HistoryEntry(page[p].log, q)
           /\ \A p, o \in DOMAIN page : p < o => page[p].log # page[o].log /\ page[p].log \in Ahead(S, page[o].log)
           /\ q.offset = 0 /\ Cardinality(S) <= q.limit => \A l \in S : \E p \in DOMAIN page : page[p].log = l
<1> DEFINE n == Cardinality(S)
           sorted == [p \in 1..n |-> CHOOSE l \in S : Cardinality(Ahead(S, l)) = p - 1]
           last == IF q.offset + q.limit < n THEN q.offset + q.limit ELSE n
           cut == SubSeq(sorted, q.offset + 1, last)
           page == [p \in DOMAIN cut |-> HistoryEntry(cut[p], q)]
<1>1. PageOf(S, q) = page
  BY DEF PageOf, Ahead
<1>2. n \in Nat /\ q.offset \in Nat /\ q.limit \in Nat
  BY LedgerIsFinite, ReportAssumption
<1>3. \A p \in 1..n : sorted[p] \in S /\ Cardinality(Ahead(S, sorted[p])) = p - 1
  <2> SUFFICES ASSUME NEW p \in 1..n PROVE sorted[p] \in S /\ Cardinality(Ahead(S, sorted[p])) = p - 1
    OBVIOUS
  <2>1. p - 1 \in 0..(Cardinality(S) - 1)
    BY <1>2
  <2>2. \E l \in S : Cardinality(Ahead(S, l)) = p - 1
    BY <2>1, EachHasItsPlace
  <2> QED
    BY <2>2
<1>4. DOMAIN sorted = 1..n /\ Len(sorted) = n /\ sorted \in Seq(S)
  <2>1. sorted \in [1..n -> S]
    BY <1>3
  <2> HIDE DEF sorted, n
  <2> QED
    BY <1>2, <2>1
<1> HIDE DEF sorted, n
<1>5. /\ DOMAIN cut = 1..PageLength(n, q)
      /\ \A p \in DOMAIN cut : p + q.offset \in 1..n /\ cut[p] = sorted[p + q.offset]
  <2> DEFINE first == q.offset + 1
  <2>1. first \in Int /\ last \in Int /\ n \in Nat /\ \A i \in first..last : i \in 1..n
    BY <1>2
  <2>2. PageLength(n, q) = IF first <= last THEN last - first + 1 ELSE 0
    BY <1>2 DEF PageLength
  <2>3. 1..(last - first + 1) = 1..PageLength(n, q) /\ PageLength(n, q) \in Nat
    BY <2>1, <2>2
  <2> HIDE DEF first, last
  <2>4. \A i \in first..last : sorted[i] \in S
    BY <1>3, <2>1
  <2>5. /\ cut \in Seq(S) /\ Len(cut) = IF first <= last THEN last - first + 1 ELSE 0
        /\ \A i \in 1..(last - first + 1) : cut[i] = sorted[first + i - 1]
    BY <2>1, <2>4, SubSeqProperties DEF first
  <2> HIDE DEF cut
  <2>6. DOMAIN cut = 1..PageLength(n, q)
    BY <2>2, <2>3, <2>5
  <2> SUFFICES ASSUME NEW p \in DOMAIN cut
               PROVE  p + q.offset \in 1..n /\ cut[p] = sorted[p + q.offset]
    BY <2>6
  <2>7. p \in 1..(last - first + 1) /\ p \in Nat
    <3>1. p \in 1..PageLength(n, q)
      BY <2>6
    <3>2. p \in 1..(last - first + 1)
      BY <2>3, <3>1, Zenon
    <3>3. p \in Nat
      BY <2>3, <3>1
    <3> QED
      BY <3>2, <3>3
  <2>8. first + p - 1 = p + q.offset /\ first + p - 1 \in first..last
    BY <1>2, <2>1, <2>7 DEF first
  <2> QED
    BY <2>1, <2>5, <2>7, <2>8
<1>6. PageLength(n, q) \in Nat
  BY <1>2 DEF PageLength
<1>7. /\ DOMAIN page = DOMAIN cut
      /\ \A p \in DOMAIN page : page[p] = HistoryEntry(cut[p], q) /\ page[p].log = cut[p] /\ cut[p] \in S
  <2>1. \A l : HistoryEntry(l, q).log = l
    BY DEF HistoryEntry
  <2>2. \A p \in DOMAIN cut : cut[p] \in S
    BY <1>3, <1>5
  <2> HIDE DEF cut
  <2> QED
    BY <2>1, <2>2
<1>8. Len(page) = PageLength(n, q)
  <2>1. DOMAIN page = 1..PageLength(n, q)
    BY <1>5, <1>7
  <2> HIDE DEF page
  <2> QED
    BY <1>6, <2>1
<1>9. ASSUME NEW p \in DOMAIN page, NEW o \in DOMAIN page, p < o
      PROVE  page[p].log # page[o].log /\ page[p].log \in Ahead(S, page[o].log)
  <2>1. page[p].log = sorted[p + q.offset] /\ page[o].log = sorted[o + q.offset]
    BY <1>5, <1>7
  <2>2. p + q.offset \in 1..n /\ o + q.offset \in 1..n /\ p \in Nat /\ o \in Nat
    BY <1>5, <1>6, <1>7
  <2>3. /\ Cardinality(Ahead(S, sorted[p + q.offset])) = p + q.offset - 1
        /\ Cardinality(Ahead(S, sorted[o + q.offset])) = o + q.offset - 1
        /\ sorted[p + q.offset] \in S /\ sorted[o + q.offset] \in S
    <3>1. \A i \in 1..n : Cardinality(Ahead(S, sorted[i])) = i - 1 /\ sorted[i] \in S
      BY <1>3
    <3> DEFINE a == p + q.offset  b == o + q.offset
    <3>2. a \in 1..n /\ b \in 1..n
      BY <2>2
    <3> HIDE DEF a, b
    <3>3. /\ Cardinality(Ahead(S, sorted[a])) = a - 1 /\ sorted[a] \in S
          /\ Cardinality(Ahead(S, sorted[b])) = b - 1 /\ sorted[b] \in S
      BY <3>1, <3>2
    <3> QED
      BY <1>2, <2>2, <3>3 DEF a, b
  <2>4. sorted[p + q.offset] # sorted[o + q.offset]
    BY <1>2, <1>9, <2>2, <2>3
  <2>5. Cardinality(Ahead(S, sorted[p + q.offset])) <= Cardinality(Ahead(S, sorted[o + q.offset]))
    BY <1>2, <1>9, <2>2, <2>3
  <2> QED
    <3>1. sorted[p + q.offset] \in Ahead(S, sorted[o + q.offset])
      BY <2>3, <2>4, <2>5, EachHasItsPlace
    <3> HIDE DEF page
    <3> QED
      BY <2>1, <2>4, <3>1
<1>10. ASSUME q.offset = 0, n <= q.limit, NEW l \in S PROVE \E p \in DOMAIN page : page[p].log = l
  <2>1. Cardinality(Ahead(S, l)) \in 0..(n - 1)
    BY EachHasItsPlace DEF n
  <2> DEFINE p == Cardinality(Ahead(S, l)) + 1
  <2>2. p \in 1..n /\ p - 1 = Cardinality(Ahead(S, l))
    BY <1>2, <2>1
  <2>3. Cardinality(Ahead(S, sorted[p])) = Cardinality(Ahead(S, l)) /\ sorted[p] \in S
    BY <1>3, <2>2
  <2>4. sorted[p] = l
    BY <2>3, EachHasItsPlace
  <2>5. 1..PageLength(n, q) = 1..n
    BY <1>2, <1>10 DEF PageLength
  <2> HIDE DEF p, cut
  <2>6. p \in DOMAIN cut /\ p + q.offset = p
    <3>1. p \in DOMAIN cut
      BY <1>5, <2>2, <2>5, Zenon
    <3>2. p \in Nat
      BY <1>2, <2>2
    <3> QED
      BY <1>10, <3>1, <3>2
  <2>7. cut[p] = l
    BY <1>5, <2>4, <2>6
  <2> QED
    BY <1>7, <2>6, <2>7
<1> HIDE DEF page, cut
<1> QED
  BY <1>1, <1>5, <1>7, <1>8, <1>9, <1>10 DEF n

-----------------------------------------------------------------------------

\* What each statement would return now.
TotalNow == Cardinality(HistoryRows(query))
PageNow == PageOf(HistoryRows(query), query)
ReviewsNow == Cardinality(Found(query))
UniqueNow == Cardinality(CardsOf(Found(query)))
LatestNow == [g \in Grades |-> Cardinality({l \in Latest(Found(query)) : ledger[l].result = g})]
ReviewsOf(l, logs) == Cardinality({k \in logs : ledger[k].card = ledger[l].card})
TodayQuery == [from |-> Today, to |-> Today, results |-> {}, term |-> ""]
TodayNow ==
    {[card |-> ledger[l].card, result |-> ledger[l].result, reviews |-> ReviewsOf(l, Asked(TodayQuery))] :
        l \in HistoryRows(TodayQuery)}
DetailsNow == [p \in DOMAIN told.page |-> DetailOf(told.page[p].log)]

\* What no edit changes: the cards with a review in the range, and the order of a page.
Reviewed == Cardinality(CardsOf(Asked(query)))
NewestFirst(page) ==
    \A p, o \in DOMAIN page : p < o =>
        page[p].card # page[o].card /\ ledger[page[p].log].at >= ledger[page[o].log].at

ToldFields == {"at", "total", "page", "details", "reviews", "unique", "latest", "today"}
Past == <<{"page", "reviews", "unique", "latest", "today", "detail", "told"},
          {"reviews", "unique", "latest", "today", "detail", "told"},
          {"unique", "latest", "today", "detail", "told"},
          {"latest", "today", "detail", "told"},
          {"today", "detail", "told"},
          {"detail", "told"}>>

TotalIsBounded == told.total \in Nat /\ told.total <= Reviewed

\* Each part of the story is as it would be told now, unless a card was edited since
\* the request; and what no edit changes is so in any case.
HistoryInv ==
    /\ LedgerTyped /\ query \in Queries /\ DOMAIN told = ToldFields
    /\ told.at \in Past[1] =>
        /\ edited \/ told.total = TotalNow
        /\ TotalIsBounded
    /\ told.at \in Past[2] => (edited \/ told.page = PageNow) /\ NewestFirst(told.page)
    /\ told.at \in Past[3] => edited \/ told.reviews = ReviewsNow
    /\ told.at \in Past[4] =>
        /\ edited \/ told.unique = UniqueNow
        /\ query.term = "" => told.unique = Reviewed
    /\ told.at \in Past[5] =>
        /\ edited \/ told.latest = LatestNow
        /\ query.term = "" => AllLatest = Reviewed
    /\ told.at \in Past[6] => edited \/ told.today = TodayNow
    /\ told.at = "told" => edited \/ told.details = DetailsNow

-----------------------------------------------------------------------------

\* As long as no log, card or query changes, every statement would return the same.
LEMMA SameStory ==
    UNCHANGED <<ledger, shelf, query>> =>
        /\ UNCHANGED <<TotalNow, PageNow, ReviewsNow, UniqueNow, LatestNow, TodayNow>>
<1> SUFFICES ASSUME UNCHANGED <<ledger, shelf, query>>
             PROVE  UNCHANGED <<TotalNow, PageNow, ReviewsNow, UniqueNow, LatestNow, TodayNow>>
  OBVIOUS
<1>1. UNCHANGED TotalNow
  BY DEF TotalNow, HistoryRows, Latest, Later, Asked, InDays, Matches
<1>2. UNCHANGED PageNow
  BY DEF PageNow, PageOf, HistoryEntry, ShownContent, ShownNote, HistoryRows, Latest, Later, Asked, InDays, Matches
<1>3. UNCHANGED ReviewsNow
  BY DEF ReviewsNow, Found, Asked, InDays, Matches
<1>4. UNCHANGED UniqueNow
  BY DEF UniqueNow, CardsOf, Found, Asked, InDays, Matches
<1>5. UNCHANGED LatestNow
  BY DEF LatestNow, Found, Latest, Later, Asked, InDays, Matches
<1>6. UNCHANGED TodayNow
  BY DEF TodayNow, ReviewsOf, TodayQuery, HistoryRows, Latest, Later, Asked, InDays, Matches
<1> QED
  BY <1>1, <1>2, <1>3, <1>4, <1>5, <1>6

\* As long as no log or query changes, the same cards were reviewed.
LEMMA SameLogs ==
    UNCHANGED <<ledger, query>> => UNCHANGED Reviewed /\ (LedgerTyped' <=> LedgerTyped)
BY DEF Reviewed, CardsOf, Asked, InDays, LedgerTyped

\* The rows of the history are one log for each of some cards.
LEMMA RowsAreLatest ==
    ASSUME LedgerTyped, NEW q
    PROVE  /\ Asked(q) \in SUBSET DOMAIN ledger /\ Found(q) \in SUBSET DOMAIN ledger
           /\ HistoryRows(q) \in SUBSET Latest(Asked(q))
           /\ HistoryRows(q) \in SUBSET DOMAIN ledger
           /\ OneEach(HistoryRows(q))
<1>1. Asked(q) \in SUBSET DOMAIN ledger /\ Found(q) \in SUBSET DOMAIN ledger
  BY DEF Asked, Found
<1>2. HistoryRows(q) \in SUBSET Latest(Asked(q))
  BY DEF HistoryRows
<1>3. Latest(Asked(q)) \in SUBSET Asked(q) /\ OneEach(Latest(Asked(q)))
  BY <1>1, LatestIsOneEach
<1> QED
  BY <1>1, <1>2, <1>3 DEF OneEach

\* The list has no more rows than cards were reviewed.
LEMMA RowsAreCounted ==
    ASSUME LedgerTyped
    PROVE  TotalNow \in Nat /\ TotalNow <= Reviewed /\ Reviewed \in Nat
<1>1. /\ Asked(query) \in SUBSET DOMAIN ledger
      /\ HistoryRows(query) \in SUBSET Latest(Asked(query)) /\ HistoryRows(query) \in SUBSET DOMAIN ledger
  BY RowsAreLatest
<1>2. /\ Latest(Asked(query)) \in SUBSET DOMAIN ledger
      /\ Cardinality(Latest(Asked(query))) = Reviewed
  BY <1>1, LatestIsOneEach, LatestIsCounted DEF Reviewed
<1>3. IsFiniteSet(Latest(Asked(query))) /\ TotalNow \in Nat /\ Reviewed \in Nat
  BY <1>1, <1>2, LedgerIsFinite DEF TotalNow, Reviewed
<1>4. Cardinality(HistoryRows(query)) <= Cardinality(Latest(Asked(query)))
  BY <1>1, <1>3, FS_Subset
<1> QED
  BY <1>2, <1>3, <1>4 DEF TotalNow

\* A page has each card once, the newest first.
LEMMA PageIsInOrder == ASSUME LedgerTyped, query \in Queries PROVE NewestFirst(PageNow)
<1> DEFINE S == HistoryRows(query)
<1>1. S \in SUBSET DOMAIN ledger /\ OneEach(S)
  BY RowsAreLatest
<1>2. \A l \in S : ledger[l].at \in Nat
  BY <1>1, LedgerIsFinite
<1> SUFFICES ASSUME NEW p \in DOMAIN PageNow, NEW o \in DOMAIN PageNow, p < o
             PROVE  /\ PageNow[p].card # PageNow[o].card
                    /\ ledger[PageNow[p].log].at >= ledger[PageNow[o].log].at
  BY DEF NewestFirst
<1> HIDE DEF S
<1>3. /\ PageNow[p].log \in S /\ PageNow[p] = HistoryEntry(PageNow[p].log, query)
      /\ PageNow[o].log \in S /\ PageNow[o] = HistoryEntry(PageNow[o].log, query)
      /\ PageNow[p].log # PageNow[o].log /\ PageNow[p].log \in Ahead(S, PageNow[o].log)
  BY <1>1, PageIsRight DEF PageNow, S
<1>4. \A l : HistoryEntry(l, query).card = ledger[l].card
  BY DEF HistoryEntry
<1>5. PageNow[p].card = ledger[PageNow[p].log].card /\ PageNow[o].card = ledger[PageNow[o].log].card
  BY <1>3, <1>4
<1> QED
  BY <1>1, <1>2, <1>3, <1>5 DEF OneEach, Ahead

\* The summary of now: its results are the cards it counts.
LEMMA SummaryAddsUp ==
    ASSUME LedgerTyped
    PROVE  /\ \A g \in Grades : LatestNow[g] \in Nat
           /\ UniqueNow = LatestNow["forgot"] + LatestNow["shaky"] + LatestNow["got_it"] + LatestNow["fluent"]
           /\ UniqueNow \in Nat /\ ReviewsNow \in Nat /\ UniqueNow <= ReviewsNow
           /\ query.term = "" => UniqueNow = Reviewed
<1>1. Found(query) \in SUBSET DOMAIN ledger
  BY RowsAreLatest
<1>2. Latest(Found(query)) \in SUBSET DOMAIN ledger /\ Cardinality(Latest(Found(query))) = UniqueNow
  BY <1>1, LatestIsOneEach, LatestIsCounted DEF UniqueNow
<1>3. /\ \A g \in Grades : LatestNow[g] \in Nat
      /\ Cardinality(Latest(Found(query))) = LatestNow["forgot"] + LatestNow["shaky"] + LatestNow["got_it"] + LatestNow["fluent"]
  BY <1>2, LogsInFour DEF LatestNow
<1>4. UniqueNow \in Nat /\ ReviewsNow \in Nat /\ UniqueNow <= ReviewsNow
  BY <1>1, LedgerIsFinite DEF UniqueNow, ReviewsNow
<1>5. query.term = "" => Found(query) = Asked(query)
  BY DEF Found, Matches
<1> QED
  BY <1>2, <1>3, <1>4, <1>5 DEF UniqueNow, Reviewed

\* The search looks at the card, so that it leaves the latest log of a card or none.
LEMMA SearchIsByCard ==
    ASSUME LedgerTyped
    PROVE  Latest(Found(query)) = {l \in Latest(Asked(query)) : Matches(l, query.term)}
<1>1. \A k, l : ledger[k].card = ledger[l].card => (Matches(k, query.term) <=> Matches(l, query.term))
  BY DEF Matches
<1>2. Found(query) = {l \in Asked(query) : Matches(l, query.term)}
  BY DEF Found
<1> QED
  BY <1>1, <1>2 DEF Latest

\* If no card was deleted, the list has the results of the summary that it was asked for.
LEMMA ListIsOfSummary ==
    ASSUME LedgerTyped, \A l \in Asked(query) : shelf[ledger[l].card].live
    PROVE  LET AsListed(g) == IF query.results = {} \/ g \in query.results THEN LatestNow[g] ELSE 0
           IN  TotalNow = AsListed("forgot") + AsListed("shaky") + AsListed("got_it") + AsListed("fluent")
<1> DEFINE S == HistoryRows(query)
           count == [g \in Grades |-> Cardinality({l \in S : ledger[l].result = g})]
           AsListed(g) == IF query.results = {} \/ g \in query.results THEN LatestNow[g] ELSE 0
<1>1. S \in SUBSET DOMAIN ledger /\ Latest(Asked(query)) \in SUBSET Asked(query)
  BY RowsAreLatest, LatestIsOneEach
<1>2. S = {l \in Latest(Found(query)) : query.results = {} \/ ledger[l].result \in query.results}
  BY <1>1, SearchIsByCard DEF HistoryRows
<1>3. ASSUME NEW g \in Grades PROVE count[g] = AsListed(g)
  <2>1. CASE query.results = {} \/ g \in query.results
    <3>1. {l \in S : ledger[l].result = g} = {l \in Latest(Found(query)) : ledger[l].result = g}
      BY <1>2, <2>1
    <3> QED
      BY <2>1, <3>1 DEF LatestNow
  <2>2. CASE ~(query.results = {} \/ g \in query.results)
    <3>1. {l \in S : ledger[l].result = g} = {}
      BY <1>2, <2>2
    <3>2. Cardinality({l \in S : ledger[l].result = g}) = 0
      BY <3>1, FS_EmptySet
    <3> QED
      BY <2>2, <3>2
  <2> QED
    BY <2>1, <2>2
<1>4. Cardinality(S) = count["forgot"] + count["shaky"] + count["got_it"] + count["fluent"]
  BY <1>1, LogsInFour
<1> HIDE DEF count, AsListed
<1>5. TotalNow = AsListed("forgot") + AsListed("shaky") + AsListed("got_it") + AsListed("fluent")
  BY <1>3, <1>4 DEF TotalNow, Grades
<1> QED
  BY <1>5 DEF AsListed

\* The list of today is a page of all that was reviewed today.
LEMMA TodayIsAPage ==
    ASSUME LedgerTyped, query \in Queries,
           query.from = Today, query.to = Today, query.results = {}, query.term = "",
           query.offset = 0, TotalNow <= query.limit
    PROVE  TodayNow = {[card |-> e.card, result |-> e.result, reviews |-> e.reviews] :
                          e \in {PageNow[p] : p \in DOMAIN PageNow}}
<1> DEFINE S == HistoryRows(query)
           Entry(l) == [card |-> ledger[l].card, result |-> ledger[l].result, reviews |-> ReviewsOf(l, Asked(query))]
           Short(e) == [card |-> e.card, result |-> e.result, reviews |-> e.reviews]
<1>1. Asked(TodayQuery) = Asked(query)
  BY DEF Asked, InDays, TodayQuery
<1>2. HistoryRows(TodayQuery) = S
  BY <1>1 DEF HistoryRows, TodayQuery, Matches
<1>3. TodayNow = {Entry(l) : l \in S}
  BY <1>1, <1>2 DEF TodayNow
<1>4. \A l : Short(HistoryEntry(l, query)) = Entry(l)
  BY DEF HistoryEntry, ReviewsOf
<1>5. S \in SUBSET DOMAIN ledger /\ OneEach(S)
  BY RowsAreLatest
<1> HIDE DEF Entry, Short, S
<1>6. /\ \A p \in DOMAIN PageNow : PageNow[p].log \in S /\ PageNow[p] = HistoryEntry(PageNow[p].log, query)
      /\ \A l \in S : \E p \in DOMAIN PageNow : PageNow[p].log = l
  BY <1>5, PageIsRight DEF PageNow, TotalNow, S
<1>7. \A p \in DOMAIN PageNow : Short(PageNow[p]) = Entry(PageNow[p].log)
  BY <1>4, <1>6
<1>8. {Entry(l) : l \in S} = {Short(e) : e \in {PageNow[p] : p \in DOMAIN PageNow}}
  <2>1. ASSUME NEW l \in S PROVE \E e \in {PageNow[p] : p \in DOMAIN PageNow} : Entry(l) = Short(e)
    <3>1. PICK p \in DOMAIN PageNow : PageNow[p].log = l
      BY <1>6
    <3>2. Short(PageNow[p]) = Entry(l)
      BY <1>7, <3>1
    <3> QED
      BY <3>2
  <2>2. ASSUME NEW e \in {PageNow[p] : p \in DOMAIN PageNow} PROVE \E l \in S : Short(e) = Entry(l)
    <3>1. PICK p \in DOMAIN PageNow : e = PageNow[p]
      OBVIOUS
    <3>2. Short(e) = Entry(PageNow[p].log) /\ PageNow[p].log \in S
      BY <1>6, <1>7, <3>1
    <3> QED
      BY <3>2
  <2> QED
    BY <2>1, <2>2
<1> QED
  BY <1>3, <1>8 DEF Short

\* A detail of a row that was not edited shows what the row shows, but for an empty note.
LEMMA DetailsAgree ==
    ASSUME LedgerTyped, query \in Queries, NEW p \in DOMAIN PageNow
    PROVE  /\ DetailOf(PageNow[p].log).content = PageNow[p].content
           /\ DetailOf(PageNow[p].log).note \in {"", PageNow[p].note}
<1> DEFINE l == PageNow[p].log
<1>1. HistoryRows(query) \in SUBSET DOMAIN ledger /\ OneEach(HistoryRows(query))
  BY RowsAreLatest
<1>2. l \in HistoryRows(query) /\ PageNow[p] = HistoryEntry(l, query)
  BY <1>1, PageIsRight DEF PageNow
<1>3. shelf[ledger[l].card].live
  BY <1>2 DEF HistoryRows
<1> HIDE DEF l
<1>4. PageNow[p].content = ShownContent(l) /\ PageNow[p].note = ShownNote(l)
  BY <1>2 DEF HistoryEntry
<1>5. DetailOf(l).content = ShownContent(l) /\ DetailOf(l).note \in {"", ShownNote(l)}
  BY <1>3 DEF DetailOf, ShownContent, ShownNote
<1> QED
  BY <1>4, <1>5 DEF l

-----------------------------------------------------------------------------

\* The initial state satisfies the invariant.
LEMMA HistoryBegins == ReportInit => HistoryInv
<1> SUFFICES ASSUME ReportInit PROVE HistoryInv
  OBVIOUS
<1>1. ledger \in Seq(OldLogs) /\ query \in Queries
  BY ReportAssumption DEF ReportInit
<1>2. told.at = "start" /\ DOMAIN told = ToldFields
  BY DEF ReportInit, Untold, ToldFields
<1> QED
  BY <1>1, <1>2 DEF HistoryInv, LedgerTyped, Past

\* An edit only ends what was to be so without one.
LEMMA EditKeepsHistory == ASSUME HistoryInv, NEW c \in ReportCards, ChangeCard(c) PROVE HistoryInv'
<1>1. edited' /\ UNCHANGED <<ledger, query, told>>
  BY DEF ChangeCard
<1>2. UNCHANGED Reviewed /\ (LedgerTyped' <=> LedgerTyped)
  BY <1>1, SameLogs
<1>3. NewestFirst(told.page)' <=> NewestFirst(told.page)
  BY <1>1 DEF NewestFirst
<1>4. AllLatest' = AllLatest
  BY <1>1 DEF AllLatest
<1>5. TotalIsBounded' <=> TotalIsBounded
  BY <1>1, <1>2 DEF TotalIsBounded
<1> QED
  BY <1>1, <1>2, <1>3, <1>4, <1>5 DEF HistoryInv

\* Each statement tells what is so now.
LEMMA StatementKeepsHistory ==
    ASSUME HistoryInv,
           Request \/ CountRows \/ ReadPage \/ CountReviews \/ CountUnique \/ CountLatest \/ ReadToday \/ ReadDetails
    PROVE  HistoryInv'
<1>1. UNCHANGED <<ledger, shelf, query>>
  BY DEF Request, CountRows, ReadPage, CountReviews, CountUnique, CountLatest, ReadToday, ReadDetails, ReadsHistory
<1>2. UNCHANGED <<Reviewed, TotalNow, PageNow, ReviewsNow, UniqueNow, LatestNow, TodayNow>> /\ LedgerTyped'
  BY <1>1, SameStory, SameLogs DEF HistoryInv
<1>3. LedgerTyped /\ query \in Queries /\ query' \in Queries /\ DOMAIN told = ToldFields
  BY <1>1 DEF HistoryInv
<1>4. ASSUME told'.page = told.page PROVE NewestFirst(told.page)' <=> NewestFirst(told.page)
  BY <1>1, <1>4 DEF NewestFirst
<1>5. ASSUME told'.latest = told.latest PROVE AllLatest' = AllLatest
  BY <1>5 DEF AllLatest
<1>5a. ASSUME told'.total = told.total PROVE TotalIsBounded' <=> TotalIsBounded
  BY <1>2, <1>5a DEF TotalIsBounded
<1>6. CASE Request
  <2>1. told'.at \in {"refused", "count"} /\ DOMAIN told' = ToldFields
    BY <1>6 DEF Request, Untold, ToldFields
  <2> QED
    BY <1>2, <1>3, <2>1 DEF HistoryInv, Past
<1>7. CASE CountRows
  <2>1. told' = [told EXCEPT !.at = "page", !.total = TotalNow] /\ edited' = edited
    BY <1>7 DEF CountRows, ReadsHistory, TotalNow
  <2>2. told'.at = "page" /\ told'.total = TotalNow /\ DOMAIN told' = ToldFields
    BY <1>3, <2>1 DEF ToldFields
  <2>3. TotalIsBounded'
    BY <1>2, <1>3, <2>2, RowsAreCounted DEF TotalIsBounded
  <2>4. told'.at \notin Past[2] /\ told'.at \notin Past[3] /\ told'.at \notin Past[4] /\ told'.at \notin Past[5] /\ told'.at \notin Past[6] /\ told'.at # "told"
    BY <2>1, <2>2 DEF Past
  <2> QED
    BY <1>1, <1>2, <1>3, <1>5a, <2>1, <2>2, <2>3, <2>4 DEF HistoryInv
<1>8. CASE ReadPage
  <2>1. told' = [told EXCEPT !.at = "reviews", !.page = PageNow] /\ edited' = edited /\ told.at = "page"
    BY <1>8 DEF ReadPage, ReadsHistory, PageNow
  <2>2. told'.at = "reviews" /\ told'.page = PageNow /\ told'.total = told.total /\ DOMAIN told' = ToldFields
    BY <1>3, <2>1 DEF ToldFields
  <2>3. NewestFirst(told.page)'
    BY <1>1, <1>3, <2>2, PageIsInOrder DEF NewestFirst
  <2>4. /\ told.at \in Past[1]
        /\ told'.at \notin Past[3] /\ told'.at \notin Past[4] /\ told'.at \notin Past[5] /\ told'.at \notin Past[6] /\ told'.at # "told"
    BY <2>1, <2>2 DEF Past
  <2> QED
    BY <1>1, <1>2, <1>3, <1>5a, <2>1, <2>2, <2>3, <2>4 DEF HistoryInv
<1>9. CASE CountReviews
  <2>1. told' = [told EXCEPT !.at = "unique", !.reviews = ReviewsNow] /\ edited' = edited /\ told.at = "reviews"
    BY <1>9 DEF CountReviews, ReadsHistory, ReviewsNow
  <2>2. /\ told'.at = "unique" /\ told'.reviews = ReviewsNow /\ DOMAIN told' = ToldFields
        /\ told'.total = told.total /\ told'.page = told.page
    BY <1>3, <2>1 DEF ToldFields
  <2>3. /\ told.at \in Past[1] /\ told.at \in Past[2]
        /\ told'.at \notin Past[4] /\ told'.at \notin Past[5] /\ told'.at \notin Past[6] /\ told'.at # "told"
    BY <2>1, <2>2 DEF Past
  <2> QED
    BY <1>2, <1>3, <1>4, <1>5a, <2>1, <2>2, <2>3 DEF HistoryInv
<1>10. CASE CountUnique
  <2>1. told' = [told EXCEPT !.at = "latest", !.unique = UniqueNow] /\ edited' = edited /\ told.at = "unique"
    BY <1>10 DEF CountUnique, ReadsHistory, UniqueNow, CardsOf
  <2>2. /\ told'.at = "latest" /\ told'.unique = UniqueNow /\ DOMAIN told' = ToldFields
        /\ told'.total = told.total /\ told'.page = told.page /\ told'.reviews = told.reviews
    BY <1>3, <2>1 DEF ToldFields
  <2>3. query.term = "" => UniqueNow = Reviewed
    BY <1>3, SummaryAddsUp
  <2>4. /\ told.at \in Past[1] /\ told.at \in Past[2] /\ told.at \in Past[3]
        /\ told'.at \notin Past[5] /\ told'.at \notin Past[6] /\ told'.at # "told"
    BY <2>1, <2>2 DEF Past
  <2> QED
    BY <1>1, <1>2, <1>3, <1>4, <1>5a, <2>1, <2>2, <2>3, <2>4 DEF HistoryInv
<1>11. CASE CountLatest
  <2>1. told' = [told EXCEPT !.at = "today", !.latest = LatestNow] /\ edited' = edited /\ told.at = "latest"
    BY <1>11 DEF CountLatest, ReadsHistory, LatestNow
  <2>2. /\ told'.at = "today" /\ told'.latest = LatestNow /\ DOMAIN told' = ToldFields
        /\ told'.total = told.total /\ told'.page = told.page /\ told'.reviews = told.reviews
        /\ told'.unique = told.unique
    BY <1>3, <2>1 DEF ToldFields
  <2>3. AllLatest' = UniqueNow
    BY <1>3, <2>2, SummaryAddsUp DEF AllLatest
  <2>4. query.term = "" => UniqueNow = Reviewed
    BY <1>3, SummaryAddsUp
  <2>5. /\ told.at \in Past[1] /\ told.at \in Past[2] /\ told.at \in Past[3] /\ told.at \in Past[4]
        /\ told'.at \notin Past[6] /\ told'.at # "told"
    BY <2>1, <2>2 DEF Past
  <2> QED
    BY <1>1, <1>2, <1>3, <1>4, <1>5a, <2>1, <2>2, <2>3, <2>4, <2>5 DEF HistoryInv
<1>12. CASE ReadToday
  <2>1. told' = [told EXCEPT !.at = "detail", !.today = TodayNow] /\ edited' = edited /\ told.at = "today"
    BY <1>12 DEF ReadToday, ReadsHistory, TodayNow, TodayQuery, ReviewsOf
  <2>2. /\ told'.at = "detail" /\ told'.today = TodayNow /\ DOMAIN told' = ToldFields
        /\ told'.total = told.total /\ told'.page = told.page /\ told'.reviews = told.reviews
        /\ told'.unique = told.unique /\ told'.latest = told.latest
    BY <1>3, <2>1 DEF ToldFields
  <2>3. /\ told.at \in Past[1] /\ told.at \in Past[2] /\ told.at \in Past[3] /\ told.at \in Past[4] /\ told.at \in Past[5]
        /\ told'.at # "told"
    BY <2>1, <2>2 DEF Past
  <2> QED
    BY <1>1, <1>2, <1>3, <1>4, <1>5, <1>5a, <2>1, <2>2, <2>3 DEF HistoryInv
<1>13. CASE ReadDetails
  <2>1. told' = [told EXCEPT !.at = "told", !.details = DetailsNow] /\ edited' = edited /\ told.at = "detail"
    BY <1>13 DEF ReadDetails, ReadsHistory, DetailsNow
  <2>2. /\ told'.at = "told" /\ told'.details = DetailsNow /\ DOMAIN told' = ToldFields
        /\ told'.total = told.total /\ told'.page = told.page /\ told'.reviews = told.reviews
        /\ told'.unique = told.unique /\ told'.latest = told.latest /\ told'.today = told.today
    BY <1>3, <2>1 DEF ToldFields
  <2>3. DetailsNow' = DetailsNow
    BY <1>1, <2>2 DEF DetailsNow, DetailOf
  <2> QED
    BY <1>1, <1>2, <1>3, <1>4, <1>5, <1>5a, <2>1, <2>2, <2>3 DEF HistoryInv, Past
<1> QED
  BY <1>6, <1>7, <1>8, <1>9, <1>10, <1>11, <1>12, <1>13

\* Every step of the history's part keeps the invariant.
LEMMA HistoryStays == HistoryInv /\ (HistoryNext \/ UNCHANGED historyVars) => HistoryInv'
<1> SUFFICES ASSUME HistoryInv, HistoryNext \/ UNCHANGED historyVars PROVE HistoryInv'
  OBVIOUS
<1>1. CASE UNCHANGED historyVars
  <2>1. UNCHANGED <<ledger, shelf, query, told, edited>>
    BY <1>1 DEF historyVars
  <2>2. UNCHANGED <<Reviewed, TotalNow, PageNow, ReviewsNow, UniqueNow, LatestNow, TodayNow>> /\ LedgerTyped'
    BY <2>1, SameStory, SameLogs DEF HistoryInv
  <2>3. (NewestFirst(told.page)' <=> NewestFirst(told.page)) /\ AllLatest' = AllLatest /\ DetailsNow' = DetailsNow
    BY <2>1 DEF NewestFirst, AllLatest, DetailsNow, DetailOf
  <2>4. TotalIsBounded' <=> TotalIsBounded
    BY <2>1, <2>2 DEF TotalIsBounded
  <2> QED
    BY <2>1, <2>2, <2>3, <2>4 DEF HistoryInv
<1> QED
  BY <1>1, EditKeepsHistory, StatementKeepsHistory DEF HistoryNext

\* The history's part of the property follows.
LEMMA HistoryHolds == HistoryInv => HistoryAddsUp
<1> SUFFICES ASSUME HistoryInv, told.at = "told" PROVE HistoryAddsUp
  BY DEF HistoryAddsUp
<1> DEFINE AsListed(g) == IF query.results = {} \/ g \in query.results THEN told.latest[g] ELSE 0
           AllLive == \A l \in Asked(query) : shelf[ledger[l].card].live
<1>1. /\ LedgerTyped /\ query \in Queries /\ NewestFirst(told.page)
      /\ told.total \in Nat /\ told.total <= Reviewed
      /\ query.term = "" => told.unique = Reviewed /\ AllLatest = Reviewed
  BY DEF HistoryInv, Past, TotalIsBounded
<1>2. query.term = "" => AllLatest = told.unique /\ told.total <= told.unique
  BY <1>1
<1>3. ASSUME ~edited
      PROVE  /\ told.total = TotalNow /\ told.page = PageNow /\ told.reviews = ReviewsNow
             /\ told.unique = UniqueNow /\ told.latest = LatestNow /\ told.today = TodayNow /\ told.details = DetailsNow
  BY <1>3 DEF HistoryInv, Past
<1>4. edited \/ told.unique <= told.reviews
  BY <1>1, <1>3, SummaryAddsUp
<1>5. ~edited => AllLatest = told.unique
  <2>1. UniqueNow = LatestNow["forgot"] + LatestNow["shaky"] + LatestNow["got_it"] + LatestNow["fluent"]
    BY <1>1, SummaryAddsUp
  <2> QED
    BY <1>3, <2>1 DEF AllLatest
<1>6. ~edited => Len(told.page) = PageLength(told.total, query)
  <2>1. HistoryRows(query) \in SUBSET DOMAIN ledger /\ OneEach(HistoryRows(query))
    BY <1>1, RowsAreLatest
  <2>2. Len(PageNow) = PageLength(TotalNow, query)
    BY <1>1, <2>1, PageIsRight DEF PageNow, TotalNow
  <2> QED
    BY <1>3, <2>2
<1>7. ~edited /\ AllLive => told.total = AsListed("forgot") + AsListed("shaky") + AsListed("got_it") + AsListed("fluent")
  BY <1>1, <1>3, ListIsOfSummary
<1>8. ASSUME ~edited, NEW p \in DOMAIN told.page
      PROVE  told.details[p].content = told.page[p].content /\ told.details[p].note \in {"", told.page[p].note}
  <2>1. told.details[p] = DetailOf(PageNow[p].log) /\ p \in DOMAIN PageNow
    BY <1>3, <1>8 DEF DetailsNow
  <2> QED
    BY <1>1, <1>3, <1>8, <2>1, DetailsAgree
<1>9. ASSUME ~edited, query.from = Today, query.to = Today, query.results = {}, query.term = "", Whole(query)
      PROVE  told.today = {[card |-> e.card, result |-> e.result, reviews |-> e.reviews]
                              : e \in {told.page[p] : p \in DOMAIN told.page}}
  <2>1. query.offset = 0 /\ TotalNow <= query.limit
    BY <1>3, <1>9 DEF Whole
  <2>2. TodayNow = {[card |-> e.card, result |-> e.result, reviews |-> e.reviews]
                       : e \in {PageNow[p] : p \in DOMAIN PageNow}}
    BY <1>1, <1>9, <2>1, TodayIsAPage
  <2> QED
    BY <1>3, <1>9, <2>2
<1> HIDE DEF AsListed, AllLive
<1> QED
  BY <1>1, <1>2, <1>4, <1>5, <1>6, <1>7, <1>8, <1>9 DEF HistoryAddsUp, NewestFirst, PageLength, AsListed, AllLive

\* The two parts share no state.
LEMMA ReportsStay ==
    /\ HistoryInv /\ SheetInv /\ SumInv
    /\ [(HistoryNext /\ UNCHANGED sessionVars) \/ (SummaryNext /\ UNCHANGED historyVars)]_reportVars
    => HistoryInv' /\ SheetInv' /\ SumInv'
BY HistoryStays, SessionStays DEF reportVars

\* _get_review_history_observed, _get_review_history_summary_observed,
\* _get_review_history_detail_observed, _get_today_reviewed_observed, _build_summary: for
\* any logs, cards, queries and sessions, whatever is edited, deleted or answered between
\* the statements of a report, pages are in order and without repetition, totals add up,
\* and reports of what did not change agree.
THEOREM ReportsTellOneStory == ReportSpec => []ReportsAddUp
<1>1. HistoryInv /\ SheetInv /\ SumInv => ReportsAddUp
  BY HistoryHolds, SummariesHold DEF ReportsAddUp
<1> QED
  BY <1>1, HistoryBegins, SheetBegins, ReportsStay, PTL DEF ReportSpec

=============================================================================
