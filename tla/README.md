# A model of the English Analyzer backend

The repository is a FastAPI server (one process, one event loop, a thread pool for
synchronous endpoints) for a language-learning mini program. It analyses English
text with a local language model (Ollama), speaks it with Piper, keeps the user's
cards in PostgreSQL and schedules their reviews. This directory holds TLA+ modules
that model the parts where the order of steps matters, the TLC configurations that
check them, and theorems that TLAPS proves about them.

`tlc -config X.cfg M` checks a run (the table below names `M` and `X`), `tlapm M.tla`
checks the proofs of a `*Proofs` module. All paths below are relative to `src/`.

## 1. The system

| Part | Code | State | Operations |
| --- | --- | --- | --- |
| Resource slots | `app/services/security.py` 175-344 | two semaphores per resource: running slots, waiting places | enter, wait, time out, leave |
| Daily quotas | `app/services/security.py` 86-172 | a row per user, day and resource | check (a hint), reserve (the decision) |
| AI request registry | `app/services/request_reliability.py` | two dictionaries: records by user and key, running records by user and fingerprint | claim, replay, coalesce, finish, expire |
| AI pipeline | `app/main.py` 486-1292 | where each request is, its permits, its record | `/api/ai/analyze`, `/api/ai/analyze/stream`, follower paths |
| Analysis streaming | `app/main.py` 790-900, `app/services/analyzer.py`, `ollama_example.py`, `StreamCancelController` | worker thread, queue, wake-up event, close callbacks | read a line, emit, retry, cancel, finish |
| Card synchronisation | `app/services/card_sync_service.py`, `card_service.py`, `idempotency.py`, `app/routers/cards.py` | cards with a version, client actions with their stored responses | sync create / update / delete, direct endpoints, cleanup script |
| Card incremental list | `app/routers/cards.py` 60-120, `card_service.py` | a cursor over `updated_at` at each device | list changed since |
| Review sessions | `app/routers/reviews.py`, `app/services/review_v1.py`, `app/models/review.py` | sessions, items with their questions, answer log, client actions | answer, open (continue, restart, create), overview |
| Questions | `app/services/review_v1.py`, `app/routers/reviews.py` 268-325 | none | choose the cards of a session, find three wrong answers |
| Review reports | `app/routers/reviews.py` 404-560, 1080-1385, 2013-2129 | none (readers) | history list, summary, detail, list of today, session summary |
| Review rules | `app/services/review_rules.py` | none | mastery, recovery, intervals, selection |
| Pronunciation | `app/services/piper_service.py`, `app/routers/language.py` | voice cache, lock per clip, WAV files | synthesise, reuse, prune |
| Authentication | `app/services/auth_service.py` | users with a token version | sign in, check a token, sign out |
| Discovery | `app/services/discovery_service.py`, `public_material_importer.py` | packs, items with positions, known marks | import an edition, quote of the day, pages, mark, unmark |
| Rate limiting | `app/services/security.py` 39-61 | call times per client | allow |
| Lexical metadata | `ecdict_service.py`, `lexical_metadata.py`, `scripts/backfill_card_lexical_metadata.py` | the schema a process found, a row per card | look up, edit, fill on demand, backfill |
| Material pipelines | `scenario_material_pipeline.py`, `exam_wordbook_pipeline.py` | caches on disk, packs | assign, review, translate, check, resume |
| Text analysis | `analyzer.py` (direct path), `validator.py`, `translator.py`, ... | caches | pure text processing |
| Operations | `scripts/*.ps1`, `*.ps1` | files | start, stop, release, restore |

How they interact. An analysis request *claims* a record in the registry: it becomes
the owner of a new analysis, follows one that runs, or is answered from one that has
finished. An owner looks at the quota, takes a *slot* (perhaps after waiting in the
bounded queue), reserves the *quota* in a transaction, runs the analysis in a thread
and completes the record; followers wait for the record's event under a semaphore of
their own. The streaming endpoint hands slot and record over to the response
generator, which must give both back however the response ends. Inside a streamed
analysis a thread and a coroutine exchange events over a queue, and the coroutine
cancels the thread by closing the HTTP response it reads. Card calls share nothing but
the database: unique keys, row locks and the `client_actions` table, READ COMMITTED.
Reviews use the same table and the same cards, which sync edits under their feet: an
answer locks its session, its card and the question; openings and overviews read
without locks and lock what they change. The pronunciation endpoints use the same
slots and quotas. Sign-in, the incremental list, discovery and dictionary metadata meet the
other calls in the database only; the batch tools meet them there or in files.

What is hard here:

- *concurrency on one loop and in threads*: state read before an `await` and used
  after it (quota before the queue, the expiry of a record under a running analysis),
  a wake-up lost between an empty queue and `Event.clear()`, a response opened after
  the cancel that should have closed it;
- *failure at every step*: a client that leaves, a queue that is full, a deadline that
  runs out, an exception between taking a permit and giving it back;
- *retries*: the mini program sends an operation again when the answer is lost; the
  registry and `client_actions` have to turn "again" into "once";
- *transactions*: statements of several calls interleave, an INSERT waits for
  somebody else's key, a SELECT ... FOR UPDATE reads the row anew after waiting;
- *several statements for one answer*: a reader counts, then fetches, and an import or a
  deletion commits in between; a cursor passes a stamp whose transaction is still open;
- *caches*: a dictionary resolved once per process, clips pruned while they are sent,
  batch results on disk that a crash leaves behind;
- *time*: midnight between two looks at a quota, a cleanup between a call and its
  retry.

What would make each part correct, and the property that says so, is listed in
section 3; `PROJECT.json` lists the hazards line by line.

## 2. The modules

| Module | Role |
| --- | --- |
| `ResourceSlot` | `async_resource_slot`, the semaphores of one resource |
| `DailyQuota` | `consume_daily_quota` statement by statement, around midnight |
| `SingleFlight` | abstract: what a registry of running requests promises |
| `AiRequestRegistry` | the two dictionaries; implements `SingleFlight` |
| `AiPipeline` | both endpoints, on top of `ResourceSlot` and `AiRequestRegistry` |
| `StreamProtocol` | abstract: the NDJSON stream as a client may rely on it: which fields it is shown, in what order and of which attempt |
| `AnalysisStream` | worker thread and event loop of one streamed analysis; implements `StreamProtocol` |
| `CardStore` | abstract: versioned cards with tombstones |
| `CardSync` | card calls in READ COMMITTED transactions, client actions, cleanup; implements `CardStore` |
| `ReviewSession` | answers, openings and overviews of one user in READ COMMITTED transactions, with edits of cards |
| `Pronunciation` | `get_tts` with threads, clips on disk, locks per clip, voices and pruning, on top of `ResourceSlot` |
| `CardFeed` | the incremental list and its cursor against writers that commit late |
| `Accounts` | sign-in, tokens and sign-out of one openid |
| `Discovery` | the catalogue under imports, its readers, the known marks |
| `RateLimiter` | the sliding window of one key |
| `ReviewRules` | selection of cards and the rules of a round, as operators over decks |
| `Questions` | the cards of a session and the wrong answers of a question |
| `ReviewReports` | the readers of history and summaries, against edits, deletions and answers |
| `Lexicon` | dictionary, schema cache and metadata rows |
| `ScenarioMaterials` | the production of scenario packs with caches, crashes and resumption |
| `Lists` | sorted sets and sequences without some of their elements, as `ReviewRules`, `Questions` and `ScenarioMaterials` make them |
| `*Proofs` | theorems and proofs about the module of that name; `AiPipelineProofs` is also about `AiRequestRegistry`, `SelectionProofs` about `ScenarioMaterials`, `ReviewRules` and `Questions`; `ResourcesProofs` is about `DailyQuota` and `Pronunciation`, `LibraryProofs` about `Accounts`, `CardFeed`, `RateLimiter`, `Discovery`, `Lexicon` and `ReviewReports` |
| `MC*` | instances for TLC; `MCResources` and `MCLibrary` bundle modules that share no state |

How state and actions correspond to the code:

- `ResourceSlot`. `slotValue` and `waitValue` are the values of the two
  semaphores, `slotState` says where a client is in `async_resource_slot`: outside,
  waiting with a permit, or in the body. The event loop switches
  clients at `await` only, so an action is the code between two of them.
- `DailyQuota`. A transaction begins, ensures the row (INSERT ... ON CONFLICT DO
  NOTHING), locks it (SELECT ... FOR UPDATE), compares, and updates and commits, or
  rolls back. `today` moves at `Midnight`; a transaction remembers the day it read.
- `AiRequestRegistry`. `byKey` and `inflight` are the dictionaries. A record is named
  by the request that created it: `ident` is what it is for, `outcome` how it ended,
  `attached` the record each request was given. The code holds a lock around every operation, so each is one
  action. Time is abstracted: `Expire` lets the TTL of a
  completed record run out (a running one has no expiry yet), and every claim purges
  first, as the code does.
- `AiPipeline`. `pc[r]` is where the handler or response generator of request `r`
  stands between two suspension points, `reply[r]` what its client was told;
  the registry's and the slot's variables are shared with those modules, whose
  operators the actions call. The direct endpoint and the streaming one differ in who
  gives the slot back and completes the record.
- `AnalysisStream`. `wpc` is the program counter of the thread, `cpc` of the
  coroutine. The parsing of partial JSON is abstracted to which fields grew and which
  are complete; what Ollama sends is chosen freely line by line. The order of fields,
  the hold-back of a field before its predecessors, `seq`, the reset before the second
  attempt and the `final` event are modelled in full.
- `CardSync`. `pc[c]` is the next statement of call `c`, `card` and `rows` are the
  committed rows of the two tables; `work[c]` is the row the call is about to commit, and
  where a call stands says which keys and locks it holds. `log` and
  `answers` are history variables: what was committed, and what clients were told.
- `ReviewSession`. `session`, `item`, `rows`, `log` and `card` are the committed rows;
  `item[s][i]` is the item at a position together with its question, which is
  represented by the version of the card it was made from (0: no row yet). A call's
  `work` is what it has read: the session as loaded and as refreshed, and the questions
  it has to return (`view`), those it has not come to (`left`), and those that have no row
  (`new`) or are to be made anew (`stale`). What a call writes is seen at its commit, so the
  model writes it there; the locks are taken where the code takes them. An opening looks at
  one question after the other and flushes it (`LookAtQuestion`, `WriteQuestion`,
  `ShareRows`); an INSERT waits for the question's key and then, for its foreign keys, for
  answers that have locked session or card, an UPDATE waits for the row. An answer asks the
  next question while it holds its own. `pc` and `work` say which locks a call holds. ORM sessions write only
  the attributes that differ from those loaded (`Changed`, `Written`), which is what
  lets an old count overwrite a newer one. The
  FSRS state is written with the answer log in one transaction and is not kept apart;
  any cards that can be asked may be due.
- `Pronunciation`. `stage[c]` is where a request stands: on the event loop up to the
  thread, then in the thread. `files` says of every clip whether its file is absent,
  partial or whole, `registry` which lock object a key has, and `heldBy` who is inside
  each lock; a client may hold an object that the registry has dropped. `todo` is what
  a pruning thread has listed and not yet looked at.
- `CardFeed`. A writer stamps a card under its row lock (`stamped`) and commits later;
  `cursor` and `seen` are what the client holds. Stamps are not unique: a card may get the
  one of the last flush. `late` and `tied` are history: the cards committed behind the
  cursor, and those the limit cut off from a page that ended within their microsecond.
- `Accounts`. `standing[c]` is the next statement of a call, `readVersion` what its
  session loaded, `issued` the versions in the tokens handed out.
- `Discovery`. `rows` are the committed items of a pack with position and status; an
  import computes its writes and commits them in one transaction. The source gives an item
  its status (`Withheld` says of which editions it hides one) and a pack may come out inactive
  (`packActive`). Readers go through their SELECTs one by one. `held[m]` is history: the values a mark had during a call.
- `ReviewRules`. `SelectReviewCards` and its parts take a deck and a request to a sequence
  of cards; `StudyNext` plays rounds of answers with repeats over a set of cards.
- `Lists`. Python's `sorted` and its comprehensions are written with ranks and counted
  elements: the element at a place of a sorted list is the one with so many before it. The
  community modules' `SortSeq`, `SetToSortSeq` and `SelectSeq` say the same, and the provers
  cannot expand them.
- `Questions`. `FetchCards` is the query of `generate_distractors` for the user's other
  cards, of which `considered` are any 500 (`CardLimit`); then a step is a pass: six over these
  cards, from nearest to widest, then four over the dictionary, each with a query of its
  own (`RowLimit` rows, and of those that are left by the part of speech the first `EntryLimit`
  with a meaning not seen; `reached` are those its loop came to). `distractors` is the list it
  grows: texts with their normal form (`Normal`). The dictionary's meanings are compared as they
  are written with normal forms, as in the code. `picked` is what an opening takes.
- `ReviewReports`. `ledger` is the (static) table of old review logs, `shelf` the
  cards under edit and deletion; each reader keeps what its statements returned.
  `sheet` is a session that is being answered while its summary is read.
- `Lexicon`. `file` is the dictionary on disk, `schema[p]` what process `p` resolved,
  `metadata[c]` the row of a card. A transaction holds what it read and writes the
  columns that differ from it; `wrote` and `mixed` are history.
- `ScenarioMaterials`. `phase` is the stage of the run under way, `todo` its batches,
  `fresh` what it has that is not on disk; `decisions`, `translations` and `reviews` are
  the caches on disk; `finished` collects what finished runs produced. `Adapt` writes the
  adapters' caches (`archives`), which are read without a check: one that was torn by a
  crash stops every later run there, as a torn decision or review does in its stage.

## 3. The runs

| Run | Module, config | Instance | Question |
| --- | --- | --- | --- |
| `resources` | `MCResources`, `Resources` | 5 clients, 2 slots, 2 waiting; 4 transactions, quota 2, one midnight; 3 requests for 2 clips, a cache for 1 clip and 1 lock | Is nobody sent away while a slot is idle; is no increment lost and no day's quota exceeded; is a clip made once at a time and seen whole only, and not deleted by the request it is for; does every call and request end? |
| `pipeline` | `MCAiPipeline`, `AiPipeline` | 3 requests, 1 key, 2 payloads, 1 slot, 1 waiting place, 1 follower, quota 2 | Is every permit given back and every record completed on every exit; do sharers agree; is an operation paid once; is a delivered `final` kept; and do the dictionaries, used by the endpoints, implement `SingleFlight`? |
| `pipeline_live` | `MCAiPipeline`, `AiPipelineLive` | the same with one payload, two followers, no deadline | Is everyone answered even if no timeout comes to the rescue? |
| `stream` | `MCAnalysisStream`, `AnalysisStream` | 2 fields (one streamed as text), 2 lines per response, 2 attempts | Is no wake-up lost, does a cancel reach the reader, does the client see the protocol? |
| `stream_live` | `MCAnalysisStream`, `AnalysisStreamLive` | translation-only, both fields streamed as text, 1 line per response | Do thread and coroutine come to rest with every response closed? |
| `stream_cancel` | `MCAnalysisStream`, `AnalysisStreamCancel` | as `stream` | Violated: see section 6. |
| `card_sync` | `MCCardSync`, `CardSync` | 5 calls out of 7 requests on one card | Do retries agree, is every success real, do cards change as `CardStore` says? |
| `card_cleanup` | `MCCardSync`, `CardSyncCleanup` | 4 calls out of 4 requests, 1 cleanup | Without its record, is an operation still not applied twice, and is everyone answered? |
| `card_retry` | `MCCardSync`, `CardSyncRetry` | 4 honest calls, 1 cleanup | Violated: see section 6. |
| `review` | `MCReviewSession`, `ReviewSession` | 3 calls out of 2 client actions, 3 kinds of opening and the overview, or 4 out of the actions and openings that continue; sessions of 1 or 2 cards, 1 edit of each card | Does an answer count once and whole, against the card as it is; do session, items and repeats agree; where can calls wait for each other in a circle, and has one that waits for nobody a step to take? |
| `review_audit` | `MCReviewSession`, `ReviewSessionAudit` | 4 calls, no edits, openings that continue | Violated: see section 6. |
| `library` | `MCLibrary`, `Library` | twelve parts, see below | Do the parts around the core keep their promises, a property or two for each? |

`resources` and `library` bundle modules that share no state: the initial state chooses
a part, and every step is a step of that part while the others stay as they began. What
is checked is what a run of its own would check for each part; the state spaces add and do
not multiply. The parts of `library`:

| Part | Instance | Property |
| --- | --- | --- |
| accounts | 3 sign-ins, 2 sign-outs, 1 other call | `OneNewUser`: sign-ins that race make one user, and only the loser of the race fails |
| feed | 3 cards by the rank of their ids, pages of 2, 3 stamps that may be equal | `MissesOnlyLateOrTied`: what a client misses was committed behind its cursor or cut off by the limit within one microsecond, nothing else |
| marks, reading | 4 editions of 3 items, one of which withholds an item, 3 imports, 3 mark calls, a reader of each kind | `MarksAgree`, `CatalogueIsWhole`: an edition shows whole, no import trips over positions, nobody is sent away from a pack that has items without an import between |
| selection, rounds | 36 decks, 24 requests; rounds over 2 cards | `RulesAreSound`: a selection has as many cards as it can, each once, the due before new ones beyond their quota (`SelectionIsSound`); no mastery in a round with a failure, however its repeats went (`MasteryIsEarned`) |
| questions | 1,024 banks of 4 cards and 8 of 5, 3 dictionaries of up to 4 entries, a text in two spellings; limits of 3 cards, 3 rows and 2 entries | `QuestionsAreFair`: wrong answers are wrong and different however they are written, of the cards considered none that fits worse than one left out, the dictionary after them; a session is refused only where neither these cards nor the entries of the last pass have more, but for an entry that gave one already or is kept back by another spelling |
| materials | 2 packs, 4 + 3 + 4 sentences that share texts, 3 runs, crashes at every step | `MaterialsAreWhole`, `RunsRepeat`: no text twice, no rejected sentence, and runs agree however often they were stopped |
| history, summaries | 2 cards, 3 ledgers, 30 queries; 3 sessions | `ReportsAddUp`: pages, totals, details and summaries tell one story where nothing changed, and none that is impossible where something did |
| lexicon | 1 card, 3 words, two processes and a backfill | `MetadataIsExplained`: a row that fits its card and is wrong was written from an older dictionary or by two transactions that did not see each other |
| limiter | 4 calls, limit 2, window 2, 3 seconds | `WindowNeverOverrun`: no window has more calls than the limit, but for calls overtaken between clock and lock |

Why the bounds are enough to be of interest. Every limit is met and passed: more
clients than slots and waiting places together, more transactions than quota, more
requests than slot, queue and follower permits, two followers of one owner, two
attempts of a stream with events queued from both. Two payloads and two users are what
it takes to share wrongly; a third request is the one that arrives after the record
expired. Two lines let a cancel fall between them. Five card calls allow a create, an
edit, its duplicate, a delete and a straggler; one card suffices because calls of
different cards share only the key of an action id, and requests that reuse an id for
another operation are among the seven. Three review calls are an
opening and two others that meet: two answers, an answer and its duplicate, an answer
and an overview or a second opening; the fourth, which the audit needs, takes the
opening and two answers inside one overview. `review` lets a fourth call join three that
leave it room (`Bound`): an opening that makes the session, one that has made the first
question anew and found the second out of date, one that makes the second anew meanwhile,
and an answer to it; or two answers, of which the first leaves a repeated item, and an
opening between them. With four, all openings continue and want both cards, no overview is
among the calls (it waits for nothing while it holds a lock), and cards are edited or both
answers are given, not both in one behaviour. Which users and keys may share a record
is run with one key and two payloads; for several users and keys it is proved.
Three clip requests are two that share a clip or prune for each other and one with
another clip; a cache for one clip and one lock makes every request prune. In `library`
the editions grow, shrink, turn round and contain a duplicate, the sentences repeat
within and across sources, the decks have cards of every state on either side of the
quota, four cards are what the three wrong answers of a question need and a fifth is one beyond
the limit of its query, three runs are one that is stopped and two that finish after it, or one
stopped between them, four entries are more than a query of the dictionary gives, and four calls at limit two
let one be overtaken and another be refused.
`LastDay`, `MaxLines`, `MaxCleanups`, `MaxVersion`, `LastTick`, `LastSecond`, `MaxImports`,
`MaxRuns` and `BatchLimit` bound the counters. `CHECK_DEADLOCK FALSE` stands where a behaviour ends when all requests
are done. The shipped configuration has 1 slot, 2 waiting places, 3 followers; the
theorems cover every value.

Symmetry is used for requests, users, keys, payloads and calls in runs of safety
properties only: these are compared for equality and never ordered.

### Fairness

- `DailyQuota`: weak fairness of a transaction's statements (a handler that runs goes
  on) and strong fairness of getting the row lock (PostgreSQL grants a lock to
  waiters in turn). Midnight is not fair: it need not come.
- `Pronunciation`: weak fairness of every request that has arrived, on the loop and in
  its thread. A lock may be taken by another request first, but only so many of them can
  overtake, each once.
- `AiPipeline` (`PatientSpec`): weak fairness of each request's own next step, with
  no deadline ever running out. A waiting client polls for the slot, so it is given no
  more than weak fairness: it may miss a slot that comes and goes, and is served because
  only so many requests can overtake it. Nothing obliges a client to call or to leave.
- `AnalysisStream`: weak fairness of the thread, of the loop's coroutine and of
  callbacks handed to the loop. Ollama answers or fails in the end: the code sets a
  read timeout on every response.
- `CardSync`: weak fairness of each call's next statement. A call waits only for a
  key or a row whose holder can still go on.
- `ReviewSession` states no fairness. A call goes through its handler once and never
  back, so it ends unless it waits. `OnlyLocksStop` says as an invariant that a call which
  waits for nobody has a step to take, `CirclesNeedQuestions` that no call waits for one that
  is over, and that calls wait in a circle only over rows of questions. Such a circle is broken by
  PostgreSQL, which aborts one of its transactions (`Fail`).

## 4. What is proved

For every number of requests, slots, users, cards and calls (constants are restricted
only by the named `ASSUME` of each module), from the specifications without fairness.

| Module | Inductive invariant, and why it is needed | Theorems |
| --- | --- | --- |
| `ResourceSlotProofs` | The values of the semaphores equal the capacities less the number of clients that hold a permit; a set of holders is what makes "less the number" a fact about cardinalities of finite sets. | `SlotsAreAccounted`, `NobodyIsSentAwayIdle` |
| `ResourcesProofs`, quotas | A transaction past its SELECT holds the row, and what it read is still the row's count. | `QuotaIsKept` |
| `ResourcesProofs`, clips | `ClipInv`: a writer that is about to rename has written the whole temporary file; the lock a request is inside is held by it, so that a second maker of a clip is inside another lock object; one request at most loads the voice; what a pruning thread has listed never contains its own clip. | `ClipsAreWhole`, `WorkIsDoneOnce`, `PruningIsCareful` |
| `AiPipelineProofs`, registry | Each entry leads to a record of the entry's user, key and print; a running record with a key is under its key. | `RegistryIsTyped`, `NoResultCrosses`, `KeysStayApart`, `KeyIsClaimedOnce`, `InflightHoldsRunning`, `RegistryImplementsPromise` |
| `AiPipelineProofs`, endpoints | Every unfinished record has exactly one owner, at a place from where it still finishes it; a follower's record exists; and the registry's own invariant, carried over by `EndpointsUseRegistry`. | `PipelineIsTyped`, `EndpointsUseRegistry`, `NoRecordIsAbandoned`, `NoPermitIsLost`, `SharersAgree`, `OperationsArePaidOnce`, `DeliveredIsKept` |
| `AnalysisStreamProofs`, wake-ups | `WakeInv`: the property itself, once the number of wake-ups in flight is known to be a number. | `WakeupsAreNotLost` |
| `AnalysisStreamProofs`, cancel | `CancelInv`: a thread that reads, or will once it has passed on the events of a line, has registered its response; if that is open although the loop has cancelled, it is among the responses the loop has still to close. | `CancelClosesTheResponse` |
| `AnalysisStreamProofs`, protocol | `PipeInv`. `Pipe`, the events on the queue followed by those the thread has still to put there, is numbered without a gap from what the client has seen to what the thread has counted; it holds one reset at most, and only while the thread is in the second attempt and the client still sees the first. `FinalInv` adds that in the pipe a `final` comes before whatever ends the stream, unless the loop itself has given up. `FieldInv` says that the fields shown, followed by those in the pipe, are the first ones of the order, each once and of the attempt that a reset in between begins, and that those the thread has yet to send are the ones after them. | `ClientSeesTheProtocol` (the refinement of `StreamProtocol`), `StreamNeverBreaks` |
| `CardSyncProofs`, cards | `IInv`: `Typed /\ Placed /\ OneHolder /\ WorkFollows`: where a call is determines what it holds, a row is held by one call, and the row a call is about to commit is the successor of the committed one. `HInv` ties the log to versions: each entry of a card has a version of its own. | `CardsImplementStore`, `OperationsApplyOnce`, `NothingIsOverwritten` |
| `CardSyncProofs`, answers | `KeysInv`: the key of an action is held by one call, and nothing is committed under it meanwhile. `AnswersInv`: until a cleanup, every success told is on record as it was told. `RealInv`: every row there is, committed, on record or in a call's hands, is in the log, unless the call is about to put it there. | `RetriesAreReplayed`, `ActionIsOneOperation`, `SuccessesAreReal` |
| `ReviewSessionProofs`, rows and locks | `Typed` with `Placed` and `Viewed`: what a call has read, as a function of where it is; `OneHolder`: a session is locked by one call. `GradedInv` adds, call by call, that what an answer has checked (session active, item open, card and question current) stays so until it commits (`Graded`), and that a changed status is written under the lock (`Changes`). | `RowsAndCallsAreTyped`, `AnswersAreGradedWhenCurrent` |
| `ReviewSessionProofs`, status | `StatusInv`: a session whose row, as a call is about to write it, says `completed` has nothing pending at that moment (`PendingIsOver`), and nothing comes back (`NothingComesBack`): repeats are added by answers only, to sessions that are active. | `StatusIsTrue` |
| `ReviewSessionProofs`, answers | `LogInv`: the log names actions that succeeded and items that are done, each once, and all of them; the row of an action under way is not committed. `RepeatInv`: a card has a repeat in a session exactly if the log has a wrong answer to it there. | `AnswersAreAllOrNothing`, `WrongAnswersComeBackOnce` |
| `ReviewSessionProofs`, waiting | `CircleInv`: `GradedInv`, and that one session of the user is active at most (`OneActive`), that a session an opening shares for its INSERTs is not locked by an answer (`OneSharer`); `OneWriter`, a part of `GradedInv`, that a question is locked or written by one call. With them a call has a `Level`: client action, session, index of active sessions, questions of a session that an answer has locked, card, questions otherwise. Where no answer is among them that wants a question, a call that waits for another that waits has the lower level, or the same and the earlier question of the same session (`WaitsClimb`); so such calls are no circle (`WaitersEscape`). What an answer waits for when it wants a question is an opening that has written some, and as this waits too it is not through with them. | `CirclesGoThroughQuestions` |
| `LibraryProofs`, feed | Stamps never lie ahead of the clock, and the property itself. That the stamp of a page's last card exists rests on the least-number principle, that a card off the page is no older than it on the cardinality of the cards before; one with its very stamp is in `tied`. | `ClientMissesOnlyLateOrTied` |
| `LibraryProofs`, accounts | A call that has found a row, has a token to write or failed implies that there is a row; the set of sign-ins told they are new is empty before it and a singleton after. | `OneUserPerOpenid` |
| `LibraryProofs`, limiter | `LiveArePlaced`: the queue keeps stamps and forgets calls, so an injection gives every granted call whose window is still open an entry of its own; a granted call then finds all calls of its windows in the queue. | `WindowsAreKept` |
| `LibraryProofs`, catalogue | `CatalogueInv`: no two rows share a position, in the committed table or the import's draft; every row of the draft is either at its place in the edition, with the status it has there, or hidden behind all of it; what a reader has counted is what there is, or it has seen the catalogue move; a marker's mark has been what the next statement will say it was. That positions and rows are equally many is a fact about injections and cardinalities. | `PackShowsOneEdition`, `MarksAreTold` |
| `LibraryProofs`, metadata | `LexiconInv`: a process that began after the dictionary was built knows it as it is (`KnowsIts`); what a job is going to write it has looked up in the dictionary its process knows (`LookedUp`); and `RowIsExplained`, which says of the row itself what the property says of a row that fits its card: a row that does not fit may fit again when the card is edited back. | `WrongRowsAreExplained` |
| `LibraryProofs`, reports | `HistoryInv`: what each statement told is what it would tell now, or a card was edited since the request; what no edit changes (the order of a page, totals without a search) is so in any case. The rest is about one moment and rests on counting: the latest logs are one for each card (a greatest element of a finite set), the places of a page are a bijection, grades share out the logs. `SheetInv` and `SumInv`: a session has an answer log for each item that was done since there are any; what a summary has read is not ahead of what it is about to read, and is all there is if the session was completed. | `ReportsTellOneStory` |
| `SelectionProofs`, lists | Lemmas: `SortedBy` lists its set once and in order, whatever the order is (that the ranks of a finite total order are 0 to n - 1), `Without` keeps the rest in order, folds that append keep what they are given, and a sequence without doubles is as long as its set is large. Inductions are over sets of numbers (`Climb`). | |
| `SelectionProofs`, materials | `MaterialInv`: `StagePacks` says of each stage what its packs are, as a function of the sources and of the decisions on disk. Lemmas about that function say that no text or fingerprint is in two places of the packs and that a pack is short only where its last source is used up. `StageTodo`: what is to do is what the caches lack. `DecisionsAreKept` and `TranslationsAreKept`: an answer stays as it was first written, so that runs that finish agree (`FinishedAreKept`). | `MaterialInvHolds`, `PacksAreWhole`, `RunsDoRepeat` |
| `SelectionProofs`, rounds | `RoundInv`: positions are a line; an item still to be asked is its card's only one, or a repeat that remembers a failure. Without the last part a repeat could be taken for a first answer. | `RoundInvHolds`, `MasteryHolds` |
| `SelectionProofs`, selection | No induction over steps: a selection is one expression. The argument is about which sorted groups it appends, that deduplication keeps the first of each card, and how many places each group leaves. | `SelectionHolds`; with the rounds, `RulesHold` |
| `SelectionProofs`, questions | `QuestionInv`: cards taken and cards waiting are the candidates in order, and `Search` says of each pass what the passes before it leave: of the considered cards that fit them no unused answer, of the entries the last pass came to none whose first unseen meaning is legal, unless it gave an answer or was given in another spelling. What a query leaves out is arbitrary (`LimitedTo`), so the theorems hold for every choice and every limit. | `QuestionInvHolds`, `QuestionsHold` |

The pattern is the same throughout: the type invariant and each conjunct of the
strengthening is preserved by every action (one step per action), the property follows
from the strengthening, and a refinement maps each action to an action of the abstract
module or to a stutter. `AiPipelineProofs` proves the registry by itself first, then shows
that every step of the endpoints is a step of the registry (`UsesRegistry`) and cites those
theorems; likewise for the slots.

Where a property is proved for every instance and follows from, or is a part of, a
stronger one that a run checks, the run does without it: `PermitsAccounted`, `OneOwnerPerKey`,
`SharesOwnPayload`, `KeyIsAnOperation`, `UsesRegistry`, `NothingOverwritten` and the
pipeline's `TypeOK`.

`RetriesAreReplayed` and `ActionIsOneOperation` are stated for as long as no cleanup has
run (`cleaned = 0`): the run `card_retry` shows that they fail after one. A retry that
agrees is one that follows a success; before the first success of an action a conflict may
be answered and a success later: a deletion that came late succeeds once the card has been
deleted otherwise.
`WorkIsDoneOnce` leaves out the makers of a clip whose lock was dropped from the registry
while it was held, as the property does.

Two things the proofs corrected. `QuestionsAreFair` once said that a session is refused
only if no entry of the dictionary has a legal answer; the proof stopped at an entry that
has given its one answer of the last pass, and later at one whose meaning another entry
gave in another spelling. TLC has both cases now (section 3). And
choices that the code makes by early return (`get_due_reason`, `calculate_next_review_at`,
`_freq_score`) were a CASE whose arms overlap, which in TLA+ have no order: they are IFs.

Only model-checked, and why:

- liveness, `EveryCallEnds`, `EveryClipRequestEnds`, `EveryoneIsAnswered`, `BothEnd`:
  TLAPS has no rules for fairness here;
- `OnlyLocksStop`, which says that a step is ENABLED.

## 5. Assumptions and abstractions

- One server process. The registry and the semaphores are per process in the code too.
- The server begins to iterate the body of a streaming response it was handed. If it
  did not, the slot and the record held by the generator would not be given back.
- Starlette closes the generator when the client has gone; requests' `close()` makes a
  blocked read return. How long a close may block is a question of the HTTP library.
- PostgreSQL: READ COMMITTED, unique keys and row locks as documented. SQLite branches
  serve the tests and are left out.
- A commit succeeds or fails as a whole; a connection that breaks is a rollback.
- Clocks: only the order of day change, TTL expiry and requests matters; the wall clock
  does not run backwards.
- A slot is given back when the client has gone, though the thread may still wait for
  Ollama: the code says so and accepts it, and the model does too.
- Files: a rename is atomic; a clip that has been opened for a response is sent though its
  name is unlinked. The limits of the operating system are left out.
- `ScenarioMaterials`: every optional stage is enabled, and nobody deletes or edits the
  caches between runs; a row's translation may differ from run to run, a decision of the
  reviewer may too.
  A source id belongs to one sentence, and a dialogue suits the one pack its adapter puts
  it in (`SentenceAssumption`).
- `ReviewRules`, `Questions`: decks, banks and dictionaries are finite, and the ids in them
  are primary keys (`DeckAssumption`, `BankAssumption`, `DictionaryAssumption`).
- `ReviewReports`: nothing in the server writes old review logs any more, so the table
  does not change. A session is completed only with all its items done, and an item
  done before there were answer logs has its result (`ReportAssumption`).
- A payload is a model value; texts, prompts, scores and wording do not appear.

## 6. Where the code and its comments differ

- `stream_cancel`. A disconnect that falls between the POST to Ollama and
  `add_close_callback` (`app/services/ollama_example.py` 1081) closes the response
  before it is read. The read then finds no line, or fails, and the attempt is
  recorded as empty or unavailable; the generator ends with an unsuccessful `result`,
  where its docstring (1257-1259) promises `cancelled`. The worker counts a failed
  analysis that was none; the client has gone and sees nothing.
- `card_retry`. `scripts/cleanup_client_actions.py` says it deletes client actions
  older than seven days, and computes the cutoff as the present moment (line 34), so
  it deletes all of them. An update whose answer was lost and which is sent again
  after a cleanup is answered with a version conflict, although it succeeded.
  `AppliedOnce` and `NothingOverwritten` (run `card_cleanup` and the theorems) say
  that nothing worse happens: the versions still keep it from being applied twice.
- `review_audit`. The overview (`app/routers/reviews.py` 719-722) refreshes the active
  session without locking it and writes its counts at its commit (768). If one answer
  falls between its load and its count and the next one, which completes the session,
  between its count and its commit, the session stays `completed` with fewer
  `reviewed` than `total`. The audit of `e2e/run_level7_e2e.py` (656-662) counts such rows as
  `completed_session_progress_mismatch` and fails the stage. `StatusTellsPending` says
  that the status itself is right, since the overview does not write what it has not
  changed.

More were met while modelling and have no run, as the model abstracts from what
they need or allows them as the code does:

- A question that is made anew keeps its row's id (`review_v1.py` 404-440). A device that
  still shows the old options can answer it and is not told `stale_question`; the
  check compares the question with the card, not with what was shown. In the model the
  answer is logged against the question as made anew.
- An opening with `restart` that read a session as active writes `abandoned` into it
  although an answer may have completed it meanwhile.
- An action marked `failed` that is sent again meets its own unique key in
  `create_processing_action` and is answered with 500 (`Insert`).
- `docs/discovery-phase1.md` 15 derives an item's id from content version, pack and
  content; the code leaves the version out, so an item keeps its id (and its marks) over
  editions. `Discovery` models the code. Its line 13 promises one quote a day for all users,
  which an import in the middle of a day breaks.
- The window of the rate limiter can be overrun by calls that read the clock early and
  take the lock late: a later call drops what their own window still contains.
  `WindowNeverOverrun` excludes them by name. AI and TTS calls check on the event
  loop and are not exposed; `lexical-info` runs on threads.
- The functions of `review_rules.py`, apart from the normalisers, have no caller in
  `app/`; `ReviewLog`, which history and today's list read, has no writer. The search of the history matches the card of
  today while the snapshot is shown; the list falls back to today's note where the detail
  shows none; items from before there were answer logs are not counted in a session
  that has both. `ReportsAddUp` is stated with these differences.
- A card that is changed in a transaction which commits after a page was read is not
  sent to the device until it changes again, nor is one that has the `updated_at` of a page's
  last card and comes after it by its id: the page is ordered by time and id, the cursor is a
  time alone (`card_service.py:235, 252`). `MissesOnlyLateOrTied` says these are the only losses.
- Two sign-outs at the same time both write the version they read, plus one: a token
  issued after the first can survive the second. Nobody is let in who was signed out.
- A question is refused with "Could not generate 3 legal distractors from user cards and
  ECDICT" (`review_v1.py` 335-337) although there may be a third. The query for the user's cards
  stops at 500 without an order (223), that of the dictionary at 480 rows, before the part of
  speech is looked at, and at 120 entries (`ecdict_service.py` 367, 384, 400); a pass takes one
  meaning of an entry; and a meaning that is a seen answer in another spelling is not left out by
  the query, which compares it as it is written (386), but refused afterwards (`review_v1.py` 240),
  so that the entry's further meanings are not tried. `FailsForWant` says what is left.
- Calls can wait for each other in a circle over questions, and one of them ends with the
  error that PostgreSQL raises then (a 500). `ensure_question_for_item` flushes each question
  it makes (`review_v1.py` 441) and keeps the row to the commit while the opening goes on to the
  next (`reviews.py` 577); an answer makes the next question (1707) while it holds session,
  card and its own question (1510-1597). So an opening that has inserted the question of a repeated item waits,
  for its foreign keys, for an answer that has locked the session, and this waits for the key of that very question.
  Or an opening has made the first of two questions anew and found the second out of date, another opening
  makes the second anew and commits, and an answer to it locks it and wants the first.
  No document promises otherwise. `CirclesNeedQuestions` says that all
  other locks are taken in an order: no circle is without such an answer and such an opening.
- Metadata that an old process writes after the dictionary was built, and rows whose
  columns come from two transactions, are taken for current ever after
  (`MetadataIsExplained`).

## 7. Not modelled, and the plan

Not modelled, and why:

- *Text processing*: the direct path of `analyzer.py`, `validator.py`, `translator.py`,
  `understanding.py`, prompts and the normalisation of answers, the parsing of dictionary
  rows, the classification of sentences. It is sequential, over strings, and what would make it
  correct is a matter of English, not of an order of steps. It is more than a quarter of the code.
- *The exam wordbook pipeline* and the readers of source archives: they turn files into files,
  once, with nothing beside them.
- *HTTP providers*, which appear as the outcomes of a call; *logging, metrics, diagnostics*,
  which decide nothing; *PowerShell scripts and migrations*, run by hand; *the connection
  pool*, which can only delay; keyword search and statistics, single reads.

What a next step would take up:

1. The exam wordbook pipeline, which shares its manner of caching with the scenario packs.
2. The FSRS state of a card beside the answer log, as a refinement of `ReviewSession`.
3. The promises of `EveryoneIsAnswered` and `BothEnd` as bounds on the steps of a call, which
   could be proved without fairness.
