----------------------------- MODULE AiPipeline -----------------------------
(***************************************************************************)
(* The two AI endpoints of app/main.py, analyze_english ("plain") and      *)
(* analyze_english_stream ("stream"): how a request claims its record,     *)
(* waits for an AI slot, pays one unit of quota, runs the analysis and     *)
(* completes the record, or follows the request that does.                 *)
(*                                                                         *)
(* The handlers are coroutines of one event loop.  A step below is what a  *)
(* handler does between two awaits that suspend it; SQL runs in worker     *)
(* threads and is a step of its own (DailyQuota has its statements).  The  *)
(* slot semaphores are those of ResourceSlot, the records those of         *)
(* AiRequestRegistry.  Wall-clock deadlines are not counted: a deadline    *)
(* may run out at any moment the code looks at it.                         *)
(***************************************************************************)
EXTENDS AiRequestRegistry, FiniteSets

CONSTANTS
    AiSlots,      \* max(1, settings.ai_global_concurrency)
    AiWaiting,    \* settings.ai_queue_waiting_capacity
    AiFollowers,  \* settings.ai_inflight_follower_capacity
    DailyLimit    \* max(1, settings.ai_daily_quota)

ASSUME PipelineAssumption ==
    /\ IsFiniteSet(Requests)
    /\ AiSlots \in Nat \ {0}
    /\ AiWaiting \in Nat
    /\ AiFollowers \in Nat
    /\ DailyLimit \in Nat \ {0}

VARIABLES
    slotValue, waitValue, slotState,  \* see ResourceSlot
    followerValue,  \* value of _ai_inflight_follower_semaphore
    charged,        \* requests that incremented today's resource_usage row
    kind,           \* which endpoint a request called
    pc,             \* where its handler (or response generator) stands
    reply           \* what its client was told

slotVars == <<slotValue, waitValue, slotState>>
vars == <<regVars, slotVars, followerValue, charged, kind, pc, reply>>

AiSlot == INSTANCE ResourceSlot
            WITH Clients <- Requests, Slots <- AiSlots, WaitCapacity <- AiWaiting

\* The owner's program: quota look, slot, quota unit, analysis.  A stream whose
\* response generator is suspended may find its client gone and is then closed.
BeforeSlot == {"check", "slot", "queued"}
HoldsSlot == {"consume", "run", "start", "stream", "final", "closing", "closingFinal"}
OwnerAt == BeforeSlot \cup HoldsSlot
FollowerAt == {"follow", "followWait"}

Replies == Outcomes \cup
    {"none", "disconnected", "AI_IDEMPOTENCY_REUSED", "AI_INFLIGHT_FOLLOWER_FULL",
     "AI_TOTAL_TIMEOUT"}

TypeOK ==
    /\ RegTypeOK
    /\ AiSlot!SlotTypeOK
    /\ followerValue \in 0..AiFollowers
    /\ charged \in SUBSET Requests
    /\ kind \in [Requests -> {"plain", "stream"}]
    /\ pc \in [Requests -> OwnerAt \cup FollowerAt \cup {"new", "replied"}]
    /\ reply \in [Requests -> Replies]

Init ==
    /\ RegInit
    /\ AiSlot!SlotInit
    /\ followerValue = AiFollowers
    /\ charged = {}
    /\ kind = [r \in Requests |-> "plain"]
    /\ pc = [r \in Requests |-> "new"]
    /\ reply = [r \in Requests |-> "none"]

-----------------------------------------------------------------------------
(* Helpers.                                                                *)

Goto(r, label) == pc' = [pc EXCEPT ![r] = label]

Answer(r, what) ==
    /\ pc' = [pc EXCEPT ![r] = "replied"]
    /\ reply' = [reply EXCEPT ![r] = what]

\* The record is completed and the client told the same.
FinishAndAnswer(r, out) == Finish(r, out) /\ Answer(r, out)

\* Units of today's quota the user has used up.
UnitsOf(u) == {r \in charged : ident[r].user = u}
QuotaLeft(r) == Cardinality(UnitsOf(ident[r].user)) < DailyLimit

-----------------------------------------------------------------------------
(* Arrival.                                                                *)

\* claim_ai_request decides: 409, the owner's path or the follower's.
Arrive(r, id, k) ==
    /\ pc[r] = "new"
    /\ Claim(r, id)
    /\ kind' = [kind EXCEPT ![r] = k]
    /\ \/ attached'[r] = NoRecord /\ Answer(r, "AI_IDEMPOTENCY_REUSED")
       \/ attached'[r] = r /\ Goto(r, "check") /\ UNCHANGED reply
       \/ attached'[r] \notin {NoRecord, r} /\ Goto(r, "follow") /\ UNCHANGED reply
    /\ UNCHANGED <<slotVars, followerValue, charged>>

-----------------------------------------------------------------------------
(* The owner, up to the analysis.                                          *)

\* check_daily_quota passes; nothing is reserved.
QuotaCheckPasses(r) ==
    /\ pc[r] = "check"
    /\ QuotaLeft(r)
    /\ Goto(r, "slot")
    /\ UNCHANGED <<regVars, slotVars, followerValue, charged, kind, reply>>

\* It raises 429, or the database fails (except Exception).
QuotaCheckFails(r) ==
    /\ pc[r] = "check"
    /\ \/ ~QuotaLeft(r) /\ FinishAndAnswer(r, "AI_DAILY_QUOTA")
       \/ FinishAndAnswer(r, "AI_INTERNAL_ERROR")
    /\ UNCHANGED <<slotVars, followerValue, charged, kind>>

\* Mutant: the 503 of a full queue skips finish_ai_request.
QueueFullUnfinished(r) ==
    /\ pc[r] = "slot"
    /\ \/ AiSlot!EnterAtOnce(r) /\ Goto(r, "consume") /\ UNCHANGED <<regVars, reply>>
       \/ AiSlot!StartWaiting(r) /\ Goto(r, "queued") /\ UNCHANGED <<regVars, reply>>
       \/ AiSlot!QueueFull(r) /\ Answer(r, "AI_QUEUE_FULL") /\ UNCHANGED regVars
    /\ UNCHANGED <<followerValue, charged, kind>>

\* async_resource_slot("ai", ...): a slot, a place in the queue, or 503.
TakeSlot(r) ==
    /\ pc[r] = "slot"
    /\ \/ AiSlot!EnterAtOnce(r) /\ Goto(r, "consume") /\ UNCHANGED <<regVars, reply>>
       \/ AiSlot!StartWaiting(r) /\ Goto(r, "queued") /\ UNCHANGED <<regVars, reply>>
       \/ AiSlot!QueueFull(r) /\ FinishAndAnswer(r, "AI_QUEUE_FULL")
    /\ UNCHANGED <<followerValue, charged, kind>>

SlotComesFree(r) ==
    /\ pc[r] = "queued"
    /\ AiSlot!EnterAfterWait(r)
    /\ Goto(r, "consume")
    /\ UNCHANGED <<regVars, followerValue, charged, kind, reply>>

QueueTimeout(r) ==
    /\ pc[r] = "queued"
    /\ AiSlot!WaitTimeout(r)
    /\ FinishAndAnswer(r, "AI_QUEUE_FULL")
    /\ UNCHANGED <<followerValue, charged, kind>>

\* consume_daily_quota commits; a plain request goes on to the analysis, a
\* stream returns its StreamingResponse with the slot still held.
QuotaConsumed(r) ==
    /\ pc[r] = "consume"
    /\ QuotaLeft(r)
    /\ charged' = charged \cup {r}
    /\ Goto(r, IF kind[r] = "plain" THEN "run" ELSE "start")
    /\ UNCHANGED <<regVars, slotVars, followerValue, kind, reply>>

\* Mutant: the setup's except clause forgets slot.__aexit__.
QuotaRefusedHoldingSlot(r) ==
    /\ pc[r] = "consume"
    /\ \/ ~QuotaLeft(r) /\ FinishAndAnswer(r, "AI_DAILY_QUOTA")
       \/ FinishAndAnswer(r, "AI_INTERNAL_ERROR")
    /\ UNCHANGED <<slotVars, followerValue, charged, kind>>

\* Another request of the user took the last unit since the check, or the
\* database fails: the slot is left and the record completed with the error.
QuotaRefused(r) ==
    /\ pc[r] = "consume"
    /\ AiSlot!Leave(r)
    /\ \/ ~QuotaLeft(r) /\ FinishAndAnswer(r, "AI_DAILY_QUOTA")
       \/ FinishAndAnswer(r, "AI_INTERNAL_ERROR")
    /\ UNCHANGED <<followerValue, charged, kind>>

-----------------------------------------------------------------------------
(* The owner's analysis.                                                   *)

\* analyze_text returns (a failed analysis is a result too) or raises.
AnalysisEnds(r) ==
    /\ pc[r] = "run"
    /\ AiSlot!Leave(r)
    /\ \E out \in {"result", "AI_INTERNAL_ERROR"} : FinishAndAnswer(r, out)
    /\ UNCHANGED <<followerValue, charged, kind>>

\* The server begins to iterate ndjson_stream, which yields `start`.
StreamStarts(r) ==
    /\ pc[r] = "start"
    /\ Goto(r, "stream")
    /\ UNCHANGED <<regVars, slotVars, followerValue, charged, kind, reply>>

\* The bridge delivers the final event and the generator yields it.
StreamYieldsFinal(r) ==
    /\ pc[r] = "stream"
    /\ Goto(r, "final")
    /\ UNCHANGED <<regVars, slotVars, followerValue, charged, kind, reply>>

\* The generator raises, or the events end without a final one: no `done`.
StreamBreaks(r) ==
    /\ pc[r] = "stream"
    /\ AiSlot!Leave(r)
    /\ FinishAndAnswer(r, "AI_INTERNAL_ERROR")
    /\ UNCHANGED <<followerValue, charged, kind>>

\* Resumed after the final event: slot, record, then the `done` line.
StreamCompletes(r) ==
    /\ pc[r] = "final"
    /\ AiSlot!Leave(r)
    /\ FinishAndAnswer(r, "result")
    /\ UNCHANGED <<followerValue, charged, kind>>

\* The client of a started stream disconnects while the generator is suspended.
ClientGone(r) ==
    /\ \/ pc[r] = "stream" /\ Goto(r, "closing")
       \/ pc[r] = "final" /\ Goto(r, "closingFinal")
    /\ UNCHANGED <<regVars, slotVars, followerValue, charged, kind, reply>>

\* Mutant: a disconnect records a cancellation even after the final event.
CancelDelivered(r) ==
    /\ pc[r] \in {"closing", "closingFinal"}
    /\ AiSlot!Leave(r)
    /\ Finish(r, "AI_CANCELLED")
    /\ Answer(r, "disconnected")
    /\ UNCHANGED <<followerValue, charged, kind>>

\* Mutant: the cancelled generator releases its slot and leaves its record pending.
CloseUnfinished(r) ==
    /\ pc[r] \in {"closing", "closingFinal"}
    /\ AiSlot!Leave(r)
    /\ Answer(r, "disconnected")
    /\ UNCHANGED <<regVars, followerValue, charged, kind>>

\* Mutant: the close of an abandoned generator leaves its slot a second time.
LeaveTwice(r) ==
    /\ pc[r] \in {"closing", "closingFinal"}
    /\ slotValue' = slotValue + 2
    /\ slotState' = [slotState EXCEPT ![r] = "outside"]
    /\ UNCHANGED waitValue
    /\ Finish(r, IF pc[r] = "closing" THEN "AI_CANCELLED" ELSE "result")
    /\ Answer(r, "disconnected")
    /\ UNCHANGED <<followerValue, charged, kind>>

\* The cancelled generator runs its except and finally clauses: the result is
\* kept if the final event had been emitted, else the record says cancelled.
StreamClosed(r) ==
    /\ pc[r] \in {"closing", "closingFinal"}
    /\ AiSlot!Leave(r)
    /\ Finish(r, IF pc[r] = "closing" THEN "AI_CANCELLED" ELSE "result")
    /\ Answer(r, "disconnected")
    /\ UNCHANGED <<followerValue, charged, kind>>

-----------------------------------------------------------------------------
(* The follower.                                                           *)

EventIsSet(r) == outcome[attached[r]] \in Outcomes

\* The owner is done already: its outcome, without a follower permit.
FollowDone(r) ==
    /\ pc[r] = "follow"
    /\ EventIsSet(r)
    /\ Answer(r, outcome[attached[r]])
    /\ UNCHANGED <<regVars, slotVars, followerValue, charged, kind>>

\* The owner still runs: a permit of the follower semaphore, or 503.
FollowWaits(r) ==
    /\ pc[r] = "follow"
    /\ ~EventIsSet(r)
    /\ \/ /\ followerValue > 0
          /\ followerValue' = followerValue - 1
          /\ Goto(r, "followWait")
          /\ UNCHANGED reply
       \/ /\ followerValue = 0
          /\ Answer(r, "AI_INFLIGHT_FOLLOWER_FULL")
          /\ UNCHANGED followerValue
    /\ UNCHANGED <<regVars, slotVars, charged, kind>>

\* A poll finds the event set.
FollowAnswered(r) ==
    /\ pc[r] = "followWait"
    /\ EventIsSet(r)
    /\ Answer(r, outcome[attached[r]])
    /\ followerValue' = followerValue + 1
    /\ UNCHANGED <<regVars, slotVars, charged, kind>>

\* Mutant: a follower that times out completes the record it waits for.
TimeoutFinishesRecord(r) ==
    /\ pc[r] = "followWait"
    /\ ~EventIsSet(r)
    /\ Answer(r, "AI_TOTAL_TIMEOUT")
    /\ followerValue' = followerValue + 1
    /\ outcome' = [outcome EXCEPT ![attached[r]] = "AI_INTERNAL_ERROR"]
    /\ UNCHANGED <<ident, attached, expired, byKey, inflight, slotVars, charged, kind>>

\* A poll finds the event not set and the follower's own deadline over.
FollowTimeout(r) ==
    /\ pc[r] = "followWait"
    /\ ~EventIsSet(r)
    /\ Answer(r, "AI_TOTAL_TIMEOUT")
    /\ followerValue' = followerValue + 1
    /\ UNCHANGED <<regVars, slotVars, charged, kind>>

-----------------------------------------------------------------------------
(* The system.                                                             *)

\* What the event loop, the worker threads and the server keep doing.
OwnerStep(r) ==
    \/ QuotaCheckPasses(r) \/ QuotaCheckFails(r)
    \/ TakeSlot(r) \/ SlotComesFree(r)
    \/ QuotaConsumed(r) \/ QuotaRefused(r)
    \/ AnalysisEnds(r)
    \/ StreamStarts(r) \/ StreamYieldsFinal(r) \/ StreamBreaks(r)
    \/ StreamCompletes(r) \/ StreamClosed(r)

FollowerStep(r) == FollowDone(r) \/ FollowWaits(r) \/ FollowAnswered(r)

Timeout(r) == QueueTimeout(r) \/ FollowTimeout(r)

\* A completed record outlives its time to live.
RecordExpires(r) ==
    /\ Expire(r)
    /\ UNCHANGED <<slotVars, followerValue, charged, kind, pc, reply>>

PatientNext ==
    \E r \in Requests :
        \/ \E id \in Idents, k \in {"plain", "stream"} : Arrive(r, id, k)
        \/ OwnerStep(r)
        \/ FollowerStep(r)
        \/ ClientGone(r)
        \/ RecordExpires(r)

Next == PatientNext \/ \E r \in Requests : Timeout(r)

Spec == Init /\ [][Next]_vars

\* No deadline ever runs out.  Fairness: the event loop resumes every handler
\* that can go on, and closes a generator it has dropped.  Polling gives a queued
\* request no more than weak fairness: it may miss a slot that comes and goes.
\* Nothing obliges a client to call or to leave, or time to pass.
PatientSpec ==
    /\ Init /\ [][PatientNext]_vars
    /\ \A r \in Requests : WF_vars(OwnerStep(r)) /\ WF_vars(FollowerStep(r))

-----------------------------------------------------------------------------
(* Properties.                                                             *)

At(labels) == {r \in Requests : pc[r] \in labels}

\* No way out of the handlers or of the stream generator loses a permit or gives
\* one back twice: slots, waiting permits and follower permits that are out are
\* exactly those of the requests that are at a place where they need one.
PermitsConserved ==
    /\ slotValue + Cardinality(At(HoldsSlot)) = AiSlots
    /\ waitValue + Cardinality(At({"queued"})) = AiWaiting
    /\ followerValue + Cardinality(At({"followWait"})) = AiFollowers

\* A record waits for its outcome exactly while its owner is on its way: every
\* exit of an owner (429, 503, database error, analysis error, broken stream,
\* disconnect) completes the record, and nobody else does.
PendingWhileOwned ==
    \A r \in Requests : outcome[r] = "pending" <=> pc[r] \in OwnerAt

\* All requests that share a record and are told its outcome are told the same;
\* what a request is told of its own is a refusal it met itself.
AnswersAgree ==
    \A r \in Requests :
        reply[r] \in Outcomes =>
            /\ attached[r] # NoRecord
            /\ reply[r] = outcome[attached[r]]

\* Analyses and paid units go together: who analyses has paid, who paid owns its
\* record, and a record kept for a key was paid for once, whoever retried it.
PaidOncePerOperation ==
    /\ \A r \in At({"run", "start", "stream", "final", "closing", "closingFinal"}) :
          r \in charged
    /\ \A r, s \in charged :
          /\ IsOwner(r)
          /\ r # s /\ ident[r].key # NoKey /\ KeyOf(ident[r]) = KeyOf(ident[s])
             => \E o \in {r, s} : o \in expired /\ outcome[o] \in Outcomes

\* A client that has received the final event finds the same result under its key
\* later, whether the connection lives to see `done` or not.
FinalIsKept ==
    [][\A r \in Requests :
        pc[r] \in {"final", "closingFinal"} => outcome'[r] \in {"pending", "result"}]_vars

\* The endpoints keep the contract of the registry: every owner finishes its record,
\* once, nobody else does, and so no outcome changes after a waiter may have read it.
UsesRegistry == RegSpec

\* Nobody waits for somebody who waits for him: even if no deadline ever ran out,
\* every request that arrives would be answered.
EveryoneIsAnswered ==
    \A r \in Requests : pc[r] # "new" ~> pc[r] = "replied"

=============================================================================
