-------------------------- MODULE AiRequestRegistry --------------------------
(***************************************************************************)
(* The in-process idempotency registry of the AI endpoints:                *)
(* app/services/request_reliability.py.                                    *)
(*                                                                         *)
(* An `AiRequestRecord` is created by the request that becomes its owner,  *)
(* so a record is named by that request.  `_records_by_key` finds records  *)
(* by (user, Idempotency-Key), `_inflight_by_fingerprint` finds running    *)
(* ones by (user, payload fingerprint).  Every operation below holds       *)
(* `_records_lock` from start to end and is one step.                      *)
(***************************************************************************)
EXTENDS Naturals

CONSTANTS
    Requests,  \* HTTP requests to the two AI endpoints; each is made once
    Users,     \* user_namespace
    Keys,      \* the valid Idempotency-Key values
    Prints,    \* payload fingerprints
    NoKey,     \* no (or an invalid) Idempotency-Key header
    NoRecord,  \* dict.get(...) is None
    NoIdent    \* the request has not arrived

ASSUME RegistryAssumption ==
    /\ NoKey \notin Keys
    /\ NoRecord \notin Requests
    /\ NoIdent \notin [user : Users, key : Keys \cup {NoKey}, print : Prints]

VARIABLES
    ident,     \* user, key and fingerprint of each request that arrived
    attached,  \* the record claim_ai_request returned to the request
    outcome,   \* result / error of each record, "pending" until its event is set
    expired,   \* completed records with expires_at <= now
    byKey,     \* _records_by_key
    inflight   \* _inflight_by_fingerprint

regVars == <<ident, attached, outcome, expired, byKey, inflight>>

Idents == [user : Users, key : Keys \cup {NoKey}, print : Prints]

\* The errors finish_ai_request is called with; "result" stands for the result.
AiErrors == {"AI_DAILY_QUOTA", "AI_QUEUE_FULL", "AI_INTERNAL_ERROR", "AI_CANCELLED"}
Outcomes == AiErrors \cup {"result"}

RegTypeOK ==
    /\ ident \in [Requests -> Idents \cup {NoIdent}]
    /\ attached \in [Requests -> Requests \cup {NoRecord}]
    /\ outcome \in [Requests -> Outcomes \cup {"none", "pending"}]
    /\ expired \in SUBSET Requests
    /\ byKey \in [Users \X Keys -> Requests \cup {NoRecord}]
    /\ inflight \in [Users \X Prints -> Requests \cup {NoRecord}]

RegInit ==
    /\ ident = [r \in Requests |-> NoIdent]
    /\ attached = [r \in Requests |-> NoRecord]
    /\ outcome = [r \in Requests |-> "none"]
    /\ expired = {}
    /\ byKey = [k \in Users \X Keys |-> NoRecord]
    /\ inflight = [p \in Users \X Prints |-> NoRecord]

IsOwner(r) == attached[r] = r
KeyOf(id) == <<id.user, id.key>>
PrintOf(id) == <<id.user, id.print>>

-----------------------------------------------------------------------------
(* claim_ai_request.                                                       *)

\* Mutant: nothing is ever swept.
PurgeNothing(dict) == dict

\* _purge_expired, which every claim runs first, applied to one dictionary.
Purge(dict) ==
    [k \in DOMAIN dict |-> IF dict[k] \in expired THEN NoRecord ELSE dict[k]]

\* The request gets a record of its own and is the owner.
CreateRecord(r) ==
    /\ attached' = [attached EXCEPT ![r] = r]
    /\ outcome' = [outcome EXCEPT ![r] = "pending"]

\* Mutant: a new key joins whatever runs the same payload, as key-less calls do.
CoalesceNewKey(r, id) ==
    /\ id.key # NoKey
    /\ Purge(byKey)[KeyOf(id)] = NoRecord
    /\ IF Purge(inflight)[PrintOf(id)] # NoRecord
       THEN /\ attached' = [attached EXCEPT ![r] = Purge(inflight)[PrintOf(id)]]
            /\ byKey' = [Purge(byKey) EXCEPT ![KeyOf(id)] = attached'[r]]
            /\ inflight' = Purge(inflight)
            /\ UNCHANGED outcome
       ELSE /\ CreateRecord(r)
            /\ byKey' = [Purge(byKey) EXCEPT ![KeyOf(id)] = r]
            /\ inflight' = [Purge(inflight) EXCEPT ![PrintOf(id)] = r]

\* A key seen for the first time (or forgotten since): a new record under both
\* the key and the fingerprint, whatever the fingerprint pointed to before.
ClaimNewKey(r, id) ==
    /\ id.key # NoKey
    /\ Purge(byKey)[KeyOf(id)] = NoRecord
    /\ CreateRecord(r)
    /\ byKey' = [Purge(byKey) EXCEPT ![KeyOf(id)] = r]
    /\ inflight' = [Purge(inflight) EXCEPT ![PrintOf(id)] = r]

\* Mutant: the fingerprint of the remembered record is not compared.
ReplayAnyPayload(r, id) ==
    /\ id.key # NoKey
    /\ Purge(byKey)[KeyOf(id)] # NoRecord
    /\ attached' = [attached EXCEPT ![r] = Purge(byKey)[KeyOf(id)]]
    /\ byKey' = Purge(byKey)
    /\ inflight' = Purge(inflight)
    /\ UNCHANGED outcome

\* A known key with the same fingerprint, running or completed: not the owner.
ClaimReplay(r, id) ==
    /\ id.key # NoKey
    /\ Purge(byKey)[KeyOf(id)] # NoRecord
    /\ ident[Purge(byKey)[KeyOf(id)]].print = id.print
    /\ attached' = [attached EXCEPT ![r] = Purge(byKey)[KeyOf(id)]]
    /\ byKey' = Purge(byKey)
    /\ inflight' = Purge(inflight)
    /\ UNCHANGED outcome

\* A known key with another fingerprint: IdempotencyKeyReuseError.
ClaimReused(r, id) ==
    /\ id.key # NoKey
    /\ Purge(byKey)[KeyOf(id)] # NoRecord
    /\ ident[Purge(byKey)[KeyOf(id)]].print # id.print
    /\ byKey' = Purge(byKey)
    /\ inflight' = Purge(inflight)
    /\ UNCHANGED <<attached, outcome>>

\* No key, and the same user has the same payload in flight.
ClaimInflight(r, id) ==
    /\ id.key = NoKey
    /\ Purge(inflight)[PrintOf(id)] # NoRecord
    /\ attached' = [attached EXCEPT ![r] = Purge(inflight)[PrintOf(id)]]
    /\ byKey' = Purge(byKey)
    /\ inflight' = Purge(inflight)
    /\ UNCHANGED outcome

\* No key and nothing in flight: a new record, under the fingerprint only.
ClaimNoKey(r, id) ==
    /\ id.key = NoKey
    /\ Purge(inflight)[PrintOf(id)] = NoRecord
    /\ CreateRecord(r)
    /\ byKey' = Purge(byKey)
    /\ inflight' = [Purge(inflight) EXCEPT ![PrintOf(id)] = r]

Claim(r, id) ==
    /\ ident[r] = NoIdent
    /\ ident' = [ident EXCEPT ![r] = id]
    /\ \/ ClaimNewKey(r, id)
       \/ ClaimReplay(r, id)
       \/ ClaimReused(r, id)
       \/ ClaimInflight(r, id)
       \/ ClaimNoKey(r, id)
    /\ UNCHANGED expired

-----------------------------------------------------------------------------
(* finish_ai_request and the passing of time.                              *)

\* Mutant: the completed record stays in _inflight_by_fingerprint.
FinishKeepsInflight(r, out) ==
    /\ IsOwner(r)
    /\ outcome' = [outcome EXCEPT ![r] = out]
    /\ expired' = expired \ {r}
    /\ UNCHANGED <<ident, attached, byKey, inflight>>

\* Mutant: the entry is overwritten with a marker instead of removed.
FinishDropsKey(r, out) ==
    /\ IsOwner(r)
    /\ outcome' = [outcome EXCEPT ![r] = out]
    /\ expired' = expired \ {r}
    /\ inflight' = [inflight EXCEPT ![PrintOf(ident[r])] = IF @ = r THEN out ELSE @]
    /\ UNCHANGED <<ident, attached, byKey>>

\* The owner stores what came out and sets the event; the record leaves the
\* in-flight dictionary unless a later owner has taken its entry over.
Finish(r, out) ==
    /\ IsOwner(r)
    /\ outcome' = [outcome EXCEPT ![r] = out]
    /\ expired' = expired \ {r}
    /\ inflight' = [inflight EXCEPT ![PrintOf(ident[r])] = IF @ = r THEN NoRecord ELSE @]
    /\ UNCHANGED <<ident, attached, byKey>>

\* Mutant: a record expires by its age, completed or not.
ExpireByAge(r) ==
    /\ IsOwner(r)
    /\ expired' = expired \cup {r}
    /\ UNCHANGED <<ident, attached, outcome, byKey, inflight>>

\* AI_REQUEST_IDEMPOTENCY_TTL_SECONDS after it completed.
Expire(r) ==
    /\ IsOwner(r)
    /\ outcome[r] \in Outcomes
    /\ r \notin expired
    /\ expired' = expired \cup {r}
    /\ UNCHANGED <<ident, attached, outcome, byKey, inflight>>

\* The owner's duty the docstring of claim_ai_request states: finish, once.
FinishOnce(r, out) == outcome[r] = "pending" /\ Finish(r, out)

RegNext ==
    \E r \in Requests :
        \/ \E id \in Idents : Claim(r, id)
        \/ \E out \in Outcomes : FinishOnce(r, out)
        \/ Expire(r)

RegSpec == RegInit /\ [][RegNext]_regVars

-----------------------------------------------------------------------------
(* Properties.                                                             *)

\* A request only ever shares the record of an owner of the same user and the
\* same payload: no result crosses users, and none answers another question.
SharesOwnPayload ==
    \A r \in Requests :
        LET o == attached[r] IN
        o # NoRecord =>
            /\ IsOwner(o)
            /\ PrintOf(ident[o]) = PrintOf(ident[r])

\* "A different key is therefore always a different operation" (claim_ai_request):
\* a keyed request never shares the record of another key, nor a key-less one's.
KeyIsAnOperation ==
    \A r \in Requests :
        attached[r] # NoRecord /\ ident[r].key # NoKey =>
            ident[attached[r]].key = ident[r].key

\* Two requests own a record for the same user and key only when one of the two
\* records completed and expired before: a key is never analysed twice at once,
\* nor again while its outcome is kept.
OneOwnerPerKey ==
    \A r, s \in Requests :
        /\ r # s /\ IsOwner(r) /\ IsOwner(s)
        /\ ident[r].key # NoKey
        /\ KeyOf(ident[r]) = KeyOf(ident[s])
        => \E o \in {r, s} : o \in expired /\ outcome[o] \in Outcomes

\* The in-flight dictionary holds running records only, so a key-less request is
\* never answered from a completed one, however the two dictionaries interleave.
InflightIsRunning ==
    \A p \in Users \X Prints :
        inflight[p] # NoRecord =>
            /\ outcome[inflight[p]] = "pending"
            /\ PrintOf(ident[inflight[p]]) = p

\* The registry with its dictionaries implements the promise without them.
Promise == INSTANCE SingleFlight WITH forgotten <- expired
ImplementsSingleFlight == Promise!Spec

=============================================================================
