--------------------------- MODULE AiPipelineProofs ---------------------------
(***************************************************************************)
(* The registry keeps its promise, and the two AI endpoints theirs, for    *)
(* every number of requests, users, keys, payloads, slots, permits and     *)
(* quota units.                                                            *)
(*                                                                         *)
(* The registry's invariant says that the two dictionaries point to live   *)
(* owners only, and that a key cannot lose a record before the record      *)
(* expires.  The endpoints' invariant ties a handler's place in its code   *)
(* to its record: an owner on its way has a pending record, and nobody     *)
(* else has one.  Since Finish is only called by an owner on its way, no   *)
(* record completes twice, so the endpoints are a behaviour of the         *)
(* registry (RegSpec) and inherit its theorems.                            *)
(***************************************************************************)
EXTENDS AiPipeline, FiniteSetTheorems, TLAPS

-----------------------------------------------------------------------------
(* The registry.                                                           *)

\* A request that has a record arrived, and shares what it may share.
Attaching ==
    \A r \in Requests : attached[r] # NoRecord =>
        /\ ident[r] \in Idents
        /\ IsOwner(attached[r])
        /\ ident[attached[r]].user = ident[r].user
        /\ ident[attached[r]].print = ident[r].print
        /\ ident[r].key # NoKey => ident[attached[r]].key = ident[r].key

Owning ==
    /\ \A r \in Requests : outcome[r] # "none" <=> IsOwner(r)
    /\ \A r \in expired : outcome[r] \in Outcomes

ByKeyPoints ==
    \A k \in Users \X Keys : byKey[k] # NoRecord =>
        /\ IsOwner(byKey[k])
        /\ KeyOf(ident[byKey[k]]) = k

InflightPoints ==
    \A p \in Users \X Prints : inflight[p] # NoRecord =>
        /\ IsOwner(inflight[p])
        /\ outcome[inflight[p]] = "pending"
        /\ PrintOf(ident[inflight[p]]) = p

KeyKept ==
    \A r \in Requests :
        IsOwner(r) /\ ident[r].key # NoKey /\ r \notin expired =>
            byKey[KeyOf(ident[r])] = r

RegInv ==
    /\ RegTypeOK
    /\ Attaching
    /\ Owning
    /\ ByKeyPoints
    /\ InflightPoints
    /\ KeyKept

-----------------------------------------------------------------------------

\* Sweeping a dictionary keeps exactly the entries that have not expired.
LEMMA PurgeKeepsTheLive ==
    ASSUME RegTypeOK, NEW S, NEW dict \in [S -> Requests \cup {NoRecord}]
    PROVE  /\ Purge(dict) \in [S -> Requests \cup {NoRecord}]
           /\ \A k \in S : Purge(dict)[k] # NoRecord =>
                 Purge(dict)[k] = dict[k] /\ dict[k] \in Requests \ expired
           /\ \A k \in S : dict[k] \notin expired => Purge(dict)[k] = dict[k]
BY RegistryAssumption DEF Purge, RegTypeOK

\* An identity that has arrived names a slot of each dictionary.
LEMMA IdentsAreKeys ==
    ASSUME NEW id \in Idents
    PROVE  /\ id # NoIdent
           /\ id.user \in Users /\ id.print \in Prints
           /\ PrintOf(id) \in Users \X Prints
           /\ id.key # NoKey => id.key \in Keys /\ KeyOf(id) \in Users \X Keys
BY RegistryAssumption DEF Idents, PrintOf, KeyOf

\* Nothing refers to a request that has not arrived.
LEMMA NotArrived ==
    ASSUME RegInv, NEW r \in Requests, ident[r] = NoIdent
    PROVE  /\ attached[r] = NoRecord /\ outcome[r] = "none" /\ r \notin expired
           /\ \A s \in Requests : attached[s] # r
<1>1. NoIdent \notin Idents
  BY RegistryAssumption DEF Idents
<1>2. attached[r] = NoRecord
  BY <1>1 DEF RegInv, Attaching
<1>3. ~IsOwner(r)
  BY <1>2, RegistryAssumption DEF IsOwner
<1>4. outcome[r] = "none"
  BY <1>3 DEF RegInv, Owning
<1>5. r \notin expired
  BY <1>4 DEF RegInv, Owning, Outcomes, AiErrors
<1>6. \A s \in Requests : attached[s] # r
  BY <1>3, RegistryAssumption DEF RegInv, Attaching
<1>. QED
  BY <1>2, <1>4, <1>5, <1>6

LEMMA RegInitInv == RegInit => RegInv
BY RegistryAssumption DEF RegInit, RegInv, RegTypeOK, Attaching, Owning, ByKeyPoints,
   InflightPoints, KeyKept, IsOwner

-----------------------------------------------------------------------------
(* claim_ai_request, by what it returns.                                   *)

\* What every claim does to the dictionaries before it looks at them.
LEMMA SweptDictionaries ==
    ASSUME RegInv
    PROVE  /\ Purge(byKey) \in [Users \X Keys -> Requests \cup {NoRecord}]
           /\ Purge(inflight) \in [Users \X Prints -> Requests \cup {NoRecord}]
           /\ \A k \in Users \X Keys : Purge(byKey)[k] # NoRecord =>
                 /\ Purge(byKey)[k] = byKey[k]
                 /\ Purge(byKey)[k] \in Requests \ expired
                 /\ IsOwner(Purge(byKey)[k])
                 /\ KeyOf(ident[Purge(byKey)[k]]) = k
           /\ \A p \in Users \X Prints : Purge(inflight)[p] # NoRecord =>
                 /\ Purge(inflight)[p] \in Requests
                 /\ IsOwner(Purge(inflight)[p])
                 /\ outcome[Purge(inflight)[p]] = "pending"
                 /\ PrintOf(ident[Purge(inflight)[p]]) = p
           /\ \A o \in Requests :
                 IsOwner(o) /\ ident[o].key # NoKey /\ o \notin expired =>
                     Purge(byKey)[KeyOf(ident[o])] = o
<1>1. RegTypeOK
  BY DEF RegInv
<1>2. /\ byKey \in [Users \X Keys -> Requests \cup {NoRecord}]
      /\ inflight \in [Users \X Prints -> Requests \cup {NoRecord}]
  BY <1>1 DEF RegTypeOK
<1>3. \A o \in Requests : IsOwner(o) => ident[o] \in Idents
  BY RegistryAssumption DEF RegInv, Attaching, IsOwner
<1>4. \A o \in Requests :
         IsOwner(o) /\ ident[o].key # NoKey /\ o \notin expired =>
             Purge(byKey)[KeyOf(ident[o])] = o
  <2>1. SUFFICES ASSUME NEW o \in Requests,
                        IsOwner(o), ident[o].key # NoKey, o \notin expired
                 PROVE  Purge(byKey)[KeyOf(ident[o])] = o
    OBVIOUS
  <2>2. KeyOf(ident[o]) \in Users \X Keys
    BY <1>3, <2>1, IdentsAreKeys
  <2>3. byKey[KeyOf(ident[o])] = o
    BY <2>1 DEF RegInv, KeyKept
  <2>. QED
    BY <1>1, <1>2, <2>1, <2>2, <2>3, PurgeKeepsTheLive
<1>5. /\ Purge(byKey) \in [Users \X Keys -> Requests \cup {NoRecord}]
      /\ \A k \in Users \X Keys : Purge(byKey)[k] # NoRecord =>
            Purge(byKey)[k] = byKey[k] /\ byKey[k] \in Requests \ expired
  BY <1>1, <1>2, PurgeKeepsTheLive
<1>6. /\ Purge(inflight) \in [Users \X Prints -> Requests \cup {NoRecord}]
      /\ \A p \in Users \X Prints : Purge(inflight)[p] # NoRecord =>
            Purge(inflight)[p] = inflight[p] /\ inflight[p] \in Requests \ expired
  BY <1>1, <1>2, PurgeKeepsTheLive
<1>7. ByKeyPoints /\ InflightPoints
  BY DEF RegInv
<1>. QED
  BY <1>4, <1>5, <1>6, <1>7 DEF ByKeyPoints, InflightPoints

\* The caller owns a new record.
LEMMA CreatingInv ==
    ASSUME RegInv, NEW r \in Requests, NEW id \in Idents,
           ident[r] = NoIdent, ident' = [ident EXCEPT ![r] = id],
           expired' = expired,
           ClaimNewKey(r, id) \/ ClaimNoKey(r, id)
    PROVE  RegInv'
<1>1. /\ attached' = [attached EXCEPT ![r] = r]
      /\ outcome' = [outcome EXCEPT ![r] = "pending"]
      /\ inflight' = [Purge(inflight) EXCEPT ![PrintOf(id)] = r]
  BY DEF ClaimNewKey, ClaimNoKey, CreateRecord
<1>2. /\ id.key # NoKey => /\ byKey' = [Purge(byKey) EXCEPT ![KeyOf(id)] = r]
                           /\ Purge(byKey)[KeyOf(id)] = NoRecord
      /\ id.key = NoKey => byKey' = Purge(byKey)
  BY DEF ClaimNewKey, ClaimNoKey
<1>3. RegTypeOK
  BY DEF RegInv
<1>4. RegTypeOK'
  BY <1>1, <1>2, <1>3, IdentsAreKeys, SweptDictionaries DEF RegTypeOK
<1>5. /\ \A s \in Requests \ {r} : ident'[s] = ident[s] /\ attached'[s] = attached[s]
                                   /\ outcome'[s] = outcome[s] /\ attached[s] # r
      /\ ident'[r] = id /\ attached'[r] = r /\ outcome'[r] = "pending"
      /\ r \notin expired /\ attached[r] = NoRecord
  BY <1>1, <1>3, NotArrived DEF RegTypeOK
<1>6. \A s \in Requests : IsOwner(s)' <=> IsOwner(s) \/ s = r
  BY <1>5 DEF IsOwner
<1>7. Attaching'
  BY <1>3, <1>5, <1>6, RegistryAssumption DEF RegInv, RegTypeOK, Attaching, IsOwner
<1>8. Owning'
  BY <1>3, <1>5, <1>6 DEF RegInv, RegTypeOK, Owning
<1>9. ~IsOwner(r) /\ \A s \in Requests : IsOwner(s) => s # r
  BY <1>5, RegistryAssumption DEF IsOwner
<1>10. ByKeyPoints'
  <2>. SUFFICES ASSUME NEW k \in Users \X Keys, byKey'[k] # NoRecord
                PROVE  /\ attached'[byKey'[k]] = byKey'[k]
                       /\ KeyOf(ident'[byKey'[k]]) = k
    BY DEF ByKeyPoints, KeyOf, IsOwner
  <2>1. CASE byKey'[k] = r
    <3>1. id.key # NoKey /\ k = KeyOf(id)
      BY <1>2, <1>9, <2>1, SweptDictionaries, RegistryAssumption
    <3>. QED
      BY <1>5, <2>1, <3>1 DEF KeyOf
  <2>2. CASE byKey'[k] # r
    <3>1. byKey'[k] = Purge(byKey)[k]
      BY <1>2, <2>2, IdentsAreKeys, SweptDictionaries
    <3>2. /\ Purge(byKey)[k] \in Requests \ {r} /\ IsOwner(Purge(byKey)[k])
          /\ KeyOf(ident[Purge(byKey)[k]]) = k
      BY <2>2, <3>1, SweptDictionaries
    <3>. QED
      BY <1>5, <3>1, <3>2 DEF IsOwner, KeyOf
  <2>. QED
    BY <2>1, <2>2
<1>11. InflightPoints'
  <2>. SUFFICES ASSUME NEW p \in Users \X Prints, inflight'[p] # NoRecord
                PROVE  /\ attached'[inflight'[p]] = inflight'[p]
                       /\ outcome'[inflight'[p]] = "pending"
                       /\ PrintOf(ident'[inflight'[p]]) = p
    BY DEF InflightPoints, PrintOf, IsOwner
  <2>1. CASE p = PrintOf(id)
    BY <1>1, <1>5, <2>1, SweptDictionaries DEF PrintOf
  <2>2. CASE p # PrintOf(id)
    <3>1. inflight'[p] = Purge(inflight)[p]
      BY <1>1, <2>2, SweptDictionaries
    <3>2. /\ Purge(inflight)[p] \in Requests \ {r} /\ IsOwner(Purge(inflight)[p])
          /\ outcome[Purge(inflight)[p]] = "pending"
          /\ PrintOf(ident[Purge(inflight)[p]]) = p
      BY <1>9, <3>1, SweptDictionaries
    <3>. QED
      BY <1>5, <3>1, <3>2 DEF IsOwner, PrintOf
  <2>. QED
    BY <2>1, <2>2
<1>12. KeyKept'
  <2>. SUFFICES ASSUME NEW s \in Requests,
                       IsOwner(s)', ident'[s].key # NoKey, s \notin expired
                PROVE  byKey'[KeyOf(ident'[s])] = s
    BY DEF KeyKept, KeyOf
  <2>1. CASE s = r
    BY <1>2, <1>5, <2>1, IdentsAreKeys, SweptDictionaries
  <2>2. CASE s # r
    <3>1. ident'[s] = ident[s] /\ IsOwner(s) /\ Purge(byKey)[KeyOf(ident[s])] = s
      BY <1>5, <1>6, <2>2, SweptDictionaries
    <3>2. KeyOf(ident[s]) # KeyOf(id) \/ id.key = NoKey
      BY <1>2, <3>1, RegistryAssumption
    <3>3. KeyOf(ident[s]) \in Users \X Keys
      BY <3>1, <2>1, <2>2, <1>4, <1>7, IdentsAreKeys, RegistryAssumption
         DEF RegInv, Attaching, IsOwner
    <3>. QED
      BY <1>2, <3>1, <3>2, <3>3, SweptDictionaries DEF KeyOf
  <2>. QED
    BY <2>1, <2>2
<1>. QED
  BY <1>4, <1>7, <1>8, <1>10, <1>11, <1>12 DEF RegInv

\* Dictionaries that are only swept, when nothing they hold changes.
LEMMA SweepingInv ==
    ASSUME RegInv, RegTypeOK',
           expired' = expired, outcome' = outcome,
           byKey' = Purge(byKey), inflight' = Purge(inflight),
           \A s \in Requests : IsOwner(s)' <=> IsOwner(s),
           \A s \in Requests : IsOwner(s) => ident'[s] = ident[s],
           Attaching'
    PROVE  RegInv'
<1>1. Owning'
  BY DEF RegInv, Owning, RegTypeOK
<1>2. \A s \in Requests : IsOwner(s) => attached'[s] = s
  BY DEF IsOwner
<1>3. ByKeyPoints'
  <2>. SUFFICES ASSUME NEW k \in Users \X Keys, byKey'[k] # NoRecord
                PROVE  /\ attached'[byKey'[k]] = byKey'[k]
                       /\ KeyOf(ident'[byKey'[k]]) = k
    BY DEF ByKeyPoints, KeyOf, IsOwner
  <2>. QED
    BY <1>2, SweptDictionaries DEF KeyOf
<1>4. InflightPoints'
  <2>. SUFFICES ASSUME NEW p \in Users \X Prints, inflight'[p] # NoRecord
                PROVE  /\ attached'[inflight'[p]] = inflight'[p]
                       /\ outcome'[inflight'[p]] = "pending"
                       /\ PrintOf(ident'[inflight'[p]]) = p
    BY DEF InflightPoints, PrintOf, IsOwner
  <2>. QED
    BY <1>2, SweptDictionaries DEF PrintOf
<1>5. KeyKept'
  <2>. SUFFICES ASSUME NEW s \in Requests,
                       IsOwner(s)', ident'[s].key # NoKey, s \notin expired
                PROVE  byKey'[KeyOf(ident'[s])] = s
    BY DEF KeyKept, KeyOf
  <2>1. IsOwner(s) /\ ident'[s] = ident[s]
    OBVIOUS
  <2>. QED
    BY <2>1, SweptDictionaries DEF KeyOf
<1>. QED
  BY <1>1, <1>3, <1>4, <1>5 DEF RegInv

\* The record a request joins: kept for its key, or running its payload.
Joinable(o, id) ==
    /\ IsOwner(o)
    /\ ident[o].user = id.user /\ ident[o].print = id.print
    /\ IF id.key = NoKey THEN outcome[o] = "pending"
       ELSE ident[o].key = id.key /\ o \notin expired

LEMMA JoinsLive ==
    ASSUME RegInv, NEW r \in Requests, NEW id \in Idents,
           ClaimReplay(r, id) \/ ClaimInflight(r, id)
    PROVE  \E o \in Requests : Joinable(o, id) /\ attached' = [attached EXCEPT ![r] = o]
<1>1. CASE ClaimReplay(r, id)
  <2>1. KeyOf(id) \in Users \X Keys /\ Purge(byKey)[KeyOf(id)] # NoRecord
    BY <1>1, IdentsAreKeys DEF ClaimReplay
  <2>. QED
    BY <1>1, <2>1, SweptDictionaries DEF ClaimReplay, KeyOf, Joinable
<1>2. CASE ClaimInflight(r, id)
  <2>1. PrintOf(id) \in Users \X Prints /\ Purge(inflight)[PrintOf(id)] # NoRecord
    BY <1>2, IdentsAreKeys DEF ClaimInflight
  <2>. QED
    BY <1>2, <2>1, SweptDictionaries DEF ClaimInflight, PrintOf, Joinable
<1>. QED
  BY <1>1, <1>2

LEMMA JoiningInv ==
    ASSUME RegInv, NEW r \in Requests, NEW id \in Idents,
           ident[r] = NoIdent, ident' = [ident EXCEPT ![r] = id],
           expired' = expired,
           ClaimReplay(r, id) \/ ClaimInflight(r, id)
    PROVE  RegInv'
<1>1. PICK o \in Requests : Joinable(o, id) /\ attached' = [attached EXCEPT ![r] = o]
  BY JoinsLive
<1>2. outcome' = outcome /\ byKey' = Purge(byKey) /\ inflight' = Purge(inflight)
  BY DEF ClaimReplay, ClaimInflight
<1>3. RegTypeOK
  BY DEF RegInv
<1>4. RegTypeOK'
  BY <1>1, <1>2, <1>3, SweptDictionaries DEF RegTypeOK
<1>5. /\ \A s \in Requests \ {r} : ident'[s] = ident[s] /\ attached'[s] = attached[s]
      /\ ident'[r] = id /\ attached'[r] = o
      /\ attached[r] = NoRecord /\ \A s \in Requests : attached[s] # r
  BY <1>1, <1>3, NotArrived DEF RegTypeOK
<1>6. o # r
  BY <1>1, <1>5 DEF IsOwner, Joinable
<1>7. \A s \in Requests : IsOwner(s)' <=> IsOwner(s)
  BY <1>5, <1>6 DEF IsOwner
<1>8. \A s \in Requests : IsOwner(s) => ident'[s] = ident[s]
  BY <1>5 DEF IsOwner
<1>9. Attaching'
  <2>. SUFFICES ASSUME NEW s \in Requests, attached'[s] # NoRecord
                PROVE  /\ ident'[s] \in Idents
                       /\ attached'[attached'[s]] = attached'[s]
                       /\ ident'[attached'[s]].user = ident'[s].user
                       /\ ident'[attached'[s]].print = ident'[s].print
                       /\ ident'[s].key # NoKey =>
                             ident'[attached'[s]].key = ident'[s].key
    BY DEF Attaching, IsOwner
  <2>1. CASE s = r
    BY <1>1, <1>5, <1>6, <2>1 DEF IsOwner, Joinable
  <2>2. CASE s # r
    BY <1>3, <1>5, <2>2 DEF RegInv, RegTypeOK, Attaching, IsOwner
  <2>. QED
    BY <2>1, <2>2
<1>. QED
  BY <1>2, <1>4, <1>7, <1>8, <1>9, SweepingInv

LEMMA ReusedInv ==
    ASSUME RegInv, NEW r \in Requests, NEW id \in Idents,
           ident[r] = NoIdent, ident' = [ident EXCEPT ![r] = id],
           expired' = expired,
           ClaimReused(r, id)
    PROVE  RegInv'
<1>1. attached' = attached /\ outcome' = outcome
      /\ byKey' = Purge(byKey) /\ inflight' = Purge(inflight)
  BY DEF ClaimReused
<1>2. RegTypeOK /\ RegTypeOK'
  BY <1>1, SweptDictionaries DEF RegInv, RegTypeOK
<1>3. /\ \A s \in Requests \ {r} : ident'[s] = ident[s]
      /\ attached[r] = NoRecord /\ \A s \in Requests : attached[s] # r
  BY <1>2, NotArrived DEF RegTypeOK
<1>4. \A s \in Requests : IsOwner(s) => ident'[s] = ident[s]
  BY <1>3 DEF IsOwner
<1>5. \A s \in Requests : IsOwner(s)' <=> IsOwner(s)
  BY <1>1 DEF IsOwner
<1>6. Attaching'
  BY <1>1, <1>2, <1>3 DEF RegInv, RegTypeOK, Attaching, IsOwner
<1>. QED
  BY <1>1, <1>2, <1>4, <1>5, <1>6, SweepingInv

-----------------------------------------------------------------------------
(* finish_ai_request, expiry and the theorem.                              *)

LEMMA FinishInv ==
    ASSUME RegInv, NEW r \in Requests, NEW out \in Outcomes, FinishOnce(r, out)
    PROVE  RegInv' /\ expired' = expired
<1>0. RegTypeOK /\ Attaching /\ Owning /\ ByKeyPoints /\ InflightPoints /\ KeyKept
  BY DEF RegInv
<1>1. /\ IsOwner(r) /\ outcome[r] = "pending"
      /\ outcome' = [outcome EXCEPT ![r] = out]
      /\ expired' = expired \ {r}
      /\ inflight' = [inflight EXCEPT ![PrintOf(ident[r])] = IF @ = r THEN NoRecord ELSE @]
      /\ UNCHANGED <<ident, attached, byKey>>
  BY DEF FinishOnce, Finish
<1>2. r \notin expired /\ expired' = expired
  BY <1>0, <1>1 DEF Owning, Outcomes, AiErrors
<1>3. PrintOf(ident[r]) \in Users \X Prints
  BY <1>0, <1>1, IdentsAreKeys, RegistryAssumption DEF Attaching, IsOwner
<1>4. RegTypeOK'
  BY <1>0, <1>1, <1>2, <1>3 DEF RegTypeOK
<1>5. Attaching' /\ ByKeyPoints' /\ KeyKept'
  BY <1>0, <1>1, <1>2 DEF Attaching, ByKeyPoints, KeyKept, IsOwner
<1>6. Owning'
  BY <1>0, <1>1, <1>2 DEF RegTypeOK, Owning, IsOwner, Outcomes, AiErrors
<1>7. InflightPoints'
  <2>. SUFFICES ASSUME NEW p \in Users \X Prints, inflight'[p] # NoRecord
                PROVE  /\ attached'[inflight'[p]] = inflight'[p]
                       /\ outcome'[inflight'[p]] = "pending"
                       /\ PrintOf(ident'[inflight'[p]]) = p
    BY DEF InflightPoints, PrintOf, IsOwner
  <2>1. inflight'[p] = inflight[p] /\ inflight[p] # NoRecord
    BY <1>0, <1>1, <1>3 DEF RegTypeOK
  <2>2. inflight[p] # r
    BY <1>0, <1>1, <1>3, <2>1, RegistryAssumption DEF RegTypeOK, InflightPoints
  <2>. QED
    BY <1>0, <1>1, <2>1, <2>2 DEF RegTypeOK, InflightPoints, IsOwner
<1>. QED
  BY <1>2, <1>4, <1>5, <1>6, <1>7 DEF RegInv

LEMMA ExpireInv ==
    ASSUME RegInv, NEW r \in Requests, Expire(r)
    PROVE  RegInv'
BY DEF Expire, RegInv, RegTypeOK, Attaching, Owning, ByKeyPoints, InflightPoints,
   KeyKept, IsOwner

LEMMA ClaimInv ==
    ASSUME RegInv, NEW r \in Requests, NEW id \in Idents, Claim(r, id)
    PROVE  RegInv'
BY CreatingInv, JoiningInv, ReusedInv DEF Claim

LEMMA StutterInv == RegInv /\ UNCHANGED regVars => RegInv'
BY DEF regVars, RegInv, RegTypeOK, Attaching, Owning, ByKeyPoints, InflightPoints,
   KeyKept, IsOwner

LEMMA RegStepInv == RegInv /\ [RegNext]_regVars => RegInv'
BY ClaimInv, FinishInv, ExpireInv, StutterInv DEF RegNext

LEMMA RegInvariant == RegSpec => []RegInv
BY RegInitInv, RegStepInv, PTL DEF RegSpec

\* The dictionaries and records keep their types (RegTypeOK).
THEOREM RegistryIsTyped == RegSpec => []RegTypeOK
<1>1. RegInv => RegTypeOK
  BY DEF RegInv
<1>. QED
  BY <1>1, RegInvariant, PTL

\* No result crosses users or answers another payload, and a key is an operation
\* of its own, whatever the dictionaries went through (SharesOwnPayload).
THEOREM NoResultCrosses == RegSpec => []SharesOwnPayload
<1>1. RegInv => SharesOwnPayload
  BY DEF RegInv, Attaching, SharesOwnPayload, PrintOf
<1>. QED
  BY <1>1, RegInvariant, PTL

\* "A different key is therefore always a different operation" (KeyIsAnOperation).
THEOREM KeysStayApart == RegSpec => []KeyIsAnOperation
<1>1. RegInv => KeyIsAnOperation
  BY DEF RegInv, Attaching, KeyIsAnOperation
<1>. QED
  BY <1>1, RegInvariant, PTL

\* A key has two owners only if one's record completed and expired (OneOwnerPerKey).
THEOREM KeyIsClaimedOnce == RegSpec => []OneOwnerPerKey
<1>1. ASSUME RegInv, NEW r \in Requests, NEW s \in Requests,
             r # s, IsOwner(r), IsOwner(s),
             ident[r].key # NoKey, KeyOf(ident[r]) = KeyOf(ident[s])
      PROVE  \E o \in {r, s} : o \in expired /\ outcome[o] \in Outcomes
  <2>1. ident[s].key # NoKey
    BY <1>1 DEF KeyOf
  <2>2. r \in expired \/ s \in expired
    BY <1>1, <2>1 DEF RegInv, KeyKept
  <2>. QED
    BY <1>1, <2>2 DEF RegInv, Owning
<1>2. RegInv => OneOwnerPerKey
  BY <1>1 DEF OneOwnerPerKey
<1>. QED
  BY <1>2, RegInvariant, PTL

\* The in-flight dictionary points to running records only (InflightIsRunning).
THEOREM InflightHoldsRunning == RegSpec => []InflightIsRunning
<1>1. RegInv => InflightIsRunning
  BY DEF RegInv, InflightPoints, InflightIsRunning
<1>. QED
  BY <1>1, RegInvariant, PTL

-----------------------------------------------------------------------------
(* The refinement.                                                         *)

LEMMA InitMaps == RegInit => Promise!Init
BY DEF RegInit, Promise!Init

\* A record not swept for the caller's key means that the promise has forgotten
\* every operation of that key.
LEMMA CreatingOpens ==
    ASSUME RegInv, NEW r \in Requests, NEW id \in Idents, Claim(r, id),
           ClaimNewKey(r, id) \/ ClaimNoKey(r, id)
    PROVE  Promise!Open(r, id)
<1>1. Promise!Arrive(r, id)
  BY DEF Claim, Promise!Arrive
<1>2. Promise!Remembered(id) = {}
  <2>. SUFFICES ASSUME NEW o \in Requests, IsOwner(o), o \notin expired, id.key # NoKey,
                       ident[o].user = id.user, ident[o].key = id.key
                PROVE  FALSE
    BY DEF Promise!Remembered, IsOwner
  <2>1. Purge(byKey)[KeyOf(id)] = o
    BY SweptDictionaries DEF KeyOf
  <2>. QED
    BY <2>1, RegistryAssumption DEF ClaimNewKey, ClaimNoKey
<1>. QED
  BY <1>1, <1>2 DEF Promise!Open, ClaimNewKey, ClaimNoKey, CreateRecord

LEMMA JoiningJoins ==
    ASSUME RegInv, NEW r \in Requests, NEW id \in Idents, Claim(r, id),
           ClaimReplay(r, id) \/ ClaimInflight(r, id)
    PROVE  Promise!Join(r, id)
<1>1. Promise!Arrive(r, id) /\ outcome' = outcome
  BY DEF Claim, Promise!Arrive, ClaimReplay, ClaimInflight
<1>2. PICK o \in Requests : Joinable(o, id) /\ attached' = [attached EXCEPT ![r] = o]
  BY JoinsLive
<1>3. o \in IF id.key = NoKey THEN Promise!Running(id) ELSE Promise!Remembered(id)
  BY <1>2 DEF Promise!Running, Promise!Remembered, IsOwner, Joinable
<1>. QED
  BY <1>1, <1>2, <1>3 DEF Promise!Join, Joinable

LEMMA ReusedRefuses ==
    ASSUME RegInv, NEW r \in Requests, NEW id \in Idents, Claim(r, id), ClaimReused(r, id)
    PROVE  Promise!Refuse(r, id)
<1>1. Promise!Arrive(r, id) /\ attached' = attached /\ outcome' = outcome
  BY DEF Claim, Promise!Arrive, ClaimReused
<1>. DEFINE o == Purge(byKey)[KeyOf(id)]
<1>2. id.key # NoKey /\ o # NoRecord /\ ident[o].print # id.print
  BY DEF ClaimReused
<1>3. o \in Requests \ expired /\ IsOwner(o) /\ KeyOf(ident[o]) = KeyOf(id)
  BY <1>2, SweptDictionaries, IdentsAreKeys
<1>4. o \in Promise!Remembered(id)
  BY <1>2, <1>3 DEF Promise!Remembered, IsOwner, KeyOf
<1>. QED
  BY <1>1, <1>2, <1>4 DEF Promise!Refuse

LEMMA StepMaps == RegInv /\ [RegNext]_regVars => [Promise!Next]_(Promise!vars)
<1>. SUFFICES ASSUME RegInv, [RegNext]_regVars
              PROVE  [Promise!Next]_(Promise!vars)
  OBVIOUS
<1>1. ASSUME NEW r \in Requests, NEW id \in Idents, Claim(r, id)
      PROVE  Promise!Open(r, id) \/ Promise!Join(r, id) \/ Promise!Refuse(r, id)
  BY <1>1, CreatingOpens, JoiningJoins, ReusedRefuses DEF Claim
<1>2. ASSUME NEW r \in Requests, NEW out \in Outcomes, FinishOnce(r, out)
      PROVE  Promise!Complete(r, out)
  BY <1>2, FinishInv DEF FinishOnce, Finish, Promise!Complete
<1>3. ASSUME NEW r \in Requests, Expire(r)
      PROVE  Promise!Forget(r)
  BY <1>3 DEF Expire, Promise!Forget
<1>4. ASSUME UNCHANGED regVars
      PROVE  UNCHANGED Promise!vars
  BY <1>4 DEF regVars, Promise!vars
<1>5. Idents = Promise!Idents
  BY DEF Idents, Promise!Idents
<1>. QED
  BY <1>1, <1>2, <1>3, <1>4, <1>5 DEF RegNext, Promise!Next

\* The registry with its two dictionaries does nothing that SingleFlight does not
\* allow (ImplementsSingleFlight): every claim, completion and expiry maps to a
\* step of the promise.
THEOREM RegistryImplementsPromise == RegSpec => ImplementsSingleFlight
BY InitMaps, StepMaps, RegInvariant, PTL DEF RegSpec, Promise!Spec, ImplementsSingleFlight

-----------------------------------------------------------------------------
(* The endpoints.                                                          *)

SlotFacts == INSTANCE ResourceSlotProofs
               WITH Clients <- Requests, Slots <- AiSlots, WaitCapacity <- AiWaiting

PcOK ==
    /\ pc \in [Requests -> OwnerAt \cup FollowerAt \cup {"new", "replied"}]
    /\ reply \in [Requests -> Replies]

\* Where a handler stands says what claim_ai_request gave it.
Placed ==
    \A r \in Requests :
        /\ pc[r] = "new" <=> ident[r] = NoIdent
        /\ pc[r] \in OwnerAt => IsOwner(r)
        /\ pc[r] \in FollowerAt => attached[r] \in Requests \ {r}

Inv ==
    /\ RegInv
    /\ PcOK
    /\ Placed
    /\ PendingWhileOwned
    /\ AnswersAgree

-----------------------------------------------------------------------------
(* Seen from the records, every step of the system has one of six shapes.  *)

ArrivalStep(r) ==
    \E id \in Idents :
        /\ pc[r] = "new"
        /\ Claim(r, id)
        /\ \/ attached'[r] = NoRecord /\ Answer(r, "AI_IDEMPOTENCY_REUSED")
           \/ attached'[r] = r /\ Goto(r, "check") /\ UNCHANGED reply
           \/ attached'[r] \notin {NoRecord, r} /\ Goto(r, "follow") /\ UNCHANGED reply

OwnerMoves(r) ==
    /\ pc[r] \in OwnerAt
    /\ \E label \in OwnerAt : Goto(r, label)
    /\ UNCHANGED <<regVars, reply>>

OwnerEnds(r) ==
    /\ pc[r] \in OwnerAt
    /\ \E out \in Outcomes :
          Finish(r, out) /\ (Answer(r, out) \/ Answer(r, "disconnected"))

FollowerMoves(r) ==
    /\ pc[r] \in FollowerAt
    /\ \E label \in FollowerAt : Goto(r, label)
    /\ UNCHANGED <<regVars, reply>>

FollowerEnds(r) ==
    /\ pc[r] \in FollowerAt
    /\ \/ EventIsSet(r) /\ Answer(r, outcome[attached[r]])
       \/ \E what \in {"AI_INFLIGHT_FOLLOWER_FULL", "AI_TOTAL_TIMEOUT"} : Answer(r, what)
    /\ UNCHANGED regVars

RecordStep(r) == Expire(r) /\ UNCHANGED <<pc, reply>>

Shape(r) ==
    \/ ArrivalStep(r) \/ OwnerMoves(r) \/ OwnerEnds(r)
    \/ FollowerMoves(r) \/ FollowerEnds(r) \/ RecordStep(r)

LEMMA OwnerShapes ==
    ASSUME NEW r \in Requests, OwnerStep(r) \/ QueueTimeout(r) \/ ClientGone(r)
    PROVE  OwnerMoves(r) \/ OwnerEnds(r)
<1>. USE DEF OwnerAt, BeforeSlot, HoldsSlot
<1>1. CASE \/ QuotaCheckPasses(r) \/ SlotComesFree(r) \/ QuotaConsumed(r)
           \/ StreamStarts(r) \/ StreamYieldsFinal(r) \/ ClientGone(r)
  BY <1>1 DEF QuotaCheckPasses, SlotComesFree, QuotaConsumed, StreamStarts,
     StreamYieldsFinal, ClientGone, OwnerMoves, Goto
<1>2. CASE \/ QuotaCheckFails(r) \/ QuotaRefused(r) \/ QueueTimeout(r) \/ StreamBreaks(r)
           \/ StreamCompletes(r) \/ StreamClosed(r) \/ AnalysisEnds(r)
  BY <1>2 DEF QuotaCheckFails, QuotaRefused, QueueTimeout, StreamBreaks,
     StreamCompletes, StreamClosed, AnalysisEnds, FinishAndAnswer, OwnerEnds,
     Outcomes, AiErrors
<1>3. CASE TakeSlot(r)
  BY <1>3 DEF TakeSlot, FinishAndAnswer, OwnerEnds, OwnerMoves, Goto, Outcomes, AiErrors
<1>. QED
  BY <1>1, <1>2, <1>3 DEF OwnerStep

LEMMA FollowerShapes ==
    ASSUME NEW r \in Requests, FollowerStep(r) \/ FollowTimeout(r)
    PROVE  FollowerMoves(r) \/ FollowerEnds(r)
BY DEF FollowerStep, FollowDone, FollowWaits, FollowAnswered, FollowTimeout,
   FollowerMoves, FollowerEnds, FollowerAt, Goto

LEMMA Shapes ==
    ASSUME Next
    PROVE  \E r \in Requests : Shape(r)
<1>1. ASSUME NEW r \in Requests, NEW id \in Idents, NEW k, Arrive(r, id, k)
      PROVE  ArrivalStep(r)
  BY <1>1 DEF Arrive, ArrivalStep
<1>2. ASSUME NEW r \in Requests, RecordExpires(r)
      PROVE  RecordStep(r)
  BY <1>2 DEF RecordExpires, RecordStep
<1>. QED
  BY <1>1, <1>2, OwnerShapes, FollowerShapes DEF Next, PatientNext, Timeout, Shape

-----------------------------------------------------------------------------
(* The endpoints are a behaviour of the registry.                          *)

LEMMA RegistryStep ==
    ASSUME PendingWhileOwned, NEW r \in Requests, Shape(r)
    PROVE  RegNext \/ UNCHANGED regVars
<1>1. CASE ArrivalStep(r)
  BY <1>1 DEF ArrivalStep, RegNext
<1>2. CASE OwnerEnds(r)
  BY <1>2 DEF OwnerEnds, PendingWhileOwned, FinishOnce, RegNext
<1>3. CASE RecordStep(r)
  BY <1>3 DEF RecordStep, RegNext
<1>. QED
  BY <1>1, <1>2, <1>3 DEF Shape, OwnerMoves, FollowerMoves, FollowerEnds

LEMMA InitInv == Init => Inv
<1>. SUFFICES ASSUME Init PROVE Inv
  OBVIOUS
<1>1. RegInit /\ RegInv
  BY RegInitInv DEF Init
<1>2. \A r \in Requests : /\ ident[r] = NoIdent /\ attached[r] = NoRecord
                          /\ outcome[r] = "none" /\ pc[r] = "new" /\ reply[r] = "none"
  BY <1>1 DEF RegInit, Init
<1>3. PcOK
  BY DEF Init, PcOK, Replies
<1>4. Placed /\ PendingWhileOwned /\ AnswersAgree
  BY <1>2, RegistryAssumption DEF Placed, PendingWhileOwned, AnswersAgree,
     OwnerAt, BeforeSlot, HoldsSlot, FollowerAt, Outcomes, AiErrors
<1>. QED
  BY <1>1, <1>3, <1>4 DEF Inv

\* What a claim changes: the caller's own entries, and an outcome only if it owns.
LEMMA ClaimEffect ==
    ASSUME RegInv, NEW r \in Requests, NEW id \in Idents, Claim(r, id)
    PROVE  /\ ident' = [ident EXCEPT ![r] = id]
           /\ \A s \in Requests \ {r} :
                 attached'[s] = attached[s] /\ outcome'[s] = outcome[s] /\ attached[s] # r
           /\ attached'[r] \in Requests \cup {NoRecord}
           /\ IF attached'[r] = r THEN outcome'[r] = "pending" ELSE outcome'[r] = "none"
<1>1. /\ ident' = [ident EXCEPT ![r] = id] /\ RegTypeOK /\ RegTypeOK'
      /\ ident[r] = NoIdent
  BY ClaimInv DEF Claim, RegInv
<1>2. /\ attached[r] = NoRecord /\ outcome[r] = "none"
      /\ \A s \in Requests : attached[s] # r
  BY <1>1, NotArrived
<1>3. CASE ClaimNewKey(r, id) \/ ClaimNoKey(r, id)
  BY <1>1, <1>2, <1>3 DEF ClaimNewKey, ClaimNoKey, CreateRecord, RegTypeOK
<1>4. CASE ClaimReplay(r, id) \/ ClaimInflight(r, id)
  <2>1. PICK o \in Requests : Joinable(o, id) /\ attached' = [attached EXCEPT ![r] = o]
    BY <1>4, JoinsLive
  <2>2. o # r /\ outcome' = outcome
    BY <1>2, <1>4, <2>1 DEF Joinable, IsOwner, ClaimReplay, ClaimInflight
  <2>. QED
    BY <1>1, <1>2, <2>1, <2>2 DEF RegTypeOK
<1>5. CASE ClaimReused(r, id)
  BY <1>1, <1>2, <1>5, RegistryAssumption DEF ClaimReused, RegTypeOK
<1>. QED
  BY <1>3, <1>4, <1>5 DEF Claim

LEMMA ArrivalInv ==
    ASSUME Inv, NEW r \in Requests, ArrivalStep(r)
    PROVE  PcOK' /\ Placed' /\ PendingWhileOwned' /\ AnswersAgree'
<1>. USE DEF OwnerAt, BeforeSlot, HoldsSlot, FollowerAt, Outcomes, AiErrors
<1>0. RegInv /\ RegTypeOK /\ PcOK /\ Placed /\ PendingWhileOwned /\ AnswersAgree
  BY DEF Inv, RegInv
<1>1. PICK id \in Idents :
         /\ pc[r] = "new"
         /\ Claim(r, id)
         /\ \/ attached'[r] = NoRecord /\ Answer(r, "AI_IDEMPOTENCY_REUSED")
            \/ attached'[r] = r /\ Goto(r, "check") /\ UNCHANGED reply
            \/ attached'[r] \notin {NoRecord, r} /\ Goto(r, "follow") /\ UNCHANGED reply
  BY DEF ArrivalStep
<1>2. /\ \A s \in Requests \ {r} :
            /\ ident'[s] = ident[s] /\ attached'[s] = attached[s]
            /\ outcome'[s] = outcome[s] /\ attached[s] # r
            /\ pc'[s] = pc[s] /\ reply'[s] = reply[s]
      /\ ident'[r] # NoIdent
      /\ IF attached'[r] = r THEN outcome'[r] = "pending" ELSE outcome'[r] = "none"
      /\ attached'[r] \in Requests \cup {NoRecord}
  BY <1>0, <1>1, ClaimEffect, IdentsAreKeys DEF PcOK, RegTypeOK, Answer, Goto
<1>3. PcOK'
  BY <1>0, <1>1 DEF PcOK, Answer, Goto, Replies
<1>4. \/ attached'[r] = NoRecord /\ pc'[r] = "replied" /\ reply'[r] \notin Outcomes
      \/ attached'[r] = r /\ pc'[r] = "check" /\ reply'[r] = reply[r]
      \/ attached'[r] \in Requests \ {r} /\ pc'[r] = "follow" /\ reply'[r] = reply[r]
  BY <1>0, <1>1, <1>2, RegistryAssumption DEF PcOK, Answer, Goto
<1>5. reply[r] \notin Outcomes
  <2>1. attached[r] = NoRecord
    BY <1>0, <1>1, NotArrived DEF Placed
  <2>. QED
    BY <1>0, <2>1 DEF AnswersAgree
<1>6. Placed'
  BY <1>0, <1>2, <1>4 DEF Placed, IsOwner
<1>7. PendingWhileOwned'
  BY <1>0, <1>2, <1>4, RegistryAssumption DEF PendingWhileOwned
<1>8. AnswersAgree'
  <2>. SUFFICES ASSUME NEW s \in Requests, reply'[s] \in Outcomes
                PROVE  attached'[s] # NoRecord /\ reply'[s] = outcome'[attached'[s]]
    BY DEF AnswersAgree
  <2>1. s # r
    BY <1>4, <1>5
  <2>2. attached[s] # NoRecord /\ reply[s] = outcome[attached[s]] /\ attached[s] \in Requests
    BY <1>0, <1>2, <2>1 DEF AnswersAgree, RegTypeOK
  <2>. QED
    BY <1>2, <2>1, <2>2
<1>. QED
  BY <1>3, <1>6, <1>7, <1>8

LEMMA OwnerEndsInv ==
    ASSUME Inv, NEW r \in Requests, OwnerEnds(r)
    PROVE  PcOK' /\ Placed' /\ PendingWhileOwned' /\ AnswersAgree'
<1>. USE DEF OwnerAt, BeforeSlot, HoldsSlot, FollowerAt, Outcomes, AiErrors
<1>0. RegTypeOK /\ PcOK /\ Placed /\ PendingWhileOwned /\ AnswersAgree
  BY DEF Inv, RegInv
<1>1. PICK out \in Outcomes :
         Finish(r, out) /\ (Answer(r, out) \/ Answer(r, "disconnected"))
  BY DEF OwnerEnds
<1>2. /\ pc[r] \in OwnerAt /\ IsOwner(r) /\ outcome[r] = "pending"
      /\ UNCHANGED <<ident, attached>>
      /\ outcome' = [outcome EXCEPT ![r] = out]
      /\ pc' = [pc EXCEPT ![r] = "replied"]
      /\ \/ reply' = [reply EXCEPT ![r] = out]
         \/ reply' = [reply EXCEPT ![r] = "disconnected"]
  BY <1>0, <1>1 DEF OwnerEnds, PendingWhileOwned, Finish, Answer
<1>3. PcOK'
  BY <1>0, <1>2 DEF PcOK, Replies
<1>4. Placed'
  BY <1>0, <1>2 DEF PcOK, Placed, IsOwner
<1>5. PendingWhileOwned'
  BY <1>0, <1>2 DEF PcOK, RegTypeOK, PendingWhileOwned
<1>6. AnswersAgree'
  <2>. SUFFICES ASSUME NEW s \in Requests, reply'[s] \in Outcomes
                PROVE  attached'[s] # NoRecord /\ reply'[s] = outcome'[attached'[s]]
    BY DEF AnswersAgree
  <2>1. CASE s = r
    BY <1>0, <1>2, <2>1, RegistryAssumption DEF PcOK, RegTypeOK, IsOwner
  <2>2. CASE s # r
    <3>1. reply[s] \in Outcomes /\ attached[s] # NoRecord /\ reply[s] = outcome[attached[s]]
      BY <1>0, <1>2, <2>2 DEF PcOK, AnswersAgree
    <3>2. attached[s] \in Requests \ {r}
      BY <1>0, <1>2, <3>1 DEF RegTypeOK
    <3>. QED
      BY <1>0, <1>2, <2>2, <3>1, <3>2 DEF PcOK, RegTypeOK
  <2>. QED
    BY <2>1, <2>2
<1>. QED
  BY <1>3, <1>4, <1>5, <1>6

\* The steps that leave the records alone, or only let one expire.
LEMMA OtherShapesInv ==
    ASSUME Inv, NEW r \in Requests,
           OwnerMoves(r) \/ FollowerMoves(r) \/ FollowerEnds(r) \/ RecordStep(r)
    PROVE  PcOK' /\ Placed' /\ PendingWhileOwned' /\ AnswersAgree'
<1>. USE DEF OwnerAt, BeforeSlot, HoldsSlot, FollowerAt, Outcomes, AiErrors
<1>0. PcOK /\ Placed /\ PendingWhileOwned /\ AnswersAgree
  BY DEF Inv
<1>1. UNCHANGED <<ident, attached, outcome>>
  BY DEF OwnerMoves, FollowerMoves, FollowerEnds, RecordStep, Expire, regVars
<1>2. CASE OwnerMoves(r)
  BY <1>0, <1>1, <1>2
  DEF OwnerMoves, Goto, PcOK, Placed, PendingWhileOwned, AnswersAgree, IsOwner
<1>3. CASE FollowerMoves(r)
  BY <1>0, <1>1, <1>3
  DEF FollowerMoves, Goto, PcOK, Placed, PendingWhileOwned, AnswersAgree, IsOwner
<1>4. CASE FollowerEnds(r)
  <2>1. PICK what \in Replies :
           /\ Answer(r, what)
           /\ what \in Outcomes => what = outcome[attached[r]]
    BY <1>4 DEF FollowerEnds, EventIsSet, Replies
  <2>2. pc[r] \in FollowerAt /\ attached[r] # NoRecord
    BY <1>0, <1>4, RegistryAssumption DEF FollowerEnds, Placed
  <2>3. PcOK' /\ Placed' /\ PendingWhileOwned'
    BY <1>0, <1>1, <2>1, <2>2 DEF Answer, PcOK, Placed, PendingWhileOwned, IsOwner
  <2>4. AnswersAgree'
    BY <1>0, <1>1, <2>1, <2>2 DEF Answer, PcOK, AnswersAgree
  <2>. QED
    BY <2>3, <2>4
<1>5. CASE RecordStep(r)
  BY <1>0, <1>1, <1>5
  DEF RecordStep, PcOK, Placed, PendingWhileOwned, AnswersAgree, IsOwner
<1>. QED
  BY <1>2, <1>3, <1>4, <1>5

LEMMA StepInv == Inv /\ [Next]_vars => Inv' /\ [RegNext]_regVars
<1>. SUFFICES ASSUME Inv, [Next]_vars PROVE Inv' /\ [RegNext]_regVars
  OBVIOUS
<1>1. CASE Next
  <2>1. PICK r \in Requests : Shape(r)
    BY <1>1, Shapes
  <2>2. [RegNext]_regVars
    BY <2>1, RegistryStep DEF Inv
  <2>3. RegInv'
    BY <2>2, RegStepInv DEF Inv
  <2>4. PcOK' /\ Placed' /\ PendingWhileOwned' /\ AnswersAgree'
    BY <2>1, ArrivalInv, OwnerEndsInv, OtherShapesInv DEF Shape
  <2>. QED
    BY <2>2, <2>3, <2>4 DEF Inv
<1>2. CASE UNCHANGED vars
  <2>1. UNCHANGED <<regVars, pc, reply>>
    BY <1>2 DEF vars
  <2>2. RegInv'
    BY <2>1, StutterInv DEF Inv
  <2>3. UNCHANGED <<ident, attached, outcome>>
    BY <2>1 DEF regVars
  <2>4. PcOK' /\ Placed' /\ PendingWhileOwned' /\ AnswersAgree'
    BY <2>1, <2>3 DEF Inv, PcOK, Placed, PendingWhileOwned, AnswersAgree, IsOwner
  <2>. QED
    BY <2>1, <2>2, <2>4 DEF Inv
<1>. QED
  BY <1>1, <1>2

LEMMA Invariant == Spec => []Inv
BY InitInv, StepInv, PTL DEF Spec

\* The endpoints use the registry as its docstring asks (UsesRegistry): every step
\* claims, finishes a pending record its owner holds, or leaves the records alone.
THEOREM EndpointsUseRegistry == Spec => UsesRegistry
<1>1. Init => RegInit
  BY DEF Init
<1>. QED
  BY <1>1, Invariant, StepInv, PTL DEF Spec, UsesRegistry, RegSpec

\* A record is pending exactly while its owner is on its way (PendingWhileOwned):
\* no exit of a handler or of a response generator abandons its record.
THEOREM NoRecordIsAbandoned == Spec => []PendingWhileOwned
<1>1. Inv => PendingWhileOwned
  BY DEF Inv
<1>. QED
  BY <1>1, Invariant, PTL

\* Whoever is told the outcome of a shared record is told the same (AnswersAgree).
THEOREM SharersAgree == Spec => []AnswersAgree
<1>1. Inv => AnswersAgree
  BY DEF Inv
<1>. QED
  BY <1>1, Invariant, PTL

-----------------------------------------------------------------------------
(* Permits.                                                                *)

\* Where a handler stands says what it holds.
PermitsPlaced ==
    \A r \in Requests :
        /\ slotState[r] = "inside" <=> pc[r] \in HoldsSlot
        /\ slotState[r] = "waiting" <=> pc[r] = "queued"

FollowersCounted == followerValue + Cardinality(At({"followWait"})) = AiFollowers

PermitInv ==
    /\ PcOK
    /\ SlotFacts!SlotInv
    /\ PermitsPlaced
    /\ followerValue \in Nat
    /\ FollowersCounted

LEMMA SlotTypes ==
    ASSUME PermitInv
    PROVE  /\ slotState \in [Requests -> {"outside", "waiting", "inside"}]
           /\ pc \in [Requests -> OwnerAt \cup FollowerAt \cup {"new", "replied"}]
BY DEF PermitInv, PcOK, SlotFacts!SlotInv, SlotFacts!SlotTypeOK, SlotFacts!SlotStates

LEMMA OwnerPermits ==
    ASSUME PermitInv, NEW r \in Requests, OwnerStep(r) \/ QueueTimeout(r) \/ ClientGone(r)
    PROVE  /\ SlotFacts!SlotNext \/ UNCHANGED slotVars
           /\ PermitsPlaced'
           /\ \A s \in Requests : pc'[s] = "followWait" <=> pc[s] = "followWait"
           /\ UNCHANGED followerValue
<1>. USE DEF OwnerAt, BeforeSlot, HoldsSlot, FollowerAt
<1>0. /\ slotState \in [Requests -> {"outside", "waiting", "inside"}]
      /\ pc \in [Requests -> OwnerAt \cup FollowerAt \cup {"new", "replied"}]
      /\ PermitsPlaced
  BY SlotTypes DEF PermitInv
<1>1. CASE \/ QuotaCheckPasses(r) \/ QuotaConsumed(r) \/ StreamStarts(r)
           \/ StreamYieldsFinal(r) \/ ClientGone(r)
  BY <1>0, <1>1 DEF QuotaCheckPasses, QuotaConsumed, StreamStarts, StreamYieldsFinal,
     ClientGone, Goto, slotVars, PermitsPlaced
<1>2. CASE QuotaCheckFails(r)
  BY <1>0, <1>2 DEF QuotaCheckFails, FinishAndAnswer, Answer, slotVars, PermitsPlaced
<1>3. CASE /\ AiSlot!Leave(r) /\ pc[r] \in HoldsSlot
           /\ pc' = [pc EXCEPT ![r] = "replied"] /\ UNCHANGED followerValue
  <2>1. SlotFacts!Leave(r)
    BY <1>3 DEF AiSlot!Leave, SlotFacts!Leave
  <2>2. SlotFacts!SlotNext
    BY <2>1 DEF SlotFacts!SlotNext
  <2>. QED
    BY <1>0, <1>3, <2>2 DEF AiSlot!Leave, PermitsPlaced
<1>4. CASE \/ QuotaRefused(r) \/ AnalysisEnds(r) \/ StreamBreaks(r)
           \/ StreamCompletes(r) \/ StreamClosed(r)
  BY <1>3, <1>4 DEF QuotaRefused, AnalysisEnds, StreamBreaks, StreamCompletes,
     StreamClosed, FinishAndAnswer, Answer
<1>5. CASE TakeSlot(r)
  <2>1. SlotFacts!SlotNext
    BY <1>5 DEF TakeSlot, AiSlot!EnterAtOnce, AiSlot!StartWaiting, AiSlot!QueueFull,
       AiSlot!slotVars, SlotFacts!SlotNext, SlotFacts!EnterAtOnce,
       SlotFacts!StartWaiting, SlotFacts!QueueFull, SlotFacts!slotVars
  <2>. QED
    BY <1>0, <1>5, <2>1 DEF TakeSlot, AiSlot!EnterAtOnce, AiSlot!StartWaiting,
       AiSlot!QueueFull, AiSlot!slotVars, FinishAndAnswer, Answer, Goto, PermitsPlaced
<1>6. CASE SlotComesFree(r)
  <2>1. SlotFacts!SlotNext
    BY <1>6 DEF SlotComesFree, AiSlot!EnterAfterWait, SlotFacts!SlotNext,
       SlotFacts!EnterAfterWait
  <2>. QED
    BY <1>0, <1>6, <2>1 DEF SlotComesFree, AiSlot!EnterAfterWait, Goto, PermitsPlaced
<1>7. CASE QueueTimeout(r)
  <2>1. SlotFacts!SlotNext
    BY <1>7 DEF QueueTimeout, AiSlot!WaitTimeout, SlotFacts!SlotNext, SlotFacts!WaitTimeout
  <2>. QED
    BY <1>0, <1>7, <2>1 DEF QueueTimeout, AiSlot!WaitTimeout, FinishAndAnswer, Answer,
       PermitsPlaced
<1>. QED
  BY <1>1, <1>2, <1>4, <1>5, <1>6, <1>7 DEF OwnerStep

\* The steps of arriving and following, and expiry, leave the slots alone.
LEMMA OtherPermits ==
    ASSUME PermitInv, NEW r \in Requests,
           \/ FollowerStep(r) \/ FollowTimeout(r) \/ RecordExpires(r)
           \/ \E id \in Idents, k \in {"plain", "stream"} : Arrive(r, id, k)
    PROVE  UNCHANGED slotVars /\ PermitsPlaced'
<1>. USE DEF OwnerAt, BeforeSlot, HoldsSlot, FollowerAt
<1>0. /\ slotState \in [Requests -> {"outside", "waiting", "inside"}]
      /\ pc \in [Requests -> OwnerAt \cup FollowerAt \cup {"new", "replied"}]
      /\ PermitsPlaced
  BY SlotTypes DEF PermitInv
<1>. QED
  BY <1>0 DEF FollowerStep, FollowDone, FollowWaits, FollowAnswered, FollowTimeout,
     RecordExpires, Arrive, Answer, Goto, slotVars, PermitsPlaced

LEMMA FollowersFinite ==
    /\ IsFiniteSet(At({"followWait"})) /\ Cardinality(At({"followWait"})) \in Nat
    /\ IsFiniteSet(At({"followWait"})') /\ Cardinality(At({"followWait"}))' \in Nat
<1>1. /\ IsFiniteSet(Requests)
      /\ At({"followWait"}) \in SUBSET Requests /\ At({"followWait"})' \in SUBSET Requests
  BY PipelineAssumption DEF At
<1>. QED
  BY <1>1, FS_Subset, FS_CardinalityType

LEMMA FollowersKept ==
    ASSUME PermitInv, UNCHANGED followerValue,
           \A s \in Requests : pc'[s] = "followWait" <=> pc[s] = "followWait"
    PROVE  followerValue' \in Nat /\ FollowersCounted'
<1>1. At({"followWait"})' = At({"followWait"})
  BY DEF At
<1>. QED
  BY <1>1 DEF PermitInv, FollowersCounted

LEMMA FollowerPermits ==
    ASSUME PermitInv, NEW r \in Requests, FollowerStep(r) \/ FollowTimeout(r)
    PROVE  followerValue' \in Nat /\ FollowersCounted'
<1>. USE PipelineAssumption
<1>. DEFINE W == At({"followWait"})
<1>0. pc \in [Requests -> OwnerAt \cup FollowerAt \cup {"new", "replied"}]
      /\ followerValue \in Nat /\ followerValue + Cardinality(W) = AiFollowers
  BY SlotTypes DEF PermitInv, FollowersCounted
<1>1. CASE /\ pc[r] = "follow" /\ pc'  = [pc EXCEPT ![r] = "followWait"]
           /\ followerValue > 0 /\ followerValue' = followerValue - 1
  <2>1. W' = W \cup {r} /\ r \notin W
    BY <1>0, <1>1 DEF At
  <2>2. Cardinality(W') = Cardinality(W) + 1
    BY <2>1, FollowersFinite, FS_AddElement
  <2>. QED
    BY <1>0, <1>1, <2>2, FollowersFinite DEF FollowersCounted
<1>2. CASE /\ pc[r] = "followWait" /\ pc'  = [pc EXCEPT ![r] = "replied"]
           /\ followerValue' = followerValue + 1
  <2>1. W' = W \ {r} /\ r \in W
    BY <1>0, <1>2 DEF At
  <2>2. Cardinality(W') = Cardinality(W) - 1
    BY <2>1, FollowersFinite, FS_RemoveElement
  <2>. QED
    BY <1>0, <1>2, <2>2, FollowersFinite DEF FollowersCounted
<1>3. CASE /\ pc[r] = "follow" /\ pc'  = [pc EXCEPT ![r] = "replied"]
           /\ UNCHANGED followerValue
  BY <1>0, <1>3, FollowersKept
<1>. QED
  BY <1>1, <1>2, <1>3 DEF FollowerStep, FollowDone, FollowWaits, FollowAnswered,
     FollowTimeout, Answer, Goto

LEMMA ArrivalKeepsFollowers ==
    ASSUME PermitInv, NEW r \in Requests,
           \/ RecordExpires(r)
           \/ \E id \in Idents, k \in {"plain", "stream"} : Arrive(r, id, k)
    PROVE  followerValue' \in Nat /\ FollowersCounted'
<1>1. pc \in [Requests -> OwnerAt \cup FollowerAt \cup {"new", "replied"}]
  BY SlotTypes
<1>2. UNCHANGED followerValue
      /\ \A s \in Requests : pc'[s] = "followWait" <=> pc[s] = "followWait"
  BY <1>1 DEF RecordExpires, Arrive, Answer, Goto
<1>. QED
  BY <1>2, FollowersKept

\* The instance counts with the operators of the same standard module.
LEMMA SameFiniteSets ==
    /\ \A S : SlotFacts!IsFiniteSet(S) <=> IsFiniteSet(S)
    /\ \A S : SlotFacts!Cardinality(S) = Cardinality(S)
<1>1. \A S : SlotFacts!IsFiniteSet(S) <=> IsFiniteSet(S)
  BY Zenon DEF SlotFacts!IsFiniteSet, IsFiniteSet
<1>2. \A S : SlotFacts!Cardinality(S) = Cardinality(S)
  BY <1>1, Zenon DEF SlotFacts!Cardinality, Cardinality
<1>. QED
  BY <1>1, <1>2

LEMMA SlotAssumed == SlotFacts!SlotAssumption
BY PipelineAssumption, SameFiniteSets DEF SlotFacts!SlotAssumption

LEMMA PermitInit == Init => PermitInv
<1>. SUFFICES ASSUME Init PROVE PermitInv
  OBVIOUS
<1>1. SlotFacts!SlotInit
  BY DEF Init, AiSlot!SlotInit, SlotFacts!SlotInit
<1>2. SlotFacts!SlotInv
  BY <1>1, SlotAssumed, SlotFacts!SlotInitInv
<1>3. At({"followWait"}) = {}
  BY DEF Init, At
<1>4. followerValue \in Nat /\ FollowersCounted
  BY <1>3, FS_EmptySet, PipelineAssumption DEF Init, FollowersCounted
<1>. QED
  BY <1>1, <1>2, <1>4, InitInv
  DEF Init, PermitInv, PermitsPlaced, Inv, SlotFacts!SlotInit,
      HoldsSlot, OwnerAt, BeforeSlot

LEMMA PermitStep == Inv /\ PermitInv /\ [Next]_vars => PermitInv'
<1>. SUFFICES ASSUME Inv, PermitInv, [Next]_vars PROVE PermitInv'
  OBVIOUS
<1>1. PcOK'
  BY StepInv DEF Inv
<1>2. CASE Next
  <2>1. PICK r \in Requests :
           \/ OwnerStep(r) \/ QueueTimeout(r) \/ ClientGone(r)
           \/ FollowerStep(r) \/ FollowTimeout(r) \/ RecordExpires(r)
           \/ \E id \in Idents, k \in {"plain", "stream"} : Arrive(r, id, k)
    BY <1>2 DEF Next, PatientNext, Timeout
  <2>2. SlotFacts!SlotNext \/ UNCHANGED slotVars
    BY <2>1, OwnerPermits, OtherPermits
  <2>3. PermitsPlaced'
    BY <2>1, OwnerPermits, OtherPermits
  <2>4. followerValue' \in Nat /\ FollowersCounted'
    BY <2>1, OwnerPermits, FollowersKept, FollowerPermits, ArrivalKeepsFollowers
  <2>5. SlotFacts!SlotInv'
    BY <2>2, SlotAssumed, SlotFacts!SlotStepInv DEF PermitInv, slotVars, SlotFacts!slotVars
  <2>. QED
    BY <1>1, <2>3, <2>4, <2>5 DEF PermitInv
<1>3. CASE UNCHANGED vars
  <2>1. SlotFacts!SlotInv'
    BY <1>3, SlotAssumed, SlotFacts!SlotStepInv
    DEF PermitInv, vars, slotVars, SlotFacts!slotVars
  <2>. QED
    BY <1>1, <1>3, <2>1, FollowersKept DEF PermitInv, PermitsPlaced, vars, slotVars
<1>. QED
  BY <1>2, <1>3

\* The permits that are out are those of the requests that stand where they need
\* one (PermitsConserved): none is lost or returned twice, on any path.
THEOREM NoPermitIsLost == Spec => []PermitsConserved
<1>1. PermitInv => PermitsConserved
  <2>. SUFFICES ASSUME PermitInv PROVE PermitsConserved
    OBVIOUS
  <2>1. /\ At(HoldsSlot) = SlotFacts!Standing("inside")
        /\ At({"queued"}) = SlotFacts!Standing("waiting")
    BY DEF PermitInv, PermitsPlaced, At, SlotFacts!Standing
  <2>. QED
    BY <2>1, SameFiniteSets DEF PermitInv, FollowersCounted, PermitsConserved, SlotFacts!SlotInv,
       SlotFacts!PermitsAccounted
<1>. QED
  BY <1>1, Invariant, PermitInit, PermitStep, PTL DEF Spec

-----------------------------------------------------------------------------
(* Charges, delivered results and types.                                   *)

Paying == {"run", "start", "stream", "final", "closing", "closingFinal"}

\* Who has been charged owns a record; who analyses has been charged.
ChargeInv ==
    /\ charged \in SUBSET Requests
    /\ kind \in [Requests -> {"plain", "stream"}]
    /\ \A r \in charged : IsOwner(r)
    /\ \A r \in Requests : pc[r] \in Paying => r \in charged

LEMMA OwnersStay ==
    ASSUME Inv, [Next]_vars, NEW s \in Requests, IsOwner(s)
    PROVE  IsOwner(s)'
<1>1. CASE Next
  <2>1. PICK r \in Requests : Shape(r)
    BY <1>1, Shapes
  <2>2. CASE ArrivalStep(r)
    <3>1. PICK id \in Idents : Claim(r, id)
      BY <2>2 DEF ArrivalStep
    <3>2. s # r
      BY <3>1, NotArrived DEF Claim, Inv, IsOwner
    <3>. QED
      BY <3>1, <3>2, ClaimEffect DEF Inv, IsOwner
  <2>3. CASE ~ArrivalStep(r)
    BY <2>1, <2>3 DEF Shape, OwnerMoves, OwnerEnds, FollowerMoves, FollowerEnds,
       RecordStep, Expire, Finish, regVars, IsOwner
  <2>. QED
    BY <2>2, <2>3
<1>2. CASE UNCHANGED vars
  BY <1>2 DEF vars, regVars, IsOwner
<1>. QED
  BY <1>1, <1>2

LEMMA ChargeStep == Inv /\ ChargeInv /\ [Next]_vars => ChargeInv'
<1>. SUFFICES ASSUME Inv, ChargeInv, [Next]_vars PROVE ChargeInv'
  OBVIOUS
<1>0. PcOK /\ Placed
  BY DEF Inv
<1>1. /\ charged' \in SUBSET Requests
      /\ kind' \in [Requests -> {"plain", "stream"}]
      /\ \A r \in Requests : pc'[r] \in Paying => r \in charged'
      /\ \A r \in charged' : r \in charged \/ pc[r] = "consume"
  <2>1. CASE Next
    <3>1. PICK r \in Requests :
             \/ OwnerStep(r) \/ QueueTimeout(r) \/ ClientGone(r)
             \/ FollowerStep(r) \/ FollowTimeout(r) \/ RecordExpires(r)
             \/ \E id \in Idents, k \in {"plain", "stream"} : Arrive(r, id, k)
      BY <2>1 DEF Next, PatientNext, Timeout
    <3>2. CASE QuotaConsumed(r)
      BY <1>0, <3>2 DEF QuotaConsumed, Goto, PcOK, ChargeInv, Paying
    <3>3. CASE /\ ~QuotaConsumed(r)
               /\ OwnerStep(r) \/ QueueTimeout(r) \/ ClientGone(r)
      <4>1. charged' = charged /\ kind' = kind
        BY <3>3 DEF OwnerStep, QuotaCheckPasses, QuotaCheckFails, TakeSlot, SlotComesFree,
           QuotaRefused, AnalysisEnds, StreamStarts, StreamYieldsFinal, StreamBreaks,
           StreamCompletes, StreamClosed, QueueTimeout, ClientGone
      <4>2. \A s \in Requests : pc'[s] \in Paying => pc[s] \in Paying
        BY <1>0, <3>3 DEF OwnerStep, QuotaCheckPasses, QuotaCheckFails, TakeSlot,
           SlotComesFree, QuotaRefused, AnalysisEnds, StreamStarts, StreamYieldsFinal,
           StreamBreaks, StreamCompletes, StreamClosed, QueueTimeout, ClientGone,
           FinishAndAnswer, Answer, Goto, PcOK, Paying
      <4>. QED
        BY <4>1, <4>2 DEF ChargeInv
    <3>4. CASE \/ FollowerStep(r) \/ FollowTimeout(r) \/ RecordExpires(r)
               \/ \E id \in Idents, k \in {"plain", "stream"} : Arrive(r, id, k)
      BY <1>0, <3>4 DEF FollowerStep, FollowDone, FollowWaits, FollowAnswered,
         FollowTimeout, RecordExpires, Arrive, Answer, Goto, PcOK, Paying, ChargeInv
    <3>. QED
      BY <3>1, <3>2, <3>3, <3>4
  <2>2. CASE UNCHANGED vars
    BY <2>2 DEF vars, ChargeInv
  <2>. QED
    BY <2>1, <2>2
<1>2. \A r \in charged' : IsOwner(r)
  BY <1>0, <1>1 DEF ChargeInv, Placed, OwnerAt, HoldsSlot
<1>3. \A r \in charged' : IsOwner(r)'
  BY <1>1, <1>2, OwnersStay
<1>. QED
  BY <1>1, <1>3 DEF ChargeInv

LEMMA ChargeInit == Init => ChargeInv
BY DEF Init, ChargeInv, Paying

\* Analyses and paid units go together, and the outcome kept for a key was paid
\* for once (PaidOncePerOperation), however often a client retries.
THEOREM OperationsArePaidOnce == Spec => []PaidOncePerOperation
<1>1. ASSUME Inv, ChargeInv PROVE PaidOncePerOperation
  <2>1. ASSUME NEW r \in charged, NEW s \in charged,
               r # s, ident[r].key # NoKey, KeyOf(ident[r]) = KeyOf(ident[s])
        PROVE  \E o \in {r, s} : o \in expired /\ outcome[o] \in Outcomes
    <3>1. /\ r \in Requests /\ s \in Requests /\ IsOwner(r) /\ IsOwner(s)
          /\ ident[s].key # NoKey
      BY <1>1, <2>1 DEF ChargeInv, KeyOf
    <3>2. r \in expired \/ s \in expired
      BY <1>1, <2>1, <3>1 DEF Inv, RegInv, KeyKept
    <3>. QED
      BY <1>1, <3>1, <3>2 DEF Inv, RegInv, Owning
  <2>. QED
    BY <1>1, <2>1 DEF ChargeInv, PaidOncePerOperation, At, Paying
<1>. QED
  BY <1>1, Invariant, ChargeInit, ChargeStep, PTL DEF Spec

\* Whoever received the final event finds that result under its key later
\* (FinalIsKept): a disconnect after it does not turn it into a cancellation.
THEOREM DeliveredIsKept == Spec => FinalIsKept
<1>1. ASSUME Inv, Next, NEW r \in Requests, pc[r] \in {"final", "closingFinal"}
      PROVE  outcome'[r] \in {"pending", "result"}
  <2>0. RegTypeOK /\ IsOwner(r) /\ outcome[r] = "pending" /\ ident[r] # NoIdent
    BY <1>1 DEF Inv, RegInv, Placed, PendingWhileOwned, OwnerAt, HoldsSlot
  <2>1. PICK s \in Requests :
           \/ OwnerStep(s) \/ QueueTimeout(s) \/ ClientGone(s)
           \/ FollowerStep(s) \/ FollowTimeout(s) \/ RecordExpires(s)
           \/ \E id \in Idents, k \in {"plain", "stream"} : Arrive(s, id, k)
    BY <1>1 DEF Next, PatientNext, Timeout
  <2>2. CASE OwnerStep(s) \/ QueueTimeout(s) \/ ClientGone(s)
    <3>1. CASE s # r
      BY <2>0, <2>2, <3>1, OwnerShapes
      DEF OwnerMoves, OwnerEnds, Finish, RegTypeOK, regVars
    <3>2. CASE s = r
      BY <1>1, <2>0, <2>2, <3>2 DEF OwnerStep, QuotaCheckPasses, QuotaCheckFails,
         TakeSlot, SlotComesFree, QuotaConsumed, QuotaRefused, AnalysisEnds,
         StreamStarts, StreamYieldsFinal, StreamBreaks, StreamCompletes, StreamClosed,
         QueueTimeout, ClientGone, FinishAndAnswer, Finish, regVars, RegTypeOK
    <3>. QED
      BY <3>1, <3>2
  <2>3. CASE FollowerStep(s) \/ FollowTimeout(s) \/ RecordExpires(s)
    BY <2>0, <2>3 DEF FollowerStep, FollowDone, FollowWaits, FollowAnswered,
       FollowTimeout, RecordExpires, Expire, regVars
  <2>4. ASSUME NEW id \in Idents, NEW k \in {"plain", "stream"}, Arrive(s, id, k)
        PROVE  outcome'[r] = "pending"
    BY <1>1, <2>0, <2>4, ClaimEffect DEF Arrive, Claim, Inv
  <2>. QED
    BY <2>1, <2>2, <2>3, <2>4
<1>2. Inv /\ [Next]_vars =>
        [\A r \in Requests :
            pc[r] \in {"final", "closingFinal"} => outcome'[r] \in {"pending", "result"}]_vars
  BY <1>1
<1>. QED
  BY <1>2, Invariant, PTL DEF Spec, FinalIsKept

\* The types of all the variables of the endpoints (TypeOK).
THEOREM PipelineIsTyped == Spec => []TypeOK
<1>1. Inv /\ PermitInv /\ ChargeInv => TypeOK
  <2>. SUFFICES ASSUME Inv, PermitInv, ChargeInv PROVE TypeOK
    OBVIOUS
  <2>1. followerValue \in 0..AiFollowers
    BY FollowersFinite, PipelineAssumption DEF PermitInv, FollowersCounted
  <2>2. AiSlot!SlotTypeOK
    BY DEF PermitInv, SlotFacts!SlotInv, SlotFacts!SlotTypeOK, SlotFacts!SlotStates,
       AiSlot!SlotTypeOK, AiSlot!SlotStates
  <2>. QED
    BY <2>1, <2>2 DEF Inv, RegInv, PcOK, ChargeInv, TypeOK
<1>. QED
  BY <1>1, Invariant, PermitInit, PermitStep, ChargeInit, ChargeStep, PTL DEF Spec

=============================================================================
