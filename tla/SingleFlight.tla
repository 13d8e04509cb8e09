---------------------------- MODULE SingleFlight ----------------------------
(***************************************************************************)
(* What the AI request registry promises, without its two dictionaries.    *)
(*                                                                         *)
(* Every request belongs to at most one operation.  An operation is named  *)
(* by the request that opened it, completes once with one outcome, and is  *)
(* forgotten some time after it completed.  A request that carries an      *)
(* Idempotency-Key shares an operation only with requests of the same      *)
(* user, key and payload; a request without a key may share any operation  *)
(* of the same user and payload that still runs.                           *)
(***************************************************************************)
CONSTANTS
    Requests, Users, Keys, Prints, Outcomes,
    NoKey, NoRecord, NoIdent

VARIABLES
    ident,      \* who asks for what, NoIdent before the request arrives
    attached,   \* the operation a request belongs to
    outcome,    \* of each operation: "none", "pending" or how it completed
    forgotten   \* operations whose outcome is no longer replayed

vars == <<ident, attached, outcome, forgotten>>

Idents == [user : Users, key : Keys \cup {NoKey}, print : Prints]

Init ==
    /\ ident = [r \in Requests |-> NoIdent]
    /\ attached = [r \in Requests |-> NoRecord]
    /\ outcome = [r \in Requests |-> "none"]
    /\ forgotten = {}

\* The operations that answer to the key of `id`.
Remembered(id) ==
    {o \in Requests :
        /\ attached[o] = o
        /\ o \notin forgotten
        /\ id.key # NoKey
        /\ ident[o].user = id.user
        /\ ident[o].key = id.key}

Running(id) ==
    {o \in Requests :
        /\ attached[o] = o
        /\ outcome[o] = "pending"
        /\ ident[o].user = id.user
        /\ ident[o].print = id.print}

Arrive(r, id) ==
    /\ ident[r] = NoIdent
    /\ ident' = [ident EXCEPT ![r] = id]
    /\ UNCHANGED forgotten

Open(r, id) ==
    /\ Arrive(r, id)
    /\ Remembered(id) = {}
    /\ attached' = [attached EXCEPT ![r] = r]
    /\ outcome' = [outcome EXCEPT ![r] = "pending"]

Join(r, id) ==
    /\ Arrive(r, id)
    /\ \E o \in IF id.key = NoKey THEN Running(id) ELSE Remembered(id) :
          /\ ident[o].print = id.print
          /\ attached' = [attached EXCEPT ![r] = o]
    /\ UNCHANGED outcome

Refuse(r, id) ==
    /\ Arrive(r, id)
    /\ \E o \in Remembered(id) : ident[o].print # id.print
    /\ UNCHANGED <<attached, outcome>>

Complete(r, out) ==
    /\ outcome[r] = "pending"
    /\ outcome' = [outcome EXCEPT ![r] = out]
    /\ UNCHANGED <<ident, attached, forgotten>>

Forget(r) ==
    /\ outcome[r] \in Outcomes
    /\ forgotten' = forgotten \cup {r}
    /\ UNCHANGED <<ident, attached, outcome>>

Next ==
    \E r \in Requests :
        \/ \E id \in Idents : Open(r, id) \/ Join(r, id) \/ Refuse(r, id)
        \/ \E out \in Outcomes : Complete(r, out)
        \/ Forget(r)

Spec == Init /\ [][Next]_vars

=============================================================================
