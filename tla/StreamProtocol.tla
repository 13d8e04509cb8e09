--------------------------- MODULE StreamProtocol ---------------------------
(***************************************************************************)
(* What a client of POST /api/analyze-english/stream sees: `start`, then   *)
(* provisional `delta` and `field` events of attempt 1, perhaps a `reset`  *)
(* and the events of attempt 2, then one `final` and `done`.  `seq` grows  *)
(* over both attempts; a field is shown complete only after all the fields *)
(* before it in `Order`, and what is shown at any time, complete or in     *)
(* part, belongs to one attempt.  The stream may break off or the client   *)
(* leave.                                                                  *)
(***************************************************************************)
EXTENDS Naturals, Sequences

CONSTANTS
    Order,   \* the fields sent, a sequence in the order of _STREAM_FIELD_ORDER
    Gapless  \* TRUE: every event is forwarded, so no seq number is skipped

VARIABLES
    attempt,  \* attempt of the events shown, 2 after a `reset`
    seq,      \* seq of the last `delta`
    partial,  \* fields of which text is shown, each with the attempt it is from
    shown,    \* fields shown complete, in turn, each with the attempt it is from
    end       \* "open", "final", "done", "broken" or "left"

vars == <<attempt, seq, partial, shown, end>>

Item(field) == [field |-> field, attempt |-> attempt]

Init == attempt = 1 /\ seq = 0 /\ partial = {} /\ shown = <<>> /\ end = "open"

\* Text of any field, before or after others are complete.
Delta ==
    /\ end = "open"
    /\ seq' \in Nat
    /\ seq' > seq
    /\ Gapless => seq' = seq + 1
    /\ \E i \in DOMAIN Order : partial' = partial \cup {Item(Order[i])}
    /\ UNCHANGED <<attempt, shown, end>>

\* The next field of the order, from the attempt the client is looking at.
Field ==
    /\ end = "open"
    /\ Len(shown) < Len(Order)
    /\ shown' = Append(shown, Item(Order[Len(shown) + 1]))
    /\ UNCHANGED <<attempt, seq, partial, end>>

\* Nothing of the abandoned attempt stays.
Reset ==
    /\ end = "open"
    /\ attempt = 1
    /\ attempt' = 2
    /\ partial' = {}
    /\ shown' = <<>>
    /\ UNCHANGED <<seq, end>>

\* What ends the stream, or the view of it, changes nothing else.
EndsAs(how) == end' = how /\ UNCHANGED <<attempt, seq, partial, shown>>

Final == end = "open" /\ EndsAs("final")
Done == end = "final" /\ EndsAs("done")
Break == end = "open" /\ EndsAs("broken")
Leave == end \in {"open", "final"} /\ EndsAs("left")

Next == Delta \/ Field \/ Reset \/ Final \/ Done \/ Break \/ Leave

Spec == Init /\ [][Next]_vars

=============================================================================
