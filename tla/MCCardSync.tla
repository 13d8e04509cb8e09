----------------------------- MODULE MCCardSync -----------------------------
(* One card, two contents.  The devices create it, edit it from version 1 (two *)
(* edits, one of which reuses an action id), delete it from version 1, and     *)
(* create, patch and delete it directly as well.                               *)
EXTENDS CardSync, TLC

CONSTANTS c1, c2, c3, c4, c5, a, b, l, x, y

R(action, op, base, content) ==
    [action |-> action, op |-> op, card |-> l, base |-> base, content |-> content]

Sent == {R(a, "CREATE", 0, x), R(b, "UPDATE", 1, y), R(a, "UPDATE", 1, y),
         R(b, "DELETE", 1, x), R(NoAction, "CREATE", 0, y), R(NoAction, "UPDATE", 0, x),
         R(NoAction, "DELETE", 0, x)}

\* Every operation has an id of its own.
Honest == {R(a, "CREATE", 0, x), R(b, "UPDATE", 1, y), R(NoAction, "UPDATE", 0, x)}

\* ... and one that reuses the id of the update to delete the card.
Edits == Honest \cup {R(b, "DELETE", 2, x)}

Symmetric == Permutations(Calls)

=============================================================================
