----------------------------- MODULE CardStore ------------------------------
(***************************************************************************)
(* What the cards of one user promise to the devices that edit them: every *)
(* change replaces the row as it was committed last and counts its version *)
(* up by one, and a deleted card, the tombstone, never changes again.      *)
(***************************************************************************)
EXTENDS Naturals

CONSTANTS
    Cards,    \* local ids; a card has one row, found by local_temp_id or by id
    Contents  \* what the editable fields of a card may say

VARIABLES
    card      \* card[l]: the committed row of card l, of version 0 before it exists

Rows == [version : Nat, deleted : BOOLEAN, content : Contents]

Init == \A l \in Cards : card[l].version = 0 /\ ~card[l].deleted

Create(l) ==
    /\ card[l].version = 0
    /\ \E content \in Contents :
          card' = [card EXCEPT ![l] = [version |-> 1, deleted |-> FALSE, content |-> content]]

Edit(l) ==
    /\ card[l].version > 0
    /\ ~card[l].deleted
    /\ \E content \in Contents :
          card' = [card EXCEPT ![l].version = @ + 1, ![l].content = content]

Delete(l) ==
    /\ card[l].version > 0
    /\ ~card[l].deleted
    /\ card' = [card EXCEPT ![l].version = @ + 1, ![l].deleted = TRUE]

Next == \E l \in Cards : Create(l) \/ Edit(l) \/ Delete(l)

Spec == Init /\ [][Next]_card

=============================================================================
