-------------------------- MODULE MCReviewSession --------------------------
(* Model values, symmetry and bounds for the runs of ReviewSession. *)
EXTENDS ReviewSession, TLC

CONSTANTS k1, k2

Both == {<<k1, k2>>}
OneOrBoth == {<<k1>>, <<k1, k2>>}

Daily(restart) == [kind |-> "open", type |-> "daily_suggested", restart |-> restart]
Free == [kind |-> "open", type |-> "free_review", restart |-> FALSE]

Continue == {Daily(FALSE)}
Every == {Daily(FALSE), Daily(TRUE), Free}

Symmetric == Permutations(Calls) \cup Permutations(Actions)

\* A fourth call joins three that leave it room: the openings continue and want both
\* cards, and either cards are edited or all answers are given.
EditsOrAnswers ==
    (\E a \in Actions : sent[a] = NoReply) \/ (\A k \in Cards : card[k].version = 1)
RoomForFour ==
    /\ \A c \in Calls : req[c] \in Openings \cup {Overview} => req[c] \in Continue
    /\ \A s \in DOMAIN item : \A k \in Cards : \E i \in DOMAIN item[s] : item[s][i].card = k
    /\ EditsOrAnswers
Bound == (\E c \in Calls : req[c] = NoRequest) \/ RoomForFour

BoundedSpec == Init /\ [][Next /\ Bound']_vars
=============================================================================
