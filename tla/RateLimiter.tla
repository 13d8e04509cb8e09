----------------------------- MODULE RateLimiter -----------------------------
(***************************************************************************)
(* WindowRateLimiter (app/services/security.py) for one key: at most so    *)
(* many calls within a window that slides.                                 *)
(*                                                                         *)
(* A call reads the clock before it takes the lock, so that stamps may     *)
(* enter the queue out of order where the calls are on threads (as those   *)
(* of lexical-info); on the event loop no call comes between the two.      *)
(***************************************************************************)
EXTENDS Integers, Sequences, FiniteSets

CONSTANTS
    Calls,      \* calls with the key, on the threads of the server
    Limit,      \* limit
    Window,     \* window_seconds
    LastSecond  \* bound on the clock

ASSUME LimiterAssumption ==
    IsFiniteSet(Calls) /\ Limit \in Nat /\ Window \in Nat \ {0} /\ LastSecond \in Nat

VARIABLES
    time,      \* time.monotonic()
    stamp,     \* `now` of each call, or NotYet
    verdict,   \* "waiting", "granted", "refused"
    events,    \* self._events[key]
    overtaken  \* history: calls that came to the lock after one with a later stamp

limiterVars == <<time, stamp, verdict, events, overtaken>>

NotYet == -1
Allowed == IF Limit < 1 THEN 1 ELSE Limit

LimiterInit ==
    /\ time = 0
    /\ stamp = [c \in Calls |-> NotYet]
    /\ verdict = [c \in Calls |-> "waiting"]
    /\ events = <<>>
    /\ overtaken = {}

Pass ==
    /\ time < LastSecond
    /\ time' = time + 1
    /\ UNCHANGED <<stamp, verdict, events, overtaken>>

ReadClock(c) ==
    /\ stamp[c] = NotYet
    /\ stamp' = [stamp EXCEPT ![c] = time]
    /\ UNCHANGED <<time, verdict, events, overtaken>>

\* Mutant: a window too short by one.
DropEarly(queue, now) == SelectSeq(queue, LAMBDA e : e > now - Window + 1)

\* From the front, up to the first that is not expired.
DropExpired(queue, now) ==
    LET kept == {k \in DOMAIN queue : queue[k] > now - Window}
        first == IF kept = {} THEN Len(queue) + 1 ELSE CHOOSE k \in kept : \A l \in kept : k <= l
    IN SubSeq(queue, first, Len(queue))

\* Under the lock.
Check(c) ==
    /\ stamp[c] # NotYet /\ verdict[c] = "waiting"
    /\ LET left == DropExpired(events, stamp[c]) IN
        IF Len(left) >= Allowed
        THEN verdict' = [verdict EXCEPT ![c] = "refused"] /\ events' = left
        ELSE verdict' = [verdict EXCEPT ![c] = "granted"] /\ events' = Append(left, stamp[c])
    /\ overtaken' = IF \E d \in Calls : verdict[d] # "waiting" /\ stamp[d] > stamp[c]
                    THEN overtaken \cup {c} ELSE overtaken
    /\ UNCHANGED <<time, stamp>>

LimiterNext == Pass \/ \E c \in Calls : ReadClock(c) \/ Check(c)

LimiterSpec == LimiterInit /\ [][LimiterNext]_limiterVars

-----------------------------------------------------------------------------

\* No window has more calls in it than the limit allows, but for those that were
\* overtaken between the clock and the lock: what their window had before may have been
\* dropped for the sake of a later one.
WindowNeverOverrun ==
    \A from \in 0..LastSecond :
        LET granted == {c \in Calls : verdict[c] = "granted" /\ stamp[c] \in from..(from + Window - 1)}
        IN Cardinality(granted \ overtaken) <= Allowed

=============================================================================
