---------------------------- MODULE RateLimiter ----------------------------
(***************************************************************************)
(* The fixed window rate limiter in front of the control requests, the     *)
(* logins and the socket events.  A key stands for the bucket name with    *)
(* the address (client_ip) and path, or the socket id and event, it is     *)
(* counted for.  check() holds the limiter's lock throughout.              *)
(***************************************************************************)
EXTENDS Naturals, FiniteSets

CONSTANTS
    Key,          \* what requests are counted for
    None,
    Limit,        \* requests per window
    Window,       \* its length in ticks
    MaxBuckets,   \* buckets kept
    MaxTime       \* bound: ticks

VARIABLES
    now,       \* time.monotonic
    buckets,   \* _buckets: per key the start of its window and the count, or None
    lastPrune,
    passed,    \* history: per key, the requests that got through n ticks ago, while it is not evicted
    evicted    \* history: keys whose window was thrown out to make room

vars == <<now, buckets, lastPrune, passed, evicted>>

Time == 0..MaxTime
Age == 0..(Window - 1)
Nobody == [n \in Age |-> 0]

TypeOK ==
    /\ now \in Time /\ lastPrune \in Time
    /\ buckets \in [Key -> [start : Time, count : 1..Limit] \cup {None}]
    /\ Cardinality({k \in Key : buckets[k] # None}) <= MaxBuckets
    /\ passed \in [Key -> [Age -> 0..Limit]] /\ evicted \subseteq Key

Init ==
    /\ now = 0 /\ lastPrune = 0
    /\ buckets = [k \in Key |-> None]
    /\ passed = [k \in Key |-> Nobody] /\ evicted = {}

\* _prune_expired, at most once per window
Due == now >= lastPrune + Window
Kept == IF ~Due THEN buckets
        ELSE [k \in Key |-> IF buckets[k] # None /\ buckets[k].start + Window >= now
                            THEN buckets[k] ELSE None]
Pruned == lastPrune' = IF Due THEN now ELSE lastPrune

\* Mutant: a window is over one tick early.
CurrentEarly(k) ==
    IF Kept[k] = None \/ now + 1 >= Kept[k].start + Window
    THEN [start |-> now, count |-> 0] ELSE Kept[k]

\* The window of k: a new one when there is none or it is over.
Current(k) ==
    IF Kept[k] = None \/ now >= Kept[k].start + Window
    THEN [start |-> now, count |-> 0] ELSE Kept[k]

\* Mutant: one window more is kept.
VictimsLate(table) ==
    LET used == {k \in Key : table[k] # None}
    IN  IF Cardinality(used) <= MaxBuckets + 1 THEN {None}
        ELSE {k \in used : \A l \in used : table[k].start <= table[l].start}

\* _prune_oldest: beyond MaxBuckets the windows that began first go.
Victims(table) ==
    LET used == {k \in Key : table[k] # None}
    IN  IF Cardinality(used) <= MaxBuckets THEN {None}
        ELSE {k \in used : \A l \in used : table[k].start <= table[l].start}

Pass(k) ==
    /\ Current(k).count < Limit
    /\ LET counted == [Kept EXCEPT ![k] = [Current(k) EXCEPT !.count = @ + 1]] IN
         \E v \in Victims(counted) :
            /\ buckets' = IF v = None THEN counted ELSE [counted EXCEPT ![v] = None]
            /\ evicted' = evicted \cup ({v} \ {None})
    /\ Pruned
    /\ passed' = [l \in Key |-> IF l \in evicted' THEN Nobody
                               ELSE IF l = k THEN [passed[k] EXCEPT ![0] = @ + 1] ELSE passed[l]]
    /\ UNCHANGED now

\* RateLimitExceeded
Refuse(k) ==
    /\ Current(k).count >= Limit
    /\ buckets' = Kept /\ Pruned
    /\ UNCHANGED <<now, passed, evicted>>

Tick ==
    /\ now < MaxTime /\ now' = now + 1
    /\ passed' = [k \in Key |-> [n \in Age |-> IF n = 0 THEN 0 ELSE passed[k][n - 1]]]
    /\ UNCHANGED <<buckets, lastPrune, evicted>>

Next == \/ \E k \in Key : Pass(k) \/ Refuse(k)
        \/ Tick

Spec == Init /\ [][Next]_vars

-----------------------------------------------------------------------------

\* Lately(times)[n]: what got through in the last n ticks
Lately(times) ==
    LET sum[n \in 0..Window] == IF n = 0 THEN 0 ELSE sum[n - 1] + times[n - 1]
    IN  sum

\* In no period as long as a window do more than twice the limit less one get through, however
\* the requests fall about the edge of a window, unless the window was thrown out to make room.
AtMostTwiceTheLimit ==
    \A k \in Key \ evicted : Lately(passed[k])[Window] <= 2 * Limit - 1
=============================================================================
