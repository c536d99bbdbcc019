---------------------------- MODULE AnswerStore ----------------------------
(***************************************************************************)
(* Retried control requests: a request with an idempotency key looks for   *)
(* the answer an earlier one got, and leaves its own answer behind.  The   *)
(* handler runs between the two, so two requests may be under way.         *)
(***************************************************************************)
EXTENDS Naturals

CONSTANTS
    Thread,    \* request threads
    Key,       \* subject, method, path and key of a request
    None,
    Ttl,       \* how long an answer is kept, in ticks
    MaxTime    \* bound: ticks

VARIABLES
    now,
    records,   \* per key: when its answer expires, 0 if there is none
    req,       \* per thread: where its request is
    last       \* history: per key, when a request was last carried out, and since when it ran

vars == <<now, records, req, last>>

Until == 0..(MaxTime + Ttl)
AtRest == [pc |-> "idle", key |-> None, begun |-> 0]

TypeOK ==
    /\ now \in 0..MaxTime /\ records \in [Key -> Until]
    /\ req \in [Thread -> [pc : {"idle", "look", "run"}, key : Key \cup {None}, begun : 0..MaxTime]]
    /\ last \in [Key -> 0..MaxTime \cup {None}]

Init ==
    /\ now = 0 /\ records = [k \in Key |-> 0]
    /\ req = [r \in Thread |-> AtRest] /\ last = [k \in Key |-> None]

\* _purge_expired_locked
Unexpired == [k \in Key |-> IF records[k] <= now THEN 0 ELSE records[k]]

Arrive(r, k) ==
    /\ req[r].pc = "idle"
    /\ req' = [req EXCEPT ![r] = [pc |-> "look", key |-> k, begun |-> now]]
    /\ UNCHANGED <<now, records, last>>

\* replay_idempotent_response: answered from the store, or on to the handler
LookUp(r) ==
    /\ req[r].pc = "look"
    /\ IF req[r].key = None THEN UNCHANGED records ELSE records' = Unexpired
    /\ req' = [req EXCEPT ![r] = IF @.key # None /\ Unexpired[@.key] # 0 THEN AtRest
                                 ELSE [@ EXCEPT !.pc = "run"]]
    /\ UNCHANGED <<now, last>>

\* Mutant: an answer that is there is not renewed.
RememberFirst(r) ==
    /\ req[r].pc = "run"
    /\ LET k == req[r].key IN
       IF k = None THEN UNCHANGED <<records, last>>
       ELSE /\ records' = [Unexpired EXCEPT ![k] = IF @ = 0 THEN now + Ttl ELSE @]
            /\ last' = [last EXCEPT ![k] = now]
    /\ req' = [req EXCEPT ![r] = AtRest]
    /\ UNCHANGED now

\* The handler has done its work; remember_idempotent_response.
Remember(r) ==
    /\ req[r].pc = "run"
    /\ LET k == req[r].key IN
       IF k = None THEN UNCHANGED <<records, last>>
       ELSE /\ records' = [Unexpired EXCEPT ![k] = now + Ttl]
            /\ last' = [last EXCEPT ![k] = now]
    /\ req' = [req EXCEPT ![r] = AtRest]
    /\ UNCHANGED now

\* The handler refuses the request or fails: nothing is remembered.
Fail(r) ==
    /\ req[r].pc = "run"
    /\ req' = [req EXCEPT ![r] = AtRest]
    /\ UNCHANGED <<now, records, last>>

Tick ==
    /\ now < MaxTime /\ now' = now + 1
    /\ UNCHANGED <<records, req, last>>

Next == \/ \E r \in Thread : \/ \E k \in Key \cup {None} : Arrive(r, k)
                             \/ LookUp(r) \/ Remember(r) \/ Fail(r)
        \/ Tick

Spec == Init /\ [][Next]_vars

-----------------------------------------------------------------------------

\* A retry that comes after the answer is not carried out again while the answer is kept, also
\* when several requests with its key were under way at once and answered one after the other.
RetryIsAnswered ==
    \A r \in Thread : req[r].pc = "look" /\ req'[r].pc = "run" /\ req[r].key # None =>
        LET done == last[req[r].key] IN done # None => now >= done + Ttl
RetriesAreAnswered == [][RetryIsAnswered]_vars
=============================================================================
