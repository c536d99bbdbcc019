----------------------------- MODULE TokenStore -----------------------------
(***************************************************************************)
(* Logging out: JWTs are valid until they expire unless their id is among  *)
(* the revoked ones, which are kept in memory and in a table of the        *)
(* database.  Every check purges what has expired.  The database may not   *)
(* answer, and the process may restart.  Sockets keep the claims they      *)
(* connected with.                                                         *)
(***************************************************************************)
EXTENDS Naturals

CONSTANTS
    Token,
    Socket,
    None,
    Life,      \* JWT_TTL_MINUTES, in ticks
    MaxTime    \* bound: ticks

VARIABLES
    now,
    exp,        \* per token: when it expires, 0 before it is issued
    revoked,    \* _revoked_jtis: until when, 0 if not
    stored,     \* table jwt_revocations
    reachable,  \* whether SQLite answers
    claims,     \* per socket: role and token of its connection, or None
    accepted,   \* history: the token of the last request that was let in
    out         \* history: tokens logged out, and still known to be

vars == <<now, exp, revoked, stored, reachable, claims, accepted, out>>

Until == 0..(MaxTime + Life)

TypeOK ==
    /\ now \in 0..MaxTime /\ reachable \in BOOLEAN
    /\ exp \in [Token -> Until] /\ revoked \in [Token -> Until] /\ stored \in [Token -> Until]
    /\ claims \in [Socket -> [role : {"admin", "viewer"}, token : Token \cup {None}] \cup {None}]
    /\ accepted \in Token \cup {None} /\ out \subseteq Token

Init ==
    /\ now = 0 /\ reachable = TRUE
    /\ exp = [t \in Token |-> 0] /\ revoked = [t \in Token |-> 0] /\ stored = [t \in Token |-> 0]
    /\ claims = [s \in Socket |-> None]
    /\ accepted = None /\ out = {}

\* create_jwt
Login(t) ==
    /\ exp[t] = 0
    /\ exp' = [exp EXCEPT ![t] = now + Life]
    /\ accepted' = None
    /\ UNCHANGED <<now, revoked, stored, reachable, claims, out>>

\* Mutant: revocations are forgotten one tick before they expire.
UnexpiredEarly(table) == [t \in Token |-> IF table[t] <= now + 1 THEN 0 ELSE table[t]]

\* _purge_expired_revocations
Unexpired(table) == [t \in Token |-> IF table[t] <= now THEN 0 ELSE table[t]]

Purge ==
    /\ revoked' = Unexpired(revoked)
    /\ stored' = IF reachable THEN Unexpired(stored) ELSE stored

\* jwt.decode: an expired token is none
Decodes(t) == t # None /\ exp[t] > now

\* logout: revoke_jwt_claims, and the purge after it.  A database that does not answer is
\* only logged.
Logout(t) ==
    /\ Decodes(t)
    /\ revoked' = Unexpired([revoked EXCEPT ![t] = exp[t]])
    /\ stored' = IF reachable THEN Unexpired([stored EXCEPT ![t] = exp[t]]) ELSE stored
    /\ out' = out \cup {t}
    /\ accepted' = None
    /\ UNCHANGED <<now, exp, reachable, claims>>

\* is_token_revoked: a database that does not answer knows of nothing
Revoked(t) == revoked[t] > now \/ (reachable /\ stored[t] > now)

\* verify_request_token
Authenticate(t) ==
    /\ IF Decodes(t) THEN Purge ELSE UNCHANGED <<revoked, stored>>
    /\ accepted' = IF Decodes(t) /\ ~Revoked(t) THEN t ELSE None
    /\ UNCHANGED <<now, exp, reachable, claims, out>>

\* handle_connect: a socket without a valid token only looks on
Connect(s, t) ==
    /\ claims[s] = None
    /\ IF Decodes(t) THEN Purge ELSE UNCHANGED <<revoked, stored>>
    /\ claims' = [claims EXCEPT ![s] = IF Decodes(t) /\ ~Revoked(t)
                                       THEN [role |-> "admin", token |-> t]
                                       ELSE [role |-> "viewer", token |-> None]]
    /\ accepted' = None
    /\ UNCHANGED <<now, exp, reachable, out>>

Disconnect(s) ==
    /\ claims[s] # None
    /\ claims' = [claims EXCEPT ![s] = None]
    /\ accepted' = None
    /\ UNCHANGED <<now, exp, revoked, stored, reachable, out>>

Tick ==
    /\ now < MaxTime /\ now' = now + 1 /\ accepted' = None
    /\ UNCHANGED <<exp, revoked, stored, reachable, claims, out>>

DatabaseChanges ==
    /\ reachable' = ~reachable /\ accepted' = None
    /\ UNCHANGED <<now, exp, revoked, stored, claims, out>>

\* A new process knows what the table holds.
Restart ==
    /\ revoked' = [t \in Token |-> 0]
    /\ claims' = [s \in Socket |-> None]
    /\ out' = {t \in out : stored[t] > 0} /\ accepted' = None
    /\ UNCHANGED <<now, exp, stored, reachable>>

Next ==
    \/ \E t \in Token : Login(t) \/ Logout(t)
    \/ \E t \in Token \cup {None} : Authenticate(t) \/ \E s \in Socket : Connect(s, t)
    \/ \E s \in Socket : Disconnect(s)
    \/ Tick \/ DatabaseChanges \/ Restart

Spec == Init /\ [][Next]_vars

-----------------------------------------------------------------------------

\* A token that was logged out opens no request until it has expired by itself, across
\* restarts too, as long as the database that recorded the logout answers.
LoggedOutStaysOut == accepted \in out => ~reachable /\ revoked[accepted] = 0
=============================================================================
