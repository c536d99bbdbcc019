---------------------------- MODULE Parts_proofs ----------------------------
(***************************************************************************)
(* Theorems about parts that MCParts runs: the tokens, the answers kept    *)
(* for retries, the picture's calibration, the program's workers, the      *)
(* record of the events, the sheet of the moves, the limiter, the guard of *)
(* the paths, the doors of the commands, the dashboard and what TMflow     *)
(* sends.  They share no state; each is an instance of its module.         *)
(***************************************************************************)
EXTENDS Naturals, Sequences, FiniteSets, FiniteSetTheorems, SequenceTheorems, WellFoundedInduction, TLAPS

CONSTANTS
    None,
    Token, Socket, Life, TokenTime,                           \* TokenStore
    Thread, Key, Ttl, AnswerTime,                             \* AnswerStore
    Request, Corners, Sizes, MaxStarts,                       \* VisionCalibration
    Order, Camera, Watchdog, StatusWorker, FakeRobot, Timeout, \* WorkerLifecycle
    Publisher, Console, QueueSize, CriticalSize, BatchSize,   \* EventRecord
    PageSize, MaxEvents, MaxSessions,
    SheetMoves, SheetEvents,                                  \* MoveSheet
    LimitKey, Limit, Window, MaxBuckets, LimiterTime,         \* RateLimiter
    AccessRole, Ending,                                       \* AccessGuard
    DashEvents, DashKept, MaxErrors, MaxTraces, MaxTraceEvents, MaxRecorded, \* Telemetry
    Client, Scripts, IngestStarts, MaxAge                     \* TMflowIngest

VARIABLES
    now, exp, revoked, stored, reachable, claims, accepted, out,                           \* TokenStore
    records, serving, last,                                                                \* AnswerStore, and now
    corrector, published, shown, file, size, req, frame, starts, mixed,                    \* VisionCalibration
    boot, flags, results, hook, hooked, loop, work, link, silence, judged, healthy,        \* WorkerLifecycle
    ctl, thread, console, queue, critical, worker, orphan, table, hist,                    \* EventRecord
    log, played, arm,                                                                      \* MoveSheet
    buckets, lastPrune, passed, evicted,                                                   \* RateLimiter, and now
    request, answer, said,                                                                 \* AccessGuard, CommandEntry
    events, errors, traces, active, nodes, edges, count,                                   \* Telemetry
    policy, server, booted, peers, client, snapshot, heard, failures                       \* TMflowIngest

-----------------------------------------------------------------------------
(* Tokens.                                                                 *)
Tokens == INSTANCE TokenStore WITH MaxTime <- TokenTime

\* What an instance has to give: a value that is no token, and times.
TokensSound == None \notin Token /\ Life \in Nat /\ TokenTime \in Nat

\* A revocation is recorded with the expiry of its token or not at all.
Recorded == \A t \in Token : revoked[t] \in {0, exp[t]} /\ stored[t] \in {0, exp[t]}

\* A token that was logged out is revoked in memory or, if not, in the table, or has expired.
StillOut ==
    \A t \in out : exp[t] > 0 /\ (revoked[t] # 0 \/ stored[t] # 0 \/ exp[t] <= now)

TokensInv == Tokens!TypeOK /\ Recorded /\ StillOut /\ Tokens!LoggedOutStaysOut

LEMMA TokensInit == ASSUME TokensSound, Tokens!Init PROVE TokensInv
  BY DEF TokensSound, Tokens!Init, TokensInv, Tokens!TypeOK, Tokens!Until, Recorded, StillOut,
        Tokens!LoggedOutStaysOut

\* A purge forgets nothing but what has expired.
LEMMA UnexpiredKeeps ==
    ASSUME TokensSound, TokensInv, NEW tab \in [Token -> Tokens!Until]
    PROVE  /\ Tokens!Unexpired(tab) \in [Token -> Tokens!Until]
           /\ \A t \in Token : Tokens!Unexpired(tab)[t] = IF tab[t] <= now THEN 0 ELSE tab[t]
  BY DEF TokensSound, TokensInv, Tokens!TypeOK, Tokens!Until, Tokens!Unexpired

\* The state of the tables after a purge, or without one, still fits the tokens.
LEMMA TokenPurge ==
    ASSUME TokensSound, TokensInv, Tokens!Purge \/ UNCHANGED <<revoked, stored>>, exp' = exp, now' = now, out' = out
    PROVE  /\ revoked' \in [Token -> Tokens!Until] /\ stored' \in [Token -> Tokens!Until]
           /\ Recorded' /\ StillOut'
           /\ \A t \in Token : revoked[t] = 0 => revoked'[t] = 0
<1>1. /\ revoked \in [Token -> Tokens!Until] /\ stored \in [Token -> Tokens!Until]
      /\ exp \in [Token -> Tokens!Until] /\ now \in Nat /\ out \subseteq Token
  BY DEF TokensSound, TokensInv, Tokens!TypeOK
<1>2. CASE UNCHANGED <<revoked, stored>>
  BY <1>1, <1>2 DEF TokensInv, Recorded, StillOut
<1>3. CASE Tokens!Purge
  <2>1. /\ revoked' \in [Token -> Tokens!Until] /\ stored' \in [Token -> Tokens!Until]
        /\ \A t \in Token : /\ revoked'[t] = IF revoked[t] <= now THEN 0 ELSE revoked[t]
                            /\ stored'[t] \in {stored[t], IF stored[t] <= now THEN 0 ELSE stored[t]}
    BY <1>1, <1>3, UnexpiredKeeps DEF Tokens!Purge
  <2>2. Recorded'
    BY <1>1, <2>1 DEF TokensInv, Recorded, Tokens!Until
  <2>3. StillOut'
    BY <1>1, <2>1 DEF TokensInv, Recorded, StillOut, Tokens!Until
  <2> QED BY <1>1, <2>1, <2>2, <2>3 DEF Tokens!Until
<1> QED BY <1>2, <1>3

LEMMA LoginStep == ASSUME TokensSound, TokensInv, NEW t \in Token, Tokens!Login(t) PROVE TokensInv'
<1>1. exp' \in [Token -> Tokens!Until] /\ \A u \in Token : u # t => exp'[u] = exp[u]
  BY DEF TokensSound, TokensInv, Tokens!TypeOK, Tokens!Login, Tokens!Until
<1>2. t \notin out
  BY DEF TokensInv, StillOut, Tokens!Login
<1>3. Tokens!TypeOK'
  BY <1>1 DEF TokensInv, Tokens!TypeOK, Tokens!Login
<1>4. Recorded'
  BY <1>1 DEF TokensInv, Tokens!TypeOK, Recorded, Tokens!Login, Tokens!Until
<1>5. StillOut'
  BY <1>1, <1>2 DEF TokensInv, Tokens!TypeOK, StillOut, Tokens!Login
<1>6. Tokens!LoggedOutStaysOut'
  BY <1>3 DEF TokensSound, Tokens!TypeOK, Tokens!LoggedOutStaysOut, Tokens!Login
<1> QED BY <1>3, <1>4, <1>5, <1>6 DEF TokensInv

LEMMA LogoutStep == ASSUME TokensSound, TokensInv, NEW t \in Token, Tokens!Logout(t) PROVE TokensInv'
<1> DEFINE r == [revoked EXCEPT ![t] = exp[t]]
           s == [stored EXCEPT ![t] = exp[t]]
<1>1. /\ revoked \in [Token -> Tokens!Until] /\ stored \in [Token -> Tokens!Until] /\ exp \in [Token -> Tokens!Until]
      /\ now \in Nat /\ out \subseteq Token /\ exp[t] > now /\ exp' = exp /\ now' = now /\ out' = out \cup {t}
  BY DEF TokensSound, TokensInv, Tokens!TypeOK, Tokens!Logout, Tokens!Decodes
<1>2. r \in [Token -> Tokens!Until] /\ s \in [Token -> Tokens!Until]
  BY <1>1
<1>3. /\ revoked' \in [Token -> Tokens!Until] /\ stored' \in [Token -> Tokens!Until]
      /\ \A u \in Token : /\ revoked'[u] = IF r[u] <= now THEN 0 ELSE r[u]
                          /\ stored'[u] \in {stored[u], IF s[u] <= now THEN 0 ELSE s[u]}
  BY <1>2, <1>1, UnexpiredKeeps DEF Tokens!Logout
<1>4. revoked'[t] = exp[t]
  <2>1. r[t] = exp[t] /\ exp[t] \in Nat
    BY <1>1 DEF TokensSound, Tokens!Until
  <2> QED BY <1>1, <1>3, <2>1
<1>5. Recorded'
  BY <1>1, <1>3 DEF TokensInv, Recorded, Tokens!Until
<1>6. StillOut'
  BY <1>1, <1>3, <1>4 DEF TokensInv, Recorded, StillOut, Tokens!Until
<1>7. Tokens!TypeOK'
  BY <1>1, <1>3 DEF TokensInv, Tokens!TypeOK, Tokens!Logout
<1>8. Tokens!LoggedOutStaysOut'
  BY <1>7 DEF TokensSound, Tokens!TypeOK, Tokens!LoggedOutStaysOut, Tokens!Logout
<1> QED BY <1>5, <1>6, <1>7, <1>8 DEF TokensInv

LEMMA AuthenticateStep ==
    ASSUME TokensSound, TokensInv, NEW t \in Token \cup {None}, Tokens!Authenticate(t)
    PROVE  TokensInv'
<1>1. /\ revoked' \in [Token -> Tokens!Until] /\ stored' \in [Token -> Tokens!Until] /\ Recorded' /\ StillOut'
      /\ \A u \in Token : revoked[u] = 0 => revoked'[u] = 0
  BY TokenPurge DEF Tokens!Authenticate
<1>2. Tokens!TypeOK'
  BY <1>1 DEF TokensInv, Tokens!TypeOK, Tokens!Authenticate, Tokens!Decodes
<1>3. Tokens!LoggedOutStaysOut'
  <2>1. SUFFICES ASSUME accepted' \in out' PROVE ~reachable' /\ revoked'[accepted'] = 0
    BY DEF Tokens!LoggedOutStaysOut
  <2>2. accepted' = t /\ t \in out /\ t \in Token /\ exp[t] > now /\ ~Tokens!Revoked(t) /\ reachable' = reachable
    BY <2>1 DEF TokensSound, TokensInv, Tokens!TypeOK, Tokens!Authenticate, Tokens!Decodes
  <2>3. revoked[t] = 0 /\ stored[t] = exp[t]
    BY <2>2 DEF TokensInv, Tokens!TypeOK, Recorded, StillOut, Tokens!Revoked, Tokens!Until, TokensSound
  <2> QED BY <1>1, <2>2, <2>3 DEF Tokens!Revoked
<1> QED BY <1>1, <1>2, <1>3 DEF TokensInv

LEMMA ConnectStep ==
    ASSUME TokensSound, TokensInv, NEW s \in Socket, NEW t \in Token \cup {None}, Tokens!Connect(s, t) PROVE TokensInv'
<1>1. revoked' \in [Token -> Tokens!Until] /\ stored' \in [Token -> Tokens!Until] /\ Recorded' /\ StillOut'
  BY TokenPurge DEF Tokens!Connect
<1>2. Tokens!TypeOK'
  BY <1>1 DEF TokensInv, Tokens!TypeOK, Tokens!Connect
<1>3. Tokens!LoggedOutStaysOut'
  BY <1>2 DEF TokensSound, Tokens!TypeOK, Tokens!LoggedOutStaysOut, Tokens!Connect
<1> QED BY <1>1, <1>2, <1>3 DEF TokensInv

\* A new process knows what the table holds, and of a token nothing else.
LEMMA RestartStep == ASSUME TokensSound, TokensInv, Tokens!Restart PROVE TokensInv'
<1>1. Tokens!TypeOK'
  BY DEF TokensSound, TokensInv, Tokens!TypeOK, Tokens!Restart, Tokens!Until
<1>2. Recorded'
  BY DEF TokensInv, Recorded, Tokens!Restart
<1>3. StillOut'
  BY DEF TokensInv, Tokens!TypeOK, StillOut, Tokens!Restart, Tokens!Until
<1>4. Tokens!LoggedOutStaysOut'
  BY <1>1 DEF TokensSound, Tokens!TypeOK, Tokens!LoggedOutStaysOut, Tokens!Restart
<1> QED BY <1>1, <1>2, <1>3, <1>4 DEF TokensInv

LEMMA TokenQuietStep ==
    ASSUME TokensSound, TokensInv, (\E s \in Socket : Tokens!Disconnect(s)) \/ Tokens!Tick \/ Tokens!DatabaseChanges PROVE TokensInv'
<1>1. Tokens!TypeOK'
  <2>1. CASE \E s \in Socket : Tokens!Disconnect(s)
    BY <2>1 DEF TokensInv, Tokens!TypeOK, Tokens!Disconnect
  <2>2. CASE Tokens!Tick
    BY <2>2 DEF TokensSound, TokensInv, Tokens!TypeOK, Tokens!Tick
  <2>3. CASE Tokens!DatabaseChanges
    <3>1. reachable' \in BOOLEAN
      BY <2>3 DEF Tokens!DatabaseChanges
    <3> QED BY <2>3, <3>1 DEF TokensInv, Tokens!TypeOK, Tokens!DatabaseChanges
  <2> QED BY <2>1, <2>2, <2>3
<1>2. Recorded'
  BY DEF TokensInv, Recorded, Tokens!Disconnect, Tokens!Tick, Tokens!DatabaseChanges
<1>3. StillOut'
  BY DEF TokensSound, TokensInv, Tokens!TypeOK, Tokens!Until, StillOut, Tokens!Disconnect, Tokens!Tick,
        Tokens!DatabaseChanges
<1>4. Tokens!LoggedOutStaysOut'
  BY <1>1 DEF TokensSound, Tokens!TypeOK, Tokens!LoggedOutStaysOut, Tokens!Disconnect, Tokens!Tick,
        Tokens!DatabaseChanges
<1> QED BY <1>1, <1>2, <1>3, <1>4 DEF TokensInv

LEMMA TokensStep == ASSUME TokensSound, TokensInv, [Tokens!Next]_(Tokens!vars) PROVE TokensInv'
<1>1. CASE Tokens!Next
  BY <1>1, LoginStep, LogoutStep, AuthenticateStep, ConnectStep, RestartStep, TokenQuietStep DEF Tokens!Next
<1>2. CASE UNCHANGED Tokens!vars
  BY <1>2 DEF TokensInv, Tokens!TypeOK, Recorded, StillOut, Tokens!LoggedOutStaysOut, Tokens!vars
<1> QED BY <1>1, <1>2

\* A token that was logged out opens no request until it has expired by itself, across
\* restarts too, as long as the database that recorded the logout answers (utils/auth.py).
THEOREM LoggedOut == ASSUME TokensSound PROVE Tokens!Spec => []Tokens!LoggedOutStaysOut
<1>1. Tokens!Init => TokensInv
  BY TokensInit
<1>2. TokensInv /\ [Tokens!Next]_(Tokens!vars) => TokensInv'
  BY TokensStep
<1>3. TokensInv => Tokens!LoggedOutStaysOut
  BY DEF TokensInv
<1> QED BY <1>1, <1>2, <1>3, PTL DEF Tokens!Spec

-----------------------------------------------------------------------------
(* Answers kept for retries.                                               *)
Answers == INSTANCE AnswerStore WITH MaxTime <- AnswerTime, req <- serving

\* What an instance has to give: a value that is neither key nor time, and times.
AnswersSound == Ttl \in Nat /\ AnswerTime \in Nat /\ None \notin Key /\ None \notin Nat

\* Of a key that was answered the answer is there, at least as long as it is to be kept.
Kept == \A k \in Key : last[k] # None => records[k] >= last[k] + Ttl \/ now >= last[k] + Ttl

AnswersInv == Answers!TypeOK /\ Kept

LEMMA AnswersInit == ASSUME AnswersSound, Answers!Init PROVE AnswersInv
  BY DEF AnswersSound, Answers!Init, AnswersInv, Answers!TypeOK, Answers!Until, Answers!AtRest, Kept

\* The purge of what has expired keeps what must be kept.
LEMMA AnswerPurge ==
    ASSUME AnswersSound, AnswersInv
    PROVE  /\ Answers!Unexpired \in [Key -> Answers!Until]
           /\ \A k \in Key : Answers!Unexpired[k] = IF records[k] <= now THEN 0 ELSE records[k]
           /\ \A k \in Key : last[k] # None => Answers!Unexpired[k] >= last[k] + Ttl \/ now >= last[k] + Ttl
<1>1. /\ Answers!Unexpired \in [Key -> Answers!Until]
      /\ \A k \in Key : Answers!Unexpired[k] = IF records[k] <= now THEN 0 ELSE records[k]
  BY DEF AnswersSound, AnswersInv, Answers!TypeOK, Answers!Until, Answers!Unexpired
<1>2. ASSUME NEW k \in Key, last[k] # None
      PROVE  Answers!Unexpired[k] >= last[k] + Ttl \/ now >= last[k] + Ttl
  <2>1. last[k] \in Nat /\ records[k] \in Nat /\ now \in Nat
    BY <1>2 DEF AnswersSound, AnswersInv, Answers!TypeOK, Answers!Until
  <2>2. records[k] >= last[k] + Ttl \/ now >= last[k] + Ttl
    BY <1>2 DEF AnswersInv, Kept
  <2> QED BY <1>1, <2>1, <2>2 DEF AnswersSound
<1> QED BY <1>1, <1>2

\* A request is put back to rest, or goes on to its handler.
LEMMA RequestType ==
    ASSUME AnswersSound, AnswersInv, NEW r \in Thread
    PROVE  /\ [serving EXCEPT ![r] = Answers!AtRest] \in [Thread -> [pc : {"idle", "look", "run"}, key : Key \cup {None}, begun : 0..AnswerTime]]
           /\ [serving[r] EXCEPT !.pc = "run"] \in [pc : {"idle", "look", "run"}, key : Key \cup {None}, begun : 0..AnswerTime]
  BY DEF AnswersSound, AnswersInv, Answers!TypeOK, Answers!AtRest

LEMMA ArriveStep ==
    ASSUME AnswersSound, AnswersInv, NEW r \in Thread, NEW k \in Key \cup {None}, Answers!Arrive(r, k)
    PROVE  AnswersInv'
  BY DEF AnswersSound, AnswersInv, Answers!TypeOK, Kept, Answers!Arrive

LEMMA LookUpStep == ASSUME AnswersSound, AnswersInv, NEW r \in Thread, Answers!LookUp(r) PROVE AnswersInv'
<1>1. records' \in [Key -> Answers!Until] /\ Kept'
  BY AnswerPurge DEF AnswersInv, Answers!TypeOK, Kept, Answers!LookUp
<1>2. serving' \in [Thread -> [pc : {"idle", "look", "run"}, key : Key \cup {None}, begun : 0..AnswerTime]]
  <2> DEFINE found == serving[r].key # None /\ Answers!Unexpired[serving[r].key] # 0
             next == IF found THEN Answers!AtRest ELSE [serving[r] EXCEPT !.pc = "run"]
  <2>1. serving' = [serving EXCEPT ![r] = next]
    BY DEF Answers!LookUp
  <2>2. next \in [pc : {"idle", "look", "run"}, key : Key \cup {None}, begun : 0..AnswerTime]
    BY RequestType DEF AnswersSound, Answers!AtRest
  <2> HIDE DEF next
  <2> QED BY <2>1, <2>2 DEF AnswersInv, Answers!TypeOK
<1> QED BY <1>1, <1>2 DEF AnswersInv, Answers!TypeOK, Answers!LookUp

LEMMA RememberStep == ASSUME AnswersSound, AnswersInv, NEW r \in Thread, Answers!Remember(r) PROVE AnswersInv'
<1>1. serving' \in [Thread -> [pc : {"idle", "look", "run"}, key : Key \cup {None}, begun : 0..AnswerTime]]
  BY RequestType DEF Answers!Remember
<1>2. CASE serving[r].key = None
  BY <1>1, <1>2 DEF AnswersInv, Answers!TypeOK, Kept, Answers!Remember
<1>3. CASE serving[r].key # None
  <2> DEFINE k == serving[r].key
  <2>1. k \in Key /\ now \in 0..AnswerTime /\ last \in [Key -> 0..AnswerTime \cup {None}]
    BY <1>3 DEF AnswersInv, Answers!TypeOK
  <2>2. records' = [Answers!Unexpired EXCEPT ![k] = now + Ttl] /\ last' = [last EXCEPT ![k] = now] /\ now' = now
    BY <1>3 DEF Answers!Remember
  <2>3. now + Ttl \in Answers!Until
    BY <2>1 DEF AnswersSound, Answers!Until
  <2>4. records' \in [Key -> Answers!Until] /\ last' \in [Key -> 0..AnswerTime \cup {None}]
    BY <2>1, <2>2, <2>3, AnswerPurge
  <2>5. ASSUME NEW j \in Key, last'[j] # None
        PROVE  records'[j] >= last'[j] + Ttl \/ now' >= last'[j] + Ttl
    <3>1. CASE j = k
      <4>1. records'[j] = now + Ttl /\ last'[j] = now
        BY <2>1, <2>2, <3>1, AnswerPurge
      <4> QED BY <2>1, <4>1 DEF AnswersSound
    <3>2. CASE j # k
      <4>1. records'[j] = Answers!Unexpired[j] /\ last'[j] = last[j]
        BY <2>1, <2>2, <3>2, AnswerPurge
      <4> QED BY <2>2, <2>5, <4>1, AnswerPurge
    <3> QED BY <3>1, <3>2
  <2>6. Kept'
    BY <2>5 DEF Kept
  <2> QED BY <1>1, <2>1, <2>2, <2>4, <2>6 DEF AnswersInv, Answers!TypeOK
<1> QED BY <1>2, <1>3

LEMMA FailStep == ASSUME AnswersSound, AnswersInv, NEW r \in Thread, Answers!Fail(r) PROVE AnswersInv'
  BY RequestType DEF AnswersInv, Answers!TypeOK, Kept, Answers!Fail

LEMMA TickStep == ASSUME AnswersSound, AnswersInv, Answers!Tick PROVE AnswersInv'
<1>1. Answers!TypeOK'
  BY DEF AnswersSound, AnswersInv, Answers!TypeOK, Answers!Tick
<1>2. ASSUME NEW k \in Key, last'[k] # None
      PROVE  records'[k] >= last'[k] + Ttl \/ now' >= last'[k] + Ttl
  <2>1. last[k] \in Nat /\ now \in Nat /\ now' = now + 1 /\ records' = records /\ last' = last
    BY <1>2 DEF AnswersSound, AnswersInv, Answers!TypeOK, Answers!Tick
  <2>2. records[k] >= last[k] + Ttl \/ now >= last[k] + Ttl
    BY <1>2, <2>1 DEF AnswersInv, Kept
  <2> QED BY <2>1, <2>2 DEF AnswersSound
<1> QED BY <1>1, <1>2 DEF AnswersInv, Kept

LEMMA AnswersStep == ASSUME AnswersSound, AnswersInv, [Answers!Next]_(Answers!vars) PROVE AnswersInv'
<1>1. CASE Answers!Next
  BY <1>1, ArriveStep, LookUpStep, RememberStep, FailStep, TickStep DEF Answers!Next
<1>2. CASE UNCHANGED Answers!vars
  BY <1>2 DEF AnswersInv, Answers!TypeOK, Kept, Answers!vars
<1> QED BY <1>1, <1>2

\* Only the search for an answer lets a request run, and it finds the answer that is kept.
LEMMA StepAnswers == ASSUME AnswersSound, AnswersInv, [Answers!Next]_(Answers!vars) PROVE Answers!RetryIsAnswered
<1>1. SUFFICES ASSUME NEW r \in Thread, serving[r].pc = "look", serving'[r].pc = "run", serving[r].key # None,
                      last[serving[r].key] # None
               PROVE  now >= last[serving[r].key] + Ttl
  BY DEF Answers!RetryIsAnswered
<1>2. Answers!LookUp(r)
  <2>1. serving \in [Thread -> [pc : {"idle", "look", "run"}, key : Key \cup {None}, begun : 0..AnswerTime]]
    BY DEF AnswersInv, Answers!TypeOK
  <2>2. ASSUME NEW o \in Thread, NEW k \in Key \cup {None}, Answers!Arrive(o, k) PROVE FALSE
    BY <1>1, <2>1, <2>2 DEF Answers!Arrive
  <2>3. ASSUME NEW o \in Thread, Answers!Remember(o) \/ Answers!Fail(o) PROVE FALSE
    BY <1>1, <2>1, <2>3 DEF Answers!Remember, Answers!Fail, Answers!AtRest
  <2>4. ASSUME NEW o \in Thread, o # r, Answers!LookUp(o) PROVE FALSE
    BY <1>1, <2>1, <2>4 DEF Answers!LookUp
  <2>5. serving' # serving
    BY <1>1
  <2> QED BY <2>2, <2>3, <2>4, <2>5 DEF Answers!Next, Answers!Tick, Answers!vars
<1>3. Answers!Unexpired[serving[r].key] = 0
  BY <1>1, <1>2 DEF AnswersInv, Answers!TypeOK, Answers!LookUp, Answers!AtRest
<1>4. serving[r].key \in Key
  BY <1>1 DEF AnswersInv, Answers!TypeOK
<1>5. last[serving[r].key] \in Nat /\ now \in Nat
  BY <1>1, <1>4 DEF AnswersInv, Answers!TypeOK, AnswersSound
<1>6. ASSUME 0 >= last[serving[r].key] + Ttl PROVE now >= last[serving[r].key] + Ttl
  BY <1>5, <1>6 DEF AnswersSound
<1> QED BY <1>1, <1>3, <1>4, <1>6, AnswerPurge

\* A retry that comes after the answer is not carried out again while the answer is kept
\* (utils/idempotency.py).
THEOREM Retries == ASSUME AnswersSound PROVE Answers!Spec => Answers!RetriesAreAnswered
<1>1. Answers!Init => AnswersInv
  BY AnswersInit
<1>2. AnswersInv /\ [Answers!Next]_(Answers!vars) => AnswersInv'
  BY AnswersStep
<1>3. AnswersInv /\ [Answers!Next]_(Answers!vars) => Answers!RetryIsAnswered
  BY StepAnswers
<1> QED BY <1>1, <1>2, <1>3, PTL DEF Answers!Spec, Answers!RetriesAreAnswered

-----------------------------------------------------------------------------
(* The picture's calibration.                                              *)
Calibration == INSTANCE VisionCalibration

\* What a request may save: a warp and the corners it was computed from, or those of another request.
Of(d, c, s) == [matrix |-> Calibration!Warp(d, s), corners |-> c, size |-> s]

\* None is no value of the variables.
CalibrationSound ==
    \A c \in Corners : None # c /\ \A d \in Corners, s \in Sizes : None \notin {Calibration!Warp(c, s), Of(d, c, s)}

\* The corrector's warp is of the configured size and its inverse its own, and the published corners are the
\* corrector's; the warp is computed from them unless a request saved those of another.
CorrectorOf(d, c, s) ==
    [matrix |-> Calibration!Warp(d, s), inverse |-> Calibration!Warp(d, s), corners |-> c, size |-> s]
CorrectorIsWhole ==
    \/ corrector = Calibration!Uncalibrated /\ published = None
    \/ \E c, d \in Corners : corrector = CorrectorOf(d, c, size) /\ published = c /\ (~mixed => c = d)

\* What a request carries to the file is of the calibration it set.
Requests == [pc : {"idle", "show", "save", "open", "write"}, matrix : Calibration!Matrix \cup {None},
             corners : Corners \cup {None}]
RequestIsWhole(r) ==
    /\ req[r].pc # "idle" => (\E d \in Corners : req[r].matrix = Calibration!Warp(d, size)) /\ corrector.corners \in Corners
    /\ req[r].pc = "save" => shown \in Corners
    /\ req[r].pc \in {"open", "write"} => req[r].corners \in Corners /\ (~mixed => req[r].corners = req[r].matrix.of)

FileIsWhole == file # None => \E c, d \in Corners, s \in Sizes : file = Of(d, c, s) /\ (~mixed => c = d)

CalibrationInv ==
    /\ size \in Sizes /\ mixed \in BOOLEAN
    /\ CorrectorIsWhole /\ FileIsWhole
    /\ req \in [Request -> Requests]
    /\ \A r \in Request : RequestIsWhole(r)
    /\ Calibration!FrameTellsItsBoard

LEMMA CalibrationInit == ASSUME Calibration!Init PROVE CalibrationInv
  BY DEF Calibration!Init, CalibrationInv, CorrectorIsWhole, FileIsWhole, RequestIsWhole, Requests, Calibration!NoRequest,
       Calibration!FrameTellsItsBoard, Calibration!NoFrame

\* What the requests carry is kept by a step that leaves them, the size, the corrector's corners and mixed alone.
LEMMA RequestsKept ==
  ASSUME CalibrationInv, NEW r \in Request, UNCHANGED <<size, mixed, shown>>, req' \in [Request -> Requests],
         \A q \in Request \ {r} : req'[q] = req[q], corrector'.corners \in Corners \/ UNCHANGED corrector, RequestIsWhole(r)'
  PROVE  \A q \in Request : RequestIsWhole(q)'
<1> TAKE q \in Request
<1>1. CASE q = r
  BY <1>1
<1>2. CASE q # r
  BY <1>2 DEF CalibrationInv, RequestIsWhole
<1> QED BY <1>1, <1>2

LEMMA CalibrationStep ==
  ASSUME CalibrationSound, CalibrationInv, [Calibration!Next]_(Calibration!vars)
  PROVE  CalibrationInv'
<1>0. CalibrationInv
  OBVIOUS
<1> USE DEF Calibration!FrameTellsItsBoard
<1>1. ASSUME NEW r \in Request, Calibration!UpdateCorners(r) PROVE CalibrationInv'
  <2>1. PICK c \in Corners :
          /\ corrector' = Calibration!WithCorners(c, size) /\ published' = c
          /\ req' = [req EXCEPT ![r] = [pc |-> "show", matrix |-> Calibration!Warp(c, size), corners |-> None]]
    BY <1>1 DEF Calibration!UpdateCorners
  <2>2. UNCHANGED <<shown, file, size, frame, mixed>>
    BY <1>1 DEF Calibration!UpdateCorners
  <2>3. corrector' = CorrectorOf(c, c, size) /\ corrector'.corners \in Corners
    BY <2>1 DEF Calibration!WithCorners, CorrectorOf
  <2>4. Calibration!Warp(c, size) \in Calibration!Matrix
    BY <1>0 DEF Calibration!Warp, Calibration!Matrix, CalibrationInv
  <2>5. /\ req'[r].pc = "show" /\ req'[r].matrix = Calibration!Warp(c, size)
        /\ req' \in [Request -> Requests] /\ \A q \in Request \ {r} : req'[q] = req[q]
    BY <1>0, <2>1, <2>4 DEF Requests, CalibrationInv
  <2>6. RequestIsWhole(r)'
    BY <2>2, <2>3, <2>5 DEF RequestIsWhole
  <2>7. \A q \in Request : RequestIsWhole(q)'
    BY <2>2, <2>3, <2>5, <2>6, RequestsKept
  <2> QED BY <1>0, <2>1, <2>2, <2>3, <2>5, <2>7 DEF CalibrationInv, CorrectorIsWhole, FileIsWhole
<1>2. ASSUME NEW r \in Request, Calibration!Show(r) PROVE CalibrationInv'
  <2>1. shown' = corrector.corners /\ UNCHANGED <<corrector, published, file, size, frame, mixed>> /\ req[r].pc = "show"
    BY <1>2 DEF Calibration!Show
  <2>2. PICK persist \in BOOLEAN :
          req' = [req EXCEPT ![r] = IF persist THEN [@ EXCEPT !.pc = "save"] ELSE Calibration!NoRequest]
    BY <1>2 DEF Calibration!Show
  <2>3. shown' \in Corners
    BY <1>0, <2>1 DEF CalibrationInv, RequestIsWhole
  <2>4. /\ req' \in [Request -> Requests] /\ \A q \in Request \ {r} : req'[q] = req[q]
        /\ req'[r].pc = "idle" \/ (req'[r].pc = "save" /\ req'[r].matrix = req[r].matrix)
    <3>1. CASE persist
      BY <1>0, <2>2, <3>1 DEF CalibrationInv, Requests
    <3>2. CASE ~persist
      BY <1>0, <2>2, <3>2 DEF CalibrationInv, Requests, Calibration!NoRequest
    <3> QED BY <3>1, <3>2
  <2>5. RequestIsWhole(r)'
    BY <1>0, <2>1, <2>3, <2>4 DEF CalibrationInv, RequestIsWhole
  <2>6. ASSUME NEW q \in Request, q # r PROVE RequestIsWhole(q)'
    BY <1>0, <2>1, <2>3, <2>4, <2>6 DEF CalibrationInv, RequestIsWhole
  <2> QED BY <1>0, <2>1, <2>4, <2>5, <2>6 DEF CalibrationInv, CorrectorIsWhole, FileIsWhole
<1>3. ASSUME NEW r \in Request, Calibration!Save(r) PROVE CalibrationInv'
  <2>1. /\ req[r].pc = "save" /\ req' = [req EXCEPT ![r].pc = "open", ![r].corners = shown]
        /\ mixed' = (mixed \/ shown # req[r].matrix.of)
        /\ UNCHANGED <<corrector, published, shown, file, size, frame>>
    BY <1>3 DEF Calibration!Save
  <2>2. shown \in Corners /\ mixed' \in BOOLEAN /\ (~mixed' => ~mixed /\ shown = req[r].matrix.of)
    BY <1>0, <2>1 DEF CalibrationInv, RequestIsWhole
  <2>3. /\ req' \in [Request -> Requests] /\ \A q \in Request \ {r} : req'[q] = req[q]
        /\ req'[r].pc = "open" /\ req'[r].matrix = req[r].matrix /\ req'[r].corners = shown
    BY <1>0, <2>1, <2>2 DEF CalibrationInv, Requests
  <2>4. RequestIsWhole(r)'
    BY <1>0, <2>1, <2>2, <2>3 DEF CalibrationInv, RequestIsWhole
  <2>5. ASSUME NEW q \in Request, q # r PROVE RequestIsWhole(q)'
    BY <1>0, <2>1, <2>2, <2>3, <2>5 DEF CalibrationInv, RequestIsWhole
  <2>6. CorrectorIsWhole' /\ FileIsWhole'
    BY <1>0, <2>1, <2>2 DEF CalibrationInv, CorrectorIsWhole, FileIsWhole
  <2> QED BY <1>0, <2>1, <2>2, <2>3, <2>4, <2>5, <2>6 DEF CalibrationInv
<1>4. ASSUME NEW r \in Request, Calibration!Truncate(r) PROVE CalibrationInv'
  <2>1. /\ req[r].pc = "open" /\ file' = None /\ req' = [req EXCEPT ![r].pc = "write"]
        /\ UNCHANGED <<corrector, published, shown, size, frame, mixed>>
    BY <1>4 DEF Calibration!Truncate
  <2>2. /\ req' \in [Request -> Requests] /\ \A q \in Request \ {r} : req'[q] = req[q]
        /\ req'[r].pc = "write" /\ req'[r].matrix = req[r].matrix /\ req'[r].corners = req[r].corners
    BY <1>0, <2>1 DEF CalibrationInv, Requests
  <2>3. RequestIsWhole(r)'
    BY <1>0, <2>1, <2>2 DEF CalibrationInv, RequestIsWhole
  <2>4. \A q \in Request : RequestIsWhole(q)'
    BY <2>1, <2>2, <2>3, RequestsKept
  <2> QED BY <1>0, <2>1, <2>2, <2>4 DEF CalibrationInv, CorrectorIsWhole, FileIsWhole
<1>5. ASSUME NEW r \in Request, Calibration!Written(r) PROVE CalibrationInv'
  <2>1. /\ req[r].pc = "write" /\ req' = [req EXCEPT ![r] = Calibration!NoRequest]
        /\ file' \in {None, [matrix |-> req[r].matrix, corners |-> req[r].corners, size |-> size]}
        /\ UNCHANGED <<corrector, published, shown, size, frame, mixed>>
    BY <1>5 DEF Calibration!Written
  <2>2. PICK d \in Corners : req[r].matrix = Calibration!Warp(d, size)
    BY <1>0, <2>1 DEF CalibrationInv, RequestIsWhole
  <2>3. req[r].corners \in Corners /\ (~mixed => req[r].corners = d)
    BY <1>0, <2>1, <2>2 DEF CalibrationInv, RequestIsWhole, Calibration!Warp
  <2>4. FileIsWhole'
    BY <1>0, <2>1, <2>2, <2>3 DEF CalibrationInv, FileIsWhole, Of
  <2>5. /\ req' \in [Request -> Requests] /\ \A q \in Request \ {r} : req'[q] = req[q]
        /\ req'[r].pc = "idle"
    BY <1>0, <2>1 DEF CalibrationInv, Requests, Calibration!NoRequest
  <2>6. \A q \in Request : RequestIsWhole(q)'
    BY <2>1, <2>5, RequestsKept DEF RequestIsWhole
  <2> QED BY <1>0, <2>1, <2>4, <2>5, <2>6 DEF CalibrationInv, CorrectorIsWhole
<1>6. ASSUME NEW r \in Request, Calibration!SaveFails(r) PROVE CalibrationInv'
  <2>1. /\ req' = [req EXCEPT ![r] = Calibration!NoRequest]
        /\ UNCHANGED <<corrector, published, shown, file, size, frame, mixed>>
    BY <1>6 DEF Calibration!SaveFails
  <2>2. /\ req' \in [Request -> Requests] /\ \A q \in Request \ {r} : req'[q] = req[q]
        /\ req'[r].pc = "idle"
    BY <1>0, <2>1 DEF CalibrationInv, Requests, Calibration!NoRequest
  <2>3. \A q \in Request : RequestIsWhole(q)'
    BY <2>1, <2>2, RequestsKept DEF RequestIsWhole
  <2> QED BY <1>0, <2>1, <2>2, <2>3 DEF CalibrationInv, CorrectorIsWhole, FileIsWhole
<1>7. ASSUME UNCHANGED <<corrector, published, shown, file, size, req, mixed>>, Calibration!FrameTellsItsBoard'
      PROVE  CalibrationInv'
  BY <1>0, <1>7 DEF CalibrationInv, CorrectorIsWhole, FileIsWhole, RequestIsWhole
<1>8. ASSUME Calibration!WarpFrame PROVE CalibrationInv'
  <2>1. corrector.matrix = None <=> published = None
    BY <1>0 DEF CalibrationSound, CorrectorOf, CalibrationInv, CorrectorIsWhole, Calibration!Uncalibrated
  <2>2. ~mixed /\ corrector.matrix # None => published = corrector.matrix.of
    BY <1>0 DEF CorrectorOf, Calibration!Uncalibrated, Calibration!Warp, CalibrationInv, CorrectorIsWhole
  <2>3. Calibration!FrameTellsItsBoard'
    BY <1>8, <2>1, <2>2 DEF Calibration!WarpFrame
  <2> QED BY <1>7, <1>8, <2>3 DEF Calibration!WarpFrame
<1>9. ASSUME Calibration!MapBack PROVE CalibrationInv'
  BY <1>0, <1>7, <1>9 DEF Calibration!MapBack, CalibrationInv
<1>10. ASSUME Calibration!Report PROVE CalibrationInv'
  BY <1>7, <1>10 DEF Calibration!Report, Calibration!NoFrame
<1>11. ASSUME Calibration!Restart PROVE CalibrationInv'
  <2>1. /\ size' \in Sizes /\ req' = [r \in Request |-> Calibration!NoRequest] /\ frame' = Calibration!NoFrame
        /\ UNCHANGED <<file, mixed>>
    BY <1>11 DEF Calibration!Restart
  <2>2. CorrectorIsWhole'
    <3>1. CASE file = None
      BY <1>11, <3>1 DEF Calibration!Restart, Calibration!StartsWith, Calibration!Uncalibrated, CorrectorIsWhole
    <3>2. CASE file # None
      <4>1. PICK c, d \in Corners, s \in Sizes : file = Of(d, c, s) /\ (~mixed => c = d)
        BY <1>0, <3>2 DEF CalibrationInv, FileIsWhole
      <4>2. Calibration!Loaded(file, size') \in {CorrectorOf(c, c, size'), CorrectorOf(d, c, size')}
        BY <4>1 DEF Calibration!Loaded, Calibration!WithMatrix, Calibration!WithCorners, Of, CorrectorOf
      <4>3. corrector' \in {CorrectorOf(c, c, size'), CorrectorOf(d, c, size')} /\ published' = c
        BY <1>11, <3>2, <4>2 DEF Calibration!Restart, Calibration!StartsWith, CorrectorOf
      <4> QED BY <2>1, <4>1, <4>3 DEF CorrectorIsWhole
    <3> QED BY <3>1, <3>2
  <2>3. \A r \in Request : req'[r].pc = "idle"
    BY <2>1 DEF Calibration!NoRequest
  <2> QED BY <1>0, <2>1, <2>2, <2>3 DEF CalibrationInv, FileIsWhole, RequestIsWhole, Requests, Calibration!NoRequest,
           Calibration!NoFrame
<1>12. ASSUME UNCHANGED Calibration!vars PROVE CalibrationInv'
  BY <1>0, <1>7, <1>12 DEF Calibration!vars, CalibrationInv
<1> QED BY <1>1, <1>2, <1>3, <1>4, <1>5, <1>6, <1>8, <1>9, <1>10, <1>11, <1>12 DEF Calibration!Next

LEMMA CalibrationHolds == ASSUME CalibrationSound, CalibrationInv
                          PROVE  Calibration!WarpFitsBoard /\ Calibration!FrameTellsItsBoard
  BY DEF CalibrationSound, CalibrationInv, CorrectorIsWhole, Calibration!WarpFitsBoard, CorrectorOf, Calibration!Warp,
       Calibration!Uncalibrated

\* Through updates side by side, failed and torn saves, restarts and changes of size the corrector's
\* warp is of the configured size, its inverse is its own and the published corners are the
\* corrector's; the warp is computed from them, and a frame reports the corners it was warped with,
\* unless a request saved its matrix with the corners of another (VisionSystem.update_corners and
\* _load_calibration, InferenceWorker.process_frame).
THEOREM WarpFits == ASSUME CalibrationSound
                    PROVE  Calibration!Spec => [](Calibration!WarpFitsBoard /\ Calibration!FrameTellsItsBoard)
<1>1. CalibrationInv /\ [Calibration!Next]_(Calibration!vars) => CalibrationInv'
  BY CalibrationStep
<1> QED BY CalibrationInit, CalibrationHolds, <1>1, PTL DEF Calibration!Spec

-----------------------------------------------------------------------------
(* The workers of the program.                                             *)
Workers == INSTANCE WorkerLifecycle

\* The workers are registered once each, the status worker is one of them.
WorkersSound ==
    /\ Order \in Seq(Workers!Worker)
    /\ \A i, j \in 1..Len(Order) : Order[i] = Order[j] => i = j
    /\ StatusWorker \in Workers!Worker
    /\ None \notin {TRUE, FALSE, "called", "queued", "awake", "asleep", "backoff", "done",
                  "services", "tasks", "loop", "end", "stop"}

WorkRecord == [status : {"IDLE", "RUNNING", "STOPPING", "STOPPED", "FAILED"}, running : BOOLEAN,
               task : Workers!Alive \cup {None, "done"}, held : BOOLEAN, cancel : BOOLEAN]

Index == 1..Len(Order)
Done == {Workers!At("workflow"), Workers!At("persistence"), Workers!At("ready"), Workers!At("up"), Workers!At("failed")}

\* The boot is past the start of the worker at place i.
Past(i) == boot \in Done \/ \E j \in Index : boot \in {<<"start", j>>, <<"wait", j>>} /\ i < j

\* The hook has stopped the worker at place i.
StopPast(i) ==
    \/ hook \in {Workers!At("services"), Workers!At("tasks"), Workers!At("loop"), Workers!At("end")}
    \/ \E j \in Index : hook = <<"stop", j>> /\ i < j

Reported(w) == results[w] = TRUE

\* What holds of the worker at place i: one that was reported has been begun, does not run on
\* when it is cancelled or stopped, and is alive while it runs.
Fine(i) ==
    LET w == Order[i] IN
    /\ boot = <<"wait", i>> => work[w].task # None
    /\ w # StatusWorker /\ work[w].cancel => hook # Workers!At(None)
    /\ Reported(w) =>
         /\ Past(i)
         /\ work[w].task \notin {None, "called"}
         /\ StopPast(i) \/ (w # StatusWorker /\ work[w].cancel) => ~work[w].running
         /\ work[w].running => work[w].task \in Workers!Alive

WorkersInv ==
    /\ work \in [Workers!Worker -> WorkRecord] /\ results \in [Workers!Worker -> BOOLEAN \cup {None}]
    /\ hook # Workers!At(None) => boot \in {Workers!At("up"), Workers!At("failed")}
    /\ \A i \in Index : Fine(i)

LEMMA AtPlace == ASSUME WorkersSound, NEW i \in Index
                 PROVE  Order[i] \in Workers!Worker /\ i \in Nat /\ Len(Order) \in Nat /\ i <= Len(Order)
  BY DEF WorkersSound, Index

LEMMA PlaceOf == ASSUME WorkersSound, NEW w \in Workers!Worker PROVE \E i \in Index : w = Order[i]
  BY DEF Workers!Worker, Workers!ToSet, Index, WorkersSound

LEMMA WorkersInit == ASSUME WorkersSound, Workers!Init PROVE WorkersInv
<1>1. \A w \in Workers!Worker : ~Reported(w)
  BY Zenon DEF Workers!Init, Reported, WorkersSound
<1>2. results \in [Workers!Worker -> BOOLEAN \cup {None}]
  BY DEF Workers!Init
<1>3. work \in [Workers!Worker -> WorkRecord] /\ \A w \in Workers!Worker : ~work[w].running /\ ~work[w].cancel
  BY DEF Workers!Init, WorkRecord
<1> QED BY <1>1, <1>2, <1>3, AtPlace DEF Workers!Init, WorkersInv, Fine, Workers!At

\* What a step does to others, or to the boot and the hook, leaves a worker as it was.
LEMMA Undisturbed ==
  ASSUME NEW i \in Index, Fine(i),
         work'[Order[i]] = work[Order[i]], results'[Order[i]] = results[Order[i]],
         boot' # <<"wait", i>> \/ boot' = boot, Past(i) => Past(i)',
         hook # Workers!At(None) => hook' # Workers!At(None), StopPast(i)' => StopPast(i)
  PROVE  Fine(i)'
<1>1. Reported(Order[i])' <=> Reported(Order[i])
  BY Zenon DEF Reported
<1> QED BY <1>1 DEF Fine

LEMMA BootStep ==
  ASSUME WorkersSound, WorkersInv,
         \/ Workers!StartRuntime \/ Workers!ConnectRobot \/ Workers!RegisterHook \/ Workers!StartVision
         \/ Workers!StartWorkflow \/ Workers!StartPersistence \/ Workers!BootEnds
  PROVE  WorkersInv'
<1>1. work' = work /\ results' = results /\ hook' = hook
  BY DEF Workers!StartRuntime, Workers!ConnectRobot, Workers!RegisterHook, Workers!StartVision,
       Workers!StartWorkflow, Workers!StartPersistence, Workers!BootEnds
<1>2. boot \notin {Workers!At("up"), Workers!At("failed")} /\ \A i \in Index : boot' # <<"wait", i>>
  BY DEF Workers!StartRuntime, Workers!ConnectRobot, Workers!RegisterHook, Workers!StartVision,
       Workers!StartWorkflow, Workers!StartPersistence, Workers!BootEnds, Workers!At
<1>3. \A i \in Index : Past(i) => Past(i)'
  BY DEF Workers!StartRuntime, Workers!ConnectRobot, Workers!RegisterHook, Workers!StartVision,
       Workers!StartWorkflow, Workers!StartPersistence, Workers!BootEnds, Workers!At, Past, Done
<1>4. \A i \in Index : StopPast(i)' <=> StopPast(i)
  BY <1>1 DEF StopPast
<1>5. \A i \in Index : Fine(i)'
  BY <1>1, <1>2, <1>3, <1>4, Undisturbed DEF WorkersInv
<1> QED BY <1>1, <1>2, <1>5 DEF WorkersInv

\* A start concerns the worker whose turn it is.
LEMMA StartStep ==
  ASSUME WorkersSound, WorkersInv, NEW i \in Index, Workers!StartWorker(i) \/ Workers!WorkerStarted(i)
  PROVE  WorkersInv'
<1> DEFINE w == Order[i]
<1>1. w \in Workers!Worker /\ i \in Nat /\ Len(Order) \in Nat /\ i <= Len(Order) /\ work[w] \in WorkRecord
  BY AtPlace DEF WorkersInv
<1>2. boot \in {<<"start", i>>, <<"wait", i>>} /\ hook' = hook
  BY DEF Workers!StartWorker, Workers!WorkerStarted
<1>3. boot \notin {Workers!At("up"), Workers!At("failed")} /\ boot \notin Done
  BY <1>2 DEF Workers!At, Done
<1>4. hook = Workers!At(None)
  BY <1>3 DEF WorkersInv
<1>5. \A j \in Index : ~StopPast(j) /\ ~StopPast(j)'
  BY <1>2, <1>4 DEF StopPast, Workers!At, WorkersSound
<1>6. \A j \in Index : Past(j) => j < i
  BY <1>2, <1>3, <1>1 DEF Past, Index
<1>7. ~Reported(w) /\ (w # StatusWorker => ~work[w].cancel)
  <2>1. ~Past(i)
    BY <1>1, <1>6
  <2> QED BY <1>4, <2>1 DEF WorkersInv, Fine
<1>8. boot' \in {<<"wait", i>>, Workers!AfterStart(i)}
  BY DEF Workers!StartWorker, Workers!WorkerStarted
<1>9. \A j \in Index : Past(j) => Past(j)'
  BY <1>1, <1>6, <1>8 DEF Workers!AfterStart, Past, Index, Done
<1>10. boot' = Workers!AfterStart(i) => Past(i)' /\ \A j \in Index : boot' # <<"wait", j>>
  BY <1>1 DEF Workers!AfterStart, Past, Index, Done, Workers!At
<1>11. ASSUME NEW j \in Index, j # i,
              work'[Order[j]] = work[Order[j]], results'[Order[j]] = results[Order[j]]
       PROVE  Fine(j)'
  <2>1. boot' # <<"wait", j>>
    BY <1>8, <1>10, <1>11
  <2> QED BY <1>2, <1>5, <1>9, <1>11, <2>1, Undisturbed DEF WorkersInv
<1>12. \A j \in Index \ {i} : Order[j] \in Workers!Worker \ {w}
  BY AtPlace DEF WorkersSound, Index
<1>13. \A x \in Workers!Worker \ {w} : work'[x] = work[x] /\ results'[x] = results[x]
  BY <1>1 DEF WorkersInv, Workers!StartWorker, Workers!WorkerStarted
<1>14. \A j \in Index \ {i} : Fine(j)'
  BY <1>11, <1>12, <1>13
<1>15. /\ work' \in [Workers!Worker -> WorkRecord] /\ results' \in [Workers!Worker -> BOOLEAN \cup {None}]
       /\ Fine(i)'
  <2>1. CASE Workers!StartWorker(i) /\ w = StatusWorker
    <3>1. PICK r : /\ r = [work[w] EXCEPT !.status = "RUNNING", !.running = TRUE, !.task = "awake", !.held = TRUE]
                   /\ work' = [work EXCEPT ![w] = r]
                   /\ results' = [results EXCEPT ![w] = TRUE] /\ boot' = Workers!AfterStart(i)
      BY <2>1 DEF Workers!StartWorker
    <3>2. r \in WorkRecord /\ r.task = "awake"
      BY <1>1, <3>1 DEF WorkRecord, Workers!Alive
    <3>3. work' \in [Workers!Worker -> WorkRecord] /\ work'[w] = r
      BY <1>1, <3>1, <3>2 DEF WorkersInv
    <3>4. results' \in [Workers!Worker -> BOOLEAN \cup {None}]
      BY <3>1 DEF WorkersInv
    <3>5. "awake" \in Workers!Alive /\ "awake" # None
      BY DEF Workers!Alive, WorkersSound
    <3> QED BY <1>5, <1>10, <2>1, <3>1, <3>2, <3>3, <3>4, <3>5 DEF Fine
  <2>2. CASE Workers!StartWorker(i) /\ w # StatusWorker
    <3>1. /\ work' = [work EXCEPT ![w] = [work[w] EXCEPT !.task = "called"]]
          /\ results' = results /\ boot' = <<"wait", i>>
      BY <2>2 DEF Workers!StartWorker
    <3>2. /\ work' \in [Workers!Worker -> WorkRecord]
          /\ work'[w].task = "called" /\ work'[w].cancel = work[w].cancel
      BY <1>1, <3>1 DEF WorkersInv, WorkRecord, Workers!Alive
    <3>3. ~Reported(w)'
      BY <1>7, <3>1 DEF Reported
    <3> QED BY <1>7, <3>1, <3>2, <3>3 DEF Fine, WorkersInv, WorkersSound
  <2>3. CASE Workers!WorkerStarted(i)
    <3>1. /\ work' = work /\ boot' = Workers!AfterStart(i) /\ work[w].task # None
          /\ \/ results' = [results EXCEPT ![w] = FALSE]
             \/ /\ results' = [results EXCEPT ![w] = Workers!Started(w)]
                /\ work[w].task # "called"
      BY <2>3 DEF Workers!WorkerStarted, WorkersInv, Fine
    <3>2. results' \in [Workers!Worker -> BOOLEAN \cup {None}]
      BY <1>1, <3>1 DEF WorkersInv, Workers!Started
    <3>3. Reported(w)' => work[w].task # "called" /\ Workers!Started(w)
      BY <1>1, <3>1 DEF WorkersInv, Reported
    <3>4. Reported(w)' => work[w].task \in Workers!Alive
      BY <1>1, <3>1, <3>3 DEF WorkRecord, Workers!Started
    <3> QED BY <1>5, <1>7, <1>10, <3>1, <3>2, <3>3, <3>4 DEF Fine, WorkersInv
  <2> QED BY <2>1, <2>2, <2>3
<1> QED BY <1>3, <1>4, <1>2, <1>14, <1>15 DEF WorkersInv

\* A worker's own step changes its record alone.
LEMMA OwnStep ==
  ASSUME WorkersSound, WorkersInv, NEW w \in Workers!Worker, NEW r \in WorkRecord,
         work' = [work EXCEPT ![w] = r], UNCHANGED <<boot, results, hook>>, r.task # None,
         w # StatusWorker => r.cancel = work[w].cancel,
         Reported(w) => r.task # "called" /\ (r.running => work[w].running /\ r.task \in Workers!Alive)
  PROVE  WorkersInv'
<1>1. work' \in [Workers!Worker -> WorkRecord] /\ work'[w] = r /\ \A x \in Workers!Worker \ {w} : work'[x] = work[x]
  BY DEF WorkersInv
<1>2. \A i \in Index : (Past(i)' <=> Past(i)) /\ (StopPast(i)' <=> StopPast(i))
  BY DEF Past, StopPast
<1>3. ASSUME NEW i \in Index, Order[i] # w PROVE Fine(i)'
  BY <1>1, <1>2, <1>3, AtPlace, Undisturbed DEF WorkersInv
<1>4. ASSUME NEW i \in Index, Order[i] = w PROVE Fine(i)'
  <2>1. Reported(w)' <=> Reported(w)
    BY DEF Reported
  <2> QED BY <1>1, <1>2, <1>4, <2>1 DEF WorkersInv, Fine
<1> QED BY <1>1, <1>3, <1>4 DEF WorkersInv

LEMMA TaskStep ==
  ASSUME WorkersSound, WorkersInv, NEW w \in Workers!LoopWorker,
         Workers!StartRuns(w) \/ Workers!Begin(w) \/ Workers!Round(w) \/ Workers!Wakes(w)
  PROVE  WorkersInv'
<1>1. w \in Workers!Worker /\ w # StatusWorker /\ work[w] \in WorkRecord /\ UNCHANGED <<boot, results, hook>>
  BY DEF WorkersInv, Workers!LoopWorker, Workers!StartRuns, Workers!Begin, Workers!Round, Workers!Wakes, Workers!Rest
<1>2. Reported(w) => /\ work[w].task # "called" /\ (work[w].cancel => ~work[w].running)
                     /\ (work[w].running => work[w].task \in Workers!Alive)
  BY <1>1, PlaceOf DEF WorkersInv, Fine
<1>3. {"called", "queued", "awake", "asleep", "backoff", "done"} \subseteq Workers!Alive \cup {"done"}
      /\ None \notin Workers!Alive \cup {"done"}
  BY DEF Workers!Alive, WorkersSound
<1>4. CASE Workers!StartRuns(w)
  <2>1. PICK r : /\ r = [work[w] EXCEPT !.status = "RUNNING", !.running = TRUE, !.task = "queued", !.held = TRUE]
                 /\ work' = [work EXCEPT ![w] = r] /\ work[w].task = "called"
    BY <1>4 DEF Workers!StartRuns
  <2>2. r \in WorkRecord /\ r.task = "queued" /\ r.cancel = work[w].cancel
    BY <1>1, <2>1 DEF WorkRecord, Workers!Alive
  <2> QED BY <1>1, <1>2, <1>3, <2>1, <2>2, OwnStep
<1>5. ASSUME NEW r, work' = [work EXCEPT ![w] = r],
             \/ r = [work[w] EXCEPT !.task = "done"] /\ work[w].cancel
             \/ r = Workers!Returned(work[w]) \/ r = Workers!Raised(work[w])
             \/ r = Workers!Cancelled(work[w]) /\ work[w].cancel
      PROVE  WorkersInv'
  <2>1. r \in WorkRecord /\ r.task = "done" /\ r.cancel = work[w].cancel
        /\ (r.running => work[w].running /\ work[w].cancel)
    BY <1>1, <1>5 DEF WorkRecord, Workers!Returned, Workers!Raised, Workers!Cancelled
  <2> QED BY <1>1, <1>2, <1>3, <1>5, <2>1, OwnStep
<1>6. ASSUME NEW t \in {"awake", "asleep", "backoff"}, work' = [work EXCEPT ![w] = [work[w] EXCEPT !.task = t]]
      PROVE  WorkersInv'
  <2>1. PICK r : r = [work[w] EXCEPT !.task = t]
    OBVIOUS
  <2>2. r \in WorkRecord /\ r.task = t /\ r.cancel = work[w].cancel /\ r.running = work[w].running
    BY <1>1, <2>1 DEF WorkRecord, Workers!Alive
  <2> QED BY <1>1, <1>3, <1>6, <2>1, <2>2, OwnStep DEF Workers!Alive
<1>7. CASE Workers!Begin(w)
  BY <1>5, <1>6, <1>7 DEF Workers!Begin
<1>8. CASE Workers!Round(w)
  BY <1>6, <1>8 DEF Workers!Round
<1>9. CASE Workers!Wakes(w)
  BY <1>5, <1>6, <1>9 DEF Workers!Wakes
<1> QED BY <1>4, <1>7, <1>8, <1>9

LEMMA StatusStep == ASSUME WorkersSound, WorkersInv, Workers!StatusRound \/ Workers!StatusWakes PROVE WorkersInv'
<1> DEFINE w == StatusWorker
<1>1. w \in Workers!Worker /\ work[w] \in WorkRecord /\ UNCHANGED <<boot, results, hook>>
  BY DEF WorkersInv, WorkersSound, Workers!StatusRound, Workers!StatusWakes, Workers!Rest
<1>2. PICK t \in {"awake", "asleep", "done"} :
        work' = [work EXCEPT ![w] = [work[w] EXCEPT !.task = t]] /\ (t = "done" => ~work[w].running)
  BY DEF Workers!StatusRound, Workers!StatusWakes
<1>3. PICK r : r = [work[w] EXCEPT !.task = t]
  OBVIOUS
<1>4. r \in WorkRecord /\ r.task = t /\ r.running = work[w].running
  BY <1>1, <1>3 DEF WorkRecord, Workers!Alive
<1>5. t # None /\ t # "called" /\ (t # "done" => t \in Workers!Alive)
  BY DEF WorkersSound, Workers!Alive
<1> QED BY <1>1, <1>2, <1>3, <1>4, <1>5, OwnStep

\* The hook stops one worker after the other.
LEMMA HookStep == ASSUME WorkersSound, WorkersInv, NEW i \in Index, Workers!HookStops(i) PROVE WorkersInv'
<1> DEFINE w == Order[i]
<1>1. w \in Workers!Worker /\ i \in Nat /\ Len(Order) \in Nat /\ i <= Len(Order) /\ work[w] \in WorkRecord
  BY AtPlace DEF WorkersInv
<1>2. hook = <<"stop", i>> /\ hook' = (IF i = Len(Order) THEN Workers!At("services") ELSE <<"stop", i + 1>>)
      /\ UNCHANGED <<boot, results>>
  BY DEF Workers!HookStops
<1>3. hook # Workers!At(None) /\ hook' # Workers!At(None)
  BY <1>2 DEF Workers!At, WorkersSound
<1>4. boot \in {Workers!At("up"), Workers!At("failed")} /\ \A j \in Index : boot # <<"wait", j>>
  BY <1>3 DEF WorkersInv, Workers!At
<1>5. \A j \in Index : (Past(j)' <=> Past(j)) /\ (StopPast(j)' => j = i \/ StopPast(j))
  BY <1>1, <1>2 DEF Past, StopPast, Index, Workers!At
<1>6. PICK r \in WorkRecord : ~r.running /\ r.task = work[w].task /\ work' = [work EXCEPT ![w] = r]
  <2>1. CASE w = StatusWorker
    <3>1. work' = [work EXCEPT ![w] = [work[w] EXCEPT !.status = "STOPPED", !.running = FALSE]]
      BY <2>1 DEF Workers!HookStops
    <3>2. LET r == [work[w] EXCEPT !.status = "STOPPED", !.running = FALSE]
          IN  r \in WorkRecord /\ ~r.running /\ r.task = work[w].task
      BY <1>1 DEF WorkRecord
    <3> QED BY <3>1, <3>2
  <2>2. CASE w # StatusWorker
    <3> DEFINE r == [work[w] EXCEPT !.status = "STOPPED", !.running = FALSE,
                                    !.cancel = work[w].cancel \/ work[w].held, !.held = FALSE]
    <3>1. work' = [work EXCEPT ![w] = r]
      BY <2>2 DEF Workers!HookStops
    <3>2. r \in WorkRecord /\ ~r.running /\ r.task = work[w].task
      BY <1>1 DEF WorkRecord
    <3> QED BY <3>1, <3>2
  <2> QED BY <2>1, <2>2
<1>7. work' \in [Workers!Worker -> WorkRecord] /\ work'[w] = r /\ \A x \in Workers!Worker \ {w} : work'[x] = work[x]
  BY <1>1, <1>6 DEF WorkersInv
<1>8. ASSUME NEW j \in Index, j # i PROVE Fine(j)'
  <2>1. Order[j] \in Workers!Worker \ {w}
    BY <1>8, AtPlace DEF WorkersSound, Index
  <2> QED BY <1>2, <1>3, <1>4, <1>5, <1>7, <1>8, <2>1, Undisturbed DEF WorkersInv
<1>9. Fine(i)'
  <2>1. Reported(w)' <=> Reported(w)
    BY <1>2 DEF Reported
  <2> QED BY <1>2, <1>3, <1>4, <1>5, <1>6, <1>7, <2>1 DEF Fine, WorkersInv
<1> QED BY <1>2, <1>4, <1>7, <1>8, <1>9 DEF WorkersInv

LEMMA CancelStep == ASSUME WorkersSound, WorkersInv, Workers!HookCancels PROVE WorkersInv'
<1>1. hook = Workers!At("tasks") /\ hook' = Workers!At("loop") /\ UNCHANGED <<boot, results>>
  BY DEF Workers!HookCancels
<1>2. hook # Workers!At(None) /\ hook' # Workers!At(None)
  BY <1>1 DEF Workers!At, WorkersSound
<1>3. boot \in {Workers!At("up"), Workers!At("failed")} /\ \A j \in Index : boot # <<"wait", j>>
  BY <1>2 DEF WorkersInv, Workers!At
<1>4. ASSUME NEW w \in Workers!Worker
      PROVE  /\ work'[w] \in WorkRecord /\ work'[w].running = work[w].running
             /\ work[w].task # "called" => work'[w].task = work[w].task
             /\ w = StatusWorker => work'[w].cancel = work[w].cancel
  <2>1. work[w] \in WorkRecord
    BY DEF WorkersInv
  <2>2. work'[w] = IF w # StatusWorker /\ work[w].task \in Workers!Alive
                   THEN [work[w] EXCEPT !.cancel = TRUE,
                                        !.task = IF work[w].task = "called" THEN None ELSE work[w].task] ELSE work[w]
    BY DEF Workers!HookCancels
  <2> QED BY <2>1, <2>2 DEF WorkRecord
<1>5. work' \in [Workers!Worker -> WorkRecord]
  <2>1. DOMAIN work' = Workers!Worker /\ work' = [w \in Workers!Worker |-> work'[w]]
    BY Zenon DEF Workers!HookCancels
  <2> QED BY <1>4, <2>1
<1>6. ASSUME NEW i \in Index PROVE Fine(i)'
  <2>1. Order[i] \in Workers!Worker
    BY AtPlace
  <2>2. Reported(Order[i])' <=> Reported(Order[i])
    BY <1>1 DEF Reported
  <2>3. StopPast(i) /\ (Past(i)' <=> Past(i))
    BY <1>1 DEF StopPast, Past
  <2> QED BY <1>2, <1>3, <1>1, <1>4, <2>1, <2>2, <2>3 DEF WorkersInv, Fine
<1> QED BY <1>1, <1>3, <1>5, <1>6 DEF WorkersInv

LEMMA HookRest ==
  ASSUME WorkersSound, WorkersInv,
         Workers!HookBegins \/ Workers!HookStopsServices \/ Workers!HookStopsLoop
  PROVE  WorkersInv'
<1>1. UNCHANGED <<boot, results, work>> /\ boot \in {Workers!At("up"), Workers!At("failed")} /\ hook' # Workers!At(None)
  <2>1. CASE Workers!HookBegins
    BY <2>1 DEF Workers!HookBegins, Workers!At, WorkersSound
  <2>2. CASE Workers!HookStopsServices \/ Workers!HookStopsLoop
    <3>1. \E a, b \in {"services", "tasks", "loop", "end"} : hook = Workers!At(a) /\ hook' = Workers!At(b)
      BY <2>2 DEF Workers!HookStopsServices, Workers!HookStopsLoop
    <3>2. \A a \in {"services", "tasks", "loop", "end"} : Workers!At(a) # Workers!At(None)
      BY DEF Workers!At, WorkersSound
    <3>3. hook # Workers!At(None) /\ hook' # Workers!At(None)
      BY <3>1, <3>2
    <3> QED BY <2>2, <3>3 DEF Workers!HookStopsServices, Workers!HookStopsLoop, WorkersInv
  <2> QED BY <2>1, <2>2
<1>2. \A i \in Index : (Past(i)' <=> Past(i)) /\ (StopPast(i)' => StopPast(i))
  BY <1>1 DEF Workers!HookBegins, Workers!HookStopsServices, Workers!HookStopsLoop, StopPast, Past, Workers!At, Index
<1>3. \A i \in Index : Fine(i)'
  BY <1>1, <1>2, Undisturbed DEF WorkersInv
<1> QED BY <1>1, <1>3 DEF WorkersInv

LEMMA WorkersStep ==
  ASSUME WorkersSound, WorkersInv, [Workers!Next]_(Workers!vars)
  PROVE  WorkersInv'
<1>1. CASE UNCHANGED <<boot, results, work, hook>>
  <2>1. \A i \in Index : (Past(i)' <=> Past(i)) /\ (StopPast(i)' <=> StopPast(i))
    BY <1>1 DEF StopPast, Past
  <2> QED BY <1>1, <2>1, Undisturbed DEF WorkersInv
<1>2. CASE Workers!Verdict \/ Workers!LinkChanges \/ UNCHANGED Workers!vars
  BY <1>1, <1>2 DEF Workers!Verdict, Workers!LinkChanges, Workers!vars, Workers!Rest
<1> QED BY <1>2, BootStep, StartStep, TaskStep, StatusStep, HookStep, CancelStep, HookRest DEF Workers!Next, Index

LEMMA WorkersHolds == ASSUME WorkersSound, WorkersInv PROVE Workers!RunningMeansAlive
<1> SUFFICES ASSUME NEW w \in Workers!Worker, results[w] = TRUE, Workers!SnapshotRunning(w)
             PROVE  work[w].task \in Workers!Alive
  BY Zenon DEF Workers!RunningMeansAlive
<1>1. Reported(w)
  BY Zenon DEF Reported
<1> QED BY <1>1, PlaceOf DEF WorkersInv, Fine, Workers!SnapshotRunning

\* A worker that was reported started and whose snapshot says it is running has a task or a thread
\* that is alive, through every boot, failure, late start and teardown (worker_manager.py).
THEOREM WorkersAlive == ASSUME WorkersSound PROVE Workers!Spec => []Workers!RunningMeansAlive
<1>1. WorkersInv /\ [Workers!Next]_(Workers!vars) => WorkersInv'
  BY WorkersStep
<1> QED BY WorkersInit, WorkersHolds, <1>1, PTL DEF Workers!Spec

-----------------------------------------------------------------------------
(* The record of the events.                                               *)
Record == INSTANCE EventRecord

-----------------------------------------------------------------------------
(* The events of some kinds among those of a sequence.                     *)

\* What is proved by induction is proved by its least counterexample.
LEMMA LeastNatural ==
    ASSUME NEW S \in SUBSET Nat, S # {}
    PROVE  \E m \in S : \A k \in S : m <= k
<1>1. IsWellFoundedOn(OpToRel(<, Nat), Nat)
  BY NatLessThanWellFounded
<1>2. PICK m \in S : \A y \in S : ~(<<y, m>> \in OpToRel(<, Nat))
  BY <1>1, WFMin
<1>3. m \in Nat /\ \A y \in S : y \in Nat /\ ~(y < m)
  BY <1>2 DEF OpToRel
<1>4. \A y \in S : m <= y
  BY <1>3
<1> QED BY <1>2, <1>4

\* Induction up to n.
LEMMA UpTo ==
    ASSUME NEW n \in Nat, NEW T, 0 \in T, \A k \in 1..n : k - 1 \in T => k \in T
    PROVE  \A k \in 0..n : k \in T
<1> DEFINE Bad == {k \in 0..n : k \notin T}
<1>1. SUFFICES ASSUME Bad # {} PROVE FALSE
  OBVIOUS
<1>2. PICK m \in Bad : \A k \in Bad : m <= k
  <2>1. Bad \in SUBSET Nat
    OBVIOUS
  <2> HIDE DEF Bad
  <2> QED BY <1>1, <2>1, LeastNatural
<1>3. m \in 1..n /\ m \notin T
  BY <1>2
<1>4. m - 1 \in 0..n /\ m - 1 \notin Bad
  BY <1>2, <1>3
<1> QED BY <1>3, <1>4

\* The recursion that defines Kept has a solution.
LEMMA KeptIs ==
    ASSUME NEW S, NEW kinds, NEW seq \in Seq(S)
    PROVE  Record!Kept(kinds, seq) =
             [k \in 0..Len(seq) |->
                IF k = 0 THEN <<>>
                ELSE IF seq[k].kind \in kinds THEN Append(Record!Kept(kinds, seq)[k - 1], seq[k])
                     ELSE Record!Kept(kinds, seq)[k - 1]]
<1> DEFINE Taken(f, k) == IF k = 0 THEN <<>>
                          ELSE IF seq[k].kind \in kinds THEN Append(f[k - 1], seq[k]) ELSE f[k - 1]
           Solves(f, n) == f = [k \in 0..n |-> Taken(f, k)]
           Solved == {n \in 0..Len(seq) : \E f : Solves(f, n)}
<1>0. Len(seq) \in Nat
  OBVIOUS
<1>1. \A k \in 0..Len(seq) : k \in Solved
  <2>1. 0 \in Solved
    <3>1. Solves([k \in 0..0 |-> <<>>], 0)
      OBVIOUS
    <3> HIDE DEF Solves
    <3> QED BY <3>1, <1>0
  <2>2. ASSUME NEW m \in 1..Len(seq), m - 1 \in Solved
        PROVE  m \in Solved
    <3>1. PICK g : Solves(g, m - 1)
      BY <2>2
    <3> DEFINE f == [k \in 0..m |-> IF k < m THEN g[k] ELSE Taken(g, m)]
    <3>2. \A k \in 0..(m - 1) : g[k] = Taken(g, k)
      BY <3>1
    <3>3. \A k \in 0..m : f[k] = Taken(f, k)
      <4>1. TAKE k \in 0..m
      <4>2. CASE k = m
        BY <4>2
      <4>3. CASE k < m
        <5>1. f[k] = g[k] /\ g[k] = Taken(g, k)
          BY <4>3, <3>2
        <5>2. k # 0 => f[k - 1] = g[k - 1]
          BY <4>3
        <5> HIDE DEF f
        <5> QED BY <5>1, <5>2
      <4> QED BY <4>2, <4>3
    <3>4. Solves(f, m)
      BY <3>3
    <3> HIDE DEF Solves, f
    <3> QED BY <3>4, <1>0
  <2> HIDE DEF Solved
  <2> QED BY <1>0, <2>1, <2>2, UpTo
<1>2. \E f : Solves(f, Len(seq))
  BY <1>1
<1>3. Record!Kept(kinds, seq) = CHOOSE f : Solves(f, Len(seq))
  BY DEF Record!Kept
<1>4. Solves(Record!Kept(kinds, seq), Len(seq))
  <2> HIDE DEF Solves
  <2> QED BY <1>2, <1>3
<1> QED BY <1>4

KeptNext(kinds, seq, k) ==
    IF seq[k].kind \in kinds THEN Append(Record!Kept(kinds, seq)[k - 1], seq[k]) ELSE Record!Kept(kinds, seq)[k - 1]

LEMMA KeptStep ==
    ASSUME NEW S, NEW kinds, NEW seq \in Seq(S)
    PROVE  /\ Record!Kept(kinds, seq)[0] = <<>>
           /\ \A k \in 1..Len(seq) : Record!Kept(kinds, seq)[k] = KeptNext(kinds, seq, k)
<1> DEFINE K == Record!Kept(kinds, seq)
<1>1. K = [k \in 0..Len(seq) |-> IF k = 0 THEN <<>> ELSE KeptNext(kinds, seq, k)]
  BY KeptIs DEF KeptNext
<1>2. Len(seq) \in Nat
  OBVIOUS
<1> HIDE DEF K
<1>3. K[0] = <<>> /\ \A k \in 1..Len(seq) : K[k] = KeptNext(kinds, seq, k)
  BY <1>1, <1>2
<1> QED BY <1>3 DEF K

\* What is kept of the first k entries: each is one of them, all of the right kinds are there, in
\* their order.
KeptOf(kinds, seq, k, kept) ==
    /\ \A i \in DOMAIN kept : \E j \in 1..k : seq[j].kind \in kinds /\ kept[i] = seq[j]
    /\ \A j \in 1..k : seq[j].kind \in kinds => \E i \in DOMAIN kept : kept[i] = seq[j]
    /\ \A i1, i2 \in DOMAIN kept : i1 < i2 =>
         \E j1, j2 \in 1..k : j1 < j2 /\ kept[i1] = seq[j1] /\ kept[i2] = seq[j2]

LEMMA KeptProperties ==
    ASSUME NEW S, NEW kinds, NEW seq \in Seq(S)
    PROVE  \A k \in 0..Len(seq) : Record!Kept(kinds, seq)[k] \in Seq(S) /\
             KeptOf(kinds, seq, k, Record!Kept(kinds, seq)[k])
<1> DEFINE K == Record!Kept(kinds, seq)
           T == {k \in 0..Len(seq) : K[k] \in Seq(S) /\ KeptOf(kinds, seq, k, K[k])}
<1>0. Len(seq) \in Nat
  OBVIOUS
<1>1. K[0] = <<>> /\ \A k \in 1..Len(seq) : K[k] = KeptNext(kinds, seq, k)
  BY KeptStep
<1>2. 0 \in T
  <2>1. K[0] \in Seq(S) /\ DOMAIN K[0] = {}
    BY <1>1
  <2>2. KeptOf(kinds, seq, 0, K[0])
    BY <2>1 DEF KeptOf
  <2> QED BY <1>0, <2>1, <2>2
<1>3. ASSUME NEW k \in 1..Len(seq), k - 1 \in T
      PROVE  k \in T
  <2> DEFINE old == K[k - 1]
             new == K[k]
  <2>1. old \in Seq(S) /\ KeptOf(kinds, seq, k - 1, old) /\ seq[k] \in S /\ k \in Nat
    BY <1>3
  <2>2. /\ \A i \in DOMAIN old : \E j \in 1..(k - 1) : seq[j].kind \in kinds /\ old[i] = seq[j]
        /\ \A j \in 1..(k - 1) : seq[j].kind \in kinds => \E i \in DOMAIN old : old[i] = seq[j]
        /\ \A i1, i2 \in DOMAIN old : i1 < i2 =>
             \E j1, j2 \in 1..(k - 1) : j1 < j2 /\ old[i1] = seq[j1] /\ old[i2] = seq[j2]
    BY <2>1 DEF KeptOf
  <2>3. new = IF seq[k].kind \in kinds THEN Append(old, seq[k]) ELSE old
    BY <1>1 DEF KeptNext
  <2> SUFFICES new \in Seq(S) /\ KeptOf(kinds, seq, k, new)
    OBVIOUS
  <2> HIDE DEF old, new, T
  <2> SUFFICES
        /\ new \in Seq(S)
        /\ \A i \in DOMAIN new : \E j \in 1..k : seq[j].kind \in kinds /\ new[i] = seq[j]
        /\ \A j \in 1..k : seq[j].kind \in kinds => \E i \in DOMAIN new : new[i] = seq[j]
        /\ \A i1, i2 \in DOMAIN new : i1 < i2 =>
             \E j1, j2 \in 1..k : j1 < j2 /\ new[i1] = seq[j1] /\ new[i2] = seq[j2]
    BY DEF KeptOf
  <2>4. CASE seq[k].kind \notin kinds
    <3>1. new = old
      BY <2>3, <2>4
    <3>2. /\ 1..(k - 1) \subseteq 1..k /\ \A j \in 1..k : j \in 1..(k - 1) \/ j = k
      BY <2>1
    <3>3. \A i \in DOMAIN new : \E j \in 1..k : seq[j].kind \in kinds /\ new[i] = seq[j]
      BY <2>2, <3>1, <3>2, Zenon
    <3>4. \A j \in 1..k : seq[j].kind \in kinds => \E i \in DOMAIN new : new[i] = seq[j]
      BY <2>2, <2>4, <3>1, <3>2, Zenon
    <3>5. \A i1, i2 \in DOMAIN new : i1 < i2 =>
            \E j1, j2 \in 1..k : j1 < j2 /\ new[i1] = seq[j1] /\ new[i2] = seq[j2]
      <4>1. SUFFICES ASSUME NEW i1 \in DOMAIN new, NEW i2 \in DOMAIN new, i1 < i2
                     PROVE  \E j1, j2 \in 1..k : j1 < j2 /\ new[i1] = seq[j1] /\ new[i2] = seq[j2]
        OBVIOUS
      <4>2. PICK j1 \in 1..(k - 1), j2 \in 1..(k - 1) : j1 < j2 /\ new[i1] = seq[j1] /\ new[i2] = seq[j2]
        BY <2>2, <3>1, <4>1
      <4> QED BY <3>2, <4>2
    <3> QED BY <2>1, <3>1, <3>3, <3>4, <3>5
  <2>5. CASE seq[k].kind \in kinds
    <3>1. new = Append(old, seq[k])
      BY <2>3, <2>5
    <3>2. /\ new \in Seq(S) /\ Len(new) = Len(old) + 1 /\ Len(old) \in Nat
          /\ new[Len(new)] = seq[k] /\ \A i \in DOMAIN old : new[i] = old[i]
          /\ DOMAIN old = 1..Len(old) /\ DOMAIN new = 1..(Len(old) + 1)
      BY <2>1, <3>1
    <3>3. \A i \in DOMAIN new : \E j \in 1..k : seq[j].kind \in kinds /\ new[i] = seq[j]
      <4>1. TAKE i \in DOMAIN new
      <4>2. CASE i \in DOMAIN old
        BY <2>1, <2>2, <3>2, <4>2
      <4>3. CASE i = Len(new)
        BY <2>1, <2>5, <3>2, <4>3
      <4> QED BY <3>2, <4>2, <4>3
    <3>4. \A j \in 1..k : seq[j].kind \in kinds => \E i \in DOMAIN new : new[i] = seq[j]
      <4>1. SUFFICES ASSUME NEW j \in 1..k, seq[j].kind \in kinds PROVE \E i \in DOMAIN new : new[i] = seq[j]
        OBVIOUS
      <4>2. CASE j = k
        BY <3>2, <4>2
      <4>3. CASE j \in 1..(k - 1)
        <5>1. PICK i \in DOMAIN old : old[i] = seq[j]
          BY <2>2, <4>1, <4>3
        <5> QED BY <3>2, <5>1
      <4> QED BY <2>1, <4>2, <4>3
    <3>5. \A i1, i2 \in DOMAIN new : i1 < i2 =>
            \E j1, j2 \in 1..k : j1 < j2 /\ new[i1] = seq[j1] /\ new[i2] = seq[j2]
      <4>1. SUFFICES ASSUME NEW i1 \in DOMAIN new, NEW i2 \in DOMAIN new, i1 < i2
                     PROVE  \E j1, j2 \in 1..k : j1 < j2 /\ new[i1] = seq[j1] /\ new[i2] = seq[j2]
        OBVIOUS
      <4>2. i1 \in DOMAIN old
        BY <3>2, <4>1
      <4>3. CASE i2 \in DOMAIN old
        <5>1. PICK j1 \in 1..(k - 1), j2 \in 1..(k - 1) : j1 < j2 /\ old[i1] = seq[j1] /\ old[i2] = seq[j2]
          BY <2>2, <4>1, <4>2, <4>3
        <5> QED BY <2>1, <3>2, <4>2, <4>3, <5>1
      <4>4. CASE i2 = Len(new)
        <5>1. PICK j1 \in 1..(k - 1) : old[i1] = seq[j1]
          BY <2>2, <4>2
        <5> QED BY <2>1, <3>2, <4>2, <4>4, <5>1
      <4> QED BY <3>2, <4>3, <4>4
    <3> QED BY <3>2, <3>3, <3>4, <3>5
  <2> QED BY <2>4, <2>5
<1> HIDE DEF T
<1>4. \A k \in 0..Len(seq) : k \in T
  BY <1>0, <1>2, <1>3, UpTo
<1> QED BY <1>4 DEF T

In(seq) == {seq[i] : i \in DOMAIN seq}

\* Only(kinds, seq) has the events of these kinds, and no others, in the order of the sequence.
LEMMA OnlyProperties ==
    ASSUME NEW S, NEW kinds, NEW seq \in Seq(S)
    PROVE  /\ Record!Only(kinds, seq) \in Seq(S)
           /\ In(Record!Only(kinds, seq)) = {x \in In(seq) : x.kind \in kinds}
           /\ \A i1, i2 \in DOMAIN Record!Only(kinds, seq) : i1 < i2 =>
                \E j1, j2 \in DOMAIN seq :
                   j1 < j2 /\ Record!Only(kinds, seq)[i1] = seq[j1] /\ Record!Only(kinds, seq)[i2] = seq[j2]
<1> DEFINE only == Record!Only(kinds, seq)
<1>1. Len(seq) \in Nat /\ DOMAIN seq = 1..Len(seq)
  OBVIOUS
<1>2. Len(seq) \in 0..Len(seq)
  BY <1>1
<1>3. only \in Seq(S) /\ KeptOf(kinds, seq, Len(seq), only)
  BY <1>2, KeptProperties DEF Record!Only
<1>4. /\ \A i \in DOMAIN only : \E j \in DOMAIN seq : seq[j].kind \in kinds /\ only[i] = seq[j]
      /\ \A j \in DOMAIN seq : seq[j].kind \in kinds => \E i \in DOMAIN only : only[i] = seq[j]
      /\ \A i1, i2 \in DOMAIN only : i1 < i2 =>
           \E j1, j2 \in DOMAIN seq : j1 < j2 /\ only[i1] = seq[j1] /\ only[i2] = seq[j2]
  <2>1. only = Record!Kept(kinds, seq)[Len(seq)]
    BY DEF Record!Only
  <2> HIDE DEF only
  <2>2. /\ \A i \in DOMAIN only : \E j \in 1..Len(seq) : seq[j].kind \in kinds /\ only[i] = seq[j]
        /\ \A j \in 1..Len(seq) : seq[j].kind \in kinds => \E i \in DOMAIN only : only[i] = seq[j]
        /\ \A i1, i2 \in DOMAIN only : i1 < i2 =>
             \E j1, j2 \in 1..Len(seq) : j1 < j2 /\ only[i1] = seq[j1] /\ only[i2] = seq[j2]
    BY <1>3 DEF KeptOf
  <2>3. \A j : j \in 1..Len(seq) <=> j \in DOMAIN seq
    BY <1>1
  <2>4. ASSUME NEW i1 \in DOMAIN only, NEW i2 \in DOMAIN only, i1 < i2
        PROVE  \E j1, j2 \in DOMAIN seq : j1 < j2 /\ only[i1] = seq[j1] /\ only[i2] = seq[j2]
    <3>1. PICK j1 \in 1..Len(seq), j2 \in 1..Len(seq) : j1 < j2 /\ only[i1] = seq[j1] /\ only[i2] = seq[j2]
      BY <2>2, <2>4
    <3> QED BY <2>3, <3>1
  <2>5. \A i \in DOMAIN only : \E j \in DOMAIN seq : seq[j].kind \in kinds /\ only[i] = seq[j]
    BY <2>2, <2>3, Zenon
  <2>6. \A j \in DOMAIN seq : seq[j].kind \in kinds => \E i \in DOMAIN only : only[i] = seq[j]
    BY <2>2, <2>3, Zenon
  <2> QED BY <2>4, <2>5, <2>6
<1> HIDE DEF only
<1>5. In(only) = {x \in In(seq) : x.kind \in kinds}
  BY <1>4 DEF In
<1> QED BY <1>3, <1>4, <1>5 DEF only

\* What is kept of a sequence is where it was, at the beginning, when the sequence has grown.
LEMMA OnlyGrows ==
    ASSUME NEW S, NEW kinds, NEW seq \in Seq(S), NEW more \in Seq(S)
    PROVE  LET old == Record!Only(kinds, seq)
               new == Record!Only(kinds, seq \o more)
           IN  Len(old) <= Len(new) /\ \A i \in 1..Len(old) : new[i] = old[i]
<1> DEFINE u == seq \o more
           K == Record!Kept(kinds, seq)
           L == Record!Kept(kinds, u)
           n == Len(seq)
           m == Len(more)
           Same == {k \in 0..n : K[k] = L[k]}
           Begins(k) == Len(L[n]) <= Len(L[k]) /\ \A i \in 1..Len(L[n]) : L[k][i] = L[n][i]
           Grown == {k \in 0..m : Begins(n + k)}
<1>1. /\ n \in Nat /\ m \in Nat /\ u \in Seq(S) /\ Len(u) = n + m
      /\ \A k \in 1..n : u[k] = seq[k]
  OBVIOUS
<1>2. K[0] = <<>> /\ \A k \in 1..n : K[k] = KeptNext(kinds, seq, k)
  BY KeptStep
<1>3. L[0] = <<>> /\ \A k \in 1..(n + m) : L[k] = KeptNext(kinds, u, k)
  <2> HIDE DEF u
  <2> QED BY <1>1, KeptStep
<1>4. \A k \in 0..(n + m) : L[k] \in Seq(S)
  <2> HIDE DEF u
  <2> QED BY <1>1, KeptProperties
<1> HIDE DEF u, n, m
<1>5. \A k \in 0..n : k \in Same
  <2>1. 0 \in Same
    BY <1>1, <1>2, <1>3
  <2>2. ASSUME NEW k \in 1..n, k - 1 \in Same
        PROVE  k \in Same
    <3>1. K[k] = KeptNext(kinds, seq, k) /\ L[k] = KeptNext(kinds, u, k) /\ u[k] = seq[k] /\ K[k - 1] = L[k - 1]
      BY <1>1, <1>2, <1>3, <2>2
    <3> QED BY <3>1, <1>1 DEF KeptNext
  <2> HIDE DEF Same
  <2> QED BY <1>1, <2>1, <2>2, UpTo
<1>6. \A k \in 0..m : k \in Grown
  <2>1. 0 \in Grown
    <3>1. L[n] \in Seq(S)
      BY <1>1, <1>4
    <3> QED BY <1>1, <3>1
  <2>2. ASSUME NEW k \in 1..m, k - 1 \in Grown
        PROVE  k \in Grown
    <3>1. /\ n + k \in 1..(n + m) /\ n + k - 1 \in 0..(n + m) /\ n \in 0..(n + m)
          /\ n + (k - 1) = n + k - 1
      BY <1>1
    <3> DEFINE a == L[n]
               b == L[n + k - 1]
               c == L[n + k]
    <3>2. a \in Seq(S) /\ b \in Seq(S) /\ Len(a) <= Len(b) /\ \A i \in 1..Len(a) : b[i] = a[i]
      BY <1>4, <2>2, <3>1
    <3>3. c = b \/ c = Append(b, u[n + k])
      <4>1. L[n + k] = KeptNext(kinds, u, n + k)
        BY <1>3, <3>1
      <4>2. KeptNext(kinds, u, n + k) = IF u[n + k].kind \in kinds THEN Append(b, u[n + k]) ELSE b
        BY <3>1 DEF KeptNext
      <4> QED BY <4>1, <4>2
    <3> HIDE DEF L
    <3>4. Len(a) <= Len(c) /\ \A i \in 1..Len(a) : c[i] = a[i]
      <4> HIDE DEF a, b, c
      <4>1. CASE c = b
        BY <3>2, <4>1
      <4>2. CASE c = Append(b, u[n + k])
        <5>1. Len(c) = Len(b) + 1 /\ \A i \in 1..Len(b) : c[i] = b[i]
          BY <3>2, <4>2
        <5> QED BY <3>2, <5>1
      <4> QED BY <3>3, <4>1, <4>2
    <3> QED BY <3>4
  <2> HIDE DEF Grown
  <2> QED BY <1>1, <2>1, <2>2, UpTo
<1>7. Record!Only(kinds, seq) = L[n]
  BY <1>1, <1>5 DEF Record!Only, n
<1>8. Record!Only(kinds, u) = L[n + m] /\ Begins(n + m)
  <2>1. m \in 0..m
    BY <1>1
  <2> QED BY <1>1, <1>6, <2>1 DEF Record!Only
<1> QED BY <1>7, <1>8 DEF u

-----------------------------------------------------------------------------
(* Reading page by page.                                                   *)

\* What an instance has to give: sizes and bounds, and a value that is no session.
RecordSound ==
    /\ QueueSize \in Nat /\ CriticalSize \in Nat /\ BatchSize \in Nat \ {0} /\ PageSize \in Nat
    /\ MaxEvents \in Nat /\ MaxSessions \in Nat
    /\ None \notin Record!Session

\* The two ends of a sequence.
LEMMA Ends ==
    ASSUME NEW S, NEW seq \in Seq(S), NEW n \in Nat
    PROVE  LET some == Record!AtMost(n, seq)
               rest == Record!Beyond(n, seq)
           IN  /\ some \in Seq(S) /\ Len(some) = (IF n < Len(seq) THEN n ELSE Len(seq))
               /\ \A i \in 1..Len(some) : some[i] = seq[i]
               /\ rest \in Seq(S) /\ Len(rest) = (IF n < Len(seq) THEN Len(seq) - n ELSE 0)
               /\ \A i \in 1..Len(rest) : rest[i] = seq[n + i]
<1>1. Len(seq) \in Nat /\ \A i \in 1..Len(seq) : seq[i] \in S
  OBVIOUS
<1> DEFINE m == IF n < Len(seq) THEN n ELSE Len(seq)
<1>2. m \in 0..Len(seq)
  BY <1>1
<1>3. Record!AtMost(n, seq) = SubSeq(seq, 1, m) /\ Record!Beyond(n, seq) = SubSeq(seq, n + 1, Len(seq))
  BY DEF Record!AtMost, Record!Beyond
<1> HIDE DEF m
<1>4. /\ Record!AtMost(n, seq) \in Seq(S) /\ Len(Record!AtMost(n, seq)) = m
      /\ \A i \in 1..m : Record!AtMost(n, seq)[i] = seq[i]
  <2>1. \A i \in 1..m : seq[i] \in S
    BY <1>1, <1>2
  <2>2. /\ SubSeq(seq, 1, m) \in Seq(S)
        /\ Len(SubSeq(seq, 1, m)) = IF 1 <= m THEN m - 1 + 1 ELSE 0
        /\ \A i \in 1..(m - 1 + 1) : SubSeq(seq, 1, m)[i] = seq[1 + i - 1]
    BY <1>2, <2>1, SubSeqProperties
  <2> QED BY <1>2, <1>3, <2>2
<1>5. /\ Record!Beyond(n, seq) \in Seq(S) /\ Len(Record!Beyond(n, seq)) = (IF n < Len(seq) THEN Len(seq) - n ELSE 0)
      /\ \A i \in 1..Len(Record!Beyond(n, seq)) : Record!Beyond(n, seq)[i] = seq[n + i]
  <2>1. \A i \in (n + 1)..Len(seq) : seq[i] \in S
    BY <1>1
  <2>2. /\ SubSeq(seq, n + 1, Len(seq)) \in Seq(S)
        /\ Len(SubSeq(seq, n + 1, Len(seq))) = IF n + 1 <= Len(seq) THEN Len(seq) - (n + 1) + 1 ELSE 0
        /\ \A i \in 1..(Len(seq) - (n + 1) + 1) : SubSeq(seq, n + 1, Len(seq))[i] = seq[n + 1 + i - 1]
    BY <1>1, <2>1, SubSeqProperties
  <2> QED BY <1>1, <1>3, <2>2
<1> QED BY <1>4, <1>5 DEF m

\* A page of rows that have grown at their end begins as it did.
LEMMA PageGrows ==
    ASSUME NEW S, NEW old \in Seq(S), NEW new \in Seq(S), Len(old) <= Len(new),
           \A i \in 1..Len(old) : new[i] = old[i],
           NEW n \in Nat, NEW offset \in 0..Len(old)
    PROVE  LET page == Record!AtMost(n, Record!Beyond(offset, old))
           IN  page = Record!AtMost(Len(page), Record!AtMost(n, Record!Beyond(offset, new)))
<1> DEFINE a == Record!Beyond(offset, old)
           b == Record!Beyond(offset, new)
           page == Record!AtMost(n, a)
           later == Record!AtMost(n, b)
           cut == Record!AtMost(Len(page), later)
<1>1. Len(old) \in Nat /\ Len(new) \in Nat /\ offset \in 0..Len(new) /\ offset \in Nat
  OBVIOUS
<1>2. /\ a \in Seq(S) /\ Len(a) = Len(old) - offset /\ \A i \in 1..Len(a) : a[i] = old[offset + i]
      /\ b \in Seq(S) /\ Len(b) = Len(new) - offset /\ \A i \in 1..Len(b) : b[i] = new[offset + i]
  <2>1. /\ a \in Seq(S) /\ Len(a) = (IF offset < Len(old) THEN Len(old) - offset ELSE 0)
        /\ \A i \in 1..Len(a) : a[i] = old[offset + i]
    BY <1>1, Ends
  <2>2. /\ b \in Seq(S) /\ Len(b) = (IF offset < Len(new) THEN Len(new) - offset ELSE 0)
        /\ \A i \in 1..Len(b) : b[i] = new[offset + i]
    BY <1>1, Ends
  <2> HIDE DEF a, b
  <2> QED BY <1>1, <2>1, <2>2
<1>3. Len(a) <= Len(b) /\ \A i \in 1..Len(a) : a[i] = b[i]
  <2> HIDE DEF a, b
  <2>1. Len(a) <= Len(b)
    BY <1>1, <1>2
  <2>2. ASSUME NEW i \in 1..Len(a) PROVE a[i] = b[i]
    <3>1. offset + i \in 1..Len(old) /\ i \in 1..Len(b)
      BY <1>1, <1>2, <2>1
    <3>2. a[i] = old[offset + i] /\ b[i] = new[offset + i]
      BY <1>2, <3>1
    <3> QED BY <3>1, <3>2
  <2> QED BY <2>1, <2>2
<1> HIDE DEF a, b
<1>4. /\ page \in Seq(S) /\ Len(page) = (IF n < Len(a) THEN n ELSE Len(a))
      /\ \A i \in 1..Len(page) : page[i] = a[i]
      /\ later \in Seq(S) /\ Len(later) = (IF n < Len(b) THEN n ELSE Len(b))
      /\ \A i \in 1..Len(later) : later[i] = b[i]
  BY <1>2, Ends
<1> HIDE DEF page, later
<1>5. Len(page) \in Nat /\ Len(page) <= Len(later) /\ \A i \in 1..Len(page) : page[i] = later[i]
  BY <1>1, <1>2, <1>3, <1>4
<1>6. cut \in Seq(S) /\ Len(cut) = Len(page) /\ \A i \in 1..Len(page) : cut[i] = later[i]
  <2>1. Len(later) \in Nat
    BY <1>4
  <2>2. /\ cut \in Seq(S) /\ Len(cut) = (IF Len(page) < Len(later) THEN Len(page) ELSE Len(later))
        /\ \A i \in 1..Len(cut) : cut[i] = later[i]
    BY <1>4, <1>5, Ends
  <2> HIDE DEF cut
  <2> QED BY <1>5, <2>1, <2>2
<1> HIDE DEF cut
<1>7. page = cut
  <2>1. \A i \in 1..Len(page) : page[i] = cut[i]
    BY <1>5, <1>6
  <2> QED BY <1>4, <1>6, <2>1, SeqEqual
<1> QED BY <1>7 DEF cut, page, later, a, b

\* Every step leaves the table as it is or adds to its end.
LEMMA TableGrows ==
    ASSUME NEW more \in Seq(Record!Event), table \in Seq(Record!Event), table' = table \o more, RecordSound
    PROVE  Record!PageStays
<1>1. /\ Record!Rows \in Seq(Record!Event) /\ Record!Rows' \in Seq(Record!Event)
      /\ Len(Record!Rows) <= Len(Record!Rows') /\ \A i \in 1..Len(Record!Rows) : Record!Rows'[i] = Record!Rows[i]
  <2>1. table' \in Seq(Record!Event)
    OBVIOUS
  <2>2. Record!Rows \in Seq(Record!Event) /\ Record!Rows' \in Seq(Record!Event)
    BY <2>1, OnlyProperties DEF Record!Rows
  <2>3. Record!Rows' = Record!Only({"state"}, table \o more)
    BY DEF Record!Rows
  <2> QED BY <2>2, <2>3, OnlyGrows DEF Record!Rows
<1>2. SUFFICES ASSUME NEW offset \in 0..Len(Record!Rows)
               PROVE  Record!Page(offset) = Record!AtMost(Len(Record!Page(offset)), Record!Page(offset)')
  BY DEF Record!PageStays
<1> QED BY <1>1, PageGrows DEF Record!Page, RecordSound

-----------------------------------------------------------------------------
(* Sequences of events and the order of their publication.                 *)

\* y may follow x: it is not an earlier event of the same thread and kind.  d: moves are exempt.
Follows(d, x, y) ==
    x.kind = y.kind /\ x.by = y.by /\ x.kind # "note" /\ ~(x.kind = "move" /\ d) => x.n < y.n
Ahead(d, a, b) == \A x \in In(a), y \in In(b) : Follows(d, x, y)
Sorted(d, a) == \A i, j \in DOMAIN a : i < j => Follows(d, a[i], a[j])

LEMMA InProperties ==
    ASSUME NEW S, NEW a \in Seq(S)
    PROVE  /\ In(a) \subseteq S /\ a \in Seq(In(a))
           /\ DOMAIN a = 1..Len(a) /\ Len(a) \in Nat
           /\ In(a) = {} <=> a = <<>>
<1>1. DOMAIN a = 1..Len(a) /\ Len(a) \in Nat /\ \A i \in 1..Len(a) : a[i] \in S /\ a \in [1..Len(a) -> S]
  BY LenProperties
<1>2. In(a) \subseteq S
  BY <1>1 DEF In
<1>3. a \in [1..Len(a) -> In(a)]
  BY <1>1 DEF In
<1>4. a \in Seq(In(a))
  BY <1>1, <1>3
<1>5. In(a) = {} <=> a = <<>>
  <2>1. a = <<>> => In(a) = {}
    BY <1>1 DEF In
  <2>2. a # <<>> => Len(a) > 0 /\ a[1] \in In(a)
    <3>1. a # <<>> => Len(a) \in Nat \ {0}
      BY EmptySeq
    <3> QED BY <1>1, <3>1 DEF In
  <2> QED BY <2>1, <2>2
<1> QED BY <1>1, <1>2, <1>4, <1>5

LEMMA ConcatIn ==
    ASSUME NEW S, NEW a \in Seq(S), NEW b \in Seq(S)
    PROVE  /\ a \o b \in Seq(S)
           /\ In(a \o b) = In(a) \cup In(b)
<1>1. /\ a \o b \in Seq(S) /\ Len(a \o b) = Len(a) + Len(b) /\ Len(a) \in Nat /\ Len(b) \in Nat
      /\ \A i \in 1..(Len(a) + Len(b)) : (a \o b)[i] = IF i <= Len(a) THEN a[i] ELSE b[i - Len(a)]
  BY ConcatProperties, LenProperties
<1>2. DOMAIN a = 1..Len(a) /\ DOMAIN b = 1..Len(b) /\ DOMAIN (a \o b) = 1..(Len(a) + Len(b))
  BY <1>1, LenProperties
<1> DEFINE c == a \o b
<1> HIDE DEF c
<1>3. \A i \in DOMAIN c : c[i] \in In(a) \cup In(b)
  <2>1. SUFFICES ASSUME NEW i \in 1..(Len(a) + Len(b)) PROVE c[i] \in In(a) \cup In(b)
    BY <1>2 DEF c
  <2>2. CASE i <= Len(a)
    BY <1>1, <1>2, <2>2 DEF In, c
  <2>3. CASE i > Len(a)
    <3>1. i - Len(a) \in DOMAIN b /\ c[i] = b[i - Len(a)]
      BY <1>1, <1>2, <2>3 DEF c
    <3> QED BY <3>1 DEF In
  <2> QED BY <1>1, <2>2, <2>3
<1>4. \A i \in DOMAIN a : a[i] \in In(c)
  <2>1. TAKE i \in DOMAIN a
  <2>2. i \in DOMAIN c /\ c[i] = a[i]
    BY <1>1, <1>2 DEF c
  <2> QED BY <2>2 DEF In
<1>5. \A i \in DOMAIN b : b[i] \in In(c)
  <2>1. TAKE i \in DOMAIN b
  <2>2. Len(a) + i \in DOMAIN c /\ c[Len(a) + i] = b[i]
    BY <1>1, <1>2 DEF c
  <2> QED BY <2>2 DEF In
<1>6. In(c) = In(a) \cup In(b)
  BY <1>3, <1>4, <1>5 DEF In
<1> QED BY <1>1, <1>6 DEF c

LEMMA ConcatSorted ==
    ASSUME NEW S, NEW a \in Seq(S), NEW b \in Seq(S), NEW d
    PROVE  Sorted(d, a \o b) <=> Sorted(d, a) /\ Sorted(d, b) /\ Ahead(d, a, b)
<1> DEFINE c == a \o b
<1>1. /\ Len(a) \in Nat /\ Len(b) \in Nat
      /\ DOMAIN a = 1..Len(a) /\ DOMAIN b = 1..Len(b) /\ DOMAIN c = 1..(Len(a) + Len(b))
      /\ \A i \in 1..(Len(a) + Len(b)) : c[i] = IF i <= Len(a) THEN a[i] ELSE b[i - Len(a)]
  <2>1. c \in Seq(S) /\ Len(c) = Len(a) + Len(b)
    BY ConcatProperties
  <2> HIDE DEF c
  <2> QED BY <2>1, ConcatProperties, LenProperties DEF c
<1> HIDE DEF c
<1>2. /\ \A i \in DOMAIN a : i \in DOMAIN c /\ c[i] = a[i]
      /\ \A j \in DOMAIN b : Len(a) + j \in DOMAIN c /\ c[Len(a) + j] = b[j]
  BY <1>1
<1>3. ASSUME Sorted(d, c) PROVE Sorted(d, a) /\ Sorted(d, b) /\ Ahead(d, a, b)
  <2>1. \A i, j \in DOMAIN c : i < j => Follows(d, c[i], c[j])
    BY <1>3 DEF Sorted
  <2>2. Sorted(d, a)
    BY <1>2, <2>1 DEF Sorted
  <2>3. ASSUME NEW i \in DOMAIN b, NEW j \in DOMAIN b, i < j PROVE Follows(d, b[i], b[j])
    <3>1. Len(a) + i < Len(a) + j
      BY <1>1, <2>3
    <3> QED BY <1>2, <2>1, <3>1
  <2>4. ASSUME NEW i \in DOMAIN a, NEW j \in DOMAIN b PROVE Follows(d, a[i], b[j])
    <3>1. i < Len(a) + j
      BY <1>1
    <3> QED BY <1>2, <2>1, <3>1
  <2> QED BY <2>2, <2>3, <2>4 DEF Sorted, Ahead, In
<1>4. ASSUME Sorted(d, a), Sorted(d, b), Ahead(d, a, b) PROVE Sorted(d, c)
  <2>1. SUFFICES ASSUME NEW i \in DOMAIN c, NEW j \in DOMAIN c, i < j PROVE Follows(d, c[i], c[j])
    BY DEF Sorted
  <2>2. \A k \in DOMAIN c : \/ k \in DOMAIN a /\ c[k] = a[k]
                            \/ k > Len(a) /\ k - Len(a) \in DOMAIN b /\ c[k] = b[k - Len(a)]
    BY <1>1
  <2>3. CASE j \in DOMAIN a
    <3>1. i \in DOMAIN a /\ c[i] = a[i] /\ c[j] = a[j]
      BY <1>1, <2>1, <2>2, <2>3
    <3> QED BY <1>4, <2>1, <2>3, <3>1 DEF Sorted
  <2>4. CASE i \in DOMAIN a /\ j \notin DOMAIN a
    <3>1. c[i] = a[i] /\ j - Len(a) \in DOMAIN b /\ c[j] = b[j - Len(a)]
      BY <1>1, <2>2, <2>4
    <3> QED BY <1>4, <2>4, <3>1 DEF Ahead, In
  <2>5. CASE i \notin DOMAIN a
    <3>1. /\ i - Len(a) \in DOMAIN b /\ c[i] = b[i - Len(a)]
          /\ j - Len(a) \in DOMAIN b /\ c[j] = b[j - Len(a)]
          /\ i - Len(a) < j - Len(a)
      BY <1>1, <2>1, <2>2, <2>5
    <3> QED BY <1>4, <3>1 DEF Sorted
  <2> QED BY <2>1, <2>2, <2>3, <2>4, <2>5
<1> QED BY <1>3, <1>4 DEF c

LEMMA OneIn ==
    ASSUME NEW e, NEW d
    PROVE  In(<<e>>) = {e} /\ Sorted(d, <<e>>) /\ In(<<>>) = {} /\ Sorted(d, <<>>)
  BY DEF In, Sorted

LEMMA AppendOne ==
    ASSUME NEW S, NEW a \in Seq(S), NEW e \in S, NEW d
    PROVE  /\ Append(a, e) \in Seq(S)
           /\ In(Append(a, e)) = In(a) \cup {e}
           /\ Sorted(d, Append(a, e)) <=> Sorted(d, a) /\ \A x \in In(a) : Follows(d, x, e)
<1> DEFINE one == <<e>>
<1>1. one \in Seq(S) /\ Append(a, e) \in Seq(S) /\ Append(a, e) = a \o one
  OBVIOUS
<1>2. In(one) = {e} /\ Sorted(d, one)
  BY OneIn
<1> HIDE DEF one
<1>3. In(a \o one) = In(a) \cup In(one) /\ (Sorted(d, a \o one) <=> Sorted(d, a) /\ Ahead(d, a, one))
  BY <1>1, <1>2, ConcatIn, ConcatSorted
<1>4. Ahead(d, a, one) <=> \A x \in In(a) : Follows(d, x, e)
  BY <1>2 DEF Ahead
<1> QED BY <1>1, <1>2, <1>3, <1>4, Zenon

LEMMA HeadAndTail ==
    ASSUME NEW S, NEW a \in Seq(S), a # <<>>
    PROVE  Head(a) \in S /\ Tail(a) \in Seq(S) /\ a = <<Head(a)>> \o Tail(a) /\ Len(Tail(a)) = Len(a) - 1
  OBVIOUS

LEMMA TwoEnds ==
    ASSUME NEW S, NEW a \in Seq(S), NEW n \in Nat
    PROVE  LET some == Record!AtMost(n, a)
               rest == Record!Beyond(Len(some), a)
           IN  /\ some \in Seq(S) /\ rest \in Seq(S) /\ a = some \o rest
               /\ Len(some) = (IF n < Len(a) THEN n ELSE Len(a))
               /\ Len(rest) = Len(a) - Len(some)
<1> DEFINE m == IF n < Len(a) THEN n ELSE Len(a)
           some == Record!AtMost(n, a)
           rest == Record!Beyond(m, a)
<1>1. m \in 0..Len(a) /\ Len(a) \in Nat /\ m \in Nat
  OBVIOUS
<1>2. some \in Seq(S) /\ Len(some) = m /\ rest \in Seq(S) /\ Len(rest) = Len(a) - m
  <2>1. some \in Seq(S) /\ Len(some) = m
    BY Ends
  <2>2. rest \in Seq(S) /\ Len(rest) = (IF m < Len(a) THEN Len(a) - m ELSE 0)
    <3> HIDE DEF m
    <3> QED BY <1>1, Ends
  <2> HIDE DEF m, some, rest
  <2> QED BY <1>1, <2>1, <2>2
<1>3. some = SubSeq(a, 1, m) /\ rest = SubSeq(a, m + 1, Len(a))
  BY DEF Record!AtMost, Record!Beyond
<1> HIDE DEF m, some, rest
<1>4. SubSeq(a, 1, m) \o SubSeq(a, m + 1, Len(a)) = SubSeq(a, 1, Len(a))
  <2>1. 1 \in 1..(Len(a) + 1) /\ m \in (1 - 1)..Len(a) /\ Len(a) \in m..Len(a)
    BY <1>1
  <2> QED BY <2>1, ConcatAdjacentSubSeq
<1>5. some \o rest = a
  BY <1>3, <1>4, SubSeqFull
<1> QED BY <1>2, <1>5 DEF m, some, rest

\* The events of some kinds in a sequence keep its order.
LEMMA OnlySorted ==
    ASSUME NEW S, NEW kinds, NEW a \in Seq(S), NEW d, Sorted(d, a)
    PROVE  Record!Only(kinds, a) \in Seq(S) /\ In(Record!Only(kinds, a)) \subseteq In(a) /\
             Sorted(d, Record!Only(kinds, a))
<1>1. Record!Only(kinds, a) \in Seq(S)
  BY OnlyProperties
<1>2. \A i1, i2 \in DOMAIN Record!Only(kinds, a) : i1 < i2 =>
        \E j1, j2 \in DOMAIN a : j1 < j2 /\ Record!Only(kinds, a)[i1] = a[j1] /\ Record!Only(kinds, a)[i2] = a[j2]
  BY OnlyProperties
<1>3. In(Record!Only(kinds, a)) \subseteq In(a)
  <2>1. In(Record!Only(kinds, a)) = {x \in In(a) : x.kind \in kinds}
    BY OnlyProperties
  <2> QED BY <2>1
<1>4. Sorted(d, Record!Only(kinds, a))
  BY <1>2 DEF Sorted
<1> QED BY <1>1, <1>3, <1>4

\* Table, batch and the two queues are in the order of publication: what is further on was
\* published earlier.
Line(d, t, b, c, q) ==
    /\ Sorted(d, t) /\ Sorted(d, b) /\ Sorted(d, c) /\ Sorted(d, q)
    /\ Ahead(d, t, b) /\ Ahead(d, t, c) /\ Ahead(d, t, q)
    /\ Ahead(d, b, c) /\ Ahead(d, b, q)

\* A batch is stored, or some of it, or nothing.
LEMMA LineStores ==
    ASSUME NEW S, NEW t \in Seq(S), NEW b \in Seq(S), NEW c \in Seq(S), NEW q \in Seq(S), NEW d, NEW kinds,
           Line(d, t, b, c, q)
    PROVE  Line(d, t \o Record!Only(kinds, b), <<>>, c, q) /\ Line(d, t, <<>>, c, q)
<1>1. /\ Record!Only(kinds, b) \in Seq(S) /\ In(Record!Only(kinds, b)) \subseteq In(b) /\
           Sorted(d, Record!Only(kinds, b))
  BY OnlySorted DEF Line
<1>2. In(<<>>) = {} /\ Sorted(d, <<>>)
  BY OneIn
<1> DEFINE u == t \o Record!Only(kinds, b)
<1>3. In(u) = In(t) \cup In(Record!Only(kinds, b))
  BY <1>1, ConcatIn
<1>4. Sorted(d, u)
  <2>1. Ahead(d, t, Record!Only(kinds, b))
    BY <1>1 DEF Line, Ahead
  <2> QED BY <1>1, <2>1, ConcatSorted DEF Line
<1> HIDE DEF u
<1>5. Ahead(d, u, <<>>) /\ Ahead(d, u, c) /\ Ahead(d, u, q)
  BY <1>1, <1>2, <1>3 DEF Line, Ahead
<1>6. Line(d, u, <<>>, c, q)
  BY <1>2, <1>4, <1>5 DEF Line, Ahead
<1>7. Line(d, t, <<>>, c, q)
  BY <1>2 DEF Line, Ahead
<1> QED BY <1>6, <1>7 DEF u

\* An event that nothing is ahead of by mistake joins the end of a queue.
LEMMA LineJoins ==
    ASSUME NEW S, NEW t \in Seq(S), NEW b \in Seq(S), NEW c \in Seq(S), NEW q \in Seq(S), NEW d, NEW e \in S,
           Line(d, t, b, c, q),
           \A x \in In(t) \cup In(b) \cup In(c) \cup In(q) : Follows(d, x, e)
    PROVE  Line(d, t, b, Append(c, e), q) /\ Line(d, t, b, c, Append(q, e))
<1>1. Sorted(d, c) /\ Sorted(d, q)
  BY DEF Line
<1>2. In(Append(c, e)) = In(c) \cup {e} /\ In(Append(q, e)) = In(q) \cup {e}
  BY AppendOne
<1>3. Sorted(d, Append(c, e)) /\ Sorted(d, Append(q, e))
  BY <1>1, AppendOne
<1>4. Ahead(d, t, Append(c, e)) /\ Ahead(d, b, Append(c, e)) /\ Ahead(d, t, Append(q, e)) /\
        Ahead(d, b, Append(q, e))
  BY <1>2 DEF Line, Ahead
<1> QED BY <1>3, <1>4 DEF Line

\* The first part of each queue joins the batch; of the second queue nothing is taken while the
\* first has more, or the two have no kind in common.
LEMMA LineMoves ==
    ASSUME NEW S, NEW t \in Seq(S), NEW b \in Seq(S), NEW d,
           NEW c1 \in Seq(S), NEW c2 \in Seq(S), NEW q1 \in Seq(S), NEW q2 \in Seq(S),
           Line(d, t, b, c1 \o c2, q1 \o q2),
           \A x \in In(c1 \o c2), y \in In(q1 \o q2) : x.kind # y.kind
    PROVE  Line(d, t, (b \o c1) \o q1, c2, q2)
<1>1. /\ In(c1 \o c2) = In(c1) \cup In(c2) /\ In(q1 \o q2) = In(q1) \cup In(q2)
      /\ b \o c1 \in Seq(S) /\ In(b \o c1) = In(b) \cup In(c1)
  BY ConcatIn
<1> DEFINE n == (b \o c1) \o q1
<1>2. In(n) = In(b) \cup In(c1) \cup In(q1)
  <2> DEFINE m == b \o c1
  <2>1. m \in Seq(S)
    BY <1>1
  <2> HIDE DEF m
  <2>2. In(m \o q1) = In(m) \cup In(q1)
    BY <2>1, ConcatIn
  <2>3. In(n) = In(b \o c1) \cup In(q1)
    BY <2>2 DEF m
  <2> QED BY <1>1, <2>3
<1>3. /\ Sorted(d, c1) /\ Sorted(d, c2) /\ Ahead(d, c1, c2)
      /\ Sorted(d, q1) /\ Sorted(d, q2) /\ Ahead(d, q1, q2)
  BY ConcatSorted DEF Line
<1>4. Ahead(d, b, c1) /\ Ahead(d, b \o c1, q1)
  BY <1>1 DEF Line, Ahead, Follows
<1>5. Sorted(d, b \o c1)
  BY <1>3, <1>4, ConcatSorted DEF Line
<1>6. Sorted(d, n)
  BY <1>1, <1>3, <1>4, <1>5, ConcatSorted
<1> HIDE DEF n
<1>7. Ahead(d, n, c2) /\ Ahead(d, n, q2)
  BY <1>1, <1>2, <1>3 DEF Line, Ahead, Follows
<1>8. Ahead(d, t, n) /\ Ahead(d, t, c2) /\ Ahead(d, t, q2)
  BY <1>1, <1>2 DEF Line, Ahead
<1>9. Line(d, t, n, c2, q2)
  BY <1>3, <1>6, <1>7, <1>8 DEF Line
<1> QED BY <1>9 DEF n

\* A move that is stored past its queue spoils the order of the moves only.
LEMMA LineOvertaken ==
    ASSUME NEW S, NEW t \in Seq(S), NEW b \in Seq(S), NEW c \in Seq(S), NEW q \in Seq(S), NEW d \in BOOLEAN,
           NEW e \in S, e.kind = "move", Line(d, t, b, c, q)
    PROVE  Line(TRUE, Append(t, e), b, c, q)
<1>1. \A x, y : Follows(d, x, y) => Follows(TRUE, x, y)
  BY DEF Follows
<1>2. Line(TRUE, t, b, c, q)
  BY <1>1 DEF Line, Sorted, Ahead
<1>3. \A x : Follows(TRUE, x, e) /\ Follows(TRUE, e, x)
  BY DEF Follows
<1>4. In(Append(t, e)) = In(t) \cup {e}
  BY AppendOne
<1>5. Sorted(TRUE, t)
  BY <1>2 DEF Line
<1>6. Sorted(TRUE, Append(t, e))
  BY <1>3, <1>5, AppendOne
<1>7. Ahead(TRUE, Append(t, e), b) /\ Ahead(TRUE, Append(t, e), c) /\ Ahead(TRUE, Append(t, e), q)
  BY <1>2, <1>3, <1>4 DEF Line, Ahead
<1> QED BY <1>2, <1>6, <1>7 DEF Line

-----------------------------------------------------------------------------
(* The inductive invariant.                                                *)

\* Events that were published and, if they name a session, before it ended.
Filed == {e \in Record!Event : e.n <= hist.published /\ (e.sid # None => e.n <= hist.ended[e.sid])}

\* Every event anywhere is one of a set.
Held(F) ==
    /\ thread \in [Publisher -> [pc : {"idle", "tag", "put", "diag"}, e : F]]
    /\ queue \in Seq(F) /\ critical \in Seq(F) /\ orphan \in Seq(F) /\ table \in Seq(F)
    /\ worker \in [pc : {"off", "loop", "taken", "save", "flush"}, batch : Seq(F), stop : BOOLEAN]
RecordSizes == Len(queue) <= QueueSize /\ Len(critical) <= CriticalSize /\ Len(worker.batch) <= BatchSize
RecordControl ==
    /\ ctl \in [sid : Record!Session \cup {None}, active : BOOLEAN, started : 0..MaxSessions,
                status : {"", "pending", "saved", "failed"}]
    /\ console \in [Console -> [pc : {"idle", "start", "end", "note", "endnote", "delay"},
                                sid : Record!Session \cup {None}]]
    /\ hist \in [published : 0..MaxEvents, ended : [Record!Session -> 0..MaxEvents + 1],
                 found : SUBSET Record!Event, clean : BOOLEAN, cut : BOOLEAN, direct : BOOLEAN]
RecordTypes == Held(Filed) /\ RecordSizes /\ RecordControl

\* The open session and the ones to come have not ended.
Sessions ==
    /\ ctl.active => ctl.sid \in Record!Session /\ hist.ended[ctl.sid] = MaxEvents + 1
    /\ ctl.sid # None => ctl.sid <= ctl.started
    /\ \A s \in Record!Session : s > ctl.started => hist.ended[s] = MaxEvents + 1

RecordShape ==
    /\ \A x \in In(queue) : x.kind # "move"
    /\ \A x \in In(critical) : x.kind = "move"
    /\ \A x \in In(table) : x.kind # "note"
    /\ worker.pc \in {"off", "loop", "flush"} => worker.batch = <<>>
    /\ orphan # <<>> => hist.cut
    /\ \A p \in Publisher : thread[p].pc \in {"tag", "put"} => thread[p].e.by = p /\ thread[p].e.kind # "note"

\* What a thread is publishing is newer than all that is there of it.
Stored == In(table) \cup In(worker.batch) \cup In(critical) \cup In(queue) \cup In(orphan)
Behind ==
    \A p \in Publisher : thread[p].pc \in {"tag", "put"} =>
        \A x \in Stored : x.by = p /\ x.kind # "note" => x.n < thread[p].e.n

InLine == ~hist.cut => Line(hist.direct, table, worker.batch, critical, queue)

\* What stop() found is stored or on its way.
OnItsWay ==
    IF worker.pc = "off" THEN {} ELSE Record!Events(worker.batch) \cup Record!Events(critical) \cup
      Record!Events(queue)
NothingLost == hist.clean => hist.found \subseteq Record!Events(table) \cup OnItsWay

RecordInv == RecordTypes /\ Sessions /\ RecordShape /\ Behind /\ InLine /\ NothingLost

LEMMA EventsAre ==
    ASSUME NEW S, NEW seq \in Seq(S)
    PROVE  Record!Events(seq) = {x \in In(seq) : x.kind \in {"state", "move"}}
<1>1. In(Record!Game(seq)) = {x \in In(seq) : x.kind \in {"state", "move"}}
  BY OnlyProperties DEF Record!Game
<1> QED BY <1>1 DEF Record!Events, In

LEMMA FiledSame ==
    ASSUME hist'.published = hist.published, hist'.ended = hist.ended
    PROVE  Filed' = Filed
  BY DEF Filed, Record!Event, Record!Session

LEMMA HeldGrows == ASSUME NEW F, NEW G, F \subseteq G, Held(F) PROVE Held(G)
<1>1. \A q \in Seq(F) : q \in Seq(G)
  BY SeqMonotonic
<1> QED BY <1>1 DEF Held

LEMMA RecordInit == ASSUME RecordSound, Record!Init PROVE RecordInv
<1>1. Record!NoEvent \in Filed
  <2>1. Record!NoEvent = [n |-> 0, by |-> None, kind |-> "note", sid |-> None]
    BY DEF Record!NoEvent, Record!Note
  <2>2. 0 \in 0..MaxEvents
    BY DEF RecordSound
  <2>3. Record!NoEvent \in Record!Event /\ Record!NoEvent.n = 0 /\ Record!NoEvent.sid = None
    BY <2>1, <2>2 DEF Record!Event
  <2>4. hist.published = 0
    BY DEF Record!Init
  <2> QED BY <2>3, <2>4 DEF Filed
<1>2. Held(Filed)
  <2>1. <<>> \in Seq(Filed)
    OBVIOUS
  <2> QED BY <1>1, <2>1 DEF Record!Init, Held
<1>3. RecordTypes
  <2>1. RecordSizes
    <3>1. Len(<<>>) = 0 /\ queue = <<>> /\ critical = <<>> /\ worker.batch = <<>>
      BY DEF Record!Init
    <3> QED BY <3>1 DEF RecordSound, RecordSizes
  <2>2. RecordControl
    <3>1. 0 \in 0..MaxEvents /\ 0 \in 0..MaxSessions /\ MaxEvents + 1 \in 0..MaxEvents + 1
      BY DEF RecordSound
    <3>2. ctl \in [sid : Record!Session \cup {None}, active : BOOLEAN, started : 0..MaxSessions,
                   status : {"", "pending", "saved", "failed"}]
      BY <3>1 DEF Record!Init
    <3>3. console \in [Console -> [pc : {"idle", "start", "end", "note", "endnote", "delay"},
                                   sid : Record!Session \cup {None}]]
      BY DEF Record!Init
    <3>4. hist \in [published : 0..MaxEvents, ended : [Record!Session -> 0..MaxEvents + 1],
                    found : SUBSET Record!Event, clean : BOOLEAN, cut : BOOLEAN, direct : BOOLEAN]
      BY <3>1 DEF Record!Init
    <3> QED BY <3>2, <3>3, <3>4 DEF RecordControl
  <2> QED BY <1>2, <2>1, <2>2 DEF RecordTypes
<1>4. Sessions
  BY DEF RecordSound, Record!Init, Sessions
<1>5. In(<<>>) = {}
  BY DEF In
<1>6. RecordShape
  BY <1>5 DEF Record!Init, RecordShape
<1>7. Behind
  BY DEF Record!Init, Behind
<1>8. InLine
  <2>1. Line(FALSE, <<>>, <<>>, <<>>, <<>>)
    <3>1. \A d : Sorted(d, <<>>) /\ Ahead(d, <<>>, <<>>)
      BY <1>5, OneIn DEF Ahead
    <3> QED BY <3>1 DEF Line
  <2> QED BY <2>1 DEF Record!Init, InLine
<1>9. NothingLost
  BY DEF Record!Init, NothingLost
<1> QED BY <1>3, <1>4, <1>6, <1>7, <1>8, <1>9 DEF RecordInv

LEMMA RouteStartStep == ASSUME RecordSound, RecordInv, NEW c \in Console, Record!RouteStart(c) PROVE RecordInv'
<1>1. Filed' = Filed
  BY FiledSame DEF Record!RouteStart
<1>2. RecordTypes'
  BY <1>1 DEF RecordSound, RecordInv, RecordTypes, Held, RecordSizes, RecordControl, Record!RouteStart
<1>3. Sessions'
  BY DEF RecordSound, RecordInv, RecordTypes, RecordControl, Sessions, Record!RouteStart
<1>4. RecordShape'
  BY DEF RecordInv, RecordTypes, Held, RecordShape, Record!RouteStart
<1>5. Behind'
  BY DEF RecordInv, RecordTypes, Held, Behind, Stored, Record!RouteStart
<1>6. InLine'
  BY DEF RecordInv, RecordTypes, Held, RecordControl, InLine, Record!RouteStart
<1>7. NothingLost'
  BY DEF RecordInv, RecordTypes, Held, RecordControl, NothingLost, OnItsWay, Record!RouteStart
<1> QED BY <1>2, <1>3, <1>4, <1>5, <1>6, <1>7 DEF RecordInv

LEMMA RouteEndStep == ASSUME RecordSound, RecordInv, NEW c \in Console, Record!RouteEnd(c) PROVE RecordInv'
<1>1. Filed' = Filed
  BY FiledSame DEF Record!RouteEnd
<1>2. RecordTypes'
  BY <1>1 DEF RecordSound, RecordInv, RecordTypes, Held, RecordSizes, RecordControl, Record!RouteEnd
<1>3. Sessions'
  BY DEF RecordSound, RecordInv, RecordTypes, RecordControl, Sessions, Record!RouteEnd
<1>4. RecordShape'
  BY DEF RecordInv, RecordTypes, Held, RecordShape, Record!RouteEnd
<1>5. Behind'
  BY DEF RecordInv, RecordTypes, Held, Behind, Stored, Record!RouteEnd
<1>6. InLine'
  BY DEF RecordInv, RecordTypes, Held, RecordControl, InLine, Record!RouteEnd
<1>7. NothingLost'
  BY DEF RecordInv, RecordTypes, Held, RecordControl, NothingLost, OnItsWay, Record!RouteEnd
<1> QED BY <1>2, <1>3, <1>4, <1>5, <1>6, <1>7 DEF RecordInv

LEMMA ExportSessionRecordStep ==
    ASSUME RecordSound, RecordInv, NEW c \in Console, Record!ExportSessionRecord(c)
    PROVE  RecordInv'
<1>1. Filed' = Filed
  BY FiledSame DEF Record!ExportSessionRecord
<1>2. RecordTypes'
  BY <1>1 DEF RecordSound, RecordInv, RecordTypes, Held, RecordSizes, RecordControl, Record!ExportSessionRecord
<1>3. Sessions'
  BY DEF RecordSound, RecordInv, RecordTypes, RecordControl, Sessions, Record!ExportSessionRecord
<1>4. RecordShape'
  BY DEF RecordInv, RecordTypes, Held, RecordShape, Record!ExportSessionRecord
<1>5. Behind'
  BY DEF RecordInv, RecordTypes, Held, Behind, Stored, Record!ExportSessionRecord
<1>6. InLine'
  BY DEF RecordInv, RecordTypes, Held, RecordControl, InLine, Record!ExportSessionRecord
<1>7. NothingLost'
  BY DEF RecordInv, RecordTypes, Held, RecordControl, NothingLost, OnItsWay, Record!ExportSessionRecord
<1> QED BY <1>2, <1>3, <1>4, <1>5, <1>6, <1>7 DEF RecordInv

LEMMA LoopEndsStep == ASSUME RecordSound, RecordInv, Record!LoopEnds PROVE RecordInv'
<1>1. Filed' = Filed
  BY FiledSame DEF Record!LoopEnds
<1>2. RecordTypes'
  BY <1>1 DEF RecordSound, RecordInv, RecordTypes, Held, RecordSizes, RecordControl, Record!LoopEnds
<1>3. Sessions'
  BY DEF RecordSound, RecordInv, RecordTypes, RecordControl, Sessions, Record!LoopEnds
<1>4. RecordShape'
  BY DEF RecordInv, RecordTypes, Held, RecordShape, Record!LoopEnds
<1>5. Behind'
  BY DEF RecordInv, RecordTypes, Held, Behind, Stored, Record!LoopEnds
<1>6. InLine'
  BY DEF RecordInv, RecordTypes, Held, RecordControl, InLine, Record!LoopEnds
<1>7. NothingLost'
  BY DEF RecordInv, RecordTypes, Held, RecordControl, NothingLost, OnItsWay, Record!LoopEnds
<1> QED BY <1>2, <1>3, <1>4, <1>5, <1>6, <1>7 DEF RecordInv

LEMMA WorkerStartStep == ASSUME RecordSound, RecordInv, Record!WorkerStart PROVE RecordInv'
<1>1. Filed' = Filed
  BY FiledSame DEF Record!WorkerStart
<1>2. RecordTypes'
  BY <1>1 DEF RecordSound, RecordInv, RecordTypes, Held, RecordSizes, RecordControl, Record!WorkerStart
<1>3. Sessions'
  BY DEF RecordSound, RecordInv, RecordTypes, RecordControl, Sessions, Record!WorkerStart
<1>4. RecordShape'
  BY DEF RecordInv, RecordTypes, Held, RecordShape, Record!WorkerStart
<1>5. Behind'
  BY DEF RecordInv, RecordTypes, Held, Behind, Stored, Record!WorkerStart
<1>6. InLine'
  BY DEF RecordInv, RecordTypes, Held, RecordControl, InLine, Record!WorkerStart
<1>7. NothingLost'
  BY DEF RecordInv, RecordTypes, Held, RecordControl, NothingLost, OnItsWay, Record!WorkerStart
<1> QED BY <1>2, <1>3, <1>4, <1>5, <1>6, <1>7 DEF RecordInv

LEMMA RecordParts ==
    ASSUME RecordInv
    PROVE  /\ table \in Seq(Filed) /\ worker.batch \in Seq(Filed) /\ critical \in Seq(Filed)
           /\ queue \in Seq(Filed) /\ orphan \in Seq(Filed)
           /\ Filed \subseteq Record!Event
           /\ Record!Events(worker.batch) \subseteq Record!Event /\
                Record!Events(critical) \subseteq Record!Event /\ Record!Events(queue) \subseteq Record!Event
<1>1. /\ table \in Seq(Filed) /\ worker.batch \in Seq(Filed) /\ critical \in Seq(Filed)
      /\ queue \in Seq(Filed) /\ orphan \in Seq(Filed)
  BY DEF RecordInv, RecordTypes, Held
<1>2. Filed \subseteq Record!Event
  BY DEF Filed
<1>3. \A q \in Seq(Filed) : Record!Events(q) \subseteq Record!Event
  <2>1. TAKE q \in Seq(Filed)
  <2>2. Record!Events(q) \subseteq In(q) /\ In(q) \subseteq Filed
    BY EventsAre, InProperties
  <2> QED BY <1>2, <2>2
<1> QED BY <1>1, <1>2, <1>3

LEMMA StopRequestedStep == ASSUME RecordSound, RecordInv, Record!StopRequested PROVE RecordInv'
<1>1. Filed' = Filed
  BY FiledSame DEF Record!StopRequested, RecordInv, RecordTypes, RecordControl
<1>2. RecordTypes'
  <2>1. Held(Filed)'
    BY <1>1 DEF RecordInv, RecordTypes, Held, Record!StopRequested
  <2>2. RecordSizes'
    BY DEF RecordInv, RecordTypes, Held, RecordSizes, Record!StopRequested
  <2>3. RecordControl'
    <3>1. Record!Events(queue) \cup Record!Events(critical) \cup Record!Events(worker.batch) \in SUBSET Record!Event
      BY RecordParts
    <3>2. hist' \in [published : 0..MaxEvents, ended : [Record!Session -> 0..MaxEvents + 1],
                     found : SUBSET Record!Event, clean : BOOLEAN, cut : BOOLEAN, direct : BOOLEAN]
      BY <3>1 DEF RecordInv, RecordTypes, RecordControl, Record!StopRequested
    <3> QED BY <3>2 DEF RecordInv, RecordTypes, RecordControl, Record!StopRequested
  <2> QED BY <2>1, <2>2, <2>3 DEF RecordTypes
<1>3. Sessions'
  BY DEF RecordSound, RecordInv, RecordTypes, RecordControl, Sessions, Record!StopRequested
<1>4. RecordShape'
  BY DEF RecordInv, RecordTypes, Held, RecordControl, RecordShape, Record!StopRequested
<1>5. Behind'
  BY DEF RecordInv, RecordTypes, Held, Behind, Stored, Record!StopRequested
<1>6. InLine'
  BY DEF RecordInv, RecordTypes, Held, RecordControl, InLine, Record!StopRequested
<1>7. NothingLost'
  BY DEF RecordInv, RecordTypes, Held, RecordControl, NothingLost, OnItsWay, Record!StopRequested
<1> QED BY <1>2, <1>3, <1>4, <1>5, <1>6, <1>7 DEF RecordInv

LEMMA StopCancelsStep == ASSUME RecordSound, RecordInv, Record!StopCancels PROVE RecordInv'
<1>1. Filed' = Filed
  BY FiledSame DEF Record!StopCancels, RecordInv, RecordTypes, RecordControl
<1>2. orphan' \in Seq(Filed) /\ In(orphan') \subseteq In(worker.batch)
  <2>1. worker.batch \in Seq(Filed)
    BY RecordParts
  <2>2. Record!Game(worker.batch) \in Seq(Filed) /\ In(Record!Game(worker.batch)) \subseteq In(worker.batch)
    BY <2>1, OnlyProperties DEF Record!Game
  <2>3. <<>> \in Seq(Filed) /\ In(<<>>) = {}
    BY DEF In
  <2> QED BY <2>2, <2>3 DEF Record!StopCancels
<1>3. worker' = [pc |-> "flush", batch |-> <<>>, stop |-> worker.stop] /\ In(worker'.batch) = {}
  <2>1. worker' = [pc |-> "flush", batch |-> <<>>, stop |-> worker.stop]
    BY DEF RecordInv, RecordTypes, Held, Record!StopCancels
  <2> QED BY <2>1, OneIn
<1>4. RecordTypes'
  <2>1. Held(Filed)'
    BY <1>1, <1>2, <1>3 DEF RecordInv, RecordTypes, Held, Record!StopCancels
  <2>2. RecordSizes'
    BY <1>3 DEF RecordSound, RecordInv, RecordTypes, Held, RecordSizes, Record!StopCancels
  <2>3. RecordControl'
    BY DEF RecordInv, RecordTypes, RecordControl, Record!StopCancels
  <2> QED BY <2>1, <2>2, <2>3 DEF RecordTypes
<1>5. Sessions'
  BY DEF RecordSound, RecordInv, RecordTypes, RecordControl, Sessions, Record!StopCancels
<1>6. RecordShape'
  BY <1>3 DEF RecordInv, RecordTypes, Held, RecordControl, RecordShape, Record!StopCancels
<1>7. Behind'
  <2>1. Stored' \subseteq Stored /\ thread' = thread
    BY <1>2, <1>3 DEF Stored, Record!StopCancels
  <2> QED BY <2>1 DEF RecordInv, Behind
<1>8. InLine' /\ NothingLost'
  BY DEF RecordInv, RecordTypes, Held, RecordControl, InLine, NothingLost, Record!StopCancels
<1> QED BY <1>4, <1>5, <1>6, <1>7, <1>8 DEF RecordInv

LEMMA TagStep == ASSUME RecordSound, RecordInv, NEW p \in Publisher, Record!Tag(p) PROVE RecordInv'
<1>1. Filed' = Filed
  BY FiledSame DEF Record!Tag
<1> DEFINE e == [thread[p].e EXCEPT !.sid = Record!ActiveSession]
<1>2. thread[p] \in [pc : {"idle", "tag", "put", "diag"}, e : Filed] /\ thread[p].e \in Record!Event
  BY RecordParts DEF RecordInv, RecordTypes, Held
<1>3. e \in Filed /\ e.n = thread[p].e.n /\ e.by = thread[p].e.by /\ e.kind = thread[p].e.kind
  <2>1. Record!ActiveSession \in Record!Session \cup {None}
    BY DEF RecordInv, RecordTypes, RecordControl, Record!ActiveSession
  <2>2. /\ e \in Record!Event /\ e.n = thread[p].e.n /\ e.sid = Record!ActiveSession
        /\ e.by = thread[p].e.by /\ e.kind = thread[p].e.kind
    BY <1>2, <2>1 DEF Record!Event
  <2>3. e.n <= hist.published /\ e.n <= MaxEvents + 1
    BY <1>2, <2>2 DEF Filed, Record!Event, RecordSound
  <2>4. Record!ActiveSession # None => hist.ended[Record!ActiveSession] = MaxEvents + 1
    BY DEF RecordInv, Sessions, Record!ActiveSession
  <2> HIDE DEF e
  <2> QED BY <2>2, <2>3, <2>4 DEF Filed
<1>4. thread' = [thread EXCEPT ![p] = [pc |-> "put", e |-> e]]
  BY <1>2 DEF Record!Tag, RecordInv, RecordTypes, Held
<1> HIDE DEF e
<1>5. /\ \A r \in Publisher \ {p} : thread'[r] = thread[r]
      /\ thread'[p] = [pc |-> "put", e |-> e] /\ thread[p].pc = "tag"
  BY <1>4 DEF Record!Tag, RecordInv, RecordTypes, Held
<1>6. RecordTypes'
  <2>1. thread' \in [Publisher -> [pc : {"idle", "tag", "put", "diag"}, e : Filed]]
    BY <1>3, <1>4 DEF RecordInv, RecordTypes, Held
  <2>2. Held(Filed)
    BY DEF RecordInv, RecordTypes
  <2>3. Held(Filed)'
    BY <1>1, <2>1, <2>2 DEF Held, Record!Tag
  <2>4. RecordSizes' /\ RecordControl'
    BY DEF RecordInv, RecordTypes, RecordSizes, RecordControl, Record!Tag
  <2> QED BY <2>3, <2>4 DEF RecordTypes
<1>7. Sessions'
  BY DEF RecordInv, Sessions, Record!Tag
<1>8. RecordShape'
  <2>1. \A r \in Publisher : thread'[r].pc \in {"tag", "put"} => thread'[r].e.by = r /\ thread'[r].e.kind # "note"
    BY <1>3, <1>5 DEF RecordInv, RecordShape
  <2> QED BY <2>1 DEF RecordInv, RecordShape, Record!Tag
<1>9. Behind'
  <2>1. Stored' = Stored
    BY DEF Stored, Record!Tag
  <2>2. \A r \in Publisher :
          /\ thread'[r].pc \in {"tag", "put"} => thread[r].pc \in {"tag", "put"}
          /\ thread'[r].e.n = thread[r].e.n
    BY <1>3, <1>5
  <2> QED BY <2>1, <2>2 DEF RecordInv, Behind
<1>10. InLine' /\ NothingLost'
  BY DEF RecordInv, InLine, NothingLost, OnItsWay, Record!Tag
<1> QED BY <1>6, <1>7, <1>8, <1>9, <1>10 DEF RecordInv

LEMMA PublishStep == ASSUME RecordSound, RecordInv, NEW p \in Publisher, Record!Publish(p) PROVE RecordInv'
<1>1. PICK k \in {"state", "move"} :
        thread' = [thread EXCEPT ![p] =
           [pc |-> "tag", e |-> [n |-> hist.published + 1, by |-> p, kind |-> k, sid |-> None]]]
  BY DEF Record!Publish
<1> DEFINE e == [n |-> hist.published + 1, by |-> p, kind |-> k, sid |-> None]
<1>2. /\ hist.published \in Nat /\ hist.published + 1 \in 0..MaxEvents
      /\ hist' = [hist EXCEPT !.published = hist.published + 1]
  <2>1. hist.published \in 0..MaxEvents /\ hist.published < MaxEvents /\ MaxEvents \in Nat
    BY DEF RecordInv, RecordTypes, RecordControl, Record!Publish, RecordSound
  <2>2. hist' = [hist EXCEPT !.published = hist.published + 1]
    BY DEF Record!Publish
  <2> QED BY <2>1, <2>2
<1>3. hist'.published = hist.published + 1 /\ hist'.ended = hist.ended
  BY <1>2 DEF RecordInv, RecordTypes, RecordControl
<1>4. Filed \subseteq Filed'
  <2>1. \A x \in Record!Event : x.n \in Nat
    BY DEF Record!Event, RecordSound
  <2>2. \A x \in Record!Event : x.n <= hist.published => x.n <= hist'.published
    BY <1>2, <1>3, <2>1
  <2> QED BY <1>3, <2>2 DEF Filed, Record!Event, Record!Session
<1>5. e \in Filed' /\ e.n = hist.published + 1 /\ e.by = p /\ e.kind \in {"state", "move"}
  <2>1. e \in Record!Event /\ e.n = hist'.published /\ e.sid = None
    BY <1>2, <1>3 DEF Record!Event
  <2>2. e.n <= hist'.published
    BY <1>2, <1>3, <2>1
  <2> QED BY <2>1, <2>2 DEF Filed, Record!Event, Record!Session
<1>6. thread' = [thread EXCEPT ![p] = [pc |-> "tag", e |-> e]]
  BY <1>1
<1> HIDE DEF e
<1>7. /\ \A r \in Publisher \ {p} : thread'[r] = thread[r]
      /\ thread'[p] = [pc |-> "tag", e |-> e]
  BY <1>6 DEF RecordInv, RecordTypes, Held
<1>8. RecordTypes'
  <2>1. Held(Filed')
    BY <1>4, HeldGrows DEF RecordInv, RecordTypes
  <2>2. Held(Filed)'
    BY <1>5, <1>6, <2>1 DEF Held, Record!Publish
  <2>3. RecordSizes' /\ RecordControl'
    BY <1>2 DEF RecordInv, RecordTypes, RecordSizes, RecordControl, Record!Publish
  <2> QED BY <2>2, <2>3 DEF RecordTypes
<1>9. Sessions'
  BY <1>3 DEF RecordInv, Sessions, Record!Publish
<1>10. RecordShape'
  <2>1. \A r \in Publisher : thread'[r].pc \in {"tag", "put"} => thread'[r].e.by = r /\ thread'[r].e.kind # "note"
    BY <1>5, <1>7 DEF RecordInv, RecordShape
  <2>2. hist'.cut = hist.cut
    BY <1>2 DEF RecordInv, RecordTypes, RecordControl
  <2> QED BY <2>1, <2>2 DEF RecordInv, RecordShape, Record!Publish
<1>11. Behind'
  <2>1. Stored' = Stored
    BY DEF Stored, Record!Publish
  <2>2. \A x \in Stored : x.n <= hist.published /\ x.n \in Nat
    <3>1. \A q \in Seq(Filed) : In(q) \subseteq Filed
      BY InProperties
    <3>2. Stored \subseteq Filed
      BY <3>1, RecordParts DEF Stored
    <3> QED BY <3>2 DEF Filed, Record!Event, RecordSound
  <2>3. \A x \in Stored : x.n < e.n
    BY <1>2, <1>5, <2>2
  <2> QED BY <1>7, <2>1, <2>3 DEF RecordInv, Behind
<1>12. InLine' /\ NothingLost'
  BY <1>2 DEF RecordInv, RecordTypes, RecordControl, InLine, NothingLost, OnItsWay, Record!Publish
<1> QED BY <1>8, <1>9, <1>10, <1>11, <1>12 DEF RecordInv

LEMMA SessionNat == ASSUME RecordSound PROVE None \notin Record!Session /\ \A s \in Record!Session : s \in Nat
<1>1. None \notin Record!Session /\ MaxSessions \in Nat
  BY DEF RecordSound
<1>2. \A s \in 1..MaxSessions : s \in Nat
  BY <1>1
<1> QED BY <1>1, <1>2 DEF Record!Session

\* A session that ends covers all that was published.
LEMMA EndedProperties ==
    ASSUME RecordSound, RecordInv, NEW s \in Record!Session \cup {None}, hist' = Record!EndedNow(s)
    PROVE  /\ Filed \subseteq Filed'
           /\ hist' \in [published : 0..MaxEvents, ended : [Record!Session -> 0..MaxEvents + 1],
                         found : SUBSET Record!Event, clean : BOOLEAN, cut : BOOLEAN, direct : BOOLEAN]
           /\ hist'.clean = hist.clean /\ hist'.cut = hist.cut /\ hist'.direct = hist.direct
           /\ hist'.found = hist.found
           /\ \A r \in Record!Session : r # s => hist'.ended[r] = hist.ended[r]
<1>1. hist \in [published : 0..MaxEvents, ended : [Record!Session -> 0..MaxEvents + 1],
                found : SUBSET Record!Event, clean : BOOLEAN, cut : BOOLEAN, direct : BOOLEAN]
  BY DEF RecordInv, RecordTypes, RecordControl
<1>2. CASE s = None
  <2>1. hist' = hist
    BY <1>2 DEF Record!EndedNow
  <2>2. Filed' = Filed
    BY <2>1, FiledSame
  <2> QED BY <1>1, <2>1, <2>2
<1>3. CASE s # None
  <2> DEFINE ended == [hist.ended EXCEPT ![s] = hist.published]
  <2>1. hist.published \in 0..MaxEvents /\ hist.published \in 0..MaxEvents + 1 /\ s \in Record!Session
    BY <1>1, <1>3 DEF RecordSound
  <2>2. hist' = [hist EXCEPT !.ended = ended]
    BY <1>3 DEF Record!EndedNow
  <2>3. /\ ended \in [Record!Session -> 0..MaxEvents + 1] /\ ended[s] = hist.published
        /\ \A r \in Record!Session : r # s => ended[r] = hist.ended[r]
    BY <1>1, <2>1
  <2> HIDE DEF ended
  <2>4. /\ hist' \in [published : 0..MaxEvents, ended : [Record!Session -> 0..MaxEvents + 1],
                      found : SUBSET Record!Event, clean : BOOLEAN, cut : BOOLEAN, direct : BOOLEAN]
        /\ hist'.clean = hist.clean /\ hist'.cut = hist.cut /\ hist'.direct = hist.direct
        /\ hist'.found = hist.found
        /\ hist'.ended = ended /\ hist'.published = hist.published
    BY <1>1, <2>2, <2>3
  <2>5. \A x \in Record!Event : x.sid # None => x.sid \in Record!Session
    BY DEF Record!Event
  <2>6. ASSUME NEW x \in Filed PROVE x \in Filed'
    <3>1. x \in Record!Event /\ x.n <= hist.published /\ (x.sid # None => x.n <= hist.ended[x.sid])
      BY <2>6 DEF Filed
    <3>2. x.sid # None => x.n <= hist'.ended[x.sid]
      BY <2>3, <2>4, <2>5, <3>1
    <3> QED BY <2>4, <3>1, <3>2 DEF Filed, Record!Event, Record!Session
  <2> QED BY <2>3, <2>4, <2>6
<1> QED BY <1>2, <1>3

LEMMA StartSessionStep == ASSUME RecordSound, RecordInv, NEW c \in Console, Record!StartSession(c) PROVE RecordInv'
<1>1. Record!ActiveSession \in Record!Session \cup {None} /\ hist' = Record!EndedNow(Record!ActiveSession)
  BY DEF RecordInv, RecordTypes, RecordControl, Record!ActiveSession, Record!StartSession
<1>2. /\ Filed \subseteq Filed'
      /\ hist' \in [published : 0..MaxEvents, ended : [Record!Session -> 0..MaxEvents + 1],
                    found : SUBSET Record!Event, clean : BOOLEAN, cut : BOOLEAN, direct : BOOLEAN]
      /\ hist'.clean = hist.clean /\ hist'.cut = hist.cut /\ hist'.direct = hist.direct
      /\ hist'.found = hist.found
      /\ \A r \in Record!Session : r # Record!ActiveSession => hist'.ended[r] = hist.ended[r]
  BY <1>1, EndedProperties
<1>3. /\ ctl.started \in Nat /\ ctl.started + 1 \in Record!Session /\ ctl.started + 1 \in 0..MaxSessions
      /\ ctl' = [sid |-> ctl.started + 1, active |-> TRUE, started |-> ctl.started + 1, status |-> ""]
      /\ Record!ActiveSession # None => Record!ActiveSession \in Record!Session /\
           Record!ActiveSession <= ctl.started
  <2>1. ctl.started \in 0..MaxSessions /\ ctl.started < MaxSessions /\ MaxSessions \in Nat
    BY DEF RecordInv, RecordTypes, RecordControl, RecordSound, Record!StartSession
  <2>2. Record!ActiveSession # None => Record!ActiveSession \in Record!Session /\
          Record!ActiveSession <= ctl.started
    BY <1>1 DEF RecordInv, Sessions, Record!ActiveSession
  <2>3. ctl.started + 1 \in Record!Session /\ ctl.started + 1 \in 0..MaxSessions /\ ctl.started \in Nat
    BY <2>1 DEF Record!Session
  <2>4. ctl' = [sid |-> ctl.started + 1, active |-> TRUE, started |-> ctl.started + 1, status |-> ""]
    BY DEF Record!StartSession
  <2> QED BY <2>2, <2>3, <2>4
<1>4. RecordTypes'
  <2>1. Held(Filed')
    BY <1>2, HeldGrows DEF RecordInv, RecordTypes
  <2>2. Held(Filed)'
    BY <2>1 DEF Held, Record!StartSession
  <2>3. RecordSizes'
    BY DEF RecordInv, RecordTypes, RecordSizes, Record!StartSession
  <2>4. RecordControl'
    <3>1. console' \in [Console -> [pc : {"idle", "start", "end", "note", "endnote", "delay"},
                                    sid : Record!Session \cup {None}]]
      BY DEF RecordInv, RecordTypes, RecordControl, Record!StartSession
    <3>2. ctl' \in [sid : Record!Session \cup {None}, active : BOOLEAN, started : 0..MaxSessions,
                    status : {"", "pending", "saved", "failed"}]
      BY <1>3
    <3> QED BY <1>2, <3>1, <3>2 DEF RecordControl, Record!Session, Record!Event
  <2> QED BY <2>2, <2>3, <2>4 DEF RecordTypes
<1>5. Sessions'
  <2>1. \A s \in Record!Session : s > ctl.started => hist'.ended[s] = MaxEvents + 1
    <3>1. SUFFICES ASSUME NEW s \in Record!Session, s > ctl.started PROVE hist'.ended[s] = MaxEvents + 1
      OBVIOUS
    <3>2. s # Record!ActiveSession
      <4>1. s \in Nat /\ None \notin Record!Session
        BY SessionNat
      <4>2. Record!ActiveSession = s => s <= ctl.started
        BY <1>3, <4>1
      <4>3. ~(s <= ctl.started)
        <5>1. ctl.started \in Nat
          BY <1>3
        <5> QED BY <3>1, <4>1, <5>1
      <4> QED BY <4>2, <4>3
    <3> QED BY <1>2, <3>1, <3>2 DEF RecordInv, Sessions
  <2>2. ctl'.sid = ctl.started + 1 /\ ctl'.started = ctl.started + 1
    BY <1>3
  <2>3. ctl.started + 1 > ctl.started /\ \A s \in Record!Session : s > ctl.started + 1 => s > ctl.started
    <3>1. ctl.started \in Nat /\ \A s \in Record!Session : s \in Nat
      BY <1>3, SessionNat
    <3> QED BY <3>1
  <2>4. ctl.started + 1 # Record!ActiveSession /\ ctl.started + 1 <= ctl.started + 1
    <3>1. ctl.started + 1 # None
      BY <1>3, SessionNat
    <3>2. Record!ActiveSession = ctl.started + 1 => Record!ActiveSession <= ctl.started
      BY <1>3, <3>1
    <3>3. ctl.started \in Nat
      BY <1>3
    <3>4. ~(ctl.started + 1 <= ctl.started) /\ ctl.started + 1 <= ctl.started + 1
      BY <3>3
    <3> QED BY <3>2, <3>4
  <2>5. hist'.ended[ctl.started + 1] = MaxEvents + 1
    BY <1>3, <2>1, <2>3
  <2>6. \A s \in Record!Session : s > ctl.started + 1 => hist'.ended[s] = MaxEvents + 1
    BY <2>1, <2>3
  <2>7. Record!Session' = Record!Session
    BY DEF Record!Session
  <2> QED BY <1>3, <2>2, <2>4, <2>5, <2>6, <2>7 DEF Sessions
<1>6. RecordShape'
  BY <1>2 DEF RecordInv, RecordShape, Record!StartSession
<1>7. Behind'
  BY DEF RecordInv, Behind, Stored, Record!StartSession
<1>8. InLine' /\ NothingLost'
  BY <1>2 DEF RecordInv, InLine, NothingLost, OnItsWay, Record!StartSession
<1> QED BY <1>4, <1>5, <1>6, <1>7, <1>8 DEF RecordInv

LEMMA EndSessionStep == ASSUME RecordSound, RecordInv, NEW c \in Console, Record!EndSession(c) PROVE RecordInv'
<1>1. /\ ctl.sid \in Record!Session \cup {None}
      /\ hist' = Record!EndedNow(IF ctl.active THEN ctl.sid ELSE None)
  BY DEF RecordInv, RecordTypes, RecordControl, Record!EndedNow, Record!EndSession
<1>2. /\ Filed \subseteq Filed'
      /\ hist' \in [published : 0..MaxEvents, ended : [Record!Session -> 0..MaxEvents + 1],
                    found : SUBSET Record!Event, clean : BOOLEAN, cut : BOOLEAN, direct : BOOLEAN]
      /\ hist'.clean = hist.clean /\ hist'.cut = hist.cut /\ hist'.direct = hist.direct
      /\ hist'.found = hist.found
      /\ \A r \in Record!Session : r # (IF ctl.active THEN ctl.sid ELSE None) => hist'.ended[r] = hist.ended[r]
  BY <1>1, EndedProperties
<1>3. /\ ctl' \in [sid : Record!Session \cup {None}, active : BOOLEAN, started : 0..MaxSessions,
                   status : {"", "pending", "saved", "failed"}]
      /\ ctl'.sid = ctl.sid /\ ctl'.started = ctl.started /\ ctl'.active = FALSE
  <2>1. CASE ctl.active
    BY <2>1 DEF RecordInv, RecordTypes, RecordControl, Record!EndSession
  <2>2. CASE ~ctl.active
    BY <2>2 DEF RecordInv, RecordTypes, RecordControl, Record!EndSession
  <2> QED BY <2>1, <2>2
<1>4. RecordTypes'
  <2>1. Held(Filed')
    BY <1>2, HeldGrows DEF RecordInv, RecordTypes
  <2>2. Held(Filed)'
    BY <2>1 DEF Held, Record!EndSession
  <2>3. RecordSizes'
    BY DEF RecordInv, RecordTypes, RecordSizes, Record!EndSession
  <2>4. RecordControl'
    <3>1. console' \in [Console -> [pc : {"idle", "start", "end", "note", "endnote", "delay"},
                                    sid : Record!Session \cup {None}]]
      <4>1. /\ console \in [Console -> [pc : {"idle", "start", "end", "note", "endnote", "delay"},
                                         sid : Record!Session \cup {None}]]
            /\ \/ console' = [console EXCEPT ![c] = [pc |-> "endnote", sid |-> ctl.sid]]
               \/ console' = [console EXCEPT ![c].pc = "note"]
        BY DEF RecordInv, RecordTypes, RecordControl, Record!EndSession
      <4> QED BY <1>1, <4>1
    <3> QED BY <1>2, <1>3, <3>1 DEF RecordControl, Record!Session, Record!Event
  <2> QED BY <2>2, <2>3, <2>4 DEF RecordTypes
<1>5. Sessions'
  <2>1. ASSUME NEW s \in Record!Session, s > ctl.started PROVE hist'.ended[s] = MaxEvents + 1
    <3>1. ctl.active => s # ctl.sid
      <4>1. s \in Nat /\ ctl.started \in Nat /\ None \notin Record!Session
        <5>1. ctl.started \in 0..MaxSessions
          BY DEF RecordInv, RecordTypes, RecordControl
        <5> QED BY <5>1, SessionNat DEF RecordSound
      <4>2. ctl.sid # None => ctl.sid <= ctl.started
        BY DEF RecordInv, Sessions
      <4>3. s = ctl.sid => s <= ctl.started
        BY <4>1, <4>2
      <4> QED BY <2>1, <4>1, <4>3
    <3>2. s # (IF ctl.active THEN ctl.sid ELSE None)
      BY <3>1 DEF RecordSound
    <3> QED BY <1>2, <2>1, <3>2 DEF RecordInv, Sessions
  <2> QED BY <1>3, <2>1 DEF RecordInv, Sessions, Record!Session
<1>6. RecordShape'
  BY <1>2 DEF RecordInv, RecordShape, Record!EndSession
<1>7. Behind'
  BY DEF RecordInv, Behind, Stored, Record!EndSession
<1>8. InLine' /\ NothingLost'
  BY <1>2 DEF RecordInv, InLine, NothingLost, OnItsWay, Record!EndSession
<1> QED BY <1>4, <1>5, <1>6, <1>7, <1>8 DEF RecordInv

\* A note takes a place in the queue, and nothing else.
LEMMA NotedProperties ==
    ASSUME RecordSound, RecordInv, NEW s \in Record!Session \cup {None}, Record!Noted(s)
    PROVE  /\ queue' \in Seq(Filed) /\ Len(queue') <= QueueSize
           /\ \A x \in In(queue') : x \in In(queue) \/ x.kind = "note"
           /\ InLine => (~hist.cut => Line(hist.direct, table, worker.batch, critical, queue'))
           /\ Record!Events(queue') = Record!Events(queue)
<1>1. queue \in Seq(Filed) /\ Len(queue) <= QueueSize /\ QueueSize \in Nat /\ Len(queue) \in Nat
  BY RecordParts DEF RecordInv, RecordTypes, RecordSizes, RecordSound
<1>2. Record!Note(s) \in Filed /\ Record!Note(s).kind = "note"
  <2>1. Record!Note(s) = [n |-> 0, by |-> None, kind |-> "note", sid |-> s]
    BY DEF Record!Note
  <2>2. 0 \in 0..MaxEvents
    BY DEF RecordSound
  <2>3. Record!Note(s) \in Record!Event /\ Record!Note(s).n = 0 /\ Record!Note(s).sid = s /\
          Record!Note(s).kind = "note"
    BY <2>1, <2>2 DEF Record!Event
  <2>4. 0 <= hist.published /\ (s # None => 0 <= hist.ended[s])
    <3>1. hist.published \in 0..MaxEvents /\ hist.ended \in [Record!Session -> 0..MaxEvents + 1]
      BY DEF RecordInv, RecordTypes, RecordControl
    <3>2. \A k \in 0..MaxEvents : 0 <= k
      OBVIOUS
    <3>3. s # None => hist.ended[s] \in 0..MaxEvents + 1
      BY <3>1
    <3>4. \A k \in 0..MaxEvents + 1 : 0 <= k
      OBVIOUS
    <3> QED BY <3>1, <3>2, <3>3, <3>4
  <2> QED BY <2>3, <2>4 DEF Filed
<1>3. CASE Len(queue) < QueueSize
  <2>1. queue' = Append(queue, Record!Note(s))
    BY <1>3 DEF Record!Noted
  <2>2. queue' \in Seq(Filed) /\ Len(queue') = Len(queue) + 1
    BY <1>1, <1>2, <2>1
  <2>3. In(queue') = In(queue) \cup {Record!Note(s)}
    BY <1>1, <1>2, <2>1, AppendOne
  <2>4. Record!Events(queue') = Record!Events(queue)
    <3>1. /\ Record!Events(queue') = {x \in In(queue') : x.kind \in {"state", "move"}}
          /\ Record!Events(queue) = {x \in In(queue) : x.kind \in {"state", "move"}}
      BY <1>1, <2>2, EventsAre
    <3> QED BY <1>2, <2>3, <3>1
  <2>5. ASSUME InLine, ~hist.cut PROVE Line(hist.direct, table, worker.batch, critical, queue')
    <3>1. Line(hist.direct, table, worker.batch, critical, queue)
      BY <2>5 DEF InLine
    <3>2. \A x : Follows(hist.direct, x, Record!Note(s))
      BY <1>2 DEF Follows
    <3> QED BY <1>2, <2>1, <3>1, <3>2, RecordParts, LineJoins
  <2> QED BY <1>1, <1>2, <1>3, <2>2, <2>3, <2>4, <2>5
<1>4. CASE ~(Len(queue) < QueueSize)
  <2>1. queue' = queue
    BY <1>4 DEF Record!Noted
  <2> QED BY <1>1, <2>1 DEF InLine
<1> QED BY <1>3, <1>4

LEMMA PublishSnapshotStep ==
    ASSUME RecordSound, RecordInv, NEW c \in Console, Record!PublishSnapshot(c)
    PROVE  RecordInv'
<1>1. Filed' = Filed
  BY FiledSame DEF Record!PublishSnapshot
<1>2. ctl.sid \in Record!Session \cup {None} /\ Record!Noted(ctl.sid)
  BY DEF RecordInv, RecordTypes, RecordControl, Record!PublishSnapshot
<1>3. /\ queue' \in Seq(Filed) /\ Len(queue') <= QueueSize
      /\ \A x \in In(queue') : x \in In(queue) \/ x.kind = "note"
      /\ InLine => (~hist.cut => Line(hist.direct, table, worker.batch, critical, queue'))
      /\ Record!Events(queue') = Record!Events(queue)
  BY <1>2, NotedProperties
<1>4. RecordTypes'
  <2>1. Held(Filed)'
    BY <1>1, <1>3 DEF RecordInv, RecordTypes, Held, Record!PublishSnapshot
  <2>2. RecordSizes' /\ RecordControl'
    BY <1>3 DEF RecordInv, RecordTypes, RecordSizes, RecordControl, Record!PublishSnapshot
  <2> QED BY <2>1, <2>2 DEF RecordTypes
<1>5. Sessions'
  BY DEF RecordInv, Sessions, Record!PublishSnapshot
<1>6. RecordShape'
  BY <1>3 DEF RecordInv, RecordShape, Record!PublishSnapshot
<1>7. Behind'
  BY <1>3 DEF RecordInv, Behind, Stored, Record!PublishSnapshot
<1>8. InLine' /\ NothingLost'
  BY <1>3 DEF RecordInv, InLine, NothingLost, OnItsWay, Record!PublishSnapshot
<1> QED BY <1>4, <1>5, <1>6, <1>7, <1>8 DEF RecordInv

LEMMA PublishDropDiagnosticsStep ==
    ASSUME RecordSound, RecordInv, NEW p \in Publisher, Record!PublishDropDiagnostics(p) PROVE RecordInv'
<1>1. Filed' = Filed
  BY FiledSame DEF Record!PublishDropDiagnostics
<1>2. Record!ActiveSession \in Record!Session \cup {None} /\ Record!Noted(Record!ActiveSession)
  BY DEF RecordInv, RecordTypes, RecordControl, Record!ActiveSession, Record!PublishDropDiagnostics
<1>3. /\ queue' \in Seq(Filed) /\ Len(queue') <= QueueSize
      /\ \A x \in In(queue') : x \in In(queue) \/ x.kind = "note"
      /\ InLine => (~hist.cut => Line(hist.direct, table, worker.batch, critical, queue'))
      /\ Record!Events(queue') = Record!Events(queue)
  BY <1>2, NotedProperties
<1>4. /\ thread' \in [Publisher -> [pc : {"idle", "tag", "put", "diag"}, e : Filed]]
      /\ \A r \in Publisher : thread'[r].pc \in {"tag", "put"} => thread'[r] = thread[r]
  BY DEF RecordInv, RecordTypes, Held, Record!PublishDropDiagnostics
<1>5. RecordTypes'
  <2>1. Held(Filed)'
    BY <1>1, <1>3, <1>4 DEF RecordInv, RecordTypes, Held, Record!PublishDropDiagnostics
  <2>2. RecordSizes' /\ RecordControl'
    BY <1>3 DEF RecordInv, RecordTypes, RecordSizes, RecordControl, Record!PublishDropDiagnostics
  <2> QED BY <2>1, <2>2 DEF RecordTypes
<1>6. Sessions'
  BY DEF RecordInv, Sessions, Record!PublishDropDiagnostics
<1>7. RecordShape'
  BY <1>3, <1>4 DEF RecordInv, RecordShape, Record!PublishDropDiagnostics
<1>8. Behind'
  BY <1>3, <1>4 DEF RecordInv, Behind, Stored, Record!PublishDropDiagnostics
<1>9. InLine' /\ NothingLost'
  BY <1>3 DEF RecordInv, InLine, NothingLost, OnItsWay, Record!PublishDropDiagnostics
<1> QED BY <1>5, <1>6, <1>7, <1>8, <1>9 DEF RecordInv

LEMMA CrashStep == ASSUME RecordSound, RecordInv, Record!Crash PROVE RecordInv'
<1>1. /\ hist' \in [published : 0..MaxEvents, ended : [Record!Session -> 0..MaxEvents + 1],
                    found : SUBSET Record!Event, clean : BOOLEAN, cut : BOOLEAN, direct : BOOLEAN]
      /\ hist'.published = hist.published /\ hist'.ended = hist.ended /\ hist'.cut /\ ~hist'.clean
  BY DEF RecordInv, RecordTypes, RecordControl, Record!Crash
<1>2. Filed' = Filed
  BY <1>1, FiledSame
<1>3. Record!NoEvent \in Filed
  <2>1. Record!NoEvent = [n |-> 0, by |-> None, kind |-> "note", sid |-> None] /\ 0 \in 0..MaxEvents
    BY DEF Record!NoEvent, Record!Note, RecordSound
  <2>2. Record!NoEvent \in Record!Event /\ Record!NoEvent.n = 0 /\ Record!NoEvent.sid = None
    BY <2>1 DEF Record!Event
  <2>3. 0 <= hist.published
    <3>1. hist.published \in 0..MaxEvents
      BY DEF RecordInv, RecordTypes, RecordControl
    <3> QED BY <3>1 DEF RecordSound
  <2> QED BY <2>2, <2>3 DEF Filed
<1>4. /\ queue' = <<>> /\ critical' = <<>> /\ orphan' = <<>> /\ table' = table
      /\ worker' = [pc |-> "off", batch |-> <<>>, stop |-> TRUE]
      /\ thread' = [p \in Publisher |-> [pc |-> "idle", e |-> Record!NoEvent]]
  BY DEF Record!Crash
<1>5. In(<<>>) = {} /\ <<>> \in Seq(Filed) /\ Len(<<>>) = 0
  BY DEF In
<1>6. RecordTypes'
  <2>1. thread' \in [Publisher -> [pc : {"idle", "tag", "put", "diag"}, e : Filed]]
    BY <1>3, <1>4
  <2>2. worker' \in [pc : {"off", "loop", "taken", "save", "flush"}, batch : Seq(Filed), stop : BOOLEAN]
    BY <1>4, <1>5
  <2>3. Held(Filed)'
    BY <1>2, <1>4, <1>5, <2>1, <2>2, RecordParts DEF Held
  <2>4. RecordSizes'
    BY <1>4, <1>5 DEF RecordSizes, RecordSound
  <2>5. RecordControl'
    <3>1. ctl' \in [sid : Record!Session \cup {None}, active : BOOLEAN, started : 0..MaxSessions,
                    status : {"", "pending", "saved", "failed"}]
      BY DEF RecordInv, RecordTypes, RecordControl, Record!Crash
    <3>2. console' \in [Console -> [pc : {"idle", "start", "end", "note", "endnote", "delay"},
                                    sid : Record!Session \cup {None}]]
      BY DEF Record!Crash
    <3> QED BY <1>1, <3>1, <3>2 DEF RecordControl, Record!Session, Record!Event
  <2> QED BY <2>3, <2>4, <2>5 DEF RecordTypes
<1>7. Sessions'
  <2>1. ctl'.sid = None /\ ctl'.active = FALSE /\ ctl'.started = ctl.started
    BY DEF RecordInv, RecordTypes, RecordControl, Record!Crash
  <2> QED BY <1>1, <2>1 DEF RecordInv, Sessions, Record!Session
<1>8. RecordShape'
  BY <1>1, <1>4, <1>5 DEF RecordInv, RecordShape
<1>9. Behind'
  BY <1>4 DEF Behind
<1>10. InLine' /\ NothingLost'
  BY <1>1 DEF InLine, NothingLost
<1> QED BY <1>6, <1>7, <1>8, <1>9, <1>10 DEF RecordInv

\* Batch b and queues c and q come from batch a and the queues as they are by moving first events of
\* the queues to the batch.
Taken(a, b, c, q) ==
    /\ b \in Seq(Filed) /\ c \in Seq(Filed) /\ q \in Seq(Filed)
    /\ In(b) \subseteq In(a) \cup In(critical) \cup In(queue)
    /\ In(c) \subseteq In(critical) /\ In(q) \subseteq In(queue)
    /\ Record!Events(b) \cup Record!Events(c) \cup Record!Events(q) = Record!Events(a) \cup
         Record!Events(critical) \cup Record!Events(queue)
    /\ \A d : Line(d, table, a, critical, queue) => Line(d, table, b, c, q)

LEMMA Moved ==
    ASSUME RecordSound, RecordInv, NEW batch \in Seq(Filed),
           NEW c1 \in Seq(Filed), NEW c2 \in Seq(Filed), NEW q1 \in Seq(Filed), NEW q2 \in Seq(Filed),
           critical = c1 \o c2, queue = q1 \o q2
    PROVE  Taken(batch, (batch \o c1) \o q1, c2, q2)
<1> DEFINE m == batch \o c1
           n == m \o q1
<1>1. m \in Seq(Filed) /\ In(m) = In(batch) \cup In(c1)
  BY ConcatIn
<1>2. n \in Seq(Filed) /\ In(n) = In(m) \cup In(q1)
  <2> HIDE DEF m
  <2> QED BY <1>1, ConcatIn
<1>3. In(critical) = In(c1) \cup In(c2) /\ In(queue) = In(q1) \cup In(q2)
  BY ConcatIn
<1> HIDE DEF m, n
<1>4. Record!Events(n) \cup Record!Events(c2) \cup Record!Events(q2) = Record!Events(batch) \cup
        Record!Events(critical) \cup Record!Events(queue)
  <2>1. /\ Record!Events(n) = {x \in In(n) : x.kind \in {"state", "move"}}
        /\ Record!Events(c2) = {x \in In(c2) : x.kind \in {"state", "move"}}
        /\ Record!Events(q2) = {x \in In(q2) : x.kind \in {"state", "move"}}
        /\ Record!Events(batch) = {x \in In(batch) : x.kind \in {"state", "move"}}
        /\ Record!Events(critical) = {x \in In(critical) : x.kind \in {"state", "move"}}
        /\ Record!Events(queue) = {x \in In(queue) : x.kind \in {"state", "move"}}
    BY <1>2, EventsAre, RecordParts
  <2> QED BY <1>1, <1>2, <1>3, <2>1
<1>5. ASSUME NEW d, Line(d, table, batch, critical, queue) PROVE Line(d, table, n, c2, q2)
  <2>1. \A x \in In(c1 \o c2), y \in In(q1 \o q2) : x.kind # y.kind
    BY DEF RecordInv, RecordShape
  <2>2. table \in Seq(Filed) /\ Line(d, table, batch, c1 \o c2, q1 \o q2)
    BY <1>5, RecordParts
  <2>3. Line(d, table, (batch \o c1) \o q1, c2, q2)
    BY <2>1, <2>2, LineMoves
  <2> QED BY <2>3 DEF m, n
<1>6. Taken(batch, n, c2, q2)
  BY <1>1, <1>2, <1>3, <1>4, <1>5 DEF Taken
<1> QED BY <1>6 DEF m, n

LEMMA Filled ==
    ASSUME RecordSound, RecordInv, NEW batch \in Seq(Filed), Len(batch) <= BatchSize
    PROVE  \E b, c, q \in Seq(Filed) :
             /\ Record!Fill(batch) = [batch |-> b, critical |-> c, queue |-> q]
             /\ Taken(batch, b, c, q)
             /\ Len(b) <= BatchSize /\ Len(c) <= CriticalSize /\ Len(q) <= QueueSize
             /\ b = <<>> => critical = <<>> /\ queue = <<>>
<1> DEFINE room == BatchSize - Len(batch)
           c1 == Record!AtMost(room, critical)
           c2 == Record!Beyond(Len(c1), critical)
           q1 == Record!AtMost(room - Len(c1), queue)
           q2 == Record!Beyond(Len(q1), queue)
<1>1. room \in Nat /\ Len(batch) \in Nat /\ room + Len(batch) = BatchSize /\ BatchSize \in Nat \ {0}
  <2>1. Len(batch) \in Nat /\ BatchSize \in Nat \ {0}
    BY DEF RecordSound
  <2> QED BY <2>1
<1>2. /\ critical \in Seq(Filed) /\ queue \in Seq(Filed)
      /\ Len(critical) <= CriticalSize /\ Len(queue) <= QueueSize /\ Len(critical) \in Nat /\ Len(queue) \in Nat
      /\ CriticalSize \in Nat /\ QueueSize \in Nat
  BY RecordParts DEF RecordInv, RecordTypes, RecordSizes, RecordSound
<1> HIDE DEF room
<1>3. /\ c1 \in Seq(Filed) /\ c2 \in Seq(Filed) /\ critical = c1 \o c2
      /\ Len(c1) = (IF room < Len(critical) THEN room ELSE Len(critical))
      /\ Len(c2) = Len(critical) - Len(c1)
  BY <1>1, <1>2, TwoEnds
<1> HIDE DEF c1, c2
<1>4. Len(c1) \in Nat /\ Len(c1) <= room /\ room - Len(c1) \in Nat /\ Len(c2) <= CriticalSize
  BY <1>1, <1>2, <1>3
<1>5. /\ q1 \in Seq(Filed) /\ q2 \in Seq(Filed) /\ queue = q1 \o q2
      /\ Len(q1) = (IF room - Len(c1) < Len(queue) THEN room - Len(c1) ELSE Len(queue))
      /\ Len(q2) = Len(queue) - Len(q1)
  BY <1>2, <1>4, TwoEnds
<1> HIDE DEF q1, q2
<1>6. Len(q1) \in Nat /\ Len(q1) <= room - Len(c1) /\ Len(q2) <= QueueSize
  BY <1>1, <1>2, <1>4, <1>5
<1>7. Record!Fill(batch) = [batch |-> (batch \o c1) \o q1, critical |-> c2, queue |-> q2]
  BY DEF Record!Fill, room, c1, c2, q1, q2
<1> DEFINE n == (batch \o c1) \o q1
<1>8. Len(n) = Len(batch) + Len(c1) + Len(q1)
  <2> DEFINE m == batch \o c1
  <2>1. m \in Seq(Filed) /\ Len(m) = Len(batch) + Len(c1)
    BY <1>3, ConcatProperties
  <2> HIDE DEF m
  <2>2. Len(m \o q1) = Len(m) + Len(q1)
    BY <1>5, <2>1, ConcatProperties
  <2> QED BY <2>1, <2>2 DEF m
<1> HIDE DEF n
<1>9. Len(n) <= BatchSize
  BY <1>1, <1>4, <1>6, <1>8
<1>10. ASSUME n = <<>> PROVE critical = <<>> /\ queue = <<>>
  <2>1. Len(n) = 0
    BY <1>10
  <2>2. Len(batch) = 0 /\ Len(c1) = 0 /\ Len(q1) = 0
    <3>1. Len(batch) + Len(c1) + Len(q1) = 0
      BY <1>8, <2>1
    <3> QED BY <1>1, <1>4, <1>6, <3>1
  <2>3. Len(critical) = 0 /\ Len(queue) = 0
    BY <1>1, <1>2, <1>3, <1>5, <2>2
  <2> QED BY <1>2, <2>3
<1>11. Taken(batch, n, c2, q2)
  BY <1>3, <1>5, Moved DEF n
<1>12. n \in Seq(Filed)
  BY <1>11 DEF Taken
<1>13. Record!Fill(batch) = [batch |-> n, critical |-> c2, queue |-> q2]
  BY <1>7 DEF n
<1> QED BY <1>3, <1>4, <1>5, <1>6, <1>9, <1>10, <1>11, <1>12, <1>13

\* A batch, full or not, takes its place and the queues what is left of them.
LEMMA TakenStep ==
    ASSUME RecordSound, RecordInv, NEW b, Taken(worker.batch, b, critical', queue'),
           Len(b) <= BatchSize, Len(critical') <= CriticalSize, Len(queue') <= QueueSize,
           worker.pc # "off", NEW pc \in {"taken", "save"}, worker' = [worker EXCEPT !.pc = pc, !.batch = b],
           UNCHANGED <<ctl, thread, console, orphan, table, hist>>
    PROVE  RecordInv'
<1>1. Filed' = Filed
  BY FiledSame
<1>2. worker' = [pc |-> pc, batch |-> b, stop |-> worker.stop]
  BY DEF RecordInv, RecordTypes, Held
<1>3. /\ b \in Seq(Filed) /\ critical' \in Seq(Filed) /\ queue' \in Seq(Filed)
      /\ In(b) \subseteq In(worker.batch) \cup In(critical) \cup In(queue)
      /\ In(critical') \subseteq In(critical) /\ In(queue') \subseteq In(queue)
      /\ Record!Events(b) \cup Record!Events(critical') \cup Record!Events(queue')
           = Record!Events(worker.batch) \cup Record!Events(critical) \cup Record!Events(queue)
      /\ \A d : Line(d, table, worker.batch, critical, queue) => Line(d, table, b, critical', queue')
  BY DEF Taken
<1>4. RecordTypes'
  <2>1. worker' \in [pc : {"off", "loop", "taken", "save", "flush"}, batch : Seq(Filed), stop : BOOLEAN]
    BY <1>2, <1>3 DEF RecordInv, RecordTypes, Held
  <2>2. Held(Filed)'
    BY <1>1, <1>3, <2>1 DEF RecordInv, RecordTypes, Held
  <2>3. RecordSizes' /\ RecordControl'
    BY <1>2 DEF RecordInv, RecordTypes, RecordSizes, RecordControl
  <2> QED BY <2>2, <2>3 DEF RecordTypes
<1>5. Sessions'
  BY DEF RecordInv, Sessions
<1>6. RecordShape'
  BY <1>2, <1>3 DEF RecordInv, RecordShape
<1>7. Behind'
  <2>1. Stored' \subseteq Stored
    BY <1>2, <1>3 DEF Stored
  <2> QED BY <2>1 DEF RecordInv, Behind
<1>8. InLine'
  BY <1>2, <1>3 DEF RecordInv, InLine
<1>9. NothingLost'
  BY <1>2, <1>3 DEF RecordInv, NothingLost, OnItsWay
<1> QED BY <1>4, <1>5, <1>6, <1>7, <1>8, <1>9 DEF RecordInv

LEMMA CollectFirstStep == ASSUME RecordSound, RecordInv, Record!CollectFirst PROVE RecordInv'
<1>1. /\ critical \in Seq(Filed) /\ queue \in Seq(Filed) /\ <<>> \in Seq(Filed)
      /\ Len(critical) \in Nat /\ Len(queue) \in Nat
      /\ Len(critical) <= CriticalSize /\ Len(queue) <= QueueSize
  BY RecordParts DEF RecordInv, RecordTypes, RecordSizes
<1>2. worker.batch = <<>> /\ worker.pc = "loop"
  BY DEF RecordInv, RecordShape, Record!CollectFirst
<1>3. CASE critical # <<>> /\ worker' = [worker EXCEPT !.pc = "taken", !.batch = <<Head(critical)>>]
           /\ critical' = Tail(critical) /\ UNCHANGED queue
  <2> DEFINE one == <<Head(critical)>>
             rest == Tail(critical)
  <2>1. one \in Seq(Filed) /\ rest \in Seq(Filed) /\ critical = one \o rest /\ Len(rest) = Len(critical) - 1 /\
          Len(one) = 1
    BY <1>1, <1>3, HeadAndTail
  <2>2. critical' = rest /\ queue' = queue /\ worker' = [worker EXCEPT !.pc = "taken", !.batch = one]
    BY <1>3
  <2> HIDE DEF one, rest
  <2>3. queue = <<>> \o queue /\ (<<>> \o one) \o <<>> = one
    BY <1>1, <2>1
  <2>4. Taken(<<>>, (<<>> \o one) \o <<>>, rest, queue)
    BY <1>1, <2>1, <2>3, Moved
  <2>5. Taken(worker.batch, one, critical', queue')
    BY <1>2, <2>2, <2>3, <2>4
  <2>6. Len(one) <= BatchSize /\ Len(critical') <= CriticalSize /\ Len(queue') <= QueueSize
    BY <1>1, <2>1, <2>2 DEF RecordSound
  <2> QED BY <1>2, <2>2, <2>5, <2>6, TakenStep DEF Record!CollectFirst
<1>4. CASE queue # <<>> /\ worker' = [worker EXCEPT !.pc = "taken", !.batch = <<Head(queue)>>]
           /\ queue' = Tail(queue) /\ UNCHANGED critical /\ critical = <<>>
  <2> DEFINE one == <<Head(queue)>>
             rest == Tail(queue)
  <2>1. one \in Seq(Filed) /\ rest \in Seq(Filed) /\ queue = one \o rest /\ Len(rest) = Len(queue) - 1 /\
          Len(one) = 1
    BY <1>1, <1>4, HeadAndTail
  <2>2. queue' = rest /\ critical' = critical /\ worker' = [worker EXCEPT !.pc = "taken", !.batch = one]
    BY <1>4
  <2> HIDE DEF one, rest
  <2>3. critical = <<>> \o critical /\ (<<>> \o <<>>) \o one = one
    BY <1>1, <2>1
  <2>4. Taken(<<>>, (<<>> \o <<>>) \o one, critical, rest)
    BY <1>1, <2>1, <2>3, Moved
  <2>5. Taken(worker.batch, one, critical', queue')
    BY <1>2, <2>2, <2>3, <2>4
  <2>6. Len(one) <= BatchSize /\ Len(critical') <= CriticalSize /\ Len(queue') <= QueueSize
    BY <1>1, <2>1, <2>2 DEF RecordSound
  <2> QED BY <1>2, <2>2, <2>5, <2>6, TakenStep DEF Record!CollectFirst
<1> QED BY <1>3, <1>4 DEF Record!CollectFirst

LEMMA CollectRestStep == ASSUME RecordSound, RecordInv, Record!CollectRest PROVE RecordInv'
<1>1. worker.batch \in Seq(Filed) /\ Len(worker.batch) <= BatchSize
  BY RecordParts DEF RecordInv, RecordTypes, RecordSizes
<1>2. PICK b \in Seq(Filed), c \in Seq(Filed), q \in Seq(Filed) :
        /\ Record!Fill(worker.batch) = [batch |-> b, critical |-> c, queue |-> q]
        /\ Taken(worker.batch, b, c, q)
        /\ Len(b) <= BatchSize /\ Len(c) <= CriticalSize /\ Len(q) <= QueueSize
  BY <1>1, Filled
<1>3. worker' = [worker EXCEPT !.pc = "save", !.batch = b] /\ critical' = c /\ queue' = q /\ worker.pc = "taken"
  BY <1>2 DEF Record!CollectRest
<1> QED BY <1>2, <1>3, TakenStep DEF Record!CollectRest

LEMMA EventsMore ==
    ASSUME NEW S, NEW a \in Seq(S), NEW b \in Seq(S), In(a) \subseteq In(b)
    PROVE  Record!Events(a) \subseteq Record!Events(b)
<1>1. /\ Record!Events(a) = {x \in In(a) : x.kind \in {"state", "move"}}
      /\ Record!Events(b) = {x \in In(b) : x.kind \in {"state", "move"}}
  BY EventsAre
<1> QED BY <1>1

\* Rows that are saved are in the table, or they are no longer waited for.
SavedAre(rows) ==
    /\ table' \in Seq(Filed)
    /\ \A x \in In(table') : x \in In(table) \/ (x \in In(rows) /\ x.kind # "note")
    /\ \E more \in Seq(Record!Event) : table' = table \o more
    /\ \A c, q \in Seq(Filed) :
         Line(hist.direct, table, rows, c, q) => Line(hist.direct, table', <<>>, c, q)
    /\ Record!Events(table) \subseteq Record!Events(table')
    /\ hist' \in [published : 0..MaxEvents, ended : [Record!Session -> 0..MaxEvents + 1],
                  found : SUBSET Record!Event, clean : BOOLEAN, cut : BOOLEAN, direct : BOOLEAN]
    /\ hist'.published = hist.published /\ hist'.ended = hist.ended
    /\ hist'.clean = hist.clean /\ hist'.cut = hist.cut /\ hist'.direct = hist.direct
    /\ hist'.found \subseteq hist.found /\ hist'.found \cap Record!Events(rows) \subseteq Record!Events(table')

LEMMA RolledBackSaves ==
    ASSUME RecordSound, RecordInv, NEW rows \in Seq(Filed), Record!RolledBack(rows)
    PROVE  SavedAre(rows)
<1>1. hist \in [published : 0..MaxEvents, ended : [Record!Session -> 0..MaxEvents + 1],
                found : SUBSET Record!Event, clean : BOOLEAN, cut : BOOLEAN, direct : BOOLEAN]
  BY DEF RecordInv, RecordTypes, RecordControl
<1>2. hist.found \ Record!Events(rows) \in SUBSET Record!Event
  BY <1>1
<1>3. table' = table /\ hist' = [hist EXCEPT !.found = hist.found \ Record!Events(rows)]
  BY DEF Record!RolledBack
<1>4. /\ hist' \in [published : 0..MaxEvents, ended : [Record!Session -> 0..MaxEvents + 1],
                    found : SUBSET Record!Event, clean : BOOLEAN, cut : BOOLEAN, direct : BOOLEAN]
      /\ hist'.published = hist.published /\ hist'.ended = hist.ended
      /\ hist'.clean = hist.clean /\ hist'.cut = hist.cut /\ hist'.direct = hist.direct
      /\ hist'.found = hist.found \ Record!Events(rows)
  BY <1>1, <1>2, <1>3
<1>5. table \in Seq(Filed) /\ <<>> \in Seq(Record!Event) /\ table = table \o <<>>
  BY RecordParts
<1>6. ASSUME NEW c \in Seq(Filed), NEW q \in Seq(Filed), Line(hist.direct, table, rows, c, q)
      PROVE  Line(hist.direct, table, <<>>, c, q)
  BY <1>5, <1>6, LineStores
<1> QED BY <1>3, <1>4, <1>5, <1>6 DEF SavedAre

LEMMA CommittedSaves ==
    ASSUME RecordSound, RecordInv, NEW rows \in Seq(Filed), Record!Committed(rows)
    PROVE  SavedAre(rows)
<1>1. hist \in [published : 0..MaxEvents, ended : [Record!Session -> 0..MaxEvents + 1],
                found : SUBSET Record!Event, clean : BOOLEAN, cut : BOOLEAN, direct : BOOLEAN]
  BY DEF RecordInv, RecordTypes, RecordControl
<1>2. table \in Seq(Filed)
  BY RecordParts
<1> DEFINE game == Record!Only({"state", "move"}, rows)
<1>3. game \in Seq(Filed) /\ In(game) = {x \in In(rows) : x.kind \in {"state", "move"}}
  BY OnlyProperties
<1>4. table' = table \o game /\ hist' = hist
  BY DEF Record!Committed, Record!Game
<1>5. ASSUME NEW c \in Seq(Filed), NEW q \in Seq(Filed), Line(hist.direct, table, rows, c, q)
      PROVE  Line(hist.direct, table', <<>>, c, q)
  BY <1>2, <1>4, <1>5, LineStores
<1> HIDE DEF game
<1>6. table' \in Seq(Filed) /\ In(table') = In(table) \cup In(game)
  BY <1>2, <1>3, <1>4, ConcatIn
<1>7. Record!Events(table) \subseteq Record!Events(table')
  BY <1>2, <1>6, EventsMore
<1>8. Record!Events(rows) \subseteq Record!Events(table')
  <2>1. /\ Record!Events(rows) = {x \in In(rows) : x.kind \in {"state", "move"}}
        /\ Record!Events(table') = {x \in In(table') : x.kind \in {"state", "move"}}
    BY <1>6, EventsAre
  <2> QED BY <1>3, <1>6, <2>1
<1>9. game \in Seq(Record!Event)
  <2>1. Filed \subseteq Record!Event
    BY RecordParts
  <2> QED BY <1>3, <2>1, SeqMonotonic
<1> QED BY <1>1, <1>3, <1>4, <1>5, <1>6, <1>7, <1>8, <1>9 DEF SavedAre

LEMMA SaveEventsSaves ==
    ASSUME RecordSound, RecordInv, NEW rows \in Seq(Filed), Record!SaveEvents(rows)
    PROVE  SavedAre(rows)
  BY RolledBackSaves, CommittedSaves DEF Record!SaveEvents

\* Rows are saved out of the batch, the queues or an executor's hands.
LEMMA SavedStep ==
    ASSUME RecordSound, RecordInv, NEW rows \in Seq(Filed), SavedAre(rows),
           In(rows) \subseteq Stored,
           critical' \in Seq(Filed), queue' \in Seq(Filed), orphan' \in {orphan, <<>>},
           In(critical') \subseteq In(critical), In(queue') \subseteq In(queue),
           Len(critical') <= CriticalSize, Len(queue') <= QueueSize,
           NEW pc \in {"off", "loop", "taken", "save", "flush"}, NEW batch \in {<<>>, worker.batch},
           worker' = [worker EXCEPT !.pc = pc, !.batch = batch],
           pc \in {"off", "loop", "flush"} => batch = <<>>,
           ~hist.cut => Line(hist.direct, table, rows, critical', queue') /\ batch = <<>>,
           hist.clean => hist.found \subseteq Record!Events(table) \cup Record!Events(rows) \cup OnItsWay',
           UNCHANGED <<ctl, thread, console>>
    PROVE  RecordInv'
<1>1. /\ table' \in Seq(Filed)
      /\ \A x \in In(table') : x \in In(table) \/ (x \in In(rows) /\ x.kind # "note")
      /\ Record!Events(table) \subseteq Record!Events(table')
      /\ hist' \in [published : 0..MaxEvents, ended : [Record!Session -> 0..MaxEvents + 1],
                    found : SUBSET Record!Event, clean : BOOLEAN, cut : BOOLEAN, direct : BOOLEAN]
      /\ hist'.published = hist.published /\ hist'.ended = hist.ended
      /\ hist'.clean = hist.clean /\ hist'.cut = hist.cut /\ hist'.direct = hist.direct
      /\ hist'.found \subseteq hist.found /\ hist'.found \cap Record!Events(rows) \subseteq Record!Events(table')
  BY DEF SavedAre
<1>2. \A c, q \in Seq(Filed) :
         Line(hist.direct, table, rows, c, q) => Line(hist.direct, table', <<>>, c, q)
  BY DEF SavedAre
<1>3. Filed' = Filed
  BY <1>1, FiledSame
<1>4. worker' = [pc |-> pc, batch |-> batch, stop |-> worker.stop]
  BY DEF RecordInv, RecordTypes, Held
<1>5. /\ worker.batch \in Seq(Filed) /\ orphan \in Seq(Filed) /\ <<>> \in Seq(Filed)
      /\ In(<<>>) = {} /\ Len(<<>>) = 0
  <2>1. In(<<>>) = {}
    BY DEF In
  <2> QED BY <2>1, RecordParts
<1>6. RecordTypes'
  <2>1. worker' \in [pc : {"off", "loop", "taken", "save", "flush"}, batch : Seq(Filed), stop : BOOLEAN]
    BY <1>4, <1>5 DEF RecordInv, RecordTypes, Held
  <2>2. Held(Filed)'
    BY <1>1, <1>3, <1>5, <2>1 DEF RecordInv, RecordTypes, Held
  <2>3. RecordSizes'
    <3>1. worker'.batch = batch
      BY <1>4
    <3> QED BY <1>5, <3>1 DEF RecordInv, RecordTypes, RecordSizes, RecordSound
  <2>4. RecordControl'
    BY <1>1 DEF RecordInv, RecordTypes, RecordControl, Record!Event, Record!Session
  <2> QED BY <2>2, <2>3, <2>4 DEF RecordTypes
<1>7. Sessions'
  BY <1>1 DEF RecordInv, Sessions, Record!Session
<1>8. RecordShape'
  <2>1. \A x \in In(queue') : x.kind # "move"
    BY DEF RecordInv, RecordShape
  <2>2. \A x \in In(critical') : x.kind = "move"
    BY DEF RecordInv, RecordShape
  <2>3. \A x \in In(table') : x.kind # "note"
    BY <1>1 DEF RecordInv, RecordShape
  <2>4. orphan' # <<>> => hist'.cut
    BY <1>1 DEF RecordInv, RecordShape
  <2>5. worker'.pc \in {"off", "loop", "flush"} => worker'.batch = <<>>
    BY <1>4
  <2> QED BY <2>1, <2>2, <2>3, <2>4, <2>5 DEF RecordInv, RecordShape
<1>9. Behind'
  <2>1. In(table') \subseteq Stored
    BY <1>1 DEF Stored
  <2>2. In(worker'.batch) \subseteq Stored /\ In(orphan') \subseteq Stored
    BY <1>4, <1>5 DEF Stored
  <2>3. In(critical') \subseteq Stored /\ In(queue') \subseteq Stored
    BY DEF Stored
  <2>4. Stored' \subseteq Stored
    BY <2>1, <2>2, <2>3 DEF Stored
  <2> QED BY <2>4 DEF RecordInv, Behind
<1>10. InLine'
  BY <1>1, <1>2, <1>4 DEF RecordInv, InLine
<1>11. NothingLost'
  BY <1>1 DEF RecordInv, NothingLost
<1> QED BY <1>6, <1>7, <1>8, <1>9, <1>10, <1>11 DEF RecordInv

LEMMA SaveBatchStep == ASSUME RecordSound, RecordInv, Record!SaveBatch PROVE RecordInv'
<1> DEFINE rows == worker.batch
<1>1. rows \in Seq(Filed) /\ critical \in Seq(Filed) /\ queue \in Seq(Filed)
  BY RecordParts
<1>2. SavedAre(rows)
  BY <1>1, SaveEventsSaves DEF Record!SaveBatch
<1>3. /\ worker' = [worker EXCEPT !.pc = "loop", !.batch = <<>>] /\ worker.pc = "save"
      /\ critical' = critical /\ queue' = queue /\ orphan' = orphan
      /\ ctl' = ctl /\ thread' = thread /\ console' = console
  BY DEF Record!SaveBatch
<1>4. ~hist.cut => Line(hist.direct, table, rows, critical', queue')
  BY <1>3 DEF RecordInv, InLine
<1>5. hist.clean => hist.found \subseteq Record!Events(table) \cup Record!Events(rows) \cup OnItsWay'
  <2>1. worker'.pc = "loop" /\ worker'.batch = <<>>
    BY <1>3 DEF RecordInv, RecordTypes, Held
  <2> QED BY <1>3, <2>1 DEF RecordInv, NothingLost, OnItsWay
<1>6. In(rows) \subseteq Stored /\ Len(critical) <= CriticalSize /\ Len(queue) <= QueueSize
  BY DEF Stored, RecordInv, RecordTypes, RecordSizes
<1> HIDE DEF rows
<1> QED BY <1>1, <1>2, <1>3, <1>4, <1>5, <1>6, SavedStep

LEMMA OrphanSavesStep == ASSUME RecordSound, RecordInv, Record!OrphanSaves PROVE RecordInv'
<1>1. orphan \in Seq(Filed) /\ critical \in Seq(Filed) /\ queue \in Seq(Filed)
  BY RecordParts
<1>2. SavedAre(orphan)
  BY <1>1, SaveEventsSaves DEF Record!OrphanSaves
<1>3. /\ worker' = worker /\ critical' = critical /\ queue' = queue /\ orphan' = <<>> /\ hist.cut
      /\ ctl' = ctl /\ thread' = thread /\ console' = console
  BY DEF Record!OrphanSaves, RecordInv, RecordShape
<1> DEFINE pc == worker.pc
           batch == worker.batch
<1>4. /\ pc \in {"off", "loop", "taken", "save", "flush"} /\ batch \in {<<>>, worker.batch}
      /\ worker' = [worker EXCEPT !.pc = pc, !.batch = batch]
      /\ pc \in {"off", "loop", "flush"} => batch = <<>>
  BY <1>3 DEF RecordInv, RecordTypes, Held, RecordShape
<1>5. hist.clean => hist.found \subseteq Record!Events(table) \cup Record!Events(orphan) \cup OnItsWay'
  BY <1>3 DEF RecordInv, NothingLost, OnItsWay
<1>6. In(orphan) \subseteq Stored /\ Len(critical) <= CriticalSize /\ Len(queue) <= QueueSize
  BY DEF Stored, RecordInv, RecordTypes, RecordSizes
<1> HIDE DEF pc, batch
<1> QED BY <1>1, <1>2, <1>3, <1>4, <1>5, <1>6, SavedStep

LEMMA FinalFlushStep == ASSUME RecordSound, RecordInv, Record!FinalFlush PROVE RecordInv'
<1>1. /\ <<>> \in Seq(Filed) /\ Len(<<>>) <= BatchSize
      /\ worker.pc = "flush" /\ worker.batch = <<>>
  BY DEF RecordSound, RecordInv, RecordShape, Record!FinalFlush
<1>2. PICK b \in Seq(Filed), c \in Seq(Filed), q \in Seq(Filed) :
        /\ Record!Fill(<<>>) = [batch |-> b, critical |-> c, queue |-> q]
        /\ Taken(<<>>, b, c, q)
        /\ Len(b) <= BatchSize /\ Len(c) <= CriticalSize /\ Len(q) <= QueueSize
        /\ b = <<>> => critical = <<>> /\ queue = <<>>
  BY <1>1, Filled
<1>3. /\ In(b) \subseteq In(<<>>) \cup In(critical) \cup In(queue)
      /\ In(c) \subseteq In(critical) /\ In(q) \subseteq In(queue)
      /\ Record!Events(b) \cup Record!Events(c) \cup Record!Events(q) = Record!Events(<<>>) \cup
           Record!Events(critical) \cup Record!Events(queue)
      /\ \A d : Line(d, table, <<>>, critical, queue) => Line(d, table, b, c, q)
  BY <1>2 DEF Taken
<1>4. CASE b = <<>>
  <2>1. /\ worker' = [worker EXCEPT !.pc = "off"] /\ critical = <<>> /\ queue = <<>>
        /\ UNCHANGED <<table, hist, critical, queue, ctl, thread, console, orphan>>
    BY <1>2, <1>4 DEF Record!FinalFlush
  <2>2. worker' = [pc |-> "off", batch |-> <<>>, stop |-> worker.stop]
    BY <1>1, <2>1 DEF RecordInv, RecordTypes, Held
  <2>3. Filed' = Filed
    BY <2>1, FiledSame
  <2>4. RecordTypes'
    BY <2>1, <2>2, <2>3 DEF RecordInv, RecordTypes, Held, RecordSizes, RecordControl, RecordSound
  <2>5. Sessions' /\ RecordShape' /\ Behind' /\ InLine'
    BY <1>1, <2>1, <2>2 DEF RecordInv, Sessions, RecordShape, Behind, Stored, InLine
  <2>6. Record!Events(<<>>) = {}
    <3>1. Record!Events(<<>>) \subseteq In(<<>>) /\ In(<<>>) = {}
      <4>1. Record!Events(<<>>) = {x \in In(<<>>) : x.kind \in {"state", "move"}}
        BY <1>1, EventsAre
      <4> QED BY <4>1 DEF In
    <3> QED BY <3>1
  <2>7. NothingLost'
    BY <1>1, <2>1, <2>2, <2>6 DEF RecordInv, NothingLost, OnItsWay
  <2> QED BY <2>4, <2>5, <2>7 DEF RecordInv
<1>5. CASE b # <<>>
  <2>1. /\ Record!SaveEvents(b) /\ worker' = worker /\ critical' = c /\ queue' = q /\ orphan' = orphan
        /\ ctl' = ctl /\ thread' = thread /\ console' = console
    BY <1>2, <1>5 DEF Record!FinalFlush
  <2>2. SavedAre(b)
    BY <2>1, SaveEventsSaves
  <2>3. worker' = [worker EXCEPT !.pc = "flush", !.batch = <<>>]
    BY <1>1, <2>1 DEF RecordInv, RecordTypes, Held
  <2>4. In(b) \subseteq Stored
    <3>1. In(<<>>) = {}
      BY DEF In
    <3> QED BY <1>3, <3>1 DEF Stored
  <2>5. ~hist.cut => Line(hist.direct, table, b, critical', queue')
    BY <1>1, <1>3, <2>1 DEF RecordInv, InLine
  <2>6. hist.clean => hist.found \subseteq Record!Events(table) \cup Record!Events(b) \cup OnItsWay'
    BY <1>1, <1>3, <2>1 DEF RecordInv, NothingLost, OnItsWay
  <2> QED BY <1>2, <1>3, <2>1, <2>2, <2>3, <2>4, <2>5, <2>6, SavedStep
<1> QED BY <1>4, <1>5

LEMMA PutStep == ASSUME RecordSound, RecordInv, NEW p \in Publisher, Record!Put(p) PROVE RecordInv'
<1> DEFINE e == thread[p].e
<1>1. /\ thread[p].pc = "put" /\ e \in Filed /\ e.by = p /\ e.kind # "note" /\ e \in Record!Event
  BY RecordParts DEF RecordInv, RecordTypes, Held, RecordShape, Record!Put
<1>2. /\ table \in Seq(Filed) /\ worker.batch \in Seq(Filed) /\ critical \in Seq(Filed)
      /\ queue \in Seq(Filed) /\ orphan \in Seq(Filed) /\ Filed \subseteq Record!Event
      /\ Len(critical) \in Nat /\ Len(queue) \in Nat
  BY RecordParts
<1>3. Record!NoEvent \in Filed
  <2>1. Record!NoEvent = [n |-> 0, by |-> None, kind |-> "note", sid |-> None] /\ 0 \in 0..MaxEvents
    BY DEF Record!NoEvent, Record!Note, RecordSound
  <2>2. Record!NoEvent \in Record!Event /\ Record!NoEvent.n = 0 /\ Record!NoEvent.sid = None
    BY <2>1 DEF Record!Event
  <2>3. hist.published \in 0..MaxEvents
    BY DEF RecordInv, RecordTypes, RecordControl
  <2>4. 0 <= hist.published
    BY <2>3 DEF RecordSound
  <2> QED BY <2>2, <2>4 DEF Filed
<1>4. /\ thread' \in [Publisher -> [pc : {"idle", "tag", "put", "diag"}, e : Filed]]
      /\ thread'[p].pc \notin {"tag", "put"} /\ \A r \in Publisher \ {p} : thread'[r] = thread[r]
  <2>1. PICK next \in {"idle", "diag"} : thread' = [thread EXCEPT ![p] = [pc |-> next, e |-> Record!NoEvent]]
    BY DEF Record!Put
  <2> QED BY <1>3, <2>1 DEF RecordInv, RecordTypes, Held
<1>5. ctl' = ctl /\ console' = console /\ worker' = worker /\ orphan' = orphan
  BY DEF Record!Put
\* Nothing that is stored or queued is ahead of the event by mistake.
<1>6. \A d : \A x \in Stored : Follows(d, x, e)
  BY <1>1 DEF RecordInv, Behind, Follows
<1>7. hist \in [published : 0..MaxEvents, ended : [Record!Session -> 0..MaxEvents + 1],
                found : SUBSET Record!Event, clean : BOOLEAN, cut : BOOLEAN, direct : BOOLEAN]
  BY DEF RecordInv, RecordTypes, RecordControl
\* It is put into a queue, dropped, stored past its queue or refused.
<1>8. \/ /\ e.kind = "move" /\ Len(critical) < CriticalSize
         /\ critical' = Append(critical, e) /\ queue' = queue /\ table' = table /\ hist' = hist
      \/ /\ e.kind # "move" /\ Len(queue) # QueueSize
         /\ critical' = critical /\ queue' = Append(queue, e) /\ table' = table /\ hist' = hist
      \/ critical' = critical /\ queue' = queue /\ table' = table /\ hist' = hist
      \/ /\ e.kind = "move" /\ critical' = critical /\ queue' = queue
         /\ table' = Append(table, e) /\ hist' = [hist EXCEPT !.direct = TRUE]
      \/ /\ critical' = critical /\ queue' = queue /\ table' = table
         /\ hist' = [hist EXCEPT !.found = hist.found \ Record!Events(<<e>>)]
  BY DEF Record!Put, Record!PutCritical, Record!RolledBack
<1> HIDE DEF e
<1>9. /\ hist' \in [published : 0..MaxEvents, ended : [Record!Session -> 0..MaxEvents + 1],
                    found : SUBSET Record!Event, clean : BOOLEAN, cut : BOOLEAN, direct : BOOLEAN]
      /\ hist'.published = hist.published /\ hist'.ended = hist.ended
      /\ hist'.clean = hist.clean /\ hist'.cut = hist.cut /\ hist'.found \subseteq hist.found
  <2>1. hist.found \ Record!Events(<<e>>) \in SUBSET Record!Event
    BY <1>7
  <2> QED BY <1>7, <1>8, <2>1
<1>10. Filed' = Filed
  BY <1>9, FiledSame
<1>11. /\ Append(critical, e) \in Seq(Filed) /\ In(Append(critical, e)) = In(critical) \cup {e}
       /\ Len(Append(critical, e)) = Len(critical) + 1
       /\ Append(queue, e) \in Seq(Filed) /\ In(Append(queue, e)) = In(queue) \cup {e}
       /\ Len(Append(queue, e)) = Len(queue) + 1
       /\ Append(table, e) \in Seq(Filed) /\ In(Append(table, e)) = In(table) \cup {e}
  <2>1. \A a \in Seq(Filed) : Append(a, e) \in Seq(Filed) /\ In(Append(a, e)) = In(a) \cup {e}
    BY <1>1, AppendOne
  <2>2. \A a \in Seq(Filed) : Len(Append(a, e)) = Len(a) + 1
    BY <1>1
  <2> QED BY <1>2, <2>1, <2>2
<1>12. RecordTypes'
  <2>1. critical' \in Seq(Filed) /\ queue' \in Seq(Filed) /\ table' \in Seq(Filed)
    BY <1>2, <1>8, <1>11
  <2>2. Held(Filed)'
    BY <1>2, <1>4, <1>5, <1>10, <2>1 DEF RecordInv, RecordTypes, Held
  <2>3. RecordSizes'
    <3>1. Len(critical) <= CriticalSize /\ Len(queue) <= QueueSize /\ Len(worker.batch) <= BatchSize
          /\ CriticalSize \in Nat /\ QueueSize \in Nat
      BY DEF RecordInv, RecordTypes, RecordSizes, RecordSound
    <3>2. Len(critical) < CriticalSize => Len(critical) + 1 <= CriticalSize
      BY <1>2, <3>1
    <3>3. Len(queue) # QueueSize => Len(queue) + 1 <= QueueSize
      BY <1>2, <3>1
    <3>4. Len(critical') <= CriticalSize
      BY <1>8, <1>11, <3>1, <3>2
    <3>5. Len(queue') <= QueueSize
      BY <1>8, <1>11, <3>1, <3>3
    <3> QED BY <1>5, <3>1, <3>4, <3>5 DEF RecordSizes
  <2>4. RecordControl'
    BY <1>5, <1>9 DEF RecordInv, RecordTypes, RecordControl, Record!Event, Record!Session
  <2> QED BY <2>2, <2>3, <2>4 DEF RecordTypes
<1>13. Sessions'
  BY <1>5, <1>9 DEF RecordInv, Sessions, Record!Session
<1>14. RecordShape'
  <2>1. \A x \in In(queue') : x.kind # "move"
    BY <1>8, <1>11 DEF RecordInv, RecordShape
  <2>2. \A x \in In(critical') : x.kind = "move"
    BY <1>8, <1>11 DEF RecordInv, RecordShape
  <2>3. \A x \in In(table') : x.kind # "note"
    BY <1>1, <1>8, <1>11 DEF RecordInv, RecordShape
  <2>4. \A r \in Publisher : thread'[r].pc \in {"tag", "put"} => thread'[r].e.by = r /\ thread'[r].e.kind # "note"
    BY <1>4 DEF RecordInv, RecordShape
  <2> QED BY <1>5, <1>9, <2>1, <2>2, <2>3, <2>4 DEF RecordInv, RecordShape
<1>15. Behind'
  <2>1. Stored' \subseteq Stored \cup {e}
    BY <1>5, <1>8, <1>11 DEF Stored
  <2> QED BY <1>1, <1>4, <2>1 DEF RecordInv, Behind
<1>16. InLine'
  <2>1. SUFFICES ASSUME ~hist.cut PROVE Line(hist'.direct, table', worker.batch, critical', queue')
    BY <1>5, <1>9 DEF InLine
  <2> DEFINE d == hist.direct
  <2>2. d \in BOOLEAN /\ Line(d, table, worker.batch, critical, queue)
    BY <1>7, <2>1 DEF RecordInv, InLine
  <2>3. \A x \in In(table) \cup In(worker.batch) \cup In(critical) \cup In(queue) : Follows(d, x, e)
    BY <1>6 DEF Stored
  <2> HIDE DEF d
  <2>4. Line(d, table, worker.batch, Append(critical, e), queue) /\
          Line(d, table, worker.batch, critical, Append(queue, e))
    BY <1>1, <1>2, <2>2, <2>3, LineJoins
  <2>5. e.kind = "move" => Line(TRUE, Append(table, e), worker.batch, critical, queue)
    BY <1>1, <1>2, <2>2, LineOvertaken
  <2>6. hist'.direct = d \/ (hist'.direct = TRUE /\ e.kind = "move" /\ table' = Append(table, e) /\ critical' =
          critical /\ queue' = queue)
    BY <1>7, <1>8 DEF d
  <2>7. \/ /\ table' = Append(table, e) /\ critical' = critical /\ queue' = queue /\ hist'.direct = TRUE /\
                e.kind = "move"
        \/ /\ table' = table /\ hist'.direct = d
           /\ \/ critical' = critical /\ queue' = queue
              \/ critical' = Append(critical, e) /\ queue' = queue
              \/ critical' = critical /\ queue' = Append(queue, e)
    BY <1>7, <1>8 DEF d
  <2> QED BY <2>2, <2>4, <2>5, <2>7
<1>17. NothingLost'
  <2>1. critical' \in Seq(Filed) /\ queue' \in Seq(Filed) /\ table' \in Seq(Filed)
    BY <1>2, <1>8, <1>11
  <2>2. In(critical) \subseteq In(critical') /\ In(queue) \subseteq In(queue') /\ In(table) \subseteq In(table')
    BY <1>8, <1>11
  <2>3. /\ Record!Events(critical) \subseteq Record!Events(critical') /\
             Record!Events(queue) \subseteq Record!Events(queue')
        /\ Record!Events(table) \subseteq Record!Events(table')
    BY <1>2, <2>1, <2>2, EventsMore
  <2> QED BY <1>5, <1>9, <2>3 DEF RecordInv, NothingLost, OnItsWay
<1> QED BY <1>12, <1>13, <1>14, <1>15, <1>16, <1>17 DEF RecordInv

-----------------------------------------------------------------------------
(* The theorems.                                                           *)

LEMMA RecordStep == ASSUME RecordSound, RecordInv, [Record!Next]_(Record!vars) PROVE RecordInv'
<1>1. CASE UNCHANGED Record!vars
  <2>1. Filed' = Filed
    BY <1>1, FiledSame DEF Record!vars
  <2>2. RecordTypes'
    BY <1>1, <2>1 DEF Record!vars, RecordInv, RecordTypes, Held, RecordSizes, RecordControl
  <2>3. Sessions' /\ RecordShape' /\ Behind' /\ InLine' /\ NothingLost'
    BY <1>1 DEF Record!vars, RecordInv, Sessions, RecordShape, Behind, Stored, InLine, NothingLost, OnItsWay
  <2> QED BY <2>2, <2>3 DEF RecordInv
<1>2. ASSUME NEW p \in Publisher, Record!Publish(p) \/ Record!Tag(p) \/ Record!Put(p) \/
        Record!PublishDropDiagnostics(p)
      PROVE  RecordInv'
  BY <1>2, PublishStep, TagStep, PutStep, PublishDropDiagnosticsStep
<1>3. ASSUME NEW c \in Console,
             \/ Record!RouteStart(c) \/ Record!RouteEnd(c) \/ Record!StartSession(c) \/ Record!EndSession(c)
             \/ Record!PublishSnapshot(c) \/ Record!ExportSessionRecord(c)
      PROVE  RecordInv'
  BY <1>3, RouteStartStep, RouteEndStep, StartSessionStep, EndSessionStep, PublishSnapshotStep,
     ExportSessionRecordStep
<1>4. CASE Record!WorkerStart \/ Record!LoopEnds \/ Record!CollectFirst \/ Record!CollectRest \/
        Record!SaveBatch \/ Record!FinalFlush
  BY <1>4, WorkerStartStep, LoopEndsStep, CollectFirstStep, CollectRestStep, SaveBatchStep, FinalFlushStep
<1>5. CASE Record!StopRequested \/ Record!StopCancels \/ Record!OrphanSaves \/ Record!Crash
  BY <1>5, StopRequestedStep, StopCancelsStep, OrphanSavesStep, CrashStep
<1> QED BY <1>1, <1>2, <1>3, <1>4, <1>5 DEF Record!Next

LEMMA RecordHolds ==
    ASSUME RecordInv
    PROVE  Record!CleanStopKeepsAll /\ Record!StoredInOrder /\ Record!FiledUnderItsSession
<1>1. Record!CleanStopKeepsAll
  BY DEF RecordInv, NothingLost, OnItsWay, Record!CleanStopKeepsAll
<1>2. Record!StoredInOrder
  <2>1. SUFFICES ASSUME NEW i \in DOMAIN table, NEW j \in DOMAIN table, i < j, ~hist.cut
                 PROVE  table[i].kind = table[j].kind /\ table[i].by = table[j].by
                          /\ ~(table[i].kind = "move" /\ hist.direct) => table[i].n < table[j].n
    BY DEF Record!StoredInOrder
  <2>2. Follows(hist.direct, table[i], table[j])
    BY <2>1 DEF RecordInv, InLine, Line, Sorted
  <2>3. table[i].kind # "note"
    BY DEF RecordInv, RecordShape, In
  <2> QED BY <2>2, <2>3 DEF Follows
<1>3. Record!FiledUnderItsSession
  <2>1. \A i \in DOMAIN table : table[i] \in Filed
    BY RecordParts, LenProperties
  <2> QED BY <2>1 DEF Record!FiledUnderItsSession, Filed
<1> QED BY <1>1, <1>2, <1>3

\* A step adds to the end of the table, if it changes it at all.
LEMMA StepGrows ==
    ASSUME RecordSound, RecordInv, [Record!Next]_(Record!vars)
    PROVE  \E more \in Seq(Record!Event) : table' = table \o more
<1>1. <<>> \in Seq(Record!Event) /\ table = table \o <<>> /\ table \in Seq(Filed) /\ Filed \subseteq Record!Event
  BY RecordParts
<1>2. ASSUME NEW rows \in Seq(Filed), Record!SaveEvents(rows)
        PROVE \E more \in Seq(Record!Event) : table' = table \o more
  BY <1>2, SaveEventsSaves DEF SavedAre
<1>3. CASE Record!SaveBatch
  BY <1>2, <1>3, RecordParts DEF Record!SaveBatch
<1>4. CASE Record!OrphanSaves
  BY <1>2, <1>4, RecordParts DEF Record!OrphanSaves
<1>5. CASE Record!FinalFlush
  <2>1. <<>> \in Seq(Filed) /\ Len(<<>>) <= BatchSize
    BY DEF RecordSound
  <2>2. PICK b \in Seq(Filed), c \in Seq(Filed), q \in Seq(Filed) :
          Record!Fill(<<>>) = [batch |-> b, critical |-> c, queue |-> q]
    BY <2>1, Filled
  <2>3. Record!SaveEvents(b) \/ table' = table
    BY <1>5, <2>2 DEF Record!FinalFlush
  <2> QED BY <1>1, <1>2, <2>3
<1>6. ASSUME NEW p \in Publisher, Record!Put(p) PROVE \E more \in Seq(Record!Event) : table' = table \o more
  <2>1. thread[p].e \in Record!Event
    BY <1>1 DEF RecordInv, RecordTypes, Held
  <2>2. table' = table \/ table' = Append(table, thread[p].e)
    BY <1>6 DEF Record!Put, Record!PutCritical, Record!RolledBack
  <2>3. table \in Seq(Record!Event)
    BY <1>1, SeqMonotonic
  <2>4. <<thread[p].e>> \in Seq(Record!Event) /\ Append(table, thread[p].e) = table \o <<thread[p].e>>
    BY <2>1, <2>3
  <2> QED BY <1>1, <2>2, <2>4
<1>7. CASE table' = table
  BY <1>1, <1>7
<1>8. CASE UNCHANGED Record!vars
  BY <1>7, <1>8 DEF Record!vars
<1>9. ASSUME NEW p \in Publisher, Record!Publish(p) \/ Record!Tag(p) \/ Record!PublishDropDiagnostics(p)
        PROVE table' = table
  BY <1>9 DEF Record!Publish, Record!Tag, Record!PublishDropDiagnostics
<1>10. ASSUME NEW c \in Console,
             \/ Record!RouteStart(c) \/ Record!RouteEnd(c) \/ Record!StartSession(c) \/ Record!EndSession(c)
             \/ Record!PublishSnapshot(c) \/ Record!ExportSessionRecord(c)
      PROVE  table' = table
  BY <1>10 DEF Record!RouteStart, Record!RouteEnd, Record!StartSession, Record!EndSession, Record!PublishSnapshot,
        Record!ExportSessionRecord
<1>11. CASE Record!WorkerStart \/ Record!LoopEnds \/ Record!CollectFirst \/ Record!CollectRest \/
         Record!StopRequested \/ Record!StopCancels \/ Record!Crash
  <2>1. table' = table
    BY <1>11 DEF Record!WorkerStart, Record!LoopEnds, Record!CollectFirst, Record!CollectRest, Record!StopRequested,
          Record!StopCancels, Record!Crash
  <2> QED BY <1>7, <2>1
<1> QED BY <1>3, <1>4, <1>5, <1>6, <1>7, <1>8, <1>9, <1>10, <1>11 DEF Record!Next

LEMMA StepPageStays == ASSUME RecordSound, RecordInv, [Record!Next]_(Record!vars) PROVE Record!PageStays
<1>1. PICK more \in Seq(Record!Event) : table' = table \o more
  BY StepGrows
<1>2. table \in Seq(Record!Event)
  BY RecordParts, SeqMonotonic
<1> QED BY <1>1, <1>2, TableGrows

\* A stop of the worker that was not cut short leaves nothing behind, the table is in the order of
\* publication, and every event is filed under a session that was open when it was published
\* (persistence_worker.py, runtime_control.py).
THEOREM RecordIsKept ==
    ASSUME RecordSound
    PROVE  Record!Spec => [](Record!CleanStopKeepsAll /\ Record!StoredInOrder /\ Record!FiledUnderItsSession)
<1>1. Record!Init => RecordInv
  BY RecordInit
<1>2. RecordInv /\ [Record!Next]_(Record!vars) => RecordInv'
  BY RecordStep
<1>3. RecordInv => Record!CleanStopKeepsAll /\ Record!StoredInOrder /\ Record!FiledUnderItsSession
  BY RecordHolds
<1> QED BY <1>1, <1>2, <1>3, PTL DEF Record!Spec

\* A page of the steps that a reader was shown only ever grows at its end (event_store.py).
THEOREM PagesNeverChange == ASSUME RecordSound PROVE Record!Spec => Record!PagesStay
<1>1. Record!Init => RecordInv
  BY RecordInit
<1>2. RecordInv /\ [Record!Next]_(Record!vars) => RecordInv'
  BY RecordStep
<1>3. RecordInv /\ [Record!Next]_(Record!vars) => [Record!PageStays]_(Record!vars)
  BY StepPageStays
<1> QED BY <1>1, <1>2, <1>3, PTL DEF Record!Spec, Record!PagesStay

-----------------------------------------------------------------------------
\* A recursion over 1..n has a solution.
Soluble(V, start, n, step) ==
    \E f \in [0..n -> V] : f[0] = start /\ \A k \in 1..n : f[k] = step[k][f[k - 1]]

LEMMA RecursionSolved ==
    ASSUME NEW V, NEW start \in V, NEW n \in Nat, NEW step \in [1..n -> [V -> V]]
    PROVE  Soluble(V, start, n, step)
<1> DEFINE Solves(f, m) == f \in [0..m -> V] /\ f[0] = start /\ \A k \in 1..m : f[k] = step[k][f[k - 1]]
           Solved == {m \in 0..n : \E f : Solves(f, m)}
<1>1. 0 \in Solved
  <2>1. Solves([k \in 0..0 |-> start], 0)
    OBVIOUS
  <2> HIDE DEF Solves
  <2> QED BY <2>1
<1>2. ASSUME NEW m \in 1..n, m - 1 \in Solved
      PROVE  m \in Solved
  <2>1. PICK g : Solves(g, m - 1)
    BY <1>2
  <2> DEFINE f == [k \in 0..m |-> IF k < m THEN g[k] ELSE step[m][g[m - 1]]]
  <2>2. g \in [0..(m - 1) -> V] /\ g[0] = start /\ \A k \in 1..(m - 1) : g[k] = step[k][g[k - 1]]
    BY <2>1
  <2>3. step[m][g[m - 1]] \in V
    BY <2>2
  <2>4. f \in [0..m -> V] /\ f[0] = start
    BY <2>2, <2>3
  <2>5. \A k \in 1..m : f[k] = step[k][f[k - 1]]
    BY <2>2
  <2>6. Solves(f, m)
    BY <2>4, <2>5
  <2> HIDE DEF Solves, f
  <2> QED BY <2>6
<1> HIDE DEF Solved
<1>3. \A m \in 0..n : m \in Solved
  BY <1>1, <1>2, UpTo
<1> QED BY <1>3 DEF Solved, Soluble

-----------------------------------------------------------------------------
(* The sheet of moves.                                                     *)
Sheet == INSTANCE MoveSheet WITH MaxMoves <- SheetMoves, MaxEvents <- SheetEvents

\* What an instance has to give: bounds.
SheetSound == SheetMoves \in Nat /\ SheetEvents \in Nat

Entry == [type : {"vision", "player", "analysis", "started", "completed"}, n : Nat]
Row == [n : Nat, side : {"red", "black"}, round : Nat]
Account == [round : Nat, inRound : Nat, known : Nat, rows : Seq(Row)]

\* One event more in the account.
Counted(a, e) == IF Sheet!IsMove(e) THEN Sheet!AddRow(a, e) ELSE a

LEMMA CountedType == ASSUME NEW a \in Account, NEW e \in Entry PROVE Counted(a, e) \in Account
<1>1. Sheet!Side(e, Sheet!Before(e, a.known)) \in {"red", "black"} /\ Sheet!After(e, a.known) \in Nat
  BY DEF Account, Entry, Sheet!Side, Sheet!Before, Sheet!After, Sheet!Owner, Sheet!Actor
<1> QED BY <1>1 DEF Counted, Sheet!AddRow, Account, Entry, Row

\* The account of the sheet, event by event.
LEMMA WrittenIs ==
    ASSUME log \in Seq(Entry)
    PROVE  /\ Sheet!Written \in [0..Len(log) -> Account]
           /\ Sheet!Written[0] = [round |-> 1, inRound |-> 0, known |-> 0, rows |-> <<>>]
           /\ \A k \in 1..Len(log) : Sheet!Written[k] = Counted(Sheet!Written[k - 1], log[k])
<1> DEFINE start == [round |-> 1, inRound |-> 0, known |-> 0, rows |-> <<>>]
           n == Len(log)
           step == [k \in 1..n |-> [a \in Account |-> Counted(a, log[k])]]
           Solves(f) == f = [k \in 0..n |->
                               IF k = 0 THEN start
                               ELSE IF Sheet!IsMove(log[k]) THEN Sheet!AddRow(f[k - 1], log[k]) ELSE f[k - 1]]
<1>1. n \in Nat /\ start \in Account /\ \A k \in 1..n : log[k] \in Entry
  BY DEF Account
<1>2. step \in [1..n -> [Account -> Account]]
  BY CountedType
<1>3. PICK f \in [0..n -> Account] : f[0] = start /\ \A k \in 1..n : f[k] = step[k][f[k - 1]]
  <2> HIDE DEF start, step, n
  <2>1. Soluble(Account, start, n, step)
    BY <1>1, <1>2, RecursionSolved
  <2> QED BY <2>1 DEF Soluble
<1>4. \A k \in 1..n : f[k] = Counted(f[k - 1], log[k])
  <2>1. ASSUME NEW k \in 1..n PROVE step[k][f[k - 1]] = Counted(f[k - 1], log[k])
    <3>1. f[k - 1] \in Account
      BY <1>1, <1>3
    <3> QED BY <3>1
  <2> QED BY <1>3, <2>1
<1> HIDE DEF start, step, n
<1>5. Solves(f)
  BY <1>1, <1>3, <1>4 DEF Counted
<1>6. Sheet!Written = CHOOSE g : Solves(g)
  BY DEF Sheet!Written, start, n
<1>7. Solves(Sheet!Written)
  <2> HIDE DEF Solves
  <2> QED BY <1>5, <1>6
<1> DEFINE W == Sheet!Written
<1>8. DOMAIN W = 0..n /\ W[0] = start /\ \A k \in 1..n : W[k] = Counted(W[k - 1], log[k])
  <2> HIDE DEF W
  <2>1. Solves(W)
    BY <1>7 DEF W
  <2>2. DOMAIN W = 0..n /\ W[0] = start
    BY <2>1, <1>1
  <2>3. ASSUME NEW k \in 1..n PROVE W[k] = Counted(W[k - 1], log[k])
    BY <2>1, <1>1 DEF Counted
  <2> QED BY <2>2, <2>3
<1>9. \A k \in 0..n : W[k] \in Account
  <2> DEFINE T == {k \in 0..n : W[k] \in Account}
  <2> HIDE DEF W
  <2>1. 0 \in T
    BY <1>1, <1>8
  <2>2. ASSUME NEW k \in 1..n, k - 1 \in T PROVE k \in T
    <3>1. k - 1 \in 0..n /\ k \in 0..n /\ log[k] \in Entry
      BY <1>1
    <3> QED BY <1>8, <2>2, <3>1, CountedType
  <2> HIDE DEF T
  <2>3. \A k \in 0..n : k \in T
    BY <1>1, <2>1, <2>2, UpTo
  <2> QED BY <2>3 DEF T
<1>10. W \in [0..n -> Account]
  <2> HIDE DEF W
  <2>1. W = [k \in 0..n |-> W[k]]
    <3>1. Solves(W)
      BY <1>7 DEF W
    <3> QED BY <3>1
  <2> QED BY <2>1, <1>9
<1> QED BY <1>8, <1>10 DEF start, n

\* An event that is stored is one turn more.
LEMMA WrittenGrows ==
    ASSUME log \in Seq(Entry), NEW e \in Entry, log' = Append(log, e)
    PROVE  Sheet!Written'[Len(log')] = Counted(Sheet!Written[Len(log)], e)
<1> DEFINE W == Sheet!Written
           U == Sheet!Written'
           n == Len(log)
           T == {k \in 0..n : U[k] = W[k]}
<1>1. n \in Nat /\ log' \in Seq(Entry) /\ Len(log') = n + 1 /\ log'[n + 1] = e /\ \A k \in 1..n : log'[k] = log[k]
  OBVIOUS
<1>2. W[0] = [round |-> 1, inRound |-> 0, known |-> 0, rows |-> <<>>]
      /\ \A k \in 1..n : W[k] = Counted(W[k - 1], log[k])
  BY WrittenIs
<1>3. U[0] = [round |-> 1, inRound |-> 0, known |-> 0, rows |-> <<>>]
      /\ \A k \in 1..(n + 1) : U[k] = Counted(U[k - 1], log'[k])
  <2>1. (log \in Seq(Entry) => \A k \in 1..Len(log) : Sheet!Written[k] = Counted(Sheet!Written[k - 1], log[k]))'
    BY WrittenIs, PTL
  <2>2. (log \in Seq(Entry) => Sheet!Written[0] = [round |-> 1, inRound |-> 0, known |-> 0, rows |-> <<>>])'
    BY WrittenIs, PTL
  <2> QED BY <1>1, <2>1, <2>2
<1> HIDE DEF W, U, n
<1>4. 0 \in T
  BY <1>1, <1>2, <1>3
<1>5. ASSUME NEW k \in 1..n, k - 1 \in T PROVE k \in T
  <2>1. k \in 1..(n + 1) /\ k \in 0..n /\ U[k - 1] = W[k - 1] /\ log'[k] = log[k]
    BY <1>1, <1>5
  <2>2. U[k] = Counted(U[k - 1], log'[k]) /\ W[k] = Counted(W[k - 1], log[k])
    BY <1>2, <1>3, <2>1
  <2>3. U[k] = W[k]
    BY <2>1, <2>2
  <2> QED BY <2>1, <2>3
<1> HIDE DEF T
<1>6. \A k \in 0..n : k \in T
  BY <1>1, <1>4, <1>5, UpTo
<1>7. U[n + 1] = Counted(U[n], log'[n + 1]) /\ U[n] = W[n]
  <2>1. n + 1 \in 1..(n + 1) /\ (n + 1) - 1 = n
    BY <1>1
  <2>2. n \in 0..n
    BY <1>1
  <2>3. U[n] = W[n]
    BY <1>6, <2>2 DEF T
  <2> QED BY <1>3, <2>1, <2>3
<1> QED BY <1>1, <1>7 DEF W, U, n

Sofar == Sheet!Written[Len(log)]

\* The account knows the move played last and its round; the arm is at work in black's turn.
SheetInv ==
    /\ log \in Seq(Entry) /\ \A i \in DOMAIN log : log[i].n \in 1..SheetMoves + 1
    /\ played \in 0..SheetMoves /\ arm \in {"idle", "moving", "done", "seen"}
    /\ arm \in {"moving", "done"} => played % 2 = 1 /\ played < SheetMoves
    /\ arm = "seen" => played % 2 = 0 /\ played > 0
    /\ Sofar \in Account
    /\ Sofar.known = played
    /\ Sofar.inRound > 0 <=> played > 0
    /\ Sofar.round = IF played = 0 THEN 1 ELSE (played + 1) \div 2
    /\ \A i \in DOMAIN Sofar.rows :
          LET row == Sofar.rows[i] IN row.side = Sheet!Owner(row.n) /\ row.round = (row.n + 1) \div 2

LEMMA SheetInit == ASSUME SheetSound, Sheet!Init PROVE SheetInv
<1>1. log = <<>> /\ log \in Seq(Entry) /\ Len(log) = 0 /\ played = 0 /\ arm = "idle"
  BY DEF Sheet!Init
<1>2. Sofar = [round |-> 1, inRound |-> 0, known |-> 0, rows |-> <<>>] /\ Sofar \in Account
  BY <1>1, WrittenIs DEF Sofar
<1> QED BY <1>1, <1>2 DEF SheetInv, SheetSound

\* A row that tells its side and its round keeps the account true.
LEMMA RowAdded ==
    ASSUME SheetSound, SheetInv, NEW e \in Entry, log' = Append(log, e), e.n \in 1..SheetMoves + 1,
           Sheet!IsMove(e) => /\ Sheet!Side(e, Sheet!Before(e, played)) = Sheet!Owner(e.n)
                              /\ e.n \in {played, played + 1} /\ e.n > 0
                              /\ played' = played => e.n % 2 = 0
                              /\ Sheet!After(e, played) = played'
                              /\ played' \in Nat /\ (played' = played \/ played' = e.n),
           ~Sheet!IsMove(e) => played' = played
    PROVE  /\ log' \in Seq(Entry) /\ \A i \in DOMAIN log' : log'[i].n \in 1..SheetMoves + 1
           /\ Sofar' \in Account
           /\ Sofar'.known = played'
           /\ Sofar'.inRound > 0 <=> played' > 0
           /\ Sofar'.round = IF played' = 0 THEN 1 ELSE (played' + 1) \div 2
           /\ \A i \in DOMAIN Sofar'.rows :
                LET row == Sofar'.rows[i] IN row.side = Sheet!Owner(row.n) /\ row.round = (row.n + 1) \div 2
<1>1. log' \in Seq(Entry) /\ \A i \in DOMAIN log' : log'[i].n \in 1..SheetMoves + 1
  BY DEF SheetInv
<1>2. Sofar' = Counted(Sofar, e) /\ Sofar \in Account
  BY WrittenGrows DEF SheetInv, Sofar
<1>3. Sofar' \in Account
  BY <1>2, CountedType
<1>4. CASE ~Sheet!IsMove(e)
  BY <1>1, <1>2, <1>4 DEF SheetInv, Counted
<1>5. CASE Sheet!IsMove(e)
  <2> DEFINE a == Sofar
             side == Sheet!Owner(e.n)
             new == Sheet!Enters(a, side)
             round == IF new THEN a.round + 1 ELSE a.round
             row == [n |-> e.n, side |-> side, round |-> round]
  <2>1. Sofar' = [round |-> round, inRound |-> IF new THEN 1 ELSE a.inRound + 1, known |-> played',
                     rows |-> Append(a.rows, row)]
    BY <1>2, <1>5 DEF SheetInv, Counted, Sheet!AddRow
  <2>2. a \in Account /\ played \in Nat /\ e.n \in Nat /\ (a.inRound > 0 <=> played > 0)
        /\ a.round = IF played = 0 THEN 1 ELSE (played + 1) \div 2
    BY <1>2, <1>5 DEF SheetInv, SheetSound
  <2>3. round = (e.n + 1) \div 2
    <3>1. a.inRound \in Nat /\ a.round \in Nat
      BY <2>2 DEF Account
    <3>2. CASE e.n = played
      BY <1>5, <2>2, <3>2 DEF Sheet!Enters, Sheet!Owner
    <3>3. CASE e.n = played + 1 /\ played % 2 = 1
      BY <1>5, <2>2, <3>3 DEF Sheet!Enters, Sheet!Owner
    <3>4. CASE e.n = played + 1 /\ played % 2 = 0
      BY <1>5, <2>2, <3>1, <3>4 DEF Sheet!Enters, Sheet!Owner
    <3> QED BY <1>5, <2>2, <3>2, <3>3, <3>4
  <2>4. row \in Row /\ row.side = Sheet!Owner(row.n) /\ row.round = (row.n + 1) \div 2
    BY <2>2, <2>3 DEF Row, Sheet!Owner
  <2>5. \A i \in DOMAIN a.rows : a.rows[i].side = Sheet!Owner(a.rows[i].n) /\ a.rows[i].round = (a.rows[i].n + 1) \div 2
    BY DEF SheetInv
  <2>6. a.rows \in Seq(Row) /\ a.inRound \in Nat
    BY <2>2 DEF Account
  <2>7. Sofar'.known = played' /\ Sofar'.round = round /\ Sofar'.inRound > 0
        /\ Sofar'.rows = Append(a.rows, row)
    BY <2>1, <2>6
  <2>8. played' > 0 /\ round = (played' + 1) \div 2
    <3>1. CASE played' = e.n
      BY <1>5, <2>2, <2>3, <3>1
    <3>2. CASE played' = played /\ e.n = played + 1
      <4>1. e.n % 2 = 0 /\ e.n > 0
        BY <1>5, <3>2
      <4> QED BY <2>2, <2>3, <3>2, <4>1
    <3> QED BY <1>5, <2>2, <3>1, <3>2
  <2>9. \A i \in DOMAIN Sofar'.rows :
          LET r == Sofar'.rows[i] IN r.side = Sheet!Owner(r.n) /\ r.round = (r.n + 1) \div 2
    <3> HIDE DEF a, row, round
    <3> QED BY <2>4, <2>5, <2>6, <2>7
  <2> HIDE DEF a, row, round
  <2> QED BY <1>1, <1>3, <1>5, <2>2, <2>7, <2>8, <2>9
<1> QED BY <1>4, <1>5

LEMMA SheetStep == ASSUME SheetSound, SheetInv, [Sheet!Next]_(Sheet!vars) PROVE SheetInv'
<1>0. played \in Nat /\ SheetMoves \in Nat
  BY DEF SheetInv, SheetSound
<1>1. CASE Sheet!RedPlays
  <2>1. PICK by \in {"vision", "player"} : log' = Append(log, [type |-> by, n |-> played + 1])
    BY <1>1 DEF Sheet!RedPlays, Sheet!Store
  <2> DEFINE e == [type |-> by, n |-> played + 1]
  <2>2. e \in Entry /\ Sheet!IsMove(e) /\ Sheet!Side(e, Sheet!Before(e, played)) = Sheet!Owner(e.n)
        /\ e.n \in 1..SheetMoves + 1 /\ Sheet!After(e, played) = played' /\ played' = e.n
        /\ e.n = played + 1 /\ played' \in 0..SheetMoves /\ arm' = "idle"
    BY <1>0, <1>1 DEF Sheet!RedPlays, Entry, Sheet!IsMove, Sheet!Side, Sheet!Before, Sheet!After
  <2> HIDE DEF e
  <2> QED BY <1>0, <2>1, <2>2, RowAdded DEF SheetInv, e
<1>2. CASE Sheet!Analysed
  <2> DEFINE e == [type |-> "analysis", n |-> played + 1]
  <2>1. log' = Append(log, e) /\ e \in Entry /\ ~Sheet!IsMove(e) /\ e.n \in 1..SheetMoves + 1
        /\ played' = played /\ arm' = arm
    BY <1>0, <1>2 DEF Sheet!Analysed, Sheet!Store, Entry, Sheet!IsMove, SheetInv
  <2> HIDE DEF e
  <2> QED BY <1>0, <2>1, RowAdded DEF SheetInv
<1>3. CASE Sheet!Started
  <2> DEFINE e == [type |-> "started", n |-> played + 1]
  <2>1. log' = Append(log, e) /\ e \in Entry /\ Sheet!IsMove(e) /\ e.n \in 1..SheetMoves + 1
        /\ Sheet!Side(e, Sheet!Before(e, played)) = Sheet!Owner(e.n)
        /\ Sheet!After(e, played) = played /\ e.n % 2 = 0 /\ e.n = played + 1
        /\ played' = played /\ arm' = "moving" /\ played % 2 = 1 /\ played < SheetMoves
    <3>1. played % 2 = 1 /\ played < SheetMoves
      BY <1>0, <1>3 DEF Sheet!Started, SheetInv
    <3>2. (played + 1) % 2 = 0 /\ played + 1 \in 1..SheetMoves + 1
      BY <1>0, <3>1
    <3>3. e \in Entry /\ e.n = played + 1 /\ Sheet!IsMove(e) /\ Sheet!Side(e, Sheet!Before(e, played)) = Sheet!Owner(e.n)
      BY <1>0 DEF Entry, Sheet!IsMove, Sheet!Side, Sheet!Before
    <3> QED BY <1>0, <1>3, <3>1, <3>2, <3>3 DEF Sheet!Started, Sheet!Store, Sheet!After
  <2> HIDE DEF e
  <2> QED BY <1>0, <2>1, RowAdded DEF SheetInv
<1>4. CASE Sheet!Completed
  <2>1. PICK n \in {played, played + 1} :
          /\ log' = Append(log, [type |-> "completed", n |-> n])
          /\ n % 2 = 0 /\ n \in 1..SheetMoves + 1 /\ played' = played /\ arm' \in {"done", "idle"}
          /\ arm' = "done" => played % 2 = 1 /\ played < SheetMoves
    BY <1>0, <1>4 DEF Sheet!Completed, Sheet!Store, SheetInv
  <2> DEFINE e == [type |-> "completed", n |-> n]
  <2>2. e \in Entry /\ Sheet!IsMove(e) /\ Sheet!After(e, played) = played /\ e.n = n /\ n > 0 /\ log' = Append(log, e)
        /\ Sheet!Side(e, Sheet!Before(e, played)) = Sheet!Owner(e.n)
    BY <1>0, <2>1 DEF Entry, Sheet!IsMove, Sheet!Side, Sheet!Before, Sheet!After, Sheet!Actor, Sheet!Owner
  <2> HIDE DEF e
  <2> QED BY <1>0, <2>1, <2>2, RowAdded DEF SheetInv, e
<1>5. CASE Sheet!Recognised
  <2> DEFINE e == [type |-> "vision", n |-> played + 1]
  <2>1. log' = Append(log, e) /\ e \in Entry /\ Sheet!IsMove(e) /\ e.n \in 1..SheetMoves + 1
        /\ Sheet!Side(e, Sheet!Before(e, played)) = Sheet!Owner(e.n)
        /\ Sheet!After(e, played) = played' /\ e.n = played + 1 /\ e.n % 2 = 0
        /\ played' = e.n /\ played' \in 0..SheetMoves /\ arm' \in {"seen", "idle"}
    <3>1. played % 2 = 1 /\ played < SheetMoves
      BY <1>0, <1>5 DEF Sheet!Recognised, SheetInv
    <3>2. (played + 1) % 2 = 0 /\ played + 1 \in 1..SheetMoves + 1
      BY <1>0, <3>1
    <3>3. e \in Entry /\ e.n = played + 1 /\ Sheet!IsMove(e) /\ Sheet!Side(e, Sheet!Before(e, played)) = Sheet!Owner(e.n)
      BY <1>0 DEF Entry, Sheet!IsMove, Sheet!Side, Sheet!Before
    <3> QED BY <1>0, <1>5, <3>1, <3>2, <3>3 DEF Sheet!Recognised, Sheet!Store, Sheet!After
  <2> HIDE DEF e
  <2> QED BY <1>0, <2>1, RowAdded DEF SheetInv
<1>6. CASE UNCHANGED Sheet!vars
  <2>1. log' = log /\ played' = played /\ arm' = arm /\ Sofar' = Sofar
    BY <1>6 DEF Sheet!vars, Sofar, Sheet!Written, Sheet!AddRow, Sheet!Side, Sheet!Before, Sheet!After, Sheet!IsMove
  <2> QED BY <2>1 DEF SheetInv
<1> QED BY <1>1, <1>2, <1>3, <1>4, <1>5, <1>6 DEF Sheet!Next

LEMMA SheetHolds == ASSUME SheetInv PROVE Sheet!RowsTellTheRound
  BY DEF SheetInv, Sofar, Sheet!RowsTellTheRound, Sheet!Rows

\* Every row of the sheet of moves tells the side that played the move and its round, however the
\* arm's own reports fall between what the camera sees (excel_exporter.py).
THEOREM SheetIsTrue == ASSUME SheetSound PROVE Sheet!Spec => []Sheet!RowsTellTheRound
<1>1. SheetInv /\ [Sheet!Next]_(Sheet!vars) => SheetInv'
  BY SheetStep
<1> QED BY SheetInit, SheetHolds, <1>1, PTL DEF Sheet!Spec

-----------------------------------------------------------------------------
(* The rate limiter.                                                       *)
Limiter == INSTANCE RateLimiter WITH Key <- LimitKey, MaxTime <- LimiterTime

\* What an instance has to give: at least one request per window, at least one tick to a window,
\* and a value that is neither a key nor a window.
LimiterSound ==
    /\ Limit \in Nat \ {0} /\ Window \in Nat \ {0} /\ MaxBuckets \in Nat /\ LimiterTime \in Nat
    /\ IsFiniteSet(LimitKey) /\ None \notin LimitKey
    /\ None \notin [start : 0..LimiterTime, count : 0..Limit]

\* The instance counts as this module does.
LEMMA SameCardinality == \A S : Limiter!Cardinality(S) = Cardinality(S)
BY DEF Limiter!Cardinality, Cardinality

LEMMA LatelyIs ==
    ASSUME LimiterSound, NEW f \in [0..(Window - 1) -> Nat]
    PROVE  /\ Limiter!Lately(f) \in [0..Window -> Nat]
           /\ Limiter!Lately(f)[0] = 0
           /\ \A n \in 1..Window : Limiter!Lately(f)[n] = Limiter!Lately(f)[n - 1] + f[n - 1]
<1> DEFINE step == [n \in 1..Window |-> [v \in Nat |-> v + f[n - 1]]]
           Solves(g) == g = [n \in 0..Window |-> IF n = 0 THEN 0 ELSE g[n - 1] + f[n - 1]]
<1>1. Window \in Nat /\ \A n \in 1..Window : n - 1 \in 0..(Window - 1) /\ n - 1 \in 0..Window /\ f[n - 1] \in Nat
  BY DEF LimiterSound
<1>2. step \in [1..Window -> [Nat -> Nat]]
  BY <1>1
<1>3. PICK g \in [0..Window -> Nat] : g[0] = 0 /\ \A n \in 1..Window : g[n] = step[n][g[n - 1]]
  <2> HIDE DEF step
  <2>1. Soluble(Nat, 0, Window, step)
    BY <1>1, <1>2, RecursionSolved
  <2> QED BY <2>1 DEF Soluble
<1>4. \A n \in 1..Window : g[n] = g[n - 1] + f[n - 1]
  BY <1>1, <1>3
<1>5. Solves(g)
  BY <1>1, <1>3, <1>4
<1>6. Limiter!Lately(f) = CHOOSE h : Solves(h)
  BY DEF Limiter!Lately
<1>7. Solves(Limiter!Lately(f))
  <2> HIDE DEF Solves
  <2> QED BY <1>5, <1>6
<1> DEFINE S == Limiter!Lately(f)
<1>8. DOMAIN S = 0..Window /\ S[0] = 0 /\ \A n \in 1..Window : S[n] = S[n - 1] + f[n - 1]
  <2> HIDE DEF S
  <2>1. Solves(S)
    BY <1>7 DEF S
  <2> QED BY <1>1, <2>1
<1>9. \A n \in 0..Window : S[n] \in Nat
  <2> DEFINE T == {n \in 0..Window : S[n] \in Nat}
  <2> HIDE DEF S
  <2>1. 0 \in T
    BY <1>1, <1>8
  <2>2. ASSUME NEW n \in 1..Window, n - 1 \in T PROVE n \in T
    BY <1>1, <1>8, <2>2
  <2> HIDE DEF T
  <2>3. \A n \in 0..Window : n \in T
    BY <1>1, <2>1, <2>2, UpTo
  <2> QED BY <2>3 DEF T
<1>10. S = [n \in 0..Window |-> S[n]]
  <2> HIDE DEF S
  <2>1. Solves(S)
    BY <1>7 DEF S
  <2> QED BY <2>1
<1> QED BY <1>8, <1>9, <1>10

\* More ticks, more requests.
LEMMA LatelyGrows ==
    ASSUME LimiterSound, NEW f \in [0..(Window - 1) -> Nat]
    PROVE  \A m, n \in 0..Window : m <= n => Limiter!Lately(f)[m] <= Limiter!Lately(f)[n]
<1> DEFINE S == Limiter!Lately(f)
           T == {n \in 0..Window : \A m \in 0..n : S[m] <= S[n]}
<1>0. Window \in Nat /\ \A n \in 1..Window : f[n - 1] \in Nat
  BY DEF LimiterSound
<1>1. S \in [0..Window -> Nat] /\ \A n \in 1..Window : S[n] = S[n - 1] + f[n - 1]
  BY LatelyIs
<1> HIDE DEF S
<1>2. 0 \in T
  <2>1. \A m \in 0..0 : m = 0
    OBVIOUS
  <2>2. S[0] \in Nat /\ 0 \in 0..Window
    BY <1>0, <1>1
  <2>3. \A m \in 0..0 : S[m] <= S[0]
    BY <2>1, <2>2
  <2> QED BY <2>2, <2>3
<1>3. ASSUME NEW n \in 1..Window, n - 1 \in T PROVE n \in T
  <2>1. n \in 0..Window /\ n - 1 \in 0..Window /\ S[n - 1] \in Nat /\ S[n] \in Nat /\ f[n - 1] \in Nat
        /\ S[n] = S[n - 1] + f[n - 1] /\ \A m \in 0..(n - 1) : S[m] <= S[n - 1]
    BY <1>0, <1>1, <1>3
  <2>2. ASSUME NEW m \in 0..n PROVE S[m] <= S[n]
    <3>1. m \in 0..Window /\ S[m] \in Nat /\ (m = n \/ m \in 0..(n - 1))
      BY <1>0, <1>1, <2>1
    <3>2. m = n \/ S[m] <= S[n - 1]
      BY <2>1, <3>1
    <3> QED BY <2>1, <3>1, <3>2
  <2> QED BY <2>1, <2>2
<1> HIDE DEF T
<1>4. \A n \in 0..Window : n \in T
  BY <1>0, <1>1, <1>2, <1>3, UpTo
<1>5. ASSUME NEW m \in 0..Window, NEW n \in 0..Window, m <= n PROVE S[m] <= S[n]
  <2>1. m \in 0..n
    BY <1>5, <1>0
  <2> QED BY <1>4, <2>1 DEF T
<1> QED BY <1>5 DEF S

\* A tick later everything is a tick longer ago.
LEMMA LatelyAges ==
    ASSUME LimiterSound, NEW f \in [0..(Window - 1) -> Nat], NEW g \in [0..(Window - 1) -> Nat],
           g[0] = 0, \A n \in 1..(Window - 1) : g[n] = f[n - 1]
    PROVE  \A n \in 1..Window : Limiter!Lately(g)[n] = Limiter!Lately(f)[n - 1]
<1> DEFINE S == Limiter!Lately(f)
           U == Limiter!Lately(g)
           T == {n \in 0..(Window - 1) : U[n + 1] = S[n]}
<1>0. Window \in Nat /\ Window - 1 \in Nat /\ 1 \in 1..Window
  BY DEF LimiterSound
<1>1. S \in [0..Window -> Nat] /\ U \in [0..Window -> Nat] /\ S[0] = 0 /\ U[0] = 0
      /\ (\A n \in 1..Window : S[n] = S[n - 1] + f[n - 1]) /\ \A n \in 1..Window : U[n] = U[n - 1] + g[n - 1]
  BY LatelyIs
<1> HIDE DEF S, U
<1>2. 0 \in T
  <2>1. U[1] = U[0] + g[0]
    BY <1>0, <1>1
  <2> QED BY <1>0, <1>1, <2>1
<1>3. ASSUME NEW n \in 1..(Window - 1), n - 1 \in T PROVE n \in T
  <2>1. n \in 0..(Window - 1) /\ n \in 1..Window /\ n + 1 \in 1..Window /\ (n + 1) - 1 = n /\ (n - 1) + 1 = n
    BY <1>0
  <2>2. U[n] = S[n - 1]
    BY <1>3, <2>1
  <2>3. U[n + 1] = U[n] + g[n] /\ S[n] = S[n - 1] + f[n - 1] /\ g[n] = f[n - 1]
    BY <1>1, <2>1
  <2> QED BY <2>1, <2>2, <2>3
<1> HIDE DEF T
<1>4. \A n \in 0..(Window - 1) : n \in T
  BY <1>0, <1>2, <1>3, UpTo
<1>5. ASSUME NEW n \in 1..Window PROVE U[n] = S[n - 1]
  <2>1. n - 1 \in 0..(Window - 1) /\ (n - 1) + 1 = n
    BY <1>0
  <2> QED BY <1>4, <2>1 DEF T
<1> QED BY <1>5 DEF S, U

\* One request more just now.
LEMMA LatelyPasses ==
    ASSUME LimiterSound, NEW f \in [0..(Window - 1) -> Nat]
    PROVE  LET g == [f EXCEPT ![0] = @ + 1] IN
             \A n \in 1..Window : Limiter!Lately(g)[n] = Limiter!Lately(f)[n] + 1
<1> DEFINE g == [f EXCEPT ![0] = @ + 1]
           S == Limiter!Lately(f)
           U == Limiter!Lately(g)
           T == {n \in 0..(Window - 1) : U[n + 1] = S[n + 1] + 1}
<1>0. Window \in Nat /\ Window - 1 \in Nat /\ g \in [0..(Window - 1) -> Nat] /\ g[0] = f[0] + 1
      /\ \A n \in 1..(Window - 1) : g[n] = f[n]
  BY DEF LimiterSound
<1> HIDE DEF g
<1>1. S \in [0..Window -> Nat] /\ U \in [0..Window -> Nat] /\ S[0] = 0 /\ U[0] = 0
      /\ (\A n \in 1..Window : S[n] = S[n - 1] + f[n - 1]) /\ \A n \in 1..Window : U[n] = U[n - 1] + g[n - 1]
  BY <1>0, LatelyIs
<1> HIDE DEF S, U
<1>2. 0 \in T
  <2>1. 1 \in 1..Window
    BY <1>0
  <2>2. S[1] = S[0] + f[0] /\ U[1] = U[0] + g[0] /\ f[0] \in Nat
    BY <1>0, <1>1, <2>1
  <2> QED BY <1>0, <1>1, <2>2
<1>3. ASSUME NEW n \in 1..(Window - 1), n - 1 \in T PROVE n \in T
  <2>1. n \in 0..(Window - 1) /\ n + 1 \in 1..Window /\ (n + 1) - 1 = n /\ (n - 1) + 1 = n /\ f[n] \in Nat /\ n \in 0..Window
    BY <1>0
  <2>2. U[n] = S[n] + 1
    BY <1>3, <2>1
  <2>3. U[n + 1] = U[n] + g[n] /\ S[n + 1] = S[n] + f[n] /\ g[n] = f[n] /\ S[n] \in Nat
    BY <1>0, <1>1, <2>1
  <2> QED BY <2>1, <2>2, <2>3
<1> HIDE DEF T
<1>4. \A n \in 0..(Window - 1) : n \in T
  BY <1>0, <1>2, <1>3, UpTo
<1>5. ASSUME NEW n \in 1..Window PROVE U[n] = S[n] + 1
  <2>1. n - 1 \in 0..(Window - 1) /\ (n - 1) + 1 = n
    BY <1>0
  <2> QED BY <1>4, <2>1 DEF T
<1> QED BY <1>5 DEF S, U, g

\* Nobody got through.
LEMMA LatelyNobody ==
    ASSUME LimiterSound
    PROVE  \A n \in 0..Window : Limiter!Lately(Limiter!Nobody)[n] = 0
<1> DEFINE f == Limiter!Nobody
           S == Limiter!Lately(f)
           T == {n \in 0..Window : S[n] = 0}
<1>1. Window \in Nat /\ f \in [0..(Window - 1) -> Nat] /\ \A n \in 0..(Window - 1) : f[n] = 0
  BY DEF LimiterSound, Limiter!Nobody, Limiter!Age
<1> HIDE DEF f
<1>2. S[0] = 0 /\ \A n \in 1..Window : S[n] = S[n - 1] + f[n - 1]
  BY <1>1, LatelyIs
<1> HIDE DEF S
<1>3. 0 \in T
  BY <1>1, <1>2
<1>4. ASSUME NEW n \in 1..Window, n - 1 \in T PROVE n \in T
  BY <1>1, <1>2, <1>4
<1> HIDE DEF T
<1>5. \A n \in 0..Window : n \in T
  BY <1>1, <1>3, <1>4, UpTo
<1> QED BY <1>5 DEF T, S, f

\* b is the window of a key at time t, S sums up what got through: when no window runs, nothing got
\* through in this tick and less than the limit within the last ones; when one runs, it began with a
\* request and has counted what got through since, and before it less than the limit did.
Steady(S, b, t) ==
    IF b = None \/ t >= b.start + Window
    THEN S[1] = 0 /\ S[Window] <= Limit - 1
    ELSE \E a \in 0..(Window - 1) :
            t = b.start + a /\ S[a + 1] = b.count /\ S[a] <= b.count - 1 /\ S[Window] <= S[a + 1] + (Limit - 1)

Sums == {S \in [0..Window -> Nat] : S[0] = 0 /\ \A m, n \in 0..Window : m <= n => S[m] <= S[n]}
Bucket == [start : 0..LimiterTime, count : 1..Limit]

LEMMA SteadyTicks ==
    ASSUME LimiterSound, NEW S \in Sums, NEW U \in Sums, \A n \in 1..Window : U[n] = S[n - 1],
           NEW b \in Bucket \cup {None}, NEW t \in Nat, Steady(S, b, t)
    PROVE  Steady(U, b, t + 1)
<1>1. Window \in Nat \ {0} /\ Limit \in Nat \ {0} /\ 0 \in 0..Window /\ 1 \in 1..Window /\ Window \in 1..Window
      /\ Window - 1 \in 0..Window
  BY DEF LimiterSound
<1>2. S[0] = 0 /\ U[1] = 0 /\ U[Window] = S[Window - 1] /\ S[Window - 1] <= S[Window] /\ S[Window - 1] \in Nat /\ S[Window] \in Nat
  BY <1>1 DEF Sums
<1>3. CASE b = None \/ t >= b.start + Window
  <2>1. S[Window] <= Limit - 1
    BY <1>3 DEF Steady
  <2>2. b = None \/ t + 1 >= b.start + Window
    BY <1>1, <1>3 DEF Bucket
  <2>3. U[Window] <= Limit - 1
    BY <1>1, <1>2, <2>1
  <2> QED BY <1>2, <2>2, <2>3 DEF Steady
<1>4. CASE ~(b = None \/ t >= b.start + Window)
  <2>1. b \in Bucket /\ b.start \in Nat /\ b.count \in 1..Limit
    BY <1>4 DEF Bucket
  <2>2. PICK a \in 0..(Window - 1) : t = b.start + a /\ S[a + 1] = b.count /\ S[a] <= b.count - 1 /\ S[Window] <= S[a + 1] + (Limit - 1)
    BY <1>4 DEF Steady
  <2>3. a \in Nat /\ a \in 0..Window /\ a + 1 \in 1..Window /\ S[a] \in Nat /\ S[a + 1] \in Nat /\ U[a + 1] = S[a]
    BY <1>1 DEF Sums
  <2>4. CASE a = Window - 1
    <3>1. t + 1 >= b.start + Window
      BY <1>1, <2>1, <2>2, <2>4
    <3>2. U[Window] <= Limit - 1
      BY <1>1, <1>2, <2>1, <2>2, <2>3, <2>4
    <3> QED BY <1>2, <3>1, <3>2 DEF Steady
  <2>5. CASE a # Window - 1
    <3>1. a + 1 \in 0..(Window - 1) /\ (a + 1) + 1 \in 1..Window /\ ((a + 1) + 1) - 1 = a + 1 /\ t + 1 = b.start + (a + 1)
          /\ ~(t + 1 >= b.start + Window)
      BY <1>1, <2>1, <2>2, <2>3, <2>5
    <3>2. U[(a + 1) + 1] = S[a + 1]
      BY <3>1
    <3>3. U[Window] <= U[(a + 1) + 1] + (Limit - 1)
      BY <1>1, <1>2, <2>2, <2>3, <3>2
    <3>4. \E d \in 0..(Window - 1) :
            t + 1 = b.start + d /\ U[d + 1] = b.count /\ U[d] <= b.count - 1 /\ U[Window] <= U[d + 1] + (Limit - 1)
      BY <2>2, <2>3, <3>1, <3>2, <3>3
    <3> QED BY <1>4, <3>1, <3>4 DEF Steady
  <2> QED BY <2>4, <2>5
<1> QED BY <1>3, <1>4

LEMMA SteadyBegins ==
    ASSUME LimiterSound, NEW S \in Sums, NEW U \in Sums, \A n \in 1..Window : U[n] = S[n] + 1,
           NEW b \in Bucket \cup {None}, NEW t \in Nat, Steady(S, b, t), b = None \/ t >= b.start + Window,
           NEW new, new # None, new.start = t, new.count = 1
    PROVE  Steady(U, new, t) /\ U[1] = 1
<1>1. Window \in Nat \ {0} /\ Limit \in Nat \ {0} /\ 0 \in 0..(Window - 1) /\ 1 \in 1..Window /\ Window \in 1..Window
  BY DEF LimiterSound
<1>2. S[1] = 0 /\ S[Window] <= Limit - 1
  BY DEF Steady
<1>3. U[1] = 1 /\ U[0] = 0 /\ U[Window] = S[Window] + 1 /\ S[Window] \in Nat
  BY <1>1, <1>2 DEF Sums
<1>4. t = new.start + 0 /\ U[0 + 1] = new.count /\ U[0] <= new.count - 1 /\ U[Window] <= U[0 + 1] + (Limit - 1)
  BY <1>1, <1>2, <1>3
<1>5. ~(t >= new.start + Window)
  BY <1>1
<1> QED BY <1>1, <1>3, <1>4, <1>5 DEF Steady

LEMMA SteadyCounts ==
    ASSUME LimiterSound, NEW S \in Sums, NEW U \in Sums, \A n \in 1..Window : U[n] = S[n] + 1,
           NEW b \in Bucket, NEW t \in Nat, Steady(S, b, t), b # None, ~(t >= b.start + Window),
           NEW new, new # None, new.start = b.start, new.count = b.count + 1, b.count < Limit
    PROVE  Steady(U, new, t) /\ U[1] <= Limit
<1>1. Window \in Nat \ {0} /\ Limit \in Nat \ {0} /\ 0 \in 0..Window /\ 1 \in 1..Window /\ 1 \in 0..Window /\ Window \in 1..Window
  BY DEF LimiterSound
<1>2. b.start \in Nat /\ b.count \in 1..Limit
  BY DEF Bucket
<1>3. PICK a \in 0..(Window - 1) : t = b.start + a /\ S[a + 1] = b.count /\ S[a] <= b.count - 1 /\ S[Window] <= S[a + 1] + (Limit - 1)
  BY DEF Steady
<1>4. a \in Nat /\ a \in 0..Window /\ a + 1 \in 1..Window /\ a + 1 \in 0..Window /\ S[a] \in Nat /\ S[a + 1] \in Nat
  BY <1>1 DEF Sums
<1>5. U[a + 1] = S[a + 1] + 1 /\ U[Window] = S[Window] + 1 /\ U[1] = S[1] + 1 /\ S[1] \in Nat /\ S[Window] \in Nat
  BY <1>1, <1>4 DEF Sums
<1>6. U[a] <= S[a] + 1
  <2>1. CASE a = 0
    BY <2>1, <1>4 DEF Sums
  <2>2. CASE a # 0
    <3>1. a \in 1..Window
      BY <2>2, <1>4
    <3> QED BY <3>1, <1>4
  <2> QED BY <2>1, <2>2
<1>7. U[a] \in Nat
  BY <1>4 DEF Sums
<1>8. S[1] <= S[a + 1]
  BY <1>1, <1>4 DEF Sums
<1>9. t = new.start + a /\ U[a + 1] = new.count /\ U[a] <= new.count - 1 /\ U[Window] <= U[a + 1] + (Limit - 1)
  BY <1>1, <1>2, <1>3, <1>4, <1>5, <1>6, <1>7
<1> QED BY <1>1, <1>2, <1>3, <1>5, <1>8, <1>9 DEF Steady

\* Sums of what got through are sums.
LEMMA LatelySums ==
    ASSUME LimiterSound, NEW f \in [0..(Window - 1) -> Nat]
    PROVE  Limiter!Lately(f) \in Sums
BY LatelyIs, LatelyGrows DEF Sums

LimiterInv ==
    /\ Limiter!TypeOK
    /\ \A k \in LimitKey : buckets[k] # None => buckets[k].start <= now
    /\ \A k \in evicted : passed[k] = Limiter!Nobody
    /\ \A k \in LimitKey \ evicted : Steady(Limiter!Lately(passed[k]), buckets[k], now)

LEMMA LimiterInit ==
    ASSUME LimiterSound, Limiter!Init
    PROVE  LimiterInv
<1>1. Limiter!TypeOK
  <2>1. {k \in LimitKey : buckets[k] # None} = {}
    BY DEF Limiter!Init
  <2>2. Cardinality({k \in LimitKey : buckets[k] # None}) <= MaxBuckets
    BY <2>1, FS_EmptySet DEF LimiterSound
  <2>3. Limiter!Nobody \in [Limiter!Age -> 0..Limit]
    BY DEF Limiter!Nobody, LimiterSound
  <2>4. now \in Limiter!Time /\ lastPrune \in Limiter!Time
    BY DEF Limiter!Init, Limiter!Time, LimiterSound
  <2>5. passed \in [LimitKey -> [Limiter!Age -> 0..Limit]] /\ evicted \subseteq LimitKey
    BY <2>3 DEF Limiter!Init
  <2>6. buckets \in [LimitKey -> [start : Limiter!Time, count : 1..Limit] \cup {None}]
    BY DEF Limiter!Init
  <2> QED BY <2>2, <2>4, <2>5, <2>6, SameCardinality DEF Limiter!TypeOK
<1>2. ASSUME NEW k \in LimitKey PROVE Steady(Limiter!Lately(passed[k]), buckets[k], now)
  <2>1. passed[k] = Limiter!Nobody /\ buckets[k] = None
    BY DEF Limiter!Init
  <2>2. 1 \in 0..Window /\ Window \in 0..Window /\ 0 <= Limit - 1
    BY DEF LimiterSound
  <2> QED BY <2>1, <2>2, LatelyNobody DEF Steady
<1> QED BY <1>1, <1>2 DEF LimiterInv, Limiter!Init

\* A tick.
LEMMA LimiterTicks ==
    ASSUME LimiterSound, LimiterInv, Limiter!Tick
    PROVE  LimiterInv'
<1>1. now \in Nat /\ now' = now + 1 /\ now' \in Limiter!Time /\ buckets' = buckets /\ lastPrune' = lastPrune /\ evicted' = evicted
      /\ Window \in Nat \ {0} /\ Limit \in Nat
  BY DEF Limiter!Tick, LimiterInv, Limiter!TypeOK, Limiter!Time, LimiterSound
<1>2. ASSUME NEW k \in LimitKey
      PROVE  /\ passed[k] \in [0..(Window - 1) -> 0..Limit] /\ passed'[k] \in [0..(Window - 1) -> 0..Limit]
             /\ passed'[k][0] = 0 /\ \A n \in 1..(Window - 1) : passed'[k][n] = passed[k][n - 1]
  <2>1. passed[k] \in [0..(Window - 1) -> 0..Limit]
    BY DEF LimiterInv, Limiter!TypeOK, Limiter!Age
  <2>2. passed'[k] = [n \in 0..(Window - 1) |-> IF n = 0 THEN 0 ELSE passed[k][n - 1]]
    BY DEF Limiter!Tick, Limiter!Age
  <2>3. \A n \in 0..(Window - 1) : n = 0 \/ n - 1 \in 0..(Window - 1)
    BY <1>1
  <2>4. 0 \in 0..(Window - 1) /\ 0 \in 0..Limit /\ \A n \in 1..(Window - 1) : n \in 0..(Window - 1) /\ n # 0
    BY <1>1
  <2> QED BY <2>1, <2>2, <2>3, <2>4
<1>3. Limiter!TypeOK'
  <2>1. DOMAIN passed' = LimitKey /\ passed' = [k \in LimitKey |-> passed'[k]]
    BY DEF Limiter!Tick
  <2>2. passed' \in [LimitKey -> [Limiter!Age -> 0..Limit]]
    BY <1>2, <2>1 DEF Limiter!Age
  <2> QED BY <1>1, <2>2 DEF LimiterInv, Limiter!TypeOK
<1>4. \A k \in LimitKey : buckets'[k] # None => buckets'[k].start <= now'
  <2>1. \A k \in LimitKey : buckets[k] # None => buckets[k].start \in Nat /\ buckets[k].start <= now
    BY DEF LimiterInv, Limiter!TypeOK, Limiter!Time
  <2> QED BY <1>1, <2>1
<1>5. ASSUME NEW k \in evicted' PROVE passed'[k] = Limiter!Nobody
  <2>1. k \in LimitKey /\ passed[k] = Limiter!Nobody
    BY <1>1, <1>5 DEF LimiterInv, Limiter!TypeOK
  <2>2. passed'[k] = [n \in Limiter!Age |-> IF n = 0 THEN 0 ELSE passed[k][n - 1]]
    BY <2>1 DEF Limiter!Tick
  <2>3. \A n \in Limiter!Age : n = 0 \/ n - 1 \in Limiter!Age
    BY <1>1 DEF Limiter!Age
  <2>4. \A n \in Limiter!Age : (IF n = 0 THEN 0 ELSE passed[k][n - 1]) = 0
    BY <2>1, <2>3 DEF Limiter!Nobody
  <2> QED BY <2>2, <2>4 DEF Limiter!Nobody
<1>6. ASSUME NEW k \in LimitKey \ evicted' PROVE Steady(Limiter!Lately(passed'[k]), buckets'[k], now')
  <2>1. Steady(Limiter!Lately(passed[k]), buckets[k], now) /\ buckets[k] \in Bucket \cup {None}
    BY <1>1 DEF LimiterInv, Limiter!TypeOK, Limiter!Time, Bucket
  <2>2. passed[k] \in [0..(Window - 1) -> Nat] /\ passed'[k] \in [0..(Window - 1) -> Nat]
    BY <1>1, <1>2
  <2>3. \A n \in 1..Window : Limiter!Lately(passed'[k])[n] = Limiter!Lately(passed[k])[n - 1]
    BY <1>2, <2>2, LatelyAges
  <2>4. Limiter!Lately(passed[k]) \in Sums /\ Limiter!Lately(passed'[k]) \in Sums
    BY <2>2, LatelySums
  <2>5. Steady(Limiter!Lately(passed'[k]), buckets[k], now + 1)
    BY <1>1, <2>1, <2>3, <2>4, SteadyTicks
  <2> QED BY <1>1, <2>5
<1> QED BY <1>3, <1>4, <1>5, <1>6 DEF LimiterInv

\* Throwing out what is over changes no window that runs.
LEMMA KeptSteady ==
    ASSUME LimiterSound, LimiterInv
    PROVE  /\ \A k \in LimitKey : Limiter!Kept[k] = buckets[k] \/ Limiter!Kept[k] = None
           /\ \A k \in LimitKey \ evicted : Steady(Limiter!Lately(passed[k]), Limiter!Kept[k], now)
           /\ Limiter!Kept \in [LimitKey -> Bucket \cup {None}]
           /\ lastPrune \in Limiter!Time /\ (Limiter!Pruned => lastPrune' \in Limiter!Time)
<1>1. buckets \in [LimitKey -> Bucket \cup {None}] /\ now \in Nat /\ now \in Limiter!Time /\ lastPrune \in Limiter!Time /\ Window \in Nat
  BY DEF LimiterInv, Limiter!TypeOK, Limiter!Time, Bucket, LimiterSound
<1>2. \A k \in LimitKey : Limiter!Kept[k] = buckets[k] \/ Limiter!Kept[k] = None
  BY <1>1 DEF Limiter!Kept
<1>3. Limiter!Kept \in [LimitKey -> Bucket \cup {None}]
  BY <1>1 DEF Limiter!Kept
<1>4. ASSUME NEW k \in LimitKey \ evicted PROVE Steady(Limiter!Lately(passed[k]), Limiter!Kept[k], now)
  <2>1. Steady(Limiter!Lately(passed[k]), buckets[k], now)
    BY DEF LimiterInv
  <2>2. CASE Limiter!Kept[k] = buckets[k]
    BY <2>1, <2>2
  <2>3. CASE Limiter!Kept[k] # buckets[k]
    <3>1. Limiter!Kept[k] = None /\ buckets[k] # None
      BY <1>2, <2>3
    <3>2. ~(buckets[k].start + Window >= now)
      BY <1>1, <2>3, <3>1 DEF Limiter!Kept
    <3>3. buckets[k].start \in Nat
      BY <1>1, <3>1 DEF Bucket
    <3>4. now >= buckets[k].start + Window
      BY <1>1, <3>2, <3>3
    <3> QED BY <2>1, <3>1, <3>4 DEF Steady
  <2> QED BY <2>2, <2>3
<1>5. Limiter!Pruned => lastPrune' \in Limiter!Time
  BY <1>1 DEF Limiter!Pruned
<1> QED BY <1>1, <1>2, <1>3, <1>4, <1>5

LEMMA LimiterRefuses ==
    ASSUME LimiterSound, LimiterInv, NEW k \in LimitKey, Limiter!Refuse(k)
    PROVE  LimiterInv'
<1>1. buckets' = Limiter!Kept /\ lastPrune' \in Limiter!Time /\ now' = now /\ passed' = passed /\ evicted' = evicted
  BY KeptSteady DEF Limiter!Refuse
<1>2. {l \in LimitKey : Limiter!Kept[l] # None} \subseteq {l \in LimitKey : buckets[l] # None}
  BY KeptSteady
<1>3. Cardinality({l \in LimitKey : Limiter!Kept[l] # None}) <= MaxBuckets
  <2>1. IsFiniteSet({l \in LimitKey : buckets[l] # None})
    BY FS_Subset DEF LimiterSound
  <2>2. Cardinality({l \in LimitKey : Limiter!Kept[l] # None}) <= Cardinality({l \in LimitKey : buckets[l] # None})
        /\ IsFiniteSet({l \in LimitKey : Limiter!Kept[l] # None})
    BY <1>2, <2>1, FS_Subset
  <2>3. Cardinality({l \in LimitKey : Limiter!Kept[l] # None}) \in Nat
        /\ Cardinality({l \in LimitKey : buckets[l] # None}) \in Nat
    BY <2>1, <2>2, FS_CardinalityType
  <2>4. Cardinality({l \in LimitKey : buckets[l] # None}) <= MaxBuckets /\ MaxBuckets \in Nat
    BY SameCardinality DEF LimiterInv, Limiter!TypeOK, LimiterSound
  <2> QED BY <2>2, <2>3, <2>4
<1>4. Limiter!TypeOK'
  <2>1. Cardinality({l \in LimitKey : buckets'[l] # None}) <= MaxBuckets
    BY <1>1, <1>3
  <2>2. buckets' \in [LimitKey -> [start : Limiter!Time, count : 1..Limit] \cup {None}]
    BY <1>1, KeptSteady DEF Bucket, Limiter!Time
  <2>3. now' \in Limiter!Time /\ passed' \in [LimitKey -> [Limiter!Age -> 0..Limit]] /\ evicted' \subseteq LimitKey
    BY <1>1 DEF LimiterInv, Limiter!TypeOK
  <2> QED BY <1>1, <2>1, <2>2, <2>3, SameCardinality DEF Limiter!TypeOK
<1>5. \A l \in LimitKey : buckets'[l] # None => buckets'[l].start <= now'
  BY <1>1, KeptSteady DEF LimiterInv
<1> QED BY <1>1, <1>4, <1>5, KeptSteady DEF LimiterInv

\* The window a request is counted in.
LEMMA CurrentSteady ==
    ASSUME LimiterSound, LimiterInv, NEW k \in LimitKey, Limiter!Current(k).count < Limit
    PROVE  LET new == [Limiter!Current(k) EXCEPT !.count = @ + 1] IN
             /\ new \in Bucket /\ new # None /\ new.start <= now
             /\ k \notin evicted =>
                  /\ Steady(Limiter!Lately([passed[k] EXCEPT ![0] = @ + 1]), new, now)
                  /\ [passed[k] EXCEPT ![0] = @ + 1] \in [0..(Window - 1) -> 0..Limit]
<1> DEFINE new == [Limiter!Current(k) EXCEPT !.count = @ + 1]
           b == Limiter!Kept[k]
           g == [passed[k] EXCEPT ![0] = @ + 1]
<1>1. Window \in Nat \ {0} /\ Limit \in Nat \ {0} /\ now \in Nat /\ now \in 0..LimiterTime /\ b \in Bucket \cup {None}
      /\ passed[k] \in [0..(Window - 1) -> 0..Limit] /\ 0 \in 0..(Window - 1)
  BY KeptSteady DEF LimiterSound, LimiterInv, Limiter!TypeOK, Limiter!Time, Limiter!Age
<1>2. passed[k] \in [0..(Window - 1) -> Nat] /\ g \in [0..(Window - 1) -> Nat] /\ passed[k][0] \in Nat
      /\ g[0] = passed[k][0] + 1 /\ \A n \in 0..(Window - 1) : n # 0 => g[n] = passed[k][n]
  BY <1>1
<1> DEFINE S == Limiter!Lately(passed[k])
           U == Limiter!Lately(g)
<1>3. S \in Sums /\ U \in Sums /\ \A n \in 1..Window : U[n] = S[n] + 1
  BY <1>2, LatelySums, LatelyPasses
<1>4. U[1] = g[0]
  <2>1. 1 \in 1..Window /\ 1 - 1 = 0
    BY <1>1
  <2>2. U[0] = 0 /\ U[1] = U[0] + g[0] /\ g[0] \in Nat
    BY <1>2, <2>1, <1>1, LatelyIs
  <2> QED BY <2>2
<1>5. U[1] <= Limit => g \in [0..(Window - 1) -> 0..Limit]
  <2> SUFFICES ASSUME U[1] <= Limit PROVE \A n \in 0..(Window - 1) : g[n] \in 0..Limit
    BY <1>2
  <2>1. g[0] \in 0..Limit
    BY <1>1, <1>2, <1>4
  <2> QED BY <1>1, <1>2, <2>1
<1>6. k \notin evicted => Steady(S, b, now)
  BY KeptSteady
<1>7. CASE b = None \/ now >= b.start + Window
  <2>1. Limiter!Current(k) = [start |-> now, count |-> 0]
    BY <1>7 DEF Limiter!Current
  <2>2. new = [start |-> now, count |-> 1]
    BY <2>1
  <2>3. new \in Bucket /\ new.start = now /\ new.count = 1
    BY <1>1, <2>2 DEF Bucket
  <2>4. new # None
    BY <1>1, <2>3 DEF LimiterSound, Bucket
  <2> HIDE DEF new, b, S, U, g
  <2>5. k \notin evicted => Steady(U, new, now) /\ U[1] = 1
    <3> SUFFICES ASSUME k \notin evicted PROVE Steady(U, new, now) /\ U[1] = 1
      OBVIOUS
    <3>1. Steady(S, b, now)
      BY <1>6
    <3>2. S \in Sums /\ U \in Sums /\ b \in Bucket \cup {None} /\ now \in Nat
      BY <1>1, <1>3
    <3>3. \A n \in 1..Window : U[n] = S[n] + 1
      BY <1>3
    <3>4. new # None /\ new.start = now /\ new.count = 1
      BY <2>3, <2>4
    <3> QED BY <1>7, <3>1, <3>2, <3>3, <3>4, SteadyBegins
  <2>6. k \notin evicted => g \in [0..(Window - 1) -> 0..Limit]
    BY <1>1, <1>5, <2>5
  <2> QED BY <1>1, <2>3, <2>4, <2>5, <2>6 DEF new, U, g
<1>8. CASE ~(b = None \/ now >= b.start + Window)
  <2>1. Limiter!Current(k) = b /\ b # None /\ b \in Bucket /\ b.count < Limit
    BY <1>1, <1>8 DEF Limiter!Current
  <2>2. new = [start |-> b.start, count |-> b.count + 1]
    BY <2>1 DEF Bucket
  <2>3. b.start \in 0..LimiterTime /\ b.count \in 1..Limit
    BY <2>1 DEF Bucket
  <2>4. new \in Bucket /\ new.start = b.start /\ new.count = b.count + 1
    BY <1>1, <2>1, <2>2, <2>3 DEF Bucket
  <2>5. new # None
    BY <1>1, <2>4 DEF LimiterSound, Bucket
  <2>6. b.start <= now
    BY <2>1, KeptSteady DEF LimiterInv
  <2> HIDE DEF new, b, S, U, g
  <2>7. k \notin evicted => Steady(U, new, now) /\ U[1] <= Limit
    BY <1>1, <1>3, <1>6, <1>8, <2>1, <2>4, <2>5, SteadyCounts
  <2> QED BY <1>5, <2>4, <2>5, <2>6, <2>7 DEF new, U, g
<1> QED BY <1>7, <1>8

\* A request gets through; where there is one window too many, one is thrown out.
LEMMA LimiterPasses ==
    ASSUME LimiterSound, LimiterInv, NEW k \in LimitKey, Limiter!Pass(k)
    PROVE  LimiterInv'
<1> DEFINE new == [Limiter!Current(k) EXCEPT !.count = @ + 1]
           counted == [Limiter!Kept EXCEPT ![k] = new]
           used == {l \in LimitKey : counted[l] # None}
           g == [passed[k] EXCEPT ![0] = @ + 1]
<1>1. PICK v \in Limiter!Victims(counted) :
            /\ buckets' = IF v = None THEN counted ELSE [counted EXCEPT ![v] = None]
            /\ evicted' = evicted \cup ({v} \ {None})
  BY DEF Limiter!Pass
<1>2. /\ Limiter!Current(k).count < Limit
      /\ passed' = [l \in LimitKey |-> IF l \in evicted' THEN Limiter!Nobody
                                       ELSE IF l = k THEN g ELSE passed[l]]
      /\ now' = now /\ lastPrune' \in Limiter!Time
  BY KeptSteady DEF Limiter!Pass
<1>3. /\ new \in Bucket /\ new # None /\ new.start <= now
      /\ k \notin evicted => Steady(Limiter!Lately(g), new, now) /\ g \in [0..(Window - 1) -> 0..Limit]
  BY <1>2, CurrentSteady
<1> HIDE DEF new, g
<1>4. /\ counted \in [LimitKey -> Bucket \cup {None}] /\ counted[k] = new
      /\ \A l \in LimitKey : l # k => counted[l] = Limiter!Kept[l]
  BY <1>3, KeptSteady
<1>5. (v = None /\ Cardinality(used) <= MaxBuckets) \/ (v # None /\ v \in used)
  <2>1. CASE Cardinality(used) <= MaxBuckets
    <3>1. v = None
      BY <1>1, <2>1, SameCardinality DEF Limiter!Victims
    <3> QED BY <2>1, <3>1
  <2>2. CASE ~(Cardinality(used) <= MaxBuckets)
    <3>1. v \in used
      BY <1>1, <2>2, SameCardinality DEF Limiter!Victims
    <3> QED BY <3>1 DEF LimiterSound
  <2> QED BY <2>1, <2>2
<1> HIDE DEF counted
<1>6. /\ buckets' \in [LimitKey -> Bucket \cup {None}]
      /\ \A l \in LimitKey : l # v => buckets'[l] = counted[l]
      /\ v # None => v \in LimitKey /\ buckets'[v] = None /\ v \in evicted'
      /\ evicted \subseteq evicted' /\ evicted' \subseteq LimitKey
  BY <1>1, <1>4, <1>5 DEF LimiterInv, Limiter!TypeOK, LimiterSound
<1>7. Cardinality({l \in LimitKey : buckets'[l] # None}) <= MaxBuckets
  <2> DEFINE old == {l \in LimitKey : buckets[l] # None}
             after == {l \in LimitKey : buckets'[l] # None}
  <2>1. IsFiniteSet(old) /\ IsFiniteSet(used) /\ IsFiniteSet(old \cup {k})
    BY FS_Subset, FS_AddElement DEF LimiterSound
  <2>2. used \subseteq old \cup {k}
    BY <1>4, KeptSteady
  <2>3. Cardinality(used) <= Cardinality(old \cup {k})
    BY <2>1, <2>2, FS_Subset
  <2>4. Cardinality(old \cup {k}) <= Cardinality(old) + 1 /\ Cardinality(old) \in Nat /\ Cardinality(used) \in Nat
        /\ Cardinality(old \cup {k}) \in Nat
    <3>1. Cardinality(old) \in Nat /\ Cardinality(used) \in Nat /\ Cardinality(old \cup {k}) \in Nat
      BY <2>1, FS_CardinalityType
    <3>2. Cardinality(old \cup {k}) = Cardinality(old) \/ Cardinality(old \cup {k}) = Cardinality(old) + 1
      <4> HIDE DEF old
      <4> QED BY <2>1, FS_AddElement
    <3> HIDE DEF old, used
    <3> QED BY <3>1, <3>2
  <2>5. Cardinality(old) <= MaxBuckets /\ MaxBuckets \in Nat
    BY SameCardinality DEF LimiterInv, Limiter!TypeOK, LimiterSound
  <2>6. CASE v = None
    <3>1. after = used
      BY <1>1, <2>6
    <3> QED BY <1>5, <2>6, <3>1
  <2>7. CASE v # None
    <3>1. v \in used
      BY <1>5, <2>7
    <3>2. after = used \ {v}
      BY <1>6, <2>7
    <3>3. Cardinality(used \ {v}) = Cardinality(used) - 1
      <4> HIDE DEF used
      <4> QED BY <2>1, <3>1, FS_RemoveElement
    <3> HIDE DEF used, old, after
    <3>4. Cardinality(after) <= MaxBuckets
      BY <2>3, <2>4, <2>5, <3>2, <3>3
    <3> QED BY <3>4 DEF after
  <2> QED BY <2>6, <2>7
<1>8. ASSUME NEW l \in LimitKey
      PROVE  passed'[l] \in [0..(Window - 1) -> 0..Limit] /\ (l \in evicted' => passed'[l] = Limiter!Nobody)
  <2>1. passed[l] \in [0..(Window - 1) -> 0..Limit]
    BY DEF LimiterInv, Limiter!TypeOK, Limiter!Age
  <2>2. Limiter!Nobody \in [0..(Window - 1) -> 0..Limit]
    BY DEF Limiter!Nobody, Limiter!Age, LimiterSound
  <2> QED BY <1>2, <1>3, <1>6, <2>1, <2>2
<1>9. Limiter!TypeOK'
  <2>1. DOMAIN passed' = LimitKey /\ passed' = [l \in LimitKey |-> passed'[l]]
    BY <1>2
  <2>2. passed' \in [LimitKey -> [Limiter!Age -> 0..Limit]]
    BY <1>8, <2>1 DEF Limiter!Age
  <2>3. buckets' \in [LimitKey -> [start : Limiter!Time, count : 1..Limit] \cup {None}]
    BY <1>6 DEF Bucket, Limiter!Time
  <2>4. now' \in Limiter!Time
    BY <1>2 DEF LimiterInv, Limiter!TypeOK
  <2> QED BY <1>2, <1>6, <1>7, <2>2, <2>3, <2>4, SameCardinality DEF Limiter!TypeOK
<1>10. ASSUME NEW l \in LimitKey, buckets'[l] # None PROVE buckets'[l].start <= now'
  <2>1. buckets'[l] = counted[l]
    BY <1>6, <1>10 DEF LimiterSound
  <2> QED BY <1>2, <1>3, <1>4, <1>10, <2>1, KeptSteady DEF LimiterInv
<1>11. \A l \in evicted' : passed'[l] = Limiter!Nobody
  BY <1>6, <1>8
<1>12. ASSUME NEW l \in LimitKey \ evicted' PROVE Steady(Limiter!Lately(passed'[l]), buckets'[l], now')
  <2>1. l \notin evicted /\ l # v /\ buckets'[l] = counted[l]
    BY <1>5, <1>6, <1>12 DEF LimiterSound
  <2>2. CASE l = k
    <3>1. passed'[l] = g
      BY <1>2, <2>2
    <3> QED BY <1>2, <1>3, <1>4, <2>1, <2>2, <3>1
  <2>3. CASE l # k
    <3>1. passed'[l] = passed[l] /\ buckets'[l] = Limiter!Kept[l]
      BY <1>2, <1>4, <2>1, <2>3
    <3> QED BY <1>2, <2>1, <3>1, KeptSteady
  <2> QED BY <2>2, <2>3
<1> QED BY <1>9, <1>10, <1>11, <1>12 DEF LimiterInv

LEMMA LimiterStep ==
    ASSUME LimiterSound, LimiterInv, [Limiter!Next]_(Limiter!vars)
    PROVE  LimiterInv'
<1>1. CASE UNCHANGED Limiter!vars
  BY <1>1 DEF Limiter!vars, LimiterInv, Limiter!TypeOK
<1>2. CASE Limiter!Tick
  BY <1>2, LimiterTicks
<1>3. ASSUME NEW k \in LimitKey, Limiter!Pass(k) PROVE LimiterInv'
  BY <1>3, LimiterPasses
<1>4. ASSUME NEW k \in LimitKey, Limiter!Refuse(k) PROVE LimiterInv'
  BY <1>4, LimiterRefuses
<1> QED BY <1>1, <1>2, <1>3, <1>4 DEF Limiter!Next

LEMMA LimiterHolds ==
    ASSUME LimiterSound, LimiterInv
    PROVE  Limiter!AtMostTwiceTheLimit
<1>1. Window \in Nat \ {0} /\ Limit \in Nat \ {0} /\ 1 \in 0..Window /\ Window \in 0..Window
  BY DEF LimiterSound
<1>2. ASSUME NEW k \in LimitKey \ evicted PROVE Limiter!Lately(passed[k])[Window] <= 2 * Limit - 1
  <2> DEFINE S == Limiter!Lately(passed[k])
             b == buckets[k]
  <2>1. Steady(S, b, now) /\ b \in Bucket \cup {None} /\ passed[k] \in [0..(Window - 1) -> Nat]
    BY <1>1 DEF LimiterInv, Limiter!TypeOK, Limiter!Time, Limiter!Age, Bucket
  <2>2. S \in Sums
    BY <2>1, LatelySums
  <2> HIDE DEF S, b
  <2>3. S[Window] \in Nat
    BY <1>1, <2>2 DEF Sums
  <2>6. 2 * Limit = Limit + Limit
    BY <1>1
  <2> SUFFICES S[Window] <= 2 * Limit - 1
    BY DEF S
  <2>4. CASE b = None \/ now >= b.start + Window
    <3>1. S[Window] <= Limit - 1
      BY <2>1, <2>4 DEF Steady
    <3> QED BY <1>1, <2>3, <2>6, <3>1
  <2>5. CASE ~(b = None \/ now >= b.start + Window)
    <3>1. PICK a \in 0..(Window - 1) : S[a + 1] = b.count /\ S[Window] <= S[a + 1] + (Limit - 1)
      BY <2>1, <2>5 DEF Steady
    <3>2. b.count \in 1..Limit
      BY <2>1, <2>5 DEF Bucket
    <3> QED BY <1>1, <2>3, <2>6, <3>1, <3>2
  <2> QED BY <2>4, <2>5
<1> QED BY <1>2 DEF Limiter!AtMostTwiceTheLimit

\* rate_limit.py: in no period as long as a window do more than twice the limit less one get through.
THEOREM TwiceTheLimitAtMost ==
    ASSUME LimiterSound
    PROVE  Limiter!Spec => []Limiter!AtMostTwiceTheLimit
<1>1. Limiter!Init => LimiterInv
  BY LimiterInit
<1>2. LimiterInv /\ [Limiter!Next]_(Limiter!vars) => LimiterInv'
  BY LimiterStep
<1>3. LimiterInv => Limiter!AtMostTwiceTheLimit
  BY LimiterHolds
<1> QED BY <1>1, <1>2, <1>3, PTL DEF Limiter!Spec

-----------------------------------------------------------------------------
(* The table of roles.                                                     *)
Access == INSTANCE AccessGuard WITH Role <- AccessRole

\* The rules for one segment, and those for more.
Short == {1, 4, 5, 11, 17, 18, 19, 30, 31} \cup 38..42 \cup 44..46
Long == {2, 3} \cup 6..10 \cup 12..16 \cup 20..29 \cup 32..37 \cup {43}

Segment(i, n) == Access!Rules[i].prefix[n]
Segments(i) == Len(Access!Rules[i].prefix)
Method(i) == Access!Rules[i].method

LEMMA RuleLengths ==
    /\ Len(Access!Rules) = 46 /\ DOMAIN Access!Rules = 1..46
    /\ \A i \in 1..46 : i \in Short \/ i \in Long
    /\ \A i \in Short : Segments(i) = 1
    /\ \A i \in Long : Segments(i) \in {2, 3}
    /\ \A i \in 1..46 : Access!Rules[i].role \in {"operator", "setup", "admin"}
<1>1. Len(Access!Rules) = 46
  BY DEF Access!Rules
<1>6. DOMAIN Access!Rules = 1..46
  BY SMTT(60) DEF Access!Rules
<1>2. \A i \in 1..46 : i \in Short \/ i \in Long
  BY DEF Short, Long
<1>3. \A i \in Short : Segments(i) = 1
  BY SMTT(60) DEF Access!Rules, Access!Rule, Short, Segments
<1>4. \A i \in Long : Segments(i) \in {2, 3}
  BY SMTT(60) DEF Access!Rules, Access!Rule, Long, Segments
<1>5. \A i \in 1..46 : Access!Rules[i].role \in {"operator", "setup", "admin"}
  BY SMTT(60) DEF Access!Rules, Access!Rule
<1> QED BY <1>1, <1>2, <1>3, <1>4, <1>5, <1>6

LEMMA RuleNumbers == \A i \in 1..46 : Segments(i) \in Nat
<1>1. \A i \in Short : Segments(i) \in Nat
  BY RuleLengths
<1>2. \A i \in Long : Segments(i) \in Nat
  BY RuleLengths
<1> QED BY <1>1, <1>2, RuleLengths

\* Which rules begin alike.
LEMMA RuleHeads ==
    /\ \A i \in 1..46 : Segment(i, 1) = "runtime" => i \in {6, 7, 8, 9, 10, 17}
    /\ \A i \in Short : i = 17 \/ \A j \in 1..46 : Segment(i, 1) = Segment(j, 1) => i = j
    /\ \A i \in Long : i \in {9, 10, 12, 13, 22, 24, 28, 29, 33, 34}
          \/ \A j \in Long : Segment(i, 1) = Segment(j, 1) /\ Segment(i, 2) = Segment(j, 2) => i = j
    /\ \A j \in Long :
          /\ Segment(j, 1) = "runtime" /\ Segment(j, 2) = "session" => j \in {9, 10}
          /\ Segment(j, 1) = "setup" /\ Segment(j, 2) = "settings" => j \in {12, 13}
          /\ Segment(j, 1) = "vision" /\ Segment(j, 2) = "source" => j \in {22, 24}
          /\ Segment(j, 1) = "vision" /\ Segment(j, 2) = "calibration" => j \in {28, 29}
          /\ Segment(j, 1) = "robot" /\ Segment(j, 2) = "calibration" => j \in {33, 34}
<1>1. \A i \in 1..46 : Segment(i, 1) = "runtime" => i \in {6, 7, 8, 9, 10, 17}
  BY SMTT(60) DEF Access!Rules, Access!Rule, Segment
<1>2. \A i \in Short : i = 17 \/ \A j \in 1..46 : Segment(i, 1) = Segment(j, 1) => i = j
  BY SMTT(60) DEF Access!Rules, Access!Rule, Segment, Short
<1>3. \A i \in Long : i \in {9, 10, 12, 13, 22, 24, 28, 29, 33, 34}
        \/ \A j \in Long : Segment(i, 1) = Segment(j, 1) /\ Segment(i, 2) = Segment(j, 2) => i = j
  BY SMTT(60) DEF Access!Rules, Access!Rule, Segment, Long
<1>4. \A j \in Long :
          /\ Segment(j, 1) = "runtime" /\ Segment(j, 2) = "session" => j \in {9, 10}
          /\ Segment(j, 1) = "setup" /\ Segment(j, 2) = "settings" => j \in {12, 13}
          /\ Segment(j, 1) = "vision" /\ Segment(j, 2) = "source" => j \in {22, 24}
          /\ Segment(j, 1) = "vision" /\ Segment(j, 2) = "calibration" => j \in {28, 29}
          /\ Segment(j, 1) = "robot" /\ Segment(j, 2) = "calibration" => j \in {33, 34}
  BY SMTT(60) DEF Access!Rules, Access!Rule, Segment, Long
<1> QED BY <1>1, <1>2, <1>3, <1>4

\* The rules that share their first two segments with another.
LEMMA RulePairs ==
    /\ Segment(17, 1) = "runtime"
    /\ \A i \in {9, 10} : Segment(i, 1) = "runtime" /\ Segment(i, 2) = "session" /\ Segments(i) = 3
    /\ \A i \in {22, 24} : Segment(i, 1) = "vision" /\ Segment(i, 2) = "source" /\ Segments(i) = 3
    /\ Segment(9, 3) = "start" /\ Segment(10, 3) = "end" /\ Segment(22, 3) = "status" /\ Segment(24, 3) = "test-frame"
    /\ \A i \in {12, 13} : Segment(i, 1) = "setup" /\ Segment(i, 2) = "settings" /\ Segments(i) = 2
    /\ \A i \in {28, 29} : Segment(i, 1) = "vision" /\ Segment(i, 2) = "calibration" /\ Segments(i) = 2
    /\ \A i \in {33, 34} : Segment(i, 1) = "robot" /\ Segment(i, 2) = "calibration" /\ Segments(i) = 2
    /\ \A i \in {12, 28, 33} : Method(i) = "GET"
    /\ \A i \in {13, 29, 34} : Method(i) = Access!All
<1>1. /\ Access!Rules[17].prefix = <<"runtime">>
      /\ Access!Rules[9].prefix = <<"runtime", "session", "start">> /\ Access!Rules[10].prefix = <<"runtime", "session", "end">>
      /\ Access!Rules[22].prefix = <<"vision", "source", "status">> /\ Access!Rules[24].prefix = <<"vision", "source", "test-frame">>
      /\ Access!Rules[12].prefix = <<"setup", "settings">> /\ Access!Rules[13].prefix = <<"setup", "settings">>
      /\ Access!Rules[28].prefix = <<"vision", "calibration">> /\ Access!Rules[29].prefix = <<"vision", "calibration">>
      /\ Access!Rules[33].prefix = <<"robot", "calibration">> /\ Access!Rules[34].prefix = <<"robot", "calibration">>
  BY DEF Access!Rules, Access!Rule
<1>2. /\ Method(12) = "GET" /\ Method(28) = "GET" /\ Method(33) = "GET"
      /\ Method(13) = Access!All /\ Method(29) = Access!All /\ Method(34) = Access!All
  BY DEF Access!Rules, Access!Rule, Method
<1>3. Segments(9) = 3 /\ Segments(10) = 3 /\ Segments(22) = 3 /\ Segments(24) = 3 /\ Segments(12) = 2 /\ Segments(13) = 2
      /\ Segments(28) = 2 /\ Segments(29) = 2 /\ Segments(33) = 2 /\ Segments(34) = 2
  BY <1>1 DEF Segments
<1>4. /\ Segment(17, 1) = "runtime" /\ Segment(9, 1) = "runtime" /\ Segment(10, 1) = "runtime"
      /\ Segment(22, 1) = "vision" /\ Segment(24, 1) = "vision" /\ Segment(12, 1) = "setup" /\ Segment(13, 1) = "setup"
      /\ Segment(28, 1) = "vision" /\ Segment(29, 1) = "vision" /\ Segment(33, 1) = "robot" /\ Segment(34, 1) = "robot"
  BY <1>1 DEF Segment
<1>5. /\ Segment(9, 2) = "session" /\ Segment(10, 2) = "session"
      /\ Segment(22, 2) = "source" /\ Segment(24, 2) = "source" /\ Segment(12, 2) = "settings" /\ Segment(13, 2) = "settings"
      /\ Segment(28, 2) = "calibration" /\ Segment(29, 2) = "calibration" /\ Segment(33, 2) = "calibration"
      /\ Segment(34, 2) = "calibration"
  BY <1>1 DEF Segment
<1>6. Segment(9, 3) = "start" /\ Segment(10, 3) = "end" /\ Segment(22, 3) = "status" /\ Segment(24, 3) = "test-frame"
  BY <1>1 DEF Segment
<1> QED BY <1>2, <1>3, <1>4, <1>5, <1>6

\* A later rule for the same path or a longer one comes after a rule for GET and is for any method.
LEMMA RuleOrder ==
    ASSUME NEW i \in 1..46, NEW j \in 1..46, i < j,
           Segments(i) <= Segments(j),
           \A n \in 1..Segments(i) : Segment(i, n) = Segment(j, n)
    PROVE  /\ Segments(i) = Segments(j)
           /\ Method(i) = "GET" /\ Method(j) = Access!All
<1>1. CASE i \in Short
  <2>1. Segment(i, 1) = Segment(j, 1)
    BY <1>1, RuleLengths
  <2>2. i = 17
    BY <1>1, <2>1, RuleHeads
  <2>3. j \in {6, 7, 8, 9, 10, 17}
    BY <2>1, <2>2, RuleHeads, RulePairs
  <2> QED BY <2>2, <2>3
<1>2. CASE i \in Long
  <2>1. Segments(i) \in {2, 3}
    BY <1>2, RuleLengths
  <2>2. j \in Long
    <3>1. j \notin Short
      BY <2>1, RuleLengths
    <3> QED BY <3>1, RuleLengths
  <2>3. Segment(i, 1) = Segment(j, 1) /\ Segment(i, 2) = Segment(j, 2)
    BY <2>1
  <2>4. Segments(i) = 3 => Segment(i, 3) = Segment(j, 3)
    OBVIOUS
  <2>5. i \in {9, 10, 12, 13, 22, 24, 28, 29, 33, 34}
    BY <1>2, <2>2, <2>3, RuleHeads
  <2>6. CASE i \in {9, 10}
    <3>1. j \in {9, 10} /\ Segment(i, 3) = Segment(j, 3)
      BY <2>2, <2>3, <2>4, <2>6, RuleHeads, RulePairs
    <3> QED BY <2>6, <3>1, RulePairs
  <2>7. CASE i \in {22, 24}
    <3>1. j \in {22, 24} /\ Segment(i, 3) = Segment(j, 3)
      BY <2>2, <2>3, <2>4, <2>7, RuleHeads, RulePairs
    <3> QED BY <2>7, <3>1, RulePairs
  <2>8. CASE i \in {12, 13}
    <3>1. i = 12 /\ j = 13
      BY <2>2, <2>3, <2>8, RuleHeads, RulePairs
    <3> QED BY <3>1, RulePairs
  <2>9. CASE i \in {28, 29}
    <3>1. i = 28 /\ j = 29
      BY <2>2, <2>3, <2>9, RuleHeads, RulePairs
    <3> QED BY <3>1, RulePairs
  <2>10. CASE i \in {33, 34}
    <3>1. i = 33 /\ j = 34
      BY <2>2, <2>3, <2>10, RuleHeads, RulePairs
    <3> QED BY <3>1, RulePairs
  <2> QED BY <2>5, <2>6, <2>7, <2>8, <2>9, <2>10
<1> QED BY <1>1, <1>2, RuleLengths

\* The rule that decides is the first one that matches.
LEMMA FirstRule ==
    ASSUME NEW r, NEW j \in 1..46, Access!Matches(Access!Rules[j], r)
    PROVE  \E i \in 1..46 : i <= j /\ Access!Matches(Access!Rules[i], r) /\ Access!RequiredRole(r) = Access!Rules[i].role
<1> DEFINE I == {i \in 1..Len(Access!Rules) : Access!Matches(Access!Rules[i], r)}
<1>1. I \subseteq 1..46 /\ j \in I
  BY RuleLengths
<1>2. Access!SelectInSeq(Access!Rules, LAMBDA rule : Access!Matches(rule, r)) = Access!Min(I)
  BY <1>1 DEF Access!SelectInSeq
<1>3. Access!Min(I) \in I /\ \A i \in I : Access!Min(I) <= i
  <2>1. \E m \in I : \A n \in I : m <= n
    <3>1. I \subseteq Nat /\ I # {}
      BY <1>1
    <3> HIDE DEF I
    <3> QED BY <3>1, LeastNatural
  <2> QED BY <2>1 DEF Access!Min
<1> HIDE DEF I
<1>4. Access!Min(I) \in 1..46 /\ Access!Min(I) <= j
  BY <1>1, <1>3
<1>5. Access!RequiredRole(r) = Access!Rules[Access!Min(I)].role
  BY <1>2, <1>4 DEF Access!RequiredRole
<1>6. Access!Matches(Access!Rules[Access!Min(I)], r)
  BY <1>3 DEF I
<1> QED BY <1>4, <1>5, <1>6

AccessInv == answer = "none" \/ answer = Access!Answer(request)

LEMMA AccessHolds ==
    ASSUME AccessInv
    PROVE  Access!StrictestRuleDecides
<1> SUFFICES ASSUME answer = "on", ~request.open, request.path \notin Access!Logins PROVE
        LET match == {i \in DOMAIN Access!Rules : Access!Matches(Access!Rules[i], request)}
            own == {i \in match : \A j \in match : Len(Access!Rules[j].prefix) <= Len(Access!Rules[i].prefix)}
            named == {i \in own : Access!Rules[i].method = request.method}
        IN  \A i \in IF named = {} THEN own ELSE named : Access!HasRole(Access!Claims(request), Access!Rules[i].role)
  BY DEF Access!StrictestRuleDecides
<1> DEFINE match == {i \in DOMAIN Access!Rules : Access!Matches(Access!Rules[i], request)}
           own == {i \in match : \A j \in match : Len(Access!Rules[j].prefix) <= Len(Access!Rules[i].prefix)}
           named == {i \in own : Access!Rules[i].method = request.method}
<1> SUFFICES ASSUME NEW j \in own, named # {} => j \in named
             PROVE  Access!HasRole(Access!Claims(request), Access!Rules[j].role)
  OBVIOUS
<1>1. j \in 1..46 /\ j \in match /\ Access!Matches(Access!Rules[j], request)
  BY RuleLengths
<1>2. PICK i \in 1..46 : i <= j /\ Access!Matches(Access!Rules[i], request) /\ Access!RequiredRole(request) = Access!Rules[i].role
  BY <1>1, FirstRule
<1>3. i \in 1..46 /\ j \in 1..46 /\ i \in match /\ Access!Matches(Access!Rules[j], request) 
      /\ Segments(i) <= Segments(j)
  <2>1. i \in match
    BY <1>2, RuleLengths
  <2> QED BY <1>1, <1>2, <2>1 DEF Segments
<1>4. Access!HasRole(Access!Claims(request), Access!Rules[i].role)
  <2>1. Access!RequiredRole(request) # Access!All
    BY <1>2, <1>3, RuleLengths DEF Access!All
  <2> QED BY <1>2, <2>1 DEF AccessInv, Access!Answer
<1>5. CASE i = j
  BY <1>4, <1>5
<1>6. CASE i # j
  <2>1. Segments(i) \in Nat /\ Segments(j) \in Nat
    BY <1>3, RuleNumbers
  <2>2. \A n \in 1..Segments(i) : Segment(i, n) = request.path[n] /\ Segment(j, n) = request.path[n]
    <3>1. SubSeq(Access!Rules[i].prefix, 1, Segments(i)) = SubSeq(request.path, 1, Segments(i))
      BY <1>2 DEF Access!Matches, Access!IsPrefix, Segments
    <3>2. SubSeq(Access!Rules[j].prefix, 1, Segments(j)) = SubSeq(request.path, 1, Segments(j))
      BY <1>3 DEF Access!Matches, Access!IsPrefix, Segments
    <3>3. \A x : \A m \in Nat : \A n \in 1..m : SubSeq(x, 1, m)[n] = x[n]
      OBVIOUS
    <3> QED BY <1>3, <2>1, <3>1, <3>2, <3>3 DEF Segment
  <2>3. Segments(i) = Segments(j) /\ Method(i) = "GET" /\ Method(j) = Access!All
    <3>1. i < j
      <4>1. i \in Nat /\ j \in Nat /\ i <= j
        BY <1>2, <1>3
      <4> QED BY <1>6, <4>1
    <3> QED BY <1>3, <2>2, <3>1, RuleOrder
  <2>4. i \in named
    <3>1. request.method = "GET"
      BY <1>2, <2>3 DEF Access!Matches, Access!All, Method
    <3>2. i \in own
      BY <1>3, <2>3 DEF Segments
    <3> QED BY <2>3, <3>1, <3>2 DEF Method
  <2>5. Access!Rules[j].method = request.method
    BY <2>4
  <2> QED BY <2>3, <2>4, <2>5 DEF Access!All, Method
<1> QED BY <1>5, <1>6

LEMMA AccessInvHolds ==
    /\ Access!Init => AccessInv
    /\ AccessInv /\ [Access!Guard]_(Access!vars) => AccessInv'
  BY DEF Access!Init, AccessInv, Access!Guard, Access!vars

\* auth_guard.py: the most specific rule of a path decides, whatever the path, the method and the claims.
THEOREM StrictestRule == Access!Spec => []Access!StrictestRuleDecides
<1>1. AccessInv => Access!StrictestRuleDecides
  BY AccessHolds
<1> QED BY <1>1, AccessInvHolds, PTL DEF Access!Spec

-----------------------------------------------------------------------------
(* The doors of a command.                                                 *)
Doors == INSTANCE CommandEntry WITH published <- said

Commands == {"start_engine", "stop_engine", "sync_vision", "reset", "pause", "undo", "resume"}

LEMMA MeaningIs == \A w \in DOMAIN Doors!Meaning : Doors!Meaning[w] \in Commands
BY DEF Doors!Meaning, Commands

\* A socket publishes what /control does, and at most a toast after it.
LEMMA SameDispatch ==
    \A a \in Commands :
        Doors!SocketDispatched(a, Doors!Unsaid) \in {Doors!Dispatched(a), Doors!Dispatched(a) \o Doors!Toast}
BY DEF Commands, Doors!SocketDispatched, Doors!Dispatched, Doors!Unsaid, Doors!Analysis

EntryInv ==
    /\ request \in Doors!Request
    /\ answer = Doors!Unsaid \/ (answer = Doors!Answer(request) /\ said = Doors!Published(request))

LEMMA EntryHolds ==
    ASSUME EntryInv
    PROVE  Doors!SameWordSameEvents
<1> SUFFICES ASSUME answer = "accepted", "word" \in DOMAIN request, request.mode = Doors!Unsaid
             PROVE  said \in {Doors!Dispatched(Doors!Meaning[request.word]),
                              Doors!Dispatched(Doors!Meaning[request.word]) \o Doors!Toast}
  BY DEF Doors!SameWordSameEvents
<1>1. answer = Doors!Answer(request) /\ said = Doors!Published(request)
  BY DEF EntryInv, Doors!Unsaid
<1>2. request.door \in {"control", "shortcut", "socket"}
  BY DEF EntryInv, Doors!Request
<1>3. Doors!Known(request)
  BY <1>1, <1>2 DEF Doors!Answer, Doors!SocketAnswer
<1>4. Doors!Meaning[request.word] \in Commands
  BY <1>3, MeaningIs DEF Doors!Known
<1>5. CASE request.door \in {"control", "shortcut"}
  BY <1>1, <1>5 DEF Doors!Published
<1>6. CASE request.door = "socket"
  <2>1. said = Doors!SocketDispatched(Doors!Meaning[request.word], request.mode)
    BY <1>1, <1>6 DEF Doors!Published
  <2> QED BY <1>4, <2>1, SameDispatch
<1> QED BY <1>2, <1>5, <1>6

LEMMA EntryInvHolds ==
    /\ Doors!Init => EntryInv
    /\ EntryInv /\ [Doors!Handle]_(Doors!vars) => EntryInv'
  BY DEF Doors!Init, EntryInv, Doors!Handle, Doors!vars

\* control_routes.py, socket_handler.py: a word means the same by every door.
THEOREM SameWord == Doors!Spec => []Doors!SameWordSameEvents
<1>1. EntryInv => Doors!SameWordSameEvents
  BY EntryHolds
<1> QED BY <1>1, EntryInvHolds, PTL DEF Doors!Spec

-----------------------------------------------------------------------------
(* The dashboard.                                                          *)
Dashboard == INSTANCE Telemetry WITH Events <- DashEvents, MaxEvents <- DashKept

\* The events as they are recorded.
Told == [n : 1..MaxRecorded, trace : {e.trace : e \in DashEvents}, module : Dashboard!Modules,
         status : Dashboard!Statuses, severity : {"debug", "info", "warning", "error"}]

\* What an instance has to give: bounds, events with words for their parts, and a value that is none
\* of them.
DashSound ==
    /\ DashKept \in Nat \ {0} /\ MaxErrors \in Nat \ {0} /\ MaxTraces \in Nat \ {0}
    /\ MaxTraceEvents \in Nat \ {0} /\ MaxRecorded \in Nat /\ None \notin Told
    /\ \A e \in DashEvents : e.words # {}

\* The first rule that fits, where one does.
LEMMA KnownIs == \A m : Dashboard!KnownModule(m) \in Dashboard!Modules
<1>1. \A m \in DOMAIN Dashboard!ModuleAlias : Dashboard!ModuleAlias[m] \in Dashboard!Modules
  BY DEF Dashboard!ModuleAlias, Dashboard!Modules
<1>2. "state" \in Dashboard!Modules
  BY DEF Dashboard!Modules
<1> QED BY <1>1, <1>2 DEF Dashboard!KnownModule

LEMMA ModuleIs == \A e : Dashboard!ModuleOf(e) \in Dashboard!Modules
<1> SUFFICES ASSUME NEW e PROVE Dashboard!ModuleOf(e) \in Dashboard!Modules
  OBVIOUS
<1> DEFINE fallback == [prefix |-> {e.prefix}, word |-> {}, source |-> {}, is |-> "state"]
           rules == Append(Dashboard!ModuleRules, fallback)
           Fits(r) == \/ e.prefix \in r.prefix
                      \/ e.words \cap r.word # {}
                      \/ e.source \cap r.source # {}
           fitting == {i \in DOMAIN rules : Fits(rules[i])}
<1>1. CASE e.module # ""
  BY <1>1, KnownIs DEF Dashboard!ModuleOf
<1>2. CASE ~(e.module # "")
  <2>1. DOMAIN rules = 1..9 /\ rules[9] = fallback /\ \A i \in 1..9 : rules[i].is \in Dashboard!Modules
    BY DEF Dashboard!ModuleRules, Dashboard!Modules
  <2>2. 9 \in fitting
    BY <2>1
  <2>3. \E i \in fitting : \A j \in fitting : i <= j
    <3>1. fitting \subseteq Nat /\ fitting # {}
      BY <2>1, <2>2
    <3> HIDE DEF fitting
    <3> QED BY <3>1, LeastNatural
  <2>4. Dashboard!ModuleOf(e) = Dashboard!First(rules, Fits).is
    BY <1>2 DEF Dashboard!ModuleOf
  <2>5. Dashboard!First(rules, Fits) = rules[CHOOSE i \in fitting : \A j \in fitting : i <= j]
    BY DEF Dashboard!First
  <2> HIDE DEF rules, Fits
  <2>6. (CHOOSE i \in fitting : \A j \in fitting : i <= j) \in 1..9
    BY <2>1, <2>3
  <2> QED BY <2>1, <2>4, <2>5, <2>6
<1> QED BY <1>1, <1>2

LEMMA StatusIs ==
    ASSUME NEW e, e.words # {}
    PROVE  Dashboard!StatusOf(e) \in Dashboard!Statuses
<1> DEFINE fallback == [words |-> e.words, is |-> "idle"]
           rules == Append(Dashboard!StatusRules, fallback)
           Fits(r) == e.words \cap r.words # {}
           fitting == {i \in DOMAIN rules : Fits(rules[i])}
<1>1. CASE e.status # ""
  <2>1. \A s \in DOMAIN Dashboard!StatusAlias : Dashboard!StatusAlias[s] \in Dashboard!Statuses
    BY DEF Dashboard!StatusAlias, Dashboard!Statuses
  <2>2. "idle" \in Dashboard!Statuses
    BY DEF Dashboard!Statuses
  <2> QED BY <1>1, <2>1, <2>2 DEF Dashboard!StatusOf, Dashboard!NormalStatus
<1>2. CASE ~(e.status # "")
  <2>1. DOMAIN rules = 1..8 /\ rules[8] = fallback /\ \A i \in 1..8 : rules[i].is \in Dashboard!Statuses
    BY DEF Dashboard!StatusRules, Dashboard!Statuses
  <2>2. 8 \in fitting
    BY <2>1
  <2>3. \E i \in fitting : \A j \in fitting : i <= j
    <3>1. fitting \subseteq Nat /\ fitting # {}
      BY <2>1, <2>2
    <3> HIDE DEF fitting
    <3> QED BY <3>1, LeastNatural
  <2>4. Dashboard!StatusOf(e) = Dashboard!First(rules, Fits).is
    BY <1>2 DEF Dashboard!StatusOf
  <2>5. Dashboard!First(rules, Fits) = rules[CHOOSE i \in fitting : \A j \in fitting : i <= j]
    BY DEF Dashboard!First
  <2> HIDE DEF rules, Fits
  <2>6. (CHOOSE i \in fitting : \A j \in fitting : i <= j) \in 1..8
    BY <2>1, <2>3
  <2> QED BY <2>1, <2>4, <2>5, <2>6
<1> QED BY <1>1, <1>2

Lost(s, max) == IF Len(s) = max THEN 1 ELSE 0
OneMore(u, s, x, max, S) ==
    /\ u \in Seq(S) /\ Len(u) \in 1..max /\ Len(u) + Lost(s, max) = Len(s) + 1 /\ u[Len(u)] = x
    /\ \A i \in 1..(Len(u) - 1) : i + Lost(s, max) \in 1..Len(s) /\ u[i] = s[i + Lost(s, max)]

\* A bounded list takes one more at its end and may lose its first.
LEMMA PushedIs ==
    ASSUME NEW S, NEW s \in Seq(S), NEW x \in S, NEW max \in Nat \ {0}, Len(s) <= max
    PROVE  OneMore(Dashboard!Pushed(s, x, max), s, x, max, S)
<1> DEFINE a == Append(s, x)
           u == Dashboard!Pushed(s, x, max)
<1>1. a \in Seq(S) /\ Len(a) = Len(s) + 1 /\ a[Len(s) + 1] = x /\ Len(s) \in Nat /\ \A i \in 1..Len(s) : a[i] = s[i]
  OBVIOUS
<1> HIDE DEF a
<1>2. CASE Len(s) < max
  <2>1. u = a
    BY <1>1, <1>2 DEF Dashboard!Pushed, Dashboard!Latest, a
  <2>2. Lost(s, max) = 0
    BY <1>2 DEF Lost
  <2> QED BY <1>1, <1>2, <2>1, <2>2 DEF OneMore
<1>3. CASE Len(s) = max
  <2>1. u = SubSeq(a, 2, max + 1)
    BY <1>1, <1>3 DEF Dashboard!Pushed, Dashboard!Latest, a
  <2>2. u \in Seq(S) /\ Len(u) = max /\ \A i \in 1..max : u[i] = a[i + 1]
    BY <1>1, <1>3, <2>1
  <2>3. Lost(s, max) = 1
    BY <1>3 DEF Lost
  <2> QED BY <1>1, <1>3, <2>2, <2>3 DEF OneMore
<1> QED BY <1>2, <1>3

LEMMA RemovedIs ==
    ASSUME NEW S, NEW s \in Seq(S), NEW p \in 1..Len(s)
    PROVE  LET u == Dashboard!RemoveAt(s, p)
           IN  u \in Seq(S) /\ Len(u) = Len(s) - 1 /\ \A i \in 1..(Len(s) - 1) : u[i] = s[IF i < p THEN i ELSE i + 1]
<1> DEFINE a == SubSeq(s, 1, p - 1)
           b == SubSeq(s, p + 1, Len(s))
<1>1. a \in Seq(S) /\ b \in Seq(S) /\ Len(a) = p - 1 /\ Len(b) = Len(s) - p
      /\ (\A i \in 1..(p - 1) : a[i] = s[i]) /\ \A i \in 1..(Len(s) - p) : b[i] = s[p + i]
  OBVIOUS
<1>2. Dashboard!RemoveAt(s, p) = a \o b
  BY DEF Dashboard!RemoveAt
<1> HIDE DEF a, b
<1>3. a \o b \in Seq(S) /\ Len(a \o b) = Len(s) - 1
  <2>1. a \o b \in Seq(S) /\ Len(a \o b) = Len(a) + Len(b)
    <3>1. a \in Seq(S) /\ b \in Seq(S)
      BY <1>1
    <3> QED BY <3>1, ConcatProperties
  <2> QED BY <1>1, <2>1
<1>4. ASSUME NEW i \in 1..(Len(s) - 1) PROVE (a \o b)[i] = s[IF i < p THEN i ELSE i + 1]
  <2>1. CASE i < p
    BY <1>1, <2>1
  <2>2. CASE ~(i < p)
    <3>1. i - (p - 1) \in 1..(Len(s) - p) /\ p + (i - (p - 1)) = i + 1
      BY <2>2
    <3>2. (a \o b)[i] = b[i - (p - 1)]
      BY <1>1, <2>2, <3>1
    <3> QED BY <1>1, <2>2, <3>1, <3>2
  <2> QED BY <2>1, <2>2
<1> QED BY <1>2, <1>3, <1>4

\* d events were dropped before those in evs.
Numbered(evs, d) ==
    /\ evs \in Seq(Told) /\ Len(evs) <= DashKept /\ d \in Nat
    /\ \A i \in 1..Len(evs) : evs[i].n = d + i

\* One event t more.
Heard(evs, d, evs2, d2, t) ==
    /\ Numbered(evs, d) /\ Numbered(evs2, d2) /\ t \in Told
    /\ d2 \in Nat /\ d <= d2 /\ d2 + Len(evs2) = d + Len(evs) + 1 /\ Len(evs2) >= 1
    /\ t.n = d2 + Len(evs2) /\ evs2[Len(evs2)] = t
    /\ \A k \in (d2 + 1)..(d + Len(evs)) :
          k - d \in 1..Len(evs) /\ k - d2 \in 1..Len(evs2) /\ evs2[k - d2] = evs[k - d]
    /\ \A i \in 1..Len(evs2) : i = Len(evs2) \/ (i + (d2 - d) \in 1..Len(evs) /\ evs2[i] = evs[i + (d2 - d)])

LEMMA HeardIs ==
    ASSUME DashSound, NEW evs, NEW d, Numbered(evs, d), NEW t \in Told, t.n = d + Len(evs) + 1
    PROVE  Heard(evs, d, Dashboard!Pushed(evs, t, DashKept), d + (IF Len(evs) >= DashKept THEN 1 ELSE 0), t)
<1> DEFINE evs2 == Dashboard!Pushed(evs, t, DashKept)
           lost == Lost(evs, DashKept)
           d2 == d + (IF Len(evs) >= DashKept THEN 1 ELSE 0)
<1>1. evs \in Seq(Told) /\ Len(evs) <= DashKept /\ Len(evs) \in Nat /\ d \in Nat /\ DashKept \in Nat \ {0}
      /\ \A i \in 1..Len(evs) : evs[i].n = d + i
  BY DEF Numbered, DashSound
<1>2. /\ evs2 \in Seq(Told) /\ Len(evs2) + lost = Len(evs) + 1 /\ evs2[Len(evs2)] = t /\ Len(evs2) \in 1..DashKept
      /\ \A i \in 1..(Len(evs2) - 1) : i + lost \in 1..Len(evs) /\ evs2[i] = evs[i + lost]
  <2>1. OneMore(evs2, evs, t, DashKept, Told)
    BY <1>1, PushedIs
  <2> QED BY <2>1 DEF OneMore
<1>3. d2 = d + lost /\ lost \in {0, 1} /\ d2 \in Nat
  BY <1>1 DEF Lost
<1> HIDE DEF evs2, lost, d2
<1>4. d2 + Len(evs2) = d + Len(evs) + 1 /\ d <= d2 /\ Len(evs2) >= 1 /\ Len(evs2) \in Nat
  <2>1. Len(evs2) + lost = Len(evs) + 1 /\ Len(evs2) \in 1..DashKept /\ Len(evs) \in Nat /\ d \in Nat /\ DashKept \in Nat
    BY <1>1, <1>2
  <2> QED BY <1>3, <2>1
<1>5. ASSUME NEW i \in 1..Len(evs2)
      PROVE  /\ i = Len(evs2) \/ (i + (d2 - d) \in 1..Len(evs) /\ evs2[i] = evs[i + (d2 - d)])
             /\ evs2[i].n = d2 + i
  <2>1. CASE i = Len(evs2)
    BY <1>1, <1>2, <1>3, <1>4, <2>1
  <2>2. CASE i # Len(evs2)
    <3>1. i \in 1..(Len(evs2) - 1) /\ d2 - d = lost
      BY <1>1, <1>3, <1>4, <2>2
    <3>2. i + lost \in 1..Len(evs) /\ evs2[i] = evs[i + lost]
      BY <1>2, <3>1
    <3>3. evs[i + lost].n = d + (i + lost)
      BY <1>1, <3>2
    <3>4. d2 + i = d + (i + lost)
      BY <1>1, <1>3
    <3> QED BY <3>1, <3>2, <3>3, <3>4
  <2> QED BY <2>1, <2>2
<1>6. ASSUME NEW k \in (d2 + 1)..(d + Len(evs))
      PROVE  k - d \in 1..Len(evs) /\ k - d2 \in 1..Len(evs2) /\ evs2[k - d2] = evs[k - d]
  <2>1. k \in Nat /\ k - d2 \in 1..(Len(evs2) - 1) /\ (k - d2) + lost = k - d /\ k - d2 \in 1..Len(evs2)
    BY <1>1, <1>3, <1>4
  <2>2. (k - d2) + lost \in 1..Len(evs) /\ evs2[k - d2] = evs[(k - d2) + lost]
    BY <1>2, <2>1
  <2> QED BY <2>1, <2>2
<1>7. Numbered(evs2, d2)
  BY <1>2, <1>3, <1>4, <1>5 DEF Numbered
<1>8. t.n = d2 + Len(evs2)
  BY <1>4
<1> QED BY <1>2, <1>3, <1>4, <1>5, <1>6, <1>7, <1>8 DEF Heard, evs2, d2

\* x is the latest event of the class C, as far as the list tells.
LatestOf(x, C, evs, d) ==
    /\ \A i \in 1..Len(evs) : evs[i] \in C => x # None /\ evs[i].n <= x.n
    /\ x # None => /\ x \in C /\ x \in Told
                   /\ x.n > d => x.n - d \in 1..Len(evs) /\ x = evs[x.n - d]

LEMMA LatestStays ==
    ASSUME NEW x, NEW C, NEW evs, NEW d, NEW evs2, NEW d2, NEW t,
           Heard(evs, d, evs2, d2, t), LatestOf(x, C, evs, d), t \notin C
    PROVE  LatestOf(x, C, evs2, d2)
<1>1. ASSUME NEW i \in 1..Len(evs2), evs2[i] \in C PROVE x # None /\ evs2[i].n <= x.n
  <2>1. i + (d2 - d) \in 1..Len(evs) /\ evs2[i] = evs[i + (d2 - d)]
    BY <1>1 DEF Heard
  <2> QED BY <1>1, <2>1 DEF LatestOf
<1>2. ASSUME x # None, x.n > d2 PROVE x.n - d2 \in 1..Len(evs2) /\ x = evs2[x.n - d2]
  <2>1. x.n \in Nat /\ d \in Nat /\ d2 \in Nat /\ d <= d2 /\ Len(evs) \in Nat
    BY <1>2 DEF LatestOf, Told, Heard, Numbered
  <2>2. x.n - d \in 1..Len(evs) /\ x = evs[x.n - d]
    BY <1>2, <2>1 DEF LatestOf
  <2>3. x.n \in (d2 + 1)..(d + Len(evs))
    BY <1>2, <2>1, <2>2
  <2> QED BY <2>2, <2>3 DEF Heard
<1> QED BY <1>1, <1>2 DEF LatestOf

LEMMA LatestNew ==
    ASSUME DashSound, NEW C, NEW evs, NEW d, NEW evs2, NEW d2, NEW t \in C, Heard(evs, d, evs2, d2, t)
    PROVE  LatestOf(t, C, evs2, d2)
<1>1. t \in Told /\ t # None /\ d2 \in Nat /\ Len(evs2) \in Nat /\ t.n = d2 + Len(evs2) /\ evs2[Len(evs2)] = t /\ Len(evs2) >= 1
  BY DEF Heard, Numbered, DashSound
<1>2. ASSUME NEW i \in 1..Len(evs2) PROVE evs2[i].n <= t.n
  <2>1. evs2[i].n = d2 + i
    BY DEF Heard, Numbered
  <2> QED BY <1>1, <2>1
<1>3. t.n - d2 = Len(evs2) /\ t.n - d2 \in 1..Len(evs2)
  BY <1>1
<1> QED BY <1>1, <1>2, <1>3 DEF LatestOf

LEMMA LatestFound ==
    ASSUME NEW x, NEW C, NEW evs, NEW d, Numbered(evs, d), LatestOf(x, C, evs, d),
           NEW i \in 1..Len(evs), evs[i] \in C, \A j \in (i + 1)..Len(evs) : evs[j] \notin C
    PROVE  x # None /\ x = evs[i]
<1>1. x # None /\ evs[i].n <= x.n /\ evs[i].n = d + i /\ d \in Nat /\ Len(evs) \in Nat
  BY DEF LatestOf, Numbered
<1>2. x \in C /\ x.n \in Nat
  BY <1>1 DEF LatestOf, Told
<1>3. x.n - d \in 1..Len(evs) /\ x = evs[x.n - d]
  BY <1>1, <1>2 DEF LatestOf
<1>4. x.n - d = i \/ x.n - d \in (i + 1)..Len(evs)
  BY <1>1, <1>2, <1>3
<1> QED BY <1>1, <1>2, <1>3, <1>4

\* What is in the list of errors.
ErrorsFit(er, evs, d) ==
    /\ er \in Seq(Told) /\ Len(er) <= MaxErrors
    /\ \A i \in 1..Len(er) :
         /\ Dashboard!Warns(er[i])
         /\ \A j \in 1..(i - 1) : er[j].n < er[i].n
         /\ er[i].n > d => er[i].n - d \in 1..Len(evs) /\ er[i] = evs[er[i].n - d]
    /\ \A i \in 1..Len(evs) : Dashboard!Warns(evs[i]) =>
         \/ \E j \in 1..Len(er) : er[j] = evs[i]
         \/ Len(er) = MaxErrors /\ \A j \in 1..Len(er) : evs[i].n < er[j].n

\* An error that was in the list of events and is still new enough is there.
LEMMA ErrorStays ==
    ASSUME NEW er, NEW evs, NEW d, NEW evs2, NEW d2, NEW t, Heard(evs, d, evs2, d2, t), ErrorsFit(er, evs, d),
           NEW i \in 1..Len(er)
    PROVE  /\ er[i].n \in Nat /\ er[i].n < t.n
           /\ er[i].n > d2 => er[i].n - d2 \in 1..Len(evs2) /\ er[i] = evs2[er[i].n - d2]
<1>1. d \in Nat /\ d2 \in Nat /\ d <= d2 /\ Len(evs) \in Nat /\ Len(evs2) \in Nat /\ t.n = d2 + Len(evs2)
      /\ d2 + Len(evs2) = d + Len(evs) + 1
  BY DEF Heard, Numbered
<1>2. er[i].n \in Nat
  <2>1. er[i] \in Told
    BY DEF ErrorsFit
  <2> QED BY <2>1 DEF Told
<1>3. er[i].n > d => er[i].n - d \in 1..Len(evs) /\ er[i] = evs[er[i].n - d]
  BY DEF ErrorsFit
<1>4. er[i].n <= d + Len(evs)
  BY <1>1, <1>2, <1>3
<1>5. ASSUME er[i].n > d2 PROVE er[i].n - d2 \in 1..Len(evs2) /\ er[i] = evs2[er[i].n - d2]
  <2>1. er[i].n \in (d2 + 1)..(d + Len(evs)) /\ er[i] = evs[er[i].n - d]
    BY <1>1, <1>2, <1>3, <1>4, <1>5
  <2> QED BY <2>1 DEF Heard
<1> QED BY <1>1, <1>2, <1>4, <1>5

LEMMA ErrorsStay ==
    ASSUME NEW er, NEW evs, NEW d, NEW evs2, NEW d2, NEW t, Heard(evs, d, evs2, d2, t), ErrorsFit(er, evs, d),
           ~Dashboard!Warns(t)
    PROVE  ErrorsFit(er, evs2, d2)
<1>1. ASSUME NEW i \in 1..Len(evs2), Dashboard!Warns(evs2[i])
      PROVE  \/ \E j \in 1..Len(er) : er[j] = evs2[i]
             \/ Len(er) = MaxErrors /\ \A j \in 1..Len(er) : evs2[i].n < er[j].n
  <2>1. i + (d2 - d) \in 1..Len(evs) /\ evs2[i] = evs[i + (d2 - d)]
    BY <1>1 DEF Heard
  <2> QED BY <1>1, <2>1 DEF ErrorsFit
<1>2. \A i \in 1..Len(er) : Dashboard!Warns(er[i]) /\ \A j \in 1..(i - 1) : er[j].n < er[i].n
  BY DEF ErrorsFit
<1>3. er \in Seq(Told) /\ Len(er) <= MaxErrors
  BY DEF ErrorsFit
<1> QED BY <1>1, <1>2, <1>3, ErrorStays DEF ErrorsFit

LEMMA ErrorsGrow ==
    ASSUME DashSound, NEW er, NEW evs, NEW d, NEW evs2, NEW d2, NEW t, Heard(evs, d, evs2, d2, t), ErrorsFit(er, evs, d),
           Dashboard!Warns(t)
    PROVE  ErrorsFit(Dashboard!Pushed(er, t, MaxErrors), evs2, d2)
<1> DEFINE er2 == Dashboard!Pushed(er, t, MaxErrors)
           lost == Lost(er, MaxErrors)
<1>1. er \in Seq(Told) /\ Len(er) <= MaxErrors /\ Len(er) \in Nat /\ MaxErrors \in Nat \ {0} /\ t \in Told
  BY DEF ErrorsFit, DashSound, Heard
<1>2. /\ er2 \in Seq(Told) /\ Len(er2) + lost = Len(er) + 1 /\ er2[Len(er2)] = t /\ Len(er2) \in 1..MaxErrors
      /\ \A i \in 1..(Len(er2) - 1) : i + lost \in 1..Len(er) /\ er2[i] = er[i + lost]
  <2>1. OneMore(er2, er, t, MaxErrors, Told)
    BY <1>1, PushedIs
  <2> QED BY <2>1 DEF OneMore
<1>3. lost \in {0, 1} /\ (lost = 1 <=> Len(er) = MaxErrors) /\ (lost = 1 => Len(er2) = MaxErrors)
  <2>1. lost \in {0, 1} /\ (lost = 1 <=> Len(er) = MaxErrors)
    BY DEF Lost
  <2> QED BY <1>1, <1>2, <2>1
<1>t. t.n \in Nat /\ t.n = d2 + Len(evs2) /\ evs2[Len(evs2)] = t /\ Len(evs2) >= 1 /\ d2 \in Nat /\ Len(evs2) \in Nat
  BY DEF Heard, Told, Numbered
<1> HIDE DEF er2, lost
<1>4. \A i \in 1..Len(er2) : i = Len(er2) \/ i \in 1..(Len(er2) - 1)
  BY <1>2
<1>5. ASSUME NEW i \in 1..Len(er2)
      PROVE  /\ Dashboard!Warns(er2[i])
             /\ \A j \in 1..(i - 1) : er2[j].n < er2[i].n
             /\ er2[i].n > d2 => er2[i].n - d2 \in 1..Len(evs2) /\ er2[i] = evs2[er2[i].n - d2]
  <2>1. CASE i = Len(er2)
    <3>1. er2[i] = t
      BY <1>2, <2>1
    <3>2. ASSUME NEW j \in 1..(i - 1) PROVE er2[j].n < t.n
      <4>1. j \in 1..(Len(er2) - 1)
        BY <2>1
      <4>2. j + lost \in 1..Len(er) /\ er2[j] = er[j + lost]
        BY <1>2, <4>1
      <4> QED BY <4>2, ErrorStays
    <3>3. t.n - d2 = Len(evs2) /\ Len(evs2) \in 1..Len(evs2)
      BY <1>t
    <3> QED BY <1>t, <3>1, <3>2, <3>3
  <2>2. CASE i \in 1..(Len(er2) - 1)
    <3>1. i + lost \in 1..Len(er) /\ er2[i] = er[i + lost]
      BY <1>2, <2>2
    <3>2. Dashboard!Warns(er[i + lost]) /\ \A j \in 1..((i + lost) - 1) : er[j].n < er[i + lost].n
      <4>1. \A k \in 1..Len(er) : Dashboard!Warns(er[k]) /\ \A j \in 1..(k - 1) : er[j].n < er[k].n
        BY DEF ErrorsFit
      <4> QED BY <3>1, <4>1
    <3>3. ASSUME NEW j \in 1..(i - 1) PROVE er2[j].n < er2[i].n
      <4>1. j \in 1..(Len(er2) - 1) /\ j + lost \in 1..((i + lost) - 1)
        BY <1>2, <1>3, <2>2
      <4>2. er2[j] = er[j + lost]
        BY <1>2, <4>1
      <4> QED BY <3>1, <3>2, <4>1, <4>2
    <3>4. er2[i].n > d2 => er2[i].n - d2 \in 1..Len(evs2) /\ er2[i] = evs2[er2[i].n - d2]
      BY <3>1, ErrorStays
    <3> QED BY <3>1, <3>2, <3>3, <3>4
  <2> QED BY <1>4, <2>1, <2>2
<1>6. ASSUME NEW i \in 1..Len(evs2), Dashboard!Warns(evs2[i])
      PROVE  \/ \E j \in 1..Len(er2) : er2[j] = evs2[i]
             \/ Len(er2) = MaxErrors /\ \A j \in 1..Len(er2) : evs2[i].n < er2[j].n
  <2>1. CASE i = Len(evs2)
    <3>1. er2[Len(er2)] = evs2[i] /\ Len(er2) \in 1..Len(er2)
      BY <1>2, <1>t, <2>1
    <3> QED BY <3>1
  <2>2. CASE i # Len(evs2)
    <3>1. i + (d2 - d) \in 1..Len(evs) /\ evs2[i] = evs[i + (d2 - d)]
      BY <2>2 DEF Heard
    <3>2. \/ \E j \in 1..Len(er) : er[j] = evs2[i]
          \/ Len(er) = MaxErrors /\ \A j \in 1..Len(er) : evs2[i].n < er[j].n
      BY <1>6, <3>1 DEF ErrorsFit
    <3>3. evs2[i].n < t.n /\ evs2[i].n \in Nat
      <4>1. evs2[i].n = d2 + i
        BY DEF Heard, Numbered
      <4> QED BY <1>t, <2>2, <4>1
    <3>4. ASSUME NEW j \in 1..Len(er), er[j] = evs2[i], j > lost PROVE \E k \in 1..Len(er2) : er2[k] = evs2[i]
      <4>1. j - lost \in 1..(Len(er2) - 1) /\ (j - lost) + lost = j /\ j - lost \in 1..Len(er2)
        BY <1>1, <1>2, <1>3, <3>4
      <4>2. er2[j - lost] = er[j]
        BY <1>2, <4>1
      <4> QED BY <3>4, <4>1, <4>2
    <3>5. ASSUME NEW j \in 1..Len(er), er[j] = evs2[i], ~(j > lost) PROVE \A k \in 1..Len(er2) : evs2[i].n < er2[k].n
      <4>1. j = 1 /\ lost = 1
        BY <1>3, <3>5
      <4>2. ASSUME NEW k \in 1..(Len(er2) - 1) PROVE evs2[i].n < er2[k].n
        <5>1. k + 1 \in 1..Len(er) /\ er2[k] = er[k + 1] /\ 1 \in 1..((k + 1) - 1)
          BY <1>2, <4>1
        <5>2. er[1].n < er[k + 1].n
          BY <5>1 DEF ErrorsFit
        <5> QED BY <3>5, <4>1, <5>1, <5>2
      <4> QED BY <1>2, <1>4, <3>3, <4>2
    <3>6. ASSUME Len(er) = MaxErrors, \A j \in 1..Len(er) : evs2[i].n < er[j].n
          PROVE  \A k \in 1..Len(er2) : evs2[i].n < er2[k].n
      <4>1. ASSUME NEW k \in 1..(Len(er2) - 1) PROVE evs2[i].n < er2[k].n
        <5>1. k + lost \in 1..Len(er) /\ er2[k] = er[k + lost]
          BY <1>2
        <5> QED BY <3>6, <5>1
      <4> QED BY <1>2, <1>4, <3>3, <4>1
    <3>7. ASSUME NEW j \in 1..Len(er), er[j] = evs2[i], ~(j > lost) PROVE Len(er2) = MaxErrors
      BY <1>3, <3>7
    <3> QED BY <1>3, <3>2, <3>4, <3>5, <3>6, <3>7
  <2> QED BY <2>1, <2>2
<1> QED BY <1>2, <1>5, <1>6 DEF ErrorsFit, er2

\* The events of a trace, of a module, of a connection.
OfTrace(id) == {x \in Told : x.trace = id}
OfModule(m) == {x \in Told : x.module = m}
OfEdge(g) == {x \in Told : g \in Dashboard!EdgesOf(x.module)}

Lines == {e.trace : e \in DashEvents} \X Seq(Told)
LastOf(line) == line[2][Len(line[2])]

\* A line of the list of traces ends with the latest event of its trace.
LineFits(line, evs, d) ==
    /\ line \in Lines /\ line[1] # "" /\ Len(line[2]) \in 1..MaxTraceEvents
    /\ LastOf(line) \in Told /\ LatestOf(LastOf(line), OfTrace(line[1]), evs, d)

\* The lines are in the order of their latest events; a trace that has none is older than all of them.
TracesFit(ts, evs, d) ==
    /\ ts \in Seq(Lines) /\ Len(ts) <= MaxTraces
    /\ \A i \in 1..Len(ts) :
         /\ LineFits(ts[i], evs, d)
         /\ \A j \in 1..(i - 1) : LastOf(ts[j]).n < LastOf(ts[i]).n /\ ts[j][1] # ts[i][1]
    /\ \A i \in 1..Len(evs) : evs[i].trace # "" =>
         /\ Len(ts) > 0
         /\ \/ \E j \in 1..Len(ts) : ts[j][1] = evs[i].trace
            \/ \A j \in 1..Len(ts) : evs[i].n < LastOf(ts[j]).n

LEMMA LatestBefore ==
    ASSUME DashSound, NEW x \in Told, NEW C, NEW evs, NEW d, NEW evs2, NEW d2, NEW t,
           Heard(evs, d, evs2, d2, t), LatestOf(x, C, evs, d)
    PROVE  x.n < t.n
<1>1. x # None /\ x.n \in Nat /\ d \in Nat /\ d2 \in Nat /\ Len(evs) \in Nat /\ Len(evs2) \in Nat
      /\ t.n = d + Len(evs) + 1
  BY DEF Heard, Numbered, DashSound, Told
<1>2. x.n > d => x.n - d \in 1..Len(evs)
  BY <1>1 DEF LatestOf
<1> QED BY <1>1, <1>2

LEMMA LineStays ==
    ASSUME DashSound, NEW line, NEW evs, NEW d, NEW evs2, NEW d2, NEW t, Heard(evs, d, evs2, d2, t),
           LineFits(line, evs, d), t.trace # line[1]
    PROVE  LineFits(line, evs2, d2) /\ LastOf(line).n < t.n
<1>1. t \notin OfTrace(line[1])
  BY DEF OfTrace
<1>2. LatestOf(LastOf(line), OfTrace(line[1]), evs2, d2)
  BY <1>1, LatestStays DEF LineFits
<1>3. LastOf(line).n < t.n
  BY LatestBefore DEF LineFits
<1> QED BY <1>2, <1>3 DEF LineFits

LEMMA TracesStay ==
    ASSUME DashSound, NEW ts, NEW evs, NEW d, NEW evs2, NEW d2, NEW t, Heard(evs, d, evs2, d2, t),
           TracesFit(ts, evs, d), t.trace = ""
    PROVE  TracesFit(ts, evs2, d2)
<1>1. ASSUME NEW i \in 1..Len(ts) PROVE LineFits(ts[i], evs2, d2)
  <2>1. LineFits(ts[i], evs, d)
    BY DEF TracesFit
  <2>2. t.trace # ts[i][1]
    BY <2>1 DEF LineFits
  <2> QED BY <2>1, <2>2, LineStays
<1>2. ASSUME NEW i \in 1..Len(evs2), evs2[i].trace # ""
      PROVE /\ Len(ts) > 0
            /\ \/ \E j \in 1..Len(ts) : ts[j][1] = evs2[i].trace
               \/ \A j \in 1..Len(ts) : evs2[i].n < LastOf(ts[j]).n
  <2>1. i + (d2 - d) \in 1..Len(evs) /\ evs2[i] = evs[i + (d2 - d)]
    BY <1>2 DEF Heard
  <2> QED BY <1>2, <2>1 DEF TracesFit
<1>3. /\ ts \in Seq(Lines) /\ Len(ts) <= MaxTraces
      /\ \A i \in 1..Len(ts) : \A j \in 1..(i - 1) : LastOf(ts[j]).n < LastOf(ts[i]).n /\ ts[j][1] # ts[i][1]
  BY DEF TracesFit
<1> QED BY <1>1, <1>2, <1>3 DEF TracesFit

\* The lines of the other traces, in their order.
OthersAre(os, ts, id) ==
    /\ os \in Seq(Lines) /\ Len(os) <= Len(ts)
    /\ \A i \in 1..Len(os) :
         /\ \E k \in 1..Len(ts) : os[i] = ts[k] /\ ts[k][1] # id
         /\ \A j \in 1..(i - 1) : LastOf(os[j]).n < LastOf(os[i]).n /\ os[j][1] # os[i][1]
    /\ \A k \in 1..Len(ts) : ts[k][1] # id => \E i \in 1..Len(os) : os[i] = ts[k]

LEMMA OthersIs ==
    ASSUME NEW ts, NEW evs, NEW d, TracesFit(ts, evs, d), NEW id
    PROVE  LET used == Dashboard!Used(ts, id)
               place == CHOOSE i \in used : TRUE
           IN  /\ OthersAre(IF used = {} THEN ts ELSE Dashboard!RemoveAt(ts, place), ts, id)
               /\ used # {} => place \in 1..Len(ts)
<1> DEFINE used == Dashboard!Used(ts, id)
           place == CHOOSE i \in used : TRUE
           os == IF used = {} THEN ts ELSE Dashboard!RemoveAt(ts, place)
<1>1. ts \in Seq(Lines) /\ DOMAIN ts = 1..Len(ts) /\ Len(ts) \in Nat
      /\ \A i \in 1..Len(ts) : \A j \in 1..(i - 1) : LastOf(ts[j]).n < LastOf(ts[i]).n /\ ts[j][1] # ts[i][1]
  <2>1. ts \in Seq(Lines)
    BY DEF TracesFit
  <2>2. DOMAIN ts = 1..Len(ts) /\ Len(ts) \in Nat
    BY <2>1
  <2>3. \A i \in 1..Len(ts) : \A j \in 1..(i - 1) : LastOf(ts[j]).n < LastOf(ts[i]).n /\ ts[j][1] # ts[i][1]
    BY DEF TracesFit
  <2> QED BY <2>1, <2>2, <2>3
<1>2. \A i : i \in used <=> i \in 1..Len(ts) /\ ts[i][1] = id
  BY <1>1 DEF Dashboard!Used
<1> HIDE DEF used
<1>3. CASE used = {}
  <2>1. os = ts
    BY <1>3
  <2>2. \A k \in 1..Len(ts) : ts[k][1] # id
    BY <1>2, <1>3
  <2> QED BY <1>1, <1>3, <2>1, <2>2 DEF OthersAre, used
<1>4. CASE used # {}
  <2>1. place \in 1..Len(ts) /\ ts[place][1] = id
    BY <1>2, <1>4
  <2> HIDE DEF place
  <2>2. os \in Seq(Lines) /\ Len(os) = Len(ts) - 1 /\ \A i \in 1..(Len(ts) - 1) : os[i] = ts[IF i < place THEN i ELSE i + 1]
    <3>1. os = Dashboard!RemoveAt(ts, place)
      BY <1>4
    <3>2. ts \in Seq(Lines) /\ place \in 1..Len(ts)
      BY <1>1, <2>1
    <3>3. LET u == Dashboard!RemoveAt(ts, place)
          IN  u \in Seq(Lines) /\ Len(u) = Len(ts) - 1 /\ \A i \in 1..(Len(ts) - 1) : u[i] = ts[IF i < place THEN i ELSE i + 1]
      BY <3>2, RemovedIs
    <3> QED BY <3>1, <3>3
  <2> HIDE DEF os
  <2> DEFINE at(i) == IF i < place THEN i ELSE i + 1
  <2>3. \A i \in 1..Len(os) : at(i) \in 1..Len(ts) /\ at(i) # place /\ os[i] = ts[at(i)]
    BY <1>1, <2>1, <2>2
  <2>4. \A i \in 1..Len(os) : \A j \in 1..(i - 1) : j \in 1..Len(os) /\ at(j) \in 1..(at(i) - 1)
    BY <1>1, <2>1, <2>2
  <2>5. \A k \in 1..Len(ts) : k # place => \E i \in 1..Len(os) : at(i) = k
    <3> SUFFICES ASSUME NEW k \in 1..Len(ts), k # place PROVE \E i \in 1..Len(os) : at(i) = k
      OBVIOUS
    <3>1. CASE k < place
      BY <1>1, <2>1, <2>2, <3>1
    <3>2. CASE k > place
      <4>1. k - 1 \in 1..Len(os) /\ at(k - 1) = k
        BY <1>1, <2>1, <2>2, <3>2
      <4> QED BY <4>1
    <3> QED BY <2>1, <3>1, <3>2
  <2> HIDE DEF at
  <2>6. \A k \in 1..Len(ts) : k # place => ts[k][1] # id
    <3> SUFFICES ASSUME NEW k \in 1..Len(ts), k # place PROVE ts[k][1] # ts[place][1]
      BY <2>1
    <3>1. k \in 1..(place - 1) \/ place \in 1..(k - 1)
      BY <2>1
    <3> QED BY <1>1, <2>1, <3>1
  <2>7. ASSUME NEW i \in 1..Len(os)
        PROVE  /\ \E k \in 1..Len(ts) : os[i] = ts[k] /\ ts[k][1] # id
               /\ \A j \in 1..(i - 1) : LastOf(os[j]).n < LastOf(os[i]).n /\ os[j][1] # os[i][1]
    <3>1. \E k \in 1..Len(ts) : os[i] = ts[k] /\ ts[k][1] # id
      BY <2>3, <2>6
    <3>2. ASSUME NEW j \in 1..(i - 1) PROVE LastOf(os[j]).n < LastOf(os[i]).n /\ os[j][1] # os[i][1]
      <4>1. os[j] = ts[at(j)] /\ os[i] = ts[at(i)] /\ at(i) \in 1..Len(ts) /\ at(j) \in 1..(at(i) - 1)
        BY <2>3, <2>4
      <4> QED BY <1>1, <4>1
    <3> QED BY <3>1, <3>2
  <2>8. ASSUME NEW k \in 1..Len(ts), ts[k][1] # id PROVE \E i \in 1..Len(os) : os[i] = ts[k]
    <3>1. k # place
      BY <2>1, <2>8
    <3> QED BY <2>3, <2>5, <3>1
  <2>9. Len(os) <= Len(ts)
    BY <1>1, <2>2
  <2>10. OthersAre(os, ts, id)
    BY <2>2, <2>7, <2>8, <2>9 DEF OthersAre
  <2> QED BY <2>1, <2>10 DEF os, used, place
<1> QED BY <1>3, <1>4

\* The line of the trace that was just heard of.
OthersOf(os, ts, t) == t.trace # "" /\ OthersAre(os, ts, t.trace)
LineOf(t, line, evs, d) == LineFits(line, evs, d) /\ line[1] = t.trace /\ LastOf(line) = t

LEMMA TracesGrow ==
    ASSUME DashSound, NEW ts, NEW evs, NEW d, NEW evs2, NEW d2, NEW t, Heard(evs, d, evs2, d2, t),
           TracesFit(ts, evs, d), NEW os, OthersOf(os, ts, t),
           NEW line, LineOf(t, line, evs2, d2)
    PROVE  LET ts2 == Dashboard!Pushed(os, line, MaxTraces)
           IN  TracesFit(ts2, evs2, d2) /\ Len(ts2) > 0 /\ ts2[Len(ts2)] = line
<1> DEFINE ts2 == Dashboard!Pushed(os, line, MaxTraces)
           lost == Lost(os, MaxTraces)
<1>1. os \in Seq(Lines) /\ Len(os) <= MaxTraces /\ Len(os) \in Nat /\ MaxTraces \in Nat \ {0} /\ line \in Lines
  <2>1. os \in Seq(Lines) /\ Len(os) <= Len(ts)
    BY DEF OthersOf, OthersAre
  <2>2. ts \in Seq(Lines) /\ Len(ts) <= MaxTraces
    BY DEF TracesFit
  <2>3. MaxTraces \in Nat \ {0} /\ line \in Lines
    BY DEF DashSound, LineFits, LineOf
  <2>4. Len(os) \in Nat /\ Len(ts) \in Nat
    BY <2>1, <2>2
  <2> QED BY <2>1, <2>2, <2>3, <2>4
<1>2. /\ ts2 \in Seq(Lines) /\ Len(ts2) + lost = Len(os) + 1 /\ ts2[Len(ts2)] = line /\ Len(ts2) \in 1..MaxTraces
      /\ \A i \in 1..(Len(ts2) - 1) : i + lost \in 1..Len(os) /\ ts2[i] = os[i + lost]
  <2>1. OneMore(ts2, os, line, MaxTraces, Lines)
    BY <1>1, PushedIs
  <2> QED BY <2>1 DEF OneMore
<1>3. lost \in {0, 1} /\ Len(ts2) \in Nat /\ Len(ts2) + lost = Len(os) + 1 /\ Len(ts2) >= 1 /\ Len(os) \in Nat
  <2>1. lost \in {0, 1}
    BY DEF Lost
  <2>2. Len(ts2) \in Nat /\ Len(ts2) >= 1
    BY <1>1, <1>2
  <2> QED BY <1>1, <1>2, <2>1, <2>2
<1> HIDE DEF ts2, lost
<1>4. \A i \in 1..Len(ts2) : i = Len(ts2) \/ i \in 1..(Len(ts2) - 1)
  BY <1>3
<1>5. ASSUME NEW i \in 1..Len(os)
      PROVE  LineFits(os[i], evs2, d2) /\ LastOf(os[i]).n < t.n /\ os[i][1] # t.trace
  <2>1. PICK k \in 1..Len(ts) : os[i] = ts[k] /\ ts[k][1] # t.trace
    BY DEF OthersOf, OthersAre
  <2>2. LineFits(ts[k], evs, d)
    BY DEF TracesFit
  <2> QED BY <2>1, <2>2, LineStays
<1>6. \A i \in 1..Len(os) : \A j \in 1..(i - 1) : LastOf(os[j]).n < LastOf(os[i]).n /\ os[j][1] # os[i][1]
  BY DEF OthersOf, OthersAre
<1>7. ASSUME NEW i \in 1..Len(ts2)
      PROVE  /\ LineFits(ts2[i], evs2, d2)
             /\ \A j \in 1..(i - 1) : LastOf(ts2[j]).n < LastOf(ts2[i]).n /\ ts2[j][1] # ts2[i][1]
  <2>1. CASE i = Len(ts2)
    <3>1. ASSUME NEW j \in 1..(i - 1) PROVE LastOf(ts2[j]).n < t.n /\ ts2[j][1] # t.trace
      <4>1. j + lost \in 1..Len(os) /\ ts2[j] = os[j + lost]
        BY <1>2, <2>1
      <4> QED BY <1>5, <4>1
    <3> QED BY <1>2, <2>1, <3>1 DEF LineOf
  <2>2. CASE i \in 1..(Len(ts2) - 1)
    <3>1. i + lost \in 1..Len(os) /\ ts2[i] = os[i + lost]
      BY <1>2, <2>2
    <3>2. ASSUME NEW j \in 1..(i - 1) PROVE LastOf(ts2[j]).n < LastOf(ts2[i]).n /\ ts2[j][1] # ts2[i][1]
      <4>1. j \in 1..(Len(ts2) - 1) /\ j + lost \in 1..((i + lost) - 1)
        BY <1>3, <2>2
      <4>2. ts2[j] = os[j + lost]
        BY <1>2, <4>1
      <4> QED BY <1>6, <3>1, <4>1, <4>2
    <3> QED BY <1>5, <3>1, <3>2
  <2> QED BY <1>4, <2>1, <2>2
<1>8. ASSUME NEW i \in 1..Len(evs2), evs2[i].trace # ""
      PROVE  \/ \E j \in 1..Len(ts2) : ts2[j][1] = evs2[i].trace
             \/ \A j \in 1..Len(ts2) : evs2[i].n < LastOf(ts2[j]).n
  <2>0. Len(ts2) \in 1..Len(ts2) /\ ts2[Len(ts2)][1] = t.trace
    BY <1>2, <1>3 DEF LineOf
  <2>1. CASE evs2[i].trace = t.trace
    BY <2>0, <2>1
  <2>2. CASE evs2[i].trace # t.trace
    <3>1. i # Len(evs2)
      BY <2>2 DEF Heard
    <3>2. i + (d2 - d) \in 1..Len(evs) /\ evs2[i] = evs[i + (d2 - d)]
      BY <3>1 DEF Heard
    <3>3. \/ \E k \in 1..Len(ts) : ts[k][1] = evs2[i].trace
          \/ \A k \in 1..Len(ts) : evs2[i].n < LastOf(ts[k]).n
      BY <1>8, <3>2 DEF TracesFit
    <3>4. evs2[i] \in Told /\ evs2[i].n \in Nat /\ evs2[i].n < t.n /\ t.n \in Nat
      <4>1. evs2 \in Seq(Told) /\ t \in Told /\ d2 \in Nat /\ t.n = d2 + Len(evs2) /\ evs2[i].n = d2 + i
        BY DEF Heard, Numbered
      <4>2. evs2[i] \in Told /\ Len(evs2) \in Nat /\ i \in Nat /\ i < Len(evs2)
        BY <3>1, <4>1
      <4>3. evs2[i].n \in Nat /\ t.n \in Nat
        BY <4>1, <4>2
      <4> QED BY <4>1, <4>2, <4>3
    <3>5. ASSUME NEW k \in 1..Len(ts), ts[k][1] = evs2[i].trace, NEW j \in 1..Len(os), os[j] = ts[k], j > lost
          PROVE  \E q \in 1..Len(ts2) : ts2[q][1] = evs2[i].trace
      <4>1. j - lost \in 1..(Len(ts2) - 1) /\ (j - lost) + lost = j /\ j - lost \in 1..Len(ts2)
        BY <1>3, <3>5
      <4>2. ts2[j - lost] = os[j]
        BY <1>2, <4>1
      <4> QED BY <3>5, <4>1, <4>2
    <3>6. ASSUME NEW k \in 1..Len(ts), ts[k][1] = evs2[i].trace, NEW j \in 1..Len(os), os[j] = ts[k], ~(j > lost)
          PROVE  \A q \in 1..Len(ts2) : evs2[i].n < LastOf(ts2[q]).n
      <4>1. j = 1 /\ lost = 1
        <5>1. j \in Nat /\ j >= 1 /\ ~(j > lost)
          BY <1>3, <3>6
        <5> QED BY <1>3, <5>1
      <4>2. evs2[i].n <= LastOf(os[1]).n /\ LastOf(os[1]).n \in Nat
        <5>1. LineFits(ts[k], evs, d) /\ evs2[i] \in OfTrace(ts[k][1])
          BY <3>4, <3>6 DEF TracesFit, OfTrace
        <5>2. evs[i + (d2 - d)] \in OfTrace(ts[k][1]) => evs[i + (d2 - d)].n <= LastOf(ts[k]).n
          BY <3>2, <5>1 DEF LineFits, LatestOf
        <5>3. LastOf(ts[k]).n \in Nat
          <6>1. LastOf(ts[k]) \in Told
            BY <5>1 DEF LineFits
          <6> QED BY <6>1 DEF Told
        <5> QED BY <3>2, <3>6, <4>1, <5>1, <5>2, <5>3
      <4>3. ASSUME NEW q \in 1..(Len(ts2) - 1) PROVE evs2[i].n < LastOf(ts2[q]).n
        <5>1. q + 1 \in 1..Len(os) /\ ts2[q] = os[q + 1] /\ 1 \in 1..((q + 1) - 1)
          <6>1. q + 1 \in 1..Len(os) /\ ts2[q] = os[q + 1]
            BY <1>2, <4>1
          <6> QED BY <6>1
        <5>2. LastOf(os[1]).n < LastOf(os[q + 1]).n
          BY <1>6, <5>1
        <5>3. LastOf(os[q + 1]).n \in Nat
          <6>1. LastOf(os[q + 1]) \in Told
            BY <1>5, <5>1 DEF LineFits
          <6> QED BY <6>1 DEF Told
        <5> QED BY <3>4, <4>2, <5>1, <5>2, <5>3
      <4> QED BY <1>2, <1>4, <3>4, <4>3 DEF LineOf
    <3>7. ASSUME \A k \in 1..Len(ts) : evs2[i].n < LastOf(ts[k]).n
          PROVE  \A q \in 1..Len(ts2) : evs2[i].n < LastOf(ts2[q]).n
      <4>1. ASSUME NEW q \in 1..(Len(ts2) - 1) PROVE evs2[i].n < LastOf(ts2[q]).n
        <5>1. q + lost \in 1..Len(os) /\ ts2[q] = os[q + lost]
          BY <1>2
        <5>2. \E k \in 1..Len(ts) : os[q + lost] = ts[k]
          BY <5>1 DEF OthersOf, OthersAre
        <5> QED BY <3>7, <5>1, <5>2
      <4> QED BY <1>2, <1>4, <3>4, <4>1 DEF LineOf
    <3>8. \A k \in 1..Len(ts) : ts[k][1] = evs2[i].trace => \E j \in 1..Len(os) : os[j] = ts[k]
      BY <2>2 DEF OthersOf, OthersAre
    <3> QED BY <3>3, <3>5, <3>6, <3>7, <3>8
  <2> QED BY <2>1, <2>2
<1>9. Len(ts2) > 0 /\ Len(ts2) <= MaxTraces
  BY <1>1, <1>2, <1>3
<1>10. TracesFit(ts2, evs2, d2)
  BY <1>2, <1>7, <1>8, <1>9 DEF TracesFit
<1> QED BY <1>2, <1>9, <1>10 DEF ts2

\* _update_trace.
TracedTo(ts2, ts, t) == IF t.trace = "" THEN ts2 = ts ELSE Len(ts2) > 0 /\ ts2[Len(ts2)][1] = t.trace
LEMMA TracedFits ==
    ASSUME DashSound, NEW ts, NEW evs, NEW d, NEW evs2, NEW d2, NEW t, Heard(evs, d, evs2, d2, t),
           TracesFit(ts, evs, d)
    PROVE  TracesFit(Dashboard!Traced(ts, t), evs2, d2) /\ TracedTo(Dashboard!Traced(ts, t), ts, t)
<1>1. CASE t.trace = ""
  <2>1. Dashboard!Traced(ts, t) = ts
    BY <1>1 DEF Dashboard!Traced
  <2>2. TracesFit(ts, evs2, d2)
    BY <1>1, TracesStay
  <2>3. TracedTo(ts, ts, t)
    BY <1>1 DEF TracedTo
  <2> QED BY <2>1, <2>2, <2>3
<1>2. CASE t.trace # ""
  <2> DEFINE id == t.trace
             used == Dashboard!Used(ts, id)
             place == CHOOSE i \in used : TRUE
             os == IF used = {} THEN ts ELSE Dashboard!RemoveAt(ts, place)
             kept == IF used = {} THEN <<>> ELSE ts[place][2]
             line == <<id, Dashboard!Pushed(kept, t, MaxTraceEvents)>>
  <2>1. OthersAre(os, ts, id) /\ (used # {} => place \in 1..Len(ts))
    BY OthersIs
  <2>2. kept \in Seq(Told) /\ Len(kept) <= MaxTraceEvents
    <3>1. CASE used = {}
      BY <3>1 DEF DashSound
    <3>2. CASE used # {}
      <4>1. place \in 1..Len(ts)
        BY <2>1, <3>2
      <4>2. LineFits(ts[place], evs, d)
        BY <4>1 DEF TracesFit
      <4>3. ts[place] \in Lines /\ Len(ts[place][2]) \in 1..MaxTraceEvents
        BY <4>2 DEF LineFits
      <4>4. MaxTraceEvents \in Nat
        BY DEF DashSound
      <4>5. ts[place][2] \in Seq(Told)
        BY <4>3 DEF Lines
      <4>6. Len(ts[place][2]) <= MaxTraceEvents
        BY <4>3, <4>4
      <4>7. kept = ts[place][2]
        BY <3>2
      <4> HIDE DEF kept, place
      <4> QED BY <4>5, <4>6, <4>7
    <3> QED BY <3>1, <3>2
  <2>3. Dashboard!Traced(ts, t) = Dashboard!Pushed(os, line, MaxTraces)
    BY <1>2 DEF Dashboard!Traced
  <2> HIDE DEF os, kept
  <2>4. LineOf(t, line, evs2, d2)
    <3> DEFINE u == Dashboard!Pushed(kept, t, MaxTraceEvents)
    <3>1. t \in Told /\ MaxTraceEvents \in Nat \ {0}
      BY DEF Heard, DashSound
    <3>2. OneMore(u, kept, t, MaxTraceEvents, Told)
      BY <2>2, <3>1, PushedIs
    <3>3. u \in Seq(Told) /\ Len(u) \in 1..MaxTraceEvents /\ u[Len(u)] = t
      BY <3>2 DEF OneMore
    <3> HIDE DEF u
    <3>4. line = <<t.trace, u>>
      BY DEF u
    <3> HIDE DEF line
    <3>5. line \in Lines /\ line[1] = t.trace /\ line[2] = u
      BY <3>1, <3>3, <3>4 DEF Lines, Told
    <3>6. LastOf(line) = t
      BY <3>3, <3>5 DEF LastOf
    <3>7. t \in OfTrace(t.trace)
      BY <3>1 DEF OfTrace
    <3>8. LatestOf(t, OfTrace(t.trace), evs2, d2)
      BY <3>7, LatestNew
    <3>9. LatestOf(LastOf(line), OfTrace(line[1]), evs2, d2)
      BY <3>5, <3>6, <3>8
    <3> QED BY <1>2, <3>1, <3>3, <3>5, <3>6, <3>9 DEF LineOf, LineFits
  <2>5. OthersOf(os, ts, t)
    BY <1>2, <2>1 DEF OthersOf, os
  <2> HIDE DEF line
  <2>6. LET ts2 == Dashboard!Pushed(os, line, MaxTraces)
        IN  TracesFit(ts2, evs2, d2) /\ Len(ts2) > 0 /\ ts2[Len(ts2)] = line
    BY <2>4, <2>5, TracesGrow
  <2>7. line[1] = t.trace
    BY <2>4 DEF LineOf
  <2>8. \A u : Len(u) > 0 /\ u[Len(u)] = line => TracedTo(u, ts, t)
    BY <1>2, <2>7 DEF TracedTo
  <2> QED BY <2>3, <2>6, <2>8
<1> QED BY <1>1, <1>2

DashInv ==
    /\ count.dropped \in Nat /\ count.recorded \in Nat
    /\ Numbered(events, count.dropped) /\ count.recorded = count.dropped + Len(events)
    /\ ErrorsFit(errors, events, count.dropped)
    /\ TracesFit(traces, events, count.dropped)
    /\ Len(traces) > 0 => active = traces[Len(traces)][1]
    /\ DOMAIN nodes = Dashboard!Modules
    /\ \A m \in Dashboard!Modules : LatestOf(nodes[m], OfModule(m), events, count.dropped)
    /\ \A g \in Dashboard!Edges : LatestOf(edges[g], OfEdge(g), events, count.dropped)

LEMMA DashInit ==
    ASSUME DashSound, Dashboard!Init
    PROVE  DashInv
<1>1. events = <<>> /\ errors = <<>> /\ traces = <<>> /\ count.dropped = 0 /\ count.recorded = 0
  BY DEF Dashboard!Init
<1>2. Numbered(events, count.dropped)
  BY <1>1 DEF Numbered, DashSound
<1>3. ErrorsFit(errors, events, count.dropped)
  BY <1>1 DEF ErrorsFit, DashSound
<1>4. TracesFit(traces, events, count.dropped)
  BY <1>1 DEF TracesFit, DashSound
<1>5. \A C : LatestOf(None, C, events, count.dropped)
  BY <1>1 DEF LatestOf
<1>6. DOMAIN nodes = Dashboard!Modules /\ (\A m \in Dashboard!Modules : nodes[m] = None)
      /\ \A g \in Dashboard!Edges : edges[g] = None
  BY DEF Dashboard!Init
<1> QED BY <1>1, <1>2, <1>3, <1>4, <1>5, <1>6 DEF DashInv

LEMMA NormalizedIs ==
    ASSUME DashSound, DashInv, count.recorded < MaxRecorded, NEW e \in DashEvents
    PROVE  Dashboard!Normalized(e) \in Told /\ Dashboard!Normalized(e).n = count.dropped + Len(events) + 1
<1>1. count.recorded + 1 \in 1..MaxRecorded /\ count.recorded + 1 = count.dropped + Len(events) + 1
  BY DEF DashSound, DashInv
<1>2. Dashboard!StatusOf(e) \in Dashboard!Statuses
  BY StatusIs DEF DashSound
<1>3. Dashboard!SeverityOf(e, Dashboard!StatusOf(e)) \in {"debug", "info", "warning", "error"}
  BY DEF Dashboard!SeverityOf
<1>4. Dashboard!Normalized(e) = [n |-> count.recorded + 1, trace |-> e.trace, module |-> Dashboard!ModuleOf(e),
                                 status |-> Dashboard!StatusOf(e), severity |-> Dashboard!SeverityOf(e, Dashboard!StatusOf(e))]
  BY DEF Dashboard!Normalized
<1> QED BY <1>1, <1>2, <1>3, <1>4, ModuleIs DEF Told

LEMMA DashStep ==
    ASSUME DashSound, DashInv, [Dashboard!Next]_(Dashboard!vars)
    PROVE  DashInv'
<1>1. CASE UNCHANGED Dashboard!vars
  BY <1>1 DEF Dashboard!vars, DashInv
<1>2. ASSUME Dashboard!Record PROVE DashInv'
  <2>1. PICK e \in DashEvents : LET t == Dashboard!Normalized(e) IN
         /\ events' = Dashboard!Pushed(events, t, DashKept)
         /\ errors' = IF Dashboard!Warns(t) THEN Dashboard!Pushed(errors, t, MaxErrors) ELSE errors
         /\ traces' = Dashboard!Traced(traces, t)
         /\ active' = IF t.trace = "" THEN active ELSE t.trace
         /\ nodes' = [nodes EXCEPT ![t.module] = t]
         /\ edges' = [g \in Dashboard!Edges |-> IF g \in Dashboard!EdgesOf(t.module) THEN t ELSE edges[g]]
         /\ count' = [recorded |-> count.recorded + 1,
                      dropped |-> count.dropped + (IF Len(events) >= DashKept THEN 1 ELSE 0)]
    BY <1>2 DEF Dashboard!Record
  <2> DEFINE t == Dashboard!Normalized(e)
             d == count.dropped
             d2 == count'.dropped
  <2>2. t \in Told /\ t.n = d + Len(events) + 1
    BY <1>2, NormalizedIs DEF Dashboard!Record
  <2>3. d2 = d + (IF Len(events) >= DashKept THEN 1 ELSE 0) /\ count'.recorded = count.recorded + 1
    BY <2>1
  <2> HIDE DEF t, d, d2
  <2>4. Numbered(events, d)
    BY DEF DashInv, d
  <2>5. Heard(events, d, events', d2, t)
    <3>1. events' = Dashboard!Pushed(events, t, DashKept)
      BY <2>1 DEF t
    <3> QED BY <2>2, <2>3, <2>4, <3>1, HeardIs
  <2>6. Numbered(events', d2) /\ d2 \in Nat /\ count'.recorded = d2 + Len(events') /\ count'.recorded \in Nat
    <3>1. Numbered(events', d2) /\ d2 \in Nat /\ d2 + Len(events') = d + Len(events) + 1
      BY <2>5 DEF Heard
    <3>2. count.recorded = d + Len(events) /\ count.recorded \in Nat
      BY DEF DashInv, d
    <3> QED BY <2>3, <3>1, <3>2
  <2>7. ErrorsFit(errors', events', d2)
    <3>1. ErrorsFit(errors, events, d)
      BY DEF DashInv, d
    <3>2. errors' = IF Dashboard!Warns(t) THEN Dashboard!Pushed(errors, t, MaxErrors) ELSE errors
      BY <2>1 DEF t
    <3>3. CASE Dashboard!Warns(t)
      BY <2>5, <3>1, <3>2, <3>3, ErrorsGrow
    <3>4. CASE ~Dashboard!Warns(t)
      BY <2>5, <3>1, <3>2, <3>4, ErrorsStay
    <3> QED BY <3>3, <3>4
  <2>8. TracesFit(traces', events', d2) /\ (Len(traces') > 0 => active' = traces'[Len(traces')][1])
    <3>1. TracesFit(traces, events, d) /\ (Len(traces) > 0 => active = traces[Len(traces)][1])
      BY DEF DashInv, d
    <3>2. traces' = Dashboard!Traced(traces, t) /\ active' = IF t.trace = "" THEN active ELSE t.trace
      BY <2>1 DEF t
    <3>3. TracesFit(Dashboard!Traced(traces, t), events', d2) /\ TracedTo(Dashboard!Traced(traces, t), traces, t)
      BY <2>5, <3>1, TracedFits
    <3>4. TracesFit(traces', events', d2) /\ TracedTo(traces', traces, t)
      BY <3>2, <3>3
    <3> QED BY <3>1, <3>2, <3>4 DEF TracedTo
  <2>9. DOMAIN nodes' = Dashboard!Modules
    BY <2>1 DEF DashInv
  <2>10. ASSUME NEW m \in Dashboard!Modules PROVE LatestOf(nodes'[m], OfModule(m), events', d2)
    <3>1. nodes'[m] = IF m = t.module THEN t ELSE nodes[m]
      BY <2>1 DEF DashInv, t
    <3>2. CASE m = t.module
      <4>1. t \in OfModule(m)
        BY <2>2, <3>2 DEF OfModule
      <4> QED BY <2>5, <3>1, <3>2, <4>1, LatestNew
    <3>3. CASE m # t.module
      <4>1. t \notin OfModule(m)
        BY <3>3 DEF OfModule
      <4>2. LatestOf(nodes[m], OfModule(m), events, d)
        BY DEF DashInv, d
      <4> QED BY <2>5, <3>1, <3>3, <4>1, <4>2, LatestStays
    <3> QED BY <3>2, <3>3
  <2>11. ASSUME NEW g \in Dashboard!Edges PROVE LatestOf(edges'[g], OfEdge(g), events', d2)
    <3>1. edges'[g] = IF g \in Dashboard!EdgesOf(t.module) THEN t ELSE edges[g]
      BY <2>1 DEF t
    <3>2. CASE g \in Dashboard!EdgesOf(t.module)
      <4>1. t \in OfEdge(g)
        BY <2>2, <3>2 DEF OfEdge
      <4> QED BY <2>5, <3>1, <3>2, <4>1, LatestNew
    <3>3. CASE g \notin Dashboard!EdgesOf(t.module)
      <4>1. t \notin OfEdge(g)
        BY <3>3 DEF OfEdge
      <4>2. LatestOf(edges[g], OfEdge(g), events, d)
        BY DEF DashInv, d
      <4> QED BY <2>5, <3>1, <3>3, <4>1, <4>2, LatestStays
    <3> QED BY <3>2, <3>3
  <2> QED BY <2>6, <2>7, <2>8, <2>9, <2>10, <2>11 DEF DashInv, d2
<1> QED BY <1>1, <1>2 DEF Dashboard!Next

LEMMA ListsHold ==
    ASSUME DashSound, DashInv
    PROVE  Dashboard!ListsAgree
<1> DEFINE d == count.dropped
<1>1. events \in Seq(Told) /\ DOMAIN events = 1..Len(events) /\ Len(events) \in Nat /\ d \in Nat
  <2>1. events \in Seq(Told) /\ d \in Nat
    BY DEF DashInv, Numbered
  <2> QED BY <2>1
<1>2. errors \in Seq(Told) /\ DOMAIN errors = 1..Len(errors)
  <2>1. errors \in Seq(Told)
    BY DEF DashInv, ErrorsFit
  <2> QED BY <2>1
<1>3. traces \in Seq(Lines) /\ DOMAIN traces = 1..Len(traces)
  <2>1. traces \in Seq(Lines)
    BY DEF DashInv, TracesFit
  <2> QED BY <2>1
<1>4. \A id : Dashboard!Used(traces, id) # {} <=> \E k \in 1..Len(traces) : traces[k][1] = id
  BY <1>3 DEF Dashboard!Used
<1>5. ASSUME NEW i \in 1..Len(events), NEW j \in 1..(i - 1), events[i].trace # "",
             Dashboard!Used(traces, events[j].trace) # {},
             \A k \in (i + 1)..Len(events) : events[k].trace # events[j].trace
      PROVE  Dashboard!Used(traces, events[i].trace) # {}
  <2>1. PICK p \in 1..Len(traces) : traces[p][1] = events[j].trace
    BY <1>4, <1>5
  <2>2. LineFits(traces[p], events, d)
    BY DEF DashInv, TracesFit
  <2> SUFFICES ASSUME \A k \in 1..Len(traces) : events[i].n < LastOf(traces[k]).n PROVE FALSE
    <3>1. \/ \E k \in 1..Len(traces) : traces[k][1] = events[i].trace
          \/ \A k \in 1..Len(traces) : events[i].n < LastOf(traces[k]).n
      BY <1>5 DEF DashInv, TracesFit
    <3> QED BY <1>4, <3>1
  <2> DEFINE x == LastOf(traces[p])
  <2>3. x \in Told /\ x \in OfTrace(traces[p][1]) /\ (x.n > d => x.n - d \in 1..Len(events) /\ x = events[x.n - d])
    <3>1. x \in Told /\ LatestOf(x, OfTrace(traces[p][1]), events, d)
      BY <2>2 DEF LineFits
    <3>2. x # None
      BY <3>1 DEF DashSound
    <3> QED BY <3>1, <3>2 DEF LatestOf
  <2> HIDE DEF x
  <2>4. x.n \in Nat /\ x.trace = events[j].trace
    BY <2>1, <2>3 DEF Told, OfTrace
  <2>5. events[i].n = d + i /\ events[i].n < x.n
    BY DEF DashInv, Numbered, x
  <2>6. x.n - d \in (i + 1)..Len(events) /\ x = events[x.n - d]
    BY <1>1, <2>3, <2>4, <2>5
  <2> QED BY <1>5, <2>4, <2>6
<1>6. ASSUME NEW i \in 1..Len(errors)
      PROVE  /\ Dashboard!Warns(errors[i]) /\ \A j \in 1..(i - 1) : errors[j].n < errors[i].n
             /\ errors[i].n > count.dropped => errors[i] = events[errors[i].n - count.dropped]
  BY DEF DashInv, ErrorsFit
<1>7. ASSUME NEW i \in 1..Len(events), Dashboard!Warns(events[i])
      PROVE  \/ \E j \in 1..Len(errors) : errors[j] = events[i]
             \/ Len(errors) = MaxErrors /\ \A j \in 1..Len(errors) : events[i].n < errors[j].n
  BY <1>7 DEF DashInv, ErrorsFit
<1>8. count.recorded = count.dropped + Len(events)
  BY DEF DashInv
<1> QED BY <1>1, <1>2, <1>5, <1>6, <1>7, <1>8 DEF Dashboard!ListsAgree

LEMMA PictureHolds ==
    ASSUME DashSound, DashInv
    PROVE  Dashboard!PictureIsLatest
<1> DEFINE d == count.dropped
<1>1. events \in Seq(Told) /\ DOMAIN events = 1..Len(events) /\ Numbered(events, d)
  <2>1. events \in Seq(Told) /\ Numbered(events, d)
    BY DEF DashInv, Numbered
  <2> QED BY <2>1
<1> SUFFICES ASSUME NEW i \in 1..Len(events), events[i].status = "error"
             PROVE LET t == events[i]
                       newer == {events[j] : j \in (i + 1)..Len(events)} IN
              /\ t.trace # "" /\ (\A u \in newer : u.trace = "") =>
                    \A fresh \in BOOLEAN : Dashboard!PipelineStatus(fresh) = "error"
              /\ t.module \notin {"queue", "health"} /\ (\A u \in newer : u.module # t.module) =>
                    Dashboard!NodeStatus(t.module, [blocked |-> FALSE, full |-> TRUE, size |-> 1], TRUE) = "error"
              /\ \A g \in Dashboard!EdgesOf(t.module) : (\A u \in newer : g \notin Dashboard!EdgesOf(u.module)) =>
                    Dashboard!ShownEdge(g, [blocked |-> FALSE], TRUE) = "error"
  BY <1>1 DEF Dashboard!PictureIsLatest
<1> DEFINE t == events[i]
<1>2. t \in Told /\ t.status = "error"
  BY <1>1
<1>3. ASSUME t.trace # "", \A j \in (i + 1)..Len(events) : events[j].trace = "", NEW fresh \in BOOLEAN
      PROVE  Dashboard!PipelineStatus(fresh) = "error"
  <2>1. traces \in Seq(Lines) /\ DOMAIN traces = 1..Len(traces) /\ Len(traces) \in Nat
    <3>1. traces \in Seq(Lines)
      BY DEF DashInv, TracesFit
    <3> QED BY <3>1
  <2>2. /\ Len(traces) > 0
        /\ \/ \E j \in 1..Len(traces) : traces[j][1] = events[i].trace
           \/ \A j \in 1..Len(traces) : events[i].n < LastOf(traces[j]).n
    BY <1>3 DEF DashInv, TracesFit
  <2> DEFINE z == Len(traces)
             x == LastOf(traces[z])
  <2>3. z \in 1..Len(traces) /\ z \in Nat /\ \A k \in 1..Len(traces) : k = z \/ k \in 1..(z - 1)
    <3>1. Len(traces) > 0 /\ Len(traces) \in Nat
      BY <2>1, <2>2
    <3> HIDE DEF z
    <3>2. z = Len(traces)
      BY DEF z
    <3> QED BY <3>1, <3>2
  <2>a. active = traces[z][1]
    BY <2>2 DEF DashInv
  <2> HIDE DEF z
  <2>b. \A j \in 1..(z - 1) : LastOf(traces[j]).n < x.n /\ traces[j][1] # traces[z][1]
    BY <2>3 DEF DashInv, TracesFit
  <2>4. \A k \in 1..Len(traces) : LineFits(traces[k], events, d)
    BY DEF DashInv, TracesFit
  <2>5. x \in Told /\ x.trace = active /\ x.trace # "" /\ (x.n > d => x.n - d \in 1..Len(events) /\ x = events[x.n - d])
    <3>1. LineFits(traces[z], events, d)
      BY <2>3, <2>4
    <3>2. x \in Told /\ LatestOf(x, OfTrace(traces[z][1]), events, d) /\ traces[z][1] # ""
      BY <3>1 DEF LineFits
    <3>3. x # None
      BY <3>2 DEF DashSound
    <3> HIDE DEF x
    <3>4. x \in OfTrace(traces[z][1])
      BY <3>2, <3>3 DEF LatestOf
    <3>5. x.n > d => x.n - d \in 1..Len(events) /\ x = events[x.n - d]
      BY <3>2, <3>3 DEF LatestOf
    <3>6. x.trace = active
      BY <2>a, <3>4 DEF OfTrace
    <3> QED BY <2>a, <3>2, <3>5, <3>6
  <2>6. events[i].n <= x.n
    <3>1. ASSUME NEW j \in 1..Len(traces), traces[j][1] = events[i].trace PROVE events[i].n <= x.n
      <4>1. LineFits(traces[j], events, d) /\ events[i] \in OfTrace(traces[j][1])
        BY <1>2, <2>4, <3>1 DEF OfTrace
      <4>2. events[i].n <= LastOf(traces[j]).n /\ LastOf(traces[j]) \in Told
        BY <4>1 DEF LineFits, LatestOf
      <4>3. j = z \/ LastOf(traces[j]).n < x.n
        BY <2>3, <2>b
      <4>4. j = z => LastOf(traces[j]) = x
        OBVIOUS
      <4> HIDE DEF x
      <4>5. LastOf(traces[j]).n \in Nat /\ events[i].n \in Nat /\ x.n \in Nat
        <5>1. LastOf(traces[j]) \in Told /\ events[i] \in Told /\ x \in Told
          BY <1>2, <2>5, <4>2
        <5> QED BY <5>1 DEF Told
      <4> QED BY <4>2, <4>3, <4>4, <4>5
    <3>2. (\A j \in 1..Len(traces) : events[i].n < LastOf(traces[j]).n) => events[i].n <= x.n
      <4> SUFFICES ASSUME \A j \in 1..Len(traces) : events[i].n < LastOf(traces[j]).n PROVE events[i].n <= x.n
        OBVIOUS
      <4>1. events[i].n < x.n
        BY <2>3
      <4> HIDE DEF x
      <4>2. events[i] \in Told /\ x \in Told
        BY <1>2, <2>5
      <4>3. events[i].n \in Nat /\ x.n \in Nat
        BY <4>2 DEF Told
      <4> QED BY <4>1, <4>3
    <3> QED BY <2>2, <3>1, <3>2
  <2> HIDE DEF x
  <2>7. x = t
    <3>0. x.n \in Nat
      <4>1. x \in Told
        BY <2>5
      <4> QED BY <4>1 DEF Told
    <3>1. events[i].n = d + i /\ d \in Nat /\ x.n \in Nat /\ Len(events) \in Nat
      BY <1>1, <3>0 DEF Numbered
    <3>2. x.n - d \in 1..Len(events) /\ x = events[x.n - d]
      <4> HIDE DEF d
      <4>1. x.n > d
        BY <2>6, <3>1
      <4> QED BY <2>5, <4>1
    <3>3. x.n - d = i \/ x.n - d \in (i + 1)..Len(events)
      BY <2>6, <3>1, <3>2
    <3>4. x.n - d \notin (i + 1)..Len(events)
      BY <1>3, <2>5, <3>2
    <3> QED BY <3>2, <3>3, <3>4
  <2>8. Dashboard!Used(traces, active) = {z}
    <3>1. \A k \in 1..Len(traces) : k # z => traces[k][1] # active
      BY <2>3, <2>a, <2>b
    <3>2. \A k : k \in Dashboard!Used(traces, active) <=> k \in 1..Len(traces) /\ traces[k][1] = active
      BY <2>1 DEF Dashboard!Used
    <3>3. \A k : k \in Dashboard!Used(traces, active) <=> k = z
      BY <2>3, <2>a, <3>1, <3>2
    <3> QED BY <3>3
  <2>9. Dashboard!Timeline = traces[z][2]
    BY <2>8 DEF Dashboard!Timeline
  <2>10. Len(traces[z][2]) \in 1..MaxTraceEvents /\ traces[z][2][Len(traces[z][2])] = t
    BY <2>3, <2>4, <2>7 DEF LineFits, LastOf, x
  <2>11. traces[z][2] # <<>>
    BY <2>10
  <2> QED BY <1>2, <2>9, <2>10, <2>11 DEF Dashboard!PipelineStatus
<1>4. ASSUME t.module \notin {"queue", "health"}, \A j \in (i + 1)..Len(events) : events[j].module # t.module
      PROVE  Dashboard!NodeStatus(t.module, [blocked |-> FALSE, full |-> TRUE, size |-> 1], TRUE) = "error"
  <2>1. t.module \in Dashboard!Modules /\ t \in OfModule(t.module)
    BY <1>2 DEF Told, OfModule
  <2>2. \A j \in (i + 1)..Len(events) : events[j] \notin OfModule(t.module)
    BY <1>4 DEF OfModule
  <2>3. LatestOf(nodes[t.module], OfModule(t.module), events, d)
    BY <2>1 DEF DashInv
  <2>4. nodes[t.module] # None /\ nodes[t.module] = t
    BY <1>1, <2>1, <2>2, <2>3, LatestFound
  <2> QED BY <1>2, <1>4, <2>4 DEF Dashboard!NodeStatus
<1>5. ASSUME NEW g \in Dashboard!EdgesOf(t.module),
             \A j \in (i + 1)..Len(events) : g \notin Dashboard!EdgesOf(events[j].module)
      PROVE  Dashboard!ShownEdge(g, [blocked |-> FALSE], TRUE) = "error"
  <2>1. g \in Dashboard!Edges /\ t \in OfEdge(g)
    BY <1>2 DEF OfEdge, Dashboard!EdgesOf, Dashboard!Edges
  <2>2. \A j \in (i + 1)..Len(events) : events[j] \notin OfEdge(g)
    BY <1>5 DEF OfEdge
  <2>3. LatestOf(edges[g], OfEdge(g), events, d)
    BY <2>1 DEF DashInv
  <2>4. edges[g] # None /\ edges[g] = t
    BY <1>1, <2>1, <2>2, <2>3, LatestFound
  <2> QED BY <1>2, <2>4 DEF Dashboard!ShownEdge, Dashboard!EdgeStatus
<1> QED BY <1>3, <1>4, <1>5

\* telemetry.py: the bounded lists agree, and the picture shows the latest event of everything it shows.
THEOREM DashboardTellsTheLatest ==
    ASSUME DashSound
    PROVE  Dashboard!Spec => [](Dashboard!ListsAgree /\ Dashboard!PictureIsLatest)
<1>1. Dashboard!Init => DashInv
  BY DashInit
<1>2. DashInv /\ [Dashboard!Next]_(Dashboard!vars) => DashInv'
  BY DashStep
<1>3. DashInv => Dashboard!ListsAgree /\ Dashboard!PictureIsLatest
  BY ListsHold, PictureHolds
<1> QED BY <1>1, <1>2, <1>3, PTL DEF Dashboard!Spec

-----------------------------------------------------------------------------
(* The types of what is proved above of more than its types.               *)

LEMMA RecordTyped == ASSUME RecordTypes PROVE Record!TypeOK
<1>1. Filed \subseteq Record!Event
  BY DEF Filed
<1>2. \A s \in Seq(Filed) : s \in Seq(Record!Event)
  BY <1>1
<1> QED BY <1>1, <1>2 DEF RecordTypes, Held, RecordSizes, RecordControl, Record!TypeOK

LEMMA SheetTyped == ASSUME SheetInv PROVE Sheet!TypeOK
  BY DEF SheetInv, Sheet!TypeOK

LEMMA DashTyped == ASSUME DashInv PROVE Dashboard!TypeOK
<1>1. /\ events \in Seq(Told) /\ Len(events) <= DashKept
      /\ errors \in Seq(Told) /\ Len(errors) <= MaxErrors /\ Len(traces) <= MaxTraces
  BY DEF DashInv, Numbered, ErrorsFit, TracesFit
<1>2. (\A i \in DOMAIN events : events[i] \in Told) /\ \A i \in DOMAIN errors : errors[i] \in Told
  BY <1>1
<1>3. \A t \in Told : t.module \in Dashboard!Modules /\ t.status \in Dashboard!Statuses
  BY DEF Told
<1> QED BY <1>1, <1>2, <1>3, Zenon DEF Dashboard!TypeOK, Dashboard!Known

\* The picture's calibration is of its types.
CalibrationTypes == CalibrationInv /\ Calibration!TypeOK /\ "pc" \in DOMAIN frame

LEMMA CalibrationTypesInit ==
    ASSUME Calibration!Init, MaxStarts \in Nat \ {0} PROVE CalibrationTypes
<1>1. /\ corrector \in [matrix : Calibration!Matrix \cup {None}, inverse : Calibration!Matrix \cup {None},
                        corners : Corners \cup {None}, size : Sizes \cup {None}]
      /\ published = None /\ shown = None /\ file = None /\ mixed = FALSE
  BY DEF Calibration!Init, Calibration!Uncalibrated
<1>2. \A r \in Request : req[r].pc = "idle"
  BY DEF Calibration!Init, Calibration!NoRequest
<1>3. frame.pc = "idle" /\ "pc" \in DOMAIN frame
  BY DEF Calibration!Init, Calibration!NoFrame
<1>4. size \in Sizes /\ starts \in 1..MaxStarts
  BY DEF Calibration!Init
<1>5. Calibration!TypeOK
  BY <1>1, <1>2, <1>3, <1>4 DEF Calibration!TypeOK
<1> QED BY <1>3, <1>5, CalibrationInit DEF CalibrationTypes

LEMMA CalibrationTypesStep ==
    ASSUME CalibrationSound, MaxStarts \in Nat \ {0}, CalibrationTypes, [Calibration!Next]_(Calibration!vars)
    PROVE  CalibrationTypes'
<1>1. CalibrationInv'
  BY CalibrationStep DEF CalibrationTypes
<1>5. \A r \in Request : req'[r].pc \in {"idle", "show", "save", "open", "write"}
  BY <1>1 DEF CalibrationInv, Requests
<1>2. /\ corrector' \in [matrix : Calibration!Matrix \cup {None}, inverse : Calibration!Matrix \cup {None},
                         corners : Corners \cup {None}, size : Sizes \cup {None}]
      /\ published' \in Corners \cup {None}
  <2>1. CASE corrector' = Calibration!Uncalibrated /\ published' = None
    BY <2>1 DEF Calibration!Uncalibrated
  <2>2. CASE \E c, d \in Corners : corrector' = CorrectorOf(d, c, size') /\ published' = c
    <3>1. PICK c, d \in Corners : corrector' = CorrectorOf(d, c, size') /\ published' = c
      BY <2>2
    <3>2. size' \in Sizes
      BY <1>1 DEF CalibrationInv
    <3> QED BY <3>1, <3>2 DEF CorrectorOf, Calibration!Warp, Calibration!Matrix
  <2> QED BY <1>1, <2>1, <2>2 DEF CalibrationInv, CorrectorIsWhole
<1>3. file' \in [matrix : Calibration!Matrix, corners : Corners, size : Sizes] \cup {None}
  BY <1>1 DEF CalibrationInv, FileIsWhole, Of, Calibration!Warp, Calibration!Matrix
<1>4. shown' \in Corners \cup {None} /\ starts' \in 1..MaxStarts /\ frame'.pc \in {"idle", "detect", "report"}
      /\ "pc" \in DOMAIN frame'
  <2> USE DEF CalibrationTypes, Calibration!TypeOK
  <2>1. ASSUME NEW r \in Request, Calibration!UpdateCorners(r) \/ Calibration!Save(r) \/ Calibration!Truncate(r)
                                  \/ Calibration!Written(r) \/ Calibration!SaveFails(r)
        PROVE  UNCHANGED <<shown, starts, frame>>
    BY <2>1, Zenon DEF Calibration!UpdateCorners, Calibration!Save, Calibration!Truncate, Calibration!Written, Calibration!SaveFails
  <2>2. ASSUME NEW r \in Request, Calibration!Show(r)
        PROVE  shown' \in Corners \cup {None} /\ UNCHANGED <<starts, frame>>
    BY <2>2 DEF Calibration!Show
  <2>3. CASE Calibration!WarpFrame \/ Calibration!Report
    BY <2>3 DEF Calibration!WarpFrame, Calibration!Report, Calibration!NoFrame
  <2>6. CASE Calibration!MapBack
    BY <2>6 DEF Calibration!MapBack
  <2>4. CASE Calibration!Restart
    <3>1. shown' = published'
      BY <2>4 DEF Calibration!Restart, Calibration!StartsWith
    <3> QED BY <1>2, <2>4, <3>1 DEF Calibration!Restart, Calibration!NoFrame
  <2>5. CASE UNCHANGED Calibration!vars
    BY <2>5 DEF Calibration!vars
  <2> QED BY <2>1, <2>2, <2>3, <2>4, <2>5, <2>6 DEF Calibration!Next
<1> QED BY <1>1, <1>2, <1>3, <1>4, <1>5 DEF CalibrationTypes, CalibrationInv, Calibration!TypeOK

\* The workers' variables are of their types.
BootPlaces == (Workers!Stages \X {0}) \cup ({"start", "wait"} \X (1..Len(Order)))
HookPlaces == ({None, "services", "tasks", "loop", "end"} \X {0}) \cup ({"stop"} \X (1..Len(Order)))
WorkersPlaces ==
    /\ boot \in BootPlaces /\ flags \subseteq Workers!Flags /\ hook \in HookPlaces /\ hooked \in BOOLEAN
    /\ loop \in {"none", "running", "stopped"} /\ link \in BOOLEAN
    /\ silence \in 0..(Timeout + 1) /\ judged \in BOOLEAN /\ healthy \in BOOLEAN
WorkersTypes == WorkersInv /\ WorkersPlaces

LEMMA PlacesAre ==
    /\ \A stage \in Workers!Stages : Workers!At(stage) \in BootPlaces
    /\ \A i \in 1..Len(Order) : <<"start", i>> \in BootPlaces /\ <<"wait", i>> \in BootPlaces
    /\ \A stage \in {None, "services", "tasks", "loop", "end"} : Workers!At(stage) \in HookPlaces
    /\ \A i \in 1..Len(Order) : <<"stop", i>> \in HookPlaces
  BY DEF BootPlaces, HookPlaces, Workers!At

LEMMA WorkersTyped == ASSUME WorkersTypes PROVE Workers!TypeOK
  BY DEF WorkersTypes, WorkersPlaces, BootPlaces, HookPlaces, WorkersInv, WorkRecord, Workers!TypeOK

LEMMA WorkersTypesInit == ASSUME WorkersSound, Timeout \in Nat, Workers!Init PROVE WorkersTypes
<1>1. boot \in BootPlaces /\ hook \in HookPlaces
  BY PlacesAre DEF Workers!Init, Workers!Stages
<1>2. flags = {} /\ loop = "none" /\ silence = 0 /\ silence \in 0..(Timeout + 1)
  BY DEF Workers!Init
<1>3. hooked = FALSE /\ link \in BOOLEAN /\ judged = FALSE /\ healthy = TRUE
  BY Zenon DEF Workers!Init
<1>4. WorkersPlaces
  BY <1>1, <1>2, <1>3, Zenon DEF WorkersPlaces
<1> QED BY <1>4, WorkersInit, Zenon DEF WorkersTypes

LEMMA PlacesStep ==
    ASSUME WorkersSound, Timeout \in Nat, WorkersPlaces, [Workers!Next]_(Workers!vars)
    PROVE  WorkersPlaces'
<1> USE DEF WorkersPlaces, Workers!Quiet, Workers!Rest
<1>0. WorkersPlaces
  OBVIOUS
<1>1. Len(Order) \in Nat \ {0}
  BY DEF WorkersSound, Workers!Worker, Workers!ToSet
<1>2. \A stage \in Workers!Stages : Workers!At(stage) \in BootPlaces
  BY PlacesAre
<1>3. \A stage \in {None, "services", "tasks", "loop", "end"} : Workers!At(stage) \in HookPlaces
  BY PlacesAre
<1>4. /\ {"runtime", "robot", "hook", "vision", "workflow", "persistence", "ready", "up", "failed"} \subseteq Workers!Stages
      /\ \A new \in {"runtime", "services", "robot", "vision", "workers", "workflow", "persistence", "ready"} :
           new \in Workers!Flags
  BY DEF Workers!Stages, Workers!Flags
<1>5. CASE Workers!StartRuntime
  BY <1>0, <1>2, <1>4, <1>5 DEF Workers!StartRuntime
<1>6. CASE Workers!ConnectRobot
  BY <1>0, <1>2, <1>4, <1>6 DEF Workers!ConnectRobot
<1>7. CASE Workers!RegisterHook
  BY <1>0, <1>2, <1>4, <1>7 DEF Workers!RegisterHook
<1>8. CASE Workers!StartVision
  <2>1. <<"start", 1>> \in BootPlaces
    <3>1. 1 \in 1..Len(Order)
      BY <1>1
    <3> QED BY <3>1, PlacesAre, Zenon
  <2>2. boot' = <<"start", 1>> /\ UNCHANGED <<hook, hooked, loop, link, silence, judged, healthy>>
    BY <1>8, Zenon DEF Workers!StartVision
  <2>3. flags' \subseteq Workers!Flags
    BY <1>0, <1>4, <1>8 DEF Workers!StartVision
  <2> QED BY <1>0, <2>1, <2>2, <2>3
<1>9. \A i \in 1..Len(Order) : Workers!AfterStart(i) \in BootPlaces
  <2> TAKE i \in 1..Len(Order)
  <2>1. CASE i = Len(Order)
    BY <1>2, <1>4, <2>1, Zenon DEF Workers!AfterStart
  <2>2. CASE i # Len(Order)
    <3>1. i + 1 \in 1..Len(Order)
      BY <1>1, <2>2
    <3> QED BY <2>2, <3>1, PlacesAre DEF Workers!AfterStart
  <2> QED BY <2>1, <2>2
<1>10. ASSUME NEW i \in 1..Len(Order), Workers!StartWorker(i) PROVE WorkersPlaces'
  <2>1. boot' \in {Workers!AfterStart(i), <<"wait", i>>}
    BY <1>10 DEF Workers!StartWorker
  <2>2. boot' \in BootPlaces
    BY <2>1, <1>9, PlacesAre
  <2>3. UNCHANGED <<flags, hook, hooked, loop, link, silence, judged, healthy>>
    BY <1>10, Zenon DEF Workers!StartWorker
  <2> QED BY <1>0, <2>2, <2>3
<1>11. ASSUME NEW i \in 1..Len(Order), Workers!WorkerStarted(i) PROVE WorkersPlaces'
  BY <1>0, <1>9, <1>11 DEF Workers!WorkerStarted
<1>12. CASE Workers!StartWorkflow
  BY <1>0, <1>2, <1>4, <1>12 DEF Workers!StartWorkflow
<1>13. CASE Workers!StartPersistence
  BY <1>0, <1>2, <1>4, <1>13 DEF Workers!StartPersistence
<1>14. CASE Workers!BootEnds
  BY <1>0, <1>2, <1>4, <1>14 DEF Workers!BootEnds
<1>15. ASSUME NEW w \in Workers!LoopWorker, Workers!StartRuns(w) \/ Workers!Begin(w) \/ Workers!Wakes(w)
       PROVE  WorkersPlaces'
  <2>1. UNCHANGED <<boot, flags, hook, hooked, loop, link, silence, judged, healthy>>
    BY <1>15, Zenon DEF Workers!StartRuns, Workers!Begin, Workers!Wakes
  <2> QED BY <1>0, <2>1
<1>16. ASSUME NEW w \in Workers!LoopWorker, Workers!Round(w) PROVE WorkersPlaces'
  <2>1. judged' \in BOOLEAN /\ UNCHANGED <<link, silence, healthy>>
    BY <1>0, <1>16 DEF Workers!Round
  <2>2. UNCHANGED <<boot, flags, hook, hooked, loop>>
    BY <1>16, Zenon DEF Workers!Round
  <2> QED BY <1>0, <2>1, <2>2
<1>17. CASE Workers!Verdict
  BY <1>0, <1>17 DEF Workers!Verdict
<1>18. CASE Workers!StatusRound
  <2>1. CASE silence' = 0 /\ healthy' = TRUE
    <3>1. UNCHANGED <<boot, flags, hook, hooked, loop, link, judged>>
      BY <1>18, Zenon DEF Workers!StatusRound
    <3>2. silence' \in 0..(Timeout + 1)
      BY <2>1
    <3> QED BY <1>0, <2>1, <3>1, <3>2
  <2>2. CASE UNCHANGED <<silence, healthy>>
    BY <1>0, <1>18, <2>2 DEF Workers!StatusRound
  <2> QED BY <1>18, <2>1, <2>2, Zenon DEF Workers!StatusRound
<1>19. CASE Workers!StatusWakes
  BY <1>0, <1>19 DEF Workers!StatusWakes
<1>20. CASE Workers!LinkChanges
  BY <1>0, <1>20 DEF Workers!LinkChanges
<1>21. ASSUME NEW i \in 1..Len(Order), Workers!HookStops(i) PROVE WorkersPlaces'
  <2>1. hook' \in HookPlaces
    BY <1>1, <1>3, <1>21, PlacesAre DEF Workers!HookStops
  <2>2. UNCHANGED <<boot, flags, hooked, loop, link, silence, judged, healthy>>
    BY <1>21, Zenon DEF Workers!HookStops
  <2> QED BY <1>0, <2>1, <2>2
<1>22. CASE Workers!HookBegins
  BY <1>0, <1>1, <1>22, PlacesAre DEF Workers!HookBegins
<1>23. CASE Workers!HookStopsServices
  BY <1>0, <1>3, <1>23 DEF Workers!HookStopsServices
<1>24. CASE Workers!HookCancels
  <2>1. UNCHANGED <<boot, flags, hooked, loop, link, silence, judged, healthy>> /\ hook' \in HookPlaces
    BY <1>3, <1>24 DEF Workers!HookCancels
  <2> QED BY <1>0, <2>1
<1>25. CASE Workers!HookStopsLoop
  BY <1>0, <1>3, <1>25 DEF Workers!HookStopsLoop
<1>26. CASE UNCHANGED Workers!vars
  BY <1>0, <1>26 DEF Workers!vars
<1> QED BY <1>5, <1>6, <1>7, <1>8, <1>10, <1>11, <1>12, <1>13, <1>14, <1>15, <1>16, <1>17, <1>18, <1>19, <1>20, <1>21,
         <1>22, <1>23, <1>24, <1>25, <1>26, Zenon DEF Workers!Next

LEMMA WorkersTypesStep ==
    ASSUME WorkersSound, Timeout \in Nat, WorkersTypes, [Workers!Next]_(Workers!vars)
    PROVE  WorkersTypes'
  BY WorkersStep, PlacesStep, Zenon DEF WorkersTypes

-----------------------------------------------------------------------------
(* What TMflow sends of itself.                                            *)
Ingest == INSTANCE TMflowIngest WITH MaxStarts <- IngestStarts, starts <- booted, active <- peers, published <- heard

IngestSound == IngestStarts \in Nat /\ MaxAge \in Nat

\* A connection has all its fields, and no message before it was accepted.
Connection(k) ==
    /\ {"at", "wire", "buffer", "todo", "from"} \subseteq DOMAIN k
    /\ k.at \in {"away", "reads", "gone"} /\ k.from \in Ingest!Near /\ (k.todo # <<>> => k.at # "away")
IngestTypes ==
    /\ policy \in [key : BOOLEAN, production : BOOLEAN, lab : BOOLEAN]
    /\ server \in [running : BOOLEAN, stop : BOOLEAN, open : BOOLEAN, thread : BOOLEAN]
    /\ booted \in 0..IngestStarts /\ peers \in Nat /\ failures \in Nat
    /\ DOMAIN client = Client /\ \A c \in Client : Connection(client[c])
    /\ "age" \in DOMAIN snapshot /\ snapshot.age \in 0..(MaxAge + 1)

LEMMA IngestTyped == ASSUME IngestTypes PROVE Ingest!TypeOK
  BY DEF IngestTypes, Connection, Ingest!TypeOK

LEMMA IngestInit == ASSUME IngestSound, Ingest!Init PROVE IngestTypes
<1>1. policy \in [key : BOOLEAN, production : BOOLEAN, lab : BOOLEAN]
  <2>1. policy \in Ingest!Policies
    BY DEF Ingest!Init
  <2> QED BY <2>1 DEF Ingest!Policies
<1>2. DOMAIN client = Client /\ \A c \in Client : Connection(client[c])
  <2>1. DOMAIN client = Client
    BY DEF Ingest!Init
  <2>2. ASSUME NEW c \in Client PROVE Connection(client[c])
    <3>1. PICK w \in Scripts, n \in Ingest!Near :
            client[c] = [at |-> "away", wire |-> w, buffer |-> <<>>, todo |-> <<>>, from |-> n]
      BY DEF Ingest!Init
    <3> QED BY <3>1 DEF Connection
  <2> QED BY <2>1, <2>2
<1>3. "age" \in DOMAIN snapshot /\ snapshot.age \in 0..(MaxAge + 1)
  BY DEF Ingest!Init, Ingest!Nothing, IngestSound
<1> QED BY <1>1, <1>2, <1>3 DEF Ingest!Init, IngestTypes, IngestSound

LEMMA ConnectionChanges ==
    ASSUME DOMAIN client = Client, \A c \in Client : Connection(client[c]),
           NEW c \in Client, DOMAIN client' = Client, Connection(client'[c]),
           \A o \in Client \ {c} : client'[o] = client[o]
    PROVE  DOMAIN client' = Client /\ \A o \in Client : Connection(client'[o])
  OBVIOUS

LEMMA IngestStep == ASSUME IngestSound, IngestTypes, [Ingest!Next]_(Ingest!vars) PROVE IngestTypes'
<1>1. DOMAIN client = Client /\ \A c \in Client : Connection(client[c])
  BY DEF IngestTypes
<1>3. CASE Ingest!Start
  BY <1>3 DEF Ingest!Start, IngestTypes, IngestSound
<1>4. CASE Ingest!Stop
  BY <1>4 DEF Ingest!Stop, IngestTypes
<1>5. CASE Ingest!Tick
  BY <1>5 DEF Ingest!Tick, IngestTypes, IngestSound
<1>6. ASSUME NEW c \in Client, Ingest!Accept(c) PROVE IngestTypes'
  <2>1. client' = [client EXCEPT ![c].at = "reads"] /\ peers' = peers + 1
        /\ UNCHANGED <<policy, server, booted, snapshot, failures>>
    BY <1>6, Zenon DEF Ingest!Accept
  <2>2. Connection(client'[c])
    BY <2>1, <1>1 DEF Connection
  <2>3. DOMAIN client' = Client /\ \A o \in Client \ {c} : client'[o] = client[o]
    BY <2>1, <1>1
  <2> QED BY <2>1, <2>2, <2>3, <1>1, ConnectionChanges DEF IngestTypes
<1>7. ASSUME NEW c \in Client, NEW buffer, NEW wire, NEW force, Ingest!Takes(c, buffer, wire, force),
             client[c].at = "reads"
      PROVE  DOMAIN client' = Client /\ \A o \in Client : Connection(client'[o])
  <2> DEFINE rest == Ingest!Ready(buffer, force)[2]
             full == Ingest!Ready(buffer, force)[1]
  <2>1. client' = [client EXCEPT ![c].wire = wire, ![c].buffer = rest, ![c].todo = full]
    BY <1>7, Zenon DEF Ingest!Takes
  <2> HIDE DEF rest, full
  <2>2. Connection(client'[c])
    BY <2>1, <1>1, <1>7 DEF Connection
  <2>3. DOMAIN client' = Client /\ \A o \in Client \ {c} : client'[o] = client[o]
    BY <2>1, <1>1
  <2> QED BY <2>2, <2>3, <1>1, ConnectionChanges
<1>8. ASSUME NEW c \in Client, Ingest!Leaves(c), client[c].todo = <<>>
      PROVE  /\ DOMAIN client' = Client /\ \A o \in Client : Connection(client'[o])
             /\ peers \in Nat => peers' \in Nat
  <2>1. client' = [client EXCEPT ![c].at = "gone", ![c].wire = <<>>, ![c].buffer = <<>>]
        /\ peers' = IF peers = 0 THEN 0 ELSE peers - 1
    BY <1>8, Zenon DEF Ingest!Leaves
  <2>2. Connection(client'[c])
    BY <2>1, <1>1 DEF Connection
  <2>3. DOMAIN client' = Client /\ \A o \in Client \ {c} : client'[o] = client[o]
    BY <2>1, <1>1
  <2> QED BY <2>1, <2>2, <2>3, <1>1, ConnectionChanges
<1>9. ASSUME NEW c \in Client, Ingest!Receive(c) PROVE IngestTypes'
  <2>1. client[c].at = "reads" /\ UNCHANGED <<policy, server, booted, peers, snapshot, failures>>
    BY <1>9, Zenon DEF Ingest!Receive
  <2>2. \E b, w : Ingest!Takes(c, b, w, FALSE)
    BY <1>9, Zenon DEF Ingest!Receive
  <2> QED BY <1>7, <2>1, <2>2 DEF IngestTypes
<1>10. ASSUME NEW c \in Client, Ingest!Closed(c) PROVE IngestTypes'
  <2>1. client[c].at = "reads" /\ client[c].todo = <<>> /\ UNCHANGED <<policy, server, booted, snapshot, failures>>
    BY <1>10, Zenon DEF Ingest!Closed
  <2>2. CASE Ingest!Leaves(c)
    BY <1>8, <2>1, <2>2 DEF IngestTypes
  <2>3. CASE UNCHANGED peers /\ \E messages : client' = [client EXCEPT ![c].buffer = <<>>, ![c].todo = messages]
    <3>1. PICK messages : client' = [client EXCEPT ![c].buffer = <<>>, ![c].todo = messages]
      BY <2>3
    <3>2. Connection(client'[c])
      BY <3>1, <2>1, <1>1 DEF Connection
    <3>3. DOMAIN client' = Client /\ \A o \in Client \ {c} : client'[o] = client[o]
      BY <3>1, <1>1
    <3> QED BY <2>1, <2>3, <3>2, <3>3, <1>1, ConnectionChanges DEF IngestTypes
  <2>4. \/ Ingest!Leaves(c)
        \/ UNCHANGED peers /\ \E messages : client' = [client EXCEPT ![c].buffer = <<>>, ![c].todo = messages]
    BY <1>10, Zenon DEF Ingest!Closed
  <2> QED BY <2>2, <2>3, <2>4
<1>15. ASSUME NEW c \in Client, Ingest!Recut(c) PROVE IngestTypes'
  <2>1. client[c].at = "reads" /\ UNCHANGED <<policy, server, booted, peers, snapshot, failures>>
    BY <1>15, Zenon DEF Ingest!Recut
  <2>2. \E b, w : Ingest!Takes(c, b, w, FALSE)
    BY <1>15, Zenon DEF Ingest!Recut
  <2> QED BY <1>7, <2>1, <2>2 DEF IngestTypes
<1>11. ASSUME NEW c \in Client, Ingest!LeavesEarly(c) PROVE IngestTypes'
  <2>1. client[c].todo = <<>> /\ Ingest!Leaves(c) /\ UNCHANGED <<policy, server, booted, snapshot, failures>>
    BY <1>11, Zenon DEF Ingest!LeavesEarly
  <2> QED BY <1>8, <2>1 DEF IngestTypes
<1>12. ASSUME NEW c \in Client, Ingest!TooLong(c) PROVE IngestTypes'
  <2>1. client[c].todo = <<>> /\ Ingest!Leaves(c) /\ failures' = failures + 1
        /\ UNCHANGED <<policy, server, booted, snapshot>>
    BY <1>12, Zenon DEF Ingest!TooLong
  <2> QED BY <1>8, <2>1 DEF IngestTypes
<1>13. ASSUME NEW c \in Client, Ingest!Ingest(c) PROVE IngestTypes'
  <2>1. client[c].todo # <<>> /\ client' = [client EXCEPT ![c].todo = Tail(@)]
        /\ UNCHANGED <<policy, server, booted, peers>>
    BY <1>13, Zenon DEF Ingest!Ingest
  <2>2. \/ failures' = failures + 1
        \/ failures' = failures
    BY <1>13, Zenon DEF Ingest!Ingest
  <2>3. \/ snapshot' = snapshot
        \/ \E p : snapshot' = Ingest!Stored(p)
    BY <1>13, Zenon DEF Ingest!Ingest
  <2>4. "age" \in DOMAIN snapshot' /\ snapshot'.age \in 0..(MaxAge + 1)
    BY <2>3 DEF IngestTypes, Ingest!Stored, IngestSound
  <2>5. Connection(client'[c])
    BY <2>1, <1>1 DEF Connection
  <2>6. DOMAIN client' = Client /\ \A o \in Client \ {c} : client'[o] = client[o]
    BY <2>1, <1>1
  <2>7. DOMAIN client' = Client /\ \A o \in Client : Connection(client'[o])
    BY <2>5, <2>6, <1>1, ConnectionChanges
  <2>8. failures' \in Nat
    BY <2>2 DEF IngestTypes
  <2> QED BY <2>1, <2>4, <2>7, <2>8 DEF IngestTypes
<1>14. CASE UNCHANGED Ingest!vars
  BY <1>14, Zenon DEF Ingest!vars, IngestTypes
<1> QED BY <1>3, <1>4, <1>5, <1>6, <1>9, <1>10, <1>11, <1>12, <1>13, <1>14, <1>15, Zenon DEF Ingest!Next

=============================================================================
