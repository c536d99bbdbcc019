---------------------------- MODULE AccessGuard ----------------------------
(***************************************************************************)
(* The hook before every API request: which limit counts it, which role it *)
(* needs and whether it goes on.  Roles come from a table that is searched *)
(* from the top, so its order matters.  A path is the sequence of its      *)
(* segments below /api.                                                    *)
(***************************************************************************)
EXTENDS Naturals, Sequences, SequencesExt

CONSTANTS Role, Ending   \* roles claims may carry; last segments requests add to a known prefix

VARIABLES request, answer
vars == <<request, answer>>

Rule(prefix, method, role) == [prefix |-> prefix, method |-> method, role |-> role]
All == "any"

\* PROTECTED_ENDPOINTS
Rules == <<
    Rule(<<"health">>, All, "operator"), Rule(<<"engine", "status">>, All, "operator"),
    Rule(<<"vision", "status">>, All, "operator"), Rule(<<"events">>, All, "operator"),
    Rule(<<"video_status">>, All, "operator"),
    Rule(<<"runtime", "engine-depth">>, All, "admin"), Rule(<<"runtime", "ai-mode">>, All, "admin"),
    Rule(<<"runtime", "safe-mode">>, All, "admin"),
    Rule(<<"runtime", "session", "start">>, All, "admin"),
    Rule(<<"runtime", "session", "end">>, All, "admin"),
    Rule(<<"state">>, All, "operator"),
    Rule(<<"setup", "settings">>, "GET", "setup"), Rule(<<"setup", "settings">>, All, "setup"),
    Rule(<<"setup", "preflight">>, All, "setup"), Rule(<<"setup", "hardware-test">>, All, "setup"),
    Rule(<<"setup", "commissioning">>, All, "setup"),
    Rule(<<"runtime">>, All, "operator"), Rule(<<"assets">>, All, "operator"),
    Rule(<<"video_feed">>, All, "operator"), Rule(<<"vision", "cameras">>, All, "operator"),
    Rule(<<"vision", "stream-token">>, All, "operator"),
    Rule(<<"vision", "source", "status">>, All, "operator"),
    Rule(<<"vision", "capture">>, All, "operator"),
    Rule(<<"vision", "source", "test-frame">>, All, "setup"),
    Rule(<<"vision", "stream">>, All, "operator"), Rule(<<"vision", "snapshot">>, All, "operator"),
    Rule(<<"camera", "latest">>, All, "operator"),
    Rule(<<"vision", "calibration">>, "GET", "operator"),
    Rule(<<"vision", "calibration">>, All, "setup"),
    Rule(<<"snapshot">>, All, "operator"), Rule(<<"replay">>, All, "operator"),
    Rule(<<"robot", "status">>, "GET", "operator"),
    Rule(<<"robot", "calibration">>, "GET", "operator"),
    Rule(<<"robot", "calibration">>, All, "admin"),
    Rule(<<"robot", "vision-point">>, All, "operator"), Rule(<<"robot", "play">>, All, "setup"),
    Rule(<<"robot", "execute-ready-move">>, All, "setup"), Rule(<<"control">>, All, "admin"),
    Rule(<<"move">>, All, "admin"), Rule(<<"reset">>, All, "admin"),
    Rule(<<"simulation">>, All, "admin"), Rule(<<"snaplog">>, All, "admin"),
    Rule(<<"vision", "camera">>, All, "setup"), Rule(<<"export">>, All, "admin"),
    Rule(<<"export_json">>, All, "admin"), Rule(<<"export_kpi">>, All, "admin")>>

\* STREAM_TOKEN_ENDPOINTS
Streams == {<<"video_feed">>, <<"vision", "stream">>, <<"snapshot">>, <<"vision", "snapshot">>,
            <<"camera", "latest">>}

\* PUBLIC_CONTROL_ENDPOINTS
PublicControl == {
    Rule(<<"player", "state">>, "GET", All), Rule(<<"player", "start">>, All, All),
    Rule(<<"player", "end-game">>, All, All), Rule(<<"player", "move">>, All, All),
    Rule(<<"player", "vision-capture">>, All, All), Rule(<<"player-done">>, All, All),
    Rule(<<"stop">>, All, All), Rule(<<"vision", "tmflow", "frame">>, All, All),
    Rule(<<"vision", "tmvision", "classify">>, All, All),
    Rule(<<"vision", "tmvision", "detect">>, All, All)}

Logins == {<<"login">>, <<"setup", "login">>}

\* _matches_request
Matches(rule, r) == rule.method \in {All, r.method} /\ IsPrefix(rule.prefix, r.path)

\* _required_role_for_request: the first rule that matches
RequiredRole(r) ==
    LET i == SelectInSeq(Rules, LAMBDA rule : Matches(rule, r))
    IN  IF i = 0 THEN All ELSE Rules[i].role

Counted(r) == RequiredRole(r) # All \/ \E rule \in PublicControl : Matches(rule, r)

\* _has_required_role
Level == [viewer |-> 1, operator |-> 2, setup |-> 2, admin |-> 3]
HasRole(actual, required) ==
    IF required = "setup" THEN actual \in {"setup", "admin"}
    ELSE actual \in DOMAIN Level /\ Level[actual] >= Level[required]

\* verify_request_token, or for a stream the ticket in its address
Claims(r) ==
    IF r.session # All THEN r.session
    ELSE IF r.ticket # All /\ \E s \in Streams : IsPrefix(s, r.path) THEN r.ticket
    ELSE All

\* enforce_control_auth; r.full: the limiter refuses, r.open: CONTROL_AUTH_REQUIRED is off
Answer(r) ==
    IF r.path \in Logins THEN IF r.full THEN "429" ELSE "on"
    ELSE IF r.full /\ Counted(r) THEN "429"
    ELSE IF r.open \/ RequiredRole(r) = All THEN "on"
    ELSE IF Claims(r) = All THEN "401"
    ELSE IF ~HasRole(Claims(r), RequiredRole(r)) THEN "403"
    ELSE "on"

Stems == {Rules[i].prefix : i \in DOMAIN Rules} \cup {p.prefix : p \in PublicControl} \cup Logins
Paths == Stems \cup {p \o <<e>> : p \in Stems, e \in Ending}
Request == [path : Paths, method : {"GET", "POST"}, session : Role \cup {All},
            ticket : {"operator", All}, full : BOOLEAN, open : BOOLEAN]

Init == request \in Request /\ answer = "none"
Guard == answer = "none" /\ answer' = Answer(request) /\ UNCHANGED request
Spec == Init /\ [][Guard]_vars

-----------------------------------------------------------------------------

\* A request that is let on has the role of the most specific rule for its path and method
\* (the longest prefix, and among those one that names the method): no looser rule earlier in
\* the table of security_guard hides it.
StrictestRuleDecides ==
    answer = "on" /\ ~request.open /\ request.path \notin Logins =>
        LET match == {i \in DOMAIN Rules : Matches(Rules[i], request)}
            own == {i \in match : \A j \in match : Len(Rules[j].prefix) <= Len(Rules[i].prefix)}
            named == {i \in own : Rules[i].method = request.method}
        IN  \A i \in IF named = {} THEN own ELSE named : HasRole(Claims(request), Rules[i].role)
=============================================================================
