---------------------------- MODULE SyntheticApp -----------------------------
(***************************************************************************)
(* What the application does to one synthetic account and its keys, one    *)
(* request at a time, while Redis refuses some commands (ACL SETUSER) or   *)
(* keys.  A handler is a function from the store and the refused commands  *)
(* to an HTTP status and the store it leaves behind; a command that is     *)
(* refused ends the handler where it stands, and what earlier commands     *)
(* wrote stays.  This is the system the acceptance checks of               *)
(* verify-compose.py question; the handlers' interleavings are the subject *)
(* of Sessions, Follows and FeedPages.                                     *)
(***************************************************************************)
EXTENDS Integers, FiniteSets, Sequences

CONSTANTS
    FailureLimit,   \* LOGIN_FAILURE_LIMIT, five in the code
    Tokens          \* bound: sessions of the account, drawn in this order

ASSUME SyntheticAssumption ==
    /\ FailureLimit \in Nat \ {0}
    /\ IsFiniteSet(Tokens) /\ Tokens \subseteq Nat

\* Commands and keys a check may refuse; codeKey stands for the key pattern
\* that leaves only the cooldown keys accessible.
Commands == {"del", "incr", "expire", "pexpire", "hset", "codeKey"}

\* A TTL is absent, freshly set, or set earlier and not renewed.
Ttl == {"none", "old", "full"}

Session(id, ttl) == [id |-> id, ttl |-> ttl]
NoSession == Session("absent", "none")
NoSessions == [t \in Tokens |-> NoSession]

\* account: its row and role; broken: the statement MySQL refuses; failures and
\* its TTL: login:failure, of another Redis type if mistyped; row and score: one
\* follow and its projection.
EmptyStore == [account |-> "active", code |-> FALSE, cooldown |-> FALSE,
               failures |-> 0, failureTtl |-> "none", mistyped |-> FALSE,
               sessions |-> NoSessions, broken |-> "none",
               row |-> FALSE, score |-> "none", projectionTyped |-> TRUE, table |-> TRUE]

Answer(status, store) == [status |-> status, store |-> store]
-----------------------------------------------------------------------------
(* /user/code and /user/login                                              *)

\* The exception of saveCode is answered after releaseCooldown.
GiveCooldownBack(s, denied) == [s EXCEPT !.cooldown = "del" \in denied]

SendCode(s, denied) ==
    IF s.cooldown THEN Answer(429, s)
    ELSE IF "codeKey" \in denied THEN Answer(500, GiveCooldownBack(s, denied))
    ELSE Answer(200, [s EXCEPT !.code = TRUE, !.cooldown = TRUE])

\* login-failure-increment.lua: Lua does not roll INCR back when EXPIRE raises.
CountFailure(s, denied) ==
    LET counted == [s EXCEPT !.failures = @ + 1]
        status == IF counted.failures >= FailureLimit THEN 429 ELSE 401
    IN  IF "incr" \in denied THEN Answer(500, s)
        ELSE IF s.failures > 0 THEN Answer(status, counted)
        ELSE IF "expire" \in denied THEN Answer(500, counted)
        ELSE Answer(status, [counted EXCEPT !.failureTtl = "full"])

\* Mutant: the identity is written before the TTL.
PublishIdentityFirst(s, denied, t) ==
    IF "hset" \in denied THEN Answer(-1, s)
    ELSE IF "pexpire" \notin denied THEN Answer(1, [s EXCEPT !.sessions[t] = Session("own", "full")])
    ELSE Answer(-1, IF "del" \in denied THEN [s EXCEPT !.sessions[t] = Session("own", "none")] ELSE s)

\* login-session-publish.lua on a new token: a placeholder gets the TTL first.
Publish(s, denied, t) ==
    IF "hset" \in denied THEN Answer(-1, s)
    ELSE IF "pexpire" \notin denied THEN Answer(1, [s EXCEPT !.sessions[t] = Session("own", "full")])
    ELSE Answer(-1, IF "del" \in denied THEN [s EXCEPT !.sessions[t] = Session("blank", "none")] ELSE s)

FreeTokens(s) == {t \in Tokens : s.sessions[t] = NoSession}
NextToken(s) == CHOOSE t \in FreeTokens(s) : \A u \in FreeTokens(s) : t <= u

\* The code is right and now consumed.  A raised exception rolls a new account
\* back, but nothing Redis did; the failure count is cleared last.
IssueSession(s, denied) ==
    LET published == Publish(s, denied, NextToken(s))
        cleared == [published.store EXCEPT !.account = IF @ = "none" THEN "active" ELSE @,
                                           !.failures = 0, !.failureTtl = "none"]
    IN  IF s.broken = "lookup" \/ (s.broken = "roles" /\ s.account = "none") THEN Answer(500, s)
        ELSE IF s.account = "disabled" THEN Answer(401, s)
        ELSE IF published.status = 1 THEN Answer(200, cleared)
        ELSE Answer(500, published.store)

\* A guess is right, wrong or missing; bean validation refuses a missing one.
Login(s, denied, guess) ==
    IF guess = "missing" THEN Answer(400, s)
    ELSE IF s.mistyped THEN Answer(500, s)
    ELSE IF s.failures >= FailureLimit THEN Answer(429, s)
    ELSE IF guess = "wrong" \/ ~s.code THEN CountFailure(s, denied)
    ELSE IF "del" \in denied THEN Answer(500, s)
    ELSE IssueSession([s EXCEPT !.code = FALSE], denied)
-----------------------------------------------------------------------------
(* The authentication filter, /user/me, a public route and /user/logout    *)

Discard(s, denied, t) == IF "del" \in denied THEN s ELSE [s EXCEPT !.sessions[t] = NoSession]

\* session-authenticate.lua: only the identity the filter has read, and only
\* with a TTL.  1 is an identity, 0 is none; a refused command raises, and the
\* dispatch to /error answers 401.  "other" is a session that changed hands
\* after the filter read it.
Renew(s, denied, t) ==
    IF s.sessions[t].id # "own" THEN Answer(0, s)
    ELSE IF s.sessions[t].ttl = "none" THEN Answer(0, Discard(s, denied, t))
    ELSE IF "pexpire" \in denied THEN Answer(401, s)
    ELSE Answer(1, [s EXCEPT !.sessions[t].ttl = "full"])

Authenticate(s, denied, t) ==
    IF s.sessions[t] = NoSession THEN Answer(0, s)
    ELSE IF s.sessions[t].id = "blank" \/ s.account # "active"
    THEN Answer(IF "del" \in denied THEN 401 ELSE 0, Discard(s, denied, t))
    ELSE Renew(s, denied, t)

Me(s, denied, t) ==
    LET a == Authenticate(s, denied, t) IN Answer(IF a.status = 1 THEN 200 ELSE 401, a.store)

Public(s, denied, t) ==
    LET a == Authenticate(s, denied, t) IN Answer(IF a.status = 401 THEN 401 ELSE 200, a.store)

Logout(s, denied, t) ==
    LET a == Authenticate(s, denied, t)
    IN  IF a.status # 1 THEN Answer(401, a.store)
        ELSE IF "del" \in denied THEN Answer(500, a.store)
        ELSE Answer(200, [a.store EXCEPT !.sessions[t] = NoSession])
-----------------------------------------------------------------------------
(* /follow/<target>/<flag>                                                 *)

FollowRoute(s, denied) ==
    IF ~s.table THEN Answer(500, s)
    ELSE IF ~s.projectionTyped THEN Answer(500, [s EXCEPT !.row = TRUE])
    ELSE Answer(200, [s EXCEPT !.row = TRUE, !.score = "new"])

UnfollowRoute(s, denied) ==
    IF ~s.table THEN Answer(500, s)
    ELSE IF ~s.row THEN Answer(200, s)
    ELSE IF ~s.projectionTyped THEN Answer(500, [s EXCEPT !.row = FALSE])
    ELSE Answer(200, [s EXCEPT !.row = FALSE, !.score = "none"])
=============================================================================
