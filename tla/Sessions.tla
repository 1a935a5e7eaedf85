-------------------------------- MODULE Sessions --------------------------------
(***************************************************************************)
(* One phone number: login codes (LoginCodeService), login with its        *)
(* failure counter and its transaction (UserServiceImpl), the sessions it  *)
(* publishes, and the filter that turns a session into the identity of a   *)
(* request (RedisTokenAuthenticationFilter).                               *)
(*                                                                         *)
(* Codes, tokens and account ids are numbered in the order they are drawn: *)
(* AUTO_INCREMENT ids and UUIDs are never drawn twice, and a code is taken *)
(* to differ from the earlier ones.  Code 0 is a wrong guess.              *)
(***************************************************************************)
EXTENDS Integers, FiniteSets

CONSTANTS
    Logins,         \* threads in login
    Requests,       \* threads in the authentication filter
    FailureLimit,   \* LOGIN_FAILURE_LIMIT, five in the code
    MaxCodes,       \* bound: codes sent
    MaxTokens,      \* bound: sessions, the first of them from an old release
    MaxFaults       \* bound: calls that fail, commits lost, processes that die

ASSUME SessionsAssumption ==
    /\ FailureLimit \in Nat \ {0}
    /\ MaxCodes \in Nat /\ MaxTokens \in Nat \ {0} /\ MaxFaults \in Nat
    /\ IsFiniteSet(Logins)

Codes == 1..MaxCodes
Tokens == 1..MaxTokens
LegacyToken == 1

VARIABLES
    code, sent,     \* login:code, and how many codes were sent
    cooldown,       \* login:code:cooldown exists
    failures,       \* login:failure, 0 while it does not exist, ...
    expires,        \* ... and whether it has a TTL
    account,        \* the phone's committed row in tb_user, 0 without one, ...
    active, roles,  \* ... whether its status is ACTIVE and it has a role, ...
    lastId,         \* ... and the last id drawn
    inserter,       \* logins holding the uncommitted row, at most one
    session,        \* login:token:<token>
    drawn,          \* tokens drawn
    login,          \* what each login is doing
    request,        \* what each request is doing
    faults,
    guesses,        \* history: wrong codes compared since failures was cleared
    bought          \* history: the sessions each code was exchanged for

codeVars == <<code, sent, cooldown>>
counterVars == <<failures, expires, guesses>>
accountVars == <<account, active, roles, lastId, inserter>>
sessionVars == <<session, drawn, bought>>
vars == <<codeVars, counterVars, accountVars, sessionVars, login, request, faults>>

NoSession == [kind |-> "none", id |-> 0, ttl |-> FALSE]
Idle == [at |-> "idle", code |-> 0, id |-> 0]
NotIn == [at |-> "idle", token |-> 0, id |-> 0]

\* A deployment with an account whose session was written by an older release
\* and has no TTL, or an empty one.
Init ==
    /\ code = 0 /\ sent = 0 /\ cooldown = FALSE
    /\ failures = 0 /\ expires = FALSE /\ guesses = 0
    /\ account \in {0, 1} /\ active = TRUE /\ roles = TRUE
    /\ lastId = account /\ inserter = {}
    /\ session = [t \in Tokens |->
                    IF t = LegacyToken /\ account = 1
                    THEN [kind |-> "full", id |-> 1, ttl |-> FALSE] ELSE NoSession]
    /\ drawn = LegacyToken
    /\ login = [p \in Logins |-> Idle]
    /\ request = [q \in Requests |-> NotIn]
    /\ faults = 0
    /\ bought = [c \in Codes |-> {}]

Disturb == faults < MaxFaults /\ faults' = faults + 1
Calm == UNCHANGED faults
-----------------------------------------------------------------------------
(* sendCode                                                                *)

\* The code replaces an older one; a failed save gives the cooldown back, if
\* that call does not fail as well.
SendCode ==
    /\ ~cooldown
    /\ sent < MaxCodes
    /\ sent' = sent + 1
    /\ \/ code' = sent + 1 /\ cooldown' = TRUE /\ Calm
       \/ Disturb /\ code' \in {code, sent + 1} /\ cooldown' \in BOOLEAN
    /\ UNCHANGED <<counterVars, accountVars, sessionVars, login, request>>

\* TTLs: sixty seconds, two minutes, ten minutes.
CooldownEnds ==
    /\ cooldown /\ cooldown' = FALSE
    /\ UNCHANGED <<code, sent, counterVars, accountVars, sessionVars, login, request, faults>>

CodeExpires ==
    /\ code # 0 /\ code' = 0
    /\ UNCHANGED <<sent, cooldown, counterVars, accountVars, sessionVars, login, request,
                   faults>>

CounterExpires ==
    /\ failures > 0 /\ expires
    /\ failures' = 0 /\ expires' = FALSE /\ guesses' = 0
    /\ UNCHANGED <<codeVars, accountVars, sessionVars, login, request, faults>>
-----------------------------------------------------------------------------
(* login, one transaction whose first SQL statement is findByPhone         *)

Go(p, where) == login' = [login EXCEPT ![p].at = where]

\* The login ends; an account it inserted is rolled back.
Fail(p) == login' = [login EXCEPT ![p] = Idle] /\ inserter' = inserter \ {p}

\* findFailureCount is read before the code is compared.
Begin(p, guess) ==
    /\ login[p].at = "idle"
    /\ failures < FailureLimit
    /\ login' = [login EXCEPT ![p] = [at |-> "checked", code |-> guess, id |-> 0]]
    /\ UNCHANGED <<codeVars, counterVars, accountVars, sessionVars, request, faults>>

Matches(p) == code = login[p].code /\ code # 0

\* Mutant: GET here and DEL later.
ConsumeKeeps(p) == code' = code

\* login-code-consume.lua: compared and deleted in one.
ConsumeCode(p) == code' = IF Matches(p) THEN 0 ELSE code

Consume(p) ==
    /\ login[p].at = "checked"
    /\ guesses' = IF Matches(p) THEN guesses ELSE guesses + 1
    /\ \/ /\ ConsumeCode(p)
          /\ Go(p, IF Matches(p) THEN "consumed" ELSE "wrong")
          /\ Calm /\ UNCHANGED inserter
       \/ /\ Disturb
          /\ ConsumeCode(p) \/ UNCHANGED code
          /\ Fail(p)
    /\ UNCHANGED <<sent, cooldown, failures, expires, account, active, roles, lastId,
                   sessionVars, request>>

\* Mutant: SET instead of INCR.
IncrementOnce == failures' = 1

Increment == failures' = failures + 1

\* login-failure-increment.lua: EXPIRE of the first may fail after the INCR.
RecordFailure(p) ==
    /\ login[p].at = "wrong"
    /\ \/ Increment /\ expires' = (failures = 0 \/ expires) /\ Calm
       \/ /\ Disturb
          /\ \/ Increment /\ expires' \in {expires, failures = 0 \/ expires}
             \/ UNCHANGED <<failures, expires>>
    /\ Fail(p)
    /\ UNCHANGED <<codeVars, guesses, account, active, roles, lastId, sessionVars, request>>

\* A missing code in the request is a failure as well, without a comparison.
NoCodeGiven(p) ==
    /\ login[p].at = "checked"
    /\ login[p].code = 0
    /\ Go(p, "wrong")
    /\ UNCHANGED <<codeVars, counterVars, accountVars, sessionVars, request, faults>>

\* findByPhone: an account that is not ACTIVE is turned away, its code spent.
FindAccount(p) ==
    /\ login[p].at = "consumed"
    /\ \/ /\ account = 0
          /\ Go(p, "unknown") /\ UNCHANGED inserter
       \/ /\ account # 0 /\ active
          /\ login' = [login EXCEPT ![p].at = "known", ![p].id = account]
          /\ UNCHANGED inserter
       \/ account # 0 /\ ~active /\ Fail(p)
    /\ UNCHANGED <<codeVars, counterVars, account, active, roles, lastId, sessionVars,
                   request, faults>>

NobodyInserts == inserter = {}

\* createWithPhone: waits for another uncommitted row of the phone; a committed
\* one is a duplicate key.
CreateAccount(p) ==
    /\ login[p].at = "unknown"
    /\ NobodyInserts
    /\ \/ /\ account = 0
          /\ lastId' = lastId + 1
          /\ inserter' = inserter \cup {p}
          /\ login' = [login EXCEPT ![p].at = "known", ![p].id = lastId + 1]
       \/ account # 0 /\ Fail(p) /\ UNCHANGED lastId
    /\ UNCHANGED <<codeVars, counterVars, account, active, roles, sessionVars, request,
                   faults>>

\* Mutant: the identity first, its TTL afterwards.
LeftoversIdentityFirst(id) ==
    {NoSession} \cup [kind : {"full"}, id : {id}, ttl : BOOLEAN]

\* login-session-publish.lua: what a publication that does not answer 1 leaves
\* behind: nothing, a placeholder without id, or the whole session.
Leftovers(id) ==
    {NoSession, [kind |-> "full", id |-> id, ttl |-> TRUE]}
        \cup [kind : {"placeholder"}, id : {0}, ttl : BOOLEAN]

Issue(p) ==
    /\ login[p].at = "known"
    /\ drawn < MaxTokens
    /\ drawn' = drawn + 1
    /\ \/ /\ session' = [session EXCEPT ![drawn + 1] =
                            [kind |-> "full", id |-> login[p].id, ttl |-> TRUE]]
          /\ bought' = [bought EXCEPT ![login[p].code] = @ \cup {drawn + 1}]
          /\ Go(p, "issued")
          /\ Calm /\ UNCHANGED inserter
       \/ /\ Disturb
          /\ \E left \in Leftovers(login[p].id) : session' = [session EXCEPT ![drawn + 1] = left]
          /\ bought' = [bought EXCEPT ![login[p].code] = @ \cup {drawn + 1}]
          /\ Fail(p)
    /\ UNCHANGED <<codeVars, counterVars, account, active, roles, lastId, request>>

\* clearFailureCount: when it fails, the session stays and the account does not.
ClearFailures(p) ==
    /\ login[p].at = "issued"
    /\ \/ /\ failures' = 0 /\ expires' = FALSE /\ guesses' = 0
          /\ Go(p, "cleared")
          /\ Calm /\ UNCHANGED inserter
       \/ /\ Disturb
          /\ \/ failures' = 0 /\ expires' = FALSE /\ guesses' = 0
             \/ UNCHANGED <<failures, expires, guesses>>
          /\ Fail(p)
    /\ UNCHANGED <<codeVars, account, active, roles, lastId, sessionVars, request>>

\* The commit after login returned; it may fail.
Commit(p) ==
    /\ login[p].at = "cleared"
    /\ \/ account' = (IF p \in inserter THEN login[p].id ELSE account) /\ Calm
       \/ Disturb /\ UNCHANGED account
    /\ Fail(p)
    /\ UNCHANGED <<codeVars, counterVars, active, roles, lastId, sessionVars, request>>

LoginDies(p) ==
    /\ login[p].at # "idle"
    /\ Disturb
    /\ Fail(p)
    /\ UNCHANGED <<codeVars, counterVars, account, active, roles, lastId, sessionVars, request>>
-----------------------------------------------------------------------------
(* The authentication filter.                                              *)

Leave(q) == request' = [request EXCEPT ![q] = NotIn]

Delete(t) == session' = [session EXCEPT ![t] = NoSession]

\* HGETALL: nothing there is an anonymous request; a hash without id is deleted.
Read(q, t) ==
    /\ request[q].at = "idle"
    /\ \/ /\ session[t].kind = "full"
          /\ request' = [request EXCEPT ![q] = [at |-> "read", token |-> t, id |-> session[t].id]]
          /\ UNCHANGED session
       \/ session[t].kind = "placeholder" /\ Delete(t) /\ UNCHANGED request
    /\ UNCHANGED <<codeVars, counterVars, accountVars, drawn, bought, login, faults>>

\* Mutant: the account is not looked up.
AccountIsTrusted(id) == TRUE

\* findAccountStatus sees committed rows only.
AccountIsActive(id) == id = account /\ active

CheckAccount(q) ==
    /\ request[q].at = "read"
    /\ \/ /\ AccountIsActive(request[q].id)
          /\ request' = [request EXCEPT ![q].at = "active"]
          /\ UNCHANGED session
       \/ ~AccountIsActive(request[q].id) /\ Delete(request[q].token) /\ Leave(q)
    /\ UNCHANGED <<codeVars, counterVars, accountVars, drawn, bought, login, faults>>

CheckRoles(q) ==
    /\ request[q].at = "active"
    /\ \/ /\ roles
          /\ request' = [request EXCEPT ![q].at = "authorized"]
          /\ UNCHANGED session
       \/ ~roles /\ Delete(request[q].token) /\ Leave(q)
    /\ UNCHANGED <<codeVars, counterVars, accountVars, drawn, bought, login, faults>>

\* Mutant: EXPIRE, whatever it answers.
RenewsAnything(q) == TRUE

\* session-authenticate.lua: the same identity, and a TTL to renew.
CanRenew(q) ==
    LET s == session[request[q].token]
    IN  s.kind = "full" /\ s.id = request[q].id /\ s.ttl

\* A session of this identity without a TTL is deleted; nobody gets in.
Renew(q) ==
    /\ request[q].at = "authorized"
    /\ \/ /\ CanRenew(q)
          /\ request' = [request EXCEPT ![q].at = "in"]
          /\ UNCHANGED session
       \/ /\ ~CanRenew(q)
          /\ LET s == session[request[q].token]
             IN  \/ s.id = request[q].id /\ Delete(request[q].token)
                 \/ UNCHANGED session
          /\ Leave(q)
    /\ UNCHANGED <<codeVars, counterVars, accountVars, drawn, bought, login, faults>>

\* A handler of an authenticated request; logout is one of them, and may fail.
Handle(q) ==
    /\ request[q].at = "in"
    /\ Delete(request[q].token) \/ UNCHANGED session
    /\ Leave(q)
    /\ UNCHANGED <<codeVars, counterVars, accountVars, drawn, bought, login, faults>>

\* Redis or MySQL raises in the filter: no identity, nothing deleted.
RequestFails(q) ==
    /\ request[q].at \in {"read", "active", "authorized"}
    /\ Leave(q)
    /\ UNCHANGED <<codeVars, counterVars, accountVars, sessionVars, login, faults>>

SessionExpires(t) ==
    /\ session[t].ttl
    /\ Delete(t)
    /\ UNCHANGED <<codeVars, counterVars, accountVars, drawn, bought, login, request, faults>>

\* Accounts are disabled and roles revoked by operators, not by this program.
Administer ==
    /\ account # 0
    /\ \/ active' = ~active /\ UNCHANGED roles
       \/ roles' = ~roles /\ UNCHANGED active
    /\ UNCHANGED <<codeVars, counterVars, account, lastId, inserter, sessionVars, login,
                   request, faults>>
-----------------------------------------------------------------------------
LoginStep(p) ==
    \/ \E guess \in 0..sent : Begin(p, guess)
    \/ Consume(p) \/ NoCodeGiven(p) \/ RecordFailure(p) \/ FindAccount(p)
    \/ CreateAccount(p) \/ Issue(p) \/ ClearFailures(p) \/ Commit(p) \/ LoginDies(p)

RequestStep(q) ==
    \/ \E t \in Tokens : Read(q, t)
    \/ CheckAccount(q) \/ CheckRoles(q) \/ Renew(q) \/ Handle(q) \/ RequestFails(q)

Next ==
    \/ \E p \in Logins : LoginStep(p)
    \/ \E q \in Requests : RequestStep(q)
    \/ SendCode \/ CooldownEnds \/ CodeExpires \/ CounterExpires
    \/ \E t \in Tokens : SessionExpires(t)
    \/ Administer

Spec == Init /\ [][Next]_vars
-----------------------------------------------------------------------------
\* Every variable keeps its type; a second login of the phone never inserts
\* while one is uncommitted, nor a second account.
TypeOK ==
    /\ code \in 0..MaxCodes /\ sent \in 0..MaxCodes /\ cooldown \in BOOLEAN
    /\ failures \in Nat /\ expires \in BOOLEAN /\ guesses \in Nat
    /\ account \in Nat /\ active \in BOOLEAN /\ roles \in BOOLEAN
    /\ lastId \in Nat /\ account <= lastId
    /\ inserter \subseteq Logins /\ Cardinality(inserter) <= 1
    /\ inserter # {} => account = 0
    /\ session \in [Tokens -> [kind : {"none", "placeholder", "full"}, id : Nat,
                               ttl : BOOLEAN]]
    /\ drawn \in Tokens
    /\ login \in [Logins -> [at : {"idle", "checked", "wrong", "consumed", "unknown",
                                   "known", "issued", "cleared"},
                             code : 0..MaxCodes, id : Nat]]
    /\ request \in [Requests -> [at : {"idle", "read", "active", "authorized", "in"},
                                 token : 0..MaxTokens, id : Nat]]
    /\ faults \in 0..MaxFaults
    /\ bought \in [Codes -> SUBSET Tokens]

\* A login code is exchanged for one session at most, however many logins
\* present it at once and whatever is lost on the way.
CodeBuysOneSession == \A c \in Codes : Cardinality(bought[c]) <= 1

\* Wrong guesses are limited although the counter is read long before it is
\* raised: beyond the limit go only the logins in flight and the failures
\* that could not be recorded.
GuessesAreBounded ==
    guesses <= FailureLimit - 1 + Cardinality(Logins) + faults

\* Every session that bears an identity expires by itself, however its
\* publication failed; only sessions of older releases do not.
SessionsExpire ==
    /\ TypeOK
    /\ \A t \in Tokens \ {LegacyToken} : session[t].kind = "full" => session[t].ttl

\* The session is published before the account it names is committed, and stays when that
\* fails; even so nobody ever acts under an account that is not committed.
NobodyActsUncommitted ==
    \A q \in Requests : request[q].at = "in" => request[q].id = account

\* An identity is established only while its session lives, with a TTL: not
\* from what was read before a logout, an expiry or a deletion.
IdentityIsLive ==
    [][\A q \in Requests :
          request[q].at # "in" /\ request'[q].at = "in" =>
              LET s == session[request[q].token]
              IN  s.kind = "full" /\ s.ttl /\ s.id = request'[q].id]_vars
=============================================================================
