-------------------------- MODULE AcceptanceChecks ---------------------------
(***************************************************************************)
(* The checks of verify-compose.py that refuse commands to the application *)
(* and assert what it answers and leaves behind: login attempts, sessions, *)
(* login codes, accounts, logout and follows; and the checks of the Feed:  *)
(* its cursors, its outbox and the publication keys.                       *)
(*                                                                         *)
(* A check is a sequence of steps.  It arranges fields of the store, sends *)
(* a request with the status it expects, asserts fields of the store, or   *)
(* refuses and permits commands, and waits for the worker; the try/finally *)
(* around a refusal lifts it however the steps between end.                *)
(***************************************************************************)
EXTENDS AcceptanceHarness, SyntheticApp, SyntheticFeed

VARIABLES
    check, step,    \* the check that runs, and its step
    store, denied   \* the account under check, and what Redis refuses

checkVars == <<check, step, store, denied>>

Arrange(fields) == [kind |-> "arrange", fields |-> fields]
Ask(route, with, status) == [kind |-> "ask", route |-> route, with |-> with, status |-> status]
Holds(fields) == [kind |-> "holds", fields |-> fields]
Includes(fields) == [kind |-> "includes", fields |-> fields]
Until(fields) == [kind |-> "until", fields |-> fields]
Denying(commands) == [kind |-> "deny", commands |-> commands]
Allowing(commands) == [kind |-> "allow", commands |-> commands]

\* The account under check, and an author with followers.
Fixture == EmptyStore @@ EmptyFeed

Planted(id, ttl) == [NoSessions EXCEPT ![1] = Session(id, ttl)]
TwoPlanted == [t \in Tokens |-> IF t <= 2 THEN Session("own", "old") ELSE NoSession]
-----------------------------------------------------------------------------
LoginAttempts == <<
    Arrange([code |-> TRUE]),
    Ask("login", "missing", 400), Holds([failures |-> 0]),
    Ask("login", "wrong", 401), Holds([failures |-> 1, failureTtl |-> "full"]),
    Arrange([failureTtl |-> "old"]),
    Ask("login", "wrong", 401), Ask("login", "wrong", 401), Ask("login", "wrong", 401),
    Ask("login", "wrong", 429), Holds([failures |-> 5, failureTtl |-> "old"]),
    Ask("login", "right", 429), Holds([code |-> TRUE]),
    Arrange([failures |-> 4]),
    Ask("login", "right", 200), Holds([code |-> FALSE, failures |-> 0]), Ask("me", 1, 200),
    \* a mistyped counter, a refused DEL, a refused INCR
    Arrange([code |-> TRUE, mistyped |-> TRUE]),
    Ask("login", "right", 500), Holds([code |-> TRUE, mistyped |-> TRUE]),
    Arrange([mistyped |-> FALSE, failures |-> 2, failureTtl |-> "old"]),
    Denying({"del"}), Ask("login", "right", 500), Holds([code |-> TRUE, failures |-> 2]),
    Allowing({"del"}), Arrange([failures |-> 0, failureTtl |-> "none"]),
    Denying({"incr"}), Ask("login", "wrong", 500), Holds([code |-> TRUE, failures |-> 0]),
    Allowing({"incr"}), Ask("login", "right", 200),
    \* the partial write of a refused EXPIRE stays until the key is deleted
    Arrange([code |-> TRUE]),
    Denying({"expire"}), Ask("login", "wrong", 500),
    Holds([failures |-> 1, failureTtl |-> "none"]), Allowing({"expire"}),
    Ask("login", "wrong", 401), Holds([failures |-> 2, failureTtl |-> "none"]),
    Arrange([failures |-> 0]),
    Ask("login", "wrong", 401), Holds([failureTtl |-> "full"]),
    Ask("login", "right", 200), Holds([code |-> FALSE, failures |-> 0, account |-> "active"]) >>

SessionAuthentication == <<
    Arrange([sessions |-> Planted("own", "old")]),
    Ask("me", 1, 200), Holds([sessions |-> Planted("own", "full")]),
    Arrange([sessions |-> Planted("own", "none")]),
    Ask("me", 1, 401), Holds([sessions |-> NoSessions]),
    Arrange([sessions |-> Planted("own", "none")]),
    Ask("public", 1, 200), Holds([sessions |-> NoSessions]),
    Arrange([sessions |-> Planted("own", "none")]),
    Denying({"del"}), Ask("me", 1, 401), Ask("logout", 1, 401),
    Holds([sessions |-> Planted("own", "none")]), Allowing({"del"}),
    Ask("me", 1, 401), Holds([sessions |-> NoSessions]),
    Arrange([sessions |-> Planted("own", "old")]),
    Denying({"pexpire"}), Ask("me", 1, 401), Holds([sessions |-> Planted("own", "old")]),
    Allowing({"pexpire"}),
    Ask("me", 1, 200), Holds([sessions |-> Planted("own", "full")]),
    \* the script itself, on a key that changed hands
    Arrange([sessions |-> Planted("other", "old")]),
    Ask("renew", 1, 0), Holds([sessions |-> Planted("other", "old")]),
    Arrange([sessions |-> Planted("other", "none")]),
    Ask("renew", 1, 0), Holds([sessions |-> Planted("other", "none"), account |-> "active"]) >>

SessionIssuer == <<
    Arrange([code |-> TRUE]), Ask("login", "right", 200), Holds([code |-> FALSE]),
    Arrange([code |-> TRUE]), Ask("login", "right", 200), Holds([code |-> FALSE]),
    Holds([sessions |-> [t \in Tokens |-> IF t <= 2 THEN Session("own", "full") ELSE NoSession]]),
    Ask("me", 1, 200), Ask("me", 2, 200),
    Arrange([code |-> TRUE, failures |-> 2, failureTtl |-> "full", sessions |-> NoSessions]),
    Denying({"hset"}), Ask("login", "right", 500),
    Holds([code |-> FALSE, failures |-> 2, sessions |-> NoSessions]), Allowing({"hset"}),
    Denying({"pexpire", "expire"}),
    Arrange([code |-> TRUE]), Ask("login", "right", 500),
    Holds([code |-> FALSE, failures |-> 2, sessions |-> NoSessions]),
    Arrange([code |-> TRUE, account |-> "none"]), Ask("login", "right", 500),
    Holds([failures |-> 2, sessions |-> NoSessions, account |-> "none"]),
    Allowing({"pexpire", "expire"}),
    Arrange([code |-> TRUE]), Ask("login", "right", 200),
    Holds([failures |-> 0, account |-> "active", sessions |-> Planted("own", "full")]),
    Ask("me", 1, 200),
    \* the script itself, when neither the TTL nor the cleanup is possible
    Arrange([sessions |-> NoSessions]),
    Denying({"pexpire", "expire", "del"}), Ask("publish", 1, -1),
    Holds([sessions |-> Planted("blank", "none")]), Allowing({"pexpire", "expire", "del"}),
    Ask("me", 1, 401), Holds([sessions |-> NoSessions]) >>

LoginCodes == <<
    Arrange([account |-> "none"]),
    Ask("code", "", 200), Holds([code |-> TRUE, cooldown |-> TRUE]),
    Ask("code", "", 429), Holds([code |-> TRUE, cooldown |-> TRUE, account |-> "none"]),
    Arrange([code |-> FALSE, cooldown |-> FALSE]),
    Denying({"codeKey"}), Ask("code", "", 500), Holds([cooldown |-> FALSE]),
    Allowing({"codeKey"}), Holds([code |-> FALSE, cooldown |-> FALSE]),
    Ask("code", "", 200), Holds([code |-> TRUE]),
    Ask("login", "right", 200), Holds([code |-> FALSE, cooldown |-> TRUE]),
    Ask("me", 1, 200), Holds([account |-> "active"]),
    Ask("logout", 1, 200), Ask("me", 1, 401) >>

\* Accounts of three roles, disabled or without a role; a renamed column and a
\* trigger on the roles.
LoginAccounts == <<
    Arrange([code |-> TRUE]), Ask("login", "right", 200), Holds([code |-> FALSE]), Ask("me", 1, 200),
    Arrange([code |-> TRUE, account |-> "disabled"]),
    Ask("login", "right", 401), Holds([code |-> FALSE]),
    Arrange([code |-> TRUE, account |-> "roleless", sessions |-> NoSessions]),
    Ask("login", "right", 200), Ask("me", 1, 401), Holds([code |-> FALSE, sessions |-> NoSessions]),
    Arrange([code |-> TRUE, account |-> "active", broken |-> "lookup"]),
    Ask("login", "right", 500), Holds([code |-> FALSE]),
    Arrange([code |-> TRUE, broken |-> "none"]),
    Ask("login", "right", 200), Holds([account |-> "active"]),
    Arrange([code |-> TRUE, account |-> "none", broken |-> "roles", sessions |-> NoSessions]),
    Ask("login", "right", 500), Holds([code |-> FALSE, account |-> "none"]),
    Arrange([code |-> TRUE, broken |-> "none"]),
    Ask("login", "right", 200), Holds([account |-> "active"]), Ask("me", 1, 200) >>

SessionLogout == <<
    Arrange([sessions |-> TwoPlanted]),
    Ask("logout", 1, 200), Holds([sessions |-> [TwoPlanted EXCEPT ![1] = NoSession]]),
    Ask("logout", 1, 401), Ask("me", 1, 401),
    Holds([sessions |-> [TwoPlanted EXCEPT ![1] = NoSession]]), Ask("me", 2, 200),
    Arrange([sessions |-> TwoPlanted, account |-> "disabled"]),
    Ask("logout", 1, 401), Holds([sessions |-> [TwoPlanted EXCEPT ![1] = NoSession]]),
    Arrange([sessions |-> TwoPlanted, account |-> "roleless"]),
    Ask("logout", 1, 401), Holds([sessions |-> [TwoPlanted EXCEPT ![1] = NoSession]]),
    Arrange([sessions |-> Planted("own", "full"), account |-> "active"]),
    Denying({"del"}), Ask("logout", 1, 500), Holds([sessions |-> Planted("own", "full")]),
    Allowing({"del"}),
    Ask("me", 1, 200), Ask("logout", 1, 200), Holds([sessions |-> NoSessions]), Ask("me", 1, 401) >>

FollowCommands == <<
    Ask("follow", "", 200), Holds([row |-> TRUE, score |-> "new"]),
    Arrange([score |-> "stale"]),
    Ask("follow", "", 200), Holds([row |-> TRUE, score |-> "new"]),
    Ask("unfollow", "", 200), Holds([row |-> FALSE, score |-> "none"]),
    Arrange([score |-> "stale"]),
    Ask("unfollow", "", 200), Holds([row |-> FALSE, score |-> "stale"]),
    Arrange([score |-> "none", projectionTyped |-> FALSE]),
    Ask("follow", "", 500), Holds([row |-> TRUE, score |-> "none"]),
    Arrange([projectionTyped |-> TRUE]),
    Ask("follow", "", 200), Holds([row |-> TRUE, score |-> "new"]),
    Arrange([score |-> "none", projectionTyped |-> FALSE]),
    Ask("unfollow", "", 500), Holds([row |-> FALSE, score |-> "none"]),
    Ask("unfollow", "", 200), Holds([projectionTyped |-> FALSE]),
    Arrange([projectionTyped |-> TRUE, score |-> "stale"]),
    \* RENAME TABLE, and back in the finally
    Arrange([table |-> FALSE]),
    Ask("follow", "", 500), Ask("unfollow", "", 500), Holds([score |-> "stale"]),
    Arrange([table |-> TRUE]), Holds([row |-> FALSE]),
    Ask("follow", "", 200), Ask("unfollow", "", 200), Holds([row |-> FALSE, score |-> "none"]) >>

\* Pages from a cursor <<lastId, offset>>: <<minTime, offset, visible posts>>.
\* Seven posts of one score, then three of a higher one, then four withdrawn.
FeedCursors ==
    LET twoScores == [p \in Posts |-> IF p > 4 THEN 2 ELSE 1]
    IN <<
    Arrange([feed |-> [p \in Posts |-> 1]]),
    Ask("page", <<1, 0>>, <<1, 2, {7, 6}>>), Ask("page", <<1, 2>>, <<1, 4, {5, 4}>>),
    Ask("page", <<1, 4>>, <<1, 6, {3, 2}>>), Ask("page", <<1, 6>>, <<1, 7, {1}>>),
    Ask("page", <<1, 7>>, <<>>),
    Arrange([feed |-> twoScores]),
    Ask("page", <<2, 0>>, <<2, 2, {7, 6}>>), Ask("page", <<2, 2>>, <<1, 1, {5, 4}>>),
    Ask("page", <<1, 1>>, <<1, 3, {3, 2}>>), Ask("page", <<1, 3>>, <<1, 4, {1}>>),
    Ask("page", <<1, 4>>, <<>>), Ask("page", <<1, 0>>, <<1, 2, {4, 3}>>),
    Ask("withdraw", 7, <<200>>), Ask("withdraw", 6, <<200>>), Ask("withdraw", 5, <<200>>),
    Ask("withdraw", 4, <<200>>),
    Ask("page", <<2, 0>>, <<2, 2, {}>>), Ask("page", <<2, 2>>, <<1, 1, {}>>),
    Ask("page", <<1, 1>>, <<1, 3, {3, 2}>>), Ask("page", <<1, 3>>, <<1, 4, {1}>>),
    Ask("page", <<1, 4>>, <<>>), Holds([feed |-> twoScores, withdrawn |-> {7, 6, 5, 4}]) >>

FeedsAre(bad, good, late) ==
    Holds([feeds |-> [r \in Recipients |-> CASE r = "bad" -> bad [] r = "good" -> good [] r = "late" -> late]])

\* A Feed of another type, a refused DELETE and a refused second INSERT of the
\* outbox, and a restart with an intent waiting.
FeedDelivery == <<
    Arrange([audience |-> {"bad", "good"}, blocked |-> {"bad"}]),
    Ask("save", "", <<200, 1>>), Holds([posts |-> 1]), Includes([intents |-> {<<1, "bad">>}]),
    FeedsAre({}, {1}, {}), Until([failed |-> {<<1, "bad">>}]),
    Arrange([audience |-> {"good"}]), Includes([intents |-> {<<1, "bad">>}]),
    Arrange([blocked |-> {}]), Until([intents |-> {}]), FeedsAre({1}, {1}, {}),
    Arrange([trigger |-> "ack"]),
    Ask("save", "", <<200, 2>>), Includes([intents |-> {<<2, "good">>}]),
    Until([failed |-> {<<1, "bad">>, <<2, "good">>}]), Includes([intents |-> {<<2, "good">>}]),
    FeedsAre({1}, {1, 2}, {}),
    Ask("withdraw", 2, <<200>>), Includes([intents |-> {<<2, "good">>}]),
    Arrange([trigger |-> "none"]), Until([intents |-> {}]), FeedsAre({1}, {1, 2}, {}),
    Ask("read", 2, <<404>>),
    Arrange([audience |-> {"bad", "good"}, trigger |-> "intent"]), Ask("save", "", <<500>>),
    Arrange([trigger |-> "none"]), Holds([posts |-> 2, intents |-> {}]), FeedsAre({1}, {1, 2}, {}),
    Arrange([audience |-> {"late"}, blocked |-> {"late"}]),
    Ask("save", "", <<200, 3>>), Includes([intents |-> {<<3, "late">>}]),
    Arrange([up |-> FALSE]), Until([up |-> TRUE]), Includes([intents |-> {<<3, "late">>}]),
    Arrange([blocked |-> {}]), Until([intents |-> {}]), FeedsAre({1}, {1, 2}, {3}) >>

Publish4(key, id) == [i \in 1..4 |-> Ask("post", <<key, "body">>, <<200, id>>)]

\* A key is refused with its post and free again afterwards.
Refused(trigger, key, id) == <<
    Arrange([trigger |-> trigger]), Ask("post", <<key, "body">>, <<500>>),
    Arrange([trigger |-> "none"]), Holds([posts |-> id - 1, intents |-> {}]),
    FeedsAre({}, 1..(id - 1), {}),
    Ask("post", <<key, "body">>, <<200, id>>), Ask("post", <<key, "body">>, <<200, id>>),
    Until([intents |-> {}]) >>

\* One post per key, sent again, with another body, four times at once, and after
\* a refusal, a withdrawal and a restart.
PublicationRequests ==
    << Arrange([audience |-> {"good"}, blocked |-> {"good"}]) >>
    \o Publish4("key", 1)
    \o << Holds([posts |-> 1, intents |-> {<<1, "good">>}]),
          Ask("post", <<"key", "body">>, <<200, 1>>),
          Arrange([blocked |-> {}]), Until([intents |-> {}]), FeedsAre({}, {1}, {}),
          Ask("post", <<"KEY", "body">>, <<200, 2>>),
          Ask("save", "", <<200, 3>>), Ask("save", "", <<200, 4>>),
          Ask("post", <<"key", "other">>, <<409>>), Holds([posts |-> 4]), FeedsAre({}, 1..4, {}) >>
    \o Publish4("parallel", 5)
    \o << Holds([posts |-> 5]), FeedsAre({}, 1..5, {}), Until([intents |-> {}]) >>
    \o Refused("receipt", "rollback", 6)
    \o Refused("intent", "intent-rollback", 7)
    \o << Ask("post", <<"key", "body">>, <<200, 1>>), Ask("withdraw", 1, <<200>>),
          Arrange([up |-> FALSE]), Until([up |-> TRUE]),
          Ask("post", <<"key", "body">>, <<200, 1>>), Ask("read", 1, <<404>>),
          FeedsAre({}, 1..7, {}),
          Arrange([account |-> "disabled"]), Ask("post", <<"key", "body">>, <<401>>) >>

\* In the order of main.
Checks == <<FollowCommands, FeedCursors, FeedDelivery, PublicationRequests, SessionLogout,
            LoginCodes, LoginAccounts, SessionIssuer, LoginAttempts, SessionAuthentication>>
-----------------------------------------------------------------------------
ChecksInit == check = 1 /\ step = 1 /\ store = Fixture /\ denied = {}

Respond(ask) ==
    CASE ask.route = "login" -> Login(store, denied, ask.with)
      [] ask.route = "code" -> SendCode(store, denied)
      [] ask.route = "me" -> Me(store, denied, ask.with)
      [] ask.route = "public" -> Public(store, denied, ask.with)
      [] ask.route = "logout" -> Logout(store, denied, ask.with)
      [] ask.route = "renew" -> Renew(store, denied, ask.with)
      [] ask.route = "publish" -> Publish(store, denied, ask.with)
      [] ask.route = "follow" -> FollowRoute(store, denied)
      [] ask.route = "unfollow" -> UnfollowRoute(store, denied)
      [] ask.route = "page" -> FeedPage(store, ask.with[1], ask.with[2])
      [] ask.route = "withdraw" -> WithdrawOwn(store, ask.with)
      [] ask.route = "read" -> ReadPost(store, ask.with)
      [] ask.route = "save" -> SavePost(store)
      [] ask.route = "post" ->
            IF store.account = "active" THEN PublishOnce(store, ask.with[1], ask.with[2])
            ELSE Reply(<<401>>, store)

Current == Checks[check][step]
InCheck == Running("acceptance") /\ check <= Len(Checks)
At(kind) == InCheck /\ step <= Len(Checks[check]) /\ Current.kind = kind
Fields(fields) == [f \in DOMAIN store |-> IF f \in DOMAIN fields THEN fields[f] ELSE store[f]]

\* The next step, or the next check with an account of its own.
GoesOn == UNCHANGED <<check, verdict>> /\ step' = step + 1

\* The finally clauses of the steps an exception leaves.
Lifted == denied' = {}

ArrangeStep ==
    /\ At("arrange")
    /\ store' = Fields(Current.fields)
    /\ GoesOn /\ Calm /\ UNCHANGED <<denied, script>>

AskStep ==
    /\ At("ask")
    /\ store' = Respond(Current).store
    /\ IF Respond(Current).status = Current.status THEN GoesOn /\ UNCHANGED denied
       ELSE Contradicted /\ Lifted /\ UNCHANGED <<check, step>>
    /\ Calm /\ UNCHANGED script

AsExpected ==
    \A f \in DOMAIN Current.fields :
        IF Current.kind = "includes" THEN Current.fields[f] \subseteq store[f]
        ELSE store[f] = Current.fields[f]

HoldsStep ==
    /\ At("holds") \/ At("includes")
    /\ IF AsExpected
       THEN GoesOn /\ UNCHANGED denied
       ELSE Contradicted /\ Lifted /\ UNCHANGED <<check, step>>
    /\ Calm /\ UNCHANGED <<store, script>>

DenyStep ==
    /\ At("deny")
    /\ denied' = denied \cup Current.commands
    /\ GoesOn /\ Calm /\ UNCHANGED <<store, script>>

AllowStep ==
    /\ At("allow")
    /\ denied' = denied \ Current.commands
    /\ GoesOn /\ Calm /\ UNCHANGED <<store, script>>

\* wait_until, wait_ready
UntilStep ==
    /\ At("until") /\ AsExpected
    /\ GoesOn /\ Calm /\ UNCHANGED <<store, denied, script>>

CheckTimesOut ==
    /\ At("until") /\ ~AsExpected
    /\ Raised /\ Calm /\ UNCHANGED <<script, checkVars>>

NextCheck ==
    /\ InCheck /\ step = Len(Checks[check]) + 1
    /\ check' = check + 1 /\ step' = 1
    /\ store' = Fixture
    /\ verdict' = IF check = Len(Checks) THEN "passed" ELSE "running"
    /\ Calm /\ UNCHANGED <<denied, script>>

\* A request times out or a command fails, with or without its effect.
CallFails ==
    /\ Running("acceptance") /\ Mishap
    /\ Raised /\ Lifted
    /\ UNCHANGED <<check, step, store, script>>

\* The script is slow and a TTL it arranged runs out.
ChecksTtlEnds ==
    /\ Running("acceptance") /\ Mishap
    /\ \/ store.code /\ store' = [store EXCEPT !.code = FALSE]
       \/ store.cooldown /\ store' = [store EXCEPT !.cooldown = FALSE]
       \/ /\ store.failureTtl # "none"
          /\ store' = [store EXCEPT !.failures = 0, !.failureTtl = "none"]
    /\ UNCHANGED <<check, step, denied, script, verdict>>

\* recoverPending, every five seconds, and the end of docker compose restart.
WorkerRecovers ==
    /\ InCheck /\ store.up
    /\ \E i \in store.intents : store' = Recovered(store, i)
    /\ Calm /\ UNCHANGED <<check, step, denied, script, verdict>>

AppBoots ==
    /\ InCheck /\ ~store.up
    /\ store' = [store EXCEPT !.up = TRUE]
    /\ Calm /\ UNCHANGED <<check, step, denied, script, verdict>>

ChecksStep ==
    ArrangeStep \/ AskStep \/ HoldsStep \/ UntilStep \/ DenyStep \/ AllowStep \/ NextCheck \/ CallFails
=============================================================================
