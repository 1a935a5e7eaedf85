--------------------------- MODULE DeniedCommands ----------------------------
(***************************************************************************)
(* The handlers of SyntheticApp under any sequence of requests, refused    *)
(* commands and elapsed TTLs, where the acceptance checks of               *)
(* verify-compose.py try a few: what a refused Redis command may leave     *)
(* behind of a login code, a failure counter and a session.                *)
(***************************************************************************)
EXTENDS SyntheticApp

VARIABLES
    account,        \* the store of one phone number
    refused,        \* commands Redis refuses at the moment
    uncounted       \* history: the counter's first EXPIRE was refused

deniedVars == <<account, refused, uncounted>>

DeniedInit ==
    /\ account \in {[EmptyStore EXCEPT !.account = a] : a \in {"active", "none", "disabled"}}
    /\ refused = {}
    /\ uncounted = FALSE

\* ACL SETUSER default -<command>, and +<command>.
Deny(c) == refused' = refused \cup {c} /\ UNCHANGED <<account, uncounted>>
Allow(c) == refused' = refused \ {c} /\ UNCHANGED <<account, uncounted>>

\* The response of a handler is not needed here, only what it leaves behind.
Handles(answer) == account' = answer.store

Counts(answer) ==
    uncounted' = ((uncounted \/ (account.failures = 0 /\ "expire" \in refused))
                  /\ answer.store.failures > 0)

TryLogin(guess) ==
    /\ FreeTokens(account) # {}
    /\ Handles(Login(account, refused, guess))
    /\ Counts(Login(account, refused, guess))
    /\ UNCHANGED refused

\* Permissions change while a login is between the code and the session.
PublishLate ==
    /\ FreeTokens(account) # {} /\ account.account = "active"
    /\ Handles(Publish(account, refused, NextToken(account)))
    /\ UNCHANGED <<refused, uncounted>>

AskCode == Handles(SendCode(account, refused)) /\ UNCHANGED <<refused, uncounted>>

Present(t) ==
    /\ Handles(Me(account, refused, t)) \/ Handles(Logout(account, refused, t))
    /\ UNCHANGED <<refused, uncounted>>

\* Every TTL runs out; keys without one stay.
Elapse(field, value) == account' = [account EXCEPT ![field] = value] /\ UNCHANGED refused

TtlEnds ==
    \/ account.code /\ Elapse("code", FALSE) /\ UNCHANGED uncounted
    \/ account.cooldown /\ Elapse("cooldown", FALSE) /\ UNCHANGED uncounted
    \/ /\ account.failureTtl # "none"
       /\ account' = [account EXCEPT !.failures = 0, !.failureTtl = "none"]
       /\ uncounted' = FALSE /\ UNCHANGED refused
    \/ \E t \in Tokens :
        /\ account.sessions[t].ttl # "none"
        /\ account' = [account EXCEPT !.sessions[t] = NoSession]
        /\ UNCHANGED <<refused, uncounted>>

DeniedNext ==
    \/ \E c \in Commands : Deny(c) \/ Allow(c)
    \/ \E guess \in {"right", "wrong", "missing"} : TryLogin(guess)
    \/ AskCode \/ PublishLate
    \/ \E t \in Tokens : Present(t)
    \/ TtlEnds

DeniedSpec == DeniedInit /\ [][DeniedNext]_deniedVars
-----------------------------------------------------------------------------
DeniedTypeOK ==
    /\ account.failures \in 0..FailureLimit
    /\ account.failureTtl \in Ttl
    /\ account.sessions \in [Tokens -> [id : {"absent", "blank", "own"}, ttl : Ttl]]
    /\ refused \subseteq Commands

\* Whatever commands were refused before and between: a counter that never
\* expires, and so a phone locked until somebody repairs it, comes only from a
\* first EXPIRE that was refused; and an identity always has a TTL.
RefusalsAreContained ==
    /\ DeniedTypeOK
    /\ account.failures > 0 /\ account.failureTtl = "none" => uncounted
    /\ \A t \in Tokens : account.sessions[t].id = "own" => account.sessions[t].ttl # "none"
=============================================================================
