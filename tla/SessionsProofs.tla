---------------------------- MODULE SessionsProofs ----------------------------
(***************************************************************************)
(* Proofs about Sessions, for any number of login and request threads, any *)
(* failure limit and any number of codes, sessions and faults.             *)
(***************************************************************************)
EXTENDS Sessions, FiniteSetTheorems, TLAPS

USE SessionsAssumption DEF SessionsAssumption

LoginState == [at : {"idle", "checked", "wrong", "consumed", "unknown",
                     "known", "issued", "cleared"},
               code : 0..MaxCodes, id : Nat]

RequestState == [at : {"idle", "read", "active", "authorized", "in"},
                 token : 0..MaxTokens, id : Nat]

SessionState == [kind : {"none", "placeholder", "full"}, id : Nat, ttl : BOOLEAN]

\* What types alone do not say: every id a login works with was drawn, and a
\* login that found or made an account has a real one.
Named == {"known", "issued", "cleared"}

IdsInv ==
    \A p \in Logins : /\ login[p].id <= lastId
                      /\ login[p].at \in Named => login[p].id # 0

TypeInv == TypeOK /\ IdsInv

LEMMA States ==
    TypeOK => /\ login \in [Logins -> LoginState]
              /\ request \in [Requests -> RequestState]
              /\ session \in [Tokens -> SessionState]
BY DEF TypeOK, LoginState, RequestState, SessionState

LEMMA TypeInit == Init => TypeInv
<1> SUFFICES ASSUME Init PROVE TypeInv
    OBVIOUS
<1>1. inserter = {} /\ Cardinality(inserter) = 0
    BY FS_EmptySet DEF Init
<1>2. session \in [Tokens -> [kind : {"none", "placeholder", "full"}, id : Nat, ttl : BOOLEAN]]
    BY DEF Init, NoSession
<1>3. drawn \in Tokens
    BY DEF Init, LegacyToken, Tokens
<1>4. /\ login \in [Logins -> [at : {"idle", "checked", "wrong", "consumed", "unknown",
                                    "known", "issued", "cleared"},
                              code : 0..MaxCodes, id : Nat]]
      /\ \A p \in Logins : login[p].id = 0 /\ login[p].at = "idle"
    BY DEF Init, Idle
<1>5. request \in [Requests -> [at : {"idle", "read", "active", "authorized", "in"},
                               token : 0..MaxTokens, id : Nat]]
    BY DEF Init, NotIn
<1>6. bought \in [Codes -> SUBSET Tokens]
    BY DEF Init
<1>7. /\ code \in 0..MaxCodes /\ sent \in 0..MaxCodes
      /\ failures \in Nat /\ guesses \in Nat
      /\ account \in Nat /\ lastId \in Nat /\ account <= lastId /\ faults \in 0..MaxFaults
    <2>1. /\ code = 0 /\ sent = 0 /\ failures = 0 /\ guesses = 0
          /\ account \in {0, 1} /\ lastId = account /\ faults = 0
        BY DEF Init
    <2> QED BY <2>1
<1>8. cooldown \in BOOLEAN /\ expires \in BOOLEAN /\ active \in BOOLEAN /\ roles \in BOOLEAN
    BY DEF Init
<1>9. TypeOK
    BY <1>1, <1>2, <1>3, <1>4, <1>5, <1>6, <1>7, <1>8 DEF TypeOK
<1> QED BY <1>4, <1>7, <1>9 DEF TypeInv, IdsInv, Named, Init

\* A login that moves on, alone.
LEMMA LoginMoves ==
    ASSUME TypeInv, NEW p \in Logins, NEW l \in LoginState, login' = [login EXCEPT ![p] = l],
           lastId \in Nat, lastId' \in Nat, lastId <= lastId', l.id <= lastId',
           l.at \in Named => l.id # 0
    PROVE  login' \in [Logins -> LoginState] /\ IdsInv'
BY States DEF TypeInv, IdsInv, LoginState, TypeOK

\* The two ways a login moves: to the next point, or out.
LEMMA LoginGoes ==
    ASSUME TypeInv, NEW p \in Logins, UNCHANGED lastId,
           \/ Fail(p)
           \/ \E where \in {"wrong", "consumed", "unknown"} : Go(p, where)
           \/ login[p].at \in Named /\ \E where \in Named : Go(p, where)
    PROVE  login' \in [Logins -> LoginState] /\ IdsInv'
<1>1. /\ login \in [Logins -> LoginState] /\ login[p] \in LoginState
      /\ lastId \in Nat /\ lastId' \in Nat /\ lastId <= lastId' /\ lastId' = lastId
      /\ login[p].id <= lastId
      /\ login[p].at \in Named => login[p].id # 0
    BY States DEF TypeInv, IdsInv, TypeOK
<1>2. CASE Fail(p)
    <2>1. Idle \in LoginState /\ Idle.id = 0 /\ Idle.at \notin Named
        BY DEF Idle, LoginState, Named
    <2>2. login' = [login EXCEPT ![p] = Idle]
        BY <1>2 DEF Fail
    <2>3. Idle.id <= lastId' /\ (Idle.at \in Named => Idle.id # 0)
        BY <1>1, <2>1
    <2> QED BY <1>1, <2>1, <2>2, <2>3, LoginMoves
<1>3. ASSUME NEW where \in {"wrong", "consumed", "unknown"} \cup Named, Go(p, where),
             where \in Named => login[p].at \in Named
      PROVE  login' \in [Logins -> LoginState] /\ IdsInv'
    <2> DEFINE l == [login[p] EXCEPT !.at = where]
    <2>1. l \in LoginState /\ l.id = login[p].id /\ l.at = where
        BY <1>1, <1>3 DEF LoginState, Named
    <2>2. login' = [login EXCEPT ![p] = l]
        BY <1>3 DEF Go
    <2> HIDE DEF l
    <2>3. l.id <= lastId' /\ (l.at \in Named => l.id # 0)
        BY <1>1, <1>3, <2>1
    <2> QED BY <1>1, <2>1, <2>2, <2>3, LoginMoves
<1> QED BY <1>2, <1>3 DEF Named
-----------------------------------------------------------------------------
(* The type invariant, one group of variables after the other.             *)

CodeOK == code \in 0..MaxCodes /\ sent \in 0..MaxCodes /\ cooldown \in BOOLEAN
CounterOK == failures \in Nat /\ expires \in BOOLEAN /\ guesses \in Nat
RowOK ==
    /\ account \in Nat /\ lastId \in Nat /\ account <= lastId
    /\ inserter \subseteq Logins /\ Cardinality(inserter) <= 1
    /\ inserter # {} => account = 0
StoreOK ==
    /\ session \in [Tokens -> SessionState]
    /\ drawn \in Tokens
    /\ bought \in [Codes -> SUBSET Tokens]
StatusOK == active \in BOOLEAN /\ roles \in BOOLEAN

LEMMA TypeParts ==
    /\ TypeOK <=> /\ CodeOK /\ CounterOK /\ RowOK /\ StatusOK /\ StoreOK
                  /\ login \in [Logins -> LoginState] /\ request \in [Requests -> RequestState]
                  /\ faults \in 0..MaxFaults
BY DEF TypeOK, CodeOK, CounterOK, RowOK, StatusOK, StoreOK, LoginState, RequestState, SessionState

LEMMA CodeType == TypeInv /\ [Next]_vars => CodeOK'
<1> SUFFICES ASSUME TypeInv, [Next]_vars PROVE CodeOK'
    OBVIOUS
<1>0. CodeOK
    BY TypeParts DEF TypeInv
<1>1. CASE SendCode
    <2>1. code' \in 0..MaxCodes /\ sent' \in 0..MaxCodes
        BY <1>0, <1>1 DEF SendCode, CodeOK
    <2>2. cooldown' \in BOOLEAN
        BY <1>1 DEF SendCode
    <2> QED BY <2>1, <2>2 DEF CodeOK
<1>2. CASE CooldownEnds \/ CodeExpires \/ \E p \in Logins : Consume(p)
    <2>1. code' \in 0..MaxCodes /\ sent' \in 0..MaxCodes
        BY <1>0, <1>2 DEF CooldownEnds, CodeExpires, Consume, ConsumeCode, CodeOK
    <2>2. cooldown' \in BOOLEAN
        BY <1>0, <1>2 DEF CooldownEnds, CodeExpires, Consume, CodeOK
    <2> QED BY <2>1, <2>2 DEF CodeOK
<1>3. CASE UNCHANGED codeVars
    BY <1>0, <1>3 DEF codeVars, CodeOK
<1> QED BY <1>1, <1>2, <1>3
        DEF Next, LoginStep, RequestStep, vars, CounterExpires, SessionExpires, Administer,
            Begin, RecordFailure, NoCodeGiven, FindAccount, CreateAccount, Issue, ClearFailures,
            Commit, LoginDies, Read, CheckAccount, CheckRoles, Renew, Handle, RequestFails

LEMMA CounterType == TypeInv /\ [Next]_vars => CounterOK'
<1> SUFFICES ASSUME TypeInv, [Next]_vars PROVE CounterOK'
    OBVIOUS
<1>0. CounterOK
    BY TypeParts DEF TypeInv
<1>1. ASSUME NEW p \in Logins, Consume(p) PROVE CounterOK'
    BY <1>0, <1>1 DEF Consume, CounterOK
<1>2. ASSUME NEW p \in Logins, RecordFailure(p) PROVE CounterOK'
    <2>1. failures' \in Nat /\ guesses' \in Nat
        BY <1>0, <1>2 DEF RecordFailure, Increment, CounterOK
    <2>2. expires' \in BOOLEAN
        BY <1>0, <1>2 DEF RecordFailure, CounterOK
    <2> QED BY <2>1, <2>2 DEF CounterOK
<1>3. CASE CounterExpires \/ \E p \in Logins : ClearFailures(p)
    <2>1. failures' \in Nat /\ guesses' \in Nat
        BY <1>0, <1>3 DEF CounterExpires, ClearFailures, CounterOK
    <2>2. expires' \in BOOLEAN
        BY <1>0, <1>3 DEF CounterExpires, ClearFailures, CounterOK
    <2> QED BY <2>1, <2>2 DEF CounterOK
<1>4. CASE UNCHANGED counterVars
    BY <1>0, <1>4 DEF counterVars, CounterOK
<1> QED BY <1>1, <1>2, <1>3, <1>4
        DEF Next, LoginStep, RequestStep, vars, SendCode, CooldownEnds, CodeExpires,
            SessionExpires, Administer, Begin, NoCodeGiven, FindAccount, CreateAccount, Issue,
            Commit, LoginDies, Read, CheckAccount, CheckRoles, Renew, Handle, RequestFails

\* A row that is rolled back leaves no inserter behind, nor does one committed.
LEMMA InserterLeaves ==
    ASSUME RowOK, NEW p \in Logins, inserter' = inserter \ {p}
    PROVE  /\ inserter' \subseteq Logins /\ Cardinality(inserter') <= 1
           /\ inserter' # {} => inserter # {}
           /\ p \in inserter => inserter' = {} /\ account = 0
<1>1. IsFiniteSet(inserter) /\ Cardinality(inserter) \in Nat
    BY FS_Subset, FS_CardinalityType DEF RowOK
<1>2. Cardinality(inserter') <= Cardinality(inserter) /\ Cardinality(inserter') \in Nat
    BY <1>1, FS_Subset, FS_CardinalityType
<1>3. p \in inserter => Cardinality(inserter') = 0 /\ IsFiniteSet(inserter')
    BY <1>1, <1>2, FS_RemoveElement, FS_Subset DEF RowOK
<1> QED BY <1>1, <1>2, <1>3, FS_EmptySet DEF RowOK

LEMMA RowType == TypeInv /\ [Next]_vars => RowOK'
<1> SUFFICES ASSUME TypeInv, [Next]_vars PROVE RowOK'
    OBVIOUS
<1>0. /\ RowOK /\ login \in [Logins -> LoginState]
      /\ \A p \in Logins : login[p].id \in Nat /\ login[p].id <= lastId
    BY TypeParts DEF TypeInv, IdsInv, LoginState
<1>1. ASSUME NEW p \in Logins, Fail(p), UNCHANGED <<account, lastId>> PROVE RowOK'
    BY <1>0, <1>1, InserterLeaves DEF Fail, RowOK
<1>2. ASSUME NEW p \in Logins, Commit(p) PROVE RowOK'
    <2>1. /\ inserter' = inserter \ {p} /\ lastId' = lastId
          /\ account' = account \/ (p \in inserter /\ account' = login[p].id)
        BY <1>2 DEF Commit, Fail
    <2> QED BY <1>0, <2>1, InserterLeaves DEF RowOK
<1>3. ASSUME NEW p \in Logins, CreateAccount(p) PROVE RowOK'
    <2>1. CASE inserter' = inserter \cup {p} /\ account = 0
        <3>1. inserter = {} /\ lastId' = lastId + 1 /\ account' = account
            BY <1>3, <2>1 DEF CreateAccount, NobodyInserts, Fail
        <3>2. inserter' = {p} /\ Cardinality({p}) = 1
            BY <2>1, <3>1, FS_Singleton
        <3> QED BY <1>0, <2>1, <3>1, <3>2 DEF RowOK
    <2>2. CASE Fail(p) /\ UNCHANGED lastId
        BY <1>1, <1>3, <2>2 DEF CreateAccount
    <2> QED BY <1>3, <2>1, <2>2 DEF CreateAccount
<1>4. CASE UNCHANGED <<account, lastId, inserter>>
    BY <1>0, <1>4 DEF RowOK
<1>5. ASSUME NEW p \in Logins,
             \/ Consume(p) \/ RecordFailure(p) \/ FindAccount(p) \/ Issue(p)
             \/ ClearFailures(p) \/ LoginDies(p)
      PROVE  RowOK'
    BY <1>1, <1>4, <1>5 DEF Consume, RecordFailure, FindAccount, Issue, ClearFailures, LoginDies
<1> QED BY <1>2, <1>3, <1>4, <1>5
        DEF Next, LoginStep, RequestStep, vars, accountVars, SendCode, CooldownEnds, CodeExpires,
            CounterExpires, SessionExpires, Administer, Begin, NoCodeGiven, Read, CheckAccount,
            CheckRoles, Renew, Handle, RequestFails

LEMMA StatusType == TypeInv /\ [Next]_vars => StatusOK'
<1> SUFFICES ASSUME TypeInv, [Next]_vars PROVE StatusOK'
    OBVIOUS
<1>0. StatusOK
    BY TypeParts DEF TypeInv
<1>1. CASE Administer
    BY <1>0, <1>1 DEF Administer, StatusOK
<1>2. CASE UNCHANGED <<active, roles>>
    BY <1>0, <1>2 DEF StatusOK
<1> QED BY <1>1, <1>2
        DEF Next, LoginStep, RequestStep, vars, accountVars, SendCode, CooldownEnds, CodeExpires,
            CounterExpires, SessionExpires, Begin, Consume, RecordFailure, NoCodeGiven,
            FindAccount, CreateAccount, Issue, ClearFailures, Commit, LoginDies, Read,
            CheckAccount, CheckRoles, Renew, Handle, RequestFails

LEMMA StoreType == TypeInv /\ [Next]_vars => StoreOK'
<1> SUFFICES ASSUME TypeInv, [Next]_vars PROVE StoreOK'
    OBVIOUS
<1>0. StoreOK /\ login \in [Logins -> LoginState]
    BY TypeParts DEF TypeInv
<1>1. ASSUME NEW p \in Logins, Issue(p) PROVE StoreOK'
    <2>1. drawn + 1 \in Tokens /\ drawn' = drawn + 1
        BY <1>0, <1>1 DEF Issue, StoreOK, Tokens
    <2>2. bought' \in [Codes -> SUBSET Tokens]
        BY <1>0, <1>1, <2>1 DEF Issue, StoreOK
    <2>3. PICK s : session' = [session EXCEPT ![drawn + 1] = s] /\
                   s \in Leftovers(login[p].id)
        BY <1>1 DEF Issue, Leftovers
    <2>4. s \in SessionState
        <3>1. login[p].id \in Nat
            BY <1>0 DEF LoginState
        <3>2. NoSession \in SessionState
            BY DEF NoSession, SessionState
        <3>3. [kind |-> "full", id |-> login[p].id, ttl |-> TRUE] \in SessionState
            BY <3>1 DEF SessionState
        <3>4. [kind : {"placeholder"}, id : {0}, ttl : BOOLEAN] \subseteq SessionState
            BY DEF SessionState
        <3> QED BY <2>3, <3>2, <3>3, <3>4 DEF Leftovers
    <2> QED BY <1>0, <2>1, <2>2, <2>3, <2>4 DEF StoreOK
<1>2. ASSUME NEW t, Delete(t) \/ UNCHANGED session, UNCHANGED <<drawn, bought>> PROVE StoreOK'
    <2>1. NoSession \in SessionState
        BY DEF NoSession, SessionState
    <2> QED BY <1>0, <1>2, <2>1 DEF StoreOK, Delete
<1>3. ASSUME NEW q \in Requests, RequestStep(q) PROVE StoreOK'
    BY <1>2, <1>3 DEF RequestStep, Read, CheckAccount, CheckRoles, Renew, Handle, RequestFails,
                      sessionVars
<1>4. ASSUME NEW t \in Tokens, SessionExpires(t) PROVE StoreOK'
    BY <1>2, <1>4 DEF SessionExpires
<1>5. CASE UNCHANGED sessionVars
    BY <1>2, <1>5 DEF sessionVars
<1> QED BY <1>1, <1>3, <1>4, <1>5
        DEF Next, LoginStep, vars, SendCode, CooldownEnds, CodeExpires, CounterExpires,
            Administer, Begin, Consume, RecordFailure, NoCodeGiven, FindAccount, CreateAccount,
            ClearFailures, Commit, LoginDies

LEMMA LoginType == TypeInv /\ [Next]_vars => login' \in [Logins -> LoginState] /\ IdsInv'
<1> SUFFICES ASSUME TypeInv, [Next]_vars
             PROVE  login' \in [Logins -> LoginState] /\ IdsInv'
    OBVIOUS
<1>0. /\ RowOK /\ CodeOK /\ login \in [Logins -> LoginState]
      /\ lastId \in Nat
    BY TypeParts DEF TypeInv, RowOK
<1>1. ASSUME NEW p \in Logins, NEW guess \in 0..sent, Begin(p, guess)
      PROVE  login' \in [Logins -> LoginState] /\ IdsInv'
    <2> DEFINE l == [at |-> "checked", code |-> guess, id |-> 0]
    <2>1. l \in LoginState /\ l.id = 0 /\ l.at \notin Named
        BY <1>0 DEF LoginState, CodeOK, Named
    <2>2. login' = [login EXCEPT ![p] = l] /\ lastId' = lastId
        BY <1>1 DEF Begin, accountVars
    <2> HIDE DEF l
    <2>3. /\ l.id <= lastId' /\ (l.at \in Named => l.id # 0)
          /\ lastId' \in Nat /\ lastId <= lastId'
        BY <1>0, <2>1, <2>2
    <2> QED BY <1>0, <2>1, <2>2, <2>3, LoginMoves
<1>2. ASSUME NEW p \in Logins, NEW id \in Nat, id # 0, id <= lastId', lastId' \in Nat,
             lastId <= lastId',
             login' = [login EXCEPT ![p].at = "known", ![p].id = id]
      PROVE  login' \in [Logins -> LoginState] /\ IdsInv'
    <2> DEFINE l == [login[p] EXCEPT !.at = "known", !.id = id]
    <2>1. l \in LoginState /\ l.id = id
        BY <1>0, <1>2 DEF LoginState
    <2>2. login' = [login EXCEPT ![p] = l]
        BY <1>0, <1>2
    <2> HIDE DEF l
    <2>3. l.id <= lastId' /\ (l.at \in Named => l.id # 0)
        BY <1>2, <2>1
    <2> QED BY <1>0, <1>2, <2>1, <2>2, <2>3, LoginMoves
<1>3. ASSUME NEW p \in Logins, FindAccount(p)
      PROVE  login' \in [Logins -> LoginState] /\ IdsInv'
    <2>1. lastId' = lastId
        BY <1>3 DEF FindAccount
    <2>2. CASE account # 0 /\ login' = [login EXCEPT ![p].at = "known", ![p].id = account]
        <3>1. account \in Nat /\ account <= lastId' /\ lastId' \in Nat /\ lastId <= lastId'
            BY <1>0, <2>1 DEF RowOK
        <3> QED BY <1>2, <2>2, <3>1
    <2> QED BY <1>3, <2>1, <2>2, LoginGoes DEF FindAccount
<1>4. ASSUME NEW p \in Logins, CreateAccount(p)
      PROVE  login' \in [Logins -> LoginState] /\ IdsInv'
    <2>1. CASE /\ lastId' = lastId + 1
               /\ login' = [login EXCEPT ![p].at = "known", ![p].id = lastId + 1]
        <3>1. /\ lastId + 1 \in Nat /\ lastId + 1 # 0 /\ lastId + 1 <= lastId'
              /\ lastId' \in Nat /\ lastId <= lastId'
            BY <1>0, <2>1
        <3> QED BY <1>2, <2>1, <3>1
    <2> QED BY <1>4, <2>1, LoginGoes DEF CreateAccount
<1>5. ASSUME NEW p \in Logins,
             \/ Consume(p) \/ NoCodeGiven(p) \/ RecordFailure(p) \/ Issue(p)
             \/ ClearFailures(p) \/ Commit(p) \/ LoginDies(p)
      PROVE  login' \in [Logins -> LoginState] /\ IdsInv'
    <2>1. lastId' = lastId
        BY <1>5 DEF Consume, NoCodeGiven, RecordFailure, Issue, ClearFailures, Commit, LoginDies,
                    accountVars
    <2>2. \/ Fail(p)
          \/ \E where \in {"wrong", "consumed", "unknown"} : Go(p, where)
          \/ login[p].at \in Named /\ \E where \in Named : Go(p, where)
        <3>1. CASE Consume(p)
            BY <3>1 DEF Consume
        <3>2. CASE NoCodeGiven(p)
            BY <3>2 DEF NoCodeGiven
        <3>3. CASE Issue(p) \/ ClearFailures(p)
            BY <3>3 DEF Issue, ClearFailures, Named
        <3>4. CASE RecordFailure(p) \/ Commit(p) \/ LoginDies(p)
            BY <3>4 DEF RecordFailure, Commit, LoginDies
        <3> QED BY <1>5, <3>1, <3>2, <3>3, <3>4
    <2> QED BY <2>1, <2>2, LoginGoes
<1>6. CASE UNCHANGED <<login, lastId>>
    BY <1>0, <1>6 DEF TypeInv, IdsInv
<1> QED BY <1>1, <1>3, <1>4, <1>5, <1>6
        DEF Next, LoginStep, RequestStep, vars, accountVars, SendCode, CooldownEnds, CodeExpires,
            CounterExpires, SessionExpires, Administer, Read, CheckAccount, CheckRoles, Renew,
            Handle, RequestFails

LEMMA RequestType == TypeInv /\ [Next]_vars => request' \in [Requests -> RequestState]
<1> SUFFICES ASSUME TypeInv, [Next]_vars PROVE request' \in [Requests -> RequestState]
    OBVIOUS
<1>0. request \in [Requests -> RequestState] /\ session \in [Tokens -> SessionState]
    BY TypeParts DEF TypeInv, StoreOK
<1>1. ASSUME NEW q \in Requests, Leave(q) PROVE request' \in [Requests -> RequestState]
    <2>1. NotIn \in RequestState
        BY DEF NotIn, RequestState
    <2> QED BY <1>0, <1>1, <2>1 DEF Leave
<1>2. ASSUME NEW q \in Requests, NEW t \in Tokens, Read(q, t)
      PROVE  request' \in [Requests -> RequestState]
    <2>1. [at |-> "read", token |-> t, id |-> session[t].id] \in RequestState
        BY <1>0 DEF RequestState, SessionState, Tokens
    <2> QED BY <1>0, <1>2, <2>1 DEF Read
<1>3. ASSUME NEW q \in Requests, NEW where \in {"active", "authorized", "in"},
             request' = [request EXCEPT ![q].at = where]
      PROVE  request' \in [Requests -> RequestState]
    BY <1>0, <1>3 DEF RequestState
<1>4. ASSUME NEW q \in Requests, RequestStep(q) PROVE request' \in [Requests -> RequestState]
    <2>1. CASE CheckAccount(q) \/ CheckRoles(q) \/ Renew(q)
        BY <1>1, <1>3, <2>1 DEF CheckAccount, CheckRoles, Renew
    <2>2. CASE Handle(q) \/ RequestFails(q)
        BY <1>1, <2>2 DEF Handle, RequestFails
    <2> QED BY <1>2, <1>4, <2>1, <2>2 DEF RequestStep
<1>5. CASE UNCHANGED request
    BY <1>0, <1>5
<1> QED BY <1>4, <1>5
        DEF Next, LoginStep, vars, SendCode, CooldownEnds, CodeExpires, CounterExpires,
            SessionExpires, Administer, Begin, Consume, RecordFailure, NoCodeGiven, FindAccount,
            CreateAccount, Issue, ClearFailures, Commit, LoginDies

\* Nobody but a disturbance counts faults, and only up to the bound.
LEMMA FaultsType == TypeInv /\ [Next]_vars => faults' \in 0..MaxFaults /\ faults' >= faults
<1> SUFFICES ASSUME TypeInv, [Next]_vars PROVE faults' \in 0..MaxFaults /\ faults' >= faults
    OBVIOUS
<1>1. faults \in 0..MaxFaults
    BY TypeParts DEF TypeInv
<1>2. CASE Disturb
    BY <1>1, <1>2 DEF Disturb
<1>3. CASE UNCHANGED faults
    BY <1>1, <1>3
<1> QED BY <1>2, <1>3
        DEF Next, LoginStep, RequestStep, vars, Calm, SendCode, CooldownEnds, CodeExpires,
            CounterExpires, SessionExpires, Administer, Begin, Consume, RecordFailure,
            NoCodeGiven, FindAccount, CreateAccount, Issue, ClearFailures, Commit, LoginDies,
            Read, CheckAccount, CheckRoles, Renew, Handle, RequestFails

LEMMA TypeStep == TypeInv /\ [Next]_vars => TypeInv'
<1> SUFFICES ASSUME TypeInv, [Next]_vars PROVE TypeInv'
    OBVIOUS
<1>1. CodeOK' /\ CounterOK' /\ RowOK' /\ StatusOK' /\ StoreOK'
    BY CodeType, CounterType, RowType, StatusType, StoreType
<1>2. login' \in [Logins -> LoginState] /\ request' \in [Requests -> RequestState] /\ IdsInv'
    BY LoginType, RequestType
<1>3. faults' \in 0..MaxFaults
    BY FaultsType
<1>4. TypeOK'
    BY <1>1, <1>2, <1>3
       DEF TypeOK, CodeOK, CounterOK, RowOK, StatusOK, StoreOK, LoginState, RequestState,
           SessionState
<1> QED BY <1>2, <1>4 DEF TypeInv
-----------------------------------------------------------------------------
(* A code is one of three things: still to be consumed, in the hands of    *)
(* one login, or exchanged.                                                *)

Spending(p) == login[p].at \in {"consumed", "unknown", "known"}

CodeInv ==
    /\ code <= sent
    /\ \A p \in Logins : login[p].code <= sent
    /\ \A c \in Codes : c > sent => bought[c] = {}
    /\ \A p \in Logins : Spending(p) =>
          login[p].code \notin {0, code} /\ bought[login[p].code] = {}
    /\ \A p, q \in Logins : Spending(p) /\ Spending(q) /\ login[p].code = login[q].code => p = q
    /\ code # 0 => bought[code] = {}
    /\ \A c \in Codes : \A s, t \in bought[c] : s = t

LEMMA CodeInit == Init => CodeInv
BY DEF Init, CodeInv, Idle, Spending, Codes

\* Who draws no code, consumes none and issues nothing.
LEMMA CodeKept ==
    ASSUME TypeInv, CodeInv, UNCHANGED <<sent, bought>>, code' \in {0, code},
           \A p \in Logins : /\ login'[p].code <= sent
                             /\ Spending(p)' => Spending(p) /\ login'[p].code = login[p].code
    PROVE  CodeInv'
<1>1. CodeOK
    BY TypeParts DEF TypeInv
<1> QED BY <1>1 DEF CodeInv, CodeOK

LEMMA CodeStep == TypeInv /\ CodeInv /\ [Next]_vars => CodeInv'
<1> SUFFICES ASSUME TypeInv, CodeInv, [Next]_vars PROVE CodeInv'
    OBVIOUS
<1>0. /\ login \in [Logins -> LoginState] /\ bought \in [Codes -> SUBSET Tokens]
      /\ code \in Nat /\ sent \in Nat /\ sent <= MaxCodes
      /\ \A p \in Logins : login[p].code \in Nat /\ login[p].code <= MaxCodes
    BY TypeParts DEF TypeInv, CodeOK, StoreOK, LoginState
<1>1. ASSUME UNCHANGED login, UNCHANGED <<sent, bought>>, code' \in {0, code} PROVE CodeInv'
    BY <1>1, CodeKept DEF CodeInv, Spending
<1>2. CASE SendCode
    <2>1. /\ sent' = sent + 1 /\ sent' \in Codes /\ code' \in {code, sent + 1}
          /\ UNCHANGED <<login, bought>>
        BY <1>0, <1>2 DEF SendCode, sessionVars, Codes
    <2>2. bought[sent + 1] = {}
        BY <1>0, <2>1 DEF CodeInv
    <2> QED BY <1>0, <2>1, <2>2 DEF CodeInv, Spending, Codes
<1>3. ASSUME NEW p \in Logins, NEW l \in LoginState, login' = [login EXCEPT ![p] = l],
             UNCHANGED <<sent, bought>>, code' \in {0, code}, l.code <= sent,
             l.at \in {"consumed", "unknown", "known"} => Spending(p) /\ l.code = login[p].code
      PROVE  CodeInv'
    <2>1. login'[p] = l /\ \A k \in Logins \ {p} : login'[k] = login[k]
        BY <1>0, <1>3
    <2>2. \A k \in Logins : /\ login'[k].code <= sent
                            /\ Spending(k)' => Spending(k) /\ login'[k].code = login[k].code
        BY <1>3, <2>1 DEF CodeInv, Spending
    <2> QED BY <1>3, <2>2, CodeKept
<1>4. ASSUME NEW p \in Logins, Fail(p), UNCHANGED <<sent, bought>>, code' \in {0, code}
      PROVE  CodeInv'
    <2>1. /\ Idle \in LoginState /\ Idle.code <= sent
          /\ Idle.at \notin {"consumed", "unknown", "known"}
        BY <1>0 DEF Idle, LoginState
    <2>2. login' = [login EXCEPT ![p] = Idle]
        BY <1>4 DEF Fail
    <2> QED BY <1>3, <1>4, <2>1, <2>2
<1>5. ASSUME NEW p \in Logins, NEW where, Go(p, where), UNCHANGED <<sent, bought>>,
             code' \in {0, code},
             where \in {"wrong", "issued", "cleared"} \/ (where = "unknown" /\ Spending(p))
      PROVE  CodeInv'
    <2> DEFINE l == [login[p] EXCEPT !.at = where]
    <2>1. l \in LoginState /\ l.at = where /\ l.code = login[p].code
        BY <1>0, <1>5 DEF LoginState
    <2>2. login' = [login EXCEPT ![p] = l]
        BY <1>5 DEF Go
    <2> HIDE DEF l
    <2>3. /\ l.code <= sent
          /\ l.at \in {"consumed", "unknown", "known"} => Spending(p) /\ l.code = login[p].code
        BY <1>5, <2>1 DEF CodeInv
    <2> QED BY <1>3, <1>5, <2>1, <2>2, <2>3
<1>6. ASSUME NEW p \in Logins, NEW id \in Nat, UNCHANGED <<sent, bought, code>>, Spending(p),
             login' = [login EXCEPT ![p].at = "known", ![p].id = id]
      PROVE  CodeInv'
    <2> DEFINE l == [login[p] EXCEPT !.at = "known", !.id = id]
    <2>1. l \in LoginState /\ l.code = login[p].code
        BY <1>0, <1>6 DEF LoginState
    <2>2. login' = [login EXCEPT ![p] = l]
        BY <1>0, <1>6
    <2> HIDE DEF l
    <2>3. l.code <= sent
        BY <2>1 DEF CodeInv
    <2> QED BY <1>3, <1>6, <2>1, <2>2, <2>3
<1>7. ASSUME NEW p \in Logins, NEW guess \in 0..sent, Begin(p, guess) PROVE CodeInv'
    <2> DEFINE l == [at |-> "checked", code |-> guess, id |-> 0]
    <2>1. l \in LoginState /\ l.code <= sent /\ l.at = "checked"
        BY <1>0 DEF LoginState
    <2>2. login' = [login EXCEPT ![p] = l] /\ UNCHANGED <<sent, bought, code>>
        BY <1>7 DEF Begin, codeVars, sessionVars
    <2> HIDE DEF l
    <2> QED BY <1>3, <2>1, <2>2
<1>8. ASSUME NEW p \in Logins, Consume(p) PROVE CodeInv'
    <2>1. UNCHANGED <<sent, bought>> /\ code' \in {0, code} /\ login[p].at = "checked"
        BY <1>8 DEF Consume, ConsumeCode, sessionVars
    <2>2. CASE Go(p, "consumed") /\ Matches(p) /\ code' = 0
        <3>1. /\ login'[p].at = "consumed" /\ login'[p].code = code
              /\ \A k \in Logins \ {p} : login'[k] = login[k]
            BY <1>0, <2>2 DEF Go, Matches, LoginState
        <3>2. code # 0 /\ bought[code] = {} /\ \A k \in Logins : Spending(k) => login[k].code # code
            BY <2>2 DEF Matches, CodeInv
        <3>3. \A k \in Logins : Spending(k)' => k = p \/ (Spending(k) /\ login'[k] = login[k])
            BY <3>1 DEF Spending
        <3> QED BY <1>0, <2>1, <2>2, <3>1, <3>2, <3>3 DEF CodeInv
    <2>3. CASE Go(p, "wrong") \/ Fail(p)
        BY <1>4, <1>5, <2>1, <2>3
    <2> QED BY <1>8, <2>2, <2>3 DEF Consume, ConsumeCode
<1>9. ASSUME NEW p \in Logins, Issue(p) PROVE CodeInv'
    <2> DEFINE c == login[p].code
    <2>1. /\ UNCHANGED <<code, sent>> /\ Spending(p)
          /\ bought' = [bought EXCEPT ![c] = bought[c] \cup {drawn + 1}]
          /\ Go(p, "issued") \/ Fail(p)
        BY <1>9 DEF Issue, codeVars, Spending
    <2>2. /\ c \in Codes /\ c # code /\ c <= sent /\ bought[c] = {}
          /\ \A k \in Logins : Spending(k) /\ login[k].code = c => k = p
        BY <1>0, <2>1 DEF CodeInv, Codes
    <2>3. /\ login'[p].code \in {0, c} /\ ~Spending(p)'
          /\ \A k \in Logins \ {p} : login'[k] = login[k]
        BY <1>0, <2>1 DEF Go, Fail, Idle, LoginState, Spending
    <2>4. bought'[c] = {drawn + 1} /\ \A d \in Codes \ {c} : bought'[d] = bought[d]
        BY <1>0, <2>1, <2>2
    <2>5. \A k \in Logins : Spending(k)' =>
            Spending(k) /\ login'[k] = login[k] /\ login[k].code # c
        BY <2>2, <2>3 DEF Spending
    <2>6. /\ \A k \in Logins : login'[k].code <= sent'
          /\ \A k \in Logins : Spending(k)' =>
                login'[k].code \notin {0, code'} /\ bought'[login'[k].code] = {}
        BY <1>0, <2>1, <2>2, <2>3, <2>4, <2>5 DEF CodeInv, Codes
    <2> QED BY <1>0, <2>1, <2>2, <2>4, <2>5, <2>6 DEF CodeInv, Codes
<1>10. ASSUME NEW p \in Logins, NoCodeGiven(p) \/ ClearFailures(p) PROVE CodeInv'
    BY <1>4, <1>5, <1>10 DEF NoCodeGiven, ClearFailures, codeVars, sessionVars
<1>11. ASSUME NEW p \in Logins, RecordFailure(p) \/ Commit(p) \/ LoginDies(p) PROVE CodeInv'
    BY <1>4, <1>11 DEF RecordFailure, Commit, LoginDies, codeVars, sessionVars
<1>12. ASSUME NEW p \in Logins, FindAccount(p) \/ CreateAccount(p) PROVE CodeInv'
    <2>1. UNCHANGED <<sent, bought, code>> /\ Spending(p)
        BY <1>12 DEF FindAccount, CreateAccount, codeVars, sessionVars, Spending
    <2>2. account \in Nat /\ lastId + 1 \in Nat
        BY TypeParts DEF TypeInv, RowOK
    <2>3. \/ Go(p, "unknown") \/ Fail(p)
          \/ \E id \in Nat : login' = [login EXCEPT ![p].at = "known", ![p].id = id]
        BY <1>12, <2>2 DEF FindAccount, CreateAccount
    <2> QED BY <1>4, <1>5, <1>6, <2>1, <2>3
<1>13. CASE UNCHANGED <<code, sent, login, bought>>
    BY <1>1, <1>13
<1>14. CASE CodeExpires
    BY <1>1, <1>14 DEF CodeExpires, sessionVars
<1>15. ASSUME NEW p \in Logins, LoginStep(p) PROVE CodeInv'
    BY <1>7, <1>8, <1>9, <1>10, <1>11, <1>12, <1>15 DEF LoginStep
<1> QED BY <1>2, <1>13, <1>14, <1>15
        DEF Next, RequestStep, vars, codeVars, sessionVars, CooldownEnds, CounterExpires,
            SessionExpires, Administer, Read, CheckAccount, CheckRoles, Renew, Handle, RequestFails
-----------------------------------------------------------------------------
(* Guesses.  A wrong code that was compared is counted, about to be        *)
(* counted, or lost to a fault; and whoever still has to compare one began *)
(* below the limit.                                                        *)

Checked == {p \in Logins : login[p].at = "checked"}
Wrong == {p \in Logins : login[p].at = "wrong"}

GuessInv ==
    /\ guesses <= failures + Cardinality(Wrong) + faults
    /\ guesses + Cardinality(Checked) <= FailureLimit - 1 + Cardinality(Logins) + faults

LEMMA LoginSets ==
    /\ IsFiniteSet(Checked) /\ Cardinality(Checked) \in Nat
    /\ IsFiniteSet(Wrong) /\ Cardinality(Wrong) \in Nat
    /\ Cardinality(Logins) \in Nat
    /\ Cardinality(Checked) <= Cardinality(Logins)
BY FS_Subset, FS_CardinalityType DEF Checked, Wrong

LEMMA GuessInit == Init => GuessInv
<1> SUFFICES ASSUME Init PROVE GuessInv
    OBVIOUS
<1>1. Checked = {} /\ Wrong = {} /\ guesses = 0 /\ failures = 0 /\ faults = 0
    BY DEF Init, Idle, Checked, Wrong
<1> QED BY <1>1, LoginSets, FS_EmptySet DEF GuessInv

\* How the two sets move with a login.
LEMMA LoginSetsMove ==
    ASSUME TypeInv, NEW p \in Logins, \A k \in Logins \ {p} : login'[k] = login[k]
    PROVE  /\ Cardinality(Checked') = Cardinality(Checked)
                + (IF login'[p].at = "checked" THEN 1 ELSE 0)
                - (IF login[p].at = "checked" THEN 1 ELSE 0)
           /\ Cardinality(Wrong') = Cardinality(Wrong)
                + (IF login'[p].at = "wrong" THEN 1 ELSE 0)
                - (IF login[p].at = "wrong" THEN 1 ELSE 0)
<1>1. Checked' = IF login'[p].at = "checked" THEN Checked \cup {p} ELSE Checked \ {p}
    BY DEF Checked
<1>2. Wrong' = IF login'[p].at = "wrong" THEN Wrong \cup {p} ELSE Wrong \ {p}
    BY DEF Wrong
<1>3. /\ p \in Checked <=> login[p].at = "checked"
      /\ p \in Wrong <=> login[p].at = "wrong"
    BY DEF Checked, Wrong
<1>4. \A S : IsFiniteSet(S) =>
        /\ Cardinality(S) \in Nat
        /\ Cardinality(S \cup {p}) = IF p \in S THEN Cardinality(S) ELSE Cardinality(S) + 1
        /\ Cardinality(S \ {p}) = IF p \in S THEN Cardinality(S) - 1 ELSE Cardinality(S)
    BY FS_CardinalityType, FS_AddElement, FS_RemoveElement
<1>5. /\ Cardinality(Checked \cup {p}) =
            IF p \in Checked THEN Cardinality(Checked) ELSE Cardinality(Checked) + 1
      /\ Cardinality(Checked \ {p}) =
            IF p \in Checked THEN Cardinality(Checked) - 1 ELSE Cardinality(Checked)
    BY <1>4, LoginSets
<1>6. /\ Cardinality(Wrong \cup {p}) =
            IF p \in Wrong THEN Cardinality(Wrong) ELSE Cardinality(Wrong) + 1
      /\ Cardinality(Wrong \ {p}) =
            IF p \in Wrong THEN Cardinality(Wrong) - 1 ELSE Cardinality(Wrong)
    BY <1>4, LoginSets
<1>7. Cardinality(Checked') = Cardinality(Checked)
                + (IF login'[p].at = "checked" THEN 1 ELSE 0)
                - (IF login[p].at = "checked" THEN 1 ELSE 0)
    <2>1. CASE login'[p].at = "checked"
        BY <1>1, <1>3, <1>5, <2>1, LoginSets
    <2>2. CASE login'[p].at # "checked"
        BY <1>1, <1>3, <1>5, <2>2, LoginSets
    <2> QED BY <2>1, <2>2
<1>8. Cardinality(Wrong') = Cardinality(Wrong)
                + (IF login'[p].at = "wrong" THEN 1 ELSE 0)
                - (IF login[p].at = "wrong" THEN 1 ELSE 0)
    <2>1. CASE login'[p].at = "wrong"
        BY <1>2, <1>3, <1>6, <2>1, LoginSets
    <2>2. CASE login'[p].at # "wrong"
        BY <1>2, <1>3, <1>6, <2>2, LoginSets
    <2> QED BY <2>1, <2>2
<1> QED BY <1>7, <1>8

LEMMA GuessStep == TypeInv /\ GuessInv /\ [Next]_vars => GuessInv'
<1> SUFFICES ASSUME TypeInv, GuessInv, [Next]_vars PROVE GuessInv'
    OBVIOUS
<1>0. /\ login \in [Logins -> LoginState] /\ failures \in Nat /\ guesses \in Nat /\ faults \in Nat
      /\ failures' \in Nat /\ guesses' \in Nat /\ faults' \in Nat /\ faults' >= faults
    BY TypeParts, CounterType, FaultsType DEF TypeInv, CounterOK
<1>1. CASE UNCHANGED <<login, failures, guesses>>
    BY <1>0, <1>1, LoginSets DEF GuessInv, Checked, Wrong
<1>2. CASE UNCHANGED login /\ guesses' = 0
    <2>1. Checked' = Checked /\ Wrong' = Wrong
        BY <1>2 DEF Checked, Wrong
    <2> QED BY <1>0, <1>2, <2>1, LoginSets DEF GuessInv
<1>3. ASSUME NEW p \in Logins, NEW guess \in 0..sent, Begin(p, guess) PROVE GuessInv'
    <2>1. /\ login'[p].at = "checked" /\ \A k \in Logins \ {p} : login'[k] = login[k]
          /\ login[p].at = "idle" /\ failures < FailureLimit
          /\ UNCHANGED <<failures, guesses, faults>>
        BY <1>0, <1>3 DEF Begin, counterVars
    <2>2. /\ Cardinality(Checked') = Cardinality(Checked) + 1
          /\ Cardinality(Wrong') = Cardinality(Wrong)
        BY <2>1, LoginSets, LoginSetsMove
    <2>3. Cardinality(Checked) + Cardinality(Wrong) + 1 <= Cardinality(Logins)
        <3>1. Cardinality(Checked \cup Wrong) = Cardinality(Checked) + Cardinality(Wrong)
            <4>1. Checked \cap Wrong = {}
                BY DEF Checked, Wrong
            <4>2. Cardinality(Checked \cup Wrong)
                    = Cardinality(Checked) + Cardinality(Wrong) - Cardinality(Checked \cap Wrong)
                BY LoginSets, FS_Union
            <4> QED BY <4>1, <4>2, LoginSets, FS_EmptySet
        <3>2. Checked \cup Wrong \subseteq Logins \ {p}
            BY <2>1 DEF Checked, Wrong
        <3>3. IsFiniteSet(Logins \ {p}) /\ Cardinality(Logins \ {p}) = Cardinality(Logins) - 1
            BY FS_RemoveElement
        <3>4. Cardinality(Checked \cup Wrong) <= Cardinality(Logins \ {p})
            BY <3>2, <3>3, FS_Subset
        <3> QED BY <3>1, <3>3, <3>4, LoginSets
    <2> QED BY <1>0, <2>1, <2>2, <2>3, LoginSets DEF GuessInv
<1>4. ASSUME NEW p \in Logins, Consume(p) PROVE GuessInv'
    <2>1. /\ login'[p].at # "checked" /\ \A k \in Logins \ {p} : login'[k] = login[k]
          /\ login[p].at = "checked" /\ failures' = failures
        BY <1>0, <1>4 DEF Consume, Go, Fail, Idle, LoginState
    <2>2. /\ Cardinality(Checked') = Cardinality(Checked) - 1
          /\ Cardinality(Wrong') = Cardinality(Wrong) + (IF login'[p].at = "wrong" THEN 1 ELSE 0)
        BY <2>1, LoginSets, LoginSetsMove
    <2>3. \/ guesses' = guesses
          \/ guesses' = guesses + 1 /\ (login'[p].at = "wrong" \/ faults' = faults + 1)
        BY <1>0, <1>4 DEF Consume, Go, LoginState, Disturb
    <2> QED BY <1>0, <2>1, <2>2, <2>3, LoginSets DEF GuessInv
<1>5. ASSUME NEW p \in Logins, RecordFailure(p) PROVE GuessInv'
    <2>1. /\ login'[p].at = "idle" /\ \A k \in Logins \ {p} : login'[k] = login[k]
          /\ login[p].at = "wrong" /\ guesses' = guesses
        BY <1>0, <1>5 DEF RecordFailure, Fail, Idle
    <2>2. /\ Cardinality(Checked') = Cardinality(Checked)
          /\ Cardinality(Wrong') = Cardinality(Wrong) - 1
        BY <2>1, LoginSets, LoginSetsMove
    <2>3. failures' = failures + 1 \/ (failures' = failures /\ faults' = faults + 1)
        BY <1>5 DEF RecordFailure, Increment, Disturb
    <2> QED BY <1>0, <2>1, <2>2, <2>3, LoginSets DEF GuessInv
<1>6. ASSUME NEW p \in Logins, NoCodeGiven(p) PROVE GuessInv'
    <2>1. /\ login'[p].at = "wrong" /\ \A k \in Logins \ {p} : login'[k] = login[k]
          /\ login[p].at = "checked" /\ UNCHANGED <<guesses, failures>>
        BY <1>0, <1>6 DEF NoCodeGiven, Go, LoginState, counterVars
    <2>2. /\ Cardinality(Checked') = Cardinality(Checked) - 1
          /\ Cardinality(Wrong') = Cardinality(Wrong) + 1
        BY <2>1, LoginSets, LoginSetsMove
    <2> QED BY <1>0, <2>1, <2>2, LoginSets DEF GuessInv
<1>7. ASSUME NEW p \in Logins, LoginDies(p) PROVE GuessInv'
    <2>1. /\ login'[p].at = "idle" /\ \A k \in Logins \ {p} : login'[k] = login[k]
          /\ UNCHANGED <<guesses, failures>> /\ faults' = faults + 1
        BY <1>0, <1>7 DEF LoginDies, Fail, Idle, counterVars, Disturb
    <2>2. /\ Cardinality(Checked') <= Cardinality(Checked)
          /\ Cardinality(Wrong') >= Cardinality(Wrong) - 1
          /\ Cardinality(Checked') \in Int /\ Cardinality(Wrong') \in Int
        BY <2>1, LoginSets, LoginSetsMove
    <2> QED BY <1>0, <2>1, <2>2, LoginSets DEF GuessInv
<1>8. ASSUME NEW p \in Logins,
             FindAccount(p) \/ CreateAccount(p) \/ Issue(p) \/ ClearFailures(p) \/ Commit(p)
      PROVE  GuessInv'
    <2>1. /\ login[p].at \notin {"checked", "wrong"} /\ login'[p].at \notin {"checked", "wrong"}
          /\ \A k \in Logins \ {p} : login'[k] = login[k]
        <3>1. CASE FindAccount(p) \/ CreateAccount(p)
            BY <1>0, <3>1 DEF FindAccount, CreateAccount, Go, Fail, Idle, LoginState
        <3>2. CASE Issue(p) \/ ClearFailures(p) \/ Commit(p)
            BY <1>0, <3>2 DEF Issue, ClearFailures, Commit, Go, Fail, Idle, LoginState
        <3> QED BY <1>8, <3>1, <3>2
    <2>2. Checked' = Checked /\ Wrong' = Wrong
        BY <2>1 DEF Checked, Wrong
    <2>3. guesses' = 0 \/ UNCHANGED <<guesses, failures>>
        BY <1>8 DEF FindAccount, CreateAccount, Issue, ClearFailures, Commit, counterVars
    <2> QED BY <1>0, <2>2, <2>3, LoginSets DEF GuessInv
<1>9. CASE CounterExpires
    BY <1>2, <1>9 DEF CounterExpires
<1>10. ASSUME NEW p \in Logins, LoginStep(p) PROVE GuessInv'
    BY <1>3, <1>4, <1>5, <1>6, <1>7, <1>8, <1>10 DEF LoginStep
<1> QED BY <1>1, <1>9, <1>10
        DEF Next, RequestStep, vars, counterVars, SendCode, CooldownEnds, CodeExpires,
            SessionExpires, Administer, Read, CheckAccount, CheckRoles, Renew, Handle, RequestFails
-----------------------------------------------------------------------------
(* Sessions expire: only a publication makes one that bears an identity.   *)

TtlInv ==
    \A t \in Tokens : session[t].kind = "full" => /\ session[t].id # 0
                                                  /\ t # LegacyToken => session[t].ttl

LEMMA TtlInit == Init => TtlInv
BY DEF Init, TtlInv, NoSession, LegacyToken, Tokens

LEMMA TtlStep == TypeInv /\ TtlInv /\ [Next]_vars => TtlInv'
<1> SUFFICES ASSUME TypeInv, TtlInv, [Next]_vars PROVE TtlInv'
    OBVIOUS
<1>0. session \in [Tokens -> SessionState]
    BY States DEF TypeInv
<1>1. ASSUME NEW t, Delete(t) \/ UNCHANGED session PROVE TtlInv'
    BY <1>0, <1>1 DEF TtlInv, Delete, NoSession
<1>2. ASSUME NEW p \in Logins, Issue(p) PROVE TtlInv'
    <2>1. PICK s \in Leftovers(login[p].id) : session' = [session EXCEPT ![drawn + 1] = s]
        BY <1>2 DEF Issue, Leftovers
    <2>2. login[p].id # 0
        BY <1>2 DEF Issue, TypeInv, IdsInv, Named
    <2>3. s.kind = "full" => s.ttl /\ s.id # 0
        BY <2>1, <2>2 DEF Leftovers, NoSession
    <2> QED BY <1>0, <2>1, <2>3 DEF TtlInv
<1>3. ASSUME NEW q \in Requests, RequestStep(q) PROVE TtlInv'
    BY <1>1, <1>3 DEF RequestStep, Read, CheckAccount, CheckRoles, Renew, Handle, RequestFails,
                      sessionVars
<1>4. ASSUME NEW t \in Tokens, SessionExpires(t) PROVE TtlInv'
    BY <1>1, <1>4 DEF SessionExpires
<1>5. CASE UNCHANGED session
    BY <1>1, <1>5
<1> QED BY <1>2, <1>3, <1>4, <1>5
        DEF Next, LoginStep, vars, sessionVars, SendCode, CooldownEnds, CodeExpires,
            CounterExpires, Administer, Begin, Consume, RecordFailure, NoCodeGiven, FindAccount,
            CreateAccount, ClearFailures, Commit, LoginDies
-----------------------------------------------------------------------------
(* Requests.  A session may name an account that was never committed, but  *)
(* a request past the account check names the committed one, and that row  *)
(* stays what it is.                                                       *)

Accepted == {"active", "authorized", "in"}

RequestInv ==
    \A q \in Requests : /\ request[q].at # "idle" => request[q].id # 0
                        /\ request[q].at \in Accepted => request[q].id = account

LEMMA AccountStays == TypeInv /\ [Next]_vars /\ account # 0 => account' = account
<1> SUFFICES ASSUME TypeInv, [Next]_vars, account # 0 PROVE account' = account
    OBVIOUS
<1>1. inserter = {}
    BY TypeParts DEF TypeInv, RowOK
<1>2. ASSUME NEW p \in Logins, Commit(p) PROVE account' = account
    BY <1>1, <1>2 DEF Commit
<1> QED BY <1>2
        DEF Next, LoginStep, RequestStep, vars, accountVars, SendCode, CooldownEnds, CodeExpires,
            CounterExpires, SessionExpires, Administer, Begin, Consume, RecordFailure, NoCodeGiven,
            FindAccount, CreateAccount, Issue, ClearFailures, LoginDies, Read, CheckAccount,
            CheckRoles, Renew, Handle, RequestFails

LEMMA RequestInit == Init => RequestInv
BY DEF Init, RequestInv, NotIn, Accepted

LEMMA RequestInvStep == TypeInv /\ TtlInv /\ RequestInv /\ [Next]_vars => RequestInv'
<1> SUFFICES ASSUME TypeInv, TtlInv, RequestInv, [Next]_vars PROVE RequestInv'
    OBVIOUS
<1>0. request \in [Requests -> RequestState]
    BY States DEF TypeInv
<1>1. \A q \in Requests : request[q].at \in Accepted => request[q].id = account'
    BY AccountStays DEF RequestInv, Accepted
<1>2. CASE UNCHANGED request
    BY <1>1, <1>2 DEF RequestInv
<1>3. ASSUME NEW q \in Requests, RequestStep(q) PROVE RequestInv'
    <2>1. account' = account
        BY <1>3 DEF RequestStep, Read, CheckAccount, CheckRoles, Renew, Handle, RequestFails,
                    accountVars
    <2>2. CASE Leave(q)
        BY <1>0, <1>1, <2>2 DEF Leave, NotIn, RequestInv, Accepted
    <2>3. ASSUME NEW t \in Tokens, Read(q, t) PROVE RequestInv'
        BY <1>0, <1>1, <2>3 DEF Read, TtlInv, RequestInv, Accepted
    <2>4. CASE request' = [request EXCEPT ![q].at = "active"] /\ AccountIsActive(request[q].id)
                  /\ request[q].at = "read"
        BY <1>0, <1>1, <2>1, <2>4 DEF AccountIsActive, RequestInv, Accepted
    <2>5. ASSUME NEW where \in {"authorized", "in"},
                 request' = [request EXCEPT ![q].at = where], request[q].at \in Accepted
          PROVE  RequestInv'
        BY <1>0, <1>1, <2>5 DEF RequestInv, Accepted
    <2> QED BY <1>3, <2>2, <2>3, <2>4, <2>5
            DEF RequestStep, CheckAccount, CheckRoles, Renew, Handle, RequestFails, Accepted
<1> QED BY <1>2, <1>3
        DEF Next, LoginStep, vars, SendCode, CooldownEnds, CodeExpires, CounterExpires,
            SessionExpires, Administer, Begin, Consume, RecordFailure, NoCodeGiven, FindAccount,
            CreateAccount, Issue, ClearFailures, Commit, LoginDies
-----------------------------------------------------------------------------
(* The theorems.                                                           *)

SessionsInv == TypeInv /\ CodeInv /\ GuessInv /\ TtlInv /\ RequestInv

\* SessionsInv is inductive: types and ids, what became of every code and of
\* every guess, and what a session and a request may name.
THEOREM SessionsInvariant == Spec => []SessionsInv
<1>1. Init => SessionsInv
    BY TypeInit, CodeInit, GuessInit, TtlInit, RequestInit DEF SessionsInv
<1>2. SessionsInv /\ [Next]_vars => SessionsInv'
    BY TypeStep, CodeStep, GuessStep, TtlStep, RequestInvStep DEF SessionsInv
<1> QED BY <1>1, <1>2, PTL DEF Spec

\* A login code is exchanged for one session at most (login-code-consume.lua
\* compares and deletes in one), however many logins present it at once and
\* however often Redis calls fail.
THEOREM OneSessionPerCode == Spec => []CodeBuysOneSession
<1>1. SessionsInv => CodeBuysOneSession
    <2> SUFFICES ASSUME SessionsInv, NEW c \in Codes PROVE Cardinality(bought[c]) <= 1
        BY DEF CodeBuysOneSession
    <2>1. bought[c] = {} \/ \E t : bought[c] = {t}
        <3>1. \A s, t \in bought[c] : s = t
            BY DEF SessionsInv, CodeInv
        <3>2. ASSUME NEW t \in bought[c] PROVE bought[c] = {t}
            BY <3>1, <3>2
        <3> QED BY <3>2
    <2>2. Cardinality(bought[c]) \in {0, 1}
        BY <2>1, FS_EmptySet, FS_Singleton
    <2> QED BY <2>2
<1> QED BY <1>1, SessionsInvariant, PTL

\* Wrong codes compared since the failure counter was cleared: no more than
\* the limit, one for every other login in flight (login reads the counter
\* long before it raises it) and one for every failure that was not recorded.
THEOREM BoundedGuesses == Spec => []GuessesAreBounded
<1>1. SessionsInv => GuessesAreBounded
    BY TypeParts, LoginSets DEF SessionsInv, GuessInv, GuessesAreBounded, TypeInv, CounterOK
<1> QED BY <1>1, SessionsInvariant, PTL

\* Every session with an identity has a TTL, whatever login-session-publish.lua
\* left when it failed; and every variable keeps its type.
THEOREM SessionsEnd == Spec => []SessionsExpire
<1>1. SessionsInv => SessionsExpire
    BY DEF SessionsInv, TypeInv, TtlInv, SessionsExpire
<1> QED BY <1>1, SessionsInvariant, PTL

\* A request the filter lets in acts under the committed account of the phone,
\* although login publishes a session before it commits the row.
THEOREM IdentityIsCommitted == Spec => []NobodyActsUncommitted
<1>1. SessionsInv => NobodyActsUncommitted
    BY DEF SessionsInv, RequestInv, NobodyActsUncommitted, Accepted
<1> QED BY <1>1, SessionsInvariant, PTL

\* The step that lets a request in finds its session alive, of the same
\* identity and with a TTL (session-authenticate.lua), whatever happened to
\* the session since the filter read it.
THEOREM IdentityLives == Spec => IdentityIsLive
<1> DEFINE Live == \A q \in Requests :
                      request[q].at # "in" /\ request'[q].at = "in" =>
                          LET s == session[request[q].token]
                          IN  s.kind = "full" /\ s.ttl /\ s.id = request'[q].id
<1>1. TypeOK /\ [Next]_vars => [Live]_vars
    <2> SUFFICES ASSUME TypeOK, Next PROVE Live
        OBVIOUS
    <2>0. request \in [Requests -> RequestState]
        BY States
    <2>1. CASE UNCHANGED request
        BY <2>1
    <2>2. ASSUME NEW q \in Requests, RequestStep(q) PROVE Live
        <3>1. CASE Renew(q) /\ CanRenew(q)
            <4>1. CASE Leave(q)
                BY <2>0, <4>1 DEF Leave, NotIn
            <4>2. CASE request' = [request EXCEPT ![q].at = "in"]
                <5>1. \A r \in Requests \ {q} : request'[r] = request[r]
                    BY <2>0, <4>2
                <5>2. request'[q].id = request[q].id
                    BY <2>0, <4>2 DEF RequestState
                <5> QED BY <3>1, <5>1, <5>2 DEF CanRenew
            <4> QED BY <3>1, <4>1, <4>2 DEF Renew
        <3>2. CASE Leave(q)
            BY <2>0, <3>2 DEF Leave, NotIn
        <3>3. ASSUME NEW t \in Tokens, Read(q, t) PROVE Live
            BY <2>0, <3>3 DEF Read
        <3>4. ASSUME NEW where \in {"active", "authorized"},
                     request' = [request EXCEPT ![q].at = where]
              PROVE  Live
            BY <2>0, <3>4
        <3> QED BY <2>2, <3>1, <3>2, <3>3, <3>4
                DEF RequestStep, CheckAccount, CheckRoles, Renew, Handle, RequestFails
    <2> QED BY <2>1, <2>2
            DEF Next, LoginStep, SendCode, CooldownEnds, CodeExpires, CounterExpires,
                SessionExpires, Administer, Begin, Consume, RecordFailure, NoCodeGiven,
                FindAccount, CreateAccount, Issue, ClearFailures, Commit, LoginDies
<1>2. SessionsInv => TypeOK
    BY DEF SessionsInv, TypeInv
<1> QED BY <1>1, <1>2, SessionsInvariant, PTL DEF Spec, IdentityIsLive
=============================================================================
