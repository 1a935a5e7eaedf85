------------------------------- MODULE Follows -------------------------------
(***************************************************************************)
(* Following and unfollowing one account (FollowCommandService).  The row  *)
(* of tb_follow is the fact; the sorted set follows:<actor> is a           *)
(* projection that is written after it, without a transaction around both. *)
(*                                                                         *)
(* Several requests of one actor may run at once.  Each MySQL statement    *)
(* and each Redis command is a step; a Redis command may fail without or   *)
(* with its effect, and a process may die between the steps.  An actor     *)
(* following itself is refused before the first step and changes nothing.  *)
(***************************************************************************)
CONSTANTS
    Actors,         \* accounts that follow the one account
    Requests        \* threads in follow

ASSUME FollowsAssumption == Actors # {}

VARIABLES
    row,            \* tb_follow, under the unique key uk_follow_user_target
    member,         \* follows:<actor> contains the account
    command,        \* what each request is doing
    estranged       \* history: actors whose projection nobody may rely on

followVars == <<row, member, command, estranged>>

NoCommand == [at |-> "idle", actor |-> CHOOSE a \in Actors : TRUE, alone |-> TRUE]

FollowInit ==
    /\ row = [a \in Actors |-> FALSE]
    /\ member = [a \in Actors |-> FALSE]
    /\ command = [r \in Requests |-> NoCommand]
    /\ estranged = {}

Busy(r) == command[r].at # "idle"
Companions(r, a) == {q \in Requests \ {r} : Busy(q) /\ command[q].actor = a}

\* A request enters; from now on neither it nor its companions are alone.
Enter(r, a, where) ==
    /\ ~Busy(r)
    /\ command' = [q \in Requests |->
            IF q = r THEN [at |-> where, actor |-> a, alone |-> Companions(r, a) = {}]
            ELSE IF q \in Companions(r, a) THEN [command[q] EXCEPT !.alone = FALSE]
            ELSE command[q]]
    /\ UNCHANGED <<row, member, estranged>>

Follow(r, a) == Enter(r, a, "exists")
Unfollow(r, a) == Enter(r, a, "delete")

Goes(r, where) == command' = [command EXCEPT ![r].at = where]
Leaves(r) == command' = [command EXCEPT ![r] = NoCommand]

Exists(r) ==
    /\ command[r].at = "exists"
    /\ Goes(r, IF row[command[r].actor] THEN "add" ELSE "create")
    /\ UNCHANGED <<row, member, estranged>>

\* The unique key turns a lost race into "already there".
Create(r) ==
    /\ command[r].at = "create"
    /\ row' = [row EXCEPT ![command[r].actor] = TRUE]
    /\ Goes(r, "add")
    /\ UNCHANGED <<member, estranged>>

\* Mutant: the answer of the DELETE is inverted.
DeletesNoRow(r) == ~row[command[r].actor]

\* Only the request that deleted the row goes on to the projection.
DeletesRow(r) == row[command[r].actor]

Delete(r) ==
    /\ command[r].at = "delete"
    /\ row' = [row EXCEPT ![command[r].actor] = FALSE]
    /\ IF DeletesRow(r) THEN Goes(r, "remove") ELSE Leaves(r)
    /\ UNCHANGED <<member, estranged>>

\* The projection follows the row again if the request was alone from its
\* start; otherwise nothing is known of it.
Trusts(r) == estranged' = IF command[r].alone THEN estranged \ {command[r].actor}
                          ELSE estranged \cup {command[r].actor}

AddMember(r) ==
    /\ command[r].at = "add"
    /\ member' = [member EXCEPT ![command[r].actor] = TRUE]
    /\ Leaves(r) /\ Trusts(r)
    /\ UNCHANGED row

RemoveMember(r) ==
    /\ command[r].at = "remove"
    /\ member' = [member EXCEPT ![command[r].actor] = FALSE]
    /\ Leaves(r) /\ Trusts(r)
    /\ UNCHANGED row

\* The Redis call raises, before or after its effect, or the process dies; the
\* row stays as it was committed.
ProjectionFails(r) ==
    /\ command[r].at \in {"add", "remove"}
    /\ member' \in {member, [member EXCEPT ![command[r].actor] = command[r].at = "add"]}
    /\ Leaves(r)
    /\ estranged' = estranged \cup {command[r].actor}
    /\ UNCHANGED row

\* A SELECT, INSERT or DELETE raises or its process dies.  If the statement was
\* committed and only its answer lost, the projection is left behind the row.
StatementFails(r) ==
    LET a == command[r].actor
    IN  /\ command[r].at \in {"exists", "create", "delete"}
        /\ \/ row' = row
           \/ command[r].at # "exists"
              /\ row' = [row EXCEPT ![a] = command[r].at = "create"]
        /\ Leaves(r)
        /\ estranged' = estranged \cup {x \in {a} : row'[a] # row[a]}
        /\ UNCHANGED member

FollowStep(r) ==
    \/ \E a \in Actors : Follow(r, a) \/ Unfollow(r, a)
    \/ Exists(r) \/ Create(r) \/ Delete(r) \/ AddMember(r) \/ RemoveMember(r)
    \/ ProjectionFails(r) \/ StatementFails(r)

FollowNext == \E r \in Requests : FollowStep(r)

FollowSpec == FollowInit /\ [][FollowNext]_followVars
-----------------------------------------------------------------------------
FollowTypeOK ==
    /\ row \in [Actors -> BOOLEAN]
    /\ member \in [Actors -> BOOLEAN]
    /\ command \in [Requests -> [at : {"idle", "exists", "create", "add", "delete", "remove"},
                                 actor : Actors, alone : BOOLEAN]]
    /\ estranged \subseteq Actors

Quiet(a) == \A r \in Requests : Busy(r) => command[r].actor # a

\* Projection and fact differ only after a failure or after requests of the same
\* actor overlapped, and any later command that runs alone and writes the
\* projection brings them together again.
DivergenceIsExplained ==
    \A a \in Actors : Quiet(a) /\ a \notin estranged => (member[a] <=> row[a])
=============================================================================
