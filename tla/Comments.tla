-------------------------------- MODULE Comments --------------------------------
(***************************************************************************)
(* The comments of one post: BlogCommentsServiceImpl, its mapper, and the  *)
(* author's withdrawal of the post.                                        *)
(*                                                                         *)
(* A request runs in one transaction: it finds its candidate in a          *)
(* snapshot, locks rows with SELECT ... FOR UPDATE that check again what   *)
(* they lock, writes and commits.  What it writes is locked until then,    *)
(* so the writes and the commit are one step and a rollback is none.       *)
(* Row 0 of the locks is the post, row c the comment c.  IDs come from     *)
(* AUTO_INCREMENT, drawn while the post is locked.                         *)
(*                                                                         *)
(* Who asks is left out: a withdrawal is the author's own (the mapper      *)
(* compares user_id, which never changes), a moderator is any ADMIN.       *)
(***************************************************************************)
EXTENDS Integers, Sequences, FiniteSets

CONSTANTS
    Requests,       \* requests that write, in one process or several
    Readers,        \* users who page through a list
    NoRequest,
    MaxComments,    \* bound: comments and replies ever created
    PageSize

ASSUME CommentsAssumption ==
    /\ NoRequest \notin Requests
    /\ MaxComments \in Nat
    /\ PageSize \in Nat \ {0}

Post == 0
Ids == 1..MaxComments
Root == 0

VARIABLES
    withdrawn,      \* tb_blog.withdrawn
    count,          \* tb_blog.comments
    parent,         \* tb_blog_comments: parent_id (answer_id is the same), ...
    status,         \* ... and status: "none" while there is no row
    audits,         \* the comments of both hide-audit tables, oldest first
    locks,          \* row locks
    tx,             \* what each request is doing
    page            \* what each reader has been shown

rows == <<parent, status>>
vars == <<withdrawn, count, rows, audits, locks, tx, page>>

NoTx == [op |-> "none", target |-> Root, path |-> <<>>]
NoPage == [list |-> "none", of |-> Root, before |-> 0, shown |-> {}, start |-> {},
           more |-> FALSE]

Init ==
    /\ withdrawn = FALSE /\ count = 0
    /\ parent = [c \in Ids |-> Root]
    /\ status = [c \in Ids |-> "none"]
    /\ audits = <<>>
    /\ locks = [l \in {Post} \cup Ids |-> NoRequest]
    /\ tx = [s \in Requests |-> NoTx]
    /\ page = [r \in Readers |-> NoPage]

Exists(c) == status[c] # "none"
IsRoot(c) == Exists(c) /\ parent[c] = Root
IsReply(c) == Exists(c) /\ parent[c] # Root
Visible(c) == status[c] = "visible"
VisibleComments == {c \in Ids : Visible(c)}
NextId == Cardinality({c \in Ids : Exists(c)}) + 1
-----------------------------------------------------------------------------
(* Beginning a request: the SELECTs without a lock.                        *)

\* Mutant: the comment's row before the post's.
PathCommentFirst(op, c) ==
    CASE op \in {"comment", "withdrawPost"} -> <<Post>>
      [] op = "hide" /\ IsReply(c) -> <<Post, parent[c], c>>
      [] op = "withdraw" -> <<c, Post>>
      [] OTHER -> <<Post, c>>

\* The rows a request locks, in order: the post, the root, the comment.
Path(op, c) ==
    CASE op \in {"comment", "withdrawPost"} -> <<Post>>
      [] op = "hide" /\ IsReply(c) -> <<Post, parent[c], c>>
      [] OTHER -> <<Post, c>>

Begin(s, op, c) ==
    /\ tx[s].op = "none"
    /\ tx' = [tx EXCEPT ![s] = [op |-> op, target |-> c, path |-> Path(op, c)]]
    /\ UNCHANGED <<withdrawn, count, rows, audits, locks, page>>

BeginComment(s) == Begin(s, "comment", Root)

\* findVisibleRoot
BeginReply(s, c) == IsRoot(c) /\ Visible(c) /\ Begin(s, "reply", c)

\* findOwnedFirstLevelComment, findOwnedDirectReply
BeginWithdraw(s, c) == status[c] \in {"visible", "withdrawn"} /\ Begin(s, "withdraw", c)

\* findModeratableFirstLevelComment, findModeratableDirectReply
BeginHide(s, c) == status[c] \in {"visible", "hidden"} /\ Begin(s, "hide", c)

BeginWithdrawPost(s) == Begin(s, "withdrawPost", Root)
-----------------------------------------------------------------------------
(* The locking SELECTs.                                                    *)

\* Mutant: the root of a new reply is not checked again.
AdmitsUnchecked(s, l) ==
    CASE tx[s].op \in {"comment", "reply"} /\ l = Post -> ~withdrawn
      [] tx[s].op = "reply" /\ l # Post -> TRUE
      [] tx[s].op = "withdraw" /\ l # Post -> status[l] \in {"visible", "withdrawn"}
      [] tx[s].op = "hide" /\ l = tx[s].target -> status[l] \in {"visible", "hidden"}
      [] OTHER -> TRUE

\* The WHERE clause of the row being locked: lockVisibleBlog or lockBlog,
\* lockVisibleRoot, lockOwned..., lockModeratable..., lockDirectReplyRoot.
Admits(s, l) ==
    CASE tx[s].op \in {"comment", "reply"} /\ l = Post -> ~withdrawn
      [] tx[s].op = "reply" /\ l # Post -> Visible(l)
      [] tx[s].op = "withdraw" /\ l # Post -> status[l] \in {"visible", "withdrawn"}
      [] tx[s].op = "hide" /\ l = tx[s].target -> status[l] \in {"visible", "hidden"}
      [] OTHER -> TRUE

\* Commit or rollback: the locks go.
End(s) ==
    /\ tx' = [tx EXCEPT ![s] = NoTx]
    /\ locks' = [l \in DOMAIN locks |-> IF locks[l] = s THEN NoRequest ELSE locks[l]]
    /\ UNCHANGED page

\* A row that does not match any more is NOT_FOUND, and the transaction rolls back.
Acquire(s) ==
    /\ tx[s].path # <<>>
    /\ LET l == Head(tx[s].path)
       IN  /\ locks[l] = NoRequest
           /\ \/ /\ Admits(s, l)
                 /\ locks' = [locks EXCEPT ![l] = s]
                 /\ tx' = [tx EXCEPT ![s].path = Tail(@)]
                 /\ UNCHANGED page
              \/ ~Admits(s, l) /\ End(s)
    /\ UNCHANGED <<withdrawn, count, rows, audits>>

\* A failing statement, a lock wait of more than five seconds or a crash.
Rollback(s) ==
    /\ tx[s].op # "none"
    /\ End(s)
    /\ UNCHANGED <<withdrawn, count, rows, audits>>

Locked(s, op) == tx[s].op = op /\ tx[s].path = <<>>
-----------------------------------------------------------------------------
(* The writes and the commit.                                              *)

\* insert and incrementCommentCount
Create(s) ==
    /\ Locked(s, "comment") \/ Locked(s, "reply")
    /\ NextId \in Ids
    /\ parent' = [parent EXCEPT ![NextId] = tx[s].target]
    /\ status' = [status EXCEPT ![NextId] = "visible"]
    /\ count' = count + 1
    /\ End(s)
    /\ UNCHANGED <<withdrawn, audits>>

\* decrementCommentCount stops at zero.
Decrement == count' = IF count > 0 THEN count - 1 ELSE 0

\* Mutant: a repeated withdrawal counts again, and below zero.
TakesOff(s) == count' = count - 1

\* Only what was visible was counted.
TakeOff(s) == IF Visible(tx[s].target) THEN Decrement ELSE UNCHANGED count

\* A comment withdrawn before is withdrawn: the request succeeds.
Withdraw(s) ==
    /\ Locked(s, "withdraw")
    /\ TakeOff(s)
    /\ status' = [status EXCEPT ![tx[s].target] = "withdrawn"]
    /\ End(s)
    /\ UNCHANGED <<withdrawn, parent, audits>>

Receipt(s) ==
    audits' = IF Visible(tx[s].target) THEN Append(audits, tx[s].target) ELSE audits

\* A comment hidden before is hidden; its receipt stays the only one.
Hide(s) ==
    /\ Locked(s, "hide")
    /\ TakeOff(s)
    /\ status' = [status EXCEPT ![tx[s].target] = "hidden"]
    /\ Receipt(s)
    /\ End(s)
    /\ UNCHANGED <<withdrawn, parent>>

WithdrawPost(s) ==
    /\ Locked(s, "withdrawPost")
    /\ withdrawn' = TRUE
    /\ End(s)
    /\ UNCHANGED <<count, rows, audits>>
-----------------------------------------------------------------------------
(* Paging by a cursor, newest first.                                       *)

\* The rows of a list: visible comments, visible replies, receipts of either kind.
Listed(list, of) ==
    CASE list = "comments" -> {c \in VisibleComments : parent[c] = Root}
      [] list = "replies" -> {c \in VisibleComments : parent[c] = of}
      [] list = "commentAudits" -> {i \in 1..Len(audits) : IsRoot(audits[i])}
      [] list = "replyAudits" -> {i \in 1..Len(audits) : IsReply(audits[i])}
      [] OTHER -> {}

\* NOT_FOUND for comments of a withdrawn post and replies of a hidden root.
Readable(list, of) ==
    CASE list = "comments" -> ~withdrawn
      [] list = "replies" -> ~withdrawn /\ IsRoot(of) /\ Visible(of)
      [] OTHER -> TRUE

\* ORDER BY id DESC LIMIT n
Newest(ids, n) == {i \in ids : Cardinality({j \in ids : j > i}) < n}

Least(ids) == CHOOSE i \in ids : \A j \in ids : i <= j

\* Mutant: the cursor is the row read ahead.
CursorReadAhead(found) == Least(Newest(found, PageSize + 1))

\* nextBeforeId is the last row shown, not the one read ahead.
Cursor(found) == Least(Newest(found, PageSize))

\* One request for a page, a read-only snapshot: size + 1 rows are read.
Turn(r, list, of, found, p) ==
    /\ Readable(list, of)
    /\ page' = [page EXCEPT ![r] =
                [p EXCEPT !.shown = @ \cup Newest(found, PageSize),
                          !.more = Cardinality(found) > PageSize,
                          !.before = IF Cardinality(found) > PageSize
                                     THEN Cursor(found) ELSE 0]]
    /\ UNCHANGED <<withdrawn, count, rows, audits, locks, tx>>

FirstPage(r, list, of) ==
    /\ page[r].list = "none"
    /\ LET found == Listed(list, of)
       IN  Turn(r, list, of, found,
                [NoPage EXCEPT !.list = list, !.of = of, !.start = found])

NextPage(r) ==
    /\ page[r].more
    /\ Turn(r, page[r].list, page[r].of,
            {i \in Listed(page[r].list, page[r].of) : i < page[r].before}, page[r])

CloseList(r) ==
    /\ page[r].list # "none"
    /\ page' = [page EXCEPT ![r] = NoPage]
    /\ UNCHANGED <<withdrawn, count, rows, audits, locks, tx>>
-----------------------------------------------------------------------------
Starts(s) ==
    \/ BeginComment(s) \/ BeginWithdrawPost(s)
    \/ \E c \in Ids : BeginReply(s, c) \/ BeginWithdraw(s, c) \/ BeginHide(s, c)

RequestStep(s) ==
    \/ Starts(s) \/ Acquire(s) \/ Rollback(s)
    \/ Create(s) \/ Withdraw(s) \/ Hide(s) \/ WithdrawPost(s)

ReaderStep(r) ==
    \/ \E list \in {"comments", "commentAudits", "replyAudits"} : FirstPage(r, list, Root)
    \/ \E c \in Ids : FirstPage(r, "replies", c)
    \/ NextPage(r) \/ CloseList(r)

Next == (\E s \in Requests : RequestStep(s)) \/ (\E r \in Readers : ReaderStep(r))

Spec == Init /\ [][Next]_vars
-----------------------------------------------------------------------------
\* Every variable keeps its type.
TypeOK ==
    /\ withdrawn \in BOOLEAN
    /\ count \in Nat
    /\ parent \in [Ids -> {Root} \cup Ids]
    /\ status \in [Ids -> {"none", "visible", "withdrawn", "hidden"}]
    /\ audits \in Seq(Ids)
    /\ locks \in [{Post} \cup Ids -> Requests \cup {NoRequest}]
    /\ \A s \in Requests :
         /\ tx[s].op \in {"none", "comment", "reply", "withdraw", "hide", "withdrawPost"}
         /\ tx[s].target \in {Root} \cup Ids
         /\ tx[s].path \in Seq({Post} \cup Ids)
    /\ \A r \in Readers :
         /\ page[r].shown \subseteq Nat /\ page[r].start \subseteq Nat
         /\ page[r].before \in Nat

\* The counter shown with a post is the number of its visible comments and replies, however
\* creations, withdrawals, moderation and repeated requests overlap.
CountIsVisible == count = Cardinality(VisibleComments)

\* A hidden comment has exactly one receipt, however many moderators hide it at
\* once, and what is visible or was withdrawn by its author has none.
HiddenHasOneReceipt ==
    \A c \in Ids :
        Cardinality({i \in 1..Len(audits) : audits[i] = c}) =
            IF status[c] = "hidden" THEN 1 ELSE 0

\* What became of each comment, the counter of the post and the receipts of the
\* moderators tell the same story after every transaction.
VisibilityIsAccounted == TypeOK /\ CountIsVisible /\ HiddenHasOneReceipt

\* No requests wait for one another's rows in a circle: MySQL never has to
\* break a deadlock among them.
WaitsFor(s, t) == tx[s].path # <<>> /\ locks[Head(tx[s].path)] = t

NobodyWaitsInACircle ==
    ~ \E circle \in (SUBSET Requests) \ {{}} :
        \A s \in circle : \E t \in circle : WaitsFor(s, t)

\* A reply appears only under a root that is visible at that moment, and nothing
\* appears under a withdrawn post, although the root was found long before.
RepliesNeedTheirRoot ==
    [][\A c \in Ids : ~Exists(c) /\ Exists(c)' =>
          /\ ~withdrawn
          /\ parent'[c] # Root => Visible(parent'[c])]_vars

\* Who pages to the end has seen everything that was listed at the start and
\* still is, whatever was created, withdrawn or hidden between the pages.
PagesMissNothing ==
    \A r \in Readers :
        page[r].list # "none" /\ ~page[r].more =>
            page[r].start \cap Listed(page[r].list, page[r].of) \subseteq page[r].shown
=============================================================================
