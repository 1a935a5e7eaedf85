---------------------------- MODULE CommentsProofs ----------------------------
(***************************************************************************)
(* Proofs about Comments, for any number of requests, readers and          *)
(* comments and for any size of a page.                                    *)
(*                                                                         *)
(* CommentsInv is inductive.  Whoever holds a row holds the post, which    *)
(* every path names first: so the holder of the post is the only request   *)
(* that is past it, what it found when it locked its rows is still so when *)
(* it writes, and nobody waits for a request that waits.  The counter and  *)
(* the receipts then follow each write, and a reader has been shown, or    *)
(* has still below its cursor, all that was listed when it began.          *)
(***************************************************************************)
EXTENDS Comments, FiniteSetTheorems, TLAPS

USE CommentsAssumption DEF CommentsAssumption

Ops == {"none", "comment", "reply", "withdraw", "hide", "withdrawPost"}
OnComment == {"reply", "withdraw", "hide"}
Lists == {"comments", "replies", "commentAudits", "replyAudits"}
AuditLists == {"commentAudits", "replyAudits"}

TxState == [op : Ops, target : {Root} \cup Ids, path : Seq({Post} \cup Ids)]
PageState == [list : Lists \cup {"none"}, of : {Root} \cup Ids, before : Nat,
              shown : SUBSET Nat, start : SUBSET Nat, more : BOOLEAN]

\* AUTO_INCREMENT leaves no gap, a reply answers a root, and a request keeps to
\* a comment that exists.
NoGaps == \E n \in 0..MaxComments : \A c \in Ids : Exists(c) <=> c <= n

RowsInv ==
    /\ NoGaps
    /\ \A c \in Ids : parent[c] # Root => Exists(c) /\ IsRoot(parent[c])
    /\ \A s \in Requests :
         /\ tx[s].op \in OnComment => tx[s].target \in Ids /\ Exists(tx[s].target)
         /\ tx[s].op \notin OnComment => tx[s].target = Root
         /\ tx[s].op = "reply" => IsRoot(tx[s].target)

TypeInv ==
    /\ withdrawn \in BOOLEAN
    /\ count \in Nat
    /\ parent \in [Ids -> {Root} \cup Ids]
    /\ status \in [Ids -> {"none", "visible", "withdrawn", "hidden"}]
    /\ audits \in Seq(Ids)
    /\ locks \in [{Post} \cup Ids -> Requests \cup {NoRequest}]
    /\ tx \in [Requests -> TxState]
    /\ page \in [Readers -> PageState]

\* A request has not begun, is about to lock the post, or holds it; the rows it
\* has yet to lock are not its own.
HoldsNothing(s) == \A l \in {Post} \cup Ids : locks[l] # s

Resting(s) == tx[s] = NoTx /\ HoldsNothing(s)

AtPost(s) ==
    /\ tx[s].op # "none"
    /\ tx[s].path = Path(tx[s].op, tx[s].target)
    /\ HoldsNothing(s)

PastPost(s) ==
    /\ tx[s].op # "none"
    /\ locks[Post] = s
    /\ \/ tx[s].path = <<>>
       \/ /\ tx[s].op \in OnComment
          /\ tx[s].path = <<tx[s].target>>
          /\ locks[tx[s].target] # s
       \/ /\ tx[s].op = "hide" /\ IsReply(tx[s].target)
          /\ tx[s].path = <<parent[tx[s].target], tx[s].target>>
          /\ locks[tx[s].target] # s /\ locks[parent[tx[s].target]] # s

\* The post is locked before any comment and released with it.
LockInv ==
    /\ \A s \in Requests : Resting(s) \/ AtPost(s) \/ PastPost(s)
    /\ \A l \in Ids : locks[l] # NoRequest => locks[l] = locks[Post]

\* What the holder of the post found when it locked its rows is still so.
FoundInv ==
    \A s \in Requests : locks[Post] = s =>
        /\ tx[s].op \in {"comment", "reply"} => ~withdrawn
        /\ tx[s].path = <<>> =>
             /\ tx[s].op = "reply" => Visible(tx[s].target)
             /\ tx[s].op = "withdraw" => status[tx[s].target] \in {"visible", "withdrawn"}
             /\ tx[s].op = "hide" => status[tx[s].target] \in {"visible", "hidden"}

AccountInv == CountIsVisible /\ HiddenHasOneReceipt

\* What a reader's list began with, it was shown or will meet below the cursor;
\* an identifier listed for the first time is new.
StartIsOld(p) ==
    IF p.list \in AuditLists THEN p.start \subseteq 1..Len(audits)
    ELSE \A c \in p.start : c \in Ids /\ Exists(c)

PageInv ==
    \A r \in Readers :
        /\ StartIsOld(page[r])
        /\ page[r].more => page[r].list # "none"
        /\ \A i \in page[r].start \cap Listed(page[r].list, page[r].of) :
             i \in page[r].shown \/ (page[r].more /\ i < page[r].before)

CommentsInv == TypeInv /\ RowsInv /\ LockInv /\ FoundInv /\ AccountInv /\ PageInv
-----------------------------------------------------------------------------
(* What the model's operators give.                                        *)

LEMMA Ranges ==
    /\ Post \notin Ids /\ Root \notin Ids /\ IsFiniteSet(Ids) /\ Ids \subseteq Nat
    /\ NoTx \in TxState /\ NoPage \in PageState
    /\ NoTx.op = "none" /\ NoTx.target = Root /\ NoTx.path = <<>>
<1>1. Post \notin Ids /\ Root \notin Ids /\ Ids \subseteq Nat
    BY DEF Post, Root, Ids
<1>2. IsFiniteSet(Ids)
    BY FS_Interval DEF Ids
<1>3. NoTx \in TxState
    BY DEF NoTx, TxState, Ops
<1>4. NoPage \in PageState
    BY DEF NoPage, PageState
<1> QED BY <1>1, <1>2, <1>3, <1>4 DEF NoTx

LEMMA TypesAreOK == TypeInv => TypeOK
BY DEF TypeInv, TypeOK, TxState, PageState, Ops

LEMMA PathType ==
    ASSUME parent \in [Ids -> {Root} \cup Ids], NEW op \in Ops, NEW c \in {Root} \cup Ids,
           op \in OnComment => c \in Ids
    PROVE  /\ Path(op, c) \in Seq({Post} \cup Ids)
           /\ Path(op, c) # <<>> /\ Head(Path(op, c)) = Post
           /\ op \notin OnComment => Tail(Path(op, c)) = <<>> \/ op = "none"
           /\ op = "hide" /\ IsReply(c) => Tail(Path(op, c)) = <<parent[c], c>>
           /\ op \in OnComment /\ ~(op = "hide" /\ IsReply(c)) => Tail(Path(op, c)) = <<c>>
<1> USE DEF Path, Ops, OnComment
<1>0. Root = Post
    BY DEF Root, Post
<1>1. CASE op \in {"comment", "withdrawPost"}
    <2>1. Path(op, c) = <<Post>>
        BY <1>1
    <2> HIDE DEF Path
    <2> QED BY <1>1, <2>1
<1>2. CASE op = "hide" /\ IsReply(c)
    <2>1. Path(op, c) = <<Post, parent[c], c>>
        BY <1>2
    <2>2. parent[c] \in {Post} \cup Ids /\ c \in {Post} \cup Ids
        BY <1>0, <1>2
    <2>3. <<Post, parent[c], c>> \in Seq({Post} \cup Ids)
        BY <2>2
    <2>4. /\ <<Post, parent[c], c>> # <<>> /\ Head(<<Post, parent[c], c>>) = Post
          /\ Tail(<<Post, parent[c], c>>) = <<parent[c], c>>
        OBVIOUS
    <2> HIDE DEF Path
    <2> QED BY <1>2, <2>1, <2>3, <2>4
<1>3. CASE op \notin {"comment", "withdrawPost"} /\ ~(op = "hide" /\ IsReply(c))
    <2>1. Path(op, c) = <<Post, c>>
        BY <1>3
    <2>2. c \in {Post} \cup Ids
        BY <1>0
    <2> HIDE DEF Path
    <2> QED BY <1>3, <2>1, <2>2
<1> QED BY <1>1, <1>2, <1>3

LEMMA Heads ==
    ASSUME NEW a, NEW b
    PROVE  /\ <<a>> # <<>> /\ Head(<<a>>) = a /\ Tail(<<a>>) = <<>>
           /\ <<a, b>> # <<>> /\ Head(<<a, b>>) = a /\ Tail(<<a, b>>) = <<b>>
OBVIOUS

\* A receipt names a hidden comment.
LEMMA ReceiptsAreOfHidden ==
    ASSUME TypeInv, HiddenHasOneReceipt, NEW i \in 1..Len(audits)
    PROVE  audits[i] \in Ids /\ status[audits[i]] = "hidden"
<1>1. audits[i] \in Ids /\ Len(audits) \in Nat
    BY DEF TypeInv
<1> DEFINE R == {j \in 1..Len(audits) : audits[j] = audits[i]}
<1>2. IsFiniteSet(1..Len(audits)) /\ R \in SUBSET (1..Len(audits)) /\ i \in R
    BY <1>1, FS_Interval
<1>3. IsFiniteSet(R) /\ R # {}
    BY <1>2, FS_Subset
<1>4. Cardinality(R) # 0
    BY <1>3, FS_EmptySet
<1> QED BY <1>1, <1>4 DEF HiddenHasOneReceipt

\* The next identifier is the one after the last.
LEMMA NextIdIsNew ==
    ASSUME NoGaps
    PROVE  \E n \in 0..MaxComments : NextId = n + 1 /\ \A c \in Ids : Exists(c) <=> c <= n
<1>1. PICK n \in 0..MaxComments : \A c \in Ids : Exists(c) <=> c <= n
    BY DEF NoGaps
<1>2. {c \in Ids : Exists(c)} = 1..n
    BY <1>1 DEF Ids
<1>3. Cardinality(1..n) = n
    BY FS_Interval
<1> QED BY <1>1, <1>2, <1>3 DEF NextId

LEMMA VisibleAreFinite ==
    IsFiniteSet(VisibleComments) /\ Cardinality(VisibleComments) \in Nat
<1>1. VisibleComments \in SUBSET Ids
    BY DEF VisibleComments
<1> QED BY <1>1, Ranges, FS_Subset, FS_CardinalityType
-----------------------------------------------------------------------------
LEMMA InitInv == Init => CommentsInv
<1> SUFFICES ASSUME Init PROVE CommentsInv
    OBVIOUS
<1> USE DEF Init
<1>1. TypeInv
    <2>1. tx \in [Requests -> TxState]
        BY Ranges
    <2>2. page \in [Readers -> PageState]
        BY Ranges
    <2>3. /\ parent \in [Ids -> {Root} \cup Ids]
          /\ status \in [Ids -> {"none", "visible", "withdrawn", "hidden"}]
          /\ locks \in [{Post} \cup Ids -> Requests \cup {NoRequest}]
        OBVIOUS
    <2>4. withdrawn \in BOOLEAN /\ count \in Nat
        OBVIOUS
    <2>5. <<>> \in Seq(Ids)
        OBVIOUS
    <2>6. audits \in Seq(Ids)
        BY <2>5
    <2> QED BY <2>1, <2>2, <2>3, <2>4, <2>6 DEF TypeInv
<1>2. RowsInv
    <2>1. \A c \in Ids : ~Exists(c)
        BY DEF Exists
    <2>2. NoGaps
        <3>1. 0 \in 0..MaxComments /\ \A c \in Ids : Exists(c) <=> c <= 0
            BY <2>1 DEF Ids
        <3> QED BY <3>1 DEF NoGaps
    <2> QED BY <2>2, Ranges DEF RowsInv, OnComment
<1>3. LockInv
    BY DEF LockInv, Resting, HoldsNothing
<1>4. FoundInv
    BY Ranges DEF FoundInv
<1>5. AccountInv
    <2>1. VisibleComments = {}
        BY DEF VisibleComments, Visible
    <2>2. \A c \in Ids : {i \in 1..Len(audits) : audits[i] = c} = {}
        OBVIOUS
    <2> QED BY <2>1, <2>2, FS_EmptySet DEF AccountInv, CountIsVisible, HiddenHasOneReceipt
<1>6. PageInv
    BY DEF PageInv, NoPage, StartIsOld
<1> QED BY <1>1, <1>2, <1>3, <1>4, <1>5, <1>6 DEF CommentsInv
-----------------------------------------------------------------------------
\* What no step takes back: a comment keeps its parent, a receipt its place, and
\* what is not visible does not become so again.
Grows ==
    /\ \A c \in Ids : Exists(c) => Exists(c)' /\ parent'[c] = parent[c]
    /\ \A c \in Ids : Exists(c) /\ Visible(c)' => Visible(c)
    /\ audits' \in Seq(Ids) /\ Len(audits) <= Len(audits')
    /\ \A i \in 1..Len(audits) : audits'[i] = audits[i]

LEMMA UnchangedGrows == TypeInv /\ UNCHANGED <<parent, status, audits>> => Grows
BY DEF Grows, Exists, Visible, TypeInv

LEMMA ListedWasListed ==
    ASSUME CommentsInv, Grows, NEW p \in PageState, StartIsOld(p),
           parent' \in [Ids -> {Root} \cup Ids],
           NEW i \in p.start, i \in Listed(p.list, p.of)'
    PROVE  i \in Listed(p.list, p.of)
<1>1. TypeInv /\ HiddenHasOneReceipt
    BY DEF CommentsInv, AccountInv
<1>2. CASE p.list \in {"comments", "replies"}
    <2>1. i \in Ids /\ Exists(i)
        BY <1>2 DEF StartIsOld, AuditLists
    <2> QED BY <1>2, <2>1 DEF Listed, Grows, VisibleComments
<1>3. CASE p.list \in AuditLists
    <2>1. i \in 1..Len(audits) /\ audits'[i] = audits[i]
        BY <1>3 DEF StartIsOld, Grows
    <2>2. PICK c \in Ids : c = audits[i] /\ Exists(c)
        BY <1>1, <2>1, ReceiptsAreOfHidden DEF Exists
    <2>3. /\ Exists(c)' /\ parent'[c] = parent[c]
        BY <2>2 DEF Grows
    <2> QED BY <1>3, <2>1, <2>2, <2>3 DEF Listed, AuditLists, IsRoot, IsReply, Exists
<1> QED BY <1>2, <1>3 DEF PageState, Lists, AuditLists, Listed

\* A step of a request leaves the readers' lists sound.
LEMMA WritesKeepPages ==
    ASSUME CommentsInv, Grows, UNCHANGED page, parent' \in [Ids -> {Root} \cup Ids]
    PROVE  PageInv'
<1>1. TypeInv
    BY DEF CommentsInv
<1> SUFFICES ASSUME NEW r \in Readers
             PROVE  /\ StartIsOld(page[r])'
                    /\ page[r].more => page[r].list # "none"
                    /\ \A i \in page[r].start \cap Listed(page[r].list, page[r].of)' :
                         i \in page[r].shown \/ (page[r].more /\ i < page[r].before)
    BY DEF PageInv
<1>2. page[r] \in PageState /\ StartIsOld(page[r])
    BY DEF CommentsInv, TypeInv, PageInv
<1>3. StartIsOld(page[r])'
    BY <1>1, <1>2 DEF StartIsOld, Grows, TypeInv
<1>4. \A i \in page[r].start \cap Listed(page[r].list, page[r].of)' :
          i \in Listed(page[r].list, page[r].of)
    BY <1>2, ListedWasListed
<1> QED BY <1>2, <1>3, <1>4 DEF CommentsInv, PageInv
-----------------------------------------------------------------------------
\* A request begins: it has locked nothing.
LEMMA BeginKeeps ==
    ASSUME CommentsInv, NEW s \in Requests, NEW op \in Ops \ {"none"}, NEW c \in {Root} \cup Ids,
           Begin(s, op, c),
           op \in OnComment => c \in Ids /\ Exists(c), op \notin OnComment => c = Root,
           op = "reply" => IsRoot(c)
    PROVE  CommentsInv'
<1> USE DEF Begin
<1>0. TypeInv /\ RowsInv /\ LockInv /\ FoundInv
    BY DEF CommentsInv
<1>1. Path(op, c) \in Seq({Post} \cup Ids)
    BY <1>0, PathType DEF TypeInv
<1>2. /\ tx' = [tx EXCEPT ![s] = [op |-> op, target |-> c, path |-> Path(op, c)]]
      /\ [op |-> op, target |-> c, path |-> Path(op, c)] \in TxState
    BY <1>1 DEF TxState
<1>3. TypeInv'
    BY <1>0, <1>2 DEF TypeInv, rows
<1>4. tx'[s].op = op /\ tx'[s].target = c /\ tx'[s].path = Path(op, c)
    BY <1>0, <1>2 DEF TypeInv
<1>5. \A q \in Requests \ {s} : tx'[q] = tx[q]
    BY <1>0, <1>2 DEF TypeInv
<1>6. RowsInv'
    <2>1. NoGaps'
        BY <1>0 DEF RowsInv, NoGaps, Exists, rows
    <2>2. \A b \in Ids : parent'[b] # Root => Exists(b)' /\ IsRoot(parent[b])'
        BY <1>0 DEF RowsInv, Exists, IsRoot, rows
    <2>3. \A q \in Requests :
              /\ tx'[q].op \in OnComment => tx'[q].target \in Ids /\ Exists(tx[q].target)'
              /\ tx'[q].op \notin OnComment => tx'[q].target = Root
              /\ tx'[q].op = "reply" => IsRoot(tx[q].target)'
        <3> SUFFICES ASSUME NEW q \in Requests
                     PROVE  /\ tx'[q].op \in OnComment =>
                                  tx'[q].target \in Ids /\ Exists(tx[q].target)'
                            /\ tx'[q].op \notin OnComment => tx'[q].target = Root
                            /\ tx'[q].op = "reply" => IsRoot(tx[q].target)'
            OBVIOUS
        <3>1. CASE q = s
            BY <3>1, <1>4 DEF Exists, IsRoot, rows
        <3>2. CASE q # s
            BY <3>2, <1>0, <1>5 DEF RowsInv, Exists, IsRoot, rows
        <3> QED BY <3>1, <3>2
    <2> QED BY <2>1, <2>2, <2>3 DEF RowsInv
<1>7. HoldsNothing(s) /\ locks[Post] # s
    BY <1>0, Ranges DEF LockInv, Resting, AtPost, PastPost, HoldsNothing
<1>8. LockInv'
    <2>1. \A q \in Requests : (Resting(q) \/ AtPost(q) \/ PastPost(q))'
        <3> SUFFICES ASSUME NEW q \in Requests
                     PROVE  (Resting(q) \/ AtPost(q) \/ PastPost(q))'
            OBVIOUS
        <3>1. CASE q = s
            BY <3>1, <1>4, <1>7 DEF AtPost, HoldsNothing, Path, IsReply, Exists, rows
        <3>2. CASE q # s
            BY <3>2, <1>0, <1>5
            DEF LockInv, Resting, AtPost, PastPost, HoldsNothing, Path, IsReply, Exists, rows
        <3> QED BY <3>1, <3>2
    <2> QED BY <1>0, <2>1 DEF LockInv
<1>9. FoundInv'
    BY <1>0, <1>5, <1>7 DEF FoundInv, Visible, rows
<1>10. AccountInv'
    BY DEF CommentsInv, AccountInv, CountIsVisible, HiddenHasOneReceipt, VisibleComments,
           Visible, rows
<1>11. PageInv'
    BY <1>0, UnchangedGrows, WritesKeepPages DEF TypeInv, rows
<1> QED BY <1>3, <1>6, <1>8, <1>9, <1>10, <1>11 DEF CommentsInv

LEMMA StartsKeeps ==
    ASSUME CommentsInv, NEW s \in Requests, Starts(s)
    PROVE  CommentsInv'
<1>1. CASE BeginComment(s)
    BY <1>1, BeginKeeps, Ranges DEF BeginComment, Ops, OnComment
<1>2. CASE BeginWithdrawPost(s)
    BY <1>2, BeginKeeps, Ranges DEF BeginWithdrawPost, Ops, OnComment
<1>3. ASSUME NEW c \in Ids, BeginReply(s, c) PROVE CommentsInv'
    BY <1>3, BeginKeeps, Ranges DEF BeginReply, IsRoot, Ops, OnComment
<1>4. ASSUME NEW c \in Ids, BeginWithdraw(s, c) PROVE CommentsInv'
    BY <1>4, BeginKeeps, Ranges DEF BeginWithdraw, Exists, Ops, OnComment
<1>5. ASSUME NEW c \in Ids, BeginHide(s, c) PROVE CommentsInv'
    BY <1>5, BeginKeeps, Ranges DEF BeginHide, Exists, Ops, OnComment
<1> QED BY <1>1, <1>2, <1>3, <1>4, <1>5 DEF Starts
-----------------------------------------------------------------------------
\* A request that ends rests and leaves the others their rows.
LEMMA EndTypes ==
    ASSUME CommentsInv, NEW s \in Requests, End(s)
    PROVE  /\ tx' \in [Requests -> TxState] /\ page' \in [Readers -> PageState]
           /\ locks' \in [{Post} \cup Ids -> Requests \cup {NoRequest}]
           /\ tx'[s] = NoTx /\ \A q \in Requests \ {s} : tx'[q] = tx[q]
           /\ \A l \in {Post} \cup Ids :
                locks'[l] = IF locks[l] = s THEN NoRequest ELSE locks[l]
BY Ranges DEF CommentsInv, TypeInv, End

LEMMA EndKeepsLocks ==
    ASSUME CommentsInv, Grows, NEW s \in Requests, End(s)
    PROVE  /\ LockInv'
           /\ \A q \in Requests :
                /\ tx'[q].op \in OnComment => tx'[q].target \in Ids /\ Exists(tx[q].target)'
                /\ tx'[q].op \notin OnComment => tx'[q].target = Root
                /\ tx'[q].op = "reply" => IsRoot(tx[q].target)'
<1>0. TypeInv /\ RowsInv /\ LockInv
    BY DEF CommentsInv
<1>1. \A q \in Requests \ {s} : tx'[q] = tx[q]
    BY EndTypes
<1>2. tx'[s] = NoTx /\ HoldsNothing(s)'
    BY EndTypes DEF HoldsNothing
<1>3. \A l \in Ids : locks'[l] # NoRequest => locks'[l] = locks'[Post]
    BY <1>0, EndTypes DEF LockInv
<1>4. ASSUME NEW q \in Requests, q # s
      PROVE  (Resting(q) \/ AtPost(q) \/ PastPost(q))'
    <2>1. tx'[q] = tx[q] /\ \A l \in {Post} \cup Ids : locks'[l] = q <=> locks[l] = q
        BY <1>4, EndTypes
    <2>2. CASE Resting(q)
        BY <2>1, <2>2 DEF Resting, HoldsNothing
    <2>3. PICK c \in {Root} \cup Ids : c = tx[q].target
        BY <1>0 DEF TypeInv, TxState
    <2>4. \A b \in Ids : Exists(b) => Exists(b)' /\ parent'[b] = parent[b]
        BY DEF Grows
    <2>5. tx[q].op \in OnComment => c \in Ids /\ Exists(c)
        BY <1>0, <2>3 DEF RowsInv
    <2>6. tx[q].op \in OnComment => (IsReply(c) <=> IsReply(c)') /\ parent'[c] = parent[c]
        BY <2>4, <2>5 DEF IsReply, Exists
    <2>7. CASE AtPost(q)
        BY <2>1, <2>3, <2>6, <2>7 DEF AtPost, HoldsNothing, Path, OnComment, IsReply, Exists
    <2>8. CASE PastPost(q)
        <3>1. locks'[Post] = q /\ tx'[q].op # "none"
            BY <2>1, <2>8 DEF PastPost
        <3>2. CASE tx[q].path = <<>>
            BY <3>1, <3>2, <2>1 DEF PastPost
        <3>3. CASE tx[q].op \in OnComment /\ tx[q].path = <<c>> /\ locks[c] # q
            BY <3>1, <3>3, <2>1, <2>3, <2>5 DEF PastPost
        <3>4. CASE /\ tx[q].op = "hide" /\ IsReply(c) /\ tx[q].path = <<parent[c], c>>
                   /\ locks[c] # q /\ locks[parent[c]] # q
            <4>1. c \in Ids /\ parent[c] \in Ids /\ parent'[c] = parent[c] /\ IsReply(c)'
                BY <1>0, <3>4, <2>5, <2>6 DEF OnComment, IsReply, TypeInv
            <4>2. tx'[q].path = <<parent'[c], c>> /\ locks'[c] # q /\ locks'[parent'[c]] # q
                BY <3>4, <4>1, <2>1
            <4> QED BY <3>1, <3>4, <4>1, <4>2, <2>1, <2>3 DEF PastPost, IsReply, Exists
        <3> QED BY <2>3, <2>8, <3>2, <3>3, <3>4 DEF PastPost
    <2> QED BY <1>0, <2>2, <2>7, <2>8 DEF LockInv
<1>5. LockInv'
    BY <1>2, <1>3, <1>4 DEF LockInv, Resting
<1>6. ASSUME NEW q \in Requests
      PROVE  /\ tx'[q].op \in OnComment => tx'[q].target \in Ids /\ Exists(tx[q].target)'
             /\ tx'[q].op \notin OnComment => tx'[q].target = Root
             /\ tx'[q].op = "reply" => IsRoot(tx[q].target)'
    <2>1. CASE q = s
        BY <1>2, <2>1, Ranges DEF OnComment
    <2>2. CASE q # s
        <3>1. PICK c \in {Root} \cup Ids : c = tx[q].target
            BY <1>0 DEF TypeInv, TxState
        <3>2. tx[q].op \in OnComment => c \in Ids /\ Exists(c)' /\ parent'[c] = parent[c]
            BY <1>0, <3>1 DEF RowsInv, Grows
        <3> QED BY <1>0, <1>1, <2>2, <3>1, <3>2 DEF RowsInv, OnComment, IsRoot, Exists
    <2> QED BY <2>1, <2>2
<1> QED BY <1>5, <1>6

\* What there is to show of a step that ends a request.
LEMMA EndsKeep ==
    ASSUME CommentsInv, Grows, NEW s \in Requests, End(s),
           locks[Post] = s \/ UNCHANGED <<withdrawn, status>>,
           withdrawn' \in BOOLEAN, count' \in Nat, parent' \in [Ids -> {Root} \cup Ids],
           status' \in [Ids -> {"none", "visible", "withdrawn", "hidden"}],
           NoGaps',
           \A b \in Ids : parent'[b] # Root => Exists(b)' /\ IsRoot(parent[b])',
           AccountInv'
    PROVE  CommentsInv'
<1>1. TypeInv'
    BY EndTypes DEF Grows, TypeInv
<1>2. RowsInv'
    BY EndKeepsLocks DEF RowsInv
<1>3. LockInv'
    BY EndKeepsLocks
<1>4. FoundInv'
    <2>1. locks'[Post] = IF locks[Post] = s THEN NoRequest ELSE locks[Post]
        BY EndTypes
    <2>2. CASE locks[Post] = s
        BY <2>1, <2>2 DEF FoundInv
    <2>3. CASE locks[Post] # s /\ UNCHANGED <<withdrawn, status>>
        BY <2>1, <2>3, EndTypes DEF CommentsInv, FoundInv, Visible
    <2> QED BY <2>2, <2>3
<1>5. PageInv'
    BY WritesKeepPages DEF End
<1> QED BY <1>1, <1>2, <1>3, <1>4, <1>5 DEF CommentsInv

LEMMA EndKeeps ==
    ASSUME CommentsInv, NEW s \in Requests, End(s), UNCHANGED <<withdrawn, count, rows, audits>>
    PROVE  CommentsInv'
<1>1. /\ TypeInv /\ RowsInv /\ AccountInv
      /\ UNCHANGED <<withdrawn, count, parent, status, audits>>
    BY DEF CommentsInv, rows
<1>2. Grows
    BY <1>1, UnchangedGrows
<1>3. NoGaps' /\ \A b \in Ids : parent'[b] # Root => Exists(b)' /\ IsRoot(parent[b])'
    BY <1>1 DEF RowsInv, NoGaps, Exists, IsRoot
<1>4. AccountInv'
    BY <1>1 DEF AccountInv, CountIsVisible, HiddenHasOneReceipt, VisibleComments, Visible
<1>5. /\ withdrawn' \in BOOLEAN /\ count' \in Nat /\ parent' \in [Ids -> {Root} \cup Ids]
      /\ status' \in [Ids -> {"none", "visible", "withdrawn", "hidden"}]
    BY <1>1 DEF TypeInv
<1> QED BY <1>1, <1>2, <1>3, <1>4, <1>5, EndsKeep

\* The row a request locks next is free; it is the post, or the request holds
\* the post already.
LEMMA AcquireKeeps ==
    ASSUME CommentsInv, NEW s \in Requests, Acquire(s)
    PROVE  CommentsInv'
<1> DEFINE l == Head(tx[s].path)
<1>0. TypeInv /\ RowsInv /\ LockInv /\ FoundInv
    BY DEF CommentsInv
<1>1. /\ tx[s].path # <<>> /\ locks[l] = NoRequest
      /\ UNCHANGED <<withdrawn, count, parent, status, audits>>
    BY DEF Acquire, rows
<1>2. CASE ~Admits(s, l) /\ End(s)
    BY <1>1, <1>2, EndKeeps DEF rows
<1>3. CASE /\ Admits(s, l) /\ UNCHANGED page
           /\ locks' = [locks EXCEPT ![l] = s]
           /\ tx' = [tx EXCEPT ![s].path = Tail(@)]
    <2>1. PICK c \in {Root} \cup Ids : c = tx[s].target
        BY <1>0 DEF TypeInv, TxState
    <2>2. PICK op \in Ops : op = tx[s].op
        BY <1>0 DEF TypeInv, TxState
    <2>3. op \in OnComment => c \in Ids /\ Exists(c)
        BY <1>0, <2>1, <2>2 DEF RowsInv
    <2>4. tx[s].path \in Seq({Post} \cup Ids)
        BY <1>0 DEF TypeInv, TxState
    <2>5. l \in {Post} \cup Ids /\ Tail(tx[s].path) \in Seq({Post} \cup Ids)
        BY <1>1, <2>4
    <2>6. \A q \in Requests \ {s} : tx'[q] = tx[q]
        BY <1>0, <1>3 DEF TypeInv
    <2>7. tx'[s].op = op /\ tx'[s].target = c /\ tx'[s].path = Tail(tx[s].path)
        BY <1>0, <1>3, <2>1, <2>2 DEF TypeInv, TxState
    <2>8. \A k \in {Post} \cup Ids : locks'[k] = IF k = l THEN s ELSE locks[k]
        BY <1>0, <1>3, <2>5 DEF TypeInv
    <2>9. TypeInv'
        <3>1. tx' \in [Requests -> TxState]
            BY <1>0, <1>3, <2>5 DEF TypeInv, TxState
        <3>2. locks' \in [{Post} \cup Ids -> Requests \cup {NoRequest}]
            BY <1>0, <1>3 DEF TypeInv
        <3> QED BY <1>0, <1>1, <1>3, <3>1, <3>2 DEF TypeInv
    <2>10. RowsInv'
        <3>1. NoGaps' /\ \A b \in Ids : parent'[b] # Root => Exists(b)' /\ IsRoot(parent[b])'
            BY <1>0, <1>1 DEF RowsInv, NoGaps, Exists, IsRoot
        <3>2. \A q \in Requests : tx'[q].op = tx[q].op /\ tx'[q].target = tx[q].target
            BY <2>1, <2>2, <2>6, <2>7
        <3> QED BY <1>0, <1>1, <3>1, <3>2 DEF RowsInv, Exists, IsRoot
    <2>11. AccountInv'
        BY <1>1 DEF CommentsInv, AccountInv, CountIsVisible, HiddenHasOneReceipt,
                    VisibleComments, Visible
    <2>12. PageInv'
        BY <1>0, <1>1, <1>3, UnchangedGrows, WritesKeepPages DEF TypeInv
    <2>13. LockInv' /\ FoundInv'
        <3>0. \A q \in Requests \ {s} : (Resting(q) \/ AtPost(q) \/ PastPost(q))'
            <4> SUFFICES ASSUME NEW q \in Requests, q # s
                         PROVE  (Resting(q) \/ AtPost(q) \/ PastPost(q))'
                OBVIOUS
            <4>1. tx'[q] = tx[q] /\ \A k \in {Post} \cup Ids : locks'[k] = q <=> locks[k] = q
                BY <1>1, <2>6, <2>8
            <4>2. PICK b \in {Root} \cup Ids : b = tx[q].target
                BY <1>0 DEF TypeInv, TxState
            <4>3. tx[q].op \in OnComment => b \in Ids
                BY <1>0, <4>2 DEF RowsInv
            <4>4. CASE Resting(q)
                BY <4>1, <4>4 DEF Resting, HoldsNothing
            <4>5. CASE AtPost(q)
                BY <1>1, <4>1, <4>5 DEF AtPost, HoldsNothing, Path, IsReply, Exists
            <4>6. CASE PastPost(q)
                <5>1. IsReply(b) /\ b \in Ids => parent[b] \in Ids
                    BY <1>0 DEF IsReply, TypeInv
                <5> QED BY <1>1, <4>1, <4>2, <4>3, <4>6, <5>1
                        DEF PastPost, OnComment, IsReply, Exists
            <4> QED BY <1>0, <4>4, <4>5, <4>6 DEF LockInv
        <3>1. CASE AtPost(s)
            <4>1. /\ op # "none" /\ tx[s].path = Path(op, c) /\ HoldsNothing(s)
                BY <2>1, <2>2, <3>1 DEF AtPost
            <4>2. /\ l = Post
                  /\ op \notin OnComment => Tail(tx[s].path) = <<>>
                  /\ op = "hide" /\ IsReply(c) => Tail(tx[s].path) = <<parent[c], c>>
                  /\ op \in OnComment /\ ~(op = "hide" /\ IsReply(c)) => Tail(tx[s].path) = <<c>>
                BY <1>0, <2>3, <4>1, PathType DEF TypeInv
            <4>3. PastPost(s)'
                <5>1. CASE op \notin OnComment
                    BY <2>7, <2>8, <4>1, <4>2, <5>1 DEF PastPost
                <5>2. CASE op = "hide" /\ IsReply(c)
                    <6>1. c \in Ids /\ parent[c] \in Ids /\ IsReply(c)' /\ parent'[c] = parent[c]
                        BY <1>0, <1>1, <2>3, <5>2 DEF OnComment, IsReply, Exists, TypeInv
                    <6>2. locks'[c] # s /\ locks'[parent[c]] # s /\ locks'[Post] = s
                        BY <2>8, <4>1, <4>2, <6>1, Ranges DEF HoldsNothing
                    <6> QED BY <2>7, <4>1, <4>2, <5>2, <6>1, <6>2 DEF PastPost, IsReply, Exists
                <5>3. CASE op \in OnComment /\ ~(op = "hide" /\ IsReply(c))
                    <6>1. c \in Ids /\ locks'[c] # s /\ locks'[Post] = s
                        BY <2>3, <2>8, <4>1, <4>2, <5>3, Ranges DEF HoldsNothing
                    <6> QED BY <2>7, <4>1, <4>2, <5>3, <6>1 DEF PastPost
                <5> QED BY <5>1, <5>2, <5>3
            <4>4. \A k \in Ids : locks[k] = NoRequest
                BY <1>0, <1>1, <4>2 DEF LockInv
            <4>5. LockInv'
                BY <2>8, <3>0, <4>2, <4>3, <4>4, Ranges DEF LockInv
            <4>6. tx'[s].path = <<>> => op \notin OnComment
                <5>1. <<c>> # <<>> /\ <<parent[c], c>> # <<>>
                    BY Heads
                <5> QED BY <2>7, <4>2, <5>1
            <4>7. op \in {"comment", "reply"} => ~withdrawn
                BY <1>3, <2>2, <4>2 DEF Admits
            <4>8. FoundInv'
                BY <1>1, <2>7, <2>8, <4>2, <4>6, <4>7 DEF FoundInv, OnComment
            <4> QED BY <4>5, <4>8
        <3>2. CASE PastPost(s)
            <4>1. op \in OnComment /\ c \in Ids /\ locks[Post] = s /\ op # "none"
                BY <1>1, <2>1, <2>2, <2>3, <3>2 DEF PastPost, OnComment
            <4>2. CASE tx[s].path = <<c>>
                <5>1. l = c /\ tx'[s].path = <<>>
                    BY <2>7, <4>2, Heads
                <5>2. locks'[Post] = s
                    BY <2>8, <4>1, <5>1, Ranges
                <5>3. PastPost(s)'
                    BY <2>7, <4>1, <5>1, <5>2 DEF PastPost
                <5>4. LockInv'
                    BY <1>0, <2>8, <3>0, <4>1, <5>2, <5>3 DEF LockInv
                <5>5. /\ op = "reply" => Visible(c)
                      /\ op = "withdraw" => status[c] \in {"visible", "withdrawn"}
                      /\ op = "hide" => status[c] \in {"visible", "hidden"}
                    BY <1>3, <2>1, <2>2, <4>1, <5>1, Ranges DEF Admits
                <5>6. op \in {"comment", "reply"} => ~withdrawn
                    BY <1>0, <2>2, <4>1 DEF FoundInv
                <5>7. FoundInv'
                    BY <1>1, <2>7, <5>2, <5>5, <5>6 DEF FoundInv, Visible
                <5> QED BY <5>4, <5>7
            <4>3. CASE /\ op = "hide" /\ IsReply(c) /\ tx[s].path = <<parent[c], c>>
                       /\ locks[c] # s /\ locks[parent[c]] # s
                <5>1. l = parent[c] /\ tx'[s].path = <<c>> /\ l \in Ids /\ l # c
                    <6>1. parent[c] \in Ids /\ IsRoot(parent[c]) /\ parent[c] # Root
                        BY <1>0, <4>1, <4>3 DEF RowsInv, IsReply, TypeInv
                    <6>2. parent[c] # c
                        BY <6>1 DEF IsRoot
                    <6> QED BY <2>7, <4>3, <6>1, <6>2, Heads
                <5>2. locks'[Post] = s /\ locks'[c] # s
                    BY <2>8, <4>1, <4>3, <5>1, Ranges
                <5>3. PastPost(s)'
                    BY <2>7, <4>1, <5>1, <5>2 DEF PastPost
                <5>4. LockInv'
                    BY <1>0, <2>8, <3>0, <4>1, <5>1, <5>2, <5>3 DEF LockInv
                <5>5. FoundInv'
                    BY <1>1, <2>7, <4>3, <5>1, <5>2, Heads DEF FoundInv
                <5> QED BY <5>4, <5>5
            <4> QED BY <1>1, <2>1, <2>2, <3>2, <4>2, <4>3 DEF PastPost
        <3> QED BY <1>0, <1>1, <3>1, <3>2 DEF LockInv, Resting, NoTx
    <2> QED BY <2>9, <2>10, <2>11, <2>12, <2>13 DEF CommentsInv
<1> QED BY <1>1, <1>2, <1>3 DEF Acquire
-----------------------------------------------------------------------------
(* The writes.                                                             *)

LEMMA WriterHoldsThePost ==
    ASSUME CommentsInv, NEW s \in Requests, NEW op \in Ops \ {"none"}, Locked(s, op)
    PROVE  locks[Post] = s /\ tx[s].op = op /\ tx[s].path = <<>>
<1>1. tx[s].op = op /\ tx[s].path = <<>> /\ op # "none"
    BY DEF Locked
<1>2. Path(op, tx[s].target) # <<>>
    <2>1. tx[s].target \in {Root} \cup Ids /\ (op \in OnComment => tx[s].target \in Ids)
        BY <1>1 DEF CommentsInv, TypeInv, TxState, RowsInv
    <2> QED BY <2>1, PathType DEF CommentsInv, TypeInv
<1> QED BY <1>1, <1>2 DEF CommentsInv, LockInv, Resting, AtPost, PastPost, NoTx

LEMMA CreateKeeps ==
    ASSUME CommentsInv, NEW s \in Requests, Create(s)
    PROVE  CommentsInv'
<1>0. TypeInv /\ RowsInv /\ LockInv /\ FoundInv /\ AccountInv
    BY DEF CommentsInv
<1>1. locks[Post] = s /\ tx[s].op \in {"comment", "reply"} /\ tx[s].path = <<>>
    BY WriterHoldsThePost DEF Create, Ops
<1>2. PICK c \in {Root} \cup Ids : c = tx[s].target
    BY <1>0 DEF TypeInv, TxState
<1>3. c # Root => c \in Ids /\ IsRoot(c)
    BY <1>0, <1>1, <1>2 DEF RowsInv, OnComment
<1>4. PICK n \in 0..MaxComments : NextId = n + 1 /\ \A b \in Ids : Exists(b) <=> b <= n
    BY <1>0, NextIdIsNew DEF RowsInv
<1>5. PICK m \in Ids : m = n + 1 /\ m = NextId /\ ~Exists(m)
    BY <1>4 DEF Create, Ids
<1>6. /\ parent' = [parent EXCEPT ![m] = c] /\ status' = [status EXCEPT ![m] = "visible"]
      /\ count' = count + 1 /\ End(s) /\ withdrawn' = withdrawn /\ audits' = audits
    BY <1>2, <1>5 DEF Create
<1>7. /\ withdrawn' \in BOOLEAN /\ count' \in Nat /\ parent' \in [Ids -> {Root} \cup Ids]
      /\ status' \in [Ids -> {"none", "visible", "withdrawn", "hidden"}]
    BY <1>0, <1>6 DEF TypeInv
<1>8. /\ \A b \in Ids \ {m} : status'[b] = status[b] /\ parent'[b] = parent[b]
      /\ status'[m] = "visible" /\ parent'[m] = c
    BY <1>0, <1>6 DEF TypeInv
<1>9. Grows
    BY <1>0, <1>5, <1>6, <1>8 DEF Grows, Exists, Visible, TypeInv
<1>10. NoGaps'
    <2>1. n + 1 \in 0..MaxComments
        BY <1>5 DEF Ids
    <2>2. \A b \in Ids : Exists(b)' <=> b <= n + 1
        <3> SUFFICES ASSUME NEW b \in Ids PROVE Exists(b)' <=> b <= n + 1
            OBVIOUS
        <3>1. CASE b = m
            BY <1>5, <1>8, <3>1 DEF Exists, Ids
        <3>2. CASE b # m
            BY <1>4, <1>5, <1>8, <3>2 DEF Exists, Ids
        <3> QED BY <3>1, <3>2
    <2> QED BY <2>1, <2>2 DEF NoGaps
<1>11. ASSUME NEW b \in Ids, parent'[b] # Root
       PROVE  Exists(b)' /\ IsRoot(parent[b])'
    <2>1. CASE b = m
        BY <1>3, <1>5, <1>8, <1>11, <2>1 DEF Exists, IsRoot
    <2>2. CASE b # m
        <3>1. PICK a \in {Root} \cup Ids : a = parent[b]
            BY <1>0 DEF TypeInv
        <3>2. Exists(b) /\ IsRoot(a) /\ a \in Ids
            BY <1>0, <1>8, <1>11, <2>2, <3>1 DEF RowsInv
        <3> QED BY <1>5, <1>8, <2>2, <3>1, <3>2 DEF Exists, IsRoot
    <2> QED BY <2>1, <2>2
<1>12. AccountInv'
    <2>1. VisibleComments' = VisibleComments \cup {m} /\ m \notin VisibleComments
        BY <1>5, <1>8 DEF VisibleComments, Visible, Exists
    <2>2. Cardinality(VisibleComments') = Cardinality(VisibleComments) + 1
        BY <2>1, VisibleAreFinite, FS_AddElement
    <2>3. CountIsVisible'
        BY <1>0, <1>6, <2>2 DEF AccountInv, CountIsVisible
    <2>4. HiddenHasOneReceipt'
        BY <1>0, <1>5, <1>6, <1>8 DEF AccountInv, HiddenHasOneReceipt, Exists
    <2> QED BY <2>3, <2>4 DEF AccountInv
<1> QED BY <1>1, <1>6, <1>7, <1>9, <1>10, <1>11, <1>12, EndsKeep

LEMMA WithdrawPostKeeps ==
    ASSUME CommentsInv, NEW s \in Requests, WithdrawPost(s)
    PROVE  CommentsInv'
<1>1. /\ TypeInv /\ RowsInv /\ AccountInv
      /\ UNCHANGED <<count, parent, status, audits>> /\ withdrawn' = TRUE /\ End(s)
    BY DEF CommentsInv, WithdrawPost, rows
<1>2. locks[Post] = s
    BY WriterHoldsThePost DEF WithdrawPost, Ops
<1>3. Grows
    BY <1>1, UnchangedGrows
<1>4. NoGaps' /\ \A b \in Ids : parent'[b] # Root => Exists(b)' /\ IsRoot(parent[b])'
    BY <1>1 DEF RowsInv, NoGaps, Exists, IsRoot
<1>5. AccountInv'
    BY <1>1 DEF AccountInv, CountIsVisible, HiddenHasOneReceipt, VisibleComments, Visible
<1>6. /\ withdrawn' \in BOOLEAN /\ count' \in Nat /\ parent' \in [Ids -> {Root} \cup Ids]
      /\ status' \in [Ids -> {"none", "visible", "withdrawn", "hidden"}]
    BY <1>1 DEF TypeInv
<1> QED BY <1>1, <1>2, <1>3, <1>4, <1>5, <1>6, EndsKeep

\* A comment that exists is taken down.
LEMMA TakenDown ==
    ASSUME CommentsInv, NEW c \in Ids, Exists(c), NEW to \in {"withdrawn", "hidden"},
           status' = [status EXCEPT ![c] = to], parent' = parent,
           count' = IF Visible(c) THEN IF count > 0 THEN count - 1 ELSE 0 ELSE count
    PROVE  /\ count' \in Nat /\ parent' \in [Ids -> {Root} \cup Ids]
           /\ status' \in [Ids -> {"none", "visible", "withdrawn", "hidden"}]
           /\ \A b \in Ids : /\ Exists(b)' <=> Exists(b)
                             /\ Visible(b)' <=> Visible(b) /\ b # c
                             /\ b # c => status'[b] = status[b]
           /\ status'[c] = to
           /\ NoGaps' /\ \A b \in Ids : parent'[b] # Root => Exists(b)' /\ IsRoot(parent[b])'
           /\ CountIsVisible'
<1>0. TypeInv /\ RowsInv /\ AccountInv
    BY DEF CommentsInv
<1>1. /\ count' \in Nat /\ parent' \in [Ids -> {Root} \cup Ids]
      /\ status' \in [Ids -> {"none", "visible", "withdrawn", "hidden"}]
    BY <1>0 DEF TypeInv
<1>2. status'[c] = to /\ \A b \in Ids : b # c => status'[b] = status[b]
    BY <1>0 DEF TypeInv
<1>3. \A b \in Ids : Exists(b)' <=> Exists(b)
    BY <1>2 DEF Exists
<1>4. \A b \in Ids : Visible(b)' <=> Visible(b) /\ b # c
    BY <1>2 DEF Visible
<1>5. NoGaps'
    BY <1>0, <1>3 DEF RowsInv, NoGaps
<1>6. ASSUME NEW b \in Ids, parent'[b] # Root
      PROVE  Exists(b)' /\ IsRoot(parent[b])'
    <2>1. PICK a \in Ids : a = parent[b] /\ Exists(b) /\ IsRoot(a)
        BY <1>0, <1>6 DEF RowsInv, TypeInv
    <2> QED BY <1>3, <2>1 DEF IsRoot, Exists
<1>7. CountIsVisible'
    <2>1. VisibleComments' = VisibleComments \ {c} /\ (c \in VisibleComments <=> Visible(c))
        BY <1>4 DEF VisibleComments
    <2>2. Cardinality(VisibleComments') =
              IF Visible(c) THEN Cardinality(VisibleComments) - 1 ELSE Cardinality(VisibleComments)
        BY <2>1, VisibleAreFinite, FS_RemoveElement
    <2>3. IsFiniteSet(VisibleComments') /\ Cardinality(VisibleComments') \in Nat
        BY <2>1, VisibleAreFinite, FS_RemoveElement, FS_CardinalityType
    <2> QED BY <1>0, <2>2, <2>3, VisibleAreFinite DEF AccountInv, CountIsVisible
<1> QED BY <1>1, <1>2, <1>3, <1>4, <1>5, <1>6, <1>7

LEMMA WithdrawKeeps ==
    ASSUME CommentsInv, NEW s \in Requests, Withdraw(s)
    PROVE  CommentsInv'
<1>0. TypeInv /\ RowsInv /\ FoundInv /\ AccountInv
    BY DEF CommentsInv
<1>1. locks[Post] = s /\ tx[s].op = "withdraw" /\ tx[s].path = <<>>
    BY WriterHoldsThePost DEF Withdraw, Ops
<1>2. PICK c \in Ids : c = tx[s].target /\ Exists(c) /\ status[c] \in {"visible", "withdrawn"}
    BY <1>0, <1>1 DEF RowsInv, FoundInv, OnComment
<1>3. /\ status' = [status EXCEPT ![c] = "withdrawn"] /\ parent' = parent
      /\ count' = IF Visible(c) THEN IF count > 0 THEN count - 1 ELSE 0 ELSE count
      /\ End(s) /\ UNCHANGED <<withdrawn, audits>>
    BY <1>2 DEF Withdraw, TakeOff, Decrement
<1>4. /\ count' \in Nat /\ parent' \in [Ids -> {Root} \cup Ids]
      /\ status' \in [Ids -> {"none", "visible", "withdrawn", "hidden"}]
      /\ \A b \in Ids : /\ Exists(b)' <=> Exists(b)
                        /\ Visible(b)' <=> Visible(b) /\ b # c
                        /\ b # c => status'[b] = status[b]
      /\ status'[c] = "withdrawn"
      /\ NoGaps' /\ \A b \in Ids : parent'[b] # Root => Exists(b)' /\ IsRoot(parent[b])'
      /\ CountIsVisible'
    BY <1>2, <1>3, TakenDown
<1>5. Grows
    BY <1>0, <1>3, <1>4 DEF Grows, TypeInv
<1>6. HiddenHasOneReceipt'
    BY <1>0, <1>2, <1>3, <1>4 DEF AccountInv, HiddenHasOneReceipt
<1>7. withdrawn' \in BOOLEAN
    BY <1>0, <1>3 DEF TypeInv
<1> QED BY <1>1, <1>3, <1>4, <1>5, <1>6, <1>7, EndsKeep DEF AccountInv

LEMMA HideKeeps ==
    ASSUME CommentsInv, NEW s \in Requests, Hide(s)
    PROVE  CommentsInv'
<1>0. TypeInv /\ RowsInv /\ FoundInv /\ AccountInv
    BY DEF CommentsInv
<1>1. locks[Post] = s /\ tx[s].op = "hide" /\ tx[s].path = <<>>
    BY WriterHoldsThePost DEF Hide, Ops
<1>2. PICK c \in Ids : c = tx[s].target /\ Exists(c) /\ status[c] \in {"visible", "hidden"}
    BY <1>0, <1>1 DEF RowsInv, FoundInv, OnComment
<1>3. /\ status' = [status EXCEPT ![c] = "hidden"] /\ parent' = parent
      /\ count' = IF Visible(c) THEN IF count > 0 THEN count - 1 ELSE 0 ELSE count
      /\ audits' = IF Visible(c) THEN Append(audits, c) ELSE audits
      /\ End(s) /\ withdrawn' = withdrawn
    BY <1>2 DEF Hide, TakeOff, Decrement, Receipt
<1>4. /\ count' \in Nat /\ parent' \in [Ids -> {Root} \cup Ids]
      /\ status' \in [Ids -> {"none", "visible", "withdrawn", "hidden"}]
      /\ \A b \in Ids : /\ Exists(b)' <=> Exists(b)
                        /\ Visible(b)' <=> Visible(b) /\ b # c
                        /\ b # c => status'[b] = status[b]
      /\ status'[c] = "hidden"
      /\ NoGaps' /\ \A b \in Ids : parent'[b] # Root => Exists(b)' /\ IsRoot(parent[b])'
      /\ CountIsVisible'
    BY <1>2, <1>3, TakenDown
<1>5. Len(audits) \in Nat /\ audits \in Seq(Ids) /\ \A i \in 1..Len(audits) : audits[i] \in Ids
    BY <1>0 DEF TypeInv
<1>6. /\ audits' \in Seq(Ids) /\ Len(audits) <= Len(audits')
      /\ \A i \in 1..Len(audits) : audits'[i] = audits[i]
    BY <1>3, <1>5
<1>7. Grows
    BY <1>3, <1>4, <1>6 DEF Grows
<1>8. HiddenHasOneReceipt'
    <2> SUFFICES ASSUME NEW b \in Ids
                 PROVE  Cardinality({i \in 1..Len(audits') : audits'[i] = b}) =
                            IF status'[b] = "hidden" THEN 1 ELSE 0
        BY DEF HiddenHasOneReceipt
    <2> DEFINE R == {i \in 1..Len(audits) : audits[i] = b}
               Q == {i \in 1..Len(audits') : audits'[i] = b}
    <2>1. Cardinality(R) = IF status[b] = "hidden" THEN 1 ELSE 0
        BY <1>0 DEF AccountInv, HiddenHasOneReceipt
    <2>2. CASE ~Visible(c)
        BY <1>2, <1>3, <1>4, <2>1, <2>2 DEF Visible
    <2>3. CASE Visible(c) /\ b # c
        <3>1. /\ Len(audits') = Len(audits) + 1 /\ audits'[Len(audits) + 1] = c
            BY <1>3, <1>5, <2>3
        <3>2. Q = R
            BY <1>5, <1>6, <2>3, <3>1
        <3> QED BY <1>4, <2>1, <2>3, <3>2
    <2>4. CASE Visible(c) /\ b = c
        <3>1. /\ Len(audits') = Len(audits) + 1 /\ audits'[Len(audits) + 1] = c
            BY <1>3, <1>5, <2>4
        <3>2. Q = R \cup {Len(audits) + 1} /\ Len(audits) + 1 \notin R
            BY <1>5, <1>6, <2>4, <3>1
        <3>3. IsFiniteSet(R)
            <4>1. IsFiniteSet(1..Len(audits)) /\ R \in SUBSET (1..Len(audits))
                BY <1>5, FS_Interval
            <4> QED BY <4>1, FS_Subset
        <3>4. Cardinality(R) = 0
            BY <2>1, <2>4 DEF Visible
        <3>5. Cardinality(Q) = 1
            <4> DEFINE k == Len(audits) + 1
            <4>1. Q = R \cup {k} /\ k \notin R
                BY <3>2
            <4> HIDE DEF Q, R, k
            <4>2. Cardinality(R \cup {k}) = Cardinality(R) + 1
                BY <3>3, <4>1, FS_AddElement
            <4> QED BY <3>4, <4>1, <4>2
        <3> QED BY <1>4, <2>4, <3>5
    <2> QED BY <2>2, <2>3, <2>4
<1>9. withdrawn' \in BOOLEAN
    BY <1>0, <1>3 DEF TypeInv
<1> QED BY <1>1, <1>3, <1>4, <1>7, <1>8, <1>9, EndsKeep DEF AccountInv
-----------------------------------------------------------------------------
(* The pages.                                                              *)

\* A finite set of numbers has a first and a last: the number of members below
\* a member tells the members apart, and so takes every value.
Below(S, i) == {j \in S : j < i}

LEMMA FirstAndLast ==
    ASSUME NEW S \in SUBSET Nat, IsFiniteSet(S), S # {}
    PROVE  /\ \E i \in S : \A j \in S : i <= j
           /\ \E i \in S : \A j \in S : j <= i
<1> DEFINE n == Cardinality(S)
           rank == [i \in S |-> Cardinality(Below(S, i))]
<1>0. \A i \in S : i \in Nat
    OBVIOUS
<1>1. n \in Nat /\ n # 0
    BY FS_CardinalityType, FS_EmptySet
<1>2. \A i \in S : /\ Below(S, i) \in SUBSET S /\ IsFiniteSet(Below(S, i))
                   /\ Cardinality(Below(S, i)) \in Nat /\ i \notin Below(S, i)
    <2> SUFFICES ASSUME NEW i \in S
                 PROVE  /\ Below(S, i) \in SUBSET S /\ IsFiniteSet(Below(S, i))
                        /\ Cardinality(Below(S, i)) \in Nat /\ i \notin Below(S, i)
        OBVIOUS
    <2>1. Below(S, i) \in SUBSET S /\ i \notin Below(S, i)
        BY DEF Below
    <2>2. IsFiniteSet(Below(S, i))
        BY <2>1, FS_Subset
    <2> QED BY <2>1, <2>2, FS_CardinalityType
<1>3. \A i, j \in S : i < j => Cardinality(Below(S, i)) < Cardinality(Below(S, j))
    <2> SUFFICES ASSUME NEW i \in S, NEW j \in S, i < j
                 PROVE  Cardinality(Below(S, i)) < Cardinality(Below(S, j))
        OBVIOUS
    <2>0. \A m \in S : m < i => m < j
        BY <1>0
    <2>1. Below(S, i) \in SUBSET Below(S, j) /\ i \in Below(S, j)
        BY <2>0 DEF Below
    <2>2. Below(S, i) # Below(S, j)
        BY <1>2, <2>1
    <2>3. Cardinality(Below(S, i)) <= Cardinality(Below(S, j))
        BY <1>2, <2>1, FS_Subset
    <2>4. Cardinality(Below(S, i)) # Cardinality(Below(S, j))
        BY <1>2, <2>1, <2>2, FS_Subset
    <2> QED BY <1>2, <2>3, <2>4
<1>4. \A i \in S : Cardinality(Below(S, i)) \in 0..(n - 1)
    <2> SUFFICES ASSUME NEW i \in S PROVE Cardinality(Below(S, i)) \in 0..(n - 1)
        OBVIOUS
    <2>1. Cardinality(Below(S, i)) <= n
        BY <1>2, FS_Subset
    <2>2. Below(S, i) # S
        BY <1>2
    <2>3. Cardinality(Below(S, i)) # n
        BY <1>2, <2>2, FS_Subset
    <2> QED BY <1>1, <1>2, <2>1, <2>3
<1>5. rank \in Injection(S, 0..(n - 1))
    <2>1. rank \in [S -> 0..(n - 1)]
        BY <1>4
    <2>2. \A i, j \in S : rank[i] = rank[j] => i = j
        <3> SUFFICES ASSUME NEW i \in S, NEW j \in S, i # j PROVE rank[i] # rank[j]
            OBVIOUS
        <3>1. i < j \/ j < i
            OBVIOUS
        <3>2. Cardinality(Below(S, i)) # Cardinality(Below(S, j))
            BY <1>2, <1>3, <3>1
        <3> QED BY <3>2
    <2> QED BY <2>1, <2>2 DEF Injection, IsInjective
<1>6. IsFiniteSet(0..(n - 1)) /\ Cardinality(0..(n - 1)) = n
    BY <1>1, FS_Interval
<1>7. rank \in Surjection(S, 0..(n - 1))
    <2> HIDE DEF rank, n
    <2>1. n = Cardinality(S)
        BY DEF n
    <2> QED BY <1>5, <1>6, <2>1, FS_Injection
<1>8. \A k \in 0..(n - 1) : \E i \in S : Cardinality(Below(S, i)) = k
    <2>1. \A k \in 0..(n - 1) : \E i \in S : rank[i] = k
        <3> HIDE DEF rank, n
        <3> QED BY <1>7 DEF Surjection
    <2> QED BY <2>1
<1>9. \E i \in S : \A j \in S : i <= j
    <2>1. PICK i \in S : Cardinality(Below(S, i)) = 0
        BY <1>1, <1>8
    <2>2. Below(S, i) = {}
        BY <1>2, <2>1, FS_EmptySet
    <2> QED BY <2>2 DEF Below
<1>10. \E i \in S : \A j \in S : j <= i
    <2>1. PICK i \in S : Cardinality(Below(S, i)) = n - 1
        BY <1>1, <1>8
    <2>2. \A j \in S : ~ i < j
        <3> SUFFICES ASSUME NEW j \in S, i < j PROVE FALSE
            OBVIOUS
        <3>1. Cardinality(Below(S, i)) < Cardinality(Below(S, j))
            BY <1>3
        <3> QED BY <1>1, <1>2, <1>4, <2>1, <3>1
    <2> QED BY <2>2
<1> QED BY <1>9, <1>10

Above(S, i) == {j \in S : j > i}

LEMMA AboveShrinks ==
    ASSUME NEW S \in SUBSET Nat, IsFiniteSet(S), NEW i \in S, NEW k \in S, k <= i
    PROVE  /\ Cardinality(Above(S, i)) \in Nat /\ Cardinality(Above(S, k)) \in Nat
           /\ Cardinality(Above(S, i)) <= Cardinality(Above(S, k))
           /\ Cardinality(Above(S, i)) < Cardinality(S)
<1>1. /\ Above(S, i) \in SUBSET Above(S, k) /\ Above(S, k) \in SUBSET S
      /\ Above(S, i) \in SUBSET S /\ i \notin Above(S, i)
    <2>1. \A j \in S : j \in Nat
        OBVIOUS
    <2>2. \A j \in S : (j > i => j > k) /\ ~ i > i
        BY <2>1
    <2> QED BY <2>2 DEF Above
<1>2. IsFiniteSet(Above(S, k)) /\ IsFiniteSet(Above(S, i))
    BY <1>1, FS_Subset
<1>3. /\ Cardinality(Above(S, i)) \in Nat /\ Cardinality(Above(S, k)) \in Nat
      /\ Cardinality(S) \in Nat
    BY <1>2, FS_CardinalityType
<1>4. Cardinality(Above(S, i)) <= Cardinality(Above(S, k))
    BY <1>1, <1>2, FS_Subset
<1>5. Cardinality(Above(S, i)) <= Cardinality(S)
    BY <1>1, FS_Subset
<1>6. Cardinality(Above(S, i)) # Cardinality(S)
    BY <1>1, FS_Subset
<1> QED BY <1>3, <1>4, <1>5, <1>6

\* A page either holds all that was found, or its cursor is above the rest.
LEMMA CursorSplits ==
    ASSUME NEW found \in SUBSET Nat, IsFiniteSet(found)
    PROVE  /\ Newest(found, PageSize) \subseteq found
           /\ Cardinality(found) <= PageSize => Newest(found, PageSize) = found
           /\ Cardinality(found) > PageSize =>
                /\ Cursor(found) \in found
                /\ \A i \in found \ Newest(found, PageSize) : i < Cursor(found)
<1> DEFINE N == Newest(found, PageSize)
<1>1. N = {i \in found : Cardinality(Above(found, i)) < PageSize}
    BY DEF Newest, Above
<1>2. Cardinality(found) \in Nat
    BY FS_CardinalityType
<1>3. Cardinality(found) <= PageSize => N = found
    <2>1. \A i \in found : Cardinality(Above(found, i)) < Cardinality(found)
                         /\ Cardinality(Above(found, i)) \in Nat
        BY AboveShrinks
    <2>2. Cardinality(found) <= PageSize =>
              \A i \in found : Cardinality(Above(found, i)) < PageSize
        <3> SUFFICES ASSUME Cardinality(found) <= PageSize, NEW i \in found
                     PROVE  Cardinality(Above(found, i)) < PageSize
            OBVIOUS
        <3>1. Cardinality(Above(found, i)) < Cardinality(found)
              /\ Cardinality(Above(found, i)) \in Nat
            BY <2>1
        <3> QED BY <1>2, <3>1
    <2> QED BY <1>1, <2>2
<1>4. ASSUME Cardinality(found) > PageSize
      PROVE  /\ Cursor(found) \in found
             /\ \A i \in found \ N : i < Cursor(found)
    <2>1. found # {}
        BY <1>4, FS_EmptySet
    <2>2. PICK i \in found : \A j \in found : j <= i
        BY <2>1, FirstAndLast
    <2>3. Above(found, i) = {}
        <3>1. i \in Nat /\ \A j \in found : j \in Nat
            OBVIOUS
        <3>2. \A j \in found : ~ j > i
            BY <2>2, <3>1
        <3> QED BY <3>2 DEF Above
    <2>4. i \in N
        BY <1>1, <2>3, FS_EmptySet
    <2>5. N \in SUBSET Nat /\ IsFiniteSet(N) /\ N # {}
        BY <1>1, <2>4, FS_Subset
    <2>6. \E k \in N : \A j \in N : k <= j
        <3> HIDE DEF N
        <3> QED BY <2>5, FirstAndLast
    <2>7. Cursor(found) \in N
        BY <2>6 DEF Cursor, Least
    <2>8. Cursor(found) \in found /\ Cardinality(Above(found, Cursor(found))) < PageSize
        BY <1>1, <2>7
    <2>9. ASSUME NEW k \in found \ N PROVE k < Cursor(found)
        <3>1. ~ Cardinality(Above(found, k)) < PageSize
            BY <1>1, <2>9
        <3>2. CASE Cursor(found) <= k
            <4>1. /\ Cardinality(Above(found, k)) <= Cardinality(Above(found, Cursor(found)))
                  /\ Cardinality(Above(found, k)) \in Nat
                  /\ Cardinality(Above(found, Cursor(found))) \in Nat
                BY <2>8, <3>2, AboveShrinks
            <4> QED BY <2>8, <3>1, <4>1
        <3>3. k \in Nat /\ Cursor(found) \in Nat
            BY <2>8, <2>9
        <3> QED BY <3>2, <3>3
    <2> QED BY <2>8, <2>9
<1> QED BY <1>1, <1>3, <1>4

LEMMA ListedIsFinite ==
    ASSUME TypeInv, NEW list \in Lists, NEW of
    PROVE  /\ Listed(list, of) \in SUBSET Nat /\ IsFiniteSet(Listed(list, of))
           /\ IF list \in AuditLists THEN Listed(list, of) \subseteq 1..Len(audits)
              ELSE \A c \in Listed(list, of) : c \in Ids /\ Exists(c)
<1>1. IsFiniteSet(1..Len(audits)) /\ 1..Len(audits) \subseteq Nat
    BY FS_Interval DEF TypeInv
<1>2. CASE list \in AuditLists
    <2>1. Listed(list, of) \in SUBSET (1..Len(audits))
        BY <1>2 DEF Listed, AuditLists
    <2> QED BY <1>1, <1>2, <2>1, FS_Subset
<1>3. CASE list \notin AuditLists
    <2>1. /\ Listed(list, of) \in SUBSET Ids
          /\ \A c \in Listed(list, of) : Exists(c)
        BY <1>3 DEF Listed, Lists, AuditLists, VisibleComments, Visible, Exists
    <2> QED BY <1>3, <2>1, Ranges, FS_Subset
<1> QED BY <1>2, <1>3

\* A reader writes nothing.
LEMMA ReadKeeps ==
    ASSUME CommentsInv, UNCHANGED <<withdrawn, count, rows, audits, locks, tx>>,
           page' \in [Readers -> PageState], PageInv'
    PROVE  CommentsInv'
<1>0. /\ TypeInv /\ RowsInv /\ LockInv /\ FoundInv /\ AccountInv
      /\ UNCHANGED <<withdrawn, count, parent, status, audits, locks, tx>>
    BY DEF CommentsInv, rows
<1>1. TypeInv'
    BY <1>0 DEF TypeInv
<1>2. RowsInv'
    BY <1>0 DEF RowsInv, NoGaps, Exists, IsRoot
<1>3. LockInv'
    BY <1>0 DEF LockInv, Resting, AtPost, PastPost, HoldsNothing, Path, IsReply, Exists
<1>4. FoundInv'
    BY <1>0 DEF FoundInv, Visible
<1>5. AccountInv'
    BY <1>0 DEF AccountInv, CountIsVisible, HiddenHasOneReceipt, VisibleComments, Visible
<1> QED BY <1>1, <1>2, <1>3, <1>4, <1>5 DEF CommentsInv

\* What a page leaves out of what it found is below its cursor.
LEMMA TurnKeeps ==
    ASSUME CommentsInv, NEW r \in Readers, NEW p \in PageState, NEW found \in SUBSET Nat,
           IsFiniteSet(found), p.list \in Lists, StartIsOld(p),
           \A i \in p.start \cap Listed(p.list, p.of) : i \in p.shown \/ i \in found,
           Turn(r, p.list, p.of, found, p)
    PROVE  CommentsInv'
<1> DEFINE q == [p EXCEPT !.shown = @ \cup Newest(found, PageSize),
                          !.more = Cardinality(found) > PageSize,
                          !.before = IF Cardinality(found) > PageSize THEN Cursor(found) ELSE 0]
<1>0. TypeInv /\ PageInv
    BY DEF CommentsInv
<1>1. /\ page' = [page EXCEPT ![r] = q]
      /\ UNCHANGED <<withdrawn, count, parent, status, audits, locks, tx>>
    BY DEF Turn, rows
<1>2. Cardinality(found) \in Nat
    BY FS_CardinalityType
<1>3. /\ Newest(found, PageSize) \subseteq Nat
      /\ Cardinality(found) > PageSize => Cursor(found) \in Nat
    BY CursorSplits
<1>4. q \in PageState
    <2>1. p.shown \cup Newest(found, PageSize) \in SUBSET Nat
        BY <1>3 DEF PageState
    <2>2. (IF Cardinality(found) > PageSize THEN Cursor(found) ELSE 0) \in Nat
        BY <1>3
    <2>3. \A shown \in SUBSET Nat, before \in Nat, more \in BOOLEAN :
              [p EXCEPT !.shown = shown, !.more = more, !.before = before] \in PageState
        BY DEF PageState
    <2>4. (Cardinality(found) > PageSize) \in BOOLEAN
        BY <1>2
    <2> QED BY <2>1, <2>2, <2>3, <2>4
<1>5. /\ q.list = p.list /\ q.of = p.of /\ q.start = p.start
      /\ q.shown = p.shown \cup Newest(found, PageSize)
      /\ q.more = (Cardinality(found) > PageSize)
      /\ q.more => q.before = Cursor(found)
    BY DEF PageState
<1> HIDE DEF q
<1>6. page' \in [Readers -> PageState] /\ page'[r] = q
      /\ \A t \in Readers \ {r} : page'[t] = page[t]
    BY <1>0, <1>1, <1>4 DEF TypeInv
<1>7. \A i \in q.start \cap Listed(q.list, q.of) : i \in q.shown \/ (q.more /\ i < q.before)
    <2> SUFFICES ASSUME NEW i \in p.start \cap Listed(p.list, p.of), i \notin q.shown
                 PROVE  q.more /\ i < q.before
        BY <1>5
    <2>1. i \in found \ Newest(found, PageSize)
        BY <1>5
    <2>2. Cardinality(found) > PageSize
        BY <1>2, <2>1, CursorSplits
    <2>3. i < Cursor(found)
        BY <2>1, <2>2, CursorSplits
    <2> QED BY <1>5, <2>2, <2>3
<1>8. StartIsOld(q) /\ q.list # "none"
    BY <1>5 DEF StartIsOld, Lists
<1>9. PageInv'
    <2> SUFFICES ASSUME NEW t \in Readers
                 PROVE  /\ StartIsOld(page[t])'
                        /\ page'[t].more => page'[t].list # "none"
                        /\ \A i \in page'[t].start \cap Listed(page[t].list, page[t].of)' :
                             i \in page'[t].shown \/ (page'[t].more /\ i < page'[t].before)
        BY DEF PageInv
    <2>1. CASE t = r
        BY <1>1, <1>6, <1>7, <1>8, <2>1
        DEF StartIsOld, Exists, Listed, VisibleComments, Visible, IsRoot, IsReply
    <2>2. CASE t # r
        BY <1>0, <1>1, <1>6, <2>2
        DEF PageInv, StartIsOld, Exists, Listed, VisibleComments, Visible, IsRoot, IsReply
    <2> QED BY <2>1, <2>2
<1> QED BY <1>1, <1>6, <1>9, ReadKeeps DEF rows

LEMMA FirstPageKeeps ==
    ASSUME CommentsInv, NEW r \in Readers, NEW list \in Lists, NEW of \in {Root} \cup Ids,
           FirstPage(r, list, of)
    PROVE  CommentsInv'
<1> DEFINE found == Listed(list, of)
           p == [NoPage EXCEPT !.list = list, !.of = of, !.start = found]
<1>1. TypeInv /\ Turn(r, list, of, found, p)
    BY DEF CommentsInv, FirstPage
<1>2. /\ found \in SUBSET Nat /\ IsFiniteSet(found)
      /\ IF list \in AuditLists THEN found \subseteq 1..Len(audits)
         ELSE \A c \in found : c \in Ids /\ Exists(c)
    BY <1>1, ListedIsFinite
<1> HIDE DEF found
<1>3. p \in PageState
    BY <1>2 DEF NoPage, PageState
<1>4. p.list = list /\ p.of = of /\ p.start = found
    BY DEF NoPage
<1>5. StartIsOld(p)
    BY <1>2, <1>4 DEF StartIsOld
<1> HIDE DEF p
<1>6. Turn(r, p.list, p.of, found, p)
    BY <1>1, <1>4
<1> QED BY <1>2, <1>3, <1>4, <1>5, <1>6, TurnKeeps

LEMMA NextPageKeeps ==
    ASSUME CommentsInv, NEW r \in Readers, NextPage(r)
    PROVE  CommentsInv'
<1> DEFINE p == page[r]
           listed == Listed(p.list, p.of)
           found == {i \in listed : i < p.before}
<1>1. p \in PageState /\ p.list \in Lists /\ StartIsOld(p)
    BY DEF CommentsInv, TypeInv, PageInv, NextPage, PageState
<1>2. listed \in SUBSET Nat /\ IsFiniteSet(listed)
    BY <1>1, ListedIsFinite DEF CommentsInv
<1>3. found \in SUBSET Nat /\ IsFiniteSet(found)
    <2>1. found \in SUBSET listed
        OBVIOUS
    <2> HIDE DEF found, listed
    <2> QED BY <1>2, <2>1, FS_Subset
<1>4. \A i \in p.start \cap listed : i \in p.shown \/ i \in found
    BY DEF CommentsInv, PageInv
<1>5. Turn(r, p.list, p.of, found, p)
    BY DEF NextPage
<1> HIDE DEF found, p
<1> QED BY <1>1, <1>3, <1>4, <1>5, TurnKeeps

LEMMA CloseListKeeps ==
    ASSUME CommentsInv, NEW r \in Readers, CloseList(r)
    PROVE  CommentsInv'
<1>0. TypeInv /\ PageInv
    BY DEF CommentsInv
<1>1. /\ page' = [page EXCEPT ![r] = NoPage]
      /\ UNCHANGED <<withdrawn, count, parent, status, audits, locks, tx>>
    BY DEF CloseList, rows
<1>2. page' \in [Readers -> PageState] /\ page'[r] = NoPage
      /\ \A t \in Readers \ {r} : page'[t] = page[t]
    BY <1>0, <1>1, Ranges DEF TypeInv
<1>3. PageInv'
    <2> SUFFICES ASSUME NEW t \in Readers
                 PROVE  /\ StartIsOld(page[t])'
                        /\ page'[t].more => page'[t].list # "none"
                        /\ \A i \in page'[t].start \cap Listed(page[t].list, page[t].of)' :
                             i \in page'[t].shown \/ (page'[t].more /\ i < page'[t].before)
        BY DEF PageInv
    <2>1. CASE t = r
        BY <1>2, <2>1 DEF NoPage, StartIsOld
    <2>2. CASE t # r
        BY <1>0, <1>1, <1>2, <2>2
        DEF PageInv, StartIsOld, Exists, Listed, VisibleComments, Visible, IsRoot, IsReply
    <2> QED BY <2>1, <2>2
<1> QED BY <1>1, <1>2, <1>3, ReadKeeps DEF rows
-----------------------------------------------------------------------------
LEMMA StepKeeps == CommentsInv /\ [Next]_vars => CommentsInv'
<1> SUFFICES ASSUME CommentsInv, [Next]_vars PROVE CommentsInv'
    OBVIOUS
<1>1. ASSUME NEW s \in Requests, RequestStep(s) PROVE CommentsInv'
    <2>1. CASE Starts(s)
        BY <2>1, StartsKeeps
    <2>2. CASE Acquire(s)
        BY <2>2, AcquireKeeps
    <2>3. CASE Rollback(s)
        BY <2>3, EndKeeps DEF Rollback
    <2>4. CASE Create(s)
        BY <2>4, CreateKeeps
    <2>5. CASE Withdraw(s)
        BY <2>5, WithdrawKeeps
    <2>6. CASE Hide(s)
        BY <2>6, HideKeeps
    <2>7. CASE WithdrawPost(s)
        BY <2>7, WithdrawPostKeeps
    <2> QED BY <1>1, <2>1, <2>2, <2>3, <2>4, <2>5, <2>6, <2>7 DEF RequestStep
<1>2. ASSUME NEW r \in Readers, ReaderStep(r) PROVE CommentsInv'
    <2>1. ASSUME NEW list \in {"comments", "commentAudits", "replyAudits"},
                 FirstPage(r, list, Root)
          PROVE  CommentsInv'
        BY <2>1, FirstPageKeeps DEF Lists
    <2>2. ASSUME NEW c \in Ids, FirstPage(r, "replies", c) PROVE CommentsInv'
        BY <2>2, FirstPageKeeps DEF Lists
    <2>3. CASE NextPage(r)
        BY <2>3, NextPageKeeps
    <2>4. CASE CloseList(r)
        BY <2>4, CloseListKeeps
    <2> QED BY <1>2, <2>1, <2>2, <2>3, <2>4 DEF ReaderStep
<1>3. CASE UNCHANGED vars
    <2>1. /\ UNCHANGED <<withdrawn, count, rows, audits, locks, tx>>
          /\ page' = page
        BY <1>3 DEF vars
    <2>2. page' \in [Readers -> PageState]
        BY <2>1 DEF CommentsInv, TypeInv
    <2>3. PageInv'
        BY <2>1, UnchangedGrows, WritesKeepPages DEF CommentsInv, TypeInv, rows
    <2> QED BY <2>1, <2>2, <2>3, ReadKeeps
<1> QED BY <1>1, <1>2, <1>3 DEF Next

\* The invariant of the comments of a post: BlogCommentsServiceImpl's transactions, however
\* they interleave, keep the rows, the locks, the accounts and the lists above.
THEOREM CommentsInvariant == Spec => []CommentsInv
BY InitInv, StepKeeps, PTL DEF Spec

\* The post's counter is the number of its visible comments and replies, and each hidden
\* comment has one receipt: addComment, addReply, withdraw and hide in any overlap.
THEOREM VisibilityAccounted == Spec => []VisibilityIsAccounted
<1>1. CommentsInv => VisibilityIsAccounted
    BY TypesAreOK DEF CommentsInv, AccountInv, VisibilityIsAccounted
<1> QED BY <1>1, CommentsInvariant, PTL

\* The row locks are taken post, root, comment, so no set of requests waits in a circle:
\* who waits, waits for the holder of the post, and that one waits for nobody.
THEOREM NoDeadlock == Spec => []NobodyWaitsInACircle
<1>1. CommentsInv => NobodyWaitsInACircle
    <2> SUFFICES ASSUME CommentsInv,
                        NEW circle \in SUBSET Requests, circle # {},
                        \A s \in circle : \E t \in circle : WaitsFor(s, t)
                 PROVE  FALSE
        BY DEF NobodyWaitsInACircle
    <2>1. ASSUME NEW s \in Requests, NEW t \in Requests, WaitsFor(s, t)
          PROVE  locks[Post] = t /\ s # t
        <3>1. tx[s].path # <<>> /\ locks[Head(tx[s].path)] = t
            BY <2>1 DEF WaitsFor
        <3>2. tx[s].path \in Seq({Post} \cup Ids)
            BY DEF CommentsInv, TypeInv, TxState
        <3>3. Head(tx[s].path) \in {Post} \cup Ids
            BY <3>1, <3>2
        <3>4. locks[Post] = t
            BY <3>1, <3>3 DEF CommentsInv, LockInv
        <3>5. CASE HoldsNothing(s)
            BY <3>1, <3>3, <3>4, <3>5 DEF HoldsNothing
        <3>6. CASE PastPost(s)
            BY <3>1, <3>4, <3>6, Heads DEF PastPost
        <3> QED BY <3>1, <3>4, <3>5, <3>6 DEF CommentsInv, LockInv, Resting, AtPost
    <2>2. PICK s \in circle, t \in circle : WaitsFor(s, t)
        OBVIOUS
    <2>3. PICK u \in circle : WaitsFor(t, u)
        OBVIOUS
    <2> QED BY <2>1, <2>2, <2>3
<1> QED BY <1>1, CommentsInvariant, PTL

\* A reader of any of the four lists who comes to the end has been shown all that was
\* listed when it began and still is: nextBeforeId never skips a row.
THEOREM PagesAreWhole == Spec => []PagesMissNothing
<1>1. CommentsInv => PagesMissNothing
    BY DEF CommentsInv, PageInv, PagesMissNothing
<1> QED BY <1>1, CommentsInvariant, PTL

\* A reply is written under a root that is visible at that moment, and nothing is written
\* under a withdrawn post: what lockVisibleBlog and lockVisibleRoot checked stays so.
THEOREM RepliesHaveTheirRoot == Spec => RepliesNeedTheirRoot
<1>1. ASSUME CommentsInv, [Next]_vars, NEW c \in Ids, ~Exists(c), Exists(c)'
      PROVE  ~withdrawn /\ (parent'[c] # Root => Visible(parent'[c]))
    <2>1. CASE UNCHANGED rows
        BY <1>1, <2>1 DEF rows, Exists
    <2>2. ASSUME NEW s \in Requests, Create(s)
          PROVE  ~withdrawn /\ (parent'[c] # Root => Visible(parent'[c]))
        <3>1. locks[Post] = s /\ tx[s].op \in {"comment", "reply"} /\ tx[s].path = <<>>
            BY <1>1, <2>2, WriterHoldsThePost DEF Create, Ops
        <3>2. ~withdrawn /\ (tx[s].op = "reply" => Visible(tx[s].target))
            BY <1>1, <3>1 DEF CommentsInv, FoundInv
        <3>3. tx[s].op = "comment" => tx[s].target = Root
            BY <1>1 DEF CommentsInv, RowsInv, OnComment
        <3>4. c = NextId /\ parent'[c] = tx[s].target
            <4>1. /\ status' = [status EXCEPT ![NextId] = "visible"]
                  /\ parent' = [parent EXCEPT ![NextId] = tx[s].target]
                BY <2>2 DEF Create
            <4>2. c = NextId
                BY <1>1, <4>1 DEF CommentsInv, TypeInv, Exists
            <4> QED BY <1>1, <4>1, <4>2 DEF CommentsInv, TypeInv
        <3> QED BY <3>1, <3>2, <3>3, <3>4
    <2>3. ASSUME NEW s \in Requests, Withdraw(s) \/ Hide(s) PROVE FALSE
        <3>1. tx[s].target \in Ids /\ Exists(tx[s].target)
            BY <1>1, <2>3 DEF CommentsInv, RowsInv, OnComment, Withdraw, Hide, Locked
        <3>2. PICK b \in Ids : b = tx[s].target /\ Exists(b)
            BY <3>1
        <3>3. status' = [status EXCEPT ![b] = "withdrawn"] \/ status' = [status EXCEPT ![b] = "hidden"]
            BY <2>3, <3>2 DEF Withdraw, Hide
        <3> QED BY <1>1, <3>2, <3>3 DEF Exists, CommentsInv, TypeInv
    <2> QED BY <1>1, <2>1, <2>2, <2>3
        DEF Next, RequestStep, ReaderStep, Starts, BeginComment, BeginReply, BeginWithdraw,
            BeginHide, BeginWithdrawPost, Begin, Acquire, Rollback, WithdrawPost, FirstPage,
            NextPage, Turn, CloseList, vars
<1>2. CommentsInv /\ [Next]_vars =>
          [\A c \in Ids : ~Exists(c) /\ Exists(c)' =>
              /\ ~withdrawn
              /\ parent'[c] # Root => Visible(parent'[c])]_vars
    BY <1>1
<1> QED BY <1>2, CommentsInvariant, PTL DEF Spec, RepliesNeedTheirRoot
=============================================================================
