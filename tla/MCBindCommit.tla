---------------------------- MODULE MCBindCommit ----------------------------
(***************************************************************************)
(* Small clusters for BindCommit; part says which.  The main one has a     *)
(* transaction on each of two nodes, over one key.  Where x and y are      *)
(* interchangeable the order of their hashes is fixed.                     *)
(***************************************************************************)
EXTENDS BindCommit, TLC

CONSTANTS A, B, k1, k2, x, y, w

VARIABLE part

Remote == x :> A @@ y :> B
OnK1   == x :> {k1} @@ y :> {k1}
K1     == <<k1>>
XFirst == {x :> 1 @@ y :> 2}

(* Two transactions of a node without subscribers.                         *)
Alone == INSTANCE BindCommit WITH Nodes <- {A}, Origin <- x :> A @@ y :> A

(* A transaction over two keys and a remote write to the second.           *)
Mixed == INSTANCE BindCommit WITH Keys <- {k1, k2}, Txns <- {x}, Writes <- {w},
    Origin <- x :> A @@ w :> B, KeysOf <- x :> {k1, k2} @@ w :> {k2}, KeyOrder <- <<k1, k2>>

MCInit ==
    \/ part = "remote" /\ Init
    \/ part = "alone" /\ Alone!Init
    \/ part = "write" /\ Mixed!Init

MCNext ==
    /\ \/ part = "remote" /\ Next
       \/ part = "alone" /\ Alone!Next
       \/ part = "write" /\ Mixed!Next
    /\ UNCHANGED part

MCSpec == MCInit /\ [][MCNext]_<<vars, part>>

(* The main cluster only.                                                  *)
RemoteSpec == part = "remote" /\ Init /\ [][Next /\ UNCHANGED part]_<<vars, part>>

(* Bounds: the main cluster is followed until a transaction has an         *)
(* unsettled base, through every crossing of binds or, without one, every  *)
(* loss of answers to x; the smaller ones until Orderly's windows.         *)
UntilWindow ==
    /\ part = "remote" =>
        /\ \A t \in Txns : ~Rebased(t) /\ ~DirtyBase(t)
        /\ \A t \in Txns, n \in Nodes : reply[t][n] = TimedOut => t = x /\ crossed = {}
    /\ part = "alone" => Alone!Orderly
    /\ part = "write" => Mixed!Orderly

----------------------------------------------------------------------------
(* Outside the windows no two rivals commit (OneCommitWhenOrderly).        *)
OneCommits ==
    /\ part = "remote" => OneCommitWhenOrderly
    /\ part = "alone" => Alone!OneCommitWhenOrderly

(* Outside the windows every node reads what was committed                 *)
(* (CommittedIsRead), also on a bind's additional keys and beside a write. *)
CommitsAreRead ==
    /\ part = "remote" => CommittedIsRead
    /\ part = "alone" => Alone!CommittedIsRead
    /\ part = "write" => Mixed!TypeOK /\ Mixed!CommittedIsRead

(* Replicas converge, also when binds cross (SameView).                    *)
ViewsAgree == part = "remote" => SameView
=============================================================================
