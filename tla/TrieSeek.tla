------------------------------ MODULE TrieSeek ------------------------------
(***************************************************************************)
(* The ordered lookups of the key index (keytrie/navigation.go): first,    *)
(* last, next and previous live key with a prefix, over every trie that a  *)
(* set of keys makes, some of their leaves dead.  A lookup holds the       *)
(* shared reap lock throughout, so it is one step on one tree; BranchesSplit*)
(* of Critbit says that the tree is the one its keys determine.            *)
(***************************************************************************)
EXTENDS CritBits, FiniteSets, SequencesExt

CONSTANTS Keys,      \* keys a trie may hold
          Strings    \* prefixes and boundaries asked for

VARIABLES linked,    \* keys with a leaf
          live,      \* those whose leaf is not deleted
          query, answer

vars == <<linked, live, query, answer>>

NoQuery == [prefix |-> <<>>, boundary |-> <<>>, bounded |-> FALSE, direction |-> 0]
HasPrefix(key, prefix) == IsPrefix(prefix, key)

----------------------------------------------------------------------------
(* The crit-bit tree of a set of keys: {} for none, {key} for a leaf, else *)
(* a record with the first critical bit and the two subtrees.              *)
Tree(keys) ==
    LET RECURSIVE Make(_)
        Make(S) ==
            IF Cardinality(S) <= 1 THEN [leaf |-> S]
            ELSE LET crits == {FindCritBit(a, b) : <<a, b>> \in {p \in S \X S : p[1] # p[2]}}
                     c == CHOOSE c \in crits : \A d \in crits : c = d \/ ShouldInsertBefore(c, d)
                 IN  [crit |-> c,
                      child |-> [d \in 0 .. 1 |-> Make({k \in S : GetDirection(k, c) = d})]]
    IN  Make(keys)

IsLeaf(t) == "leaf" \in DOMAIN t
None == {}

(* findPrefixSubtree: down to the first node that tests a byte after the   *)
(* prefix.                                                                 *)
FindPrefixSubtree(tree, prefix) ==
    LET RECURSIVE Down(_)
        Down(t) == IF IsLeaf(t) \/ t.crit[1] >= Len(prefix) THEN t
                   ELSE Down(t.child[GetDirection(prefix, t.crit)])
    IN  Down(tree)

(* extremeLeaf: the first live leaf with the prefix in a direction.        *)
ExtremeLeaf(tree, prefix, direction) ==
    LET RECURSIVE First(_)
        First(t) == IF IsLeaf(t) THEN {k \in t.leaf : k \in live /\ HasPrefix(k, prefix)}
                    ELSE LET near == First(t.child[direction])
                         IN  IF near # None THEN near ELSE First(t.child[1 - direction])
    IN  First(tree)

(* The search path of the boundary below a node, the end of it last.       *)
PathTo(tree, boundary) ==
    LET RECURSIVE Down(_, _)
        Down(t, path) == IF IsLeaf(t) THEN Append(path, t)
                         ELSE Down(t.child[GetDirection(boundary, t.crit)], Append(path, t))
    IN  Down(tree, <<>>)

(* seekPrefix with a boundary.  The leaf at the end of the path fixes where*)
(* a missing boundary would be inserted; when its side of the insertion    *)
(* point lies beyond the boundary, that subtree is looked at first.  Then  *)
(* the siblings on the far side, from the insertion point upwards.  (In    *)
(* the code direction 0 is ascending: the far side of a turn in direction  *)
(* d is child 1 - d.)                                                      *)
SeekBeyond(tree, prefix, boundary, direction) ==
    LET path == PathTo(tree, boundary)
        end == path[Len(path)]
        missing == end.leaf # {} /\ end.leaf # {boundary}
        key == CHOOSE k \in end.leaf : TRUE
        crit == FindCritBit(boundary, key)
        above == IF ~missing THEN 1 .. Len(path) - 1
                 ELSE {i \in 1 .. Len(path) - 1 : ShouldInsertBefore(path[i].crit, crit)}
        depth == IF above = {} THEN 0 ELSE CHOOSE i \in above : \A j \in above : j <= i
        within == IF missing /\ GetDirection(key, crit) = 1 - direction
                  THEN ExtremeLeaf(path[depth + 1], prefix, direction) ELSE None
        turns == {i \in 1 .. depth :
                     /\ GetDirection(boundary, path[i].crit) = direction
                     /\ ExtremeLeaf(path[i].child[1 - direction], prefix, direction) # None}
    IN  IF within # None THEN within
        ELSE IF turns = {} THEN None
        ELSE LET i == CHOOSE i \in turns : \A j \in turns : j <= i
             IN  ExtremeLeaf(path[i].child[1 - direction], prefix, direction)

(* seekPrefix.                                                             *)
Seek(q) ==
    LET subtree == FindPrefixSubtree(Tree(linked), q.prefix)
    IN  IF q.bounded THEN SeekBeyond(subtree, q.prefix, q.boundary, q.direction)
        ELSE ExtremeLeaf(subtree, q.prefix, q.direction)

Init ==
    /\ linked \in SUBSET Keys /\ live \in SUBSET linked
    /\ query = NoQuery /\ answer = Seek(NoQuery)

(* FirstWithPrefix and LastWithPrefix.                                     *)
Extreme(prefix, direction) ==
    query' = [NoQuery EXCEPT !.prefix = prefix, !.direction = direction]

(* NextWithPrefix and PrevWithPrefix: a boundary without the prefix is no  *)
(* boundary.                                                               *)
Neighbour(prefix, boundary, direction) ==
    query' = [prefix |-> prefix, boundary |-> boundary,
              bounded |-> HasPrefix(boundary, prefix), direction |-> direction]

(* Every answer depends on the trie and the query only.                    *)
Next ==
    /\ query = NoQuery
    /\ \E prefix \in Strings, direction \in 0 .. 1 :
          Extreme(prefix, direction) \/ \E boundary \in Strings : Neighbour(prefix, boundary, direction)
    /\ answer' = Seek(query')
    /\ UNCHANGED <<linked, live>>

Spec == Init /\ [][Next]_vars

----------------------------------------------------------------------------
(* A lookup answers with at most one key (navigation.go, seekPrefix).      *)
TypeOK == live \subseteq linked /\ linked \subseteq Keys /\ Cardinality(answer) <= 1

(* Less(a, b): a is before b in the order of Go strings.                   *)
Less(a, b) ==
    \/ IsStrictPrefix(a, b)
    \/ \E i \in 1 .. Len(a) : i <= Len(b) /\ a[i] < b[i] /\ \A j \in 1 .. i - 1 : a[j] = b[j]

(* What a lookup promises: of the live keys with the prefix beyond the     *)
(* boundary, if there is one, the nearest in string order.  The tree knows *)
(* only bits, the boundary need not be in it, keys may be prefixes of each *)
(* other or end in zero bytes, and dead leaves still stand in the way      *)
(* (navigation.go, seekPrefix: "following only its search path can skip    *)
(* neighbours when it differs at an earlier bit").                         *)
SeekExact ==
    LET before(a, b) == IF query.direction = 0 THEN Less(a, b) ELSE Less(b, a)
        wanted == {k \in live : HasPrefix(k, query.prefix) /\ (query.bounded => before(query.boundary, k))}
    IN  answer = {k \in wanted : \A o \in wanted : o = k \/ before(k, o)}
=============================================================================
