------------------------------- MODULE RadList -------------------------------
(***************************************************************************)
(* radlib's intrusive lists (radlist.c), the sorted lists built on them    *)
(* (radsortlist.c) and its stack (radstack.c), pointer by pointer.  A list *)
(* has two dummy nodes; an operation is a sequence of pointer assignments, *)
(* done by one process on memory of its own.  A caller links a node that   *)
(* is in no list, and unlinks one that is in the list it names.            *)
(***************************************************************************)
EXTENDS Integers, Sequences, FiniteSets, SequencesExt

CONSTANTS
    LNodes,                 \* nodes
    LKey                    \* node -> its sort key

ASSUME ListAssumption == LKey \in [LNodes -> Int] /\ IsFiniteSet(LNodes)

Lists == {"plain", "sorted"}
FirstOf(l) == <<l, "dummyFirst">>
LastOf(l)  == <<l, "dummyLast">>
Dummies == {FirstOf(l) : l \in Lists} \cup {LastOf(l) : l \in Lists}
NullNode == <<"null", "null">>
Item(n) == <<"node", n>>
Places == {Item(n) : n \in LNodes}
Cells == Places \cup Dummies \cup {NullNode}

VARIABLES
    next, prev,             \* the pointers of nodes and dummies
    noNodes,                \* list -> list->noNodes
    stackNext, stackHead, stackCount,   \* the stack: links, id->head, id->count
    where,                  \* node -> "plain", "sorted", "stack" or "free": the caller's knowledge
    arrival                 \* history: node -> when it entered the sorted list, 0 outside

listVars == <<next, prev, noNodes, stackNext, stackHead, stackCount, where, arrival>>

-----------------------------------------------------------------------------
(* Queries *)

radListGetFirst(l) == IF next[FirstOf(l)] = LastOf(l) THEN NullNode ELSE next[FirstOf(l)]
radListGetLast(l)  == IF prev[LastOf(l)] = FirstOf(l) THEN NullNode ELSE prev[LastOf(l)]

radListGetNext(l, n) ==
    IF n = NullNode THEN radListGetFirst(l) ELSE IF next[n] = LastOf(l) THEN NullNode ELSE next[n]

radListGetPrevious(l, n) ==
    IF n = NullNode THEN radListGetLast(l) ELSE IF prev[n] = FirstOf(l) THEN NullNode ELSE prev[n]

\* What a traversal with step from NullNode returns before it returns NullNode;
\* cut off when it does not end.
Traversal(step) ==
    LET Limit == Cardinality(LNodes) + 1
        walked[k \in 0 .. Limit] ==
            IF k = 0 THEN <<>>
            ELSE LET s == walked[k - 1]
                     x == step[IF s = <<>> THEN NullNode ELSE Last(s)]
                 IN  IF x = NullNode THEN s ELSE Append(s, x)
    IN  walked[Limit]

Forward(l)  == Traversal([n \in Cells |-> radListGetNext(l, n)])
Backward(l) == Traversal([n \in Cells |-> radListGetPrevious(l, n)])

-----------------------------------------------------------------------------
(* radlist.c: the assignments in their order *)

InsertAfter(at, n) ==
    LET nx1 == [next EXCEPT ![n] = next[at]]
        pv1 == [prev EXCEPT ![n] = at]
        nx2 == [nx1 EXCEPT ![at] = n]
    IN  next' = nx2 /\ prev' = [pv1 EXCEPT ![nx2[n]] = n]

InsertBefore(at, n) ==
    LET pv1 == [prev EXCEPT ![n] = prev[at]]
        nx1 == [next EXCEPT ![n] = at]
        pv2 == [pv1 EXCEPT ![at] = n]
    IN  prev' = pv2 /\ next' = [nx1 EXCEPT ![pv2[n]] = n]

UnlinkNode(n) ==
    LET pv1 == [prev EXCEPT ![next[n]] = prev[n]]
    IN  prev' = pv1 /\ next' = [next EXCEPT ![pv1[n]] = next[n]]

Entered(l, n) ==
    /\ where[n] = "free" /\ where' = [where EXCEPT ![n] = l]
    /\ noNodes' = [noNodes EXCEPT ![l] = @ + 1]
    /\ arrival' = [arrival EXCEPT ![n] =
            IF l = "sorted" THEN 1 + Cardinality({m \in LNodes : arrival[m] > 0}) ELSE 0]
    /\ UNCHANGED <<stackNext, stackHead, stackCount>>

\* Arrivals are numbered 1, 2, ... among the nodes that are in the sorted list.
Left(l, n) ==
    /\ where' = [where EXCEPT ![n] = "free"]
    /\ noNodes' = [noNodes EXCEPT ![l] = @ - 1]
    /\ arrival' = [m \in LNodes |-> IF m = n THEN 0
                                    ELSE IF arrival[n] > 0 /\ arrival[m] > arrival[n] THEN arrival[m] - 1
                                    ELSE arrival[m]]
    /\ UNCHANGED <<stackNext, stackHead, stackCount>>

radListInsertAfter(m, n) == where[m] = "plain" /\ Entered("plain", n) /\ InsertAfter(Item(m), Item(n))
radListInsertBefore(m, n) == where[m] = "plain" /\ Entered("plain", n) /\ InsertBefore(Item(m), Item(n))

\* AddToFront and AddToEnd make the same assignments around a dummy, the
\* node's own two in the other order.
radListAddToFront(n) == Entered("plain", n) /\ InsertAfter(FirstOf("plain"), Item(n))
radListAddToEnd(n) == Entered("plain", n) /\ InsertBefore(LastOf("plain"), Item(n))

radListRemove(n) == where[n] = "plain" /\ Left("plain", n) /\ UnlinkNode(Item(n))

radListRemoveFirst ==
    LET n == radListGetFirst("plain") IN
    /\ n # NullNode /\ Left("plain", n[2])
    /\ next' = [next EXCEPT ![FirstOf("plain")] = next[n]]
    /\ prev' = [prev EXCEPT ![next[n]] = FirstOf("plain")]

radListRemoveLast ==
    LET n == radListGetLast("plain") IN
    /\ n # NullNode /\ Left("plain", n[2])
    /\ prev' = [prev EXCEPT ![LastOf("plain")] = prev[n]]
    /\ next' = [next EXCEPT ![prev[n]] = LastOf("plain")]

\* radListReset forgets the nodes; they keep their pointers.
radListReset ==
    LET l == "plain"
    IN  /\ next' = [next EXCEPT ![FirstOf(l)] = LastOf(l), ![LastOf(l)] = NullNode]
        /\ prev' = [prev EXCEPT ![FirstOf(l)] = NullNode, ![LastOf(l)] = FirstOf(l)]
        /\ noNodes' = [noNodes EXCEPT ![l] = 0]
        /\ where' = [m \in LNodes |-> IF where[m] = l THEN "free" ELSE where[m]]
        /\ UNCHANGED <<stackNext, stackHead, stackCount, arrival>>

-----------------------------------------------------------------------------
(* radsortlist.c *)

NotLess(m, n) == LKey[m] >= LKey[n]
Greater(m, n) == LKey[m] > LKey[n]

\* In front of the first node with a greater key, else at the end.
radSortListInsert(n) ==
    LET l == "sorted"
        walk == Forward(l)
        greater == {i \in DOMAIN walk : Greater(walk[i][2], n)}
    IN  /\ Entered(l, n)
        /\ IF greater = {} THEN InsertBefore(LastOf(l), Item(n))
           ELSE InsertBefore(walk[CHOOSE i \in greater : \A j \in greater : i <= j], Item(n))

\* A node that is not in the list is an error and changes nothing.
radSortListRemove(n) ==
    /\ Item(n) \in ToSet(Forward("sorted"))
    /\ Left("sorted", n) /\ UnlinkNode(Item(n))

\* the first node with the key, or NullNode
radSortListFind(key) ==
    LET walk == Forward("sorted")
        hits == {i \in DOMAIN walk : LKey[walk[i][2]] = key}
    IN  IF hits = {} THEN NullNode ELSE walk[CHOOSE i \in hits : \A j \in hits : i <= j]

-----------------------------------------------------------------------------
(* radstack.c *)

StackWalk == Traversal([n \in Places \cup {NullNode} |->
                          IF n = NullNode THEN stackHead ELSE stackNext[n[2]]])

PushAtBottom(n) ==
    /\ where[n] = "free" /\ where' = [where EXCEPT ![n] = "stack"]
    /\ stackNext' = [m \in LNodes |-> IF m = n THEN NullNode
                                    ELSE IF stackHead # NullNode /\ Item(m) = Last(StackWalk)
                                         THEN Item(n) ELSE stackNext[m]]
    /\ stackHead' = IF stackHead = NullNode THEN Item(n) ELSE stackHead
    /\ stackCount' = stackCount + 1
    /\ UNCHANGED <<next, prev, noNodes, arrival>>
radStackPush(n) ==
    /\ where[n] = "free" /\ where' = [where EXCEPT ![n] = "stack"]
    /\ stackNext' = [stackNext EXCEPT ![n] = stackHead]
    /\ stackHead' = Item(n)
    /\ stackCount' = stackCount + 1
    /\ UNCHANGED <<next, prev, noNodes, arrival>>

radStackPop ==
    /\ stackHead # NullNode
    /\ where' = [where EXCEPT ![stackHead[2]] = "free"]
    /\ stackHead' = stackNext[stackHead[2]]
    /\ stackCount' = stackCount - 1
    /\ UNCHANGED <<next, prev, noNodes, stackNext, arrival>>

-----------------------------------------------------------------------------
ListInit ==
    /\ next = [x \in Places \cup Dummies |->
                    IF x \in {FirstOf(l) : l \in Lists} THEN LastOf(x[1]) ELSE NullNode]
    /\ prev = [x \in Places \cup Dummies |->
                    IF x \in {LastOf(l) : l \in Lists} THEN FirstOf(x[1]) ELSE NullNode]
    /\ noNodes = [l \in Lists |-> 0]
    /\ stackNext = [n \in LNodes |-> NullNode] /\ stackHead = NullNode /\ stackCount = 0
    /\ where = [n \in LNodes |-> "free"]
    /\ arrival = [n \in LNodes |-> 0]

ListNext ==
    \/ \E n \in LNodes :
        \/ \E m \in LNodes : radListInsertAfter(m, n) \/ radListInsertBefore(m, n)
        \/ radListAddToFront(n) \/ radListAddToEnd(n) \/ radListRemove(n)
        \/ radSortListInsert(n) \/ radSortListRemove(n)
        \/ radStackPush(n)
    \/ radListRemoveFirst \/ radListRemoveLast \/ radListReset \/ radStackPop

ListSpec == ListInit /\ [][ListNext]_listVars

-----------------------------------------------------------------------------
(* Properties *)

\* The pointer manipulation of radlist.c, radsortlist.c and radstack.c
\* implements sequences: what GetNext walks through changes by one node at a
\* time, and the stack at its head.  (SeqSpec, with the steps that leave the
\* pointers alone singled out.)
NodeSeqs == INSTANCE NodeSequences WITH
                SeqNodes <- Places, SeqLists <- Lists,
                items <- [l \in Lists |-> Forward(l)],
                stacked <- StackWalk

ImplementsSequences ==
    /\ NodeSeqs!SeqInit
    /\ [][UNCHANGED listVars \/ NodeSeqs!SeqNext]_(NodeSeqs!seqVars)

\* Walking back gives the list in reverse, the counts are right, and a list
\* holds what the callers put there.
WalksAgree ==
    /\ \A l \in Lists :
        /\ Backward(l) = Reverse(Forward(l))
        /\ noNodes[l] = Len(Forward(l))
        /\ ToSet(Forward(l)) = {Item(n) : n \in {m \in LNodes : where[m] = l}}
    /\ stackCount = Len(StackWalk)

\* A sorted list is in the order of its keys, nodes of one key in the order in
\* which they came; radSortListFind finds the oldest of a key.
SortedStable ==
    LET s == Forward("sorted") IN
    /\ \A i, j \in DOMAIN s : i < j =>
        \/ LKey[s[i][2]] < LKey[s[j][2]]
        \/ LKey[s[i][2]] = LKey[s[j][2]] /\ arrival[s[i][2]] < arrival[s[j][2]]
    /\ \A n \in LNodes : where[n] = "sorted" =>
        LET found == radSortListFind(LKey[n]) IN
        found # NullNode /\ LKey[found[2]] = LKey[n] /\ arrival[found[2]] <= arrival[n]

\* A walk in either direction finds the same nodes, in the order the list is for.
ListsInOrder == WalksAgree /\ SortedStable
===============================================================================
