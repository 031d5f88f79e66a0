---------------------------- MODULE NodeSequences ----------------------------
(***************************************************************************)
(* What the list and stack libraries of radlib promise: lists are          *)
(* sequences of distinct nodes that grow and shrink by one node at a time, *)
(* a stack is a sequence that does so at its head.                         *)
(***************************************************************************)
EXTENDS Naturals, Sequences, SequencesExt

CONSTANTS SeqNodes, SeqLists

VARIABLES
    items,                  \* list -> sequence of nodes
    stacked                 \* the stack, top first

seqVars == <<items, stacked>>

SeqInit == items = [l \in SeqLists |-> <<>>] /\ stacked = <<>>

SeqInsert(l) ==
    /\ Len(items'[l]) = Len(items[l]) + 1
    /\ \E i \in DOMAIN items'[l] :
        /\ items' = [items EXCEPT ![l] = InsertAt(@, i, items'[l][i])]
        /\ items'[l][i] \in SeqNodes \ (ToSet(items[l]) \cup ToSet(stacked))
    /\ UNCHANGED stacked

SeqRemove(l) ==
    /\ Len(items'[l]) = Len(items[l]) - 1
    /\ \E i \in DOMAIN items[l] : items' = [items EXCEPT ![l] = RemoveAt(@, i)]
    /\ UNCHANGED stacked

SeqReset(l) == items' = [items EXCEPT ![l] = <<>>] /\ UNCHANGED stacked

SeqPush ==
    /\ Len(stacked') = Len(stacked) + 1
    /\ Head(stacked') \in SeqNodes \ ToSet(stacked) /\ Tail(stacked') = stacked
    /\ UNCHANGED items

SeqPop == stacked # <<>> /\ stacked' = Tail(stacked) /\ UNCHANGED items

SeqNext == SeqPush \/ SeqPop \/ \E l \in SeqLists : SeqInsert(l) \/ SeqRemove(l) \/ SeqReset(l)

SeqSpec == SeqInit /\ [][SeqNext]_seqVars
===============================================================================
