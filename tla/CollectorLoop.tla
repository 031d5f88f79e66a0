---------------------------- MODULE CollectorLoop ----------------------------
(***************************************************************************)
(* Collector::execute of collector.cc: the accept loop that gives every    *)
(* client a child process of its own, and Collector::processMessages, all  *)
(* that a child does.  The child is meant to serve one client only; what   *)
(* stops it is that it closed the listening socket before it falls back    *)
(* into the loop of its parent.                                            *)
(*                                                                         *)
(* processMessages reads into a pointer that was never set: the read may   *)
(* fail, and the child crash, or do anything to its own memory.            *)
(***************************************************************************)
EXTENDS Naturals, FiniteSets

CONSTANTS
    ColClients,     \* the clients that connect, each once
    ColKids,        \* the processes fork can make
    MaxProcesses    \* how many of them the kernel's table holds, dead ones included

ColParent == "collector"
Listen == "listen_sock"
ASSUME CollectorAssumption ==
    /\ ColParent \notin ColKids
    /\ ColClients \cap {Listen, "none"} = {}

VARIABLES
    knocking,       \* clients that connected and were not accepted
    kidState,       \* what each child does: "none", "forked", "loop", "zombie"
    colFds,         \* the descriptors of each process
    servedBy,       \* the clients that each process read a message of
    parentState     \* "accept", "fork", "exited"

colVars == <<knocking, kidState, colFds, servedBy, parentState>>

ColProcs == ColKids \cup {ColParent}

ColInit ==
    /\ knocking = {}
    /\ kidState = [k \in ColKids |-> "none"]
    /\ colFds = [p \in ColProcs |-> IF p = ColParent THEN {Listen} ELSE {}]
    /\ servedBy = [p \in ColProcs |-> {}]
    /\ parentState = "accept"

\* The client variable of a process: the connection it accepted and has not closed.
ClientOf(p) == colFds[p] \ {Listen}

ParentAccepts ==
    /\ parentState = "accept"
    /\ \E c \in knocking : /\ knocking' = knocking \ {c}
                          /\ colFds' = [colFds EXCEPT ![ColParent] = @ \cup {c}]
    /\ parentState' = "fork"
    /\ UNCHANGED <<kidState, servedBy>>

\* A failing accept ends the process.
ParentAcceptFails ==
    /\ parentState = "accept"
    /\ parentState' = "exited"
    /\ colFds' = [colFds EXCEPT ![ColParent] = {}]
    /\ UNCHANGED <<knocking, kidState, servedBy>>

\* The parent after fork, whether it succeeded or not: close (client).
ParentCloses(fds) == fds \cap {Listen}

\* Children are never waited for: a dead one keeps its place.
InTable == {k \in ColKids : kidState[k] # "none"}

ParentForks ==
    /\ parentState = "fork"
    /\ \/ \E k \in ColKids \ InTable :
            /\ Cardinality(InTable) < MaxProcesses
            /\ kidState' = [kidState EXCEPT ![k] = "forked"]
            /\ colFds' = [colFds EXCEPT ![k] = colFds[ColParent], ![ColParent] = ParentCloses(@)]
       \/ \* fork failed: -1 takes the parent's branch, and the client is dropped.
          /\ colFds' = [colFds EXCEPT ![ColParent] = ParentCloses(@)]
          /\ UNCHANGED kidState
    /\ parentState' = "accept"
    /\ UNCHANGED <<knocking, servedBy>>

\* The child's close of the listening socket.
KeepsListen(fds) == fds                        \* mutant: the close is missing
ChildCloses(fds) == fds \ {Listen}

\* The child closes the listening socket and runs processMessages: it reads one
\* message and does nothing with it, or crashes on the pointer.
processMessages(k) ==
    /\ kidState[k] = "forked"
    /\ \/ /\ kidState' = [kidState EXCEPT ![k] = "loop"]
          /\ colFds' = [colFds EXCEPT ![k] = ChildCloses(@)]
          /\ servedBy' = [servedBy EXCEPT ![k] = @ \cup ClientOf(k)]
       \/ /\ kidState' = [kidState EXCEPT ![k] = "zombie"]
          /\ colFds' = [colFds EXCEPT ![k] = {}]
          /\ UNCHANGED servedBy
    /\ UNCHANGED <<knocking, parentState>>

\* Back in the loop: accept on a socket the child closed fails, and the child
\* exits; on one it still had it would take a client, as its parent does.
ChildLoops(k) ==
    /\ kidState[k] = "loop"
    /\ \E c \in knocking \cup {"none"} :
         /\ c # "none" <=> Listen \in colFds[k]
         /\ knocking' = knocking \ {c}
         /\ kidState' = [kidState EXCEPT ![k] = IF c = "none" THEN "zombie" ELSE "forked"]
         /\ colFds' = [colFds EXCEPT ![k] = IF c = "none" THEN {} ELSE {Listen, c}]
    /\ UNCHANGED <<servedBy, parentState>>

Knocks(c) ==
    /\ c \notin knocking
    /\ \A p \in ColProcs : c \notin colFds[p] \cup servedBy[p]
    /\ Listen \in colFds[ColParent]
    /\ knocking' = knocking \cup {c}
    /\ UNCHANGED <<kidState, colFds, servedBy, parentState>>

execute ==
    \/ ParentAccepts \/ ParentAcceptFails \/ ParentForks
    \/ \E k \in ColKids : processMessages(k) \/ ChildLoops(k)

ColNext == execute \/ \E c \in ColClients : Knocks(c)

ColSpec == ColInit /\ [][ColNext]_colVars

-----------------------------------------------------------------------------
\* "this child will have a dedicated connection to one client, no more"
\* (collector.cc:248): no child reads messages of two clients, and no client
\* is read by two children.
OneClientPerChild ==
    /\ \A p \in ColProcs : Cardinality(servedBy[p]) <= 1
    /\ \A p, q \in ColProcs : p # q => servedBy[p] \cap servedBy[q] = {}

\* A connection ends with the child that serves it: while the Collector waits
\* for the next client, nobody but a live child holds an earlier one's
\* descriptor, also when its fork failed or its child crashed.
EndsWithItsChild ==
    parentState = "accept" =>
        \A c \in ColClients, p \in ColProcs :
            c \in colFds[p] => p # ColParent /\ kidState[p] \in {"forked", "loop"}

\* One child per client, from its accept to the end of its connection.
ChildPerConnection == OneClientPerChild /\ EndsWithItsChild
===============================================================================
