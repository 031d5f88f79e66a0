------------------------------ MODULE MCRadDocs ------------------------------
(***************************************************************************)
(* Where radlib does not do what its documents say: clients that release   *)
(* the message of a failed group send, and processes that enter            *)
(* radSystemInit at the same time.  One component runs, as in MCRadSafety. *)
(***************************************************************************)
EXTENDS RadQueue, RadSystem

CONSTANT Checked            \* "queue" or "system"

DocInit == QInit /\ SysInit

DocNext ==
    \/ /\ Checked = "queue"
       /\ QNext \/ \E p \in QNames : ReleaseFailed(p)
       /\ UNCHANGED sysVars
    \/ /\ Checked = "system" /\ SysNext
       /\ UNCHANGED qVars

DocSpec == DocInit /\ [][DocNext]_<<qVars, sysVars>>
===============================================================================
