------------------------------ MODULE MCRadSafety ------------------------------
(***************************************************************************)
(* The passive parts of radlib and the mm allocator, one after the other   *)
(* in one run: a behaviour is a behaviour of the part that active names,   *)
(* and every other part stays in its initial state.                        *)
(***************************************************************************)
EXTENDS RadBuffers, RadQueue, RadSystem, RadList, Mm, RadDatabase, RadConffile,
        RadTemplate, TLC

VARIABLE active

Parts == {"buffers", "queue", "system", "list", "mm", "database", "conffile", "template"}

\* Three sizes, a configuration that ends at a count of 0, and one that only attaches.
MCBufConfigs ==
    {[min |-> 10, max |-> 30, each |-> <<2, 1, 1>>],
     [min |-> 17, max |-> 200, each |-> <<1, 2, 0>>],
     [min |-> 10, max |-> 0, each |-> <<2, 1, 1>>]}

MCLKey == [n \in LNodes |-> n % 2]

\* Two tables that both engines take, one with two primary keys, one with a
\* string of no length.
MCTableDescrs ==
    {<<NewField("num", {"INT", "NOT_NULL"}, 0), NewField("txt", {"STRING"}, 2)>>,
     <<NewField("big", {"BIGINT"}, 0), NewField("dbl", {"DOUBLE"}, 0)>>,
     <<NewField("a", {"INT", "PRI_KEY"}, 0), NewField("b", {"INT", "PRI_KEY"}, 0)>>,
     <<NewField("txt", {"STRING"}, 0)>>}

\* The text of 1 is the name of a column; 2 is too long a text or too fine a
\* number: it is kept, refused or taken for 1.
MCTextOf == [v \in DbVals |-> IF v = 1 THEN "txt" ELSE "blue"]
MCReads == [v \in DbVals |-> IF v = 1 THEN {1} ELSE {1, 2, Unreadable}]

\* Groups of parts, to say briefly what a step leaves alone.
facilityVars == <<bufVars, qVars, sysVars, listVars>>
storeVars == <<mmVars, dbVars, cfVars, templateVars>>

MCInit ==
    /\ active \in Parts
    /\ BufInit /\ QInit /\ SysInit /\ ListInit
    /\ MmInit /\ DbInit /\ CfInit /\ TemplateInit

MCNext ==
    \/ /\ active = "buffers" /\ BufNext
       /\ UNCHANGED <<active, qVars, sysVars, listVars, storeVars>>
    \/ /\ active = "queue" /\ QNext
       /\ UNCHANGED <<active, bufVars, sysVars, listVars, storeVars>>
    \/ /\ active = "system" /\ SysNext
       /\ UNCHANGED <<active, bufVars, qVars, listVars, storeVars>>
    \/ /\ active = "list" /\ ListNext
       /\ UNCHANGED <<active, bufVars, qVars, sysVars, storeVars>>
    \/ /\ active = "mm" /\ MmNext
       /\ UNCHANGED <<active, dbVars, cfVars, templateVars, facilityVars>>
    \/ /\ active = "database" /\ DbNext
       /\ UNCHANGED <<active, mmVars, cfVars, templateVars, facilityVars>>
    \/ /\ active = "conffile" /\ CfNext
       /\ UNCHANGED <<active, mmVars, dbVars, templateVars, facilityVars>>
    \/ /\ active = "template" /\ TemplateNext
       /\ UNCHANGED <<active, mmVars, dbVars, cfVars, facilityVars>>

MCSpec == MCInit /\ [][MCNext]_<<active, facilityVars, storeVars>>

\* No call reads the pointers of a node that is in no list: they do not tell
\* states of RadList apart.
Linked(x) == x[1] = "node" => where[x[2]] \in Lists
MCListView ==
    <<[x \in {y \in DOMAIN next : Linked(y)} |-> <<next[x], prev[x]>>], noNodes,
      [n \in {m \in LNodes : where[m] = "stack"} |-> stackNext[n]], stackHead, stackCount,
      where, arrival>>

\* No call reads what saved, answered and dropped tell of the last flush.
MCCfView ==
    <<diskVars, cfLock, cfPc, overtaken, fileData, cfPos, cfKilled, cfOps, cfCuts,
      IF ~dropped /\ PlainLines(saved) THEN <<saved, answered>> ELSE <<>> >>

MCView ==
    CASE active = "buffers" -> <<active, bufVars>>
      [] active = "queue" -> <<active, qVars>>
      [] active = "system" -> <<active, sysVars>>
      [] active = "list" -> <<active, MCListView>>
      [] active = "mm" -> <<active, mmVars>>
      [] active = "database" -> <<active, dbVars>>
      [] active = "conffile" -> <<active, MCCfView>>
      [] active = "template" -> <<active, templateVars>>

MCSymmetry == Permutations(QNames) \cup Permutations(CfProcs)
================================================================================
