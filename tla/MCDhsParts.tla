------------------------------ MODULE MCDhsParts -------------------------------
(***************************************************************************)
(* The parts of the DHS that talk to scripts, files and the network, and   *)
(* the sockets of radlib, one after the other in one run: a behaviour is a *)
(* behaviour of the part that active names, and every other part stays in  *)
(* its initial state.                                                      *)
(***************************************************************************)
EXTENDS DhsTcl, ProtoTransfer, CollectorLoop, NoaoUpload, RadSocket, RadUdpSocket, TLC

VARIABLE active

Parts == {"tcl", "transfer", "collector", "upload", "socket", "udp"}

\* The first socket is on one host, the others on another.
MCHostOf == [i \in UdpIds |-> IF i = "u1" THEN "h1" ELSE "h2"]

MCInit ==
    /\ active \in Parts
    /\ Init /\ PtInit /\ ColInit /\ UpInit /\ SockInit /\ UdpInit

MCNext ==
    \/ /\ active = "tcl" /\ Next
       /\ UNCHANGED <<active, ptVars, colVars, upVars, sockVars, udpVars>>
    \/ /\ active = "transfer" /\ PtNext
       /\ UNCHANGED <<active, vars, colVars, upVars, sockVars, udpVars>>
    \/ /\ active = "collector" /\ ColNext
       /\ UNCHANGED <<active, vars, ptVars, upVars, sockVars, udpVars>>
    \/ /\ active = "upload" /\ UpNext
       /\ UNCHANGED <<active, vars, ptVars, colVars, sockVars, udpVars>>
    \/ /\ active = "socket" /\ SockNext
       /\ UNCHANGED <<active, vars, ptVars, colVars, upVars, udpVars>>
    \/ /\ active = "udp" /\ UdpNext
       /\ UNCHANGED <<active, vars, ptVars, colVars, upVars, sockVars>>

MCSpec == MCInit /\ [][MCNext]_<<active, vars, ptVars, colVars, upVars, sockVars, udpVars>>

MCView ==
    CASE active = "tcl" -> <<active, vars>>
      [] active = "transfer" -> <<active, ptVars>>
      [] active = "collector" -> <<active, colVars>>
      [] active = "upload" -> <<active, upVars>>
      [] active = "socket" -> <<active, sockVars>>
      [] active = "udp" -> <<active, udpVars>>

MCSymmetry == Permutations(SockIds)
================================================================================
