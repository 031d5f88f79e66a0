-------------------------- MODULE SupervisorProofs --------------------------
(***************************************************************************)
(* Theorems about Supervisor, for any number of clients and Collectors,    *)
(* any dhs_config, and any number of failing calls.                        *)
(***************************************************************************)
EXTENDS Supervisor, SequenceTheorems, TLAPS

------------------------------------------------------------------------------
(* The list a child goes down *)

\* The machines of a start, and the name that getMachine returns for each
\* number: behind the end of the farm, garbage.
Machines == IF Config = << >> THEN <<Localhost>> ELSE Config
Nth(n) == IF n <= Len(Machines) THEN Machines[n] ELSE Garbage

\* The farm of the child of a client, and what it has run ssh for after n rounds.
Started == [n \in 1..Len(Machines) |-> Machine(Machines[n])]
AskedFor(n) == [m \in 1..n |-> Nth(m)]

------------------------------------------------------------------------------
(* The inductive invariant *)

\* What a connection is for decides where its ends can be.
Kinds ==
  /\ \A c \in Clients : pc[c] \in {"idle", "wait", "success", "error"}
  /\ \A k \in Collectors : /\ pc[k] \in {"unborn", "launched", "daemon", "wait", "running", "dead"}
                           /\ child[k] \notin {"start", "ssh"}

\* Nobody serves a connection that was not opened, a child that has not read its
\* request has the empty farm its parent keeps, and an answer is a child's last
\* word.
Fresh ==
  /\ farm = << >>
  /\ \A x \in Conns :
       /\ pc[x] \in {"idle", "unborn", "launched", "daemon"} => child[x] = "none"
       /\ child[x] \in {"none", "queued", "read"} => copy[x] = << >> /\ asked[x] = << >>
       /\ sock[x] \in {"1", "eof", "reset"} => child[x] = "gone"

\* A child that starts Collectors has gone down the list to its loop counter,
\* and one that waits for ssh one name further.
OnTheList ==
  \A c \in Clients :
    /\ child[c] \in {"start", "ssh"} => copy[c] = Started
    /\ child[c] = "start" => asked[c] = AskedFor(i[c])
    /\ child[c] = "ssh" => /\ i[c] < LOOPS
                           /\ asked[c] = AskedFor(i[c] + 1)
                           /\ ssh[c] \in Collectors

\* An ACK tells the client that the whole list was asked for, and a Collector
\* that its machine was found; who acts on one has read it.
AckTells ==
  /\ \A c \in Clients : /\ sock[c] = "1" => asked[c] = AskedFor(LOOPS)
                        /\ status[c] = SUCCESS => sock[c] = "1"
  /\ \A k \in Collectors :
       /\ sock[k] = "1" => \E n \in DOMAIN copy[k] : copy[k][n].registered
       /\ pc[k] = "running" => child[k] = "gone" /\ sock[k] \in {"1", "reset"}

SupInv == TypeOK /\ Kinds /\ Fresh /\ OnTheList /\ AckTells

------------------------------------------------------------------------------
(* Lemmas about farms *)

\* The machines of a start are names that dhs_config or the code has, and there
\* are at most as many as dhs_config lists, or one.
LEMMA MachinesType ==
  /\ Machines \in Seq(Names) /\ Len(Machines) \in Nat /\ Len(Machines) <= Len(Config) + 1
  /\ Len(Config) \in Nat
  /\ \A n \in 1..Len(Machines) : Machines[n] \in Names
<1> DEFINE S == {Config[n] : n \in DOMAIN Config}
<1>1. Config \in Seq(S) /\ S \subseteq Names /\ Localhost \in Names
  BY SupervisorAssumption DEF Names
<1>2. Config \in Seq(Names) /\ Len(Config) \in Nat
  <2> HIDE DEF S
  <2> QED BY <1>1, SeqMonotonic, LenProperties
<1>3. <<Localhost>> \in Seq(Names) /\ Len(<<Localhost>>) = 1
  BY <1>1
<1>4. Machines \in Seq(Names) /\ Len(Machines) <= Len(Config) + 1
  BY <1>2, <1>3 DEF Machines
<1> QED BY <1>2, <1>4, ElementOfSeq, LenProperties

\* Whatever a child takes for the name of machine n, it is a name.
LEMMA NthType == ASSUME NEW n \in Nat \ {0} PROVE Nth(n) \in Names
  BY MachinesType DEF Nth, Names

\* What a farm is: a sequence of machines, as long as its domain.
LEMMA FarmType ==
  ASSUME NEW f \in Farms
  PROVE  /\ Len(f) \in Nat /\ DOMAIN f = 1..Len(f) /\ Len(f) <= Len(Config) + 1
         /\ f \in [1..Len(f) -> [name : Names, registered : BOOLEAN]]
<1>1. PICK n \in 0..(Len(Config) + 1) : f \in [1..n -> [name : Names, registered : BOOLEAN]]
  BY DEF Farms
<1>2. n \in Nat /\ n <= Len(Config) + 1
  BY MachinesType
<1>3. Len(f) = n
  BY <1>1, <1>2
<1> QED BY <1>1, <1>2, <1>3

\* The empty farm, and the one a start builds on it.
LEMMA StartedType ==
  /\ << >> \in Farms /\ Started \in Farms
  /\ Len(Started) = Len(Machines)
  /\ \A n \in 1..Len(Machines) : Started[n].name = Nth(n)
<1>1. << >> \in [1..0 -> [name : Names, registered : BOOLEAN]]
  OBVIOUS
<1>2. Started \in [1..Len(Machines) -> [name : Names, registered : BOOLEAN]]
  BY MachinesType DEF Started, Machine
<1>3. Len(Machines) \in 0..(Len(Config) + 1) /\ 0 \in 0..(Len(Config) + 1)
  BY MachinesType
<1>4. << >> \in Farms /\ Started \in Farms
  BY <1>1, <1>2, <1>3 DEF Farms
<1>5. Len(Started) = Len(Machines)
  BY <1>2, MachinesType
<1>6. \A n \in 1..Len(Machines) : Started[n].name = Nth(n)
  BY MachinesType DEF Started, Machine, Nth
<1> QED BY <1>4, <1>5, <1>6

\* A function on the first numbers is a sequence.
LEMMA FunIsSeq ==
  ASSUME NEW n \in Nat, NEW S, NEW f \in [1..n -> S] PROVE f \in Seq(S) /\ Len(f) = n
  OBVIOUS

\* Adding the machines of dhs_config to an empty farm.
LEMMA ConfigFarm ==
  LET names == IF Config = << >> THEN <<Localhost>> ELSE Config IN
  << >> \o [n \in DOMAIN names |-> Machine(names[n])] = Started
<1>1. DOMAIN Machines = 1..Len(Machines)
  BY MachinesType, LenProperties
<1>2. [n \in DOMAIN Machines |-> Machine(Machines[n])] = Started
  BY <1>1 DEF Started
<1>3. Started \in Seq([name : Names, registered : BOOLEAN])
  BY StartedType, FarmType, FunIsSeq
<1>4. << >> \o Started = Started
  BY <1>3, ConcatEmptySeq
<1> QED BY <1>2, <1>4 DEF Machines

\* One more ssh is one more name of the list.
LEMMA AskedNext ==
  ASSUME NEW n \in Nat
  PROVE  /\ Append(AskedFor(n), Nth(n + 1)) = AskedFor(n + 1)
         /\ AskedFor(n) \in Seq(Names)
<1>1. \A m \in Nat : AskedFor(m) \in [1..m -> Names]
  BY NthType DEF AskedFor
<1>2. AskedFor(n) \in Seq(Names) /\ AskedFor(n + 1) \in Seq(Names)
  BY <1>1
<1>3. Len(AskedFor(n)) = n /\ Len(AskedFor(n + 1)) = n + 1
  BY <1>1
<1>4. Append(AskedFor(n), Nth(n + 1)) \in Seq(Names)
  BY <1>2, NthType
<1>5. \A m \in 1..(n + 1) : Append(AskedFor(n), Nth(n + 1))[m] = AskedFor(n + 1)[m]
  BY <1>2, <1>3 DEF AskedFor
<1> QED BY <1>2, <1>3, <1>4, <1>5, SeqEqual

\* The name a child takes next is the next one of the list.
LEMMA GetMachine ==
  ASSUME SupInv, NEW c \in Clients, child[c] = "start"
  PROVE  getMachine(c) = Nth(i[c] + 1) /\ getMachine(c) \in Names
<1>1. i[c] \in Nat /\ copy[c] = Started
  <2>1. i \in [Conns -> 0..LOOPS] /\ c \in Conns
    BY DEF SupInv, TypeOK, Conns
  <2>2. i[c] \in Nat
    BY <2>1 DEF LOOPS
  <2> QED BY <2>2 DEF SupInv, OnTheList
<1>2. getMachine(c) = Nth(i[c] + 1)
  BY <1>1, StartedType, MachinesType DEF getMachine, Nth
<1> QED BY <1>1, <1>2, NthType

------------------------------------------------------------------------------
(* The invariant is inductive *)

\* It holds before the first connection.
LEMMA InitSupInv == Init => SupInv
<1> SUFFICES ASSUME Init PROVE SupInv
  OBVIOUS
<1>1. TypeOK
  BY SupervisorAssumption, StartedType DEF Init, TypeOK, Conns, LOOPS, SUCCESS, ERRNO
<1>2. Kinds /\ Fresh
  BY SupervisorAssumption DEF Init, Kinds, Fresh, Conns
<1>3. OnTheList /\ AckTells
  BY SupervisorAssumption DEF Init, OnTheList, AckTells, Conns, SUCCESS
<1> QED BY <1>1, <1>2, <1>3 DEF SupInv

\* Every step of a client, the Supervisor, one of its children or a Collector
\* keeps it.
LEMMA NextSupInv == SupInv /\ [Next]_vars => SupInv'
<1> SUFFICES ASSUME SupInv, [Next]_vars PROVE SupInv'
  OBVIOUS
<1> USE SupervisorAssumption DEF SupInv, Conns, SUCCESS, LOOPS
<1>1. CASE UNCHANGED vars
  BY <1>1 DEF vars, serverVars, childVars, TypeOK, Kinds, Fresh, OnTheList, AckTells
<1>2. CASE main_acceptFails
  <2>1. TypeOK'
    <3>1. child' \in [Conns -> {"none", "queued", "read", "start", "ssh", "gone"}]
      BY <1>2 DEF main_acceptFails, TypeOK
    <3>2. sock' \in [Conns -> {"none", "open", "1", "eof", "reset"}]
      BY <1>2 DEF main_acceptFails, TypeOK
    <3>3. up' \in BOOLEAN
      BY <1>2 DEF main_acceptFails
    <3>4. faults' \in 0..MaxFaults
      BY <1>2 DEF main_acceptFails, Fault, TypeOK
    <3> QED BY <1>2, <3>1, <3>2, <3>3, <3>4 DEF main_acceptFails, TypeOK
  <2>2. \A x \in Conns : /\ child'[x] # child[x] => child'[x] = "gone" /\ child[x] = "queued"
                         /\ sock'[x] # sock[x] => sock'[x] = "reset" /\ child[x] = "queued"
                         /\ child[x] # "queued" => child'[x] = child[x] /\ sock'[x] = sock[x]
                         /\ sock'[x] = "1" => sock[x] = "1"
    BY <1>2 DEF main_acceptFails
  <2>3. OnTheList'
    BY <1>2, <2>2 DEF main_acceptFails, OnTheList
  <2>4. AckTells'
    BY <1>2, <2>2 DEF main_acceptFails, AckTells, Fresh
  <2>5. Kinds' /\ Fresh'
    BY <1>2, <2>2 DEF main_acceptFails, Kinds, Fresh
  <2> QED BY <2>1, <2>3, <2>4, <2>5
<1>3. ASSUME NEW c \in Clients, dhsSysOpen_connect(c) PROVE SupInv'
  <2>1. TypeOK'
    BY <1>3 DEF dhsSysOpen_connect, Connect, serverVars, TypeOK
  <2>2. Kinds' /\ Fresh'
    BY <1>3 DEF dhsSysOpen_connect, Connect, serverVars, TypeOK, Kinds, Fresh
  <2>3. OnTheList' /\ AckTells'
    BY <1>3 DEF dhsSysOpen_connect, Connect, serverVars, TypeOK, Kinds, Fresh, OnTheList, AckTells
  <2> QED BY <2>1, <2>2, <2>3
<1>4. ASSUME NEW c \in Clients, dhsSysOpen_refused(c) PROVE SupInv'
  <2>1. TypeOK'
    BY <1>4 DEF dhsSysOpen_refused, ERRNO, serverVars, childVars, TypeOK
  <2>2. Kinds' /\ Fresh'
    BY <1>4 DEF dhsSysOpen_refused, ERRNO, serverVars, childVars, TypeOK, Kinds, Fresh
  <2>3. OnTheList' /\ AckTells'
    BY <1>4 DEF dhsSysOpen_refused, ERRNO, serverVars, childVars, TypeOK, Kinds, Fresh, OnTheList, AckTells
  <2> QED BY <2>1, <2>2, <2>3
<1>5. ASSUME NEW c \in Clients, dhsSysOpen_ack(c) PROVE SupInv'
  <2>0. PICK st \in {0, SUCCESS, ERRNO}, to \in {"success", "error"} :
          /\ pc' = [pc EXCEPT ![c] = to] /\ status' = [status EXCEPT ![c] = st]
          /\ st = SUCCESS => sock[c] = "1"
    BY <1>5 DEF dhsSysOpen_ack, ERRNO
  <2>1. TypeOK'
    BY <1>5, <2>0 DEF dhsSysOpen_ack, serverVars, childVars, TypeOK
  <2>2. Kinds' /\ Fresh'
    BY <1>5, <2>0 DEF dhsSysOpen_ack, serverVars, childVars, TypeOK, Kinds, Fresh
  <2>3. OnTheList' /\ AckTells'
    BY <1>5, <2>0 DEF dhsSysOpen_ack, serverVars, childVars, TypeOK, Kinds, OnTheList, AckTells
  <2> QED BY <2>1, <2>2, <2>3
<1>6. ASSUME NEW x \in Conns, main_fork(x) PROVE SupInv'
  <2>1. TypeOK'
    BY <1>6 DEF main_fork, serverVars, TypeOK
  <2>2. Kinds' /\ Fresh'
    BY <1>6 DEF main_fork, serverVars, TypeOK, Kinds, Fresh
  <2>3. OnTheList' /\ AckTells'
    BY <1>6 DEF main_fork, serverVars, TypeOK, Kinds, Fresh, OnTheList, AckTells
  <2> QED BY <2>1, <2>2, <2>3
<1>7. ASSUME NEW x \in Conns, main_forkFails(x) PROVE SupInv'
  <2>1. TypeOK'
    BY <1>7 DEF main_forkFails, Fault, Leaves, serverVars, TypeOK
  <2>2. Kinds' /\ Fresh'
    BY <1>7 DEF main_forkFails, Fault, Leaves, serverVars, TypeOK, Kinds, Fresh
  <2>3. OnTheList' /\ AckTells'
    BY <1>7 DEF main_forkFails, Fault, Leaves, serverVars, TypeOK, Kinds, Fresh, OnTheList, AckTells
  <2> QED BY <2>1, <2>2, <2>3
<1>8. ASSUME NEW x \in Conns, main_readFails(x) PROVE SupInv'
  <2>1. TypeOK'
    BY <1>8 DEF main_readFails, Fault, Leaves, serverVars, TypeOK
  <2>2. Kinds' /\ Fresh'
    BY <1>8 DEF main_readFails, Fault, Leaves, serverVars, TypeOK, Kinds, Fresh
  <2>3. OnTheList' /\ AckTells'
    BY <1>8 DEF main_readFails, Fault, Leaves, serverVars, TypeOK, Kinds, Fresh, OnTheList, AckTells
  <2> QED BY <2>1, <2>2, <2>3
<1>9. ASSUME NEW x \in Conns, startCollector_config(x) PROVE SupInv'
  <2>0. /\ x \in Clients /\ asked[x] = AskedFor(0)
        /\ child' = [child EXCEPT ![x] = "start"]
        /\ copy' = [copy EXCEPT ![x] = Started]
        /\ i' = [i EXCEPT ![x] = 0]
        /\ UNCHANGED <<up, farm, ssh, asked, sock, pc, status, where, faults>>
        /\ child[x] = "read"
    <3>1. copy[x] = << >> /\ asked[x] = << >>
      BY <1>9 DEF startCollector_config, Fresh
    <3>2. AskedFor(0) = << >>
      BY DEF AskedFor
    <3> QED BY <1>9, <3>1, <3>2, ConfigFarm DEF startCollector_config, serverVars
  <2>1. TypeOK'
    BY <2>0, StartedType DEF TypeOK
  <2>2. Kinds' /\ Fresh'
    BY <2>0 DEF TypeOK, Kinds, Fresh
  <2>3. OnTheList' /\ AckTells'
    BY <2>0 DEF TypeOK, Kinds, Fresh, OnTheList, AckTells
  <2> QED BY <2>1, <2>2, <2>3
<1>10. ASSUME NEW x \in Conns, startCollector_ssh(x) PROVE SupInv'
  <2>0. /\ x \in Clients /\ i[x] \in 0..1 /\ getMachine(x) \in Names
        /\ asked' = [asked EXCEPT ![x] = AskedFor(i[x] + 1)]
        /\ AskedFor(i[x] + 1) \in Seq(Names)
    <3>1. x \in Clients /\ child[x] = "start" /\ i[x] \in 0..1
      BY <1>10 DEF startCollector_ssh, Kinds, Loops, TypeOK
    <3>2. getMachine(x) = Nth(i[x] + 1) /\ getMachine(x) \in Names
      BY <3>1, GetMachine
    <3>3. asked[x] = AskedFor(i[x])
      BY <3>1 DEF OnTheList
    <3>4. i[x] \in Nat /\ i[x] + 1 \in Nat
      BY <3>1
    <3>5. AskedFor(i[x] + 1) = Append(AskedFor(i[x]), Nth(i[x] + 1))
          /\ AskedFor(i[x] + 1) \in Seq(Names)
      BY <3>4, AskedNext
    <3> QED BY <1>10, <3>1, <3>2, <3>3, <3>5 DEF startCollector_ssh, Asks
  <2>1. TypeOK'
    BY <1>10, <2>0 DEF startCollector_ssh, serverVars, TypeOK
  <2>2. Kinds' /\ Fresh'
    BY <1>10, <2>0 DEF startCollector_ssh, serverVars, TypeOK, Kinds, Fresh
  <2>3. OnTheList' /\ AckTells'
    BY <1>10, <2>0 DEF startCollector_ssh, serverVars, TypeOK, Kinds, Fresh, OnTheList, AckTells
  <2> QED BY <2>1, <2>2, <2>3
<1>11. ASSUME NEW x \in Conns, startCollector_sshFails(x) PROVE SupInv'
  <2>0. /\ x \in Clients /\ i[x] \in 0..1 /\ getMachine(x) \in Names
        /\ asked' = [asked EXCEPT ![x] = AskedFor(i[x] + 1)]
        /\ AskedFor(i[x] + 1) \in Seq(Names)
    <3>1. x \in Clients /\ child[x] = "start" /\ i[x] \in 0..1
      BY <1>11 DEF startCollector_sshFails, Kinds, Loops, TypeOK
    <3>2. getMachine(x) = Nth(i[x] + 1) /\ getMachine(x) \in Names
      BY <3>1, GetMachine
    <3>3. asked[x] = AskedFor(i[x])
      BY <3>1 DEF OnTheList
    <3>4. i[x] \in Nat /\ i[x] + 1 \in Nat
      BY <3>1
    <3>5. AskedFor(i[x] + 1) = Append(AskedFor(i[x]), Nth(i[x] + 1))
          /\ AskedFor(i[x] + 1) \in Seq(Names)
      BY <3>4, AskedNext
    <3> QED BY <1>11, <3>1, <3>2, <3>3, <3>5 DEF startCollector_sshFails, Asks
  <2>1. TypeOK'
    BY <1>11, <2>0 DEF startCollector_sshFails, Fault, NextRound, serverVars, TypeOK
  <2>2. Kinds' /\ Fresh'
    BY <1>11, <2>0 DEF startCollector_sshFails, Fault, NextRound, serverVars, TypeOK, Kinds, Fresh
  <2>3. OnTheList' /\ AckTells'
    BY <1>11, <2>0 DEF startCollector_sshFails, Fault, NextRound, serverVars, TypeOK, Kinds, Fresh, OnTheList, AckTells
  <2> QED BY <2>1, <2>2, <2>3
<1>12. ASSUME NEW x \in Conns, startCollector_segfault(x) PROVE SupInv'
  <2>1. TypeOK'
    BY <1>12 DEF startCollector_segfault, Leaves, serverVars, TypeOK
  <2>2. Kinds' /\ Fresh'
    BY <1>12 DEF startCollector_segfault, Leaves, serverVars, TypeOK, Kinds, Fresh
  <2>3. OnTheList' /\ AckTells'
    BY <1>12 DEF startCollector_segfault, Leaves, serverVars, TypeOK, Kinds, Fresh, OnTheList, AckTells
  <2> QED BY <2>1, <2>2, <2>3
<1>13. ASSUME NEW x \in Conns, startCollector_systemFails(x) PROVE SupInv'
  <2>1. TypeOK'
    BY <1>13 DEF startCollector_systemFails, Fault, Reply, Leaves, serverVars, TypeOK
  <2>2. Kinds' /\ Fresh'
    BY <1>13 DEF startCollector_systemFails, Fault, Reply, Leaves, serverVars, TypeOK, Kinds, Fresh
  <2>3. OnTheList' /\ AckTells'
    BY <1>13 DEF startCollector_systemFails, Fault, Reply, Leaves, serverVars, TypeOK, Kinds, Fresh, OnTheList, AckTells
  <2> QED BY <2>1, <2>2, <2>3
<1>14. ASSUME NEW x \in Conns, startCollector_sshReturns(x) PROVE SupInv'
  <2>0. x \in Clients /\ i[x] \in 0..1
    <3>1. x \in Clients /\ i[x] \in 0..2 /\ child[x] = "ssh"
      BY <1>14 DEF startCollector_sshReturns, Kinds, TypeOK
    <3> QED BY <3>1 DEF OnTheList
  <2>1. TypeOK'
    BY <1>14, <2>0 DEF startCollector_sshReturns, NextRound, serverVars, TypeOK
  <2>2. Kinds' /\ Fresh'
    BY <1>14 DEF startCollector_sshReturns, NextRound, serverVars, TypeOK, Kinds, Fresh
  <2>3. OnTheList' /\ AckTells'
    BY <1>14 DEF startCollector_sshReturns, NextRound, serverVars, TypeOK, Kinds, Fresh, OnTheList, AckTells
  <2> QED BY <2>1, <2>2, <2>3
<1>15. ASSUME NEW x \in Conns, startCollector_done(x) PROVE SupInv'
  <2>0. x \in Clients /\ asked[x] = AskedFor(2)
    <3>1. x \in Clients /\ child[x] = "start" /\ ~(i[x] < 2)
      BY <1>15 DEF startCollector_done, Loops, Kinds
    <3>2. i[x] \in 0..2
      BY DEF TypeOK
    <3>3. i[x] = 2
      BY <3>1, <3>2
    <3> QED BY <3>1, <3>3 DEF OnTheList
  <2>1. TypeOK'
    BY <1>15 DEF startCollector_done, Reply, Leaves, serverVars, TypeOK
  <2>2. Kinds' /\ Fresh'
    BY <1>15 DEF startCollector_done, Reply, Leaves, serverVars, TypeOK, Kinds, Fresh
  <2>3. OnTheList'
    BY <1>15 DEF startCollector_done, Reply, Leaves, serverVars, TypeOK, OnTheList
  <2>4. AckTells'
    BY <1>15, <2>0 DEF startCollector_done, Reply, Leaves, serverVars, TypeOK, AckTells, Fresh
  <2> QED BY <2>1, <2>2, <2>3, <2>4
<1>16. ASSUME NEW k \in Conns, registerCollector(k) PROVE SupInv'
  <2> DEFINE found == findMachine(copy[k], HostName(where[k]))
             marked == registerMachine(copy[k], found)
  <2>0. /\ k \in Collectors /\ child[k] = "read"
        /\ copy' = [copy EXCEPT ![k] = marked]
        /\ child' = [child EXCEPT ![k] = "gone"]
        /\ sock' = [sock EXCEPT ![k] = IF found # {} THEN "1" ELSE "eof"]
        /\ UNCHANGED <<up, farm, i, ssh, asked, pc, status, where, faults>>
    BY <1>16 DEF registerCollector, Leaves, Reply, serverVars
  <2>1. marked \in Farms /\ DOMAIN marked = DOMAIN copy[k]
    <3> DEFINE R == [name : Names, registered : BOOLEAN]
    <3>0. copy[k] \in Farms
      BY DEF TypeOK
    <3>1. PICK n \in 0..(Len(Config) + 1) : copy[k] \in [1..n -> R]
      BY <3>0 DEF Farms
    <3>2. \A r \in R, b \in BOOLEAN : [r EXCEPT !.registered = @ \/ b] \in R
      OBVIOUS
    <3>3. marked \in [1..n -> R]
      <4>1. DOMAIN copy[k] = 1..n /\ \A m \in 1..n : copy[k][m] \in R
        BY <3>1
      <4>2. \A m \in 1..n : [copy[k][m] EXCEPT !.registered = @ \/ m \in found] \in R
        BY ZenonT(30), <4>1, <3>2
      <4> HIDE DEF R, found
      <4> QED BY <4>1, <4>2 DEF registerMachine
    <3> QED BY <3>1, <3>3 DEF Farms, registerMachine
  <2>2. found # {} => \E n \in DOMAIN copy[k] : marked[n].registered
    <3> SUFFICES ASSUME NEW n \in found PROVE marked[n].registered /\ n \in DOMAIN copy[k]
      OBVIOUS
    <3>1. n \in DOMAIN copy[k] /\ copy[k][n] \in [name : Names, registered : BOOLEAN]
      BY FarmType DEF findMachine, TypeOK
    <3> QED BY <3>1 DEF registerMachine
  <2> HIDE DEF found, marked
  <2>3. TypeOK'
    BY <2>0, <2>1 DEF TypeOK
  <2>4. Kinds' /\ Fresh'
    BY <2>0 DEF TypeOK, Kinds, Fresh
  <2>5. OnTheList'
    BY <2>0 DEF TypeOK, OnTheList
  <2>6. AckTells'
    BY <2>0, <2>1, <2>2 DEF TypeOK, AckTells, Fresh
  <2> QED BY <2>3, <2>4, <2>5, <2>6
<1>17. ASSUME NEW k \in Collectors, Collector_main(k) PROVE SupInv'
  <2>1. TypeOK'
    BY <1>17 DEF Collector_main, main_daemon, CollectorGoes, serverVars, childVars, TypeOK
  <2>2. Kinds' /\ Fresh'
    BY <1>17 DEF Collector_main, main_daemon, CollectorGoes, serverVars, childVars, TypeOK, Kinds, Fresh
  <2>3. OnTheList' /\ AckTells'
    BY <1>17 DEF Collector_main, main_daemon, CollectorGoes, serverVars, childVars, TypeOK, Kinds, Fresh, OnTheList, AckTells
  <2> QED BY <2>1, <2>2, <2>3
<1>18. ASSUME NEW k \in Collectors, Collector_init(k) PROVE SupInv'
  <2>1. TypeOK'
    <3>1. CASE Connect(k)
      BY <1>18, <3>1 DEF Collector_init, Connect, serverVars, TypeOK
    <3>2. CASE CollectorGoes(k, "dead") /\ UNCHANGED <<child, sock>>
      BY <1>18, <3>2 DEF Collector_init, CollectorGoes, serverVars, TypeOK
    <3> QED BY <1>18, <3>1, <3>2 DEF Collector_init
  <2>2. Kinds' /\ Fresh'
    BY ZenonT(60), <1>18 DEF Collector_init, Connect, CollectorGoes, serverVars, TypeOK, Kinds, Fresh
  <2>3. OnTheList' /\ AckTells'
    BY <1>18 DEF Collector_init, Connect, CollectorGoes, serverVars, TypeOK, Kinds, Fresh, OnTheList, AckTells
  <2> QED BY <2>1, <2>2, <2>3
<1>19. ASSUME NEW k \in Collectors, Collector_initAck(k) PROVE SupInv'
  <2>0. PICK to \in {"running", "dead"} :
          /\ pc' = [pc EXCEPT ![k] = to]
          /\ sock[k] \in {"1", "eof", "reset"}
          /\ to = "running" => sock[k] \in {"1", "reset"}
    BY <1>19 DEF Collector_initAck, AfterAck, CollectorGoes
  <2>1. TypeOK' /\ Kinds' /\ Fresh'
    BY <1>19, <2>0 DEF Collector_initAck, serverVars, childVars, TypeOK, Kinds, Fresh
  <2>2. OnTheList' /\ AckTells'
    BY <1>19, <2>0
    DEF Collector_initAck, serverVars, childVars, TypeOK, Fresh, OnTheList, AckTells
  <2> QED BY <2>1, <2>2
<1> QED
  BY <1>1, <1>2, <1>3, <1>4, <1>5, <1>6, <1>7, <1>8, <1>9, <1>10, <1>11, <1>12, <1>13, <1>14, <1>15, <1>16, <1>17, <1>18, <1>19 DEF Next, Serve, Open, Collect

\* The inductive invariant holds in every reachable state.
LEMMA SupInvHolds == Spec => []SupInv
  BY InitSupInv, NextSupInv, PTL DEF Spec

------------------------------------------------------------------------------
(* What follows *)

\* A Collector serves only after the Supervisor accepted it, or after the answer
\* to its REGISTER was lost; and every variable keeps its type.
THEOREM OnlyAcceptedRun == Spec => []CollectorsAccepted
<1>1. SupInv => CollectorsAccepted
  BY DEF SupInv, AckTells, CollectorsAccepted, RunningWasAccepted
<1> QED BY <1>1, SupInvHolds, PTL

\* Whatever dhs_config lists, a client that finds SUCCESS in its status had LOOPS
\* machines asked for, in the order of the list; behind its end, whatever name
\* getMachine found there.
ListAskedFor == \A c \in Clients : status[c] = SUCCESS => asked[c] = AskedFor(LOOPS)

\* startCollector gets through its rounds before the Supervisor answers SUCCESS.
THEOREM AckMeansListAskedFor == Spec => []ListAskedFor
<1>1. SupInv => ListAskedFor
  BY DEF SupInv, AckTells, ListAskedFor
<1> QED BY <1>1, SupInvHolds, PTL

\* With a dhs_config of at least as many machines as dhsSysOpen wants started,
\* SUCCESS means one Collector asked for on each of the first of them.
THEOREM AckMeansEachStarted ==
  ASSUME Len(Config) >= LOOPS PROVE Spec => []AckMeansStarted
<1>1. AskedFor(LOOPS) = Documented
  <2>1. Config \in Seq(Names) /\ Machines = Config
    <3>1. Config # << >>
      BY DEF LOOPS
    <3> QED BY <3>1, MachinesType DEF Machines
  <2>2. SubSeq(Config, 1, LOOPS) = [n \in 1..LOOPS |-> Config[n]]
    BY <2>1 DEF LOOPS
  <2>3. \A n \in 1..LOOPS : Nth(n) = Config[n]
    BY <2>1 DEF Nth, LOOPS
  <2>4. Documented = SubSeq(Config, 1, LOOPS)
    BY DEF Documented, LOOPS
  <2> QED BY <2>2, <2>3, <2>4 DEF AskedFor
<1>2. ListAskedFor => AckMeansStarted
  BY <1>1 DEF ListAskedFor, AckMeansStarted
<1> QED BY <1>2, AckMeansListAskedFor, PTL

\* No Collector is ever accepted: the farm its child searches is a copy of the
\* parent's, which the child that started the Collector did not change.
NobodyRegisters == \A k \in Collectors : sock[k] # "1"

\* The refusal is what every Collector gets.
THEOREM RegistrationsRefused == Spec => []NobodyRegisters
<1>1. Init => NobodyRegisters
  BY DEF Init, NobodyRegisters, Conns
<1>2. SupInv /\ NobodyRegisters /\ [Next]_vars => NobodyRegisters'
  <2> SUFFICES ASSUME SupInv, NobodyRegisters, [Next]_vars, NEW k \in Collectors,
                      sock'[k] = "1"
               PROVE  FALSE
    BY DEF NobodyRegisters
  <2>0. sock[k] # "1" /\ k \in Conns /\ k \notin Clients /\ sock \in [Conns -> {"none", "open", "1", "eof", "reset"}]
    BY SupervisorAssumption DEF NobodyRegisters, Conns, SupInv, TypeOK
  <2>1. registerCollector(k) \/ startCollector_done(k)
    BY ZenonT(60), <2>0 DEF Next, Serve, Open, Collect, vars, serverVars, childVars,
       dhsSysOpen_connect, dhsSysOpen_refused, dhsSysOpen_ack, main_fork, main_forkFails,
       main_acceptFails, main_readFails, startCollector_config, startCollector_ssh,
       startCollector_sshFails, startCollector_segfault, startCollector_systemFails,
       startCollector_sshReturns, startCollector_done, registerCollector, Collector_main,
       Collector_init, Collector_initAck, Connect, Leaves, Reply
  <2>2. CASE registerCollector(k)
    <3>1. copy[k] = << >>
      BY <2>0, <2>2 DEF registerCollector, SupInv, Fresh
    <3>2. findMachine(copy[k], HostName(where[k])) = {}
      BY <3>1 DEF findMachine
    <3>3. sock' = [sock EXCEPT ![k] = "eof"]
      BY <2>2, <3>2 DEF registerCollector, Leaves, Reply
    <3> QED BY <2>0, <3>3
  <2>3. CASE startCollector_done(k)
    BY <2>3 DEF startCollector_done, SupInv, Kinds
  <2> QED BY <2>1, <2>2, <2>3
<1> QED BY <1>1, <1>2, SupInvHolds, PTL DEF Spec

=============================================================================
