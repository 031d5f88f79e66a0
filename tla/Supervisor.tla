----------------------------- MODULE Supervisor -----------------------------
(***************************************************************************)
(* The DHS Supervisor and the processes around it (monsoon_api):           *)
(* clients that call dhsSysOpen, the Supervisor's accept loop, the child   *)
(* it forks for every connection, and the Collectors such a child starts   *)
(* over ssh, which connect back to register.                               *)
(*                                                                         *)
(* fork copies memory: every child works on its own copy of the farm, and  *)
(* what it adds or registers is gone when it exits.  A process that dies   *)
(* closes its sockets, so its peer reads end of file.                      *)
(*                                                                         *)
(* The hosts are big-endian, where the missing htons in dhsSysOpen makes   *)
(* no difference.                                                          *)
(***************************************************************************)
EXTENDS Naturals, Sequences

CONSTANTS
  Clients,      \* processes that call dhsSysOpen
  Collectors,   \* Collector processes that can come into being
  Config,       \* machine names of dhs_config in order; << >>: it cannot be opened
  Localhost,    \* the name used without dhs_config
  SupHost,      \* what gethostname returns on the Supervisor's machine
  Garbage,      \* the name found behind the end of the farm
  Nowhere,      \* the machine of a Collector that was not started
  Nobody,       \* no Collector
  MaxFaults     \* bound: fork, accept, read and ssh calls that fail

ASSUME SupervisorAssumption ==
  /\ Clients \cap Collectors = {} /\ Nobody \notin Collectors
  /\ Config \in Seq({Config[n] : n \in DOMAIN Config})
  /\ MaxFaults \in Nat

\* Every client and every Collector opens one connection to the Supervisor.
Conns == Clients \cup Collectors

VARIABLES
  up,        \* the Supervisor's parent process is in its accept loop
  farm,      \* the farm in the parent's memory: [name, registered] per machine
  child,     \* child[x]: where the process that serves connection x is
  copy,      \* copy[x]: the farm in that child's memory
  i,         \* i[x]: its loop counter in startCollector
  ssh,       \* ssh[x]: the Collector whose ssh command it waits for
  asked,     \* asked[x]: the machines it ran ssh for, in order
  sock,      \* sock[x]: what the opener of connection x can read from it
  pc,        \* where each client and Collector is
  status,    \* status[x]: what dhsSysOpen left in *status
  where,     \* where[k]: the machine Collector k runs on
  faults

serverVars == <<up, farm>>
childVars == <<child, copy, i, ssh, asked>>
vars == <<serverVars, childVars, sock, pc, status, where, faults>>

SUCCESS == 1
ERRNO == 104          \* any errno of a failed call
LOOPS == 2           \* dhsSysOpen asks for "2", whatever numNodes is
Machine(m) == [name |-> m, registered |-> FALSE]

Init ==
  /\ up = TRUE
  /\ farm = << >>
  /\ child = [x \in Conns |-> "none"]
  /\ copy = [x \in Conns |-> << >>]
  /\ i = [x \in Conns |-> 0]
  /\ ssh = [x \in Conns |-> Nobody]
  /\ asked = [x \in Conns |-> << >>]
  /\ sock = [x \in Conns |-> "none"]
  /\ pc = [x \in Conns |-> IF x \in Clients THEN "idle" ELSE "unborn"]
  /\ status = [x \in Clients |-> 0]
  /\ where = [k \in Collectors |-> Nowhere]
  /\ faults = 0

Fault == faults < MaxFaults /\ faults' = faults + 1

------------------------------------------------------------------------------
(* Connections. *)

\* connect and write: the message waits in the listen queue.
Connect(x) ==
  /\ up
  /\ child' = [child EXCEPT ![x] = "queued"]
  /\ sock' = [sock EXCEPT ![x] = "open"]
  /\ pc' = [pc EXCEPT ![x] = "wait"]

\* The child is gone, and r is all that its peer gets to read.
Leaves(x, r) ==
  /\ child' = [child EXCEPT ![x] = "gone"]
  /\ sock' = [sock EXCEPT ![x] = r]

ReplyAlways(ok) == "1"                                \* mutant: the status is not looked at
\* The reply: SUCCESS, or nothing when the request failed, because response is
\* still NULL in main and strcat kills the child before it can write ERROR.
Reply(ok) == IF ok THEN "1" ELSE "eof"

------------------------------------------------------------------------------
(* dhsSysOpen *)

dhsSysOpen_connect(c) ==
  /\ pc[c] = "idle"
  /\ Connect(c)
  /\ UNCHANGED <<serverVars, copy, i, ssh, asked, status, where, faults>>

\* Nobody listens: *status is errno and the call returns ERROR.
dhsSysOpen_refused(c) ==
  /\ pc[c] = "idle"
  /\ ~up
  /\ pc' = [pc EXCEPT ![c] = "error"]
  /\ status' = [status EXCEPT ![c] = ERRNO]
  /\ UNCHANGED <<serverVars, childVars, sock, where, faults>>

\* The ACK, end of file (atol of nothing is 0) or a reset connection.
dhsSysOpen_ack(c) ==
  /\ pc[c] = "wait"
  /\ \/ sock[c] = "1" /\ status' = [status EXCEPT ![c] = SUCCESS]
        /\ pc' = [pc EXCEPT ![c] = "success"]
     \/ sock[c] = "eof" /\ status' = [status EXCEPT ![c] = 0]
        /\ pc' = [pc EXCEPT ![c] = "success"]
     \/ sock[c] = "reset" /\ status' = [status EXCEPT ![c] = ERRNO]
        /\ pc' = [pc EXCEPT ![c] = "error"]
  /\ UNCHANGED <<serverVars, childVars, sock, where, faults>>

------------------------------------------------------------------------------
(* supervisor.c: main *)

\* accept and fork: the child starts with the parent's farm.
main_fork(x) ==
  /\ up /\ child[x] = "queued"
  /\ child' = [child EXCEPT ![x] = "read"]
  /\ copy' = [copy EXCEPT ![x] = farm]
  /\ UNCHANGED <<serverVars, i, ssh, asked, sock, pc, status, where, faults>>

\* fork returns -1, which the parent takes for a child: it closes the
\* connection and goes on.
main_forkFails(x) ==
  /\ up /\ child[x] = "queued"
  /\ Fault
  /\ Leaves(x, "eof")
  /\ UNCHANGED <<serverVars, copy, i, ssh, asked, pc, status, where>>

\* accept fails: the parent exits, and with it goes what is in its queue.
main_acceptFails ==
  /\ up
  /\ Fault
  /\ up' = FALSE
  /\ child' = [x \in Conns |-> IF child[x] = "queued" THEN "gone" ELSE child[x]]
  /\ sock' = [x \in Conns |-> IF child[x] = "queued" THEN "reset" ELSE sock[x]]
  /\ UNCHANGED <<farm, copy, i, ssh, asked, pc, status, where>>

\* The child cannot read the message and exits.
main_readFails(x) ==
  /\ child[x] = "read"
  /\ Fault
  /\ Leaves(x, "reset")
  /\ UNCHANGED <<serverVars, copy, i, ssh, asked, pc, status, where>>

------------------------------------------------------------------------------
(* supervisor.c: startCollector, for SYSOPEN *)

\* dhs_config's machines, or localhost, are added behind those in the farm.
startCollector_config(x) ==
  /\ x \in Clients /\ child[x] = "read"
  /\ child' = [child EXCEPT ![x] = "start"]
  /\ LET names == IF Config = << >> THEN <<Localhost>> ELSE Config IN
     copy' = [copy EXCEPT ![x] = @ \o [n \in DOMAIN names |-> Machine(names[n])]]
  /\ i' = [i EXCEPT ![x] = 0]
  /\ UNCHANGED <<serverVars, ssh, asked, sock, pc, status, where, faults>>

NextRound(x) == i' = [i EXCEPT ![x] = @ + 1]

Loops(x) == i[x] < LOOPS

\* farm.getMachine (i) does not look at the size of the farm.
getMachine(x) == IF i[x] < Len(copy[x]) THEN copy[x][i[x] + 1].name ELSE Garbage

Asks(x) == asked' = [asked EXCEPT ![x] = Append(@, getMachine(x))]

\* system ("ssh <machine> collector") starts a Collector there and waits.
startCollector_ssh(x) ==
  /\ child[x] = "start" /\ Loops(x) /\ i[x] < Len(copy[x])
  /\ Asks(x)
  /\ \E k \in Collectors :
       /\ pc[k] = "unborn"
       /\ pc' = [pc EXCEPT ![k] = "launched"]
       /\ where' = [where EXCEPT ![k] = getMachine(x)]
       /\ ssh' = [ssh EXCEPT ![x] = k]
  /\ child' = [child EXCEPT ![x] = "ssh"]
  /\ UNCHANGED <<serverVars, copy, i, sock, status, faults>>

\* The machine cannot be reached: ssh's exit status is not looked at.
startCollector_sshFails(x) ==
  /\ child[x] = "start" /\ Loops(x)
  /\ i[x] < Len(copy[x]) => Fault
  /\ i[x] >= Len(copy[x]) => UNCHANGED faults
  /\ Asks(x)
  /\ NextRound(x)
  /\ UNCHANGED <<serverVars, child, copy, ssh, sock, pc, status, where>>

\* Reading behind the farm's end may as well kill the child.
startCollector_segfault(x) ==
  /\ child[x] = "start" /\ Loops(x) /\ i[x] >= Len(copy[x])
  /\ Leaves(x, "eof")
  /\ UNCHANGED <<serverVars, copy, i, ssh, asked, pc, status, where, faults>>

\* system () returns -1: "fork failed".
startCollector_systemFails(x) ==
  /\ child[x] = "start" /\ Loops(x)
  /\ Fault
  /\ Leaves(x, Reply(FALSE))
  /\ UNCHANGED <<serverVars, copy, i, ssh, asked, pc, status, where>>

startCollector_sshReturns(x) ==
  /\ child[x] = "ssh" /\ pc[ssh[x]] # "launched"
  /\ child' = [child EXCEPT ![x] = "start"]
  /\ NextRound(x)
  /\ ssh' = [ssh EXCEPT ![x] = Nobody]
  /\ UNCHANGED <<serverVars, copy, asked, sock, pc, status, where, faults>>

startCollector_done(x) ==
  /\ child[x] = "start" /\ ~Loops(x)
  /\ Leaves(x, Reply(TRUE))
  /\ UNCHANGED <<serverVars, copy, i, ssh, asked, pc, status, where, faults>>

------------------------------------------------------------------------------
(* supervisor.c: registerCollector, for REGISTER *)

\* A Collector gives its gethostname name, which is never "localhost".
HostName(m) == IF m = Localhost THEN SupHost ELSE m
findMachine(f, m) == {n \in DOMAIN f : f[n].name = m /\ \A o \in 1..(n - 1) : f[o].name # m}

registerMachine(f, found) == [n \in DOMAIN f |-> [f[n] EXCEPT !.registered = @ \/ n \in found]]

registerCollector(k) ==
  /\ k \in Collectors /\ child[k] = "read"
  /\ LET found == findMachine(copy[k], HostName(where[k])) IN
     /\ copy' = [copy EXCEPT ![k] = registerMachine(@, found)]
     /\ Leaves(k, Reply(found # {}))
  /\ UNCHANGED <<serverVars, i, ssh, asked, pc, status, where, faults>>

------------------------------------------------------------------------------
(* collector.cc *)

CollectorGoes(k, to) == pc' = [pc EXCEPT ![k] = to]

StaysInForeground(k) == pc[k] = "launched" /\ sock[k] # "none" /\ CollectorGoes(k, "daemon")
                                                      \* mutant: no fork
\* main forks twice and the ssh command returns.
main_daemon(k) == pc[k] = "launched" /\ CollectorGoes(k, "daemon")

Collector_main(k) ==
  /\ main_daemon(k)
  /\ UNCHANGED <<serverVars, childVars, sock, status, where, faults>>

\* init connects and sends REGISTER; without a Supervisor the write fails and
\* the Collector exits.
Collector_init(k) ==
  /\ pc[k] = "daemon"
  /\ \/ Connect(k)
     \/ ~up /\ CollectorGoes(k, "dead") /\ UNCHANGED <<child, sock>>
  /\ UNCHANGED <<serverVars, copy, i, ssh, asked, status, where, faults>>

\* What the ACK makes of a Collector.  On end of file atoi gets NULL and it dies;
\* after a failed read it compares a status that was never set.
AfterAnyAck(r) == {"running"}                         \* mutant: the ACK is not looked at
AfterAck(r) ==
  CASE r = "1" -> {"running"}
    [] r = "eof" -> {"dead"}
    [] r = "reset" -> {"running", "dead"}
    [] OTHER -> {}

Collector_initAck(k) ==
  /\ pc[k] = "wait"
  /\ \E to \in AfterAck(sock[k]) : CollectorGoes(k, to)
  /\ UNCHANGED <<serverVars, childVars, sock, status, where, faults>>

------------------------------------------------------------------------------
Serve(x) ==
  \/ main_fork(x)
  \/ startCollector_config(x) \/ startCollector_ssh(x) \/ startCollector_sshReturns(x)
  \/ startCollector_sshFails(x) \/ startCollector_segfault(x) \/ startCollector_done(x)
  \/ registerCollector(x)

Open(c) == dhsSysOpen_connect(c) \/ dhsSysOpen_refused(c) \/ dhsSysOpen_ack(c)

Collect(k) == Collector_main(k) \/ Collector_init(k) \/ Collector_initAck(k)

Next ==
  \/ \E x \in Conns : \/ Serve(x) \/ main_forkFails(x) \/ main_readFails(x)
                      \/ startCollector_systemFails(x)
  \/ main_acceptFails
  \/ \E c \in Clients : Open(c)
  \/ \E k \in Collectors : Collect(k)

Spec == Init /\ [][Next]_vars

\* The processes that run keep running, and ssh comes back.
Fairness ==
  /\ \A x \in Conns : WF_vars(Serve(x))
  /\ \A c \in Clients : WF_vars(Open(c))
  /\ \A k \in Collectors : WF_vars(Collect(k))

FairSpec == Spec /\ Fairness

------------------------------------------------------------------------------
(* Properties *)

Names == {Config[n] : n \in DOMAIN Config} \cup {Localhost, Garbage}
Farms == UNION {[1..n -> [name : Names, registered : BOOLEAN]] : n \in 0..(Len(Config) + 1)}

\* Type correctness of the whole state.
TypeOK ==
  /\ up \in BOOLEAN
  /\ farm \in Farms
  /\ child \in [Conns -> {"none", "queued", "read", "start", "ssh", "gone"}]
  /\ copy \in [Conns -> Farms]
  /\ i \in [Conns -> 0..LOOPS]
  /\ ssh \in [Conns -> Collectors \cup {Nobody}]
  /\ asked \in [Conns -> Seq(Names)]
  /\ sock \in [Conns -> {"none", "open", "1", "eof", "reset"}]
  /\ pc \in [Conns -> {"idle", "wait", "success", "error",
                       "unborn", "launched", "daemon", "running", "dead"}]
  /\ status \in [Clients -> {0, SUCCESS, ERRNO}]
  /\ where \in [Collectors -> Names \cup {Nowhere}]
  /\ faults \in 0..MaxFaults

\* What a complete start runs ssh for: the first machines of dhs_config, one
\* each, and localhost without dhs_config.
Documented == IF Config = << >> THEN [n \in 1..LOOPS |-> Localhost] ELSE SubSeq(Config, 1, LOOPS)

\* A client that finds SUCCESS in its status had its own Collectors asked for:
\* the child that served it went down the list, one Collector per machine, "until
\* numInstances Collectors have been started", whatever other clients asked for
\* at the same time and whichever calls failed.
AckMeansStarted ==
  \A c \in Clients : status[c] = SUCCESS => asked[c] = Documented

\* A Collector serves clients only after the Supervisor accepted it, or after
\* the answer to its REGISTER was lost.
RunningWasAccepted ==
  \A k \in Collectors : pc[k] = "running" /\ sock[k] # "reset" =>
    \E n \in DOMAIN copy[k] : copy[k][n].registered

\* Everyone who waits for the Supervisor's answer gets out of it: a client that
\* waits while its child waits for ssh, and a Collector that registers while
\* the child that started it is still busy, never wait for each other.
EveryCallReturns ==
  \A x \in Conns : pc[x] \in {"wait", "launched"} ~>
    pc[x] \in {"success", "error", "running", "dead"}

\* Who may serve: RunningWasAccepted, in type-correct states.
CollectorsAccepted == TypeOK /\ RunningWasAccepted
=============================================================================
