----------------------------- MODULE RadUdpSocket -----------------------------
(***************************************************************************)
(* The datagram sockets of radlib, src/radUDPsocket.c, on hosts that share *)
(* one network.  All sockets use one port, as in test/multicast.  The      *)
(* network loses, delays and reorders datagrams and may deliver one more   *)
(* than once; a datagram is delivered to one host at a time.  A unit of    *)
(* data is <<datagram, position>>.                                         *)
(*                                                                         *)
(* The kernel (external) starts a socket with multicast loopback on, sends *)
(* a host's own datagrams back to it only with loopback, refuses a         *)
(* broadcast of a socket not set for it, and hands a datagram for a group  *)
(* to every bound socket of a host on which some socket joined the group.  *)
(***************************************************************************)
EXTENDS Naturals, Sequences, FiniteSets, FiniteSetsExt

CONSTANTS
    UdpIds,         \* the objects
    HostOf,         \* the host each of them is on
    UdpDests,       \* where datagrams go: "group", "broadcast" or a host
    UdpSizes,       \* sizes of datagrams
    UdpLen,         \* units a radUDPSocketReadExact asks for
    MaxDgrams,      \* bound: datagrams sent
    MaxUdpCalls     \* bound: calls other than sends and reads

ASSUME UdpAssumption == UdpSizes \subseteq Nat /\ UdpLen \in Nat

VARIABLES
    noUdpCalls,     \* calls other than sends and reads so far
    udp,            \* the sockets: [open, bound, broadcast, loop, joined]
    defaulted,      \* sockets whose create set the default conditions, none since
    flying,         \* the datagrams sent, in order
    udpInbox,       \* datagrams at each socket
    udpBuf,         \* the ReadExact each socket is inside: the units read, or NoRead
    udpReads        \* the last buffer ReadExact returned, per socket

udpVars == <<noUdpCalls, udp, defaulted, flying, udpInbox, udpBuf, udpReads>>

NoRead == "no read"
Hosts == {HostOf[i] : i \in UdpIds}
NoUdp == [open |-> FALSE, bound |-> FALSE, broadcast |-> FALSE, loop |-> TRUE, joined |-> FALSE]

UdpInit ==
    /\ noUdpCalls = 0
    /\ udp = [i \in UdpIds |-> NoUdp]
    /\ defaulted = {}
    /\ flying = << >>
    /\ udpInbox = [i \in UdpIds |-> << >>]
    /\ udpBuf = [i \in UdpIds |-> NoRead]
    /\ udpReads = [i \in UdpIds |-> << >>]

UdpCalled == noUdpCalls < MaxUdpCalls /\ noUdpCalls' = noUdpCalls + 1
Free(i) == udp[i].open /\ udpBuf[i] = NoRead

\* The three calls that set the default conditions: their failure is not looked at.
Defaults(s, ok) == IF ok THEN [s EXCEPT !.broadcast = FALSE, !.loop = FALSE] ELSE s

\* A create that fails returns NULL and leaves no socket.
radUDPSocketCreate(i) ==
    /\ ~udp[i].open /\ UdpCalled
    /\ \E ok \in BOOLEAN :
         /\ udp' = [udp EXCEPT ![i] = Defaults([NoUdp EXCEPT !.open = TRUE], ok)]
         /\ defaulted' = IF ok THEN defaulted \cup {i} ELSE defaulted \ {i}
    /\ UNCHANGED <<flying, udpInbox, udpBuf, udpReads>>

radUDPSocketDestroy(i) ==
    /\ Free(i) /\ UdpCalled
    /\ udp' = [udp EXCEPT ![i] = NoUdp]
    /\ defaulted' = defaulted \ {i}
    /\ udpInbox' = [udpInbox EXCEPT ![i] = << >>]
    /\ udpReads' = [udpReads EXCEPT ![i] = << >>]
    /\ UNCHANGED <<flying, udpBuf>>

\* The setters: one option, or ERROR and no change.
SetOption(i, s) ==
    /\ Free(i) /\ UdpCalled
    /\ udp' = [udp EXCEPT ![i] = s]
    /\ UNCHANGED <<defaulted, flying, udpInbox, udpBuf, udpReads>>

radUDPSocketBind(i) == ~udp[i].bound /\ SetOption(i, [udp[i] EXCEPT !.bound = TRUE])
radUDPSocketSetBroadcast(i, on) == SetOption(i, [udp[i] EXCEPT !.broadcast = on])
radUDPSocketAddMulticastMembership(i) == ~udp[i].joined /\ SetOption(i, [udp[i] EXCEPT !.joined = TRUE])
radUDPSocketDropMulticastMembership(i) == udp[i].joined /\ SetOption(i, [udp[i] EXCEPT !.joined = FALSE])
radUDPSocketSetMulticastLoopback(i, on) ==
    /\ Free(i) /\ UdpCalled
    /\ udp' = [udp EXCEPT ![i].loop = on]
    /\ defaulted' = IF on THEN defaulted \ {i} ELSE defaulted
    /\ UNCHANGED <<flying, udpInbox, udpBuf, udpReads>>

\* One datagram, or ERROR: a broadcast needs the option.
radUDPSocketSendTo(i, to, size) ==
    /\ Free(i) /\ Len(flying) < MaxDgrams
    /\ to = "broadcast" => udp[i].broadcast
    /\ flying' = Append(flying, [from |-> HostOf[i], to |-> to, size |-> size,
                                 loop |-> udp[i].loop, quiet |-> i \in defaulted])
    /\ UNCHANGED <<noUdpCalls, udp, defaulted, udpInbox, udpBuf, udpReads>>

\* Kernel: datagram d may reach host h.
Reaches(d, h) ==
    CASE d.to = "group" -> /\ d.from = h => d.loop
                           /\ \E j \in UdpIds : udp[j].joined /\ HostOf[j] = h
      [] d.to = "broadcast" -> TRUE
      [] OTHER -> d.to = h

\* A datagram for one host goes to one of its sockets, any other to all of them;
\* it may come again, late, or never.
Arrives(n, h) ==
    LET d == flying[n]
        bound == {i \in UdpIds : HostOf[i] = h /\ udp[i].open /\ udp[i].bound}
    IN  /\ Reaches(d, h)
        /\ \E to \in IF d.to \in Hosts THEN {{i} : i \in bound} ELSE {bound} :
             /\ to # {}
             /\ \A i \in to : Len(udpInbox[i]) < 2
             /\ udpInbox' = [i \in UdpIds |-> IF i \in to THEN Append(udpInbox[i], n) ELSE udpInbox[i]]
        /\ UNCHANGED <<noUdpCalls, udp, defaulted, flying, udpBuf, udpReads>>

UdpReadStarts(i) ==
    /\ Free(i)
    /\ udpBuf' = [udpBuf EXCEPT ![i] = << >>]
    /\ udpReads' = [udpReads EXCEPT ![i] = << >>]
    /\ UNCHANGED <<noUdpCalls, udp, defaulted, flying, udpInbox>>

\* lenToRead - bytesRead.
WholeLength(i) == UdpLen                       \* mutant: lenToRead in every pass
RoomLeft(i) == UdpLen - Len(udpBuf[i])

\* One read of the loop takes one datagram; what does not fit is dropped by the
\* kernel, and what is missing is taken from the next datagram.
UdpReadSome(i) ==
    /\ udpBuf[i] # NoRead /\ udpInbox[i] # << >>
    /\ LET n == Head(udpInbox[i])
           now == udpBuf[i] \o [k \in 1..Min({flying[n].size, RoomLeft(i)}) |-> <<n, k>>]
       IN  /\ udpInbox' = [udpInbox EXCEPT ![i] = Tail(@)]
           /\ IF Len(now) >= UdpLen \/ flying[n].size = 0
              THEN /\ udpBuf' = [udpBuf EXCEPT ![i] = NoRead]
                   /\ udpReads' = [udpReads EXCEPT ![i] = now]
              ELSE /\ udpBuf' = [udpBuf EXCEPT ![i] = now]
                   /\ UNCHANGED udpReads
    /\ UNCHANGED <<noUdpCalls, udp, defaulted, flying>>

\* A signal can interrupt any read (EINTR), so that it does not matter whether the
\* socket blocks (EAGAIN).
UdpReadStops(i) ==
    /\ udpBuf[i] # NoRead /\ udpInbox[i] = << >>
    /\ udpReads' = [udpReads EXCEPT ![i] = udpBuf[i]]
    /\ udpBuf' = [udpBuf EXCEPT ![i] = NoRead]
    /\ UNCHANGED <<noUdpCalls, udp, defaulted, flying, udpInbox>>

radUDPSocketReadExact(i) == UdpReadStarts(i) \/ UdpReadSome(i) \/ UdpReadStops(i)

UdpNext ==
    \/ \E i \in UdpIds :
         \/ radUDPSocketCreate(i) \/ radUDPSocketDestroy(i) \/ radUDPSocketBind(i)
         \/ radUDPSocketAddMulticastMembership(i) \/ radUDPSocketDropMulticastMembership(i)
         \/ \E on \in BOOLEAN : \/ radUDPSocketSetBroadcast(i, on)
                                \/ radUDPSocketSetMulticastLoopback(i, on)
         \/ \E to \in UdpDests, size \in UdpSizes : radUDPSocketSendTo(i, to, size)
         \/ radUDPSocketReadExact(i)
    \/ \E n \in DOMAIN flying, h \in Hosts : Arrives(n, h)

UdpSpec == UdpInit /\ [][UdpNext]_udpVars

-----------------------------------------------------------------------------
Bufs == {udpReads[i] : i \in UdpIds} \cup {udpBuf[i] : i \in {j \in UdpIds : udpBuf[j] # NoRead}}

\* However the datagrams arrive, a buffer never exceeds what was asked for and
\* is made of beginnings of datagrams, each cut short only at the end of the
\* buffer (radUDPsocket.c:336); it may hold several datagrams, and the same
\* one twice.
BuffersOfDatagrams ==
    \A b \in Bufs :
        /\ Len(b) <= UdpLen
        /\ \A k \in DOMAIN b :
             /\ b[k][2] > 1 => k > 1 /\ b[k - 1] = <<b[k][1], b[k][2] - 1>>
             /\ k < Len(b) /\ b[k][2] < flying[b[k][1]].size => b[k + 1][1] = b[k][1]

\* "disabled by default": a host does not hear its own multicasts unless a
\* socket that sent one had loopback enabled, or its defaults could not be set.
OwnMulticastUnheard ==
    \A i \in UdpIds, n \in DOMAIN flying :
        LET d == flying[n]
            seen == {udpInbox[i][k] : k \in DOMAIN udpInbox[i]} \cup {udpReads[i][k][1] : k \in DOMAIN udpReads[i]}
        IN  n \in seen /\ d.to = "group" /\ d.quiet => d.from # HostOf[i]

\* What a caller of radUDPSocketReadExact may get, and from whom.
DatagramsAsSent == BuffersOfDatagrams /\ OwnMulticastUnheard
===============================================================================
