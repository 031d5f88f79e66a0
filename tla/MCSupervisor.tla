---------------------------- MODULE MCSupervisor ----------------------------
(* Supervisor for TLC: two clients, and as many Collectors as they can start. *)
EXTENDS Supervisor, TLC

CONSTANTS m1, m2, m3

\* dhs_config with a machine to spare, and with too few machines.
MCConfig == <<m1, m2, m3>>
MCShortConfig == <<m1>>

\* Clients are interchangeable, and so are Collectors.
MCSymmetry == Permutations(Clients) \cup Permutations(Collectors)

=============================================================================
