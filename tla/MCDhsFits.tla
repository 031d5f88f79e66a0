----------------------------- MODULE MCDhsFits -----------------------------
(* DhsFits for TLC.                                                          *)
EXTENDS DhsFits, TLC

\* Exposure identifiers of a kind, directories and names are interchangeable.
MCSymmetry ==
  Permutations(ExpIDs \ ShortIDs) \cup Permutations(ShortIDs)
  \cup Permutations(UserNames) \cup Permutations(UserDirs) \cup Permutations(EnvClients)

=============================================================================
