----------------------------- MODULE MCShmUtil -----------------------------
(* ShmUtil for TLC: processes, inodes and segments are symmetric sets of     *)
(* model values.                                                             *)
EXTENDS ShmUtil, TLC

\* Processes, inodes and segment identifiers are interchangeable.
MCSymmetry == Permutations(Procs) \cup Permutations(Inodes) \cup Permutations(Segs)

=============================================================================
