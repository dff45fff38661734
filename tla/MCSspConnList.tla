--------------------------- MODULE MCSspConnList ----------------------------
(***************************************************************************)
(* Small sets of workers, calls and memory for TLC.                        *)
(***************************************************************************)
EXTENDS SspConnList, TLC

ListSymmetry == Permutations(Workers) \cup Permutations(CallIds)
                \cup Permutations(Cells) \cup Permutations(Endpoints)

\* Every safety property is about what happens before the first hazard: there is
\* no need to look at what follows one.
NoHazardYet == ~hazard
=============================================================================
