------------------------- MODULE MC_ServerLifecycle -------------------------
(***************************************************************************)
(* Three files and containers of two shares: the third file rolls over to *)
(* a second container, so both the first container (created at startup)  *)
(* and a rollover container hold indexed shares when the process dies.    *)
(***************************************************************************)
EXTENDS ServerLifecycle, TLC

CONSTANTS g1, g2, g3

MCFileIds == {g1, g2, g3}
\* Files are interchangeable: no action or property names one.
MCSymmetry == Permutations(MCFileIds)

=============================================================================
