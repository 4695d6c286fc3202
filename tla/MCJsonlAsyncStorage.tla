------------------------ MODULE MCJsonlAsyncStorage ------------------------
(***************************************************************************)
(* Instances of JsonlAsyncStorage for TLC.                                 *)
(***************************************************************************)
EXTENDS JsonlAsyncStorage

CONSTANTS c1, c2

\* Clients run the same code; sound for the runs without liveness.
ClientSymmetry == Permutations(Clients)
=============================================================================
