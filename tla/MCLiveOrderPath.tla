-------------------------- MODULE MCLiveOrderPath --------------------------
(***************************************************************************)
(* Instances of LiveOrderPath for TLC.                                     *)
(***************************************************************************)
EXTENDS LiveOrderPath

\* An order that can fill in two parts.
OneBuy == {[type |-> "LIMIT", side |-> "BUY", quantity |-> 2, price |-> 1]}
=============================================================================
