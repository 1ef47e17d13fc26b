----------------------------- MODULE MCLoadgen ------------------------------
(***************************************************************************)
(* Loadgen with a few connections.  The clients differ in nothing but      *)
(* their place in the map, which Init leaves open, so they are symmetric.  *)
(***************************************************************************)
EXTENDS Loadgen, TLC

ClientSymmetry == Permutations(Clients)
=============================================================================
