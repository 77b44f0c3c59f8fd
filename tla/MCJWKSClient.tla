---------------------------- MODULE MCJWKSClient ----------------------------
(***************************************************************************)
(* Instances of JWKSClient.                                                *)
(***************************************************************************)
EXTENDS JWKSClient, TLC

Symmetry == Permutations(Callers) \cup Permutations(Kids)

=============================================================================
