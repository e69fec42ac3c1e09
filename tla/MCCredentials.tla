---------------------------- MODULE MCCredentials ----------------------------
(* Instances of Credentials.                                                *)
EXTENDS Credentials, TLC

Symmetry == Permutations(Hook)
=============================================================================
