----------------------------- MODULE MCHarness -----------------------------
(* Two plugins, and one that cannot be found.                              *)
EXTENDS Harness, TLC

Symmetric == Permutations(Plugin)
============================================================================
