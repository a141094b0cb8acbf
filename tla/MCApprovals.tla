---------------------------- MODULE MCApprovals ----------------------------
(* TLC instance of Approvals: the calls in flight are interchangeable.     *)
EXTENDS Approvals, TLC

Symmetric == Permutations(Calls)
=============================================================================
