---------------------------- MODULE MCRoughCuts ----------------------------
(* TLC instances of RoughCuts.                                              *)
EXTENDS RoughCuts, TLC

CONSTANTS v1, v2

\* A multicam layout: one transcript is read, of the first camera that has one.
Multicam == <<<<v1, v2>>>>

\* Bound: what may come between in one behaviour.  With everything at once the
\* states multiply; these are the combinations that touch the same rows.
Together ==
  {{"two"}, {"lost assembly"}, {"lost hearing", "failure"}, {"abandon", "failure"},
   {"outage"}, {"abandon", "route"}, {"failure", "route", "upload"}, {"delete", "failure", "review"}}
=============================================================================
