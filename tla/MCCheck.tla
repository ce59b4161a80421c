------------------------------ MODULE MCCheck ------------------------------
(* Three modules for two workers. *)
EXTENDS Check
CONSTANTS m1, m2, m3, w1, w2
ThreeJobs == {m1, m2, m3}
TwoWorkers == {w1, w2}
==============================================================================
