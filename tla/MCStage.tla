------------------------------ MODULE MCStage ------------------------------
(* Two items, any number of runs of irgen or of trans. *)
EXTENDS Stage
CONSTANTS a, b
TwoItems == {a, b}
Irgen == [atomic |-> TRUE, returns |-> FALSE]
Trans == [atomic |-> FALSE, returns |-> TRUE]
Either == {Irgen, Trans}
==============================================================================
