------------------------------ MODULE MCUnroll ------------------------------
(***************************************************************************)
(* Unroll on slices: the blocks 1..n, of which 1 is the entry and n the    *)
(* block of the fetch.  Every block lies on a way from the entry to the    *)
(* fetch (OnSomeTrace of SliceLinks).                                      *)
(***************************************************************************)
EXTENDS Unroll

CONSTANTS MaxSuccs, MaxExtra

Slices(n, graphs) ==
  {s \in {[nodes |-> 1..n, entry |-> 1, basis |-> n, succ |-> g] : g \in graphs} :
     /\ Closure({1}, s.succ) = 1..n
     /\ Closure({n}, Pred(s)) = 1..n}

(* All slices of four blocks.  The blocks between the entry and the fetch  *)
(* are interchangeable: block 2 follows the entry.                         *)
Followers == {S \in SUBSET (1..4) : Cardinality(S) <= MaxSuccs}

SmallSlices == Slices(4, {g \in [1..4 -> Followers] : 2 \in g[1] \/ g[1] \subseteq {1, 4}})

(* Slices of a straight line of six blocks with up to MaxExtra more edges  *)
(* that form nested and overlapping loops, loops left at several blocks or *)
(* into an outer one, and ways around a loop.                              *)
LoopEdges == {<<4, 3>>, <<4, 2>>, <<5, 2>>, <<6, 2>>, <<2, 6>>, <<3, 5>>, <<3, 6>>, <<5, 4>>}

LoopSlices ==
  Slices(6, {[n \in 1..6 |-> {m \in 1..6 : m = n + 1 \/ <<n, m>> \in extra}] :
               extra \in {E \in SUBSET LoopEdges : Cardinality(E) <= MaxExtra}})

Spec ==
  /\ UnrollInit(SmallSlices \cup LoopSlices)
  /\ [][UnrollNext]_unrollVars /\ WF_unrollVars(UnrollStep)

==============================================================================
