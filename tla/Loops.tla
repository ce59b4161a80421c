-------------------------------- MODULE Loops --------------------------------
(***************************************************************************)
(* Dominators and natural loops, as LLVM computes them (SliceDomTree,      *)
(* SliceLoopInfo), of a graph [nodes, entry, basis, succ]: an LLVMSlice,   *)
(* or a function.                                                          *)
(***************************************************************************)
EXTENDS Closure, Naturals, SequencesExt

Pred(g) == [b \in g.nodes |-> {p \in g.nodes : b \in g.succ[p]}]

Dominates(g, d, b) ==
  b \notin Closure({g.entry} \ {d}, [n \in g.nodes |-> g.succ[n] \ {d}])

ForwardEdges(g) ==
  [b \in g.nodes |-> {s \in g.succ[b] : ~Dominates(g, s, b)}]

Latches(g, h) == {b \in g.nodes : h \in g.succ[b] /\ Dominates(g, h, b)}

NaturalLoop(g, h) ==
  {h} \cup Closure(Latches(g, h) \ {h}, [n \in g.nodes |-> Pred(g)[n] \ {h}])

NaturalLoops(g) ==
  [h \in {b \in g.nodes : Latches(g, b) # {}} |-> NaturalLoop(g, h)]

(* The ways through a graph from its entry to its basis, over the edges    *)
(* that do not lead back to the head of a loop.                            *)
ForwardWays(g, forward) ==
  LET long[n \in 1..Cardinality(g.nodes)] ==
        IF n = 1 THEN {<<g.entry>>}
        ELSE UNION {{Append(p, s) : s \in forward[Last(p)]} : p \in long[n - 1]}
  IN  {p \in UNION {long[n] : n \in DOMAIN long} : Last(p) = g.basis}

==============================================================================
