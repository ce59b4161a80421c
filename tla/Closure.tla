------------------------------- MODULE Closure -------------------------------
(***************************************************************************)
(* Reachability in a finite directed graph, shared by the modules that     *)
(* model graph traversals of the pass.  A graph is a function from a node  *)
(* to the set of its direct neighbours.  Reachability is stated as the     *)
(* least closed set, which needs no recursion, so that the modules built   *)
(* on it can be reasoned about with TLAPS.                                 *)
(***************************************************************************)

(* S contains every neighbour of its members. *)
Closed(S, graph) == \A v \in S : graph[v] \subseteq S

(* All nodes reachable from a member of S: a depth- or breadth-first       *)
(* traversal started at S visits exactly these.                            *)
Closure(S, graph) ==
  {v \in DOMAIN graph :
     \A T \in SUBSET DOMAIN graph :
       (S \subseteq T /\ Closed(T, graph)) => v \in T}

==============================================================================
