-------------------------------- MODULE Dag --------------------------------
(***************************************************************************)
(* DAGraph: the blocks of a slice with every outermost loop condensed to   *)
(* one item, and a graph of the same kind for the inside of each loop.     *)
(* getPath enumerates, by a depth-first search backward over the items,    *)
(* the sequences of items from the root of a graph to one of its items.    *)
(*                                                                         *)
(* A graph is named by its scope: the header of its loop, or Null for the  *)
(* whole slice.                                                            *)
(***************************************************************************)
EXTENDS Loops

CONSTANTS
  Null,
  StackLimit  \* bound: the nesting of calls of DFS the stack has room for

VARIABLES
  slice,   \* the LLVMSlice: its nodes, succ, entry and basis
  forward, \* SliceDomTree: the successors of each block that do not dominate it
  loops,   \* SliceLoopInfo: the blocks of the loop of each header
  unbuilt, \* the scopes whose graph is still to be built
  dags,    \* the graphs built so far, by scope
  paths,   \* the memo of getPath, by scope and item
  hist,    \* the items of the active calls of DFS, the innermost last
  left,    \* for each of them the predecessors not yet visited
  found,   \* the traces found by the search under way
  fault    \* "none", or the assertion that failed

dagVars == <<slice, forward, loops, unbuilt, dags, paths, hist, left, found, fault>>

(* A map with an entry for k, which is left alone when it is there. *)
Inserted(f, k, v) == [x \in (DOMAIN f) \cup {k} |-> IF x \in DOMAIN f THEN f[x] ELSE v]

------------------------------------------------------------------------------
(* Construction of the graph of a scope. *)

Block(b) == <<"block", b>>
Loop(h) == <<"loop", h>>
IsLoop(item) == item[1] = "loop"

InScope(scope) == IF scope = Null THEN slice.nodes ELSE loops[scope]

(* The outermost of the loops within the scope that contain b. *)
OuterLoopInScope(scope, b) ==
  LET around == {h \in DOMAIN loops : b \in loops[h] /\ h # scope
                                      /\ loops[h] \subseteq InScope(scope)}
  IN  IF around = {} THEN Null
      ELSE CHOOSE h \in around : \A k \in around : loops[k] \subseteq loops[h]

(* The item that stands for block b. *)
Item(scope, b) ==
  LET h == OuterLoopInScope(scope, b)
  IN  IF h = Null THEN Block(b) ELSE Loop(h)

(* The edges between items that stand for the given edges between blocks:  *)
(* those within a loop item, and those that leave the scope, are left out. *)
Edges(scope, edge) ==
  {<<Item(scope, e[1]), Item(scope, e[2])>> :
     e \in {f \in edge :
              /\ {f[1], f[2]} \subseteq InScope(scope)
              /\ LET h == OuterLoopInScope(scope, f[1])
                 IN  h # Null => f[2] \notin loops[h]}}

Condensed(scope) ==
  [items |-> {Item(scope, b) : b \in InScope(scope)},
   root  |-> Item(scope, IF scope = Null THEN slice.entry ELSE scope),
   succs |-> Edges(scope, {e \in slice.nodes \X slice.nodes : e[2] \in slice.succ[e[1]]}),
   preds |-> Edges(scope, {e \in slice.nodes \X slice.nodes : e[1] \in slice.succ[e[2]]})]

Exiting(h) == {b \in loops[h] : ~(slice.succ[b] \subseteq loops[h])}

(* The blocks an item can be left from. *)
Leaving(item) == IF IsLoop(item) THEN Exiting(item[2]) ELSE {item[2]}

(* DALoop::check, "ensure single header". *)
SingleHeader(g, item) ==
  IsLoop(item) =>
    \A p \in {e[2] : e \in {f \in g.preds : f[1] = item}} :
      \A b \in Leaving(p) : slice.succ[b] \cap loops[item[2]] \subseteq {item[2]}

Verified(g) ==
  /\ g.preds = {<<e[2], e[1]>> : e \in g.succs}
  /\ \A item \in g.items : SingleHeader(g, item)

Build(scope) ==
  LET g == Condensed(scope)
  IN  /\ fault = "none"
      /\ scope \in unbuilt
      /\ dags' = Inserted(dags, scope, g)
      /\ fault' = IF Verified(g) THEN "none" ELSE "verify"
      /\ unbuilt' = (unbuilt \ {scope}) \cup {i[2] : i \in {j \in g.items : IsLoop(j)}}
      /\ UNCHANGED <<slice, forward, loops, paths, hist, left, found>>

------------------------------------------------------------------------------
(* getPath: the memo, and the search of flatten for the paths to an item.  *)

Before(scope, item) == {e[2] : e \in {f \in dags[scope].preds : f[1] = item}}

Searching == hist # <<>>

(* The call of DFS for the last item of stack. *)
Visit(scope, stack, pending) ==
  IF Len(stack) > StackLimit
    THEN fault' = "stack" /\ UNCHANGED <<hist, left, found>>
    ELSE LET item == stack[Len(stack)]
             atRoot == item = dags[scope].root
         IN  /\ hist' = stack
             /\ left' = Append(pending, IF atRoot THEN {} ELSE Before(scope, item))
             /\ found' = found \cup IF atRoot THEN {Reverse(stack)} ELSE {}
             /\ UNCHANGED fault

Start(scope, item) ==
  /\ fault = "none" /\ ~Searching
  /\ <<scope, item>> \notin DOMAIN paths
  /\ Visit(scope, <<item>>, <<>>)
  /\ UNCHANGED <<slice, forward, loops, unbuilt, dags, paths>>

Descend(scope) ==
  /\ fault = "none" /\ Searching
  /\ \E p \in left[Len(left)] :
       Visit(scope, Append(hist, p), [left EXCEPT ![Len(left)] = @ \ {p}])
  /\ UNCHANGED <<slice, forward, loops, unbuilt, dags, paths>>

RetreatForgetting(scope) ==  \* mutant: the memo is not filled
  /\ fault = "none" /\ Searching
  /\ left[Len(left)] = {}
  /\ hist' = Front(hist)
  /\ left' = Front(left)
  /\ found' = IF Len(hist) > 1 THEN found ELSE {}
  /\ UNCHANGED <<slice, forward, loops, unbuilt, dags, paths, fault>>

(* A call of DFS returns; with the outermost one flatten and getPath do. *)
Retreat(scope) ==
  /\ fault = "none" /\ Searching
  /\ left[Len(left)] = {}
  /\ hist' = Front(hist)
  /\ left' = Front(left)
  /\ IF Len(hist) > 1
       THEN UNCHANGED <<paths, found>>
       ELSE /\ paths' = Inserted(paths, <<scope, hist[1]>>, found)
            /\ found' = {}
  /\ UNCHANGED <<slice, forward, loops, unbuilt, dags, fault>>

------------------------------------------------------------------------------
(* SliceOracle::SliceOracle, up to the construction of the graphs. *)
DagInit(graphs) ==
  /\ slice \in graphs
  /\ forward = ForwardEdges(slice)
  /\ loops = NaturalLoops(slice)
  /\ unbuilt = {Null}
  /\ dags = <<>> /\ paths = <<>>
  /\ hist = <<>> /\ left = <<>> /\ found = {}
  /\ fault = "none"

------------------------------------------------------------------------------
(* Properties. *)

(* Every cycle has a back edge. *)
Reducible == \A b \in slice.nodes : b \notin Closure(forward[b], forward)

==============================================================================
