---------------------------- MODULE UnrollProofs ----------------------------
(***************************************************************************)
(* Proofs about Dag and Unroll, for every slice whose blocks are reachable *)
(* from its entry, reducible or not: natural loops lie apart or within one *)
(* another, no graph fails its verification, the traces that are returned  *)
(* are ways through the slice, and when they are few none of them is lost: *)
(* Unroll implements TraceSet, but for what has to happen in the end.      *)
(***************************************************************************)
EXTENDS Unroll, Integers, SequenceTheorems, FiniteSetTheorems, TLAPS

------------------------------------------------------------------------------
(* Dominators. *)

(* What the analyses rely on: a finite graph, all of it reachable.         *)
Sliced(g) ==
  /\ IsFiniteSet(g.nodes)
  /\ g.entry \in g.nodes /\ g.basis \in g.nodes
  /\ g.succ \in [g.nodes -> SUBSET g.nodes]
  /\ g.nodes \subseteq Closure({g.entry}, g.succ)
  /\ Null \notin g.nodes

(* The blocks that are reachable without d. *)
Without(g, d) == Closure({g.entry} \ {d}, [n \in g.nodes |-> g.succ[n] \ {d}])

LEMMA WithoutFacts ==
  ASSUME NEW g, Sliced(g), NEW d \in g.nodes
  PROVE  /\ Without(g, d) \subseteq g.nodes
         /\ d \notin Without(g, d)
         /\ g.entry # d => g.entry \in Without(g, d)
         /\ \A v \in Without(g, d) : \A w \in g.succ[v] : w # d => w \in Without(g, d)
         /\ \A b : Dominates(g, d, b) <=> b \notin Without(g, d)
<1>. DEFINE G == [n \in g.nodes |-> g.succ[n] \ {d}]
<1>1. DOMAIN G = g.nodes /\ \A v \in g.nodes : G[v] = g.succ[v] \ {d} /\ G[v] \subseteq g.nodes
  BY DEF Sliced
<1>2. Without(g, d) = Closure({g.entry} \ {d}, G)
  BY DEF Without
<1>. HIDE DEF G
<1>3. Without(g, d) \subseteq g.nodes
  BY <1>1, <1>2 DEF Closure
<1>4. d \notin Without(g, d)
  <2>. DEFINE T == g.nodes \ {d}
  <2>1. T \in SUBSET DOMAIN G /\ {g.entry} \ {d} \subseteq T /\ Closed(T, G) /\ d \notin T
    BY <1>1 DEF Sliced, Closed
  <2>. HIDE DEF T
  <2>. QED
    BY <1>2, <2>1 DEF Closure
<1>5. g.entry # d => g.entry \in Without(g, d)
  BY <1>1, <1>2 DEF Closure, Sliced
<1>6. ASSUME NEW v \in Without(g, d), NEW w \in g.succ[v], w # d
      PROVE  w \in Without(g, d)
  <2>1. v \in g.nodes /\ w \in G[v] /\ w \in DOMAIN G
    BY <1>1, <1>3, <1>6
  <2>. QED
    BY <1>2, <1>6, <2>1 DEF Closure, Closed
<1>7. \A b : Dominates(g, d, b) <=> b \notin Without(g, d)
  BY DEF Dominates, Without
<1>. QED
  BY <1>3, <1>4, <1>5, <1>6, <1>7

LEMMA WithoutLeast ==
  ASSUME NEW g, Sliced(g), NEW d \in g.nodes, NEW T \in SUBSET g.nodes,
         g.entry # d => g.entry \in T,
         \A v \in T : \A w \in g.succ[v] : w # d => w \in T
  PROVE  Without(g, d) \subseteq T
<1>. DEFINE G == [n \in g.nodes |-> g.succ[n] \ {d}]
<1>1. DOMAIN G = g.nodes /\ \A v \in g.nodes : G[v] = g.succ[v] \ {d}
  OBVIOUS
<1>2. Without(g, d) = Closure({g.entry} \ {d}, G)
  BY DEF Without
<1>3. T \in SUBSET DOMAIN G /\ {g.entry} \ {d} \subseteq T /\ Closed(T, G)
  BY <1>1 DEF Closed
<1>. HIDE DEF G
<1>. QED
  BY <1>2, <1>3 DEF Closure

(* A set that holds the entry and all successors of its members is all.    *)
LEMMA AllReached ==
  ASSUME NEW g, Sliced(g), NEW T \in SUBSET g.nodes, g.entry \in T,
         \A v \in T : g.succ[v] \subseteq T
  PROVE  T = g.nodes
<1>1. DOMAIN g.succ = g.nodes /\ Closed(T, g.succ) /\ {g.entry} \subseteq T
  BY DEF Sliced, Closed
<1>2. Closure({g.entry}, g.succ) \subseteq T
  BY <1>1 DEF Closure
<1>. QED
  BY <1>2 DEF Sliced

(* Dominance is a partial order, and the dominators of a block are ordered *)
(* by it.                                                                  *)
LEMMA DominatesTransitive ==
  ASSUME NEW g, Sliced(g), NEW d \in g.nodes, NEW e \in g.nodes, NEW b,
         Dominates(g, d, e), Dominates(g, e, b)
  PROVE  Dominates(g, d, b)
<1>. DEFINE T == Without(g, d) \cap Without(g, e)
<1>1. e \notin Without(g, d) /\ b \notin Without(g, e)
  BY WithoutFacts
<1>2. T \in SUBSET g.nodes /\ (g.entry # d => g.entry \in T)
  BY <1>1, WithoutFacts
<1>3. \A v \in T : \A w \in g.succ[v] : w # d => w \in T
  BY <1>1, WithoutFacts
<1>4. Without(g, d) \subseteq T
  <2>. HIDE DEF T
  <2>. QED
    BY <1>2, <1>3, WithoutLeast
<1>. QED
  BY <1>1, <1>4, WithoutFacts

LEMMA DominatesAntisymmetric ==
  ASSUME NEW g, Sliced(g), NEW d \in g.nodes, NEW e \in g.nodes,
         Dominates(g, d, e), Dominates(g, e, d)
  PROVE  d = e
<1>. SUFFICES ASSUME d # e
              PROVE  FALSE
  OBVIOUS
<1>. DEFINE T == Without(g, d) \cup Without(g, e)
<1>1. d \notin Without(g, e) /\ e \notin Without(g, d)
  BY WithoutFacts
<1>2. Without(g, d) \subseteq Without(g, e)
  <2>1. ASSUME NEW v \in Without(g, d)
        PROVE  ~Dominates(g, e, v)
    BY <2>1, WithoutFacts, DominatesTransitive
  <2>. QED
    BY <2>1, WithoutFacts
<1>3. Without(g, e) \subseteq Without(g, d)
  <2>1. ASSUME NEW v \in Without(g, e)
        PROVE  ~Dominates(g, d, v)
    BY <2>1, WithoutFacts, DominatesTransitive
  <2>. QED
    BY <2>1, WithoutFacts
<1>4. T \in SUBSET g.nodes /\ g.entry \in T
  BY WithoutFacts
<1>5. \A v \in T : g.succ[v] \subseteq T
  BY <1>1, <1>2, <1>3, WithoutFacts
<1>6. T = g.nodes
  <2>. HIDE DEF T
  <2>. QED
    BY <1>4, <1>5, AllReached
<1>. QED
  BY <1>1, <1>2, <1>3, <1>6

LEMMA DominatorsOrdered ==
  ASSUME NEW g, Sliced(g), NEW d \in g.nodes, NEW e \in g.nodes, NEW b \in g.nodes,
         Dominates(g, d, b), Dominates(g, e, b)
  PROVE  Dominates(g, d, e) \/ Dominates(g, e, d)
<1>. SUFFICES ASSUME ~Dominates(g, d, e), ~Dominates(g, e, d)
              PROVE  FALSE
  OBVIOUS
<1>. DEFINE T == Without(g, d) \cup Without(g, e)
<1>1. e \in Without(g, d) /\ d \in Without(g, e) /\ b \notin T
  BY WithoutFacts
<1>2. T \in SUBSET g.nodes /\ g.entry \in T
  BY <1>1, WithoutFacts
<1>3. \A v \in T : g.succ[v] \subseteq T
  <2>1. ASSUME NEW v \in T, NEW w \in g.succ[v]
        PROVE  w \in T
    BY <1>1, <2>1, WithoutFacts
  <2>. QED
    BY <2>1
<1>4. T = g.nodes
  <2>. HIDE DEF T
  <2>. QED
    BY <1>2, <1>3, AllReached
<1>. QED
  BY <1>1, <1>4

------------------------------------------------------------------------------
(* Natural loops. *)

Headers(g) == {h \in g.nodes : Latches(g, h) # {}}

(* The head of a loop dominates the loop, and the loop is closed under     *)
(* predecessors, but for those of its head.                                *)
LEMMA LoopFacts ==
  ASSUME NEW g, Sliced(g), NEW h \in g.nodes
  PROVE  /\ h \in NaturalLoop(g, h)
         /\ NaturalLoop(g, h) \subseteq g.nodes
         /\ \A b \in NaturalLoop(g, h) : Dominates(g, h, b)
         /\ \A b \in NaturalLoop(g, h) \ {h} : \A p \in g.nodes :
              b \in g.succ[p] => p \in NaturalLoop(g, h)
         /\ Latches(g, h) \subseteq NaturalLoop(g, h)
<1>. DEFINE G == [n \in g.nodes |-> Pred(g)[n] \ {h}]
            C == Closure(Latches(g, h) \ {h}, G)
            T == {b \in g.nodes \ {h} : Dominates(g, h, b)}
<1>1. DOMAIN G = g.nodes
      /\ \A n \in g.nodes : G[n] = {p \in g.nodes : n \in g.succ[p]} \ {h}
  BY DEF Pred
<1>2. NaturalLoop(g, h) = {h} \cup C
  BY DEF NaturalLoop
<1>3. Latches(g, h) \subseteq g.nodes
      /\ \A b \in Latches(g, h) : h \in g.succ[b] /\ Dominates(g, h, b)
  BY DEF Latches
<1>4. T \in SUBSET DOMAIN G /\ Latches(g, h) \ {h} \subseteq T
  BY <1>1, <1>3
<1>5. Closed(T, G)
  <2>1. SUFFICES ASSUME NEW v \in T, NEW p \in G[v]
                 PROVE  p \in T
    BY DEF Closed
  <2>2. p \in g.nodes /\ v \in g.succ[p] /\ p # h /\ v # h
    BY <1>1, <2>1
  <2>3. Dominates(g, h, p)
    BY <2>1, <2>2, WithoutFacts
  <2>. QED
    BY <2>2, <2>3
<1>6. Dominates(g, h, h)
  BY WithoutFacts
<1>. HIDE DEF G
<1>7. C \subseteq T /\ C \subseteq g.nodes
  <2>1. C \subseteq T
    <3>. HIDE DEF T
    <3>. QED
      BY <1>4, <1>5 DEF Closure
  <2>. QED
    BY <2>1
<1>8. Latches(g, h) \ {h} \subseteq C
  BY <1>1, <1>3 DEF Closure
<1>9. ASSUME NEW b \in C, NEW p \in g.nodes, b \in g.succ[p], p # h
      PROVE  p \in C
  <2>1. p \in G[b] /\ p \in DOMAIN G
    BY <1>1, <1>7, <1>9
  <2>. QED
    BY <1>9, <2>1 DEF Closure, Closed
<1>. QED
  BY <1>2, <1>6, <1>7, <1>8, <1>9

LEMMA LoopLeast ==
  ASSUME NEW g, Sliced(g), NEW h \in g.nodes, NEW T \in SUBSET g.nodes,
         h \in T, Latches(g, h) \subseteq T,
         \A b \in T \ {h} : \A p \in g.nodes : b \in g.succ[p] => p \in T
  PROVE  NaturalLoop(g, h) \subseteq T
<1>. DEFINE G == [n \in g.nodes |-> Pred(g)[n] \ {h}]
            U == T \ {h}
<1>1. DOMAIN G = g.nodes
      /\ \A n \in g.nodes : G[n] = {p \in g.nodes : n \in g.succ[p]} \ {h}
  BY DEF Pred
<1>2. U \in SUBSET DOMAIN G /\ Latches(g, h) \ {h} \subseteq U /\ Closed(U, G)
  BY <1>1 DEF Closed
<1>3. NaturalLoop(g, h) = {h} \cup Closure(Latches(g, h) \ {h}, G)
  BY DEF NaturalLoop
<1>. HIDE DEF G, U
<1>4. Closure(Latches(g, h) \ {h}, G) \subseteq U
  BY <1>2 DEF Closure
<1>. QED
  BY <1>3, <1>4 DEF U

(* A block from which a block of the loop is reached past its head only is *)
(* dominated by none but those that are in the loop or dominate the head.  *)
LEMMA InnerHeadInLoop ==
  ASSUME NEW g, Sliced(g), NEW h \in g.nodes, NEW k \in g.nodes,
         Dominates(g, h, k), NEW b \in NaturalLoop(g, h), Dominates(g, k, b)
  PROVE  k \in NaturalLoop(g, h)
<1>. SUFFICES ASSUME k \notin NaturalLoop(g, h)
              PROVE  FALSE
  OBVIOUS
<1>1. /\ h \in NaturalLoop(g, h) /\ NaturalLoop(g, h) \subseteq g.nodes /\ k # h
      /\ \A c \in NaturalLoop(g, h) \ {h} : \A p \in g.nodes :
           c \in g.succ[p] => p \in NaturalLoop(g, h)
  BY LoopFacts
<1>2. h \in Without(g, k)
  BY <1>1, DominatesAntisymmetric, WithoutFacts
<1>. DEFINE B == NaturalLoop(g, h) \ Without(g, k)
            T == g.nodes \ B
<1>3. b \in B
  BY WithoutFacts
<1>4. T \in SUBSET g.nodes /\ g.entry \in T
  BY <1>1, WithoutFacts DEF Sliced
<1>5. \A v \in T : g.succ[v] \subseteq T
  <2>1. SUFFICES ASSUME NEW v \in T, NEW w \in g.succ[v], w \in B
                 PROVE  FALSE
    BY DEF Sliced
  <2>2. v \in NaturalLoop(g, h)
    BY <1>1, <1>2, <2>1
  <2>3. v \in Without(g, k)
    BY <2>1, <2>2
  <2>. QED
    BY <1>1, <2>1, <2>3, WithoutFacts
<1>6. T = g.nodes
  <2>. HIDE DEF T
  <2>. QED
    BY <1>4, <1>5, AllReached
<1>. QED
  BY <1>1, <1>3, <1>6

LEMMA LoopWithin ==
  ASSUME NEW g, Sliced(g), NEW h \in g.nodes, NEW k \in g.nodes,
         Dominates(g, h, k), k \in NaturalLoop(g, h)
  PROVE  NaturalLoop(g, k) \subseteq NaturalLoop(g, h)
<1>1. CASE k = h
  BY <1>1
<1>2. CASE k # h
  <2>. DEFINE T == NaturalLoop(g, h) \cap NaturalLoop(g, k)
  <2>1. h \notin NaturalLoop(g, k)
    BY <1>2, LoopFacts, DominatesAntisymmetric
  <2>2. T \in SUBSET g.nodes /\ k \in T
    BY LoopFacts
  <2>3. Latches(g, k) \subseteq T
    <3>1. \A b \in Latches(g, k) : b \in g.nodes /\ k \in g.succ[b]
      BY DEF Latches
    <3>. QED
      BY <1>2, <3>1, LoopFacts
  <2>4. \A b \in T \ {k} : \A p \in g.nodes : b \in g.succ[p] => p \in T
    BY <2>1, LoopFacts
  <2>5. NaturalLoop(g, k) \subseteq T
    <3>. HIDE DEF T
    <3>. QED
      BY <2>2, <2>3, <2>4, LoopLeast
  <2>. QED
    BY <2>5
<1>. QED
  BY <1>1, <1>2

(* Two loops lie apart, or one within the other.                           *)
THEOREM LoopsNest ==
  ASSUME NEW g, Sliced(g), NEW h \in g.nodes, NEW k \in g.nodes,
         NEW b \in NaturalLoop(g, h) \cap NaturalLoop(g, k)
  PROVE  \/ NaturalLoop(g, k) \subseteq NaturalLoop(g, h)
         \/ NaturalLoop(g, h) \subseteq NaturalLoop(g, k)
<1>1. b \in g.nodes /\ Dominates(g, h, b) /\ Dominates(g, k, b)
  BY LoopFacts
<1>2. Dominates(g, h, k) \/ Dominates(g, k, h)
  BY <1>1, DominatorsOrdered
<1>3. CASE Dominates(g, h, k)
  <2>1. k \in NaturalLoop(g, h)
    BY <1>1, <1>3, InnerHeadInLoop
  <2>. QED
    BY <1>3, <2>1, LoopWithin
<1>4. CASE Dominates(g, k, h)
  <2>1. h \in NaturalLoop(g, k)
    BY <1>1, <1>4, InnerHeadInLoop
  <2>. QED
    BY <1>4, <2>1, LoopWithin
<1>. QED
  BY <1>2, <1>3, <1>4

(* Loops with the same blocks have the same head.                          *)
LEMMA SameLoopSameHead ==
  ASSUME NEW g, Sliced(g), NEW h \in g.nodes, NEW k \in g.nodes,
         k \in NaturalLoop(g, h), h \in NaturalLoop(g, k)
  PROVE  h = k
BY LoopFacts, DominatesAntisymmetric

------------------------------------------------------------------------------
(* The items of the graphs. *)

(* The analyses belong to the slice. *)
Analysed ==
  /\ Sliced(slice)
  /\ forward = ForwardEdges(slice)
  /\ loops = NaturalLoops(slice)

Scopes == {Null} \cup DOMAIN loops

(* The loops within a scope around a block, its own one left out.          *)
Around(scope, b) ==
  {h \in DOMAIN loops : b \in loops[h] /\ h # scope /\ loops[h] \subseteq InScope(scope)}

LEMMA AnalysisFacts ==
  ASSUME Analysed
  PROVE  /\ DOMAIN loops \subseteq slice.nodes /\ Null \notin DOMAIN loops
         /\ \A h \in DOMAIN loops : loops[h] = NaturalLoop(slice, h)
                                    /\ h \in loops[h] /\ loops[h] \subseteq slice.nodes
         /\ \A scope \in Scopes : InScope(scope) \subseteq slice.nodes
         /\ \A u \in slice.nodes : \A v \in slice.succ[u] :
              /\ v \in slice.nodes
              /\ v \in forward[u] \/ (v \in DOMAIN loops /\ u \in loops[v])
<1>1. DOMAIN loops = Headers(slice)
      /\ \A h \in DOMAIN loops : loops[h] = NaturalLoop(slice, h)
  BY DEF Analysed, NaturalLoops, Headers
<1>2. Headers(slice) \subseteq slice.nodes /\ Null \notin slice.nodes
  BY DEF Headers, Analysed, Sliced
<1>3. \A h \in DOMAIN loops : h \in loops[h] /\ loops[h] \subseteq slice.nodes
  BY <1>1, <1>2, LoopFacts DEF Analysed
<1>4. \A scope \in Scopes : InScope(scope) \subseteq slice.nodes
  BY <1>3 DEF InScope, Scopes
<1>5. ASSUME NEW u \in slice.nodes, NEW v \in slice.succ[u], v \notin forward[u]
      PROVE  v \in DOMAIN loops /\ u \in loops[v]
  <2>1. v \in slice.nodes /\ Dominates(slice, v, u)
    BY <1>5 DEF Analysed, Sliced, ForwardEdges
  <2>2. u \in Latches(slice, v)
    BY <1>5, <2>1 DEF Latches
  <2>3. v \in DOMAIN loops
    BY <1>1, <2>1, <2>2 DEF Headers
  <2>. QED
    BY <1>1, <2>1, <2>2, <2>3, LoopFacts DEF Analysed
<1>6. \A u \in slice.nodes : \A v \in slice.succ[u] : v \in slice.nodes
  BY DEF Analysed, Sliced
<1>. QED
  BY <1>1, <1>2, <1>3, <1>4, <1>5, <1>6

LEMMA LoopsNested ==
  ASSUME Analysed, NEW h \in DOMAIN loops, NEW k \in DOMAIN loops
  PROVE  /\ \A b \in loops[h] \cap loops[k] :
              loops[k] \subseteq loops[h] \/ loops[h] \subseteq loops[k]
         /\ k \in loops[h] /\ h \in loops[k] => h = k
<1>1. h \in slice.nodes /\ k \in slice.nodes /\ Sliced(slice)
      /\ loops[h] = NaturalLoop(slice, h) /\ loops[k] = NaturalLoop(slice, k)
  BY AnalysisFacts DEF Analysed
<1>. QED
  BY <1>1, LoopsNest, SameLoopSameHead

(* The loop that stands for a block contains all loops around it.          *)
LEMMA OuterLoopFacts ==
  ASSUME Analysed, NEW scope \in Scopes, NEW b \in InScope(scope),
         NEW h, h = OuterLoopInScope(scope, b)
  PROVE  \/ h = Null /\ Around(scope, b) = {}
         \/ h # Null /\ h \in Around(scope, b) /\ \A k \in Around(scope, b) : loops[k] \subseteq loops[h]
<1>. DEFINE around == Around(scope, b)
<1>1. h = IF around = {} THEN Null
          ELSE CHOOSE m \in around : \A k \in around : loops[k] \subseteq loops[m]
  BY DEF OuterLoopInScope, Around
<1>2. around \subseteq DOMAIN loops /\ Null \notin around /\ \A k \in around : b \in loops[k]
  BY AnalysisFacts DEF Around
<1>3. ASSUME around # {}
      PROVE  \E m \in around : \A k \in around : loops[k] \subseteq loops[m]
  <2>. DEFINE R == StrictSubsetOrdering(slice.nodes)
              T == {slice.nodes \ loops[k] : k \in around}
  <2>1. IsWellFoundedOn(R, FiniteSubsetsOf(slice.nodes))
    BY FS_StrictSubsetOrderingWellFounded
  <2>2. T \subseteq FiniteSubsetsOf(slice.nodes) /\ T # {}
    <3>1. ASSUME NEW k \in around
          PROVE  slice.nodes \ loops[k] \in FiniteSubsetsOf(slice.nodes)
      BY FS_Subset DEF Analysed, Sliced, FiniteSubsetsOf
    <3>. QED
      BY <1>3, <3>1
  <2>3. PICK x \in T : \A y \in T : ~(<<y, x>> \in R)
    <3>. HIDE DEF R, T
    <3>. QED
      BY <2>1, <2>2, WFMin
  <2>4. PICK m \in around : x = slice.nodes \ loops[m]
    OBVIOUS
  <2>5. ASSUME NEW k \in around, ~(loops[k] \subseteq loops[m])
        PROVE  FALSE
    <3>1. loops[m] \subseteq loops[k] /\ loops[k] \subseteq slice.nodes
      BY <1>2, <2>5, LoopsNested, AnalysisFacts
    <3>2. slice.nodes \ loops[k] \subseteq slice.nodes \ loops[m]
          /\ slice.nodes \ loops[k] # slice.nodes \ loops[m]
      BY <2>5, <3>1
    <3>3. <<slice.nodes \ loops[k], slice.nodes \ loops[m]>> \in R
      BY <3>2 DEF StrictSubsetOrdering
    <3>. QED
      BY <2>3, <2>4, <3>3
  <2>. QED
    BY <2>5
<1>. HIDE DEF around
<1>. QED
  BY <1>1, <1>2, <1>3 DEF around

(* Which blocks an item stands for. *)
LEMMA ItemFacts ==
  ASSUME Analysed, NEW scope \in Scopes, NEW b \in InScope(scope)
  PROVE  \/ /\ Item(scope, b) = Block(b) /\ Around(scope, b) = {}
         \/ \E h \in Around(scope, b) :
              /\ Item(scope, b) = Loop(h) /\ h = OuterLoopInScope(scope, b) /\ h # Null
              /\ \A k \in Around(scope, b) : loops[k] \subseteq loops[h]
BY OuterLoopFacts DEF Item

LEMMA Tags ==
  /\ \A b : ~IsLoop(Block(b)) /\ Block(b)[2] = b
  /\ \A h : IsLoop(Loop(h)) /\ Loop(h)[2] = h
  /\ \A b, h : Block(b) # Loop(h)
  /\ \A b, c : Block(b) = Block(c) => b = c
  /\ \A b, c : Loop(b) = Loop(c) => b = c
BY DEF Block, Loop, IsLoop

(* An edge between items comes from an edge between blocks that leaves no  *)
(* item within itself.                                                     *)
LEMMA PredFacts ==
  ASSUME Analysed, NEW scope \in Scopes, NEW i, NEW j,
         <<i, j>> \in Condensed(scope).preds
  PROVE  \E x, y \in InScope(scope) :
           /\ i = Item(scope, x) /\ j = Item(scope, y)
           /\ y \in slice.nodes /\ x \in slice.succ[y]
           /\ \A h : i = Loop(h) => y \notin loops[h]
<1>. DEFINE back == {e \in slice.nodes \X slice.nodes : e[1] \in slice.succ[e[2]]}
<1>1. <<i, j>> \in Edges(scope, back)
  BY DEF Condensed
<1>2. PICK e \in back :
        /\ <<i, j>> = <<Item(scope, e[1]), Item(scope, e[2])>>
        /\ {e[1], e[2]} \subseteq InScope(scope)
        /\ OuterLoopInScope(scope, e[1]) # Null
             => e[2] \notin loops[OuterLoopInScope(scope, e[1])]
  BY <1>1 DEF Edges
<1>3. i = Item(scope, e[1]) /\ j = Item(scope, e[2]) /\ e[2] \in slice.nodes
      /\ e[1] \in slice.succ[e[2]] /\ e[1] \in InScope(scope) /\ e[2] \in InScope(scope)
  BY <1>2
<1>4. ASSUME NEW h, i = Loop(h)
      PROVE  e[2] \notin loops[h]
  <2>. DEFINE x == e[1]
  <2>0. x \in InScope(scope) /\ Item(scope, x) = Loop(h)
    BY <1>3, <1>4
  <2>1. OuterLoopInScope(scope, x) = h /\ h # Null
    <3>. HIDE DEF x
    <3>. QED
      BY <2>0, ItemFacts, Tags
  <2>2. OuterLoopInScope(scope, e[1]) # Null
          => e[2] \notin loops[OuterLoopInScope(scope, e[1])]
    BY <1>2
  <2>. QED
    BY Zenon, <2>1, <2>2
<1>. QED
  BY <1>3, <1>4

(* Two loops that stand for the ends of an edge, or a loop and a block.    *)
LEMMA EndsApart ==
  ASSUME Analysed, NEW scope \in Scopes, NEW h,
         NEW x \in InScope(scope), NEW y \in InScope(scope),
         Item(scope, x) = Loop(h), y \notin loops[h],
         NEW b, IF IsLoop(Item(scope, y)) THEN b \in loops[Item(scope, y)[2]]
                                          ELSE b = Item(scope, y)[2]
  PROVE  h \in DOMAIN loops /\ b \notin loops[h]
<1>1. h \in Around(scope, x) /\ \A k \in Around(scope, x) : loops[k] \subseteq loops[h]
  BY ItemFacts, Tags
<1>2. CASE Item(scope, y) = Block(y)
  BY <1>1, <1>2, Tags DEF Around
<1>3. ASSUME NEW k \in Around(scope, y), Item(scope, y) = Loop(k), b \in loops[h]
      PROVE  FALSE
  <2>1. b \in loops[k] /\ k \in DOMAIN loops /\ h \in DOMAIN loops
    BY <1>1, <1>3, Tags DEF Around
  <2>2. CASE loops[k] \subseteq loops[h]
    BY <1>3, <2>2 DEF Around
  <2>3. CASE loops[h] \subseteq loops[k]
    <3>1. k \in Around(scope, x)
      BY <1>1, <1>3, <2>3 DEF Around
    <3>. QED
      BY <1>1, <2>2, <3>1
  <2>. QED
    BY <1>3, <2>1, <2>2, <2>3, LoopsNested
<1>. QED
  BY <1>1, <1>2, <1>3, ItemFacts, Tags DEF Around

(* No loop is entered past its head.                                       *)
LEMMA EnteredAtHead ==
  ASSUME Analysed, NEW h \in DOMAIN loops, NEW b \in slice.nodes \ loops[h],
         NEW x \in slice.succ[b] \cap loops[h]
  PROVE  x = h
<1>1. h \in slice.nodes /\ loops[h] = NaturalLoop(slice, h) /\ Sliced(slice)
  BY AnalysisFacts DEF Analysed
<1>. QED
  BY <1>1, LoopFacts

LEMMA RootFacts ==
  ASSUME Analysed, NEW scope \in Scopes
  PROVE  LET entry == IF scope = Null THEN slice.entry ELSE scope
         IN  /\ entry \in InScope(scope)
             /\ Condensed(scope).root = Item(scope, entry)
             /\ Item(scope, entry)[2] = entry
             /\ scope # Null => Item(scope, entry) = Block(scope)
<1>1. CASE scope = Null
  <2>1. slice.entry \in slice.nodes /\ Sliced(slice)
    BY DEF Analysed, Sliced
  <2>2. ASSUME NEW h \in Around(scope, slice.entry)
        PROVE  h = slice.entry
    <3>1. h \in slice.nodes /\ slice.entry \in NaturalLoop(slice, h)
      BY <2>2, AnalysisFacts DEF Around
    <3>2. Dominates(slice, h, slice.entry)
      BY <2>1, <3>1, LoopFacts
    <3>. QED
      BY <2>1, <3>1, <3>2, WithoutFacts
  <2>3. slice.entry \in InScope(scope)
    BY <1>1, <2>1 DEF InScope
  <2>. QED
    BY <1>1, <2>2, <2>3, ItemFacts, Tags DEF Condensed
<1>2. CASE scope # Null
  <2>1. scope \in DOMAIN loops /\ InScope(scope) = loops[scope] /\ scope \in loops[scope]
    BY <1>2, AnalysisFacts DEF Scopes, InScope
  <2>2. ASSUME NEW k \in Around(scope, scope)
        PROVE  FALSE
    <3>1. k \in DOMAIN loops /\ scope \in loops[k] /\ k # scope /\ k \in loops[scope]
      BY <2>1, <2>2, AnalysisFacts DEF Around
    <3>. QED
      BY <2>1, <3>1, LoopsNested
  <2>3. Item(scope, scope) = Block(scope)
    BY <2>1, <2>2, ItemFacts
  <2>. QED
    BY <1>2, <2>1, <2>3, Tags DEF Condensed
<1>. QED
  BY <1>1, <1>2

(* DALoop::check and the check of the edges never fail.                    *)
LEMMA GraphsVerify ==
  ASSUME Analysed, NEW scope \in Scopes
  PROVE  Verified(Condensed(scope))
<1>. DEFINE g == Condensed(scope)
            ahead == {e \in slice.nodes \X slice.nodes : e[2] \in slice.succ[e[1]]}
            back == {e \in slice.nodes \X slice.nodes : e[1] \in slice.succ[e[2]]}
            Inner(x, y) == LET h == OuterLoopInScope(scope, x)
                           IN  h # Null => y \notin loops[h]
            Between(x, y) == {x, y} \subseteq InScope(scope) /\ Inner(x, y)
<1>1. ASSUME NEW x \in InScope(scope), NEW y \in InScope(scope), Inner(x, y)
      PROVE  Inner(y, x)
  <2>1. SUFFICES ASSUME NEW h, h = OuterLoopInScope(scope, y), h # Null, x \in loops[h]
                 PROVE  FALSE
    OBVIOUS
  <2>2. h \in Around(scope, y)
    BY <2>1, OuterLoopFacts
  <2>3. h \in Around(scope, x)
    BY <2>1, <2>2 DEF Around
  <2>4. PICK k : k = OuterLoopInScope(scope, x)
    OBVIOUS
  <2>5. k # Null /\ loops[h] \subseteq loops[k]
    BY <2>3, <2>4, OuterLoopFacts
  <2>6. y \in loops[k]
    BY <2>2, <2>5 DEF Around
  <2>. QED
    BY <1>1, <2>4, <2>5, <2>6
<1>2. g.succs = {<<Item(scope, e[1]), Item(scope, e[2])>> : e \in {f \in ahead : Between(f[1], f[2])}}
      /\ g.preds = {<<Item(scope, e[1]), Item(scope, e[2])>> : e \in {f \in back : Between(f[1], f[2])}}
  BY DEF Condensed, Edges
<1>3. \A x, y : <<x, y>> \in ahead <=> <<y, x>> \in back
  OBVIOUS
<1>4. \A x, y : Between(x, y) <=> Between(y, x)
  BY <1>1
<1>5. /\ \A e \in ahead : e = <<e[1], e[2]>>
      /\ \A e \in back : e = <<e[1], e[2]>>
  OBVIOUS
<1>6. g.preds = {<<e[2], e[1]>> : e \in g.succs}
  <2>. HIDE DEF ahead, back, Between, g
  <2>1. ASSUME NEW p \in g.preds
        PROVE  p \in {<<e[2], e[1]>> : e \in g.succs}
    <3>1. PICK e \in back : Between(e[1], e[2]) /\ p = <<Item(scope, e[1]), Item(scope, e[2])>>
      BY <1>2, <2>1
    <3>2. <<e[2], e[1]>> \in ahead /\ Between(e[2], e[1])
      BY <1>3, <1>4, <1>5, <3>1
    <3>3. <<Item(scope, e[2]), Item(scope, e[1])>> \in g.succs
      BY <1>2, <3>2
    <3>. QED
      BY <3>1, <3>3
  <2>2. ASSUME NEW s \in g.succs
        PROVE  <<s[2], s[1]>> \in g.preds
    <3>1. PICK e \in ahead : Between(e[1], e[2]) /\ s = <<Item(scope, e[1]), Item(scope, e[2])>>
      BY <1>2, <2>2
    <3>2. <<e[2], e[1]>> \in back /\ Between(e[2], e[1])
      BY <1>3, <1>4, <1>5, <3>1
    <3>3. <<Item(scope, e[2]), Item(scope, e[1])>> \in g.preds
      BY <1>2, <3>2
    <3>. QED
      BY <3>1, <3>3
  <2>. QED
    BY <2>1, <2>2
<1>7. ASSUME NEW item \in g.items
      PROVE  SingleHeader(g, item)
  <2>. SUFFICES ASSUME IsLoop(item), NEW f \in g.preds, f[1] = item,
                       NEW b \in Leaving(f[2]),
                       NEW v \in slice.succ[b] \cap loops[item[2]]
                PROVE  v = item[2]
    BY DEF SingleHeader
  <2>1. f = <<item, f[2]>>
    BY <1>2
  <2>2. PICK x, y \in InScope(scope) :
           /\ item = Item(scope, x) /\ f[2] = Item(scope, y)
           /\ y \in slice.nodes /\ x \in slice.succ[y]
           /\ \A h : item = Loop(h) => y \notin loops[h]
    BY <2>1, PredFacts
  <2>3. PICK h : item = Loop(h)
    BY <2>2, ItemFacts, Tags
  <2>4. b \in slice.nodes
        /\ (IF IsLoop(f[2]) THEN b \in loops[f[2][2]] ELSE b = f[2][2])
    <3>1. CASE f[2] = Block(y)
      BY <2>2, <3>1, Tags DEF Leaving
    <3>2. ASSUME NEW k \in Around(scope, y), f[2] = Loop(k)
          PROVE  b \in slice.nodes /\ IsLoop(f[2]) /\ b \in loops[f[2][2]]
      <4>1. b \in loops[k]
        BY <3>2, Tags DEF Leaving, Exiting
      <4>. QED
        BY <3>2, <4>1, AnalysisFacts, Tags DEF Around
    <3>. QED
      BY <2>2, <3>1, <3>2, ItemFacts, Tags
  <2>5. h \in DOMAIN loops /\ b \notin loops[h] /\ item[2] = h
    <3>1. Item(scope, x) = Loop(h) /\ y \notin loops[h] /\ item[2] = h
      BY Zenon, <2>2, <2>3, Tags
    <3>2. IF IsLoop(Item(scope, y)) THEN b \in loops[Item(scope, y)[2]]
                                    ELSE b = Item(scope, y)[2]
      BY Zenon, <2>2, <2>4
    <3>. QED
      BY <3>1, <3>2, EndsApart
  <2>. QED
    BY <2>4, <2>5, EnteredAtHead
<1>. QED
  BY <1>6, <1>7 DEF Verified

(* Block b is one in which an item is left for the next one of a trace.    *)
Left(item, next, b) ==
  IF IsLoop(item) THEN b \in Exiting(item[2]) /\ IsLinked(b, Entrance(next))
                  ELSE b = item[2]

(* From the block in which one item of a trace is left, control goes on to *)
(* the head of the next one, and not back to the head of a loop.           *)
LEMMA StepForward ==
  ASSUME Analysed, NEW scope \in Scopes, NEW i, NEW j,
         <<i, j>> \in Condensed(scope).preds, i # Condensed(scope).root,
         NEW b, Left(j, i, b)
  PROVE  /\ b \in InScope(scope) /\ i[2] \in InScope(scope)
         /\ i[2] \in forward[b]
<1>1. PICK x, y \in InScope(scope) :
         /\ i = Item(scope, x) /\ j = Item(scope, y)
         /\ y \in slice.nodes /\ x \in slice.succ[y]
         /\ \A h : i = Loop(h) => y \notin loops[h]
  BY PredFacts
<1>2. /\ b \in InScope(scope)
      /\ IF IsLoop(j) THEN b \in loops[j[2]] ELSE b = j[2]
      /\ ~IsLoop(j) => b = y
  <2>1. CASE j = Block(y)
    BY <1>1, <2>1, Tags DEF Left, IsLinked, Entrance
  <2>2. ASSUME NEW k \in Around(scope, y), j = Loop(k)
        PROVE  b \in InScope(scope) /\ IsLoop(j) /\ b \in loops[j[2]]
    <3>1. b \in loops[k]
      BY <2>2, Tags DEF Left, Exiting, IsLinked, Entrance
    <3>. QED
      BY <2>2, <3>1, Tags DEF Around
  <2>. QED
    BY <1>1, <2>1, <2>2, ItemFacts, Tags
<1>3. b \in slice.nodes
  BY <1>2, AnalysisFacts
<1>4. ASSUME NEW h, i = Loop(h)
      PROVE  /\ i[2] \in InScope(scope) /\ i[2] \in slice.succ[b]
             /\ ~(i[2] \in DOMAIN loops /\ b \in loops[i[2]])
  <2>0. Item(scope, x) = Loop(h) /\ y \notin loops[h] /\ i[2] = h
    BY Zenon, <1>1, <1>4, Tags
  <2>1. h \in Around(scope, x)
    BY <2>0, ItemFacts, Tags
  <2>2. h \in DOMAIN loops /\ b \notin loops[h] /\ i[2] = h
    <3>1. IF IsLoop(Item(scope, y)) THEN b \in loops[Item(scope, y)[2]]
                                    ELSE b = Item(scope, y)[2]
      BY Zenon, <1>1, <1>2
    <3>. QED
      BY <2>0, <3>1, EndsApart
  <2>3. h \in InScope(scope)
    BY <2>1, AnalysisFacts DEF Around
  <2>4. h \in slice.succ[b]
    <3>1. CASE IsLoop(j)
      BY <2>2, <3>1 DEF Left, IsLinked, Entrance
    <3>2. CASE ~IsLoop(j)
      <4>1. b = y /\ x \in slice.succ[y] \cap loops[h]
        BY <1>1, <1>2, <2>1, <3>2 DEF Around
      <4>. QED
        BY <1>3, <2>2, <4>1, EnteredAtHead
    <3>. QED
      BY <3>1, <3>2
  <2>. QED
    BY <2>2, <2>3, <2>4
<1>5. ASSUME i = Block(x)
      PROVE  /\ i[2] \in InScope(scope) /\ i[2] \in slice.succ[b]
             /\ ~(i[2] \in DOMAIN loops /\ b \in loops[i[2]])
  <2>0. Item(scope, x) = Block(x) /\ i[2] = x
    BY Zenon, <1>1, <1>5, Tags
  <2>1. i[2] = x /\ Around(scope, x) = {}
    BY <2>0, ItemFacts, Tags
  <2>2. x \in slice.succ[b]
    BY <1>1, <1>2, <2>1 DEF Left, IsLinked, Entrance
  <2>3. x # scope
    <3>1. ASSUME x = scope
          PROVE  FALSE
      <4>1. scope # Null
        BY <1>1, <3>1, AnalysisFacts DEF Analysed, Sliced
      <4>. QED
        BY <1>1, <3>1, <4>1, RootFacts
    <3>. QED
      BY <3>1
  <2>4. ASSUME x \in DOMAIN loops
        PROVE  FALSE
    <3>1. x \in loops[x] /\ loops[x] \subseteq slice.nodes
      BY <2>4, AnalysisFacts
    <3>2. loops[x] \subseteq InScope(scope)
      <4>1. CASE scope = Null
        BY <3>1, <4>1 DEF InScope
      <4>2. CASE scope # Null
        <5>1. scope \in DOMAIN loops /\ x \in loops[scope] /\ InScope(scope) = loops[scope]
              /\ scope \in loops[scope]
          BY <1>1, <4>2, AnalysisFacts DEF Scopes, InScope
        <5>. QED
          BY <2>3, <2>4, <3>1, <5>1, LoopsNested
      <4>. QED
        BY <4>1, <4>2
    <3>. QED
      BY <2>1, <2>3, <2>4, <3>1, <3>2 DEF Around
  <2>. QED
    BY <1>1, <2>1, <2>2, <2>4
<1>6. /\ i[2] \in InScope(scope) /\ i[2] \in slice.succ[b]
      /\ ~(i[2] \in DOMAIN loops /\ b \in loops[i[2]])
  BY <1>1, <1>4, <1>5, ItemFacts
<1>. QED
  BY <1>2, <1>3, <1>6, AnalysisFacts

------------------------------------------------------------------------------
(* What is known of the graphs, the searches and the cache at any time. *)

(* The graph of a scope is the condensed one, those of the loops in it are *)
(* built or will be, and none fails its verification.                      *)
GraphsKnown ==
  /\ Analysed
  /\ unbuilt \subseteq Scopes /\ DOMAIN dags \subseteq Scopes
  /\ Null \in DOMAIN dags \cup unbuilt
  /\ \A s \in DOMAIN dags :
       /\ dags[s] = Condensed(s)
       /\ \A i \in Condensed(s).items : IsLoop(i) => i[2] \in DOMAIN dags \cup unbuilt
  /\ fault # "verify"

(* Item i is one that a search may go on to from item j. *)
Precedes(scope, i, j) == <<j, i>> \in Condensed(scope).preds /\ j # Condensed(scope).root

(* Trace t leads from the root of a graph to an item, over edges.          *)
TraceTo(scope, item, t) ==
  /\ t \in Seq(Condensed(scope).items) /\ t # <<>>
  /\ t[1] = Condensed(scope).root /\ t[Len(t)] = item
  /\ \A k \in 1..(Len(t) - 1) : Precedes(scope, t[k], t[k + 1])

(* A way from the entry of a scope to a block of it, over edges that do    *)
(* not lead back to the head of a loop.                                    *)
EntryOf(scope) == IF scope = Null THEN slice.entry ELSE scope

Walk(scope, p) ==
  /\ p \in Seq(InScope(scope)) /\ p # <<>>
  /\ \A k \in 2..Len(p) : p[k] \in forward[p[k - 1]]

WayTo(scope, b, p) == Walk(scope, p) /\ p[1] = EntryOf(scope) /\ p[Len(p)] = b

CallsKnown ==
  /\ calls \in Seq((DOMAIN dags) \X slice.nodes)
  /\ calls # <<>> => unbuilt = {}
  /\ \A k \in DOMAIN calls : calls[k][2] \in InScope(calls[k][1])

PathsKnown ==
  \A s \in Scopes : \A item :
    <<s, item>> \in DOMAIN paths => \A t \in paths[<<s, item>>] : TraceTo(s, item, t)

(* The calls of DFS go back from the item asked for, those still to come   *)
(* go back from the calls under way, and what is found are traces to it.   *)
Chain(h) ==
  /\ h \in Seq(Condensed(Scope).items) /\ h # <<>>
  /\ h[1] = Mark
  /\ \A k \in 1..(Len(h) - 1) : Precedes(Scope, h[k + 1], h[k])

Pending(h, l) ==
  /\ l \in Seq(SUBSET Condensed(Scope).items)
  /\ \A k \in DOMAIN l : \A i \in l[k] : Precedes(Scope, i, h[k])

Searched(h, l, f) ==
  /\ Chain(h) /\ Pending(h, l) /\ Len(l) = Len(h)
  /\ \A t \in f : TraceTo(Scope, Mark, t)

SearchKnown == Searched(hist, left, found)

CacheKnown ==
  /\ \A c \in DOMAIN cache : c = <<c[1], c[2]>>
  /\ \A s, b : <<s, b>> \in DOMAIN cache =>
       /\ cache[<<s, b>>].first \subseteq cache[<<s, b>>].all
       /\ s \in Scopes /\ \A p \in cache[<<s, b>>].all : WayTo(s, b, p)

UnrollInv ==
  /\ GraphsKnown /\ CallsKnown /\ PathsKnown /\ CacheKnown
  /\ hist # <<>> => calls # <<>> /\ SearchKnown
  /\ hist = <<>> => found = {} /\ left = <<>>

LEMMA ItemsOf ==
  ASSUME Analysed, NEW scope \in Scopes
  PROVE  /\ \A b \in InScope(scope) : Item(scope, b) \in Condensed(scope).items
         /\ Condensed(scope).root \in Condensed(scope).items
         /\ \A i \in Condensed(scope).items :
              \/ \E b \in InScope(scope) : i = Block(b)
              \/ \E h \in DOMAIN loops : i = Loop(h) /\ loops[h] \subseteq InScope(scope)
         /\ \A i, j : <<j, i>> \in Condensed(scope).preds =>
              i \in Condensed(scope).items /\ j \in Condensed(scope).items
<1>1. Condensed(scope).items = {Item(scope, b) : b \in InScope(scope)}
  BY DEF Condensed
<1>2. ASSUME NEW i \in Condensed(scope).items
      PROVE  \/ \E b \in InScope(scope) : i = Block(b)
             \/ \E h \in DOMAIN loops : i = Loop(h) /\ loops[h] \subseteq InScope(scope)
  <2>1. PICK b \in InScope(scope) : i = Item(scope, b)
    BY <1>1
  <2>2. CASE Item(scope, b) = Block(b)
    BY <2>1, <2>2
  <2>3. ASSUME NEW h \in Around(scope, b), Item(scope, b) = Loop(h)
        PROVE  h \in DOMAIN loops /\ i = Loop(h) /\ loops[h] \subseteq InScope(scope)
    BY <2>1, <2>3 DEF Around
  <2>. QED
    BY <2>2, <2>3, ItemFacts
<1>3. Condensed(scope).root \in Condensed(scope).items
  BY <1>1, RootFacts
<1>4. \A i, j : <<j, i>> \in Condensed(scope).preds =>
        i \in Condensed(scope).items /\ j \in Condensed(scope).items
  BY <1>1, PredFacts
<1>. QED
  BY <1>1, <1>2, <1>3, <1>4

Widest(S, l) == IF S = {} THEN Null ELSE CHOOSE h \in S : \A k \in S : l[k] \subseteq l[h]

(* The graphs depend on the analyses alone. *)
LEMMA Unmoved ==
  ASSUME slice' = slice, forward' = forward, loops' = loops
  PROVE  /\ Analysed' = Analysed /\ Scopes' = Scopes
         /\ \A s : /\ InScope(s)' = InScope(s) /\ EntryOf(s)' = EntryOf(s)
                   /\ Condensed(s)' = Condensed(s)
                   /\ \A b : Item(s, b)' = Item(s, b)
                   /\ \A i, j : Precedes(s, i, j)' <=> Precedes(s, i, j)
                   /\ \A i, t : TraceTo(s, i, t)' <=> TraceTo(s, i, t)
                   /\ \A b, p : WayTo(s, b, p)' <=> WayTo(s, b, p)
<1>1. Analysed' = Analysed /\ Scopes' = Scopes
  BY DEF Analysed, Scopes, Sliced
<1>2. \A s : InScope(s)' = InScope(s) /\ EntryOf(s)' = EntryOf(s)
  BY DEF InScope, EntryOf
<1>3. ASSUME NEW s, NEW b
      PROVE  OuterLoopInScope(s, b)' = OuterLoopInScope(s, b)
  <2>1. Around(s, b)' = Around(s, b)
    BY <1>2 DEF Around
  <2>2. OuterLoopInScope(s, b) = Widest(Around(s, b), loops)
    BY DEF OuterLoopInScope, Around, Widest
  <2>3. OuterLoopInScope(s, b)' = Widest(Around(s, b)', loops')
    BY DEF OuterLoopInScope, Around, Widest
  <2>. QED
    BY <2>1, <2>2, <2>3
<1>4. \A s, b : Item(s, b)' = Item(s, b)
  BY <1>3 DEF Item
<1>5. \A s : Condensed(s)' = Condensed(s)
  BY <1>2, <1>3, <1>4 DEF Condensed, Edges
<1>6. \A s, i, j : Precedes(s, i, j)' <=> Precedes(s, i, j)
  BY <1>5 DEF Precedes
<1>7. \A s, i, t : TraceTo(s, i, t)' <=> TraceTo(s, i, t)
  BY <1>5, <1>6 DEF TraceTo
<1>8. \A s, b, p : WayTo(s, b, p)' <=> WayTo(s, b, p)
  BY <1>2 DEF WayTo, Walk
<1>. QED
  BY <1>1, <1>2, <1>4, <1>5, <1>6, <1>7, <1>8

------------------------------------------------------------------------------
(* Traces of blocks from traces of items. *)

Joint(p, q, r) == r = p \o q

LEMMA Joined ==
  ASSUME NEW scope, NEW p, NEW q, Walk(scope, p), Walk(scope, q),
         q[1] \in forward[p[Len(p)]], NEW r, Joint(p, q, r)
  PROVE  Walk(scope, r) /\ r[1] = p[1] /\ r[Len(r)] = q[Len(q)]
<1>1. p \in Seq(InScope(scope)) /\ q \in Seq(InScope(scope)) /\ p # <<>> /\ q # <<>>
      /\ Len(p) \in Nat /\ Len(q) \in Nat /\ Len(p) > 0 /\ Len(q) > 0
  BY EmptySeq, LenProperties DEF Walk
<1>2. /\ p \o q \in Seq(InScope(scope)) /\ Len(p \o q) = Len(p) + Len(q)
      /\ \A k \in 1..(Len(p) + Len(q)) :
           (p \o q)[k] = IF k <= Len(p) THEN p[k] ELSE q[k - Len(p)]
  BY <1>1, ConcatProperties
<1>3. ASSUME NEW k \in 2..(Len(p) + Len(q))
      PROVE  (p \o q)[k] \in forward[(p \o q)[k - 1]]
  <2>1. CASE k <= Len(p)
    BY <1>1, <1>2, <2>1 DEF Walk
  <2>2. CASE k = Len(p) + 1
    BY <1>1, <1>2, <2>2
  <2>3. CASE k > Len(p) + 1
    <3>1. k - Len(p) \in 2..Len(q) /\ (k - 1) - Len(p) = (k - Len(p)) - 1
      BY <1>1, <2>3
    <3>2. q[k - Len(p)] \in forward[q[(k - Len(p)) - 1]]
      BY <3>1 DEF Walk
    <3>. QED
      BY <1>1, <1>2, <2>3, <3>1, <3>2
  <2>. QED
    BY <1>1, <2>1, <2>2, <2>3
<1>. QED
  BY <1>1, <1>2, <1>3 DEF Walk, Joint

(* What a trace of items has become when the first i of them are unrolled. *)
EndsAt(t, i, b) == IF i < Len(t) THEN Left(t[i], t[i + 1], b) ELSE b = Term

Gone(t, i, p) ==
  IF i = 0 THEN p = <<>>
  ELSE Walk(Scope, p) /\ p[1] = EntryOf(Scope) /\ EndsAt(t, i, p[Len(p)])

LEMMA CallFacts ==
  ASSUME GraphsKnown, CallsKnown, calls # <<>>
  PROVE  /\ Analysed /\ Scope \in Scopes /\ Scope \in DOMAIN dags
         /\ Term \in InScope(Scope) /\ Term \in slice.nodes
<1>1. Len(calls) \in DOMAIN calls /\ Call = calls[Len(calls)]
  BY EmptySeq, LenProperties DEF CallsKnown, Call, Last
<1>2. calls[Len(calls)] \in (DOMAIN dags) \X slice.nodes
      /\ calls[Len(calls)][2] \in InScope(calls[Len(calls)][1])
  <2>1. calls \in Seq((DOMAIN dags) \X slice.nodes)
        /\ \A k \in DOMAIN calls : calls[k][2] \in InScope(calls[k][1])
    BY DEF CallsKnown
  <2>. QED
    BY <1>1, <2>1, ElementOfSeq, LenProperties
<1>3. Call \in (DOMAIN dags) \X slice.nodes /\ Call[2] \in InScope(Call[1])
  BY <1>1, <1>2
<1>4. Analysed /\ DOMAIN dags \subseteq Scopes
  BY DEF GraphsKnown
<1>. QED
  BY <1>3, <1>4 DEF Scope, Term

(* What one item contributes.                                              *)
LEMMA PieceFacts ==
  ASSUME GraphsKnown, CallsKnown, CacheKnown, calls # <<>>,
         NEW t, TraceTo(Scope, Mark, t), Callees(t) \subseteq DOMAIN cache,
         NEW i \in 1..Len(t), NEW q \in Pieces(t, i)
  PROVE  Walk(Scope, q) /\ q[1] = t[i][2] /\ EndsAt(t, i, q[Len(q)])
<1>1. /\ Analysed /\ Scope \in Scopes /\ Scope \in DOMAIN dags
      /\ Term \in InScope(Scope) /\ Term \in slice.nodes
  BY CallFacts
<1>2. /\ t \in Seq(Condensed(Scope).items) /\ t[i] \in Condensed(Scope).items
      /\ Len(t) \in Nat /\ DOMAIN t = 1..Len(t)
      /\ t[Len(t)] = Mark /\ Mark = Item(Scope, Term)
  BY DEF TraceTo, Mark
<1>3. ASSUME NEW b \in InScope(Scope), t[i] = Block(b)
      PROVE  Walk(Scope, q) /\ q[1] = t[i][2] /\ EndsAt(t, i, q[Len(q)])
  <2>1. q = <<b>> /\ t[i][2] = b /\ ~IsLoop(t[i])
    BY <1>3, Tags DEF Pieces
  <2>2. Walk(Scope, q) /\ q[1] = t[i][2] /\ q[Len(q)] = b
    BY <2>1 DEF Walk
  <2>3. CASE i < Len(t)
    BY <2>1, <2>2, <2>3 DEF EndsAt, Left
  <2>4. CASE i = Len(t)
    <3>1. Item(Scope, Term) = Block(b)
      BY <1>2, <1>3, <2>4
    <3>2. b = Term
      BY <1>1, <3>1, ItemFacts, Tags
    <3>. QED
      BY <2>2, <2>4, <3>2, <1>2 DEF EndsAt
  <2>5. i < Len(t) \/ i = Len(t)
    <3>1. Len(t) \in Nat
      BY <1>2
    <3>. QED
      BY <3>1
  <2>. QED
    BY <2>2, <2>3, <2>4, <2>5
<1>4. ASSUME NEW h \in DOMAIN loops, t[i] = Loop(h), loops[h] \subseteq InScope(Scope)
      PROVE  Walk(Scope, q) /\ q[1] = t[i][2] /\ EndsAt(t, i, q[Len(q)])
  <2>1. IsLoop(t[i]) /\ t[i][2] = h
    BY <1>4, Tags
  <2>2. PICK l \in Links(t, i) : q \in cache[<<h, l>>].first
    BY <2>1 DEF Pieces
  <2>3. <<h, l>> \in DOMAIN cache
    BY <1>2, <2>1, <2>2 DEF Callees
  <2>4. WayTo(h, l, q)
    BY <2>2, <2>3 DEF CacheKnown
  <2>5. h # Null /\ InScope(h) = loops[h] /\ EntryOf(h) = h
    BY <1>1, AnalysisFacts DEF InScope, EntryOf
  <2>6. Walk(Scope, q)
    BY <1>4, <2>4, <2>5 DEF WayTo, Walk
  <2>7. EndsAt(t, i, l)
    BY <1>2, <2>1, <2>2 DEF EndsAt, Left, Links
  <2>. QED
    BY <2>1, <2>4, <2>5, <2>6, <2>7 DEF WayTo
<1>. QED
  BY <1>1, <1>2, <1>3, <1>4, ItemsOf

(* One item more. *)
LEMMA ExtendedFacts ==
  ASSUME GraphsKnown, CallsKnown, CacheKnown, calls # <<>>,
         NEW t, TraceTo(Scope, Mark, t), Callees(t) \subseteq DOMAIN cache,
         NEW i \in 1..Len(t), NEW ways, \A p \in ways : Gone(t, i - 1, p),
         NEW r \in Extended(ways, Pieces(t, i))
  PROVE  Gone(t, i, r)
<1>1. Analysed /\ Scope \in Scopes
  BY CallFacts
<1>2. t \in Seq(Condensed(Scope).items) /\ Len(t) \in Nat
  BY DEF TraceTo
<1>3. PICK p \in ways : \E q \in Pieces(t, i) : r = p \o q
  BY DEF Extended
<1>4. PICK q \in Pieces(t, i) : Joint(p, q, r)
  BY <1>3 DEF Joint
<1>5. Walk(Scope, q) /\ q[1] = t[i][2] /\ EndsAt(t, i, q[Len(q)])
  BY PieceFacts
<1>6. CASE i = 1
  <2>1. p = <<>>
    BY <1>3, <1>6 DEF Gone
  <2>2. r = q
    BY <1>4, <1>5, <2>1, ConcatEmptySeq DEF Walk, Joint
  <2>3. q[1] = EntryOf(Scope)
    BY <1>1, <1>5, <1>6, RootFacts DEF TraceTo, EntryOf
  <2>. QED
    BY <1>5, <1>6, <2>2, <2>3 DEF Gone
<1>7. CASE i > 1
  <2>1. Walk(Scope, p) /\ p[1] = EntryOf(Scope) /\ EndsAt(t, i - 1, p[Len(p)])
    BY <1>3, <1>7 DEF Gone
  <2>2. Left(t[i - 1], t[i], p[Len(p)]) /\ i - 1 \in 1..(Len(t) - 1)
    BY <1>2, <1>7, <2>1 DEF EndsAt
  <2>3. <<t[i], t[i - 1]>> \in Condensed(Scope).preds /\ t[i] # Condensed(Scope).root
    BY <1>2, <1>7, <2>2 DEF TraceTo, Precedes
  <2>4. q[1] \in forward[p[Len(p)]]
    BY <1>1, <1>5, <2>2, <2>3, StepForward
  <2>5. Walk(Scope, r) /\ r[1] = p[1] /\ r[Len(r)] = q[Len(q)]
    BY <1>4, <1>5, <2>1, <2>4, Joined
  <2>. QED
    BY <1>5, <1>7, <2>1, <2>5 DEF Gone
<1>. QED
  BY <1>6, <1>7

LEMMA LeastExists ==
  ASSUME NEW S \in SUBSET Nat, S # {}
  PROVE  \E m \in S : \A k \in S : m <= k
<1>. DEFINE R == StrictSubsetOrdering(Nat)
            T == {0..k : k \in S}
<1>1. IsWellFoundedOn(R, FiniteSubsetsOf(Nat))
  BY FS_StrictSubsetOrderingWellFounded
<1>2. T \subseteq FiniteSubsetsOf(Nat) /\ T # {}
  <2>1. ASSUME NEW k \in S
        PROVE  0..k \in FiniteSubsetsOf(Nat)
    BY FS_Interval DEF FiniteSubsetsOf
  <2>. QED
    BY <2>1
<1>3. PICK x \in T : \A y \in T : ~(<<y, x>> \in R)
  <2>. HIDE DEF R, T
  <2>. QED
    BY <1>1, <1>2, WFMin
<1>4. PICK m \in S : x = 0..m
  OBVIOUS
<1>5. ASSUME NEW k \in S, k < m
      PROVE  FALSE
  <2>1. 0..k \subseteq 0..m /\ m \in 0..m /\ m \notin 0..k
    BY <1>5
  <2>2. 0..k \in SUBSET Nat /\ 0..m \in SUBSET Nat
    OBVIOUS
  <2>3. <<0..k, 0..m>> \in R
    BY <2>1, <2>2 DEF StrictSubsetOrdering
  <2>. QED
    BY <1>3, <1>4, <2>3
<1>. QED
  BY <1>5

(* The function that unrolls a trace item by item exists. *)
Step(t, f, i) == IF i = 0 THEN {<<>>} ELSE Extended(f[i - 1], Pieces(t, i))

LEMMA StepsExist ==
  ASSUME NEW t, NEW n \in Nat
  PROVE  \E f : f = [i \in 0..n |-> Step(t, f, i)]
<1>. DEFINE Upto(m) == \E f : \A i \in 0..m : f[i] = Step(t, f, i)
            bad == {m \in 0..n : ~Upto(m)}
<1>1. ASSUME bad # {}
      PROVE  FALSE
  <2>1. PICK m \in bad : \A k \in bad : m <= k
    <3>1. bad \in SUBSET Nat
      OBVIOUS
    <3>. HIDE DEF bad
    <3>. QED
      BY <1>1, <3>1, LeastExists
  <2>2. m \in 0..n /\ ~Upto(m)
    OBVIOUS
  <2>3. CASE m = 0
    <3>. DEFINE f == [i \in 0..n |-> {<<>>}]
    <3>1. \A i \in 0..m : f[i] = Step(t, f, i)
      BY <2>3 DEF Step
    <3>. QED
      BY <2>2, <3>1
  <2>4. CASE m # 0
    <3>1. m - 1 \in 0..n /\ m - 1 \notin bad
      BY <2>1, <2>2, <2>4
    <3>2. PICK g : \A i \in 0..(m - 1) : g[i] = Step(t, g, i)
      BY <3>1
    <3>. DEFINE f == [i \in 0..n |-> IF i = m THEN Step(t, g, m) ELSE g[i]]
    <3>3. ASSUME NEW i \in 0..m
          PROVE  f[i] = Step(t, f, i)
      <4>1. i \in 0..n /\ (i # 0 => i - 1 \in 0..n /\ i - 1 # m)
        BY <2>2
      <4>2. Step(t, f, i) = Step(t, g, i)
        BY <4>1 DEF Step
      <4>3. f[i] = IF i = m THEN Step(t, g, m) ELSE g[i]
        BY <4>1
      <4>4. i # m => g[i] = Step(t, g, i)
        BY <2>2, <3>2
      <4>. HIDE DEF f
      <4>. QED
        BY Zenon, <4>2, <4>3, <4>4
    <3>. QED
      BY <2>2, <3>3
  <2>. QED
    BY <2>3, <2>4
<1>2. PICK f : \A i \in 0..n : f[i] = Step(t, f, i)
  BY <1>1
<1>. DEFINE h == [i \in 0..n |-> f[i]]
<1>3. ASSUME NEW i \in 0..n
      PROVE  f[i] = Step(t, h, i)
  <2>1. i # 0 => i - 1 \in 0..n
    OBVIOUS
  <2>2. Step(t, h, i) = Step(t, f, i)
    BY <2>1 DEF Step
  <2>. QED
    BY Zenon, <1>2, <2>2
<1>4. h = [i \in 0..n |-> Step(t, h, i)]
  BY Zenon, <1>3
<1>. QED
  BY <1>4

(* What is returned for a trace of items: ways to the block asked for.     *)
LEMMA UnrolledFacts ==
  ASSUME GraphsKnown, CallsKnown, CacheKnown, calls # <<>>,
         NEW t, TraceTo(Scope, Mark, t), Callees(t) \subseteq DOMAIN cache,
         NEW r \in Unrolled(t)
  PROVE  WayTo(Scope, Term, r)
<1>. DEFINE n == Len(t)
            upTo == CHOOSE f : f = [i \in 0..n |-> Step(t, f, i)]
            bad == {i \in 0..n : \E p \in upTo[i] : ~Gone(t, i, p)}
<1>1. n \in Nat \ {0}
  BY EmptySeq, LenProperties DEF TraceTo
<1>2. Unrolled(t) = upTo[n]
  BY DEF Unrolled, Step
<1>3. upTo = [i \in 0..n |-> Step(t, upTo, i)]
  <2>1. \E f : f = [i \in 0..n |-> Step(t, f, i)]
    BY <1>1, StepsExist
  <2>. QED
    BY Zenon, <2>1
<1>. HIDE DEF upTo
<1>4. ASSUME bad # {}
      PROVE  FALSE
  <2>1. PICK m \in bad : \A k \in bad : m <= k
    <3>1. bad \in SUBSET Nat
      OBVIOUS
    <3>. HIDE DEF bad
    <3>. QED
      BY <1>4, <3>1, LeastExists
  <2>2. PICK p \in upTo[m] : ~Gone(t, m, p)
    OBVIOUS
  <2>3. CASE m = 0
    BY <1>3, <2>2, <2>3 DEF Step, Gone
  <2>4. CASE m # 0
    <3>1. m - 1 \in 0..n /\ m - 1 \notin bad /\ m \in 1..n
      BY <1>1, <2>1, <2>4
    <3>2. \A q \in upTo[m - 1] : Gone(t, m - 1, q)
      BY <3>1
    <3>3. p \in Extended(upTo[m - 1], Pieces(t, m))
      BY <1>3, <2>2, <2>4, <3>1 DEF Step
    <3>. QED
      BY <2>2, <3>1, <3>2, <3>3, ExtendedFacts
  <2>. QED
    BY <2>3, <2>4
<1>5. Gone(t, n, r)
  BY <1>1, <1>2, <1>4
<1>. QED
  BY <1>1, <1>5 DEF Gone, EndsAt, WayTo

------------------------------------------------------------------------------
(* The steps of the search. *)

Grown(new, f, k, v) == new = Inserted(f, k, v)

LEMMA ChainReversed ==
  ASSUME NEW h, Chain(h), h[Len(h)] = Condensed(Scope).root
  PROVE  TraceTo(Scope, Mark, Reverse(h))
<1>. DEFINE items == Condensed(Scope).items
            t == Reverse(h)
            n == Len(h)
<1>1. h \in Seq(items) /\ n \in Nat \ {0} /\ \A k \in 1..n : h[k] \in items
  BY EmptySeq, LenProperties DEF Chain
<1>2. t = [k \in 1..n |-> h[(n - k) + 1]]
  BY DEF Reverse
<1>3. t \in Seq(items) /\ Len(t) = n
  <2>1. \A k \in 1..n : (n - k) + 1 \in 1..n
    BY <1>1
  <2>2. t \in [1..n -> items]
    BY <1>1, <1>2, <2>1
  <2>. HIDE DEF t, n, items
  <2>. QED
    BY <1>1, <2>2, IsASeq, LenProperties
<1>4. t[1] = h[n] /\ t[n] = h[1] /\ t # <<>>
  BY <1>1, <1>2, <1>3
<1>5. ASSUME NEW k \in 1..(n - 1)
      PROVE  Precedes(Scope, t[k], t[k + 1])
  <2>1. (n - k) \in 1..(n - 1) /\ t[k] = h[(n - k) + 1] /\ t[k + 1] = h[n - k]
    BY <1>1, <1>2
  <2>. QED
    BY <2>1 DEF Chain
<1>. HIDE DEF t
<1>6. TraceTo(Scope, Mark, t)
  BY <1>3, <1>4, <1>5 DEF TraceTo, Chain
<1>. QED
  BY <1>6 DEF t

LEMMA PairsOf ==
  ASSUME NEW scope, NEW e \in Condensed(scope).preds
  PROVE  e = <<e[1], e[2]>>
<1>1. PICK edge : e \in Edges(scope, edge)
  BY DEF Condensed
<1>2. PICK f \in edge : e = <<Item(scope, f[1]), Item(scope, f[2])>>
  BY <1>1 DEF Edges
<1>. QED
  BY <1>2

(* A call of DFS for the last item of a chain. *)
LEMMA VisitFacts ==
  ASSUME GraphsKnown, CallsKnown, calls # <<>>,
         NEW stack, NEW pending, Chain(stack), Pending(stack, pending),
         Len(stack) = Len(pending) + 1, \A t \in found : TraceTo(Scope, Mark, t),
         Visit(Scope, stack, pending)
  PROVE  \/ fault' = "stack" /\ UNCHANGED <<hist, left, found>>
         \/ Searched(hist', left', found') /\ UNCHANGED fault
<1>1. CASE Len(stack) > StackLimit
  BY <1>1 DEF Visit
<1>2. CASE ~(Len(stack) > StackLimit)
  <2>. DEFINE item == stack[Len(stack)]
              more == IF item = dags[Scope].root THEN {} ELSE Before(Scope, item)
              items == Condensed(Scope).items
  <2>1. /\ hist' = stack /\ left' = Append(pending, more) /\ UNCHANGED fault
        /\ found' = found \cup IF item = dags[Scope].root THEN {Reverse(stack)} ELSE {}
    BY <1>2 DEF Visit
  <2>2. Analysed /\ Scope \in Scopes /\ dags[Scope] = Condensed(Scope)
    BY CallFacts DEF GraphsKnown
  <2>3. \A t \in found' : TraceTo(Scope, Mark, t)
    BY <2>1, <2>2, ChainReversed
  <2>4. \A i \in more : Precedes(Scope, i, item)
    <3>1. ASSUME NEW i \in Before(Scope, item)
          PROVE  <<item, i>> \in Condensed(Scope).preds
      <4>1. PICK e \in Condensed(Scope).preds : e[1] = item /\ e[2] = i
        BY <2>2 DEF Before
      <4>2. e = <<e[1], e[2]>>
        BY <2>2, PairsOf
      <4>. QED
        BY <4>1, <4>2
    <3>2. CASE item = dags[Scope].root
      BY <3>2
    <3>3. CASE item # dags[Scope].root
      BY <2>2, <3>1, <3>3 DEF Precedes
    <3>. QED
      BY <3>2, <3>3
  <2>5. more \in SUBSET items
    BY <2>2, <2>4, ItemsOf DEF Precedes
  <2>6. pending \in Seq(SUBSET items) /\ Len(pending) \in Nat /\ DOMAIN pending = 1..Len(pending)
    BY LenProperties DEF Pending
  <2>. HIDE DEF more, items, item
  <2>7. /\ left' \in Seq(SUBSET items) /\ Len(left') = Len(stack)
        /\ \A k \in 1..Len(pending) : left'[k] = pending[k]
        /\ left'[Len(stack)] = more /\ DOMAIN left' = 1..Len(stack)
    BY <2>1, <2>5, <2>6, AppendProperties
  <2>8. ASSUME NEW k \in DOMAIN left', NEW i \in left'[k]
        PROVE  Precedes(Scope, i, stack[k])
    <3>1. CASE k = Len(stack)
      BY <2>4, <2>7, <2>8, <3>1 DEF item
    <3>2. CASE k # Len(stack)
      <4>1. k \in 1..Len(pending)
        BY <2>6, <2>7, <3>2
      <4>. QED
        BY <2>6, <2>7, <2>8, <4>1 DEF Pending
    <3>. QED
      BY <3>1, <3>2
  <2>. QED
    BY <2>1, <2>3, <2>7, <2>8 DEF Searched, Pending, items
<1>. QED
  BY <1>1, <1>2

LEMMA StartFacts ==
  ASSUME GraphsKnown, CallsKnown, calls # <<>>, found = {}, Start(Scope, Mark)
  PROVE  \/ fault' = "stack" /\ UNCHANGED <<hist, left, found>>
         \/ Searched(hist', left', found') /\ UNCHANGED fault
<1>1. Mark \in Condensed(Scope).items
  BY CallFacts, ItemsOf DEF Mark
<1>2. Chain(<<Mark>>)
  <2>1. \A S, x : x \in S => <<x>> \in Seq(S) /\ <<x>> # <<>> /\ Len(<<x>>) = 1 /\ <<x>>[1] = x
    OBVIOUS
  <2>2. \A k : k \notin 1..(1 - 1)
    OBVIOUS
  <2>. QED
    BY Zenon, <1>1, <2>1, <2>2 DEF Chain
<1>3. Pending(<<Mark>>, <<>>) /\ Len(<<Mark>>) = Len(<<>>) + 1
  BY DEF Pending
<1>4. Visit(Scope, <<Mark>>, <<>>)
  BY DEF Start
<1>. QED
  BY <1>2, <1>3, <1>4, VisitFacts

LEMMA DescendFacts ==
  ASSUME GraphsKnown, CallsKnown, calls # <<>>, SearchKnown, Descend(Scope)
  PROVE  \/ fault' = "stack" /\ UNCHANGED <<hist, left, found>>
         \/ Searched(hist', left', found') /\ UNCHANGED fault
<1>. DEFINE items == Condensed(Scope).items
            n == Len(hist)
            rest(p) == [left EXCEPT ![Len(left)] = @ \ {p}]
<1>1. PICK p \in left[Len(left)] : Visit(Scope, Append(hist, p), rest(p))
  BY DEF Descend
<1>2. /\ hist \in Seq(items) /\ n \in Nat \ {0} /\ hist[1] = Mark /\ Len(left) = n
      /\ left \in Seq(SUBSET items) /\ DOMAIN left = 1..n
      /\ \A k \in 1..(n - 1) : Precedes(Scope, hist[k + 1], hist[k])
      /\ \A k \in DOMAIN left : \A i \in left[k] : Precedes(Scope, i, hist[k])
      /\ \A t \in found : TraceTo(Scope, Mark, t)
  BY EmptySeq, LenProperties DEF SearchKnown, Searched, Chain, Pending
<1>3. p \in items /\ Precedes(Scope, p, hist[n])
  BY <1>1, <1>2, ElementOfSeq
<1>. DEFINE h == Append(hist, p)
<1>4. /\ h \in Seq(items) /\ Len(h) = n + 1 /\ h # <<>> /\ h[n + 1] = p
      /\ \A k \in 1..n : h[k] = hist[k]
  <2>. HIDE DEF items
  <2>. QED
    BY <1>2, <1>3, AppendProperties
<1>5. Chain(h)
  <2>1. ASSUME NEW k \in 1..n
        PROVE  Precedes(Scope, h[k + 1], h[k])
    <3>1. CASE k = n
      BY <1>3, <1>4, <3>1
    <3>2. CASE k # n
      <4>1. k \in 1..(n - 1) /\ k + 1 \in 1..n
        <5>1. n \in Nat
          BY <1>2
        <5>. HIDE DEF n
        <5>. QED
          BY <3>2, <5>1
      <4>. QED
        BY <1>2, <1>4, <4>1
    <3>. QED
      BY <3>1, <3>2
  <2>. HIDE DEF h
  <2>. QED
    BY <1>2, <1>4, <2>1 DEF Chain
<1>6. Pending(h, rest(p)) /\ Len(h) = Len(rest(p)) + 1
  <2>1. /\ rest(p) \in Seq(SUBSET items) /\ Len(rest(p)) = n /\ DOMAIN rest(p) = 1..n
        /\ \A k \in 1..n : rest(p)[k] \subseteq left[k]
    <3>. DEFINE e == left[n] \ {p}
                new == [left EXCEPT ![n] = e]
    <3>1. e \in SUBSET items /\ n \in 1..n
      BY <1>2, ElementOfSeq
    <3>2. rest(p) = new
      BY <1>2
    <3>3. new \in Seq(SUBSET items) /\ Len(new) = n
          /\ \A k \in 1..n : new[k] = IF k = n THEN e ELSE left[k]
      <4>. HIDE DEF e, items, n
      <4>. QED
        BY <1>2, <3>1, ExceptSeq
    <3>4. e \subseteq left[n]
      OBVIOUS
    <3>. HIDE DEF new, e, rest
    <3>. QED
      BY <1>2, <3>2, <3>3, <3>4, LenProperties
  <2>. HIDE DEF h, rest
  <2>2. ASSUME NEW k \in 1..n, NEW i \in rest(p)[k]
        PROVE  Precedes(Scope, i, h[k])
    BY <1>2, <1>4, <2>1, <2>2
  <2>. QED
    BY <1>4, <2>1, <2>2 DEF Pending
<1>. HIDE DEF h, rest
<1>. QED
  BY <1>1, <1>2, <1>5, <1>6, VisitFacts DEF h

(* A call of DFS that returns and is not the outermost one. *)
LEMMA RetreatFacts ==
  ASSUME calls # <<>>, SearchKnown, Retreat(Scope), Len(hist) > 1
  PROVE  Searched(hist', left', found')
<1>. DEFINE items == Condensed(Scope).items
            n == Len(hist)
<1>1. hist' = SubSeq(hist, 1, n - 1) /\ left' = SubSeq(left, 1, n - 1) /\ found' = found
  BY DEF Retreat, Front, SearchKnown, Searched
<1>2. /\ hist \in Seq(items) /\ n \in Nat /\ n > 1 /\ hist[1] = Mark /\ Len(left) = n
      /\ left \in Seq(SUBSET items) /\ DOMAIN left = 1..n
  BY LenProperties DEF SearchKnown, Searched, Chain, Pending
<1>. HIDE DEF items
<1>3. /\ hist' \in Seq(items) /\ Len(hist') = n - 1
      /\ \A k \in 1..(n - 1) : hist'[k] = hist[k]
  BY <1>1, <1>2, SubSeqProperties
<1>4. /\ left' \in Seq(SUBSET items) /\ Len(left') = n - 1 /\ DOMAIN left' = 1..(n - 1)
      /\ \A k \in 1..(n - 1) : left'[k] = left[k]
  BY <1>1, <1>2, SubSeqProperties
<1>5. Chain(hist')
  BY <1>2, <1>3 DEF Chain, SearchKnown, Searched, items
<1>6. Pending(hist', left')
  BY <1>2, <1>3, <1>4 DEF Pending, SearchKnown, Searched, items
<1>. QED
  BY <1>1, <1>3, <1>4, <1>5, <1>6 DEF SearchKnown, Searched

------------------------------------------------------------------------------
(* The invariant. *)

(* What a step that leaves the analyses alone keeps. *)
LEMMA Kept ==
  ASSUME GraphsKnown, UNCHANGED <<slice, forward, loops>>
  PROVE  /\ UNCHANGED <<unbuilt, dags>> /\ fault' # "verify" => GraphsKnown'
         /\ PathsKnown /\ UNCHANGED paths => PathsKnown'
         /\ CacheKnown /\ UNCHANGED cache => CacheKnown'
         /\ CallsKnown /\ UNCHANGED <<unbuilt, dags, calls>> => CallsKnown'
         /\ UNCHANGED calls => \A h, l, f : Searched(h, l, f)' <=> Searched(h, l, f)
<1>1. UNCHANGED <<unbuilt, dags>> /\ fault' # "verify" => GraphsKnown'
  BY Unmoved DEF GraphsKnown
<1>2. PathsKnown /\ UNCHANGED paths => PathsKnown'
  BY Unmoved DEF PathsKnown
<1>3. CacheKnown /\ UNCHANGED cache => CacheKnown'
  BY Unmoved DEF CacheKnown
<1>4. CallsKnown /\ UNCHANGED <<unbuilt, dags, calls>> => CallsKnown'
  BY Unmoved DEF CallsKnown
<1>5. ASSUME UNCHANGED calls, NEW h, NEW l, NEW f
      PROVE  Searched(h, l, f)' <=> Searched(h, l, f)
  <2>1. Scope' = Scope /\ Term' = Term
    BY <1>5 DEF Scope, Term, Call, Last
  <2>2. Mark' = Mark /\ Condensed(Scope)' = Condensed(Scope)
    BY <2>1, Unmoved DEF Mark
  <2>. QED
    BY <2>1, <2>2, Unmoved DEF Searched, Chain, Pending
<1>. QED
  BY <1>1, <1>2, <1>3, <1>4, <1>5

LEMMA InitKnown ==
  ASSUME NEW graphs, \A s \in graphs : Sliced(s), UnrollInit(graphs)
  PROVE  UnrollInv
<1>1. Analysed
  BY DEF UnrollInit, DagInit, Analysed
<1>2. \A f : f = <<>> => DOMAIN f = {}
  OBVIOUS
<1>3. DOMAIN dags = {} /\ DOMAIN paths = {} /\ DOMAIN cache = {}
  BY <1>2 DEF UnrollInit, DagInit
<1>4. GraphsKnown
  BY <1>1, <1>3 DEF GraphsKnown, Scopes, UnrollInit, DagInit
<1>5. CallsKnown
  BY DEF CallsKnown, UnrollInit, DagInit
<1>6. PathsKnown /\ CacheKnown
  BY <1>3 DEF PathsKnown, CacheKnown
<1>. QED
  BY <1>4, <1>5, <1>6 DEF UnrollInv, UnrollInit, DagInit

LEMMA BuildKeeps ==
  ASSUME UnrollInv, NEW scope \in unbuilt, Build(scope), UNCHANGED <<calls, cache>>
  PROVE  UnrollInv'
<1>. DEFINE g == Condensed(scope)
            inner == {i[2] : i \in {j \in g.items : IsLoop(j)}}
<1>1. /\ GraphsKnown /\ calls = <<>> /\ hist = <<>> /\ scope \in Scopes /\ Analysed
      /\ UNCHANGED <<slice, forward, loops, paths, hist, left, found>>
  BY DEF UnrollInv, GraphsKnown, CallsKnown, Build
<1>2. Verified(g)
  BY <1>1, GraphsVerify
<1>3. dags' = Inserted(dags, scope, g) /\ unbuilt' = (unbuilt \ {scope}) \cup inner
      /\ fault' = "none"
  BY <1>2 DEF Build
<1>4. inner \subseteq Scopes
  BY <1>1, ItemsOf, Tags DEF Scopes
<1>. HIDE DEF inner, g
<1>5. /\ DOMAIN dags' = (DOMAIN dags) \cup {scope}
      /\ \A s \in DOMAIN dags : dags'[s] = dags[s]
      /\ scope \notin DOMAIN dags => dags'[scope] = g
  <2>1. Grown(dags', dags, scope, g)
    BY <1>3 DEF Grown
  <2>. QED
    BY <2>1 DEF Grown, Inserted
<1>6. \A s \in DOMAIN dags' : dags'[s] = Condensed(s)
  BY <1>1, <1>5 DEF GraphsKnown, g
<1>7. (DOMAIN dags) \cup unbuilt \subseteq (DOMAIN dags') \cup unbuilt'
  BY <1>3, <1>5
<1>8. \A s \in DOMAIN dags' : \A i \in Condensed(s).items :
        IsLoop(i) => i[2] \in (DOMAIN dags') \cup unbuilt'
  <2>1. \A i \in Condensed(scope).items : IsLoop(i) => i[2] \in unbuilt'
    BY <1>3 DEF inner, g
  <2>2. \A s \in DOMAIN dags : \A i \in Condensed(s).items :
          IsLoop(i) => i[2] \in (DOMAIN dags) \cup unbuilt
    BY <1>1 DEF GraphsKnown
  <2>. QED
    BY <1>5, <1>7, <2>1, <2>2
<1>9. /\ unbuilt \subseteq Scopes /\ DOMAIN dags \subseteq Scopes
      /\ Null \in (DOMAIN dags) \cup unbuilt
  BY <1>1 DEF GraphsKnown
<1>10. GraphsKnown'
  <2>1. Analysed' /\ Scopes' = Scopes /\ \A s : Condensed(s)' = Condensed(s)
    BY <1>1, Unmoved
  <2>2. unbuilt' \subseteq Scopes /\ DOMAIN dags' \subseteq Scopes
        /\ Null \in (DOMAIN dags') \cup unbuilt'
    BY <1>1, <1>3, <1>4, <1>5, <1>7, <1>9
  <2>. QED
    BY <1>3, <1>6, <1>8, <2>1, <2>2 DEF GraphsKnown
<1>11. CallsKnown'
  BY <1>1 DEF CallsKnown
<1>12. PathsKnown' /\ CacheKnown'
  BY <1>1, Kept DEF UnrollInv
<1>. QED
  BY <1>1, <1>10, <1>11, <1>12 DEF UnrollInv

LEMMA AskKeeps ==
  ASSUME UnrollInv, Ask
  PROVE  UnrollInv'
<1>1. /\ GraphsKnown /\ unbuilt = {} /\ calls = <<>> /\ hist = <<>> /\ Analysed
      /\ calls' = <<<<Null, slice.basis>>>>
      /\ UNCHANGED <<dagVars, cache>>
  BY DEF UnrollInv, GraphsKnown, Ask
<1>2. UNCHANGED <<slice, forward, loops, unbuilt, dags, paths, hist, left, found, fault>>
  BY <1>1 DEF dagVars
<1>3. GraphsKnown' /\ PathsKnown' /\ CacheKnown'
  BY <1>1, <1>2, Kept DEF UnrollInv, GraphsKnown
<1>4. CallsKnown'
  <2>1. Null \in DOMAIN dags /\ slice.basis \in slice.nodes /\ InScope(Null) = slice.nodes
    BY <1>1 DEF GraphsKnown, Analysed, Sliced, InScope
  <2>2. \A x, S : x \in S => <<x>> \in Seq(S) /\ DOMAIN <<x>> = {1} /\ <<x>>[1] = x
    OBVIOUS
  <2>3. <<Null, slice.basis>> \in (DOMAIN dags) \X slice.nodes
    BY <2>1
  <2>4. calls' \in Seq((DOMAIN dags) \X slice.nodes) /\ DOMAIN calls' = {1}
        /\ calls'[1] = <<Null, slice.basis>>
    BY <1>1, <2>2, <2>3
  <2>5. InScope(Null)' = InScope(Null)
    BY <1>2, Unmoved
  <2>. QED
    BY <1>1, <1>2, <2>1, <2>4, <2>5 DEF CallsKnown
<1>. QED
  BY <1>1, <1>2, <1>3, <1>4 DEF UnrollInv

LEMMA SearchKeeps ==
  ASSUME UnrollInv, Search
  PROVE  UnrollInv'
<1>1. /\ GraphsKnown /\ CallsKnown /\ calls # <<>> /\ fault = "none"
      /\ PathsKnown /\ CacheKnown
      /\ UNCHANGED <<calls, cache>>
      /\ UNCHANGED <<slice, forward, loops, unbuilt, dags>>
  BY DEF UnrollInv, Search, Active, Start, Descend, Retreat
<1>2. /\ fault' # "verify" => GraphsKnown'
      /\ UNCHANGED paths => PathsKnown'
      /\ CacheKnown' /\ CallsKnown'
      /\ \A h, l, f : Searched(h, l, f)' <=> Searched(h, l, f)
  BY <1>1, Kept
<1>3. SearchKnown' <=> Searched(hist', left', found')
  BY <1>1, Unmoved DEF SearchKnown, Searched, Chain, Pending, Scope, Term, Mark, Call, Last
<1>4. ASSUME UNCHANGED paths,
             \/ fault' = "stack" /\ UNCHANGED <<hist, left, found>>
             \/ Searched(hist', left', found') /\ UNCHANGED fault
      PROVE  UnrollInv'
  <2>1. fault' # "verify" /\ GraphsKnown' /\ PathsKnown'
    BY <1>1, <1>2, <1>4
  <2>2. CASE UNCHANGED <<hist, left, found>>
    <3>1. hist # <<>> => SearchKnown'
      BY <1>3, <2>2 DEF UnrollInv, SearchKnown
    <3>. QED
      BY <1>1, <1>2, <2>1, <2>2, <3>1 DEF UnrollInv
  <2>3. CASE Searched(hist', left', found')
    <3>1. hist' # <<>> /\ SearchKnown'
      BY <1>3, <2>3 DEF Searched, Chain
    <3>. QED
      BY <1>1, <1>2, <2>1, <3>1 DEF UnrollInv
  <2>. QED
    BY <1>4, <2>2, <2>3
<1>5. CASE Start(Scope, Mark)
  <2>1. found = {} /\ UNCHANGED paths
    BY <1>5 DEF Start, Searching, UnrollInv
  <2>. QED
    BY <1>1, <1>4, <1>5, <2>1, StartFacts
<1>6. CASE Descend(Scope)
  <2>1. SearchKnown /\ UNCHANGED paths
    BY <1>6 DEF Descend, Searching, UnrollInv
  <2>. QED
    BY <1>1, <1>4, <1>6, <2>1, DescendFacts
<1>7. CASE Retreat(Scope)
  <2>1. SearchKnown /\ UNCHANGED fault /\ hist # <<>>
    BY <1>7 DEF Retreat, Searching, UnrollInv
  <2>2. CASE Len(hist) > 1
    BY <1>1, <1>4, <1>7, <2>1, <2>2, RetreatFacts DEF Retreat
  <2>3. CASE ~(Len(hist) > 1)
    <3>1. /\ paths' = Inserted(paths, <<Scope, hist[1]>>, found) /\ found' = {}
          /\ hist' = SubSeq(hist, 1, Len(hist) - 1) /\ left' = SubSeq(left, 1, Len(left) - 1)
      BY <1>7, <2>3 DEF Retreat, Front
    <3>2. /\ hist \in Seq(Condensed(Scope).items) /\ Len(hist) = 1 /\ Len(left) = 1
          /\ left \in Seq(SUBSET Condensed(Scope).items)
          /\ hist[1] = Mark /\ \A t \in found : TraceTo(Scope, Mark, t)
      BY <2>1, <2>3, EmptySeq, LenProperties DEF SearchKnown, Searched, Chain, Pending
    <3>3. hist' = <<>> /\ left' = <<>>
      BY <3>1, <3>2, SubSeqEmpty
    <3>4. Grown(paths', paths, <<Scope, hist[1]>>, found)
      BY <3>1 DEF Grown
    <3>5. PathsKnown'
      <4>1. ASSUME NEW s \in Scopes, NEW item, <<s, item>> \in DOMAIN paths',
                   NEW t \in paths'[<<s, item>>]
            PROVE  TraceTo(s, item, t)
        <5>. DEFINE c == <<s, item>>
        <5>0. PICK key : key = <<Scope, hist[1]>> /\ Grown(paths', paths, key, found)
          BY <3>4
        <5>1. DOMAIN paths' = (DOMAIN paths) \cup {key}
              /\ (\A x \in DOMAIN paths : paths'[x] = paths[x])
              /\ (key \notin DOMAIN paths => paths'[key] = found)
          BY <5>0 DEF Grown, Inserted
        <5>2. c \in DOMAIN paths' /\ t \in paths'[c]
          BY <4>1
        <5>3. CASE c \in DOMAIN paths
          <6>1. t \in paths[c]
            <7>. HIDE DEF c
            <7>. QED
              BY <5>1, <5>2, <5>3
          <6>. QED
            BY <1>1, <5>3, <6>1 DEF PathsKnown
        <5>4. CASE c \notin DOMAIN paths
          <6>1. c = key /\ t \in found
            <7>. HIDE DEF c
            <7>. QED
              BY <5>1, <5>2, <5>4
          <6>. QED
            BY <3>2, <5>0, <6>1
        <5>. QED
          BY <5>3, <5>4
      <4>2. Scopes' = Scopes /\ \A s, item, t : TraceTo(s, item, t)' <=> TraceTo(s, item, t)
        BY <1>1, Unmoved
      <4>. QED
        BY <4>1, <4>2 DEF PathsKnown
    <3>. QED
      BY <1>1, <1>2, <2>1, <3>1, <3>3, <3>5 DEF UnrollInv
  <2>. QED
    BY <2>2, <2>3
<1>. QED
  BY <1>5, <1>6, <1>7 DEF Search

(* The traces at hand when the search for them is over. *)
LEMMA TraceFacts ==
  ASSUME UnrollInv, Flattened
  PROVE  /\ GraphsKnown /\ CallsKnown /\ CacheKnown /\ calls # <<>> /\ hist = <<>>
         /\ \A t \in Traces : TraceTo(Scope, Mark, t)
<1>1. GraphsKnown /\ CallsKnown /\ CacheKnown /\ calls # <<>> /\ hist = <<>> /\ PathsKnown
  BY DEF UnrollInv, Flattened, Active, Searching
<1>2. Scope \in Scopes
  BY <1>1, CallFacts
<1>. QED
  BY <1>1, <1>2 DEF PathsKnown, Flattened, Traces

LEMMA CalleeFacts ==
  ASSUME UnrollInv, Flattened, NEW t \in Traces, NEW callee \in Callees(t)
  PROVE  callee \in (DOMAIN dags) \X slice.nodes /\ callee[2] \in InScope(callee[1])
<1>1. /\ GraphsKnown /\ CallsKnown /\ calls # <<>> /\ TraceTo(Scope, Mark, t)
      /\ Analysed /\ Scope \in Scopes /\ Scope \in DOMAIN dags
      /\ Term \in InScope(Scope) /\ unbuilt = {}
  BY TraceFacts, CallFacts DEF CallsKnown
<1>2. PICK i \in DOMAIN t : IsLoop(t[i]) /\ callee \in {<<t[i][2], l>> : l \in Links(t, i)}
  BY DEF Callees
<1>3. PICK l \in Links(t, i) : callee = <<t[i][2], l>>
  BY <1>2
<1>4. i \in 1..Len(t) /\ Len(t) \in Nat /\ t[i] \in Condensed(Scope).items
      /\ t[Len(t)] = Item(Scope, Term)
  BY <1>1, LenProperties, ElementOfSeq DEF TraceTo, Mark
<1>5. PICK h \in DOMAIN loops : t[i] = Loop(h)
  BY <1>1, <1>2, <1>4, ItemsOf, Tags
<1>6. h \in DOMAIN dags /\ t[i][2] = h /\ IsLoop(t[i])
  BY <1>1, <1>4, <1>5, Tags DEF GraphsKnown
<1>7. l \in loops[h]
  <2>1. CASE i < Len(t)
    BY <1>3, <1>6, <2>1 DEF Links, Exiting
  <2>2. CASE ~(i < Len(t))
    <3>1. i = Len(t) /\ l = Term
      BY <1>3, <1>4, <2>2 DEF Links
    <3>2. Item(Scope, Term) = Loop(h)
      BY <1>4, <1>5, <3>1
    <3>3. h \in Around(Scope, Term)
      BY <1>1, <3>2, ItemFacts, Tags
    <3>. QED
      BY <3>1, <3>3 DEF Around
  <2>. QED
    BY <2>1, <2>2
<1>8. h # Null /\ loops[h] \subseteq slice.nodes /\ InScope(h) = loops[h]
  BY <1>1, AnalysisFacts DEF InScope
<1>. QED
  BY <1>3, <1>6, <1>7, <1>8

LEMMA RecurseKeeps ==
  ASSUME UnrollInv, Recurse
  PROVE  UnrollInv'
<1>1. PICK callee \in Missing : calls' = Append(calls, callee)
  BY DEF Recurse
<1>2. /\ UNCHANGED <<slice, forward, loops, unbuilt, dags, paths, hist, left, found, fault>>
      /\ UNCHANGED cache /\ Flattened
  BY DEF Recurse, dagVars
<1>3. GraphsKnown /\ CallsKnown /\ calls # <<>> /\ hist = <<>>
  BY <1>2, TraceFacts
<1>. DEFINE S == (DOMAIN dags) \X slice.nodes
<1>4. callee \in S /\ callee[2] \in InScope(callee[1])
  <2>1. PICK t \in Traces : callee \in Callees(t)
    BY <1>1 DEF Missing
  <2>. QED
    BY <1>2, <2>1, CalleeFacts
<1>5. GraphsKnown' /\ PathsKnown' /\ CacheKnown'
  BY <1>2, <1>3, Kept DEF UnrollInv, GraphsKnown
<1>6. CallsKnown'
  <2>1. calls \in Seq(S) /\ Len(calls) \in Nat /\ DOMAIN calls = 1..Len(calls)
    BY <1>3, LenProperties DEF CallsKnown
  <2>. HIDE DEF S
  <2>2. /\ calls' \in Seq(S) /\ DOMAIN calls' = 1..(Len(calls) + 1)
        /\ \A k \in 1..Len(calls) : calls'[k] = calls[k]
        /\ calls'[Len(calls) + 1] = callee
    BY <1>1, <1>4, <2>1, AppendProperties, LenProperties
  <2>3. ASSUME NEW k \in DOMAIN calls'
        PROVE  calls'[k][2] \in InScope(calls'[k][1])
    <3>1. CASE k = Len(calls) + 1
      BY <1>4, <2>2, <3>1
    <3>2. CASE k # Len(calls) + 1
      <4>1. k \in 1..Len(calls)
        BY <2>1, <2>2, <3>2
      <4>. QED
        BY <1>3, <2>1, <2>2, <4>1 DEF CallsKnown
    <3>. QED
      BY <3>1, <3>2
  <2>4. \A s : InScope(s)' = InScope(s)
    BY <1>2, Unmoved
  <2>5. S' = S
    BY <1>2 DEF S
  <2>. QED
    BY <1>2, <1>3, <2>2, <2>3, <2>4 DEF CallsKnown, S
<1>. QED
  BY <1>2, <1>3, <1>5, <1>6 DEF UnrollInv

LEMMA ReturnKeeps ==
  ASSUME UnrollInv, Return
  PROVE  UnrollInv'
<1>1. /\ UNCHANGED <<slice, forward, loops, unbuilt, dags, paths, hist, left, found>>
      /\ Flattened /\ Missing = {}
  BY DEF Return
<1>2. /\ GraphsKnown /\ CallsKnown /\ CacheKnown /\ calls # <<>> /\ hist = <<>>
      /\ \A t \in Traces : TraceTo(Scope, Mark, t)
  BY <1>1, TraceFacts
<1>3. PathsKnown'
  BY <1>1, <1>2, Kept DEF UnrollInv
<1>4. CASE fault' = "path" /\ UNCHANGED <<calls, cache>>
  <2>1. GraphsKnown' /\ CallsKnown' /\ CacheKnown'
    BY <1>1, <1>2, <1>4, Kept
  <2>. QED
    BY <1>1, <1>2, <1>3, <1>4, <2>1 DEF UnrollInv
<1>5. CASE ~(fault' = "path" /\ UNCHANGED <<calls, cache>>)
  <2>. DEFINE all == UNION {Unrolled(t) : t \in Traces}
  <2>1. PICK first \in kSubset(Least(UnrollLimit, Cardinality(all)), all) :
           cache' = Inserted(cache, Call, [all |-> all, first |-> first])
    BY <1>5 DEF Return
  <2>2. calls' = Front(calls) /\ UNCHANGED fault
    BY <1>5 DEF Return
  <2>3. first \subseteq all
    BY <2>1 DEF kSubset
  <2>4. ASSUME NEW p \in all
        PROVE  WayTo(Scope, Term, p)
    <3>1. PICK t \in Traces : p \in Unrolled(t)
      BY <2>4
    <3>2. Callees(t) \subseteq DOMAIN cache
      BY <1>1 DEF Missing
    <3>. QED
      BY <1>2, <3>1, <3>2, UnrolledFacts
  <2>. HIDE DEF all
  <2>5. Call = <<Scope, Term>> /\ Scope \in Scopes
    <3>1. Len(calls) \in DOMAIN calls /\ Call = calls[Len(calls)]
      BY <1>2, EmptySeq, LenProperties DEF CallsKnown, Call, Last
    <3>2. Call \in (DOMAIN dags) \X slice.nodes
      BY <1>2, <3>1, ElementOfSeq, LenProperties DEF CallsKnown
    <3>. QED
      BY <1>2, <3>2, CallFacts DEF Scope, Term
  <2>6. CacheKnown'
    <3>. DEFINE new == [all |-> all, first |-> first]
    <3>0. Grown(cache', cache, Call, new)
      BY <2>1 DEF Grown
    <3>1. ASSUME NEW s, NEW b, <<s, b>> \in DOMAIN cache'
          PROVE  /\ cache'[<<s, b>>].first \subseteq cache'[<<s, b>>].all
                 /\ s \in Scopes /\ \A p \in cache'[<<s, b>>].all : WayTo(s, b, p)
      <4>. DEFINE c == <<s, b>>
      <4>0. PICK key : key = Call /\ Grown(cache', cache, key, new)
        BY <3>0
      <4>1. DOMAIN cache' = (DOMAIN cache) \cup {key}
            /\ (\A x \in DOMAIN cache : cache'[x] = cache[x])
            /\ (key \notin DOMAIN cache => cache'[key] = new)
        <5>. HIDE DEF new
        <5>. QED
          BY <4>0 DEF Grown, Inserted
      <4>2. new.all = all /\ new.first = first
        OBVIOUS
      <4>3. c \in DOMAIN cache'
        BY <3>1
      <4>. HIDE DEF new
      <4>4. CASE c \in DOMAIN cache
        <5>1. cache'[c] = cache[c]
          <6>. HIDE DEF c
          <6>. QED
            BY <4>1, <4>4
        <5>. QED
          BY <1>2, <4>4, <5>1 DEF CacheKnown
      <4>5. CASE c \notin DOMAIN cache
        <5>1. c = Call /\ cache'[c] = new
          <6>. HIDE DEF c
          <6>. QED
            BY <4>0, <4>1, <4>3, <4>5
        <5>2. s = Scope /\ b = Term
          BY <2>5, <5>1
        <5>. QED
          BY <2>3, <2>4, <2>5, <4>2, <5>1, <5>2
      <4>. QED
        BY <4>4, <4>5
    <3>2. Scopes' = Scopes /\ \A s, b, p : WayTo(s, b, p)' <=> WayTo(s, b, p)
      BY <1>1, Unmoved
    <3>3. ASSUME NEW c \in DOMAIN cache'
          PROVE  c = <<c[1], c[2]>>
      <4>1. c \in DOMAIN cache \/ c = Call
        <5>1. DOMAIN cache' = (DOMAIN cache) \cup {Call}
          BY <3>0 DEF Grown, Inserted
        <5>. QED
          BY <5>1
      <4>. QED
        BY <1>2, <2>5, <4>1 DEF CacheKnown
    <3>. QED
      BY <3>1, <3>2, <3>3 DEF CacheKnown
  <2>7. GraphsKnown'
    BY <1>1, <1>2, <2>2, Kept DEF GraphsKnown
  <2>8. CallsKnown'
    <3>. DEFINE S == (DOMAIN dags) \X slice.nodes
    <3>1. /\ calls \in Seq(S) /\ Len(calls) \in Nat \ {0} /\ DOMAIN calls = 1..Len(calls)
      BY <1>2, EmptySeq, LenProperties DEF CallsKnown
    <3>. HIDE DEF S
    <3>2. /\ calls' \in Seq(S) /\ DOMAIN calls' = 1..(Len(calls) - 1)
          /\ \A k \in 1..(Len(calls) - 1) : calls'[k] = calls[k]
      BY <2>2, <3>1, SubSeqProperties, LenProperties DEF Front
    <3>3. \A s : InScope(s)' = InScope(s)
      BY <1>1, Unmoved
    <3>4. \A k \in DOMAIN calls' : k \in DOMAIN calls
      BY <3>1, <3>2
    <3>. QED
      BY <1>1, <1>2, <3>2, <3>3, <3>4 DEF CallsKnown, S
  <2>. QED
    BY <1>1, <1>2, <1>3, <2>6, <2>7, <2>8 DEF UnrollInv
<1>. QED
  BY <1>4, <1>5

LEMMA NextKeeps ==
  ASSUME UnrollInv, [UnrollNext]_unrollVars
  PROVE  UnrollInv'
<1>1. CASE UnrollStep
  BY <1>1, BuildKeeps, AskKeeps, SearchKeeps, RecurseKeeps, ReturnKeeps DEF UnrollStep
<1>2. CASE UNCHANGED unrollVars
  <2>1. /\ UNCHANGED <<slice, forward, loops, unbuilt, dags, paths, hist, left, found, fault>>
        /\ UNCHANGED <<calls, cache>>
    BY <1>2 DEF unrollVars, dagVars
  <2>2. GraphsKnown' /\ CallsKnown' /\ PathsKnown' /\ CacheKnown'
    BY <2>1, Kept DEF UnrollInv, GraphsKnown
  <2>3. SearchKnown' <=> SearchKnown
    BY <2>1, Kept DEF UnrollInv, SearchKnown
  <2>. QED
    BY <2>1, <2>2, <2>3 DEF UnrollInv
<1>. QED
  BY <1>1, <1>2 DEF UnrollNext, UnrollStopped

------------------------------------------------------------------------------
(* Nothing is lost: the search for traces is complete. *)

(* The stack has room for a path through all blocks.                       *)
Roomy == StackLimit \in Nat /\ Cardinality(slice.nodes) <= StackLimit

(* Items that lead back from an item, as DFS stacks them.                  *)
ChainTo(scope, item, w) ==
  /\ w \in Seq(Condensed(scope).items) /\ w # <<>>
  /\ w[1] = item
  /\ \A k \in 1..(Len(w) - 1) : Precedes(scope, w[k + 1], w[k])

(* Chain w still has to be visited from one of the first n calls.          *)
AwaitsUpTo(n, h, l, w) ==
  \E k \in 1..n : k < Len(w) /\ (\A j \in 1..k : w[j] = h[j]) /\ w[k + 1] \in l[k]

(* Chain w was visited.                                                    *)
Seen(scope, f, w) ==
  /\ Len(w) <= StackLimit
  /\ w[Len(w)] = Condensed(scope).root => Reverse(w) \in f

Complete(h, l, f) ==
  \A w : Chain(w) => AwaitsUpTo(Len(h), h, l, w) \/ Seen(Scope, f, w)

Extends(w, stack) == Len(stack) <= Len(w) /\ \A j \in 1..Len(stack) : w[j] = stack[j]

PathsComplete ==
  \A s \in Scopes : \A item : <<s, item>> \in DOMAIN paths =>
    \A w : ChainTo(s, item, w) => Seen(s, paths[<<s, item>>], w)

LEMMA ChainFacts ==
  ASSUME NEW w, Chain(w)
  PROVE  /\ w \in Seq(Condensed(Scope).items) /\ Len(w) \in Nat \ {0}
         /\ \A k \in 1..Len(w) : w[k] \in Condensed(Scope).items
BY EmptySeq, LenProperties, ElementOfSeq DEF Chain

(* A call of DFS visits one chain; those that go on from it await.         *)
LEMMA VisitCompletes ==
  ASSUME GraphsKnown, CallsKnown, Roomy, calls # <<>>,
         NEW stack, NEW pending, Chain(stack), Pending(stack, pending),
         Len(stack) = Len(pending) + 1,
         \A w : Chain(w) => \/ AwaitsUpTo(Len(pending), stack, pending, w)
                            \/ Seen(Scope, found, w) \/ Extends(w, stack),
         Visit(Scope, stack, pending)
  PROVE  \/ fault' = "stack" /\ UNCHANGED <<hist, left, found>> /\ Len(stack) > StackLimit
         \/ Complete(hist', left', found')
<1>1. CASE Len(stack) > StackLimit
  BY <1>1 DEF Visit
<1>2. CASE ~(Len(stack) > StackLimit)
  <2>. DEFINE item == stack[Len(stack)]
              root == Condensed(Scope).root
              more == IF item = root THEN {} ELSE Before(Scope, item)
              n == Len(stack)
  <2>1. Analysed /\ Scope \in Scopes /\ dags[Scope] = Condensed(Scope)
    BY CallFacts DEF GraphsKnown
  <2>2. /\ hist' = stack /\ left' = Append(pending, more)
        /\ found' = found \cup IF item = root THEN {Reverse(stack)} ELSE {}
    BY <1>2, <2>1 DEF Visit
  <2>3. n \in Nat \ {0} /\ n <= StackLimit /\ Len(pending) = n - 1
        /\ pending \in Seq(SUBSET Condensed(Scope).items)
    BY <1>2, ChainFacts, LenProperties DEF Roomy, Pending
  <2>4. \A k \in 1..(n - 1) : left'[k] = pending[k]
    BY <2>2, <2>3
  <2>5. left'[n] = more
    BY <2>2, <2>3
  <2>6. ASSUME NEW w, Chain(w)
        PROVE  AwaitsUpTo(n, stack, left', w) \/ Seen(Scope, found', w)
    <3>1. Len(w) \in Nat \ {0} /\ w \in Seq(Condensed(Scope).items)
      BY <2>6, ChainFacts
    <3>2. CASE AwaitsUpTo(n - 1, stack, pending, w)
      <4>1. PICK k \in 1..(n - 1) : /\ k < Len(w) /\ w[k + 1] \in pending[k]
                                    /\ \A j \in 1..k : w[j] = stack[j]
        BY <3>2 DEF AwaitsUpTo
      <4>2. k \in 1..n
        BY <2>3
      <4>. QED
        BY <2>4, <4>1, <4>2 DEF AwaitsUpTo
    <3>3. CASE Seen(Scope, found, w)
      BY <2>2, <3>3 DEF Seen
    <3>4. CASE Extends(w, stack) /\ Len(w) = n
      <4>1. w = stack
        BY <2>3, <3>1, <3>4, SeqEqual, ChainFacts DEF Extends
      <4>. QED
        BY <2>2, <2>3, <4>1 DEF Seen
    <3>5. CASE Extends(w, stack) /\ Len(w) # n
      <4>1. n < Len(w) /\ n \in 1..(Len(w) - 1) /\ w[n] = item
        BY <2>3, <3>1, <3>5 DEF Extends
      <4>2. Precedes(Scope, w[n + 1], item)
        BY <2>6, <4>1 DEF Chain
      <4>3. w[n + 1] \in Before(Scope, item) /\ item # root
        <5>1. <<item, w[n + 1]>> \in dags[Scope].preds /\ item # root
          BY <2>1, <4>2 DEF Precedes
        <5>2. \A a, b : <<a, b>>[1] = a /\ <<a, b>>[2] = b
          OBVIOUS
        <5>. QED
          BY <5>1, <5>2 DEF Before
      <4>4. w[n + 1] \in left'[n]
        BY <2>5, <4>3
      <4>5. n \in 1..n /\ \A j \in 1..n : w[j] = stack[j]
        BY <2>3, <3>5 DEF Extends
      <4>. QED
        BY <4>1, <4>4, <4>5 DEF AwaitsUpTo
    <3>6. AwaitsUpTo(n - 1, stack, pending, w) \/ Seen(Scope, found, w) \/ Extends(w, stack)
      BY <2>3, <2>6
    <3>. QED
      BY <3>2, <3>3, <3>4, <3>5, <3>6
  <2>. HIDE DEF n
  <2>. QED
    BY <2>2, <2>6 DEF Complete, n
<1>. QED
  BY <1>1, <1>2

LEMMA StartCompletes ==
  ASSUME GraphsKnown, CallsKnown, Roomy, calls # <<>>, Start(Scope, Mark)
  PROVE  \/ fault' = "stack" /\ UNCHANGED <<hist, left, found>>
         \/ Complete(hist', left', found')
<1>1. Chain(<<Mark>>)
  <2>1. Mark \in Condensed(Scope).items
    BY CallFacts, ItemsOf DEF Mark
  <2>2. \A S, x : x \in S => <<x>> \in Seq(S) /\ <<x>> # <<>> /\ Len(<<x>>) = 1 /\ <<x>>[1] = x
    OBVIOUS
  <2>3. \A k : k \notin 1..(1 - 1)
    OBVIOUS
  <2>. QED
    BY Zenon, <2>1, <2>2, <2>3 DEF Chain
<1>2. Pending(<<Mark>>, <<>>) /\ Len(<<Mark>>) = Len(<<>>) + 1
  BY DEF Pending
<1>3. Visit(Scope, <<Mark>>, <<>>)
  BY DEF Start
<1>4. ASSUME NEW w, Chain(w)
      PROVE  Extends(w, <<Mark>>)
  BY <1>4, ChainFacts DEF Extends, Chain
<1>. QED
  BY <1>1, <1>2, <1>3, <1>4, VisitCompletes

(* The call of DFS for a predecessor p of the last item. *)
Rest(p) == [left EXCEPT ![Len(left)] = @ \ {p}]

LEMMA DescendChain ==
  ASSUME SearchKnown, NEW p \in left[Len(left)]
  PROVE  /\ Chain(Append(hist, p)) /\ Pending(Append(hist, p), Rest(p))
         /\ Len(Append(hist, p)) = Len(Rest(p)) + 1
         /\ Len(hist) \in Nat \ {0} /\ Len(left) = Len(hist) /\ Len(Rest(p)) = Len(hist)
         /\ \A k \in 1..Len(hist) : /\ Append(hist, p)[k] = hist[k]
                                    /\ Rest(p)[k] = IF k = Len(hist) THEN left[k] \ {p} ELSE left[k]
         /\ Append(hist, p)[Len(hist) + 1] = p
<1>. DEFINE items == Condensed(Scope).items
            n == Len(hist)
            rest(q) == Rest(q)
<1>2. /\ hist \in Seq(items) /\ n \in Nat \ {0} /\ hist[1] = Mark /\ Len(left) = n
      /\ left \in Seq(SUBSET items) /\ DOMAIN left = 1..n
      /\ \A k \in 1..(n - 1) : Precedes(Scope, hist[k + 1], hist[k])
      /\ \A k \in DOMAIN left : \A i \in left[k] : Precedes(Scope, i, hist[k])
  BY EmptySeq, LenProperties DEF SearchKnown, Searched, Chain, Pending
<1>3. p \in items /\ Precedes(Scope, p, hist[n])
  BY <1>2, ElementOfSeq
<1>. DEFINE h == Append(hist, p)
<1>4. /\ h \in Seq(items) /\ Len(h) = n + 1 /\ h # <<>> /\ h[n + 1] = p
      /\ \A k \in 1..n : h[k] = hist[k]
  <2>. HIDE DEF items
  <2>. QED
    BY <1>2, <1>3, AppendProperties
<1>5. Chain(h)
  <2>1. ASSUME NEW k \in 1..n
        PROVE  Precedes(Scope, h[k + 1], h[k])
    <3>1. CASE k = n
      BY <1>3, <1>4, <3>1
    <3>2. CASE k # n
      <4>1. k \in 1..(n - 1) /\ k + 1 \in 1..n
        <5>1. n \in Nat
          BY <1>2
        <5>. HIDE DEF n
        <5>. QED
          BY <3>2, <5>1
      <4>. QED
        BY <1>2, <1>4, <4>1
    <3>. QED
      BY <3>1, <3>2
  <2>. HIDE DEF h
  <2>. QED
    BY <1>2, <1>4, <2>1 DEF Chain
<1>6. /\ rest(p) \in Seq(SUBSET items) /\ Len(rest(p)) = n /\ DOMAIN rest(p) = 1..n
      /\ \A k \in 1..n : rest(p)[k] = IF k = n THEN left[k] \ {p} ELSE left[k]
  <2>. DEFINE e == left[n] \ {p}
              new == [left EXCEPT ![n] = e]
  <2>1. e \in SUBSET items /\ n \in 1..n
    BY <1>2, ElementOfSeq
  <2>2. rest(p) = new
    BY <1>2 DEF Rest
  <2>3. new \in Seq(SUBSET items) /\ Len(new) = n
        /\ \A k \in 1..n : new[k] = IF k = n THEN e ELSE left[k]
    <3>. HIDE DEF e, items, n
    <3>. QED
      BY <1>2, <2>1, ExceptSeq
  <2>. HIDE DEF new, rest
  <2>. QED
    BY <1>2, <2>2, <2>3, LenProperties
<1>7. Pending(h, rest(p)) /\ Len(h) = Len(rest(p)) + 1
  <2>. HIDE DEF h, rest
  <2>1. ASSUME NEW k \in 1..n, NEW i \in rest(p)[k]
        PROVE  Precedes(Scope, i, h[k])
    BY <1>2, <1>4, <1>6, <2>1
  <2>. QED
    BY <1>4, <1>6, <2>1 DEF Pending
<1>. HIDE DEF h, n
<1>. QED
  BY <1>2, <1>4, <1>5, <1>6, <1>7 DEF h, n

LEMMA DescendCompletes ==
  ASSUME GraphsKnown, CallsKnown, Roomy, calls # <<>>, SearchKnown,
         Complete(hist, left, found), Descend(Scope)
  PROVE  \/ fault' = "stack" /\ UNCHANGED <<hist, left, found>>
         \/ Complete(hist', left', found')
<1>1. PICK p \in left[Len(left)] : Visit(Scope, Append(hist, p), Rest(p))
  BY DEF Descend, Rest
<1>. DEFINE h == Append(hist, p)
            rest == Rest(p)
            n == Len(hist)
<1>2. /\ Chain(h) /\ Pending(h, rest) /\ Len(h) = Len(rest) + 1
      /\ n \in Nat \ {0} /\ Len(rest) = n /\ h[n + 1] = p
      /\ \A k \in 1..n : /\ h[k] = hist[k]
                         /\ rest[k] = IF k = n THEN left[k] \ {p} ELSE left[k]
  BY DescendChain
<1>. HIDE DEF h, rest
<1>3. ASSUME NEW w, Chain(w)
      PROVE  AwaitsUpTo(n, h, rest, w) \/ Seen(Scope, found, w) \/ Extends(w, h)
  <2>1. CASE Seen(Scope, found, w)
    BY <2>1
  <2>2. CASE AwaitsUpTo(n, hist, left, w)
    <3>1. PICK k \in 1..n : /\ k < Len(w) /\ w[k + 1] \in left[k]
                            /\ \A j \in 1..k : w[j] = hist[j]
      BY <2>2 DEF AwaitsUpTo
    <3>2. CASE w[k + 1] \in rest[k]
      <4>1. \A j \in 1..k : j \in 1..n
        BY <1>2
      <4>2. \A j \in 1..k : w[j] = h[j]
        BY <1>2, <3>1, <4>1
      <4>. QED
        BY <3>1, <3>2, <4>2 DEF AwaitsUpTo
    <3>3. CASE w[k + 1] \notin rest[k]
      <4>0. w[k + 1] \in left[k] /\ rest[k] = IF k = n THEN left[k] \ {p} ELSE left[k]
        BY <1>2, <3>1
      <4>1. k = n /\ w[n + 1] = p
        <5>1. k = n
          BY <3>3, <4>0
        <5>. QED
          BY <3>3, <4>0, <5>1
      <4>2. Len(w) \in Nat /\ n + 1 <= Len(w) /\ Len(h) = n + 1
        BY <1>2, <3>1, <4>1, <1>3, ChainFacts
      <4>3. \A j \in 1..n : w[j] = h[j]
        BY <1>2, <3>1, <4>1
      <4>4. \A j \in 1..(n + 1) : j = n + 1 \/ j \in 1..n
        BY <1>2
      <4>5. \A j \in 1..(n + 1) : w[j] = h[j]
        BY <1>2, <4>1, <4>3, <4>4
      <4>. QED
        BY <4>2, <4>5 DEF Extends
    <3>. QED
      BY <3>2, <3>3
  <2>. QED
    BY <1>3, <2>1, <2>2 DEF Complete
<1>4. Visit(Scope, h, rest)
  BY <1>1 DEF h, rest
<1>. QED
  BY <1>2, <1>3, <1>4, VisitCompletes

LEMMA RetreatCompletes ==
  ASSUME calls # <<>>, SearchKnown, Complete(hist, left, found), Retreat(Scope), Len(hist) > 1
  PROVE  Complete(hist', left', found')
<1>. DEFINE n == Len(hist)
<1>1. hist' = SubSeq(hist, 1, n - 1) /\ left' = SubSeq(left, 1, n - 1) /\ found' = found
      /\ left[n] = {}
  BY DEF Retreat, Front, SearchKnown, Searched
<1>2. n \in Nat /\ n > 1 /\ hist \in Seq(Condensed(Scope).items)
      /\ left \in Seq(SUBSET Condensed(Scope).items) /\ Len(left) = n
  BY LenProperties DEF SearchKnown, Searched, Chain, Pending
<1>3. /\ Len(hist') = n - 1
      /\ \A k \in 1..(n - 1) : hist'[k] = hist[k] /\ left'[k] = left[k]
  BY <1>1, <1>2
<1>4. ASSUME NEW w, Chain(w), AwaitsUpTo(n, hist, left, w)
      PROVE  AwaitsUpTo(n - 1, hist', left', w)
  <2>1. PICK k \in 1..n : /\ k < Len(w) /\ w[k + 1] \in left[k]
                          /\ \A j \in 1..k : w[j] = hist[j]
    BY <1>4 DEF AwaitsUpTo
  <2>2. k \in 1..(n - 1)
    BY <1>1, <1>2, <2>1
  <2>3. \A j \in 1..k : j \in 1..(n - 1)
    BY <1>2, <2>2
  <2>4. \A j \in 1..k : w[j] = hist'[j]
    BY <1>3, <2>1, <2>3
  <2>. QED
    BY <1>3, <2>1, <2>2, <2>4 DEF AwaitsUpTo
<1>. HIDE DEF n
<1>. QED
  BY <1>1, <1>3, <1>4 DEF Complete, n

(* When the outermost call of DFS returns nothing awaits any more. *)
LEMMA RetreatEnds ==
  ASSUME SearchKnown, Complete(hist, left, found), Retreat(Scope), ~(Len(hist) > 1),
         NEW w, Chain(w)
  PROVE  Seen(Scope, found, w)
<1>1. Len(hist) = 1 /\ left[1] = {}
  BY EmptySeq, LenProperties DEF Retreat, SearchKnown, Searched, Chain
<1>. QED
  BY <1>1 DEF Complete, AwaitsUpTo

------------------------------------------------------------------------------
(* Every block of a scope is reached from its entry without going back. *)

LEMMA ScopeReached ==
  ASSUME Analysed, NEW scope \in Scopes, NEW T \in SUBSET InScope(scope),
         EntryOf(scope) \in T, \A v \in T : slice.succ[v] \cap InScope(scope) \subseteq T
  PROVE  T = InScope(scope)
<1>1. Sliced(slice)
  BY DEF Analysed
<1>2. CASE scope = Null
  <2>1. InScope(scope) = slice.nodes /\ EntryOf(scope) = slice.entry
    BY <1>2 DEF InScope, EntryOf
  <2>2. \A v \in T : slice.succ[v] \subseteq T
    BY <1>1, <2>1 DEF Sliced
  <2>. QED
    BY <1>1, <2>1, <2>2, AllReached
<1>3. CASE scope # Null
  <2>1. scope \in DOMAIN loops /\ InScope(scope) = loops[scope] /\ EntryOf(scope) = scope
        /\ scope \in slice.nodes /\ loops[scope] \subseteq slice.nodes
        /\ loops[scope] = NaturalLoop(slice, scope)
    BY <1>3, AnalysisFacts DEF Scopes, InScope, EntryOf
  <2>. DEFINE U == (slice.nodes \ loops[scope]) \cup T
  <2>2. slice.entry \in U
    <3>1. slice.entry \in slice.nodes
      BY <1>1 DEF Sliced
    <3>2. ASSUME slice.entry \in loops[scope]
          PROVE  slice.entry = scope
      BY <1>1, <2>1, <3>2, LoopFacts, WithoutFacts
    <3>. QED
      BY <2>1, <3>1, <3>2
  <2>3. \A v \in U : slice.succ[v] \subseteq U
    <3>1. SUFFICES ASSUME NEW v \in U, NEW w \in slice.succ[v], w \in loops[scope]
                   PROVE  w \in T
      BY <1>1, <2>1 DEF Sliced
    <3>2. CASE v \in T
      BY <2>1, <3>1, <3>2
    <3>3. CASE v \in slice.nodes \ loops[scope]
      BY <2>1, <3>1, <3>3, EnteredAtHead
    <3>. QED
      BY <3>2, <3>3
  <2>4. U = slice.nodes
    <3>1. U \in SUBSET slice.nodes
      BY <2>1
    <3>. HIDE DEF U
    <3>. QED
      BY <1>1, <2>2, <2>3, <3>1, AllReached
  <2>. QED
    BY <2>1, <2>4
<1>. QED
  BY <1>2, <1>3

LEMMA ForwardReached ==
  ASSUME Analysed, NEW scope \in Scopes, NEW T \in SUBSET InScope(scope),
         EntryOf(scope) \in T, \A v \in T : forward[v] \cap InScope(scope) \subseteq T
  PROVE  T = InScope(scope)
<1>1. Sliced(slice) /\ InScope(scope) \subseteq slice.nodes
  BY AnalysisFacts DEF Analysed
<1>. DEFINE F == {v \in T : \A w \in InScope(scope) \ T : v \in Without(slice, w)}
<1>2. \A v \in slice.nodes : \A w \in slice.succ[v] : w \in slice.nodes
                             /\ (w \notin forward[v] => Dominates(slice, w, v))
  BY <1>1 DEF Analysed, ForwardEdges, Sliced
<1>3. ASSUME NEW w \in InScope(scope) \ T
      PROVE  EntryOf(scope) \in Without(slice, w)
  <2>1. CASE scope = Null
    BY <1>1, <1>3, <2>1, WithoutFacts DEF EntryOf
  <2>2. CASE scope # Null
    <3>1. scope \in slice.nodes /\ InScope(scope) = NaturalLoop(slice, scope)
          /\ EntryOf(scope) = scope
      BY <2>2, AnalysisFacts DEF Scopes, InScope, EntryOf
    <3>2. Dominates(slice, scope, w) /\ w # scope
      BY <1>1, <1>3, <3>1, LoopFacts
    <3>3. ~Dominates(slice, w, scope)
      BY <1>1, <1>3, <3>1, <3>2, DominatesAntisymmetric
    <3>. QED
      BY <1>1, <1>3, <3>1, <3>3, WithoutFacts
  <2>. QED
    BY <2>1, <2>2
<1>4. ASSUME NEW v \in F, NEW w \in slice.succ[v] \cap InScope(scope)
      PROVE  w \in F
  <2>1. w \in T
    <3>1. SUFFICES ASSUME w \notin T
                   PROVE  FALSE
      OBVIOUS
    <3>2. w \notin forward[v] /\ v \in Without(slice, w)
      BY <1>4, <3>1
    <3>. QED
      BY <1>1, <1>2, <1>4, <3>2, WithoutFacts
  <2>2. ASSUME NEW u \in InScope(scope) \ T
        PROVE  w \in Without(slice, u)
    BY <1>1, <1>4, <2>1, <2>2, WithoutFacts
  <2>. QED
    BY <2>1, <2>2
<1>5. F = InScope(scope)
  <2>1. F \in SUBSET InScope(scope) /\ EntryOf(scope) \in F
    BY <1>3
  <2>2. \A v \in F : slice.succ[v] \cap InScope(scope) \subseteq F
    BY <1>4
  <2>. HIDE DEF F
  <2>. QED
    BY <2>1, <2>2, ScopeReached
<1>. QED
  BY <1>5

LEMMA WalkOf ==
  ASSUME NEW scope, NEW p, Walk(scope, p)
  PROVE  /\ p \in Seq(InScope(scope)) /\ Len(p) \in Nat \ {0} /\ DOMAIN p = 1..Len(p)
         /\ \A k \in 1..Len(p) : p[k] \in InScope(scope)
BY EmptySeq, LenProperties, ElementOfSeq DEF Walk

LEMMA WalkSingle ==
  ASSUME NEW scope, NEW b \in InScope(scope)
  PROVE  Walk(scope, <<b>>) /\ Len(<<b>>) = 1 /\ <<b>>[1] = b
<1>1. \A S, x : x \in S => <<x>> \in Seq(S) /\ <<x>> # <<>> /\ Len(<<x>>) = 1 /\ <<x>>[1] = x
  OBVIOUS
<1>2. \A k : k \notin 2..1
  OBVIOUS
<1>. QED
  BY Zenon, <1>1, <1>2 DEF Walk

LEMMA WalkAppend ==
  ASSUME NEW scope, NEW p, Walk(scope, p), NEW b \in InScope(scope), b \in forward[p[Len(p)]]
  PROVE  /\ Walk(scope, Append(p, b)) /\ Append(p, b)[1] = p[1]
         /\ Len(Append(p, b)) = Len(p) + 1 /\ Append(p, b)[Len(p) + 1] = b
<1>. DEFINE S == InScope(scope)
            n == Len(p)
            q == Append(p, b)
<1>1. p \in Seq(S) /\ n \in Nat \ {0}
  BY WalkOf
<1>2. q \in Seq(S) /\ q # <<>> /\ Len(q) = n + 1 /\ (\A k \in 1..n : q[k] = p[k]) /\ q[n + 1] = b
  <2>. HIDE DEF S
  <2>. QED
    BY <1>1, AppendProperties DEF S
<1>3. ASSUME NEW k \in 2..(n + 1)
      PROVE  q[k] \in forward[q[k - 1]]
  <2>1. k - 1 \in 1..n /\ (k = n + 1 \/ k \in 2..n)
    BY <1>1
  <2>2. CASE k = n + 1
    BY <1>1, <1>2, <2>1, <2>2
  <2>3. CASE k \in 2..n
    <3>1. k \in 1..n /\ p[k] \in forward[p[k - 1]]
      BY <2>3 DEF Walk
    <3>. QED
      BY <1>2, <2>1, <3>1
  <2>. QED
    BY <2>1, <2>2, <2>3
<1>. HIDE DEF q, n
<1>. QED
  BY <1>1, <1>2, <1>3 DEF Walk, q, n

LEMMA WaysExist ==
  ASSUME Analysed, NEW scope \in Scopes, NEW b \in InScope(scope)
  PROVE  \E p : WayTo(scope, b, p)
<1>. DEFINE T == {c \in InScope(scope) : \E p : WayTo(scope, c, p)}
<1>1. EntryOf(scope) \in T
  <2>1. EntryOf(scope) \in InScope(scope)
    BY RootFacts DEF EntryOf
  <2>. QED
    BY <2>1, WalkSingle DEF WayTo
<1>2. ASSUME NEW v \in T, NEW w \in forward[v] \cap InScope(scope)
      PROVE  w \in T
  <2>1. PICK p : WayTo(scope, v, p)
    BY <1>2
  <2>2. Walk(scope, p) /\ p[1] = EntryOf(scope) /\ p[Len(p)] = v /\ w \in InScope(scope)
        /\ w \in forward[p[Len(p)]]
    BY <1>2, <2>1 DEF WayTo
  <2>. DEFINE q == Append(p, w)
  <2>3. Walk(scope, q) /\ q[1] = p[1] /\ Len(q) = Len(p) + 1 /\ q[Len(p) + 1] = w
    BY <2>2, WalkAppend
  <2>4. WayTo(scope, w, q)
    BY <2>2, <2>3 DEF WayTo
  <2>. QED
    BY <2>2, <2>4
<1>3. T = InScope(scope)
  <2>1. T \in SUBSET InScope(scope)
    OBVIOUS
  <2>. HIDE DEF T
  <2>. QED
    BY <1>1, <1>2, <2>1, ForwardReached
<1>. QED
  BY <1>3

(* From an item there is a block to go on from to each item it precedes.   *)
LEMMA LinkExists ==
  ASSUME Analysed, NEW scope \in Scopes, NEW i, NEW j, Precedes(scope, i, j)
  PROVE  \E b : Left(i, j, b)
<1>1. PICK x, y \in InScope(scope) :
         /\ j = Item(scope, x) /\ i = Item(scope, y)
         /\ y \in slice.nodes /\ x \in slice.succ[y]
         /\ \A h : j = Loop(h) => y \notin loops[h]
  BY PredFacts DEF Precedes
<1>2. CASE ~IsLoop(i)
  BY <1>2 DEF Left
<1>3. CASE IsLoop(i)
  <2>1. PICK k \in Around(scope, y) : i = Loop(k) /\ \A m \in Around(scope, y) : loops[m] \subseteq loops[k]
    BY <1>1, <1>3, ItemFacts, Tags
  <2>2. k \in DOMAIN loops /\ y \in loops[k] /\ loops[k] \subseteq InScope(scope) /\ k # scope
    BY <2>1 DEF Around
  <2>3. x \notin loops[k]
    <3>1. SUFFICES ASSUME x \in loops[k]
                   PROVE  FALSE
      OBVIOUS
    <3>2. k \in Around(scope, x)
      BY <2>2, <3>1 DEF Around
    <3>3. PICK h \in Around(scope, x) : j = Loop(h) /\ \A m \in Around(scope, x) : loops[m] \subseteq loops[h]
      BY <1>1, <3>2, ItemFacts
    <3>. QED
      BY <1>1, <2>2, <3>2, <3>3
  <2>4. y \in Exiting(k)
    BY <1>1, <2>2, <2>3 DEF Exiting
  <2>5. j[2] = x
    <3>1. CASE j = Block(x)
      BY <3>1, Tags
    <3>2. ASSUME NEW h \in Around(scope, x), j = Loop(h)
          PROVE  j[2] = x
      <4>1. y \notin loops[h] /\ x \in loops[h] /\ h \in DOMAIN loops
        BY <1>1, <3>2 DEF Around
      <4>. QED
        BY <1>1, <3>2, <4>1, EnteredAtHead, Tags
    <3>. QED
      BY <1>1, <3>1, <3>2, ItemFacts
  <2>. QED
    BY <1>1, <2>1, <2>4, <2>5, Tags DEF Left, IsLinked, Entrance
<1>. QED
  BY <1>2, <1>3

------------------------------------------------------------------------------
(* Items do not repeat. *)

LEMMA PartFacts ==
  ASSUME NEW S, NEW s \in Seq(S), NEW m \in 0..Len(s), NEW n \in m..Len(s)
  PROVE  /\ SubSeq(s, m + 1, n) \in Seq(S) /\ Len(SubSeq(s, m + 1, n)) = n - m
         /\ \A k \in 1..(n - m) : SubSeq(s, m + 1, n)[k] = s[m + k]
<1>1. Len(s) \in Nat /\ m \in Nat /\ n \in Nat /\ m <= n
  BY LenProperties
<1>2. \A k \in (m + 1)..n : s[k] \in S
  BY <1>1, ElementOfSeq
<1>3. m + 1 \in Int /\ n \in Int
  BY <1>1
<1>. DEFINE t == SubSeq(s, m + 1, n)
<1>4. /\ t \in Seq(S) /\ Len(t) = IF m + 1 <= n THEN (n - (m + 1)) + 1 ELSE 0
      /\ \A k \in 1..((n - (m + 1)) + 1) : t[k] = s[((m + 1) + k) - 1]
  BY <1>2, <1>3, SubSeqProperties
<1>. HIDE DEF t
<1>5. (n - (m + 1)) + 1 = n - m /\ (~(m + 1 <= n) => n - m = 0)
      /\ \A k \in 1..(n - m) : ((m + 1) + k) - 1 = m + k
  BY <1>1
<1>6. Len(t) = n - m /\ \A k \in 1..(n - m) : t[k] = s[m + k]
  BY <1>4, <1>5
<1>. QED
  BY <1>4, <1>6 DEF t

(* A search that ends has seen no item twice on a chain: otherwise there   *)
(* would be chains of any length.                                          *)
LEMMA ChainsRepeatNothing ==
  ASSUME StackLimit \in Nat, NEW scope, NEW item,
         \A w : ChainTo(scope, item, w) => Len(w) <= StackLimit,
         NEW w, ChainTo(scope, item, w),
         NEW i \in 1..Len(w), NEW j \in 1..Len(w), i < j
  PROVE  w[i] # w[j]
<1>. SUFFICES ASSUME w[i] = w[j]
              PROVE  FALSE
  OBVIOUS
<1>. DEFINE S == Condensed(scope).items
            N == {m \in Nat : \E c : /\ ChainTo(scope, item, c) /\ c[Len(c)] = w[i]
                                     /\ m = StackLimit - Len(c)}
<1>1. w \in Seq(S) /\ Len(w) \in Nat /\ i \in Nat /\ j \in Nat /\ j - i \in Nat
      /\ \A k \in 1..Len(w) : w[k] \in S
  BY LenProperties, ElementOfSeq DEF ChainTo
<1>2. N # {}
  <2>. DEFINE c == SubSeq(w, 0 + 1, i)
  <2>1. c \in Seq(S) /\ Len(c) = i /\ \A k \in 1..i : c[k] = w[k]
    <3>1. 0 \in 0..Len(w) /\ i \in 0..Len(w) /\ i - 0 = i /\ \A k \in 1..i : 0 + k = k
      BY <1>1
    <3>. HIDE DEF S
    <3>2. c \in Seq(S) /\ Len(c) = i - 0 /\ \A k \in 1..(i - 0) : c[k] = w[0 + k]
      BY <1>1, <3>1, PartFacts
    <3>. QED
      BY <3>1, <3>2
  <2>. HIDE DEF c, S
  <2>2. ASSUME NEW k \in 1..(i - 1)
        PROVE  Precedes(scope, c[k + 1], c[k])
    <3>1. k \in 1..i /\ k + 1 \in 1..i /\ k \in 1..(Len(w) - 1)
      BY <1>1
    <3>. QED
      BY <2>1, <3>1 DEF ChainTo
  <2>3. c # <<>> /\ c[1] = item
    BY <1>1, <2>1 DEF ChainTo
  <2>4. ChainTo(scope, item, c)
    BY <2>1, <2>2, <2>3 DEF ChainTo, S
  <2>5. StackLimit - Len(c) \in Nat /\ c[Len(c)] = w[i]
    <3>1. Len(c) <= StackLimit /\ i \in 1..i
      BY <1>1, <2>4
    <3>. QED
      BY <1>1, <2>1, <3>1
  <2>. QED
    BY <2>4, <2>5
<1>3. PICK m \in N : \A k \in N : m <= k
  <2>1. N \in SUBSET Nat
    OBVIOUS
  <2>. HIDE DEF N
  <2>. QED
    BY <1>2, <2>1, LeastExists
<1>4. PICK c : ChainTo(scope, item, c) /\ c[Len(c)] = w[i] /\ m = StackLimit - Len(c)
  OBVIOUS
<1>. DEFINE n == Len(c)
            e == SubSeq(w, i + 1, j)
            d == c \o e
<1>5. c \in Seq(S) /\ n \in Nat \ {0}
  BY <1>4, EmptySeq, LenProperties DEF ChainTo
<1>. HIDE DEF S, n
<1>6. e \in Seq(S) /\ Len(e) = j - i /\ \A k \in 1..(j - i) : e[k] = w[i + k]
  <2>1. i \in 0..Len(w) /\ j \in i..Len(w)
    BY <1>1
  <2>. QED
    BY <1>1, <2>1, PartFacts
<1>. HIDE DEF e
<1>7. /\ d \in Seq(S) /\ Len(d) = n + (j - i)
      /\ \A k \in 1..(n + (j - i)) : d[k] = IF k <= n THEN c[k] ELSE w[i + (k - n)]
  <2>1. /\ d \in Seq(S) /\ Len(d) = n + (j - i)
        /\ \A k \in 1..(n + (j - i)) : d[k] = IF k <= n THEN c[k] ELSE e[k - n]
    <3>1. /\ d \in Seq(S) /\ Len(d) = Len(c) + Len(e)
          /\ \A k \in 1..(Len(c) + Len(e)) : d[k] = IF k <= Len(c) THEN c[k] ELSE e[k - Len(c)]
      BY <1>5, <1>6, ConcatProperties
    <3>2. Len(c) = n /\ Len(e) = j - i
      BY <1>6 DEF n
    <3>. HIDE DEF d
    <3>. QED
      BY <3>1, <3>2
  <2>2. \A k \in 1..(n + (j - i)) : k <= n \/ k - n \in 1..(j - i)
    BY <1>1, <1>5
  <2>. QED
    BY <1>6, <2>1, <2>2
<1>. HIDE DEF d
<1>8. ASSUME NEW k \in 1..((n + (j - i)) - 1)
      PROVE  Precedes(scope, d[k + 1], d[k])
  <2>1. k \in 1..(n + (j - i)) /\ k + 1 \in 1..(n + (j - i))
    BY <1>1, <1>5
  <2>2. CASE k < n
    BY <1>4, <1>5, <1>7, <2>1, <2>2 DEF ChainTo, n
  <2>3. CASE k = n
    <3>1. d[k] = w[i] /\ d[k + 1] = w[i + 1] /\ i \in 1..(Len(w) - 1)
      BY <1>1, <1>4, <1>5, <1>7, <2>1, <2>3 DEF n
    <3>. QED
      BY <3>1 DEF ChainTo
  <2>4. CASE k > n
    <3>1. i + (k - n) \in 1..(Len(w) - 1) /\ i + ((k + 1) - n) = (i + (k - n)) + 1
      BY <1>1, <1>5, <2>1, <2>4
    <3>2. ~(k <= n) /\ ~(k + 1 <= n)
      BY <1>5, <2>1, <2>4
    <3>3. d[k] = w[i + (k - n)] /\ d[k + 1] = w[i + ((k + 1) - n)]
      BY <1>7, <2>1, <3>2
    <3>4. d[k] = w[i + (k - n)] /\ d[k + 1] = w[(i + (k - n)) + 1]
      BY <3>1, <3>3
    <3>. QED
      BY <3>1, <3>4 DEF ChainTo
  <2>. QED
    BY <1>5, <2>2, <2>3, <2>4
<1>9. ChainTo(scope, item, d)
  <2>1. 1 \in 1..(n + (j - i)) /\ 1 <= n
    BY <1>1, <1>5
  <2>2. d[1] = c[1] /\ c[1] = item
    BY <1>4, <1>7, <2>1 DEF ChainTo
  <2>3. d # <<>>
    BY <1>5, <1>7, <1>1
  <2>4. Len(d) = n + (j - i)
    BY <1>7
  <2>5. ASSUME NEW k \in 1..(Len(d) - 1)
        PROVE  Precedes(scope, d[k + 1], d[k])
    <3>1. Len(d) - 1 = (n + (j - i)) - 1
      BY Zenon, <2>4
    <3>2. k \in 1..((n + (j - i)) - 1)
      BY Zenon, <3>1
    <3>. QED
      BY <1>8, <3>2
  <2>. QED
    BY <1>7, <2>2, <2>3, <2>5 DEF ChainTo, S
<1>10. d[Len(d)] = w[i] /\ Len(d) <= StackLimit
  <2>1. Len(d) <= StackLimit
    BY <1>9
  <2>2. Len(d) \in 1..(n + (j - i)) /\ ~(Len(d) <= n) /\ i + (Len(d) - n) = j
    BY <1>1, <1>5, <1>7
  <2>3. d[Len(d)] = w[i + (Len(d) - n)]
    BY <1>7, <2>2
  <2>. QED
    BY <2>1, <2>2, <2>3
<1>11. StackLimit - Len(d) \in N /\ StackLimit - Len(d) < m
  <2>1. StackLimit - Len(d) \in Nat /\ StackLimit - Len(d) < StackLimit - n
    BY <1>1, <1>5, <1>7, <1>10
  <2>2. m = StackLimit - n
    BY <1>4 DEF n
  <2>. QED
    BY <1>9, <1>10, <2>1, <2>2
<1>12. \A k \in N : k \in Nat
  OBVIOUS
<1>. HIDE DEF N
<1>. QED
  BY <1>3, <1>11, <1>12

(* Forward edges lead from the head of an item to that of the next one.    *)
LEMMA HeadsFollow ==
  ASSUME Analysed, NEW scope \in Scopes, NEW i, NEW j, Precedes(scope, i, j)
  PROVE  /\ i[2] \in slice.nodes /\ j[2] \in slice.nodes
         /\ j[2] \in Closure(forward[i[2]], forward)
<1>. DEFINE h == i[2]
            C == Closure(forward[h], forward)
<1>1. PICK b : Left(i, j, b)
  BY LinkExists
<1>2. b \in InScope(scope) /\ j[2] \in InScope(scope) /\ j[2] \in forward[b]
  BY <1>1, StepForward DEF Precedes
<1>3. InScope(scope) \subseteq slice.nodes
  BY AnalysisFacts
<1>4. DOMAIN forward = slice.nodes /\ \A v \in slice.nodes : forward[v] \subseteq slice.nodes
  BY DEF Analysed, Sliced, ForwardEdges
<1>5. h \in slice.nodes => /\ \A v \in forward[h] : v \in C
                           /\ \A v \in C : \A u \in forward[v] : u \in C
  <2>1. ASSUME h \in slice.nodes, NEW v \in forward[h]
        PROVE  v \in C
    BY <1>4, <2>1 DEF Closure
  <2>2. ASSUME NEW v \in C, NEW u \in forward[v]
        PROVE  u \in C
    <3>1. v \in slice.nodes /\ u \in DOMAIN forward
      BY <1>4, <2>2 DEF Closure
    <3>. QED
      BY <2>2, <3>1 DEF Closure, Closed
  <2>. QED
    BY <2>1, <2>2
<1>6. CASE ~IsLoop(i)
  <2>1. b = h /\ h \in slice.nodes
    BY <1>1, <1>2, <1>3, <1>6 DEF Left
  <2>. QED
    BY <1>2, <1>3, <1>5, <2>1
<1>7. CASE IsLoop(i)
  <2>1. i \in Condensed(scope).items
    BY ItemsOf DEF Precedes
  <2>2. h \in DOMAIN loops /\ h \in slice.nodes /\ b \in loops[h]
    BY <1>1, <1>7, <2>1, ItemsOf, Tags, AnalysisFacts DEF Left, Exiting
  <2>. DEFINE T == {v \in loops[h] : v = h \/ v \in C}
  <2>3. h \in Scopes /\ InScope(h) = loops[h] /\ EntryOf(h) = h /\ h \in loops[h]
    BY <2>2, AnalysisFacts DEF Scopes, InScope, EntryOf
  <2>4. T = loops[h]
    <3>1. T \in SUBSET InScope(h) /\ EntryOf(h) \in T
      BY <2>3
    <3>2. \A v \in T : forward[v] \cap InScope(h) \subseteq T
      BY <1>5, <2>2, <2>3
    <3>. HIDE DEF T, C, h
    <3>. QED
      BY <2>3, <3>1, <3>2, ForwardReached
  <2>. QED
    BY <1>2, <1>3, <1>5, <2>2, <2>4
<1>. QED
  BY <1>6, <1>7

LEMMA HeadsAhead ==
  ASSUME Analysed, NEW scope \in Scopes, NEW item, NEW w, ChainTo(scope, item, w),
         NEW i \in 1..Len(w), NEW j \in 1..Len(w), i < j
  PROVE  w[i][2] \in Closure(forward[w[j][2]], forward)
<1>. DEFINE C(v) == Closure(forward[v], forward)
            bad == {k \in (i + 1)..Len(w) : w[i][2] \notin C(w[k][2])}
<1>1. Len(w) \in Nat
  BY LenProperties DEF ChainTo
<1>2. \A k \in 1..(Len(w) - 1) : w[k + 1][2] \in slice.nodes /\ w[k][2] \in C(w[k + 1][2])
  BY HeadsFollow DEF ChainTo
<1>3. ASSUME bad # {}
      PROVE  FALSE
  <2>1. PICK m \in bad : \A k \in bad : m <= k
    <3>1. bad \in SUBSET Nat
      BY <1>1
    <3>. HIDE DEF bad
    <3>. QED
      BY <1>3, <3>1, LeastExists
  <2>2. m \in (i + 1)..Len(w) /\ w[i][2] \notin C(w[m][2])
    OBVIOUS
  <2>3. m - 1 \in 1..(Len(w) - 1) /\ (m - 1) + 1 = m
    BY <1>1, <2>2
  <2>4. w[m - 1][2] \in C(w[m][2]) /\ w[m][2] \in slice.nodes
    BY <1>2, <2>3
  <2>5. w[i][2] \in C(w[m - 1][2])
    <3>1. m - 1 # i
      BY <2>2, <2>4
    <3>2. m - 1 \in (i + 1)..Len(w) /\ m - 1 \notin bad
      BY <1>1, <2>1, <2>2, <3>1
    <3>. QED
      BY <3>2
  <2>6. C(w[m][2]) \in SUBSET DOMAIN forward
    BY DEF Closure
  <2>7. Closed(C(w[m][2]), forward)
    <3>1. ASSUME NEW v \in C(w[m][2]), NEW u \in forward[v]
          PROVE  u \in C(w[m][2])
      <4>1. u \in DOMAIN forward
        BY <2>6, <3>1 DEF Analysed, Sliced, ForwardEdges
      <4>. QED
        BY <3>1, <4>1 DEF Closure, Closed
    <3>. QED
      BY <3>1 DEF Closed
  <2>8. forward[w[m - 1][2]] \subseteq C(w[m][2])
    BY <2>4, <2>7 DEF Closed
  <2>9. w[i][2] \in C(w[m][2])
    <3>. HIDE DEF C
    <3>1. \A T \in SUBSET DOMAIN forward :
            forward[w[m - 1][2]] \subseteq T /\ Closed(T, forward) => w[i][2] \in T
      BY <2>5 DEF C, Closure
    <3>. QED
      BY <2>6, <2>7, <2>8, <3>1
  <2>. QED
    BY <2>2, <2>9
<1>. QED
  BY <1>1, <1>3

(* In a reducible slice no chain is longer than there are blocks.          *)
LEMMA ChainsShort ==
  ASSUME Analysed, Reducible, NEW scope \in Scopes, NEW item, NEW w, ChainTo(scope, item, w)
  PROVE  Len(w) <= Cardinality(slice.nodes)
<1>. DEFINE f == [k \in 1..Len(w) |-> w[k][2]]
<1>1. Len(w) \in Nat /\ \A k \in 1..Len(w) : w[k] \in Condensed(scope).items
  BY LenProperties, ElementOfSeq DEF ChainTo
<1>2. \A k \in 1..Len(w) : w[k][2] \in slice.nodes
  <2>1. ASSUME NEW k \in Condensed(scope).items
        PROVE  k[2] \in slice.nodes
    BY ItemsOf, Tags, AnalysisFacts
  <2>. QED
    BY <1>1, <2>1
<1>3. ASSUME NEW i \in 1..Len(w), NEW j \in 1..Len(w), i < j, w[i][2] = w[j][2]
      PROVE  FALSE
  <2>1. w[i][2] \in Closure(forward[w[j][2]], forward)
    BY <1>3, HeadsAhead
  <2>. QED
    BY <1>2, <1>3, <2>1 DEF Reducible
<1>4. f \in Injection(1..Len(w), slice.nodes)
  <2>1. f \in [1..Len(w) -> slice.nodes]
    BY <1>2
  <2>2. \A i, j \in 1..Len(w) : f[i] = f[j] => i = j
    BY <1>1, <1>3
  <2>. HIDE DEF f
  <2>. QED
    BY <2>1, <2>2 DEF Injection, IsInjective
<1>. HIDE DEF f
<1>5. Cardinality(1..Len(w)) <= Cardinality(slice.nodes)
  <2>1. IsFiniteSet(slice.nodes)
    BY DEF Analysed, Sliced
  <2>. QED
    BY <1>4, <2>1, FS_Injection
<1>6. Cardinality(1..Len(w)) = Len(w)
  <2>1. Cardinality(1..Len(w)) = IF 1 > Len(w) THEN 0 ELSE Len(w) - 1 + 1
    BY <1>1, FS_Interval
  <2>. QED
    BY <1>1, <2>1
<1>. QED
  BY <1>5, <1>6

------------------------------------------------------------------------------
(* Every way through a scope is one that unrolling makes: it goes through  *)
(* the items of a trace, in each of them along a way within the item.      *)

Members(item) == IF IsLoop(item) THEN loops[item[2]] ELSE {item[2]}

LEMMA MemberItem ==
  ASSUME Analysed, NEW scope \in Scopes, NEW item \in Condensed(scope).items,
         NEW b \in Members(item)
  PROVE  b \in InScope(scope) /\ Item(scope, b) = item
<1>1. PICK x \in InScope(scope) : item = Item(scope, x)
  BY DEF Condensed
<1>2. CASE item = Block(x)
  BY <1>1, <1>2, Tags DEF Members
<1>3. ASSUME NEW h \in Around(scope, x), item = Loop(h),
             \A k \in Around(scope, x) : loops[k] \subseteq loops[h]
      PROVE  b \in InScope(scope) /\ Item(scope, b) = item
  <2>1. /\ b \in loops[h] /\ x \in loops[h] /\ h \in DOMAIN loops
        /\ h # scope /\ loops[h] \subseteq InScope(scope)
    BY <1>3, Tags DEF Members, Around
  <2>2. h \in Around(scope, b) /\ b \in InScope(scope)
    BY <2>1 DEF Around
  <2>3. PICK k \in Around(scope, b) :
           Item(scope, b) = Loop(k) /\ \A m \in Around(scope, b) : loops[m] \subseteq loops[k]
    BY <2>2, ItemFacts
  <2>4. loops[h] \subseteq loops[k]
    BY <2>2, <2>3
  <2>5. k \in Around(scope, x)
    BY <2>1, <2>3, <2>4 DEF Around
  <2>6. loops[k] \subseteq loops[h] /\ k \in DOMAIN loops
    BY <1>3, <2>5 DEF Around
  <2>7. h = k
    BY <2>1, <2>4, <2>6, AnalysisFacts, LoopsNested
  <2>. QED
    BY <1>3, <2>2, <2>3, <2>7
<1>. QED
  BY <1>1, <1>2, <1>3, ItemFacts

(* A forward edge leads neither to the entry of a scope nor to its start.  *)
LEMMA ForwardOn ==
  ASSUME Analysed, NEW scope \in Scopes, NEW a \in InScope(scope), NEW b \in forward[a]
  PROVE  /\ a \in slice.nodes /\ b \in slice.nodes /\ b \in slice.succ[a]
         /\ b # EntryOf(scope) /\ b # a
         /\ b \in DOMAIN loops => a \notin loops[b]
<1>1. a \in slice.nodes /\ Sliced(slice)
  BY AnalysisFacts DEF Analysed
<1>2. b \in slice.succ[a] /\ b \in slice.nodes /\ ~Dominates(slice, b, a)
  BY <1>1 DEF Analysed, Sliced, ForwardEdges
<1>3. \A h \in DOMAIN loops : \A c \in loops[h] : Dominates(slice, h, c)
  <2>1. ASSUME NEW h \in DOMAIN loops, NEW c \in loops[h]
        PROVE  Dominates(slice, h, c)
    <3>1. h \in slice.nodes /\ c \in NaturalLoop(slice, h)
      BY <2>1, AnalysisFacts
    <3>. QED
      BY <1>1, <3>1, LoopFacts
  <2>. QED
    BY <2>1
<1>4. b # EntryOf(scope)
  <2>1. CASE scope = Null
    <3>1. SUFFICES ASSUME b = slice.entry
                   PROVE  FALSE
      BY <2>1 DEF EntryOf
    <3>2. PICK T : T = {}
      OBVIOUS
    <3>3. /\ T \in SUBSET slice.nodes /\ (slice.entry # b => slice.entry \in T)
          /\ \A v \in T : \A w \in slice.succ[v] : w # b => w \in T
      BY <3>1, <3>2
    <3>4. Without(slice, b) \subseteq T
      BY <1>1, <1>2, <3>3, WithoutLeast
    <3>. QED
      BY <1>1, <1>2, <3>2, <3>4, WithoutFacts
  <2>2. CASE scope # Null
    BY <1>2, <1>3, <2>2 DEF EntryOf, InScope, Scopes
  <2>. QED
    BY <2>1, <2>2
<1>5. b # a
  BY <1>1, <1>2, WithoutFacts
<1>. QED
  BY <1>1, <1>2, <1>3, <1>4, <1>5

(* A forward edge stays within a loop item, or leads on to the head of     *)
(* another item.                                                           *)
LEMMA ForwardItems ==
  ASSUME Analysed, NEW scope \in Scopes, NEW a \in InScope(scope), NEW b \in InScope(scope),
         b \in forward[a]
  PROVE  \/ /\ IsLoop(Item(scope, a)) /\ Item(scope, b) = Item(scope, a)
            /\ b \in loops[Item(scope, a)[2]]
         \/ /\ Precedes(scope, Item(scope, a), Item(scope, b))
            /\ Left(Item(scope, a), Item(scope, b), a)
            /\ Item(scope, b)[2] = b
<1>. DEFINE i == Item(scope, a)
            j == Item(scope, b)
<1>1. /\ a \in slice.nodes /\ b \in slice.nodes /\ b \in slice.succ[a]
      /\ b # EntryOf(scope) /\ b # a
      /\ b \in DOMAIN loops => a \notin loops[b]
  BY ForwardOn
<1>2. i \in Condensed(scope).items /\ j \in Condensed(scope).items
  BY ItemsOf
<1>3. CASE i = j
  <2>1. i # Block(a)
    BY <1>1, <1>3, ItemFacts, Tags
  <2>2. PICK h \in Around(scope, b) : j = Loop(h)
    BY <1>3, <2>1, ItemFacts, Tags
  <2>. QED
    BY <1>3, <2>2, Tags DEF Around
<1>4. CASE i # j
  <2>1. ASSUME NEW h \in Around(scope, b), j = Loop(h)
        PROVE  a \notin loops[h] /\ b = h
    <3>1. h \in DOMAIN loops /\ b \in loops[h]
      BY <2>1 DEF Around
    <3>2. a \notin loops[h]
      BY <1>2, <1>4, <2>1, <3>1, MemberItem, Tags DEF Members
    <3>. QED
      BY <1>1, <3>1, <3>2, EnteredAtHead
  <2>2. j[2] = b
    BY <2>1, ItemFacts, Tags
  <2>3. j # Condensed(scope).root
    BY <1>1, <2>2, RootFacts DEF EntryOf
  <2>4. <<j, i>> \in Condensed(scope).preds
    <3>. DEFINE back == {e \in slice.nodes \X slice.nodes : e[1] \in slice.succ[e[2]]}
                e == <<b, a>>
    <3>1. e \in back /\ e[1] = b /\ e[2] = a /\ {e[1], e[2]} \subseteq InScope(scope)
      BY <1>1
    <3>2. OuterLoopInScope(scope, b) # Null => a \notin loops[OuterLoopInScope(scope, b)]
      <4>1. PICK h : h = OuterLoopInScope(scope, b)
        OBVIOUS
      <4>2. h # Null => h \in Around(scope, b) /\ j = Loop(h)
        BY <4>1, OuterLoopFacts DEF Item
      <4>. QED
        BY <2>1, <4>1, <4>2
    <3>. HIDE DEF back, e
    <3>3. <<Item(scope, e[1]), Item(scope, e[2])>> \in Edges(scope, back)
      BY <3>1, <3>2 DEF Edges
    <3>. QED
      BY <3>1, <3>3 DEF Condensed, back
  <2>5. Left(i, j, a)
    <3>1. CASE i = Block(a)
      BY <3>1, Tags DEF Left
    <3>2. ASSUME NEW k \in Around(scope, a), i = Loop(k)
          PROVE  Left(i, j, a)
      <4>1. k \in DOMAIN loops /\ a \in loops[k]
        BY <3>2 DEF Around
      <4>2. b \notin loops[k]
        BY <1>2, <1>4, <3>2, MemberItem, Tags DEF Members
      <4>3. a \in Exiting(k)
        BY <1>1, <4>1, <4>2 DEF Exiting
      <4>. QED
        BY <1>1, <2>2, <3>2, <4>3, Tags DEF Left, IsLinked, Entrance
    <3>. QED
      BY <3>1, <3>2, ItemFacts
  <2>. QED
    BY <2>2, <2>3, <2>4, <2>5 DEF Precedes
<1>. QED
  BY <1>3, <1>4

(* In block l a trace is left at position j: for the next item, or for     *)
(* good in block b.                                                        *)
LeftAt(t, b, j, l) == IF j < Len(t) THEN Left(t[j], t[j + 1], l) ELSE l = b

(* A way within an item, from its head to block l.                         *)
Within(item, l, q) == IF IsLoop(item) THEN WayTo(item[2], l, q)
                                      ELSE l = item[2] /\ q = <<l>>

(* The ways through the first items of a trace, each one part longer than  *)
(* the one before.                                                         *)
Split(scope, b, t, parts, ways) ==
  /\ TraceTo(scope, Item(scope, b), t)
  /\ ways[0] = <<>>
  /\ \A j \in 1..Len(t) :
       /\ ways[j] = ways[j - 1] \o parts[j]
       /\ \E l : LeftAt(t, b, j, l) /\ Within(t[j], l, parts[j])

Splits(scope, b, p) ==
  \E t, parts, ways : Split(scope, b, t, parts, ways) /\ ways[Len(t)] = p

LEMMA TraceItems ==
  ASSUME NEW scope, NEW item, NEW t, TraceTo(scope, item, t)
  PROVE  /\ t \in Seq(Condensed(scope).items) /\ Len(t) \in Nat \ {0} /\ DOMAIN t = 1..Len(t)
         /\ t[Len(t)] = item /\ \A j \in 1..Len(t) : t[j] \in Condensed(scope).items
BY EmptySeq, LenProperties, ElementOfSeq DEF TraceTo

LEMMA WithinFacts ==
  ASSUME Analysed, NEW scope \in Scopes, NEW item \in Condensed(scope).items,
         NEW l, NEW q, Within(item, l, q)
  PROVE  /\ Walk(scope, q) /\ q[1] = item[2] /\ q[Len(q)] = l
         /\ \A k \in 1..Len(q) : q[k] \in Members(item)
<1>1. \A b \in Members(item) : b \in InScope(scope)
  BY MemberItem
<1>2. CASE IsLoop(item)
  <2>1. PICK h \in DOMAIN loops : item = Loop(h)
    BY <1>2, ItemsOf, Tags
  <2>2. item[2] = h /\ InScope(h) = loops[h] /\ EntryOf(h) = h /\ Members(item) = loops[h]
    BY <1>2, <2>1, AnalysisFacts, Tags DEF InScope, EntryOf, Members
  <2>3. Walk(h, q) /\ q[1] = h /\ q[Len(q)] = l
    BY <1>2, <2>2 DEF Within, WayTo
  <2>4. q \in Seq(loops[h]) /\ Len(q) \in Nat /\ \A k \in 1..Len(q) : q[k] \in loops[h]
    BY <2>2, <2>3, WalkOf
  <2>5. q \in Seq(InScope(scope))
    BY <1>1, <2>2, <2>4
  <2>. QED
    BY <2>2, <2>3, <2>4, <2>5 DEF Walk
<1>3. CASE ~IsLoop(item)
  <2>1. q = <<l>> /\ l = item[2] /\ l \in Members(item) /\ l \in InScope(scope)
    BY <1>1, <1>3 DEF Within, Members
  <2>2. Walk(scope, q) /\ Len(q) = 1 /\ q[1] = l
    BY <2>1, WalkSingle
  <2>3. \A k \in 1..1 : k = 1
    OBVIOUS
  <2>. QED
    BY <2>1, <2>2, <2>3
<1>. QED
  BY <1>2, <1>3

LEMMA HeadWithin ==
  ASSUME Analysed, NEW scope \in Scopes, NEW item \in Condensed(scope).items
  PROVE  Within(item, item[2], <<item[2]>>)
<1>1. CASE IsLoop(item)
  <2>1. PICK h \in DOMAIN loops : item = Loop(h)
    BY <1>1, ItemsOf, Tags
  <2>2. item[2] = h /\ InScope(h) = loops[h] /\ EntryOf(h) = h /\ h \in loops[h]
    BY <1>1, <2>1, AnalysisFacts, Tags DEF InScope, EntryOf
  <2>3. Walk(h, <<h>>) /\ Len(<<h>>) = 1 /\ <<h>>[1] = h
    BY <2>2, WalkSingle
  <2>4. WayTo(h, h, <<h>>)
    BY <2>2, <2>3 DEF WayTo
  <2>. QED
    BY <1>1, <2>2, <2>4 DEF Within
<1>2. CASE ~IsLoop(item)
  BY <1>2 DEF Within
<1>. QED
  BY <1>1, <1>2

(* The parts and the ways are sequences of blocks.                         *)
LEMMA SplitFacts ==
  ASSUME Analysed, NEW scope \in Scopes, NEW b, NEW t, NEW parts, NEW ways,
         Split(scope, b, t, parts, ways)
  PROVE  /\ \A j \in 1..Len(t) : /\ Walk(scope, parts[j]) /\ parts[j][1] = t[j][2]
                                 /\ \A k \in 1..Len(parts[j]) : parts[j][k] \in Members(t[j])
         /\ \A j \in 0..Len(t) : ways[j] \in Seq(InScope(scope))
<1>. DEFINE n == Len(t)
            S == InScope(scope)
            bad == {j \in 0..n : ways[j] \notin Seq(S)}
<1>1. n \in Nat \ {0} /\ \A j \in 1..n : t[j] \in Condensed(scope).items
  BY TraceItems DEF Split
<1>2. ASSUME NEW j \in 1..n
      PROVE  /\ Walk(scope, parts[j]) /\ parts[j][1] = t[j][2]
             /\ \A k \in 1..Len(parts[j]) : parts[j][k] \in Members(t[j])
  <2>1. PICK l : Within(t[j], l, parts[j])
    BY DEF Split
  <2>. QED
    BY <1>1, <2>1, WithinFacts
<1>3. ASSUME bad # {}
      PROVE  FALSE
  <2>1. PICK m \in bad : \A k \in bad : m <= k
    <3>1. bad \in SUBSET Nat
      OBVIOUS
    <3>. HIDE DEF bad
    <3>. QED
      BY <1>3, <3>1, LeastExists
  <2>2. m \in 0..n /\ ways[m] \notin Seq(S)
    OBVIOUS
  <2>3. m # 0
    <3>1. <<>> \in Seq(S)
      OBVIOUS
    <3>. QED
      BY <2>2, <3>1 DEF Split
  <2>4. m - 1 \in 0..n /\ m \in 1..n /\ m - 1 \notin bad
    BY <1>1, <2>1, <2>2, <2>3
  <2>5. ways[m - 1] \in Seq(S) /\ parts[m] \in Seq(S)
    BY <1>2, <2>4 DEF Walk
  <2>6. ways[m] = ways[m - 1] \o parts[m]
    BY <2>4 DEF Split
  <2>. HIDE DEF S
  <2>. QED
    BY <2>2, <2>5, <2>6, ConcatProperties
<1>. QED
  BY <1>2, <1>3

LEMMA AppendJoins ==
  ASSUME NEW S, NEW p \in Seq(S), NEW q \in Seq(S), NEW x \in S
  PROVE  Append(p \o q, x) = p \o Append(q, x)
<1>1. p \o q \in Seq(S) /\ <<x>> \in Seq(S)
  BY ConcatProperties
<1>2. Append(p \o q, x) = (p \o q) \o <<x>> /\ Append(q, x) = q \o <<x>>
  BY <1>1, AppendIsConcat
<1>3. (p \o q) \o <<x>> = p \o (q \o <<x>>)
  BY <1>1, ConcatAssociative
<1>. QED
  BY Zenon, <1>2, <1>3

LEMMA SplitStarts ==
  ASSUME Analysed, NEW scope \in Scopes, NEW e, e = EntryOf(scope)
  PROVE  Splits(scope, e, <<e>>)
<1>. DEFINE items == Condensed(scope).items
            root == Item(scope, e)
            t == <<root>>
            parts == [j \in {1} |-> <<e>>]
            ways == [j \in 0..1 |-> IF j = 0 THEN <<>> ELSE <<e>>]
<1>1. root = Condensed(scope).root /\ root \in items /\ root[2] = e
  BY RootFacts, ItemsOf DEF EntryOf
<1>2. TraceTo(scope, root, t) /\ Len(t) = 1 /\ t[1] = root
  <2>. HIDE DEF root, items
  <2>1. t \in Seq(items) /\ t # <<>> /\ Len(t) = 1 /\ t[1] = root
    BY <1>1
  <2>2. \A k : k \notin 1..(1 - 1)
    OBVIOUS
  <2>. HIDE DEF t
  <2>. QED
    BY <1>1, <2>1, <2>2 DEF TraceTo, items
<1>3. Within(root, e, <<e>>)
  <2>. HIDE DEF root
  <2>. QED
    BY <1>1, HeadWithin DEF items
<1>4. parts[1] = <<e>> /\ ways[0] = <<>> /\ ways[1] = <<e>>
  OBVIOUS
<1>5. <<e>> = <<>> \o <<e>>
  OBVIOUS
<1>6. ASSUME NEW j \in 1..1
      PROVE  /\ ways[j] = ways[j - 1] \o parts[j]
             /\ LeftAt(t, e, j, e) /\ Within(t[j], e, parts[j])
  <2>1. j = 1 /\ j - 1 = 0 /\ ~(j < 1)
    OBVIOUS
  <2>2. LeftAt(t, e, j, e)
    BY <1>2, <2>1 DEF LeftAt
  <2>. HIDE DEF root, t, parts, ways
  <2>. QED
    BY <1>2, <1>3, <1>4, <1>5, <2>1, <2>2
<1>. HIDE DEF t, parts, ways
<1>7. Split(scope, e, t, parts, ways)
  BY <1>2, <1>4, <1>6 DEF Split
<1>. QED
  BY <1>2, <1>4, <1>7 DEF Splits

(* Within a loop the last part is one block longer.                        *)
LEMMA SplitStays ==
  ASSUME Analysed, NEW scope \in Scopes, NEW c, NEW p, Splits(scope, c, p),
         NEW a, a \in forward[c], IsLoop(Item(scope, c)), Item(scope, a) = Item(scope, c),
         a \in loops[Item(scope, c)[2]], c \in InScope(scope), a \in InScope(scope)
  PROVE  Splits(scope, a, Append(p, a))
<1>1. PICK t, parts, ways : Split(scope, c, t, parts, ways) /\ ways[Len(t)] = p
  BY DEF Splits
<1>. DEFINE n == Len(t)
            S == InScope(scope)
            parts2 == [j \in 1..n |-> IF j = n THEN Append(parts[n], a) ELSE parts[j]]
            ways2 == [j \in 0..n |-> IF j = n THEN Append(ways[n], a) ELSE ways[j]]
<1>2. /\ n \in Nat \ {0} /\ t[n] = Item(scope, c) /\ t[n] \in Condensed(scope).items
      /\ TraceTo(scope, Item(scope, a), t)
  BY <1>1, TraceItems DEF Split
<1>3. /\ ways[n - 1] \in Seq(S) /\ parts[n] \in Seq(S) /\ ways[n] = ways[n - 1] \o parts[n]
  <2>1. n \in 1..n /\ n - 1 \in 0..n
    BY <1>2
  <2>2. Walk(scope, parts[n]) /\ ways[n - 1] \in Seq(S)
    BY <1>1, <2>1, SplitFacts
  <2>3. ways[n] = ways[n - 1] \o parts[n]
    BY <1>1, <2>1 DEF Split
  <2>. QED
    BY <2>2, <2>3 DEF Walk
<1>4. Within(t[n], c, parts[n])
  <2>1. n \in 1..n /\ ~(n < n)
    BY <1>2
  <2>2. PICK l : LeftAt(t, c, n, l) /\ Within(t[n], l, parts[n])
    BY <1>1, <2>1 DEF Split
  <2>. QED
    BY <2>1, <2>2 DEF LeftAt
<1>5. Within(t[n], a, Append(parts[n], a))
  <2>1. PICK h \in DOMAIN loops : t[n] = Loop(h)
    BY <1>2, ItemsOf, Tags
  <2>2. IsLoop(t[n]) /\ t[n][2] = h /\ InScope(h) = loops[h] /\ a \in loops[h]
    BY <1>2, <2>1, AnalysisFacts, Tags DEF InScope
  <2>3. Walk(h, parts[n]) /\ parts[n][1] = EntryOf(h) /\ parts[n][Len(parts[n])] = c
    BY <1>4, <2>2 DEF Within, WayTo
  <2>. DEFINE q == Append(parts[n], a)
  <2>4. Walk(h, q) /\ q[1] = parts[n][1] /\ Len(q) = Len(parts[n]) + 1 /\ q[Len(parts[n]) + 1] = a
    BY <2>2, <2>3, WalkAppend
  <2>. HIDE DEF q
  <2>5. WayTo(h, a, q)
    BY <2>3, <2>4 DEF WayTo
  <2>6. Within(t[n], a, q)
    BY <2>2, <2>5 DEF Within
  <2>. QED
    BY <2>6 DEF q
<1>6. Append(ways[n], a) = ways[n - 1] \o Append(parts[n], a)
  <2>. HIDE DEF S, n
  <2>1. a \in S
    BY DEF S
  <2>2. PICK u \in Seq(S), q \in Seq(S) : u = ways[n - 1] /\ q = parts[n]
    BY <1>3
  <2>3. Append(u \o q, a) = u \o Append(q, a)
    BY <2>1, AppendJoins
  <2>. QED
    BY Zenon, <1>3, <2>2, <2>3
<1>7. /\ \A j \in 1..n : parts2[j] = IF j = n THEN Append(parts[n], a) ELSE parts[j]
      /\ \A j \in 0..n : ways2[j] = IF j = n THEN Append(ways[n], a) ELSE ways[j]
  OBVIOUS
<1>. HIDE DEF parts2, ways2, n
<1>8. ASSUME NEW j \in 1..n
      PROVE  /\ ways2[j] = ways2[j - 1] \o parts2[j]
             /\ \E l : LeftAt(t, a, j, l) /\ Within(t[j], l, parts2[j])
  <2>1. j \in 0..n /\ j - 1 \in 0..n /\ j - 1 # n
    BY <1>2
  <2>2. CASE j = n
    <3>1. ways2[j - 1] = ways[n - 1] /\ ways2[j] = Append(ways[n], a) /\ parts2[j] = Append(parts[n], a)
      BY <1>7, <2>1, <2>2
    <3>2. LeftAt(t, a, n, a)
      BY <1>2 DEF LeftAt, n
    <3>. QED
      BY Zenon, <1>5, <1>6, <2>2, <3>1, <3>2
  <2>3. CASE j # n
    <3>1. ways2[j - 1] = ways[j - 1] /\ ways2[j] = ways[j] /\ parts2[j] = parts[j] /\ j < n
      BY <1>2, <1>7, <2>1, <2>3
    <3>2. \A l : LeftAt(t, a, j, l) <=> LeftAt(t, c, j, l)
      BY <3>1 DEF LeftAt, n
    <3>. QED
      BY <1>1, <3>1, <3>2 DEF Split, n
  <2>. QED
    BY <2>2, <2>3
<1>9. Split(scope, a, t, parts2, ways2)
  <2>1. ways2[0] = <<>>
    <3>1. 0 \in 0..n /\ n # 0
      BY <1>2
    <3>. QED
      BY <1>1, <1>7, <3>1 DEF Split
  <2>. QED
    BY <1>2, <1>8, <2>1 DEF Split, n
<1>10. ways2[n] = Append(p, a)
  <2>1. n \in 0..n
    BY <1>2
  <2>. QED
    BY <1>1, <1>7, <2>1 DEF n
<1>. QED
  BY <1>9, <1>10 DEF Splits, n

(* From one item to the next the trace is one item longer.                 *)
LEMMA SplitGoesOn ==
  ASSUME Analysed, NEW scope \in Scopes, NEW c, NEW p, Splits(scope, c, p),
         NEW a, a \in InScope(scope), Item(scope, a)[2] = a,
         Precedes(scope, Item(scope, c), Item(scope, a)),
         Left(Item(scope, c), Item(scope, a), c)
  PROVE  Splits(scope, a, Append(p, a))
<1>1. PICK t, parts, ways : Split(scope, c, t, parts, ways) /\ ways[Len(t)] = p
  BY DEF Splits
<1>. DEFINE n == Len(t)
            S == InScope(scope)
            items == Condensed(scope).items
            item == Item(scope, a)
            t2 == Append(t, item)
            parts2 == [j \in 1..(n + 1) |-> IF j = n + 1 THEN <<a>> ELSE parts[j]]
            ways2 == [j \in 0..(n + 1) |-> IF j = n + 1 THEN Append(ways[n], a) ELSE ways[j]]
<1>2. /\ n \in Nat \ {0} /\ t \in Seq(items) /\ t[n] = Item(scope, c) /\ item \in items
      /\ TraceTo(scope, Item(scope, c), t)
  BY <1>1, TraceItems, ItemsOf DEF Split
<1>3. /\ t2 \in Seq(items) /\ t2 # <<>> /\ Len(t2) = n + 1 /\ t2[n + 1] = item
      /\ \A j \in 1..n : t2[j] = t[j]
  <2>. HIDE DEF items, item
  <2>. QED
    BY <1>2, AppendProperties
<1>4. ways[n] \in Seq(S) /\ a \in S
  <2>1. n \in 0..n
    BY <1>2
  <2>. QED
    BY <1>1, <2>1, SplitFacts
<1>5. Append(ways[n], a) = ways[n] \o <<a>>
  <2>. HIDE DEF S
  <2>. QED
    BY <1>4, AppendIsConcat
<1>6. Within(item, a, <<a>>)
  <2>1. Within(item, item[2], <<item[2]>>)
    <3>. HIDE DEF item
    <3>. QED
      BY <1>2, HeadWithin
  <2>. QED
    BY <2>1
<1>7. /\ \A j \in 1..(n + 1) : parts2[j] = IF j = n + 1 THEN <<a>> ELSE parts[j]
      /\ \A j \in 0..(n + 1) : ways2[j] = IF j = n + 1 THEN Append(ways[n], a) ELSE ways[j]
  OBVIOUS
<1>. HIDE DEF parts2, ways2, n, t2, item, items, S
<1>8. TraceTo(scope, item, t2)
  <2>1. ASSUME NEW k \in 1..((n + 1) - 1)
        PROVE  Precedes(scope, t2[k], t2[k + 1])
    <3>1. k \in 1..n /\ (k = n \/ k \in 1..(n - 1))
      BY <1>2
    <3>2. CASE k = n
      BY <1>2, <1>3, <3>1, <3>2 DEF item
    <3>3. CASE k \in 1..(n - 1)
      <4>1. k + 1 \in 1..n /\ Precedes(scope, t[k], t[k + 1])
        BY <1>2, <3>3 DEF TraceTo, n
      <4>. QED
        BY <1>3, <3>1, <4>1
    <3>. QED
      BY <3>1, <3>2, <3>3
  <2>2. t2[1] = Condensed(scope).root
    <3>1. 1 \in 1..n /\ t[1] = Condensed(scope).root
      BY <1>2 DEF TraceTo
    <3>. QED
      BY <1>3, <3>1
  <2>. QED
    BY <1>3, <2>1, <2>2 DEF TraceTo, items
<1>9. ASSUME NEW j \in 1..(n + 1)
      PROVE  /\ ways2[j] = ways2[j - 1] \o parts2[j]
             /\ \E l : LeftAt(t2, a, j, l) /\ Within(t2[j], l, parts2[j])
  <2>1. j \in 0..(n + 1) /\ j - 1 \in 0..(n + 1) /\ j - 1 # n + 1 /\ n # n + 1
    BY <1>2
  <2>2. CASE j = n + 1
    <3>1. j - 1 = n /\ ~(j < n + 1)
      BY <1>2, <2>2
    <3>2. ways2[j - 1] = ways[n] /\ ways2[j] = Append(ways[n], a) /\ parts2[j] = <<a>>
      BY <1>7, <2>1, <2>2, <3>1
    <3>3. LeftAt(t2, a, j, a) /\ t2[j] = item
      BY <1>3, <2>2, <3>1 DEF LeftAt
    <3>. QED
      BY Zenon, <1>5, <1>6, <3>2, <3>3
  <2>3. CASE j # n + 1
    <3>1. j \in 1..n /\ j < n + 1
      BY <1>2, <2>3
    <3>2. ways2[j - 1] = ways[j - 1] /\ ways2[j] = ways[j] /\ parts2[j] = parts[j] /\ t2[j] = t[j]
      BY <1>3, <1>7, <2>1, <2>3, <3>1
    <3>3. PICK l : LeftAt(t, c, j, l) /\ Within(t[j], l, parts[j])
      BY <1>1, <3>1 DEF Split, n
    <3>4. LeftAt(t2, a, j, l)
      <4>1. CASE j < n
        <5>1. j + 1 \in 1..n
          BY <1>2, <4>1, <3>1
        <5>. QED
          BY <1>3, <3>1, <3>2, <3>3, <4>1, <5>1 DEF LeftAt, n
      <4>2. CASE ~(j < n)
        <5>1. j = n
          BY <1>2, <3>1, <4>2
        <5>2. l = c /\ t2[j] = Item(scope, c) /\ t2[j + 1] = item
          BY <1>2, <1>3, <3>2, <3>3, <4>2, <5>1 DEF LeftAt, n
        <5>. QED
          BY <1>3, <3>1, <5>2 DEF LeftAt, item
      <4>. QED
        BY <4>1, <4>2
    <3>5. ways[j] = ways[j - 1] \o parts[j]
      BY <1>1, <3>1 DEF Split, n
    <3>. QED
      BY Zenon, <3>2, <3>3, <3>4, <3>5
  <2>. QED
    BY <2>2, <2>3
<1>10. Split(scope, a, t2, parts2, ways2)
  <2>1. ways2[0] = <<>>
    <3>1. 0 \in 0..(n + 1) /\ n + 1 # 0
      BY <1>2
    <3>. QED
      BY <1>1, <1>7, <3>1 DEF Split
  <2>. QED
    BY <1>3, <1>8, <1>9, <2>1 DEF Split, item
<1>11. ways2[n + 1] = Append(p, a)
  <2>1. n + 1 \in 0..(n + 1)
    BY <1>2
  <2>. QED
    BY <1>1, <1>7, <2>1 DEF n
<1>. QED
  BY <1>3, <1>10, <1>11 DEF Splits

LEMMA SplitExists ==
  ASSUME Analysed, NEW scope \in Scopes, NEW b, NEW p, WayTo(scope, b, p)
  PROVE  Splits(scope, b, p)
<1>. DEFINE S == InScope(scope)
            N == {n \in Nat : \E a, w : WayTo(scope, a, w) /\ Len(w) = n /\ ~Splits(scope, a, w)}
<1>1. ASSUME N # {}
      PROVE  FALSE
  <2>1. PICK m \in N : \A k \in N : m <= k
    <3>1. N \in SUBSET Nat
      OBVIOUS
    <3>. HIDE DEF N
    <3>. QED
      BY <1>1, <3>1, LeastExists
  <2>2. PICK a, w : WayTo(scope, a, w) /\ Len(w) = m /\ ~Splits(scope, a, w)
    OBVIOUS
  <2>3. /\ w \in Seq(S) /\ w # <<>> /\ m \in Nat \ {0} /\ w[1] = EntryOf(scope) /\ w[m] = a
        /\ \A k \in 1..m : w[k] \in S
        /\ \A k \in 2..m : w[k] \in forward[w[k - 1]]
    BY <2>2, WalkOf DEF WayTo, Walk
  <2>4. PICK v \in Seq(S), x \in S : w = Append(v, x)
    <3>. HIDE DEF S
    <3>. QED
      BY <2>3, SequenceEmptyOrAppend
  <2>5. /\ m = Len(v) + 1 /\ w[m] = x /\ Len(v) \in Nat
        /\ \A k \in 1..Len(v) : w[k] = v[k]
    <3>. HIDE DEF S
    <3>. QED
      BY <2>2, <2>4, AppendProperties, LenProperties
  <2>6. CASE m = 1
    <3>1. v = <<>> /\ a = EntryOf(scope) /\ x = a
      BY <2>3, <2>5, <2>6, EmptySeq
    <3>2. w = <<a>>
      BY <2>4, <3>1
    <3>. QED
      BY <2>2, <3>1, <3>2, SplitStarts
  <2>7. CASE m # 1
    <3>. DEFINE c == v[Len(v)]
    <3>1. m - 1 \in Nat \ {0} /\ Len(v) = m - 1 /\ m - 1 \in 1..m /\ 1 \in 1..(m - 1) /\ m \in 2..m
      BY <2>3, <2>5, <2>7
    <3>2. c \in S /\ c = w[m - 1] /\ x = a /\ a \in forward[c] /\ v[1] = EntryOf(scope) /\ a \in S
      <4>1. w[m] \in forward[w[m - 1]] /\ w[m - 1] = v[m - 1] /\ w[1] = v[1]
        BY <2>3, <2>5, <3>1
      <4>. QED
        BY <2>3, <2>5, <3>1, <4>1
    <3>3. \A k \in 2..Len(v) : v[k] \in forward[v[k - 1]]
      <4>1. \A k \in 2..Len(v) : k \in 2..m /\ k \in 1..Len(v) /\ k - 1 \in 1..Len(v)
        BY <3>1
      <4>. QED
        BY <2>3, <2>5, <4>1
    <3>4. WayTo(scope, c, v)
      <4>1. v # <<>>
        BY <3>1
      <4>. QED
        BY <2>4, <3>2, <3>3, <4>1 DEF WayTo, Walk
    <3>5. Splits(scope, c, v)
      <4>1. m - 1 \notin N
        BY <2>1, <2>3, <3>1
      <4>. HIDE DEF c
      <4>. QED
        BY <3>1, <3>4, <4>1
    <3>. HIDE DEF c, N
    <3>6. Splits(scope, a, Append(v, a))
      BY <3>2, <3>5, ForwardItems, SplitStays, SplitGoesOn
    <3>. QED
      BY <2>2, <2>4, <3>2, <3>6
  <2>. QED
    BY <2>6, <2>7
<1>2. Len(p) \in Nat
  BY WalkOf DEF WayTo
<1>. QED
  BY <1>1, <1>2

------------------------------------------------------------------------------
(* Ways without repetition. *)

Distinct(p) == \A i, j \in 1..Len(p) : p[i] = p[j] => i = j

LEMMA JoinDistinct ==
  ASSUME NEW S, NEW p \in Seq(S), NEW q \in Seq(S), Distinct(p), Distinct(q),
         \A i \in 1..Len(p) : \A j \in 1..Len(q) : p[i] # q[j],
         NEW r, Joint(p, q, r)
  PROVE  /\ Distinct(r)
         /\ \A k \in 1..Len(r) : \/ \E i \in 1..Len(p) : r[k] = p[i]
                                 \/ \E i \in 1..Len(q) : r[k] = q[i]
<1>. DEFINE m == Len(p)
            n == Len(q)
<1>1. m \in Nat /\ n \in Nat
  BY LenProperties
<1>2. Len(r) = m + n /\ \A k \in 1..(m + n) : r[k] = IF k <= m THEN p[k] ELSE q[k - m]
  BY ConcatProperties DEF Joint
<1>. HIDE DEF m, n
<1>3. \A k \in 1..(m + n) : (k <= m /\ k \in 1..m) \/ (~(k <= m) /\ k - m \in 1..n)
  BY <1>1
<1>4. ASSUME NEW i \in 1..(m + n), NEW j \in 1..(m + n), r[i] = r[j]
      PROVE  i = j
  <2>1. CASE i <= m /\ j <= m
    <3>1. i \in 1..m /\ j \in 1..m /\ p[i] = p[j]
      BY <1>2, <1>3, <1>4, <2>1
    <3>. QED
      BY <3>1 DEF Distinct, m
  <2>2. CASE ~(i <= m) /\ ~(j <= m)
    <3>1. i - m \in 1..n /\ j - m \in 1..n /\ q[i - m] = q[j - m]
      BY <1>2, <1>3, <1>4, <2>2
    <3>2. i - m = j - m
      BY <3>1 DEF Distinct, n
    <3>. QED
      BY <1>1, <3>2
  <2>3. CASE i <= m /\ ~(j <= m)
    <3>1. i \in 1..m /\ j - m \in 1..n /\ p[i] = q[j - m]
      BY <1>2, <1>3, <1>4, <2>3
    <3>. QED
      BY <3>1 DEF m, n
  <2>4. CASE ~(i <= m) /\ j <= m
    <3>1. j \in 1..m /\ i - m \in 1..n /\ p[j] = q[i - m]
      BY <1>2, <1>3, <1>4, <2>4
    <3>. QED
      BY <3>1 DEF m, n
  <2>. QED
    BY <2>1, <2>2, <2>3, <2>4
<1>5. Distinct(r)
  BY <1>2, <1>4 DEF Distinct
<1>6. ASSUME NEW k \in 1..(m + n)
      PROVE  (\E i \in 1..m : r[k] = p[i]) \/ (\E i \in 1..n : r[k] = q[i])
  BY <1>2, <1>3
<1>. QED
  BY <1>2, <1>5, <1>6 DEF m, n

LEMMA SplitDistinct ==
  ASSUME Analysed, NEW scope \in Scopes, NEW b, NEW t, NEW parts, NEW ways,
         Split(scope, b, t, parts, ways), Distinct(t),
         \A j \in 1..Len(t) : Distinct(parts[j])
  PROVE  Distinct(ways[Len(t)])
<1>. DEFINE n == Len(t)
            S == InScope(scope)
            Good(j) == /\ Distinct(ways[j])
                       /\ \A k \in 1..Len(ways[j]) : \E i \in 1..j : ways[j][k] \in Members(t[i])
            bad == {j \in 0..n : ~Good(j)}
<1>1. n \in Nat \ {0} /\ \A j \in 1..n : t[j] \in Condensed(scope).items
  BY TraceItems DEF Split
<1>2. /\ \A j \in 1..n : /\ Walk(scope, parts[j])
                         /\ \A k \in 1..Len(parts[j]) : parts[j][k] \in Members(t[j])
      /\ \A j \in 0..n : ways[j] \in Seq(S)
  BY SplitFacts
<1>3. ASSUME bad # {}
      PROVE  FALSE
  <2>1. PICK m \in bad : \A k \in bad : m <= k
    <3>1. bad \in SUBSET Nat
      OBVIOUS
    <3>. HIDE DEF bad
    <3>. QED
      BY <1>3, <3>1, LeastExists
  <2>2. m \in 0..n /\ ~Good(m)
    OBVIOUS
  <2>3. m # 0
    <3>1. SUFFICES ASSUME m = 0
                   PROVE  FALSE
      OBVIOUS
    <3>2. ways[m] = <<>> /\ Len(<<>>) = 0 /\ \A k : k \notin 1..0
      BY <3>1 DEF Split
    <3>3. \A k : k \notin 1..Len(ways[m])
      BY <3>2
    <3>. QED
      BY <2>2, <3>3 DEF Distinct
  <2>4. m - 1 \in 0..n /\ m \in 1..n /\ m - 1 \notin bad
    BY <1>1, <2>1, <2>2, <2>3
  <2>5. Good(m - 1)
    BY <2>4
  <2>. DEFINE p == ways[m - 1]
              q == parts[m]
              r == ways[m]
  <2>6. p \in Seq(S) /\ q \in Seq(S) /\ Joint(p, q, r) /\ Distinct(p) /\ Distinct(q)
    BY <1>2, <2>4, <2>5 DEF Walk, Joint, Split
  <2>7. ASSUME NEW i \in 1..Len(p), NEW j \in 1..Len(q), p[i] = q[j]
        PROVE  FALSE
    <3>1. PICK k \in 1..(m - 1) : p[i] \in Members(t[k])
      BY <2>5
    <3>2. q[j] \in Members(t[m])
      BY <1>2, <2>4
    <3>3. k \in 1..n /\ k # m
      BY <1>1, <2>4
    <3>4. t[k] = t[m]
      <4>1. Item(scope, p[i]) = t[k] /\ Item(scope, q[j]) = t[m]
        BY <1>1, <2>4, <3>1, <3>2, <3>3, MemberItem
      <4>. QED
        BY <2>7, <4>1
    <3>. QED
      BY <2>4, <3>3, <3>4 DEF Distinct
  <2>. HIDE DEF p, q, r, S
  <2>8. /\ Distinct(r)
        /\ \A k \in 1..Len(r) : \/ \E i \in 1..Len(p) : r[k] = p[i]
                                \/ \E i \in 1..Len(q) : r[k] = q[i]
    <3>1. \A i \in 1..Len(p) : \A j \in 1..Len(q) : p[i] # q[j]
      BY <2>7
    <3>. QED
      BY <2>6, <3>1, JoinDistinct
  <2>9. ASSUME NEW k \in 1..Len(r)
        PROVE  \E i \in 1..m : r[k] \in Members(t[i])
    <3>1. CASE \E i \in 1..Len(p) : r[k] = p[i]
      <4>1. PICK i \in 1..(m - 1) : r[k] \in Members(t[i])
        BY <2>5, <3>1 DEF p
      <4>2. i \in 1..m
        BY <2>4
      <4>. QED
        BY <4>1, <4>2
    <3>2. CASE \E i \in 1..Len(q) : r[k] = q[i]
      <4>1. r[k] \in Members(t[m]) /\ m \in 1..m
        BY <1>2, <2>4, <3>2 DEF q
      <4>. QED
        BY <4>1
    <3>. QED
      BY <2>8, <3>1, <3>2
  <2>. QED
    BY <2>2, <2>8, <2>9 DEF r
<1>4. n \in 0..n
  BY <1>1
<1>. QED
  BY <1>3, <1>4

(* There are finitely many sequences without repetition.                   *)
LEMMA DistinctFinite ==
  ASSUME NEW S, IsFiniteSet(S), NEW P, \A p \in P : p \in Seq(S) /\ Distinct(p)
  PROVE  IsFiniteSet(P) /\ \A p \in P : Len(p) <= Cardinality(S)
<1>. DEFINE N == Cardinality(S)
            T == SUBSET ((1..N) \X S)
            f == [p \in P |-> {<<k, p[k]>> : k \in 1..Len(p)}]
<1>1. N \in Nat
  BY FS_CardinalityType
<1>2. ASSUME NEW p \in P
      PROVE  /\ Len(p) \in Nat /\ Len(p) <= N
             /\ \A k \in 1..Len(p) : p[k] \in S
  <2>. DEFINE g == [k \in 1..Len(p) |-> p[k]]
  <2>1. p \in Seq(S) /\ Len(p) \in Nat /\ \A k \in 1..Len(p) : p[k] \in S
    BY LenProperties, ElementOfSeq
  <2>2. g \in [1..Len(p) -> S] /\ \A i, j \in 1..Len(p) : g[i] = g[j] => i = j
    BY <2>1 DEF Distinct
  <2>. HIDE DEF g
  <2>3. g \in Injection(1..Len(p), S)
    BY <2>2 DEF Injection, IsInjective
  <2>4. Cardinality(1..Len(p)) <= N
    BY <2>3, FS_Injection
  <2>5. Cardinality(1..Len(p)) = IF 1 > Len(p) THEN 0 ELSE Len(p) - 1 + 1
    BY <2>1, FS_Interval
  <2>. QED
    BY <1>1, <2>1, <2>4, <2>5
<1>3. IsFiniteSet(T)
  <2>1. IsFiniteSet(1..N)
    BY <1>1, FS_Interval
  <2>2. IsFiniteSet((1..N) \X S)
    BY <2>1, FS_Product
  <2>. QED
    BY <2>2, FS_SUBSET
<1>4. f \in [P -> T]
  <2>1. ASSUME NEW p \in P, NEW k \in 1..Len(p)
        PROVE  <<k, p[k]>> \in (1..N) \X S
    <3>1. k \in 1..N /\ p[k] \in S
      BY <1>1, <1>2
    <3>. QED
      BY <3>1
  <2>. HIDE DEF N
  <2>. QED
    BY <2>1
<1>5. ASSUME NEW p \in P, NEW q \in P, f[p] = f[q]
      PROVE  p = q
  <2>1. f[p] = {<<k, p[k]>> : k \in 1..Len(p)} /\ f[q] = {<<k, q[k]>> : k \in 1..Len(q)}
    OBVIOUS
  <2>. HIDE DEF f
  <2>2. ASSUME NEW k \in 1..Len(p)
        PROVE  k \in 1..Len(q) /\ p[k] = q[k]
    <3>1. <<k, p[k]>> \in f[q]
      BY <1>5, <2>1
    <3>2. PICK j \in 1..Len(q) : <<k, p[k]>> = <<j, q[j]>>
      BY <2>1, <3>1
    <3>. QED
      BY <3>2
  <2>3. ASSUME NEW k \in 1..Len(q)
        PROVE  k \in 1..Len(p) /\ p[k] = q[k]
    <3>1. <<k, q[k]>> \in f[p]
      BY <1>5, <2>1
    <3>2. PICK j \in 1..Len(p) : <<k, q[k]>> = <<j, p[j]>>
      BY <2>1, <3>1
    <3>. QED
      BY <3>2
  <2>4. Len(p) \in Nat /\ Len(q) \in Nat /\ p \in Seq(S) /\ q \in Seq(S)
    BY <1>2
  <2>5. Len(p) = Len(q)
    <3>1. Len(p) \in 1..Len(p) \/ Len(p) = 0
      BY <2>4
    <3>2. Len(q) \in 1..Len(q) \/ Len(q) = 0
      BY <2>4
    <3>3. Len(p) <= Len(q)
      BY <2>2, <2>4, <3>1
    <3>4. Len(q) <= Len(p)
      BY <2>3, <2>4, <3>2
    <3>. QED
      BY <2>4, <3>3, <3>4
  <2>. QED
    BY <2>2, <2>4, <2>5, SeqEqual
<1>6. f \in Injection(P, T)
  <2>. HIDE DEF f, T
  <2>. QED
    BY <1>4, <1>5 DEF Injection, IsInjective
<1>7. IsFiniteSet(P)
  <2>. HIDE DEF f, T
  <2>. QED
    BY <1>3, <1>6, FS_Injection
<1>. QED
  BY <1>2, <1>7

------------------------------------------------------------------------------
(* When the search for traces is over, and all that a trace needs of the   *)
(* insides of loops is in the cache.                                       *)

WaysTo(s, b) == {p \in Seq(InScope(s)) : WayTo(s, b, p)}

(* The ways to b in s are parts of as many ways to the block of the fetch. *)
Embedded(s, b) ==
  \E pre, post \in Seq(slice.nodes) :
    \A w \in WaysTo(s, b) : (pre \o w) \o post \in WaysTo(Null, slice.basis)

Few(s, b) == Cardinality(WaysTo(s, b)) <= UnrollLimit

Whole(c) == cache[c].all = WaysTo(c[1], c[2]) /\ cache[c].first = cache[c].all

CacheWhole ==
  /\ \A c \in DOMAIN cache :
       /\ cache[c].first # {}
       /\ \A p \in WaysTo(c[1], c[2]) : Distinct(p)
       /\ Embedded(c[1], c[2])
  /\ (\A c \in DOMAIN cache : Few(c[1], c[2])) => \A c \in DOMAIN cache : Whole(c)

LEMMA TraceReversed ==
  ASSUME NEW scope, NEW item, NEW t, TraceTo(scope, item, t)
  PROVE  /\ ChainTo(scope, item, Reverse(t)) /\ Len(Reverse(t)) = Len(t)
         /\ \A k \in 1..Len(t) : Reverse(t)[k] = t[(Len(t) - k) + 1]
         /\ Reverse(Reverse(t)) = t
<1>. DEFINE items == Condensed(scope).items
            w == Reverse(t)
            n == Len(t)
<1>1. t \in Seq(items) /\ n \in Nat \ {0} /\ \A k \in 1..n : t[k] \in items
  BY TraceItems
<1>2. w = [k \in 1..n |-> t[(n - k) + 1]]
  BY DEF Reverse
<1>3. w \in Seq(items) /\ Len(w) = n
  <2>1. \A k \in 1..n : (n - k) + 1 \in 1..n
    BY <1>1
  <2>2. w \in [1..n -> items]
    BY <1>1, <1>2, <2>1
  <2>. HIDE DEF w, n, items
  <2>. QED
    BY <1>1, <2>2, IsASeq, LenProperties
<1>4. w[1] = t[n] /\ t[n] = item /\ w # <<>>
  BY <1>1, <1>2, <1>3 DEF TraceTo
<1>5. ASSUME NEW k \in 1..(n - 1)
      PROVE  Precedes(scope, w[k + 1], w[k])
  <2>1. (n - k) \in 1..(n - 1) /\ w[k + 1] = t[n - k] /\ w[k] = t[(n - k) + 1]
    BY <1>1, <1>2
  <2>. QED
    BY <2>1 DEF TraceTo
<1>6. Reverse(w) = t
  <2>1. Reverse(w) = [k \in 1..n |-> w[(n - k) + 1]]
    BY <1>3 DEF Reverse
  <2>2. \A k \in 1..n : (n - k) + 1 \in 1..n /\ (n - ((n - k) + 1)) + 1 = k
    BY <1>1
  <2>3. \A k \in 1..n : w[(n - k) + 1] = t[k]
    BY <1>2, <2>2
  <2>4. Reverse(w) = [k \in 1..n |-> t[k]]
    BY <2>1, <2>3
  <2>5. t = [k \in 1..n |-> t[k]]
    BY <1>1
  <2>. QED
    BY <2>4, <2>5
<1>. HIDE DEF w
<1>7. ChainTo(scope, item, w)
  BY <1>3, <1>4, <1>5 DEF ChainTo
<1>8. \A k \in 1..n : w[k] = t[(n - k) + 1]
  BY <1>2
<1>. QED
  BY <1>3, <1>6, <1>7, <1>8 DEF w

(* Every trace of items was found, and none has an item twice.             *)
LEMMA TracesFound ==
  ASSUME UnrollInv, StackLimit \in Nat, PathsComplete, Flattened,
         NEW t, TraceTo(Scope, Mark, t)
  PROVE  t \in Traces /\ Distinct(t)
<1>. DEFINE n == Len(t)
            w == Reverse(t)
<1>1. Scope \in Scopes /\ <<Scope, Mark>> \in DOMAIN paths
  BY TraceFacts, CallFacts DEF Flattened
<1>2. \A c : ChainTo(Scope, Mark, c) => Seen(Scope, Traces, c)
  BY <1>1 DEF PathsComplete, Traces
<1>3. /\ ChainTo(Scope, Mark, w) /\ Len(w) = n /\ Reverse(w) = t
      /\ \A k \in 1..n : w[k] = t[(n - k) + 1]
  BY TraceReversed
<1>4. n \in Nat \ {0} /\ t[1] = Condensed(Scope).root
  BY TraceItems DEF TraceTo
<1>. HIDE DEF w
<1>5. t \in Traces
  <2>1. w[Len(w)] = Condensed(Scope).root
    <3>1. n \in 1..n /\ (n - n) + 1 = 1
      BY <1>4
    <3>. QED
      BY <1>3, <1>4, <3>1
  <2>. QED
    BY <1>2, <1>3, <2>1 DEF Seen
<1>6. ASSUME NEW i \in 1..n, NEW j \in 1..n, i < j
      PROVE  t[i] # t[j]
  <2>1. (n - i) + 1 \in 1..n /\ (n - j) + 1 \in 1..n /\ (n - j) + 1 < (n - i) + 1
        /\ (n - ((n - i) + 1)) + 1 = i /\ (n - ((n - j) + 1)) + 1 = j
    BY <1>4, <1>6
  <2>2. w[(n - j) + 1] # w[(n - i) + 1]
    <3>1. \A c : ChainTo(Scope, Mark, c) => Len(c) <= StackLimit
      BY <1>2 DEF Seen
    <3>. QED
      BY <1>3, <2>1, <3>1, ChainsRepeatNothing
  <2>3. w[(n - j) + 1] = t[j] /\ w[(n - i) + 1] = t[i]
    BY <1>3, <2>1
  <2>. QED
    BY <2>2, <2>3
<1>7. Distinct(t)
  <2>1. \A i, j \in 1..n : i < j \/ j < i \/ i = j
    BY <1>4
  <2>. QED
    BY <1>6, <2>1 DEF Distinct
<1>. QED
  BY <1>5, <1>7

(* The parts of a way are among those the cache has an entry for. *)
Cached(t, parts) ==
  \A j \in 1..Len(t) :
    IF IsLoop(t[j])
      THEN \E l \in Links(t, j) : /\ <<t[j][2], l>> \in DOMAIN cache
                                  /\ parts[j] \in WaysTo(t[j][2], l)
      ELSE parts[j] = <<t[j][2]>>

(* A way through the scope, and what there is in the cache for its parts.  *)
LEMMA WaysSplit ==
  ASSUME UnrollInv, StackLimit \in Nat, PathsComplete, Flattened, Missing = {},
         NEW p \in WaysTo(Scope, Term)
  PROVE  \E t \in Traces : \E parts, ways :
           /\ Split(Scope, Term, t, parts, ways) /\ ways[Len(t)] = p /\ Distinct(t)
           /\ Cached(t, parts)
<1>1. Analysed /\ Scope \in Scopes
  BY TraceFacts, CallFacts
<1>2. PICK t, parts, ways : Split(Scope, Term, t, parts, ways) /\ ways[Len(t)] = p
  <2>1. WayTo(Scope, Term, p)
    BY DEF WaysTo
  <2>. QED
    BY <1>1, <2>1, SplitExists DEF Splits
<1>3. t \in Traces /\ Distinct(t) /\ DOMAIN t = 1..Len(t)
  BY <1>2, TracesFound, TraceItems DEF Split, Mark
<1>4. ASSUME NEW j \in 1..Len(t)
      PROVE  IF IsLoop(t[j])
               THEN \E l \in Links(t, j) : /\ <<t[j][2], l>> \in DOMAIN cache
                                           /\ parts[j] \in WaysTo(t[j][2], l)
               ELSE parts[j] = <<t[j][2]>>
  <2>1. PICK l : LeftAt(t, Term, j, l) /\ Within(t[j], l, parts[j])
    BY <1>2 DEF Split
  <2>2. CASE ~IsLoop(t[j])
    BY <2>1, <2>2 DEF Within
  <2>3. CASE IsLoop(t[j])
    <3>1. l \in Links(t, j)
      BY <2>1, <2>3 DEF LeftAt, Left, Links
    <3>2. <<t[j][2], l>> \in Callees(t)
      BY <1>3, <2>3, <3>1 DEF Callees
    <3>3. <<t[j][2], l>> \in DOMAIN cache
      BY <1>3, <3>2 DEF Missing
    <3>4. parts[j] \in WaysTo(t[j][2], l)
      BY <2>1, <2>3 DEF Within, WaysTo, WayTo, Walk
    <3>. QED
      BY <2>3, <3>1, <3>3, <3>4
  <2>. QED
    BY <2>2, <2>3
<1>. QED
  BY <1>2, <1>3, <1>4 DEF Cached

LEMMA UnrolledSteps ==
  ASSUME NEW t, Len(t) \in Nat
  PROVE  \E upTo : /\ Unrolled(t) = upTo[Len(t)] /\ upTo[0] = {<<>>}
                   /\ \A i \in 1..Len(t) : upTo[i] = Extended(upTo[i - 1], Pieces(t, i))
<1>. DEFINE n == Len(t)
            upTo == CHOOSE f : f = [i \in 0..n |-> Step(t, f, i)]
<1>1. Unrolled(t) = upTo[n]
  BY DEF Unrolled, Step
<1>2. upTo = [i \in 0..n |-> Step(t, upTo, i)]
  <2>1. \E f : f = [i \in 0..n |-> Step(t, f, i)]
    BY StepsExist
  <2>. QED
    BY Zenon, <2>1
<1>. HIDE DEF upTo
<1>3. upTo[0] = {<<>>}
  BY <1>2 DEF Step
<1>4. ASSUME NEW i \in 1..n
      PROVE  upTo[i] = Extended(upTo[i - 1], Pieces(t, i))
  <2>1. i \in 0..n /\ i # 0
    OBVIOUS
  <2>2. upTo[i] = Step(t, upTo, i)
    BY <1>2, <2>1
  <2>. QED
    BY <2>1, <2>2 DEF Step
<1>. QED
  BY <1>1, <1>3, <1>4

LEMMA WaysDistinct ==
  ASSUME UnrollInv, StackLimit \in Nat, PathsComplete, CacheWhole, Flattened, Missing = {},
         NEW p \in WaysTo(Scope, Term)
  PROVE  Distinct(p)
<1>1. PICK t, parts, ways :
        /\ t \in Traces
        /\ Split(Scope, Term, t, parts, ways) /\ ways[Len(t)] = p /\ Distinct(t)
        /\ Cached(t, parts)
  BY WaysSplit
<1>2. ASSUME NEW j \in 1..Len(t)
      PROVE  Distinct(parts[j])
  <2>1. CASE IsLoop(t[j])
    <3>1. PICK l : <<t[j][2], l>> \in DOMAIN cache /\ parts[j] \in WaysTo(t[j][2], l)
      BY <1>1, <2>1 DEF Cached
    <3>2. \A s, b : <<s, b>> \in DOMAIN cache => \A q \in WaysTo(s, b) : Distinct(q)
      BY DEF CacheWhole
    <3>. QED
      BY <3>1, <3>2
  <2>2. CASE ~IsLoop(t[j])
    <3>1. parts[j] = <<t[j][2]>>
      BY <1>1, <2>2 DEF Cached
    <3>2. \A x : Len(<<x>>) = 1
      OBVIOUS
    <3>3. Len(parts[j]) = 1
      BY <3>1, <3>2
    <3>. QED
      BY <3>3 DEF Distinct
  <2>. QED
    BY <2>1, <2>2
<1>3. Analysed /\ Scope \in Scopes
  BY TraceFacts, CallFacts
<1>. QED
  BY <1>1, <1>2, <1>3, SplitDistinct

LEMMA JoinExtends ==
  ASSUME NEW A, NEW B, NEW p \in A, NEW q \in B
  PROVE  p \o q \in Extended(A, B)
<1>1. PICK r : r = p \o q
  OBVIOUS
<1>2. r \in Extended(A, B)
  BY <1>1 DEF Extended
<1>. QED
  BY <1>1, <1>2

(* From a cache that is whole every way is unrolled.                       *)
LEMMA UnrolledWhole ==
  ASSUME UnrollInv, StackLimit \in Nat, PathsComplete, Flattened, Missing = {},
         \A c \in DOMAIN cache : Whole(c),
         NEW p \in WaysTo(Scope, Term)
  PROVE  \E t \in Traces : p \in Unrolled(t)
<1>1. PICK t, parts, ways :
        /\ t \in Traces
        /\ Split(Scope, Term, t, parts, ways) /\ ways[Len(t)] = p /\ Distinct(t)
        /\ Cached(t, parts)
  BY WaysSplit
<1>. DEFINE n == Len(t)
<1>2. n \in Nat
  BY <1>1, TraceItems DEF Split
<1>3. PICK upTo : /\ Unrolled(t) = upTo[n] /\ upTo[0] = {<<>>}
                  /\ \A i \in 1..n : upTo[i] = Extended(upTo[i - 1], Pieces(t, i))
  BY <1>2, UnrolledSteps
<1>4. ASSUME NEW j \in 1..n
      PROVE  parts[j] \in Pieces(t, j)
  <2>1. CASE IsLoop(t[j])
    <3>1. PICK l \in Links(t, j) :
             <<t[j][2], l>> \in DOMAIN cache /\ parts[j] \in WaysTo(t[j][2], l)
      BY <1>1, <2>1 DEF Cached
    <3>2. \A s, b : <<s, b>> \in DOMAIN cache => cache[<<s, b>>].first = WaysTo(s, b)
      BY DEF Whole
    <3>. QED
      BY <2>1, <3>1, <3>2 DEF Pieces
  <2>2. CASE ~IsLoop(t[j])
    BY <1>1, <2>2 DEF Pieces, Cached
  <2>. QED
    BY <2>1, <2>2
<1>. DEFINE bad == {j \in 0..n : ways[j] \notin upTo[j]}
<1>5. ASSUME bad # {}
      PROVE  FALSE
  <2>1. PICK m \in bad : \A k \in bad : m <= k
    <3>1. bad \in SUBSET Nat
      OBVIOUS
    <3>. HIDE DEF bad
    <3>. QED
      BY <1>5, <3>1, LeastExists
  <2>2. m \in 0..n /\ ways[m] \notin upTo[m]
    OBVIOUS
  <2>3. m # 0
    BY <1>1, <1>3, <2>2 DEF Split
  <2>4. m - 1 \in 0..n /\ m \in 1..n /\ m - 1 \notin bad
    BY <1>2, <2>1, <2>2, <2>3
  <2>5. ways[m - 1] \in upTo[m - 1] /\ ways[m] = ways[m - 1] \o parts[m]
    BY <1>1, <2>4 DEF Split
  <2>6. ways[m] \in Extended(upTo[m - 1], Pieces(t, m))
    <3>1. parts[m] \in Pieces(t, m)
      BY <1>4, <2>4
    <3>. QED
      BY Zenon, <2>5, <3>1, JoinExtends
  <2>. QED
    BY <1>3, <2>2, <2>4, <2>6
<1>6. n \in 0..n
  BY <1>2
<1>. QED
  BY <1>1, <1>3, <1>5, <1>6

(* In any case there is one.                                               *)
LEMMA UnrolledSome ==
  ASSUME UnrollInv, StackLimit \in Nat, PathsComplete, CacheWhole, Flattened, Missing = {}
  PROVE  \E t \in Traces : Unrolled(t) # {}
<1>1. Analysed /\ Scope \in Scopes /\ Term \in InScope(Scope)
  BY TraceFacts, CallFacts
<1>2. PICK p : p \in WaysTo(Scope, Term)
  BY <1>1, WaysExist DEF WaysTo, WayTo, Walk
<1>3. PICK t, parts, ways :
        /\ t \in Traces
        /\ Split(Scope, Term, t, parts, ways) /\ ways[Len(t)] = p /\ Distinct(t)
        /\ Cached(t, parts)
  BY <1>2, WaysSplit
<1>. DEFINE n == Len(t)
<1>4. n \in Nat
  BY <1>3, TraceItems DEF Split
<1>5. PICK upTo : /\ Unrolled(t) = upTo[n] /\ upTo[0] = {<<>>}
                  /\ \A i \in 1..n : upTo[i] = Extended(upTo[i - 1], Pieces(t, i))
  BY <1>4, UnrolledSteps
<1>6. ASSUME NEW j \in 1..n
      PROVE  Pieces(t, j) # {}
  <2>1. CASE IsLoop(t[j])
    <3>1. PICK l \in Links(t, j) : <<t[j][2], l>> \in DOMAIN cache
      BY <1>3, <2>1 DEF Cached
    <3>2. \A c \in DOMAIN cache : cache[c].first # {}
      BY DEF CacheWhole
    <3>3. PICK q : q \in cache[<<t[j][2], l>>].first
      BY <3>1, <3>2
    <3>. QED
      BY <2>1, <3>1, <3>3 DEF Pieces
  <2>2. CASE ~IsLoop(t[j])
    BY <2>2 DEF Pieces
  <2>. QED
    BY <2>1, <2>2
<1>. DEFINE bad == {j \in 0..n : upTo[j] = {}}
<1>7. ASSUME bad # {}
      PROVE  FALSE
  <2>1. PICK m \in bad : \A k \in bad : m <= k
    <3>1. bad \in SUBSET Nat
      OBVIOUS
    <3>. HIDE DEF bad
    <3>. QED
      BY <1>7, <3>1, LeastExists
  <2>2. m \in 0..n /\ upTo[m] = {}
    OBVIOUS
  <2>3. m # 0
    BY <1>5, <2>2
  <2>4. m - 1 \in 0..n /\ m \in 1..n /\ m - 1 \notin bad
    BY <1>4, <2>1, <2>2, <2>3
  <2>5. PICK p1, q : p1 \in upTo[m - 1] /\ q \in Pieces(t, m)
    BY <1>6, <2>4
  <2>6. p1 \o q \in Extended(upTo[m - 1], Pieces(t, m))
    BY Zenon, <2>5, JoinExtends
  <2>. QED
    BY <1>5, <2>2, <2>4, <2>6
<1>8. n \in 0..n
  BY <1>4
<1>. QED
  BY <1>3, <1>5, <1>7, <1>8

------------------------------------------------------------------------------
(* The ways asked for within a loop are parts of ways to the fetch.        *)

LEMMA SeqWithin ==
  ASSUME NEW S, NEW T, S \subseteq T, NEW p \in Seq(S)
  PROVE  p \in Seq(T)
OBVIOUS

LEMMA MemberOfItem ==
  ASSUME Analysed, NEW scope \in Scopes, NEW b \in InScope(scope)
  PROVE  b \in Members(Item(scope, b))
<1>1. CASE Item(scope, b) = Block(b)
  BY <1>1, Tags DEF Members
<1>2. ASSUME NEW h \in Around(scope, b), Item(scope, b) = Loop(h)
      PROVE  b \in Members(Item(scope, b))
  BY <1>2, Tags DEF Members, Around
<1>. QED
  BY <1>1, <1>2, ItemFacts

LEMMA LeftMember ==
  ASSUME Analysed, NEW scope \in Scopes, NEW b \in InScope(scope),
         NEW t, TraceTo(scope, Item(scope, b), t),
         NEW j \in 1..Len(t), NEW l, LeftAt(t, b, j, l)
  PROVE  l \in Members(t[j])
<1>1. CASE j < Len(t)
  BY <1>1 DEF LeftAt, Left, Members, Exiting
<1>2. CASE ~(j < Len(t))
  <2>1. j = Len(t) /\ t[Len(t)] = Item(scope, b) /\ l = b
    BY <1>2, TraceItems DEF LeftAt
  <2>. QED
    BY <2>1, MemberOfItem
<1>. QED
  BY <1>1, <1>2

LEMMA WithinExists ==
  ASSUME Analysed, NEW scope \in Scopes, NEW item \in Condensed(scope).items,
         NEW l \in Members(item)
  PROVE  \E q : Within(item, l, q)
<1>1. CASE IsLoop(item)
  <2>1. PICK h \in DOMAIN loops : item = Loop(h)
    BY <1>1, ItemsOf, Tags
  <2>2. item[2] = h /\ InScope(h) = loops[h] /\ h \in Scopes /\ l \in InScope(h)
    BY <1>1, <2>1, AnalysisFacts, Tags DEF InScope, Members, Scopes
  <2>3. PICK q : WayTo(h, l, q)
    BY <2>2, WaysExist
  <2>. QED
    BY <1>1, <2>2, <2>3 DEF Within
<1>2. CASE ~IsLoop(item)
  BY <1>2 DEF Within, Members
<1>. QED
  BY <1>1, <1>2

(* From each item of a trace there is a way to its end.                    *)
LEMMA WaysOn ==
  ASSUME Analysed, NEW scope \in Scopes, NEW b \in InScope(scope),
         NEW t, TraceTo(scope, Item(scope, b), t), NEW j \in 1..Len(t)
  PROVE  \E q : Walk(scope, q) /\ q[1] = t[j][2] /\ q[Len(q)] = b
<1>. DEFINE n == Len(t)
            Good(i) == \E q : Walk(scope, q) /\ q[1] = t[i][2] /\ q[Len(q)] = b
            bad == {i \in 0..(n - 1) : ~Good(n - i)}
<1>1. /\ n \in Nat \ {0} /\ t[n] = Item(scope, b)
      /\ \A i \in 1..n : t[i] \in Condensed(scope).items
  BY TraceItems
<1>2. ASSUME NEW i \in 1..n, NEW l \in Members(t[i])
      PROVE  \E q : Walk(scope, q) /\ q[1] = t[i][2] /\ q[Len(q)] = l
  <2>1. PICK q : Within(t[i], l, q)
    BY <1>1, WithinExists
  <2>. QED
    BY <1>1, <2>1, WithinFacts
<1>3. ASSUME bad # {}
      PROVE  FALSE
  <2>1. PICK m \in bad : \A k \in bad : m <= k
    <3>1. bad \in SUBSET Nat
      BY <1>1
    <3>. HIDE DEF bad
    <3>. QED
      BY <1>3, <3>1, LeastExists
  <2>2. m \in 0..(n - 1) /\ ~Good(n - m)
    OBVIOUS
  <2>3. m # 0
    <3>1. Good(n)
      <4>1. b \in Members(t[n]) /\ n \in 1..n
        BY <1>1, MemberOfItem
      <4>. QED
        BY <1>2, <4>1
    <3>2. n - 0 = n
      BY <1>1
    <3>. HIDE DEF Good
    <3>. QED
      BY <2>2, <3>1, <3>2
  <2>4. /\ m - 1 \in 0..(n - 1) /\ m - 1 \notin bad
        /\ n - m \in 1..(n - 1) /\ n - (m - 1) = (n - m) + 1 /\ n - m \in 1..n
    <3>1. m - 1 \in 0..(n - 1) /\ ~(m <= m - 1) /\ n - m \in 1..(n - 1)
          /\ n - (m - 1) = (n - m) + 1 /\ n - m \in 1..n
      BY <1>1, <2>2, <2>3
    <3>. HIDE DEF bad
    <3>. QED
      BY <2>1, <3>1
  <2>5. Good((n - m) + 1)
    <3>1. Good(n - (m - 1))
      BY <2>4
    <3>. HIDE DEF Good
    <3>. QED
      BY Zenon, <2>4, <3>1
  <2>. DEFINE i == n - m
  <2>6. Precedes(scope, t[i], t[i + 1])
    BY <2>4 DEF TraceTo
  <2>7. PICK l : Left(t[i], t[i + 1], l)
    BY <2>6, LinkExists
  <2>8. t[i + 1][2] \in forward[l]
    BY <2>6, <2>7, StepForward DEF Precedes
  <2>9. l \in Members(t[i])
    BY <2>7 DEF Left, Members, Exiting
  <2>10. PICK q : Walk(scope, q) /\ q[1] = t[i][2] /\ q[Len(q)] = l
    BY <1>2, <2>4, <2>9
  <2>11. PICK r : Walk(scope, r) /\ r[1] = t[i + 1][2] /\ r[Len(r)] = b
    BY <2>5
  <2>12. PICK x : Joint(q, r, x)
    BY DEF Joint
  <2>13. Good(i)
    <3>. HIDE DEF i
    <3>1. r[1] \in forward[q[Len(q)]]
      BY <2>8, <2>10, <2>11
    <3>2. Walk(scope, x) /\ x[1] = q[1] /\ x[Len(x)] = r[Len(r)]
      BY <2>10, <2>11, <2>12, <3>1, Joined
    <3>. QED
      BY <2>10, <2>11, <3>2
  <2>. QED
    BY <2>2, <2>13
<1>4. n - j \in 0..(n - 1) /\ n - (n - j) = j
  BY <1>1
<1>. QED
  BY <1>3, <1>4

Regrouped(a, u, w, v, c) ==
  (a \o ((u \o w) \o v)) \o c = ((a \o u) \o w) \o (v \o c)

LEMMA JoinFive ==
  ASSUME NEW S, NEW a \in Seq(S), NEW u \in Seq(S), NEW w \in Seq(S),
         NEW v \in Seq(S), NEW c \in Seq(S)
  PROVE  Regrouped(a, u, w, v, c)
<1>. DEFINE x == u \o w
            y == a \o x
<1>1. x \in Seq(S) /\ y \in Seq(S)
  <2>1. x \in Seq(S)
    BY ConcatProperties
  <2>. HIDE DEF x
  <2>. QED
    BY <2>1, ConcatProperties
<1>2. y = (a \o u) \o w
  BY SMTT(60), ConcatAssociative
<1>. HIDE DEF x
<1>3. a \o (x \o v) = y \o v
  BY SMTT(60), <1>1, ConcatAssociative
<1>. HIDE DEF y
<1>4. (y \o v) \o c = y \o (v \o c)
  BY SMTT(60), <1>1, ConcatAssociative
<1>5. (a \o (x \o v)) \o c = y \o (v \o c)
  BY Zenon, <1>3, <1>4
<1>. QED
  BY Zenon, <1>2, <1>5 DEF x, Regrouped

LEMMA CalleeEmbedded ==
  ASSUME Analysed, NEW scope \in Scopes, NEW b \in InScope(scope), Embedded(scope, b),
         NEW t, TraceTo(scope, Item(scope, b), t),
         NEW j \in 1..Len(t), IsLoop(t[j]), NEW l, LeftAt(t, b, j, l)
  PROVE  Embedded(t[j][2], l)
<1>. DEFINE n == Len(t)
            S == InScope(scope)
            h == t[j][2]
<1>1. /\ n \in Nat \ {0} /\ t[n] = Item(scope, b) /\ t[1] = Condensed(scope).root
      /\ \A i \in 1..n : t[i] \in Condensed(scope).items
  BY TraceItems DEF TraceTo
<1>2. \E u \in Seq(S) : \A w : Walk(scope, w) /\ w[1] = h =>
        \E x : Joint(u, w, x) /\ WayTo(scope, w[Len(w)], x)
  <2>1. CASE j = 1
    <3>1. h = EntryOf(scope)
      BY <1>1, <2>1, RootFacts DEF EntryOf
    <3>2. ASSUME NEW w, Walk(scope, w), w[1] = h
          PROVE  Joint(<<>>, w, w) /\ WayTo(scope, w[Len(w)], w)
      <4>1. w \in Seq(S)
        BY <3>2 DEF Walk
      <4>2. <<>> \o w = w
        <5>. HIDE DEF S
        <5>. QED
          BY <4>1, ConcatEmptySeq
      <4>. QED
        BY <3>1, <3>2, <4>2 DEF Joint, WayTo
    <3>3. <<>> \in Seq(S)
      OBVIOUS
    <3>. HIDE DEF S, h
    <3>. QED
      BY <3>2, <3>3
  <2>2. CASE j # 1
    <3>. DEFINE i == j - 1
    <3>1. i \in 1..(n - 1) /\ i + 1 = j
      BY <1>1, <2>2
    <3>2. Precedes(scope, t[i], t[j])
      BY <3>1 DEF TraceTo
    <3>3. PICK k : Left(t[i], t[j], k)
      BY <3>2, LinkExists
    <3>4. k \in InScope(scope) /\ h \in forward[k]
      BY <3>2, <3>3, StepForward DEF Precedes
    <3>5. PICK u : WayTo(scope, k, u)
      BY <3>4, WaysExist
    <3>6. ASSUME NEW w, Walk(scope, w), w[1] = h
          PROVE  \E x : Joint(u, w, x) /\ WayTo(scope, w[Len(w)], x)
      <4>1. PICK x : Joint(u, w, x)
        BY DEF Joint
      <4>2. Walk(scope, u) /\ u[1] = EntryOf(scope) /\ w[1] \in forward[u[Len(u)]]
        BY <3>4, <3>5, <3>6 DEF WayTo
      <4>3. Walk(scope, x) /\ x[1] = u[1] /\ x[Len(x)] = w[Len(w)]
        BY <3>6, <4>1, <4>2, Joined
      <4>. QED
        BY <4>1, <4>2, <4>3 DEF WayTo
    <3>7. u \in Seq(S)
      BY <3>5 DEF WayTo, Walk
    <3>. HIDE DEF S, h
    <3>. QED
      BY <3>6, <3>7
  <2>. QED
    BY <2>1, <2>2
<1>3. \E v \in Seq(S) : \A w : WayTo(scope, l, w) =>
        \E x : Joint(w, v, x) /\ WayTo(scope, b, x)
  <2>1. CASE ~(j < n)
    <3>1. l = b
      BY <2>1 DEF LeftAt
    <3>2. ASSUME NEW w, WayTo(scope, l, w)
          PROVE  Joint(w, <<>>, w) /\ WayTo(scope, b, w)
      <4>1. w \in Seq(S)
        BY <3>2 DEF WayTo, Walk
      <4>2. w \o <<>> = w
        <5>. HIDE DEF S
        <5>. QED
          BY <4>1, ConcatEmptySeq
      <4>. QED
        BY <3>1, <3>2, <4>2 DEF Joint
    <3>3. <<>> \in Seq(S)
      OBVIOUS
    <3>. HIDE DEF S
    <3>. QED
      BY <3>2, <3>3
  <2>2. CASE j < n
    <3>1. j \in 1..(n - 1) /\ j + 1 \in 1..n /\ Left(t[j], t[j + 1], l)
      BY <1>1, <2>2 DEF LeftAt
    <3>2. Precedes(scope, t[j], t[j + 1])
      BY <3>1 DEF TraceTo
    <3>3. t[j + 1][2] \in forward[l]
      BY <3>1, <3>2, StepForward DEF Precedes
    <3>4. PICK v : Walk(scope, v) /\ v[1] = t[j + 1][2] /\ v[Len(v)] = b
      BY <3>1, WaysOn
    <3>5. ASSUME NEW w, WayTo(scope, l, w)
          PROVE  \E x : Joint(w, v, x) /\ WayTo(scope, b, x)
      <4>1. PICK x : Joint(w, v, x)
        BY DEF Joint
      <4>2. Walk(scope, w) /\ w[1] = EntryOf(scope) /\ v[1] \in forward[w[Len(w)]]
        BY <3>3, <3>4, <3>5 DEF WayTo
      <4>3. Walk(scope, x) /\ x[1] = w[1] /\ x[Len(x)] = v[Len(v)]
        BY <3>4, <4>1, <4>2, Joined
      <4>. QED
        BY <3>4, <4>1, <4>2, <4>3 DEF WayTo
    <3>6. v \in Seq(S)
      BY <3>4 DEF Walk
    <3>. HIDE DEF S
    <3>. QED
      BY <3>5, <3>6
  <2>. QED
    BY <2>1, <2>2
<1>4. PICK u \in Seq(S) : \A w : Walk(scope, w) /\ w[1] = h =>
        \E x : Joint(u, w, x) /\ WayTo(scope, w[Len(w)], x)
  BY <1>2
<1>5. PICK v \in Seq(S) : \A w : WayTo(scope, l, w) =>
        \E x : Joint(w, v, x) /\ WayTo(scope, b, x)
  BY <1>3
<1>6. PICK pre, post \in Seq(slice.nodes) :
        \A w \in WaysTo(scope, b) : (pre \o w) \o post \in WaysTo(Null, slice.basis)
  BY DEF Embedded
<1>7. u \in Seq(slice.nodes) /\ v \in Seq(slice.nodes)
  BY AnalysisFacts, SeqWithin
<1>8. ASSUME NEW w \in WaysTo(h, l)
      PROVE  ((pre \o u) \o w) \o (v \o post) \in WaysTo(Null, slice.basis)
  <2>1. Within(t[j], l, w)
    BY DEF Within, WaysTo
  <2>2. Walk(scope, w) /\ w[1] = h /\ w[Len(w)] = l
    BY <1>1, <2>1, WithinFacts
  <2>3. PICK x : Joint(u, w, x) /\ WayTo(scope, l, x)
    BY <1>4, <2>2
  <2>4. PICK y : Joint(x, v, y) /\ WayTo(scope, b, y)
    BY <1>5, <2>3
  <2>5. (pre \o y) \o post \in WaysTo(Null, slice.basis)
    <3>1. y \in WaysTo(scope, b)
      BY <2>4 DEF WaysTo, WayTo, Walk
    <3>. QED
      BY <1>6, <3>1
  <2>6. w \in Seq(slice.nodes)
    BY <2>2, AnalysisFacts, SeqWithin DEF Walk
  <2>7. Regrouped(pre, u, w, v, post)
    BY <1>7, <2>6, JoinFive
  <2>8. y = (u \o w) \o v
    BY <2>3, <2>4 DEF Joint
  <2>. QED
    BY Zenon, <2>5, <2>7, <2>8 DEF Regrouped
<1>9. pre \o u \in Seq(slice.nodes) /\ v \o post \in Seq(slice.nodes)
  BY <1>7, ConcatProperties
<1>. QED
  BY <1>8, <1>9 DEF Embedded

LEMMA EmbeddedFew ==
  ASSUME Analysed, NEW s \in Scopes, NEW b, Embedded(s, b), IsFiniteSet(WaysTo(Null, slice.basis))
  PROVE  Cardinality(WaysTo(s, b)) <= Cardinality(WaysTo(Null, slice.basis))
<1>. DEFINE N == slice.nodes
            W == WaysTo(s, b)
            V == WaysTo(Null, slice.basis)
<1>1. PICK pre, post \in Seq(N) : \A w \in W : (pre \o w) \o post \in V
  BY DEF Embedded
<1>. DEFINE f == [w \in W |-> (pre \o w) \o post]
<1>2. \A w \in W : w \in Seq(N)
  <2>1. InScope(s) \subseteq N
    BY AnalysisFacts
  <2>. QED
    BY <2>1, SeqWithin DEF WaysTo
<1>3. ASSUME NEW w \in W, NEW x \in W, (pre \o w) \o post = (pre \o x) \o post
      PROVE  w = x
  <2>. HIDE DEF N, W
  <2>1. pre \o w \in Seq(N) /\ pre \o x \in Seq(N) /\ w \in Seq(N) /\ x \in Seq(N)
    BY <1>2, ConcatProperties
  <2>2. pre \o w = pre \o x
    BY <1>3, <2>1, ConcatSimplifications
  <2>. QED
    BY <2>1, <2>2, ConcatSimplifications
<1>. HIDE DEF W, V, N
<1>4. f \in [W -> V] /\ \A w, x \in W : f[w] = f[x] => w = x
  BY <1>1, <1>3
<1>. HIDE DEF f
<1>5. f \in Injection(W, V)
  BY <1>4 DEF Injection, IsInjective
<1>. QED
  BY <1>5, FS_Injection DEF W, V

------------------------------------------------------------------------------
(* What is known at any time of what is still to come. *)

SearchWhole == PathsComplete /\ (hist # <<>> => Complete(hist, left, found))

CallsWanted ==
  /\ calls # <<>> => calls[1] = <<Null, slice.basis>> /\ ~Answered
  /\ \A k \in 2..Len(calls) : calls[k][1] # Null
  /\ \A k \in 1..Len(calls) : Embedded(calls[k][1], calls[k][2])

FaultKnown == fault # "path" /\ (fault = "stack" => ~Reducible)

WholeInv == Roomy /\ SearchWhole /\ CallsWanted /\ CacheWhole /\ FaultKnown

LEMMA WaysUnmoved ==
  ASSUME slice' = slice, forward' = forward, loops' = loops
  PROVE  /\ \A s, i, w : ChainTo(s, i, w)' <=> ChainTo(s, i, w)
         /\ \A s, f, w : Seen(s, f, w)' <=> Seen(s, f, w)
         /\ \A s, b : /\ WaysTo(s, b)' = WaysTo(s, b)
                      /\ Embedded(s, b)' <=> Embedded(s, b)
                      /\ Few(s, b)' <=> Few(s, b)
         /\ Reducible' <=> Reducible
         /\ Roomy' <=> Roomy
<1>1. \A s : InScope(s)' = InScope(s) /\ Condensed(s)' = Condensed(s)
  BY Unmoved
<1>2. \A s, i, w : ChainTo(s, i, w)' <=> ChainTo(s, i, w)
  BY <1>1, Unmoved DEF ChainTo
<1>3. \A s, f, w : Seen(s, f, w)' <=> Seen(s, f, w)
  BY <1>1 DEF Seen
<1>4. \A s, b : WaysTo(s, b)' = WaysTo(s, b)
  BY <1>1, Unmoved DEF WaysTo
<1>5. \A s, b : Few(s, b)' <=> Few(s, b)
  BY <1>4 DEF Few
<1>6. \A s, b : Embedded(s, b)' <=> Embedded(s, b)
  BY <1>4 DEF Embedded
<1>7. (Reducible' <=> Reducible) /\ (Roomy' <=> Roomy)
  BY DEF Reducible, Roomy
<1>. QED
  BY <1>2, <1>3, <1>4, <1>5, <1>6, <1>7

(* The parts of the invariant that a step leaves alone. *)
LEMMA WholeKept ==
  ASSUME slice' = slice, forward' = forward, loops' = loops
  PROVE  /\ paths' = paths => (PathsComplete' <=> PathsComplete)
         /\ calls' = calls => /\ (Complete(hist, left, found)' <=> Complete(hist', left', found'))
                              /\ (cache' = cache => (CallsWanted' <=> CallsWanted))
         /\ cache' = cache => (CacheWhole' <=> CacheWhole)
         /\ fault' = fault => (FaultKnown' <=> FaultKnown)
<1>1. ASSUME paths' = paths
      PROVE  PathsComplete' <=> PathsComplete
  BY <1>1, Unmoved, WaysUnmoved DEF PathsComplete
<1>2. ASSUME calls' = calls
      PROVE  Complete(hist, left, found)' <=> Complete(hist', left', found')
  <2>1. Scope' = Scope /\ Mark' = Mark
    BY <1>2, Unmoved DEF Scope, Mark, Term, Call
  <2>2. \A w : Chain(w)' <=> Chain(w)
    BY <2>1, Unmoved DEF Chain
  <2>3. \A w : Seen(Scope, found, w)' <=> Seen(Scope, found', w)
    BY <2>1, Unmoved DEF Seen
  <2>. QED
    BY <2>2, <2>3 DEF Complete, AwaitsUpTo
<1>3. ASSUME calls' = calls, cache' = cache
      PROVE  CallsWanted' <=> CallsWanted
  BY <1>3, WaysUnmoved DEF CallsWanted, Answered
<1>4. ASSUME cache' = cache
      PROVE  CacheWhole' <=> CacheWhole
  <2>1. \A c : Whole(c)' <=> Whole(c)
    BY <1>4, WaysUnmoved DEF Whole
  <2>. QED
    BY <1>4, <2>1, WaysUnmoved DEF CacheWhole
<1>5. ASSUME fault' = fault
      PROVE  FaultKnown' <=> FaultKnown
  BY <1>5, WaysUnmoved DEF FaultKnown
<1>. QED
  BY <1>1, <1>2, <1>3, <1>4, <1>5

LEMMA WholeInit ==
  ASSUME StackLimit \in Nat, NEW graphs,
         \A s \in graphs : Sliced(s) /\ Cardinality(s.nodes) <= StackLimit,
         UnrollInit(graphs)
  PROVE  WholeInv
<1>1. \A f : f = <<>> => DOMAIN f = {} /\ Len(f) = 0
  OBVIOUS
<1>2. DOMAIN paths = {} /\ DOMAIN cache = {} /\ hist = <<>> /\ calls = <<>> /\ Len(calls) = 0
      /\ fault = "none" /\ slice \in graphs
  BY <1>1 DEF UnrollInit, DagInit
<1>3. Roomy
  BY <1>2 DEF Roomy
<1>4. SearchWhole /\ CacheWhole /\ FaultKnown
  BY <1>2 DEF SearchWhole, PathsComplete, CacheWhole, FaultKnown
<1>5. CallsWanted
  <2>1. \A k : k \notin 2..0 /\ k \notin 1..0
    OBVIOUS
  <2>. QED
    BY <1>2, <2>1 DEF CallsWanted
<1>. QED
  BY <1>3, <1>4, <1>5 DEF WholeInv

LEMMA WholeBuild ==
  ASSUME UnrollInv, UnrollInv', WholeInv,
         NEW scope \in unbuilt, Build(scope), UNCHANGED <<calls, cache>>
  PROVE  WholeInv'
<1>1. /\ UNCHANGED <<slice, forward, loops, paths, hist, left, found>>
      /\ UNCHANGED <<calls, cache>> /\ fault = "none" /\ calls = <<>> /\ hist = <<>>
  BY DEF Build, UnrollInv, CallsKnown
<1>2. fault' = "none"
  BY DEF Build, UnrollInv, GraphsKnown
<1>3. PathsComplete' /\ CallsWanted' /\ CacheWhole'
  BY <1>1, WholeKept DEF WholeInv, SearchWhole
<1>4. Roomy'
  BY <1>1, WaysUnmoved DEF WholeInv
<1>. QED
  BY <1>1, <1>2, <1>3, <1>4 DEF WholeInv, SearchWhole, FaultKnown

LEMMA WholeAsk ==
  ASSUME UnrollInv, WholeInv, Ask
  PROVE  WholeInv'
<1>1. /\ UNCHANGED <<slice, forward, loops, paths, hist, left, found, fault>>
      /\ UNCHANGED cache /\ cache = <<>> /\ hist = <<>> /\ Analysed
      /\ calls' = <<<<Null, slice.basis>>>>
  BY DEF Ask, dagVars, UnrollInv, GraphsKnown
<1>2. PathsComplete' /\ CacheWhole' /\ FaultKnown' /\ Roomy'
  BY <1>1, WholeKept, WaysUnmoved DEF WholeInv, SearchWhole
<1>3. Embedded(Null, slice.basis)
  <2>1. ASSUME NEW w \in WaysTo(Null, slice.basis)
        PROVE  (<<>> \o w) \o <<>> \in WaysTo(Null, slice.basis)
    <3>1. w \in Seq(InScope(Null))
      BY DEF WaysTo
    <3>2. <<>> \o w = w /\ w \o <<>> = w
      BY <3>1, ConcatEmptySeq
    <3>. QED
      BY <3>2
  <2>2. <<>> \in Seq(slice.nodes)
    OBVIOUS
  <2>. QED
    BY <2>1, <2>2 DEF Embedded
<1>4. CallsWanted'
  <2>1. \A x : Len(<<x>>) = 1 /\ <<x>>[1] = x
    OBVIOUS
  <2>2. Len(calls') = 1 /\ calls'[1] = <<Null, slice.basis>>
    BY <1>1, <2>1
  <2>3. \A f : f = <<>> => DOMAIN f = {}
    OBVIOUS
  <2>4. ~Answered'
    BY <1>1, <2>3 DEF Answered
  <2>5. \A k : k \notin 2..1 /\ (k \in 1..1 => k = 1)
    OBVIOUS
  <2>6. slice.basis' = slice.basis /\ \A x, y : <<x, y>>[1] = x /\ <<x, y>>[2] = y
    BY <1>1
  <2>8. ASSUME NEW k \in 1..Len(calls')
        PROVE  Embedded(calls[k][1], calls[k][2])'
    <3>1. calls'[k][1] = Null /\ calls'[k][2] = slice.basis
      BY <2>2, <2>5, <2>6
    <3>. QED
      BY <1>1, <1>3, <3>1, WaysUnmoved
  <2>. QED
    BY Zenon, <1>1, <2>2, <2>4, <2>5, <2>6, <2>8 DEF CallsWanted
<1>. QED
  BY <1>1, <1>2, <1>4 DEF WholeInv, SearchWhole

(* The stack has room for all calls of DFS on a reducible slice.           *)
LEMMA VisitOverflows ==
  ASSUME GraphsKnown, CallsKnown, Roomy, calls # <<>>,
         NEW stack, NEW pending, Chain(stack), Visit(Scope, stack, pending),
         fault = "none", fault' = "stack"
  PROVE  ~Reducible
<1>1. Analysed /\ Scope \in Scopes
  BY CallFacts
<1>2. Len(stack) \in Nat /\ StackLimit \in Nat
  BY ChainFacts DEF Roomy
<1>3. Len(stack) > StackLimit
  <2>1. UNCHANGED fault \/ Len(stack) > StackLimit
    BY Zenon DEF Visit
  <2>. QED
    BY <2>1
<1>4. ChainTo(Scope, Mark, stack)
  BY DEF Chain, ChainTo
<1>5. Cardinality(slice.nodes) \in Nat
  BY <1>1, FS_CardinalityType DEF Analysed, Sliced
<1>. QED
  BY <1>1, <1>2, <1>3, <1>4, <1>5, ChainsShort DEF Roomy

LEMMA WholeSearch ==
  ASSUME UnrollInv, WholeInv, Search
  PROVE  WholeInv'
<1>1. /\ GraphsKnown /\ CallsKnown /\ calls # <<>> /\ fault = "none" /\ Roomy
      /\ Analysed /\ Scope \in Scopes /\ PathsComplete
      /\ UNCHANGED <<calls, cache>>
      /\ UNCHANGED <<slice, forward, loops, unbuilt, dags>>
      /\ hist # <<>> => SearchKnown /\ Complete(hist, left, found)
  <2>1. /\ GraphsKnown /\ CallsKnown /\ calls # <<>> /\ fault = "none" /\ Roomy
        /\ Analysed /\ PathsComplete
        /\ UNCHANGED <<calls, cache>>
        /\ UNCHANGED <<slice, forward, loops, unbuilt, dags>>
        /\ hist # <<>> => SearchKnown /\ Complete(hist, left, found)
    BY DEF UnrollInv, GraphsKnown, WholeInv, SearchWhole, Search, Active, Start, Descend, Retreat
  <2>. QED
    BY <2>1, CallFacts
<1>2. Roomy' /\ CallsWanted' /\ CacheWhole'
  BY <1>1, WholeKept, WaysUnmoved DEF WholeInv
<1>3. UNCHANGED fault => FaultKnown'
  BY <1>1, WholeKept DEF WholeInv
<1>4. ASSUME UNCHANGED paths, FaultKnown',
             \/ UNCHANGED <<hist, left, found>>
             \/ Complete(hist', left', found')
      PROVE  WholeInv'
  <2>1. PathsComplete'
    BY <1>1, <1>4, WholeKept
  <2>2. hist' # <<>> => Complete(hist', left', found')
    BY <1>1, <1>4
  <2>3. Complete(hist, left, found)' <=> Complete(hist', left', found')
    BY <1>1, WholeKept
  <2>. QED
    BY <1>2, <1>4, <2>1, <2>2, <2>3 DEF WholeInv, SearchWhole
<1>5. ASSUME NEW stack, NEW pending, Chain(stack), Visit(Scope, stack, pending)
      PROVE  FaultKnown'
  <2>1. CASE UNCHANGED fault
    BY <1>3, <2>1
  <2>2. CASE ~UNCHANGED fault
    <3>1. fault' = "stack"
      BY <1>5, <2>2 DEF Visit
    <3>2. ~Reducible /\ (Reducible' <=> Reducible)
      BY <1>1, <1>5, <3>1, VisitOverflows, WaysUnmoved
    <3>. QED
      BY <3>1, <3>2 DEF FaultKnown
  <2>. QED
    BY <2>1, <2>2
<1>6. CASE Start(Scope, Mark)
  <2>1. UNCHANGED paths /\ Visit(Scope, <<Mark>>, <<>>)
    BY <1>6 DEF Start
  <2>2. Chain(<<Mark>>)
    <3>1. Mark \in Condensed(Scope).items
      BY <1>1, CallFacts, ItemsOf DEF Mark
    <3>2. \A S, x : x \in S => <<x>> \in Seq(S) /\ <<x>> # <<>> /\ Len(<<x>>) = 1 /\ <<x>>[1] = x
      OBVIOUS
    <3>3. \A k : k \notin 1..(1 - 1)
      OBVIOUS
    <3>. QED
      BY Zenon, <3>1, <3>2, <3>3 DEF Chain
  <2>3. FaultKnown'
    BY <1>5, <2>1, <2>2
  <2>. QED
    BY <1>1, <1>4, <1>6, <2>1, <2>3, StartCompletes
<1>7. CASE Descend(Scope)
  <2>1. SearchKnown /\ Complete(hist, left, found) /\ UNCHANGED paths
    BY <1>1, <1>7 DEF Descend, Searching
  <2>2. PICK p \in left[Len(left)] : Visit(Scope, Append(hist, p), Rest(p))
    BY <1>7 DEF Descend, Rest
  <2>3. Chain(Append(hist, p))
    BY <2>1, DescendChain
  <2>4. FaultKnown'
    BY <1>5, <2>2, <2>3
  <2>. QED
    BY <1>1, <1>4, <1>7, <2>1, <2>4, DescendCompletes
<1>8. CASE Retreat(Scope)
  <2>1. SearchKnown /\ Complete(hist, left, found) /\ FaultKnown' /\ hist # <<>>
    BY <1>1, <1>3, <1>8 DEF Retreat, Searching
  <2>2. CASE Len(hist) > 1
    BY <1>1, <1>4, <1>8, <2>1, <2>2, RetreatCompletes DEF Retreat
  <2>3. CASE ~(Len(hist) > 1)
    <3>1. /\ paths' = Inserted(paths, <<Scope, hist[1]>>, found)
          /\ hist' = SubSeq(hist, 1, Len(hist) - 1)
      BY <1>8, <2>3 DEF Retreat, Front
    <3>2. /\ hist \in Seq(Condensed(Scope).items) /\ Len(hist) = 1 /\ hist[1] = Mark
      BY <2>1, <2>3, EmptySeq, LenProperties DEF SearchKnown, Searched, Chain
    <3>3. hist' = <<>>
      BY <3>1, <3>2, SubSeqEmpty
    <3>4. \A w : ChainTo(Scope, Mark, w) => Seen(Scope, found, w)
      BY <1>8, <2>1, <2>3, RetreatEnds DEF Chain, ChainTo
    <3>5. Grown(paths', paths, <<Scope, hist[1]>>, found)
      BY <3>1 DEF Grown
    <3>6. PathsComplete'
      <4>1. ASSUME NEW s \in Scopes, NEW item, <<s, item>> \in DOMAIN paths',
                   NEW w, ChainTo(s, item, w)
            PROVE  Seen(s, paths'[<<s, item>>], w)
        <5>. DEFINE c == <<s, item>>
        <5>0. PICK key : key = <<Scope, hist[1]>> /\ Grown(paths', paths, key, found)
          BY <3>5
        <5>1. DOMAIN paths' = (DOMAIN paths) \cup {key}
              /\ (\A x \in DOMAIN paths : paths'[x] = paths[x])
              /\ (key \notin DOMAIN paths => paths'[key] = found)
          BY <5>0 DEF Grown, Inserted
        <5>2. c \in DOMAIN paths'
          BY <4>1
        <5>3. CASE c \in DOMAIN paths
          <6>1. paths'[c] = paths[c]
            <7>. HIDE DEF c
            <7>. QED
              BY <5>1, <5>3
          <6>2. Seen(s, paths[c], w)
            BY <1>1, <4>1, <5>3 DEF PathsComplete
          <6>. QED
            BY <6>1, <6>2
        <5>4. CASE c \notin DOMAIN paths
          <6>1. c = key /\ paths'[c] = found
            <7>. HIDE DEF c
            <7>. QED
              BY <5>1, <5>2, <5>4
          <6>2. s = Scope /\ item = Mark
            BY <3>2, <5>0, <6>1
          <6>. QED
            BY <3>4, <4>1, <6>1, <6>2
        <5>. QED
          BY <5>3, <5>4
      <4>2. Scopes' = Scopes
            /\ (\A s, i, w : ChainTo(s, i, w)' <=> ChainTo(s, i, w))
            /\ (\A s, f, w : Seen(s, f, w)' <=> Seen(s, f, w))
        BY <1>1, Unmoved, WaysUnmoved
      <4>. QED
        BY <4>1, <4>2 DEF PathsComplete
    <3>. QED
      BY <1>2, <2>1, <3>3, <3>6 DEF WholeInv, SearchWhole
  <2>. QED
    BY <2>2, <2>3
<1>. QED
  BY <1>6, <1>7, <1>8 DEF Search

LEMMA CalleeWanted ==
  ASSUME UnrollInv, Flattened, Embedded(Scope, Term), NEW callee \in Missing
  PROVE  callee[1] # Null /\ Embedded(callee[1], callee[2])
<1>1. /\ Analysed /\ Scope \in Scopes /\ Term \in InScope(Scope)
      /\ \A t \in Traces : TraceTo(Scope, Item(Scope, Term), t)
  BY TraceFacts, CallFacts DEF Mark
<1>2. PICK t \in Traces : callee \in Callees(t)
  BY DEF Missing
<1>3. /\ TraceTo(Scope, Item(Scope, Term), t) /\ DOMAIN t = 1..Len(t)
      /\ \A j \in 1..Len(t) : t[j] \in Condensed(Scope).items
  BY <1>1, <1>2, TraceItems
<1>4. PICK j \in 1..Len(t) : IsLoop(t[j]) /\ callee \in {<<t[j][2], l>> : l \in Links(t, j)}
  BY <1>2, <1>3 DEF Callees
<1>5. PICK l \in Links(t, j) : callee = <<t[j][2], l>>
  BY <1>4
<1>6. LeftAt(t, Term, j, l)
  BY <1>4, <1>5 DEF LeftAt, Left, Links
<1>7. Embedded(t[j][2], l)
  BY <1>1, <1>3, <1>4, <1>6, CalleeEmbedded
<1>8. t[j][2] # Null
  <2>1. PICK h \in DOMAIN loops : t[j] = Loop(h)
    BY <1>1, <1>3, <1>4, ItemsOf, Tags
  <2>. QED
    BY <1>1, <2>1, AnalysisFacts, Tags
<1>. QED
  BY <1>5, <1>7, <1>8

(* The call that is active last. *)
LEMMA LastCall ==
  ASSUME UnrollInv, calls # <<>>
  PROVE  /\ calls \in Seq((DOMAIN dags) \X slice.nodes)
         /\ Len(calls) \in Nat \ {0} /\ Call = calls[Len(calls)]
         /\ Call = <<Scope, Term>>
<1>1. calls \in Seq((DOMAIN dags) \X slice.nodes)
  BY DEF UnrollInv, CallsKnown
<1>2. Len(calls) \in Nat \ {0} /\ Call = calls[Len(calls)]
  BY <1>1, EmptySeq, LenProperties DEF Call, Last
<1>3. Call \in (DOMAIN dags) \X slice.nodes
  <2>1. Len(calls) \in 1..Len(calls)
    BY <1>2
  <2>. QED
    BY <1>1, <1>2, <2>1, ElementOfSeq
<1>. QED
  BY <1>1, <1>2, <1>3 DEF Scope, Term

LEMMA WholeRecurse ==
  ASSUME UnrollInv, WholeInv, Recurse
  PROVE  WholeInv'
<1>1. PICK callee \in Missing : calls' = Append(calls, callee)
  BY DEF Recurse
<1>2. /\ UNCHANGED <<slice, forward, loops, paths, hist, left, found, fault>>
      /\ UNCHANGED cache /\ Flattened
  BY DEF Recurse, dagVars
<1>3. calls # <<>> /\ hist = <<>>
  BY <1>2, TraceFacts
<1>4. PathsComplete' /\ CacheWhole' /\ FaultKnown' /\ Roomy'
  BY <1>2, WholeKept, WaysUnmoved DEF WholeInv, SearchWhole
<1>. DEFINE n == Len(calls)
<1>5. /\ n \in Nat \ {0} /\ Len(calls') = n + 1
      /\ \A k \in 1..n : calls'[k] = calls[k]
      /\ calls'[n + 1] = callee
  <2>. DEFINE S == (DOMAIN dags) \X slice.nodes
  <2>1. calls \in Seq(S) /\ n \in Nat \ {0}
    BY <1>3, LastCall
  <2>2. callee \in S
    <3>1. PICK t \in Traces : callee \in Callees(t)
      BY <1>1 DEF Missing
    <3>. QED
      BY <1>2, <3>1, CalleeFacts
  <2>. HIDE DEF S
  <2>. QED
    BY <1>1, <2>1, <2>2, AppendProperties
<1>6. callee[1] # Null /\ Embedded(callee[1], callee[2])
  <2>1. calls[n] = <<Scope, Term>>
    BY <1>3, LastCall
  <2>2. Embedded(calls[n][1], calls[n][2])
    BY <1>5 DEF WholeInv, CallsWanted
  <2>3. Embedded(Scope, Term)
    BY <2>1, <2>2
  <2>. QED
    BY <1>1, <1>2, <2>3, CalleeWanted
<1>7. /\ calls[1] = <<Null, slice.basis>> /\ ~Answered
      /\ \A k \in 2..n : calls[k][1] # Null
      /\ \A k \in 1..n : Embedded(calls[k][1], calls[k][2])
  BY <1>3 DEF WholeInv, CallsWanted
<1>. HIDE DEF n
<1>8. 1 \in 1..n /\ \A k \in 1..(n + 1) : k = n + 1 \/ (k \in 1..n /\ (k # 1 => k \in 2..n))
  BY <1>5
<1>9. \A k \in 2..(n + 1) : calls'[k][1] # Null
  <2>1. \A k \in 2..(n + 1) : k \in 1..(n + 1) /\ k # 1
    BY <1>5
  <2>. QED
    BY <1>5, <1>6, <1>7, <1>8, <2>1
<1>10. \A k \in 1..(n + 1) : Embedded(calls'[k][1], calls'[k][2])
  BY <1>5, <1>6, <1>7, <1>8
<1>11. CallsWanted'
  <2>1. calls'[1] = <<Null, slice.basis>>' /\ ~Answered'
    BY <1>2, <1>5, <1>7, <1>8 DEF Answered
  <2>2. ASSUME NEW k \in 1..(n + 1)
        PROVE  Embedded(calls[k][1], calls[k][2])'
    <3>1. PICK s, b : s = calls'[k][1] /\ b = calls'[k][2]
      OBVIOUS
    <3>2. Embedded(s, b)
      BY <1>10, <3>1
    <3>. QED
      BY <1>2, <3>1, <3>2, WaysUnmoved
  <2>. QED
    BY <1>5, <1>9, <2>1, <2>2 DEF CallsWanted
<1>. QED
  BY <1>2, <1>3, <1>4, <1>11 DEF WholeInv, SearchWhole

(* What a call returns. *)
LEMMA ReturnWhole ==
  ASSUME UnrollLimit \in Nat \ {0}, UnrollInv, WholeInv, Return
  PROVE  /\ calls' = Front(calls) /\ UNCHANGED fault
         /\ Embedded(Scope, Term) /\ \A p \in WaysTo(Scope, Term) : Distinct(p)
         /\ \E all, first :
              /\ Grown(cache', cache, Call, [all |-> all, first |-> first])
              /\ first # {}
              /\ (\A c \in DOMAIN cache : Few(c[1], c[2])) /\ Few(Scope, Term)
                   => all = WaysTo(Scope, Term) /\ first = all
<1>1. /\ Flattened /\ Missing = {} /\ StackLimit \in Nat /\ PathsComplete /\ CacheWhole
      /\ CallsWanted
  BY DEF Return, WholeInv, Roomy, SearchWhole
<1>2. /\ GraphsKnown /\ CallsKnown /\ CacheKnown /\ calls # <<>> /\ Analysed
      /\ Scope \in Scopes /\ \A t \in Traces : TraceTo(Scope, Mark, t)
  BY <1>1, TraceFacts, CallFacts
<1>. DEFINE all == UNION {Unrolled(t) : t \in Traces}
<1>3. all # {} /\ Traces # {}
  <2>1. PICK t \in Traces : Unrolled(t) # {}
    BY <1>1, UnrolledSome
  <2>. QED
    BY <2>1
<1>4. \A t \in Traces : Last(t) = Mark
  BY <1>2 DEF TraceTo, Last
<1>5. PICK first \in kSubset(Least(UnrollLimit, Cardinality(all)), all) :
         cache' = Inserted(cache, Call, [all |-> all, first |-> first])
  BY <1>3, <1>4 DEF Return
<1>6. calls' = Front(calls) /\ UNCHANGED fault
  BY <1>3, <1>4 DEF Return
<1>7. first \in SUBSET all /\ Cardinality(first) = Least(UnrollLimit, Cardinality(all))
  BY <1>5 DEF kSubset
<1>8. Grown(cache', cache, Call, [all |-> all, first |-> first])
  BY <1>5 DEF Grown
<1>9. all \subseteq WaysTo(Scope, Term)
  <2>1. ASSUME NEW t \in Traces, NEW p \in Unrolled(t)
        PROVE  p \in WaysTo(Scope, Term)
    <3>1. Callees(t) \subseteq DOMAIN cache
      BY <1>1 DEF Missing
    <3>2. WayTo(Scope, Term, p)
      BY <1>2, <2>1, <3>1, UnrolledFacts
    <3>. QED
      BY <3>2 DEF WaysTo, WayTo, Walk
  <2>. QED
    BY <2>1
<1>10. \A p \in WaysTo(Scope, Term) : Distinct(p)
  BY <1>1, WaysDistinct
<1>11. (\A c \in DOMAIN cache : Whole(c)) => all = WaysTo(Scope, Term)
  <2>1. ASSUME \A c \in DOMAIN cache : Whole(c), NEW p \in WaysTo(Scope, Term)
        PROVE  p \in all
    <3>1. PICK t \in Traces : p \in Unrolled(t)
      BY <1>1, <2>1, UnrolledWhole
    <3>. QED
      BY <3>1
  <2>. QED
    BY <1>9, <2>1
<1>. HIDE DEF all
<1>12. IsFiniteSet(all)
  <2>1. IsFiniteSet(slice.nodes) /\ InScope(Scope) \subseteq slice.nodes
    BY <1>2, AnalysisFacts DEF Analysed, Sliced
  <2>2. \A p \in all : p \in Seq(slice.nodes) /\ Distinct(p)
    BY <1>9, <1>10, <2>1, SeqWithin DEF WaysTo
  <2>. QED
    BY <2>1, <2>2, DistinctFinite
<1>13. Cardinality(all) \in Nat \ {0}
  BY <1>3, <1>12, FS_CardinalityType, FS_EmptySet
<1>14. first # {}
  <2>1. Least(UnrollLimit, Cardinality(all)) # 0
    BY <1>13 DEF Least
  <2>. QED
    BY <1>7, <2>1, FS_EmptySet
<1>15. Cardinality(all) <= UnrollLimit => first = all
  <2>1. Cardinality(all) <= UnrollLimit => Cardinality(first) = Cardinality(all)
    BY <1>7, <1>13 DEF Least
  <2>. QED
    BY <1>7, <1>12, <2>1, FS_Subset
<1>16. (\A c \in DOMAIN cache : Few(c[1], c[2])) /\ Few(Scope, Term)
         => all = WaysTo(Scope, Term) /\ first = all
  BY <1>1, <1>11, <1>15 DEF CacheWhole, Few
<1>17. Embedded(Scope, Term)
  <2>1. Len(calls) \in 1..Len(calls) /\ calls[Len(calls)] = <<Scope, Term>>
    BY <1>2, LastCall
  <2>2. Embedded(calls[Len(calls)][1], calls[Len(calls)][2])
    BY <1>1, <2>1 DEF CallsWanted
  <2>. QED
    BY <2>1, <2>2
<1>. QED
  BY <1>6, <1>8, <1>10, <1>14, <1>16, <1>17

LEMMA WholeReturn ==
  ASSUME UnrollLimit \in Nat \ {0}, UnrollInv, WholeInv, Return
  PROVE  WholeInv'
<1>1. /\ UNCHANGED <<slice, forward, loops, paths, hist, left, found>>
      /\ calls # <<>> /\ hist = <<>>
  BY TraceFacts DEF Return
<1>2. /\ calls' = Front(calls) /\ UNCHANGED fault
      /\ Embedded(Scope, Term) /\ \A p \in WaysTo(Scope, Term) : Distinct(p)
  BY ReturnWhole
<1>3. PICK all, first :
        /\ Grown(cache', cache, Call, [all |-> all, first |-> first])
        /\ first # {}
        /\ (\A c \in DOMAIN cache : Few(c[1], c[2])) /\ Few(Scope, Term)
             => all = WaysTo(Scope, Term) /\ first = all
  BY ReturnWhole
<1>4. PathsComplete' /\ FaultKnown' /\ Roomy'
  BY <1>1, <1>2, WholeKept, WaysUnmoved DEF WholeInv, SearchWhole
<1>5. Call = <<Scope, Term>>
  BY <1>1, LastCall
<1>6. PICK new : /\ new = [all |-> all, first |-> first]
                 /\ DOMAIN cache' = (DOMAIN cache) \cup {Call}
                 /\ \A c \in DOMAIN cache : cache'[c] = cache[c]
                 /\ Call \notin DOMAIN cache => cache'[Call] = new
  <2>1. PICK new : new = [all |-> all, first |-> first] /\ Grown(cache', cache, Call, new)
    BY <1>3
  <2>2. /\ DOMAIN cache' = (DOMAIN cache) \cup {Call}
        /\ \A c \in DOMAIN cache : cache'[c] = cache[c]
        /\ Call \notin DOMAIN cache => cache'[Call] = new
    BY <2>1 DEF Grown, Inserted
  <2>. QED
    BY <2>1, <2>2
<1>7. new.all = all /\ new.first = first
  BY <1>6
<1>8. CacheWhole
  BY DEF WholeInv
<1>9. ASSUME NEW c \in DOMAIN cache'
      PROVE  /\ cache'[c].first # {}
             /\ \A p \in WaysTo(c[1], c[2]) : Distinct(p)
             /\ Embedded(c[1], c[2])
  <2>1. CASE c \in DOMAIN cache
    BY <1>6, <1>8, <2>1 DEF CacheWhole
  <2>2. CASE c \notin DOMAIN cache
    <3>1. c = Call /\ cache'[c] = new /\ c[1] = Scope /\ c[2] = Term
      BY <1>5, <1>6, <2>2
    <3>. QED
      BY <1>2, <1>3, <1>7, <3>1
  <2>. QED
    BY <2>1, <2>2
<1>10. ASSUME \A c \in DOMAIN cache' : Few(c[1], c[2]), NEW c \in DOMAIN cache'
       PROVE  cache'[c].all = WaysTo(c[1], c[2]) /\ cache'[c].first = cache'[c].all
  <2>1. (\A d \in DOMAIN cache : Few(d[1], d[2])) /\ Few(Scope, Term)
    <3>1. Call \in DOMAIN cache' /\ Call[1] = Scope /\ Call[2] = Term
      BY <1>5, <1>6
    <3>. QED
      BY <1>6, <1>10, <3>1
  <2>2. CASE c \in DOMAIN cache
    BY <1>6, <1>8, <2>1, <2>2 DEF CacheWhole, Whole
  <2>3. CASE c \notin DOMAIN cache
    <3>1. c = Call /\ cache'[c] = new /\ c[1] = Scope /\ c[2] = Term
      BY <1>5, <1>6, <2>3
    <3>. QED
      BY <1>3, <1>7, <2>1, <3>1
  <2>. QED
    BY <2>2, <2>3
<1>11. CacheWhole'
  <2>1. \A s, b : /\ WaysTo(s, b)' = WaysTo(s, b)
                  /\ Embedded(s, b)' <=> Embedded(s, b)
                  /\ Few(s, b)' <=> Few(s, b)
    BY <1>1, WaysUnmoved
  <2>. QED
    BY <1>9, <1>10, <2>1 DEF CacheWhole, Whole
<1>. DEFINE n == Len(calls)
<1>12. /\ n \in Nat \ {0} /\ Len(calls') = n - 1
       /\ \A k \in 1..(n - 1) : calls'[k] = calls[k]
  <2>. DEFINE S == (DOMAIN dags) \X slice.nodes
  <2>1. calls \in Seq(S) /\ n \in Nat \ {0}
    BY <1>1, LastCall
  <2>. HIDE DEF S
  <2>2. calls' = SubSeq(calls, 1, n - 1)
    BY <1>2 DEF Front
  <2>. HIDE DEF n
  <2>3. n - 1 >= 0 /\ n = Len(calls)
    BY <2>1 DEF n
  <2>. QED
    BY <2>1, <2>2, <2>3
<1>13. /\ calls[1] = <<Null, slice.basis>> /\ ~Answered
       /\ \A k \in 2..n : calls[k][1] # Null
       /\ \A k \in 1..n : Embedded(calls[k][1], calls[k][2])
  BY <1>1 DEF WholeInv, CallsWanted
<1>14. Call = calls[n]
  BY <1>1, LastCall
<1>. HIDE DEF n
<1>15. /\ \A k \in 1..(n - 1) : k \in 1..n
       /\ \A k \in 2..(n - 1) : k \in 2..n /\ k \in 1..(n - 1)
       /\ n - 1 # 0 => 1 \in 1..(n - 1) /\ n \in 2..n
  BY <1>12
<1>16. CallsWanted'
  <2>1. calls' # <<>> => calls'[1] = <<Null, slice.basis>>' /\ ~Answered'
    <3>1. SUFFICES ASSUME calls' # <<>>
                   PROVE  calls'[1] = <<Null, slice.basis>>' /\ ~Answered'
      OBVIOUS
    <3>2. n - 1 # 0
      <4>1. n - 1 = 0 => calls' = <<>>
        <5>1. calls \in Seq((DOMAIN dags) \X slice.nodes)
          BY <1>1, LastCall
        <5>2. n - 1 = 0 => SubSeq(calls, 1, n - 1) = <<>>
          BY <1>12, <5>1, SubSeqEmpty
        <5>. QED
          BY <1>2, <5>2 DEF Front, n
      <4>. QED
        BY <3>1, <4>1
    <3>3. calls'[1] = <<Null, slice.basis>> /\ Call[1] # Null
      BY <1>12, <1>13, <1>14, <1>15, <3>2
    <3>4. <<Null, slice.basis>> # Call
      BY <3>3
    <3>5. <<Null, slice.basis>> \notin DOMAIN cache'
      BY <1>6, <1>13, <3>4 DEF Answered
    <3>. QED
      BY <1>1, <3>3, <3>5 DEF Answered
  <2>2. \A k \in 2..(n - 1) : calls'[k][1] # Null
    BY <1>12, <1>13, <1>15
  <2>3. ASSUME NEW k \in 1..(n - 1)
        PROVE  Embedded(calls[k][1], calls[k][2])'
    <3>1. PICK s, b : s = calls'[k][1] /\ b = calls'[k][2]
      OBVIOUS
    <3>2. calls'[k] = calls[k] /\ Embedded(calls[k][1], calls[k][2])
      BY <1>12, <1>13, <1>15
    <3>3. Embedded(s, b)
      BY <3>1, <3>2
    <3>. QED
      BY <1>1, <3>1, <3>3, WaysUnmoved
  <2>. QED
    BY <1>12, <2>1, <2>2, <2>3 DEF CallsWanted
<1>. QED
  BY <1>1, <1>4, <1>11, <1>16 DEF WholeInv, SearchWhole

(* The slice and its analyses never change. *)
LEMMA NextUnmoved ==
  ASSUME [UnrollNext]_unrollVars
  PROVE  UNCHANGED <<slice, forward, loops>>
<1>1. CASE UNCHANGED unrollVars
  BY <1>1 DEF unrollVars, dagVars
<1>2. CASE UnrollStep
  <2>1. ASSUME NEW scope \in unbuilt, Build(scope)
        PROVE  UNCHANGED <<slice, forward, loops>>
    BY <2>1 DEF Build
  <2>2. Ask \/ Recurse => UNCHANGED <<slice, forward, loops>>
    BY DEF Ask, Recurse, dagVars
  <2>3. Search \/ Return => UNCHANGED <<slice, forward, loops>>
    BY DEF Search, Return, Start, Descend, Retreat
  <2>. QED
    BY <1>2, <2>1, <2>2, <2>3 DEF UnrollStep
<1>. QED
  BY <1>1, <1>2 DEF UnrollNext, UnrollStopped

LEMMA WholeNext ==
  ASSUME UnrollLimit \in Nat \ {0}, UnrollInv, WholeInv, [UnrollNext]_unrollVars
  PROVE  WholeInv'
<1>1. UnrollInv'
  BY NextKeeps
<1>2. CASE UnrollStep
  BY <1>1, <1>2, WholeBuild, WholeAsk, WholeSearch, WholeRecurse, WholeReturn DEF UnrollStep
<1>3. CASE UNCHANGED unrollVars
  <2>1. /\ UNCHANGED <<slice, forward, loops, unbuilt, dags, paths, hist, left, found, fault>>
        /\ UNCHANGED <<calls, cache>>
    BY <1>3 DEF unrollVars, dagVars
  <2>2. PathsComplete' /\ CacheWhole' /\ FaultKnown' /\ Roomy' /\ CallsWanted'
    BY <2>1, WholeKept, WaysUnmoved DEF WholeInv, SearchWhole
  <2>3. Complete(hist, left, found)' <=> Complete(hist, left, found)
    <3>1. hist' = hist /\ left' = left /\ found' = found /\ calls' = calls
      BY <2>1
    <3>2. Complete(hist, left, found)' <=> Complete(hist', left', found')
      BY <2>1, WholeKept
    <3>. QED
      BY <3>1, <3>2
  <2>. QED
    BY <2>1, <2>2, <2>3 DEF WholeInv, SearchWhole
<1>. QED
  BY <1>2, <1>3 DEF UnrollNext, UnrollStopped

------------------------------------------------------------------------------
(* The ways through the slice, which ForwardWays collects by their length. *)

Longer(f, m) ==
  IF m = 1 THEN {<<slice.entry>>}
  ELSE UNION {{Append(p, s) : s \in forward[Last(p)]} : p \in f[m - 1]}

LEMMA LengthsExist ==
  ASSUME NEW n \in Nat
  PROVE  \E f : f = [m \in 1..n |-> Longer(f, m)]
<1>. DEFINE Upto(k) == \E f : \A m \in 1..k : f[m] = Longer(f, m)
            bad == {k \in 0..n : ~Upto(k)}
<1>1. ASSUME bad # {}
      PROVE  FALSE
  <2>1. PICK k \in bad : \A j \in bad : k <= j
    <3>1. bad \in SUBSET Nat
      OBVIOUS
    <3>. HIDE DEF bad
    <3>. QED
      BY <1>1, <3>1, LeastExists
  <2>2. k \in 0..n /\ ~Upto(k)
    OBVIOUS
  <2>3. CASE k = 0
    <3>1. \A m : m \notin 1..0
      OBVIOUS
    <3>. QED
      BY <2>2, <2>3, <3>1
  <2>4. CASE k # 0
    <3>1. k - 1 \in 0..n /\ k - 1 \notin bad
      BY <2>1, <2>2, <2>4
    <3>2. PICK g : \A m \in 1..(k - 1) : g[m] = Longer(g, m)
      BY <3>1
    <3>. DEFINE f == [m \in 1..n |-> IF m = k THEN Longer(g, k) ELSE g[m]]
    <3>3. ASSUME NEW m \in 1..k
          PROVE  f[m] = Longer(f, m)
      <4>1. m \in 1..n /\ (m # 1 => m - 1 \in 1..n /\ m - 1 # k)
        BY <2>2
      <4>2. Longer(f, m) = Longer(g, m)
        <5>1. m # 1 => f[m - 1] = g[m - 1]
          BY <4>1
        <5>. HIDE DEF f
        <5>. QED
          BY <5>1 DEF Longer
      <4>3. f[m] = IF m = k THEN Longer(g, k) ELSE g[m]
        BY <4>1
      <4>4. m # k => g[m] = Longer(g, m)
        BY <2>2, <3>2
      <4>. HIDE DEF f
      <4>. QED
        BY Zenon, <4>2, <4>3, <4>4
    <3>. QED
      BY <2>2, <3>3
  <2>. QED
    BY <2>3, <2>4
<1>2. PICK f : \A m \in 1..n : f[m] = Longer(f, m)
  <2>1. n \in 0..n /\ n \notin bad
    BY <1>1
  <2>. QED
    BY <2>1
<1>. DEFINE h == [m \in 1..n |-> f[m]]
<1>3. ASSUME NEW m \in 1..n
      PROVE  f[m] = Longer(h, m)
  <2>1. m # 1 => m - 1 \in 1..n
    OBVIOUS
  <2>2. Longer(h, m) = Longer(f, m)
    <3>1. m # 1 => h[m - 1] = f[m - 1]
      BY <2>1
    <3>. HIDE DEF h
    <3>. QED
      BY <3>1 DEF Longer
  <2>. QED
    BY Zenon, <1>2, <2>2
<1>4. h = [m \in 1..n |-> Longer(h, m)]
  BY Zenon, <1>3
<1>. QED
  BY <1>4

(* A walk from the entry of the slice over n blocks. *)
Walked(p, n) == Walk(Null, p) /\ p[1] = slice.entry /\ Len(p) = n

LEMMA WalkedFurther ==
  ASSUME Analysed, NEW n \in Nat \ {0}, NEW p
  PROVE  Walked(p, n + 1) <=> \E q : Walked(q, n) /\ \E s \in forward[Last(q)] : p = Append(q, s)
<1>. DEFINE S == InScope(Null)
<1>1. S = slice.nodes /\ \A b \in S : forward[b] \subseteq S
  BY DEF InScope, Analysed, Sliced, ForwardEdges
<1>2. ASSUME NEW q, Walked(q, n), NEW s \in forward[Last(q)]
      PROVE  Walked(Append(q, s), n + 1)
  <2>1. Walk(Null, q) /\ q[1] = slice.entry /\ Len(q) = n /\ Last(q) = q[Len(q)]
    BY <1>2 DEF Walked, Last
  <2>2. n \in 1..Len(q)
    BY <2>1
  <2>3. q[Len(q)] \in S
    BY <2>1, <2>2, WalkOf
  <2>4. s \in InScope(Null) /\ s \in forward[q[Len(q)]]
    BY <1>1, <1>2, <2>1, <2>3
  <2>. QED
    BY <2>1, <2>4, WalkAppend DEF Walked
<1>3. ASSUME Walked(p, n + 1)
      PROVE  \E q : Walked(q, n) /\ \E s \in forward[Last(q)] : p = Append(q, s)
  <2>1. /\ p \in Seq(S) /\ Len(p) = n + 1 /\ p[1] = slice.entry
        /\ \A k \in 2..(n + 1) : p[k] \in forward[p[k - 1]]
    BY <1>3 DEF Walked, Walk
  <2>. HIDE DEF S
  <2>2. PICK q, s : q = SubSeq(p, 1, n) /\ s = p[n + 1]
    OBVIOUS
  <2>3. q \in Seq(S) /\ Len(q) = n /\ \A k \in 1..n : q[k] = p[k]
    BY <2>1, <2>2
  <2>4. p = Append(q, s)
    BY <2>1, <2>2, <2>3
  <2>5. /\ 1 \in 1..n /\ n \in 1..n /\ n + 1 \in 2..(n + 1) /\ (n + 1) - 1 = n
        /\ \A k \in 2..n : k \in 2..(n + 1) /\ k \in 1..n /\ k - 1 \in 1..n
    OBVIOUS
  <2>6. s \in forward[q[n]] /\ q[1] = slice.entry
        /\ \A k \in 2..n : q[k] \in forward[q[k - 1]]
    BY <2>1, <2>2, <2>3, <2>5
  <2>7. q # <<>>
    BY <2>3
  <2>8. Walked(q, n) /\ Last(q) = q[n]
    BY <2>3, <2>6, <2>7 DEF Walked, Walk, Last, S
  <2>. QED
    BY <2>4, <2>6, <2>8
<1>. QED
  BY <1>2, <1>3

LEMMA ForwardTracesFacts ==
  ASSUME Analysed
  PROVE  ForwardTraces = {p \in WaysTo(Null, slice.basis) : Len(p) <= Cardinality(slice.nodes)}
<1>. DEFINE n == Cardinality(slice.nodes)
            long == CHOOSE f : f = [m \in 1..n |-> Longer(f, m)]
            bad == {m \in 1..n : ~(\A p : p \in long[m] <=> Walked(p, m))}
<1>1. n \in Nat /\ slice.entry \in InScope(Null)
  BY FS_CardinalityType DEF Analysed, Sliced, InScope
<1>2. ForwardTraces = {p \in UNION {long[m] : m \in DOMAIN long} : Last(p) = slice.basis}
  BY DEF ForwardTraces, ForwardWays, Longer
<1>3. long = [m \in 1..n |-> Longer(long, m)]
  <2>1. \E f : f = [m \in 1..n |-> Longer(f, m)]
    BY <1>1, LengthsExist
  <2>. QED
    BY Zenon, <2>1
<1>. HIDE DEF long
<1>4. DOMAIN long = 1..n /\ \A m \in 1..n : long[m] = Longer(long, m)
  <2>. HIDE DEF n
  <2>. QED
    BY Zenon, <1>3
<1>. HIDE DEF n
<1>5. ASSUME bad # {}
      PROVE  FALSE
  <2>1. PICK m \in bad : \A k \in bad : m <= k
    <3>1. bad \in SUBSET Nat
      OBVIOUS
    <3>. HIDE DEF bad
    <3>. QED
      BY <1>5, <3>1, LeastExists
  <2>2. m \in 1..n /\ ~(\A p : p \in long[m] <=> Walked(p, m))
    OBVIOUS
  <2>3. PICK p : ~(p \in long[m] <=> Walked(p, m))
    BY <2>2
  <2>4. CASE m = 1
    <3>1. long[m] = {<<slice.entry>>}
      BY <1>4, <2>2, <2>4 DEF Longer
    <3>2. Walked(<<slice.entry>>, 1)
      BY <1>1, WalkSingle DEF Walked
    <3>3. ASSUME Walked(p, 1)
          PROVE  p = <<slice.entry>>
      <4>1. \A S : \A q \in Seq(S) : Len(q) = 1 => q = <<q[1]>>
        OBVIOUS
      <4>. QED
        BY <3>3, <4>1 DEF Walked, Walk
    <3>. QED
      BY <2>3, <2>4, <3>1, <3>2, <3>3
  <2>5. CASE m # 1
    <3>1. m - 1 \in Nat \ {0} /\ m - 1 \in 1..n /\ m - 1 \notin bad /\ (m - 1) + 1 = m
      BY <1>1, <2>1, <2>2, <2>5
    <3>2. \A q : q \in long[m - 1] <=> Walked(q, m - 1)
      BY <3>1
    <3>3. p \in long[m] <=> \E q \in long[m - 1] : \E s \in forward[Last(q)] : p = Append(q, s)
      BY <1>4, <2>2, <2>5 DEF Longer
    <3>4. Walked(p, m) <=> \E q : Walked(q, m - 1) /\ \E s \in forward[Last(q)] : p = Append(q, s)
      <4>1. PICK k \in Nat \ {0} : k = m - 1 /\ k + 1 = m
        BY <3>1
      <4>2. Walked(p, k + 1)
              <=> \E q : Walked(q, k) /\ \E s \in forward[Last(q)] : p = Append(q, s)
        BY WalkedFurther
      <4>. QED
        BY <4>1, <4>2
    <3>. QED
      BY <2>3, <3>2, <3>3, <3>4
  <2>. QED
    BY <2>4, <2>5
<1>6. \A p : p \in UNION {long[m] : m \in DOMAIN long} <=> \E m \in 1..n : Walked(p, m)
  BY <1>4, <1>5
<1>7. \A p : Walk(Null, p) => Len(p) \in Nat \ {0} /\ p \in Seq(InScope(Null))
  BY WalkOf
<1>8. \A p : (\E m \in 1..n : Walked(p, m))
               <=> Walk(Null, p) /\ p[1] = slice.entry /\ Len(p) <= n
  BY <1>1, <1>7 DEF Walked
<1>9. ASSUME NEW p
      PROVE  p \in ForwardTraces <=> p \in WaysTo(Null, slice.basis) /\ Len(p) <= n
  <2>1. p \in ForwardTraces
          <=> Walk(Null, p) /\ p[1] = slice.entry /\ Len(p) <= n /\ p[Len(p)] = slice.basis
    BY <1>2, <1>6, <1>8 DEF Last
  <2>. QED
    BY <1>7, <2>1 DEF WaysTo, WayTo, EntryOf
<1>. QED
  BY <1>9 DEF n

(* When no way to the fetch goes through a block twice, none is longer     *)
(* than those that ForwardWays collects.                                   *)
LEMMA ForwardTracesDistinct ==
  ASSUME Analysed, \A p \in WaysTo(Null, slice.basis) : Distinct(p)
  PROVE  ForwardTraces = WaysTo(Null, slice.basis) /\ IsFiniteSet(ForwardTraces)
<1>1. IsFiniteSet(slice.nodes) /\ InScope(Null) = slice.nodes
  BY DEF Analysed, Sliced, InScope
<1>2. \A p \in WaysTo(Null, slice.basis) : p \in Seq(slice.nodes) /\ Distinct(p)
  BY <1>1 DEF WaysTo
<1>3. /\ IsFiniteSet(WaysTo(Null, slice.basis))
      /\ \A p \in WaysTo(Null, slice.basis) : Len(p) <= Cardinality(slice.nodes)
  BY <1>1, <1>2, DistinctFinite
<1>. QED
  BY <1>3, ForwardTracesFacts

------------------------------------------------------------------------------
(* The answer. *)

Given == IF Answered THEN cache[<<Null, slice.basis>>].all ELSE {}

AnswerWhole ==
  Answered => /\ Given # {} /\ Given \subseteq ForwardTraces
              /\ Cardinality(ForwardTraces) <= UnrollLimit => Given = ForwardTraces

LEMMA AnswerFacts ==
  ASSUME UnrollLimit \in Nat \ {0}, UnrollInv, WholeInv
  PROVE  AnswerWhole
<1>. SUFFICES ASSUME Answered
              PROVE  /\ Given # {} /\ Given \subseteq ForwardTraces
                     /\ Cardinality(ForwardTraces) <= UnrollLimit => Given = ForwardTraces
  BY DEF AnswerWhole
<1>. DEFINE c == <<Null, slice.basis>>
            V == WaysTo(Null, slice.basis)
<1>1. /\ c \in DOMAIN cache /\ Given = cache[c].all /\ c[1] = Null /\ c[2] = slice.basis
      /\ CacheWhole /\ CacheKnown /\ Analysed
  BY DEF Answered, Given, UnrollInv, WholeInv, GraphsKnown
<1>2. cache[c].first # {} /\ \A p \in V : Distinct(p)
  BY <1>1 DEF CacheWhole
<1>3. cache[c].first \subseteq cache[c].all /\ \A p \in cache[c].all : WayTo(Null, slice.basis, p)
  BY <1>1 DEF CacheKnown
<1>4. Given # {} /\ Given \subseteq V
  BY <1>1, <1>2, <1>3 DEF WaysTo, WayTo, Walk
<1>5. ForwardTraces = V /\ IsFiniteSet(V)
  BY <1>1, <1>2, ForwardTracesDistinct
<1>6. ASSUME Cardinality(V) <= UnrollLimit
      PROVE  Given = V
  <2>1. ASSUME NEW d \in DOMAIN cache
        PROVE  Few(d[1], d[2])
    <3>1. PICK s, b : s = d[1] /\ b = d[2]
      OBVIOUS
    <3>2. d = <<s, b>> /\ s \in Scopes
      BY <1>1, <2>1, <3>1 DEF CacheKnown
    <3>3. Embedded(s, b) /\ \A p \in WaysTo(s, b) : Distinct(p)
      BY <1>1, <2>1, <3>1 DEF CacheWhole
    <3>4. Cardinality(WaysTo(s, b)) <= Cardinality(V)
      BY <1>1, <1>5, <3>2, <3>3, EmbeddedFew
    <3>5. IsFiniteSet(WaysTo(s, b))
      <4>1. IsFiniteSet(slice.nodes) /\ InScope(s) \subseteq slice.nodes
        BY <1>1, <3>2, AnalysisFacts DEF Analysed, Sliced
      <4>2. \A p \in WaysTo(s, b) : p \in Seq(slice.nodes) /\ Distinct(p)
        BY <3>3, <4>1, SeqWithin DEF WaysTo
      <4>. QED
        BY <4>1, <4>2, DistinctFinite
    <3>6. Cardinality(WaysTo(s, b)) \in Nat /\ Cardinality(V) \in Nat
      BY <1>5, <3>5, FS_CardinalityType
    <3>7. Few(s, b)
      BY <1>6, <3>4, <3>6 DEF Few
    <3>. QED
      BY <3>1, <3>7
  <2>2. Whole(c)
    BY <1>1, <2>1 DEF CacheWhole
  <2>. QED
    BY <1>1, <2>2 DEF Whole
<1>. HIDE DEF V
<1>. QED
  BY <1>4, <1>5, <1>6

(* What the steps do to the answer and the failure.                        *)
LEMMA StepFacts ==
  ASSUME UnrollLimit \in Nat \ {0}, UnrollInv, UnrollInv', WholeInv, [UnrollNext]_unrollVars
  PROVE  /\ Answered \/ fault = "stack" => UNCHANGED <<cache, fault>>
         /\ cache' # cache => fault = "none" /\ fault' = "none"
<1>1. CASE UNCHANGED unrollVars
  BY <1>1 DEF unrollVars, dagVars
<1>2. ASSUME NEW scope \in unbuilt, Build(scope), UNCHANGED <<calls, cache>>
      PROVE  UNCHANGED <<cache, fault>>
  <2>1. fault = "none" /\ (fault' = "none" \/ fault' = "verify") /\ fault' # "verify"
    BY <1>2 DEF Build, UnrollInv, GraphsKnown
  <2>. QED
    BY <1>2, <2>1
<1>3. Answered => calls = <<>> /\ cache # <<>>
  <2>1. \A f : f = <<>> => DOMAIN f = {}
    OBVIOUS
  <2>. QED
    BY <2>1 DEF WholeInv, CallsWanted, Answered
<1>4. CASE Ask
  BY <1>3, <1>4 DEF Ask, dagVars
<1>5. ASSUME Search \/ Recurse
      PROVE  ~Answered /\ fault = "none" /\ UNCHANGED cache
  BY <1>3, <1>5 DEF Search, Recurse, Flattened, Active
<1>6. CASE Return
  <2>1. ~Answered /\ fault = "none"
    BY <1>3, <1>6 DEF Return, Flattened, Active
  <2>2. UNCHANGED fault
    BY <1>6, ReturnWhole
  <2>. QED
    BY <2>1, <2>2
<1>7. CASE UnrollStep
  BY <1>2, <1>4, <1>5, <1>6, <1>7 DEF UnrollStep
<1>. QED
  BY <1>1, <1>7 DEF UnrollNext, UnrollStopped

(* TraceSet has the Cardinality of FiniteSets, too. *)
LEMMA SameCardinality ==
  ASSUME NEW S
  PROVE  Promise!Cardinality(S) = Cardinality(S)
BY DEF Promise!Cardinality, Cardinality

(* Every step of unrolling is one that TraceSet allows, or none to it.     *)
LEMMA PromiseStep ==
  ASSUME UnrollLimit \in Nat \ {0}, UnrollInv, UnrollInv', WholeInv, WholeInv',
         AnswerWhole', [UnrollNext]_unrollVars
  PROVE  [Promise!TNext]_(Promise!tvars)
<1>1. /\ ForwardTraces' = ForwardTraces /\ Reducible' = Reducible /\ UNCHANGED slice
      /\ (Answered \/ fault = "stack" => UNCHANGED <<cache, fault>>)
      /\ (cache' # cache => fault = "none" /\ fault' = "none")
  <2>1. UNCHANGED <<slice, forward, loops>>
    BY NextUnmoved
  <2>. QED
    BY <2>1, StepFacts DEF ForwardTraces, Reducible
<1>2. CASE Answered
  <2>1. cache' = cache /\ fault' = fault /\ slice' = slice
    BY <1>1, <1>2
  <2>2. Given' = Given /\ (Answered' <=> Answered)
    BY <2>1 DEF Given, Answered
  <2>. QED
    BY <1>1, <2>1, <2>2 DEF Promise!tvars, Given
<1>3. CASE ~Answered /\ Answered'
  <2>1. cache' # cache
    BY <1>1, <1>3 DEF Answered
  <2>2. fault = "none" /\ fault' = "none"
    BY <1>1, <2>1
  <2>3. /\ Given = {} /\ Given' \in (SUBSET ForwardTraces) \ {{}}
        /\ Cardinality(ForwardTraces) <= UnrollLimit => Given' = ForwardTraces
    BY <1>1, <1>3 DEF AnswerWhole, Given
  <2>4. Promise!Answer
    BY <1>1, <2>2, <2>3, SameCardinality DEF Promise!Answer, Given
  <2>. QED
    BY <2>4 DEF Promise!TNext
<1>4. CASE ~Answered /\ ~Answered'
  <2>1. Given = {} /\ Given' = {}
    BY <1>4 DEF Given
  <2>2. CASE (fault' = "stack") <=> (fault = "stack")
    BY <1>1, <2>1, <2>2 DEF Promise!tvars, Given
  <2>3. CASE ~((fault' = "stack") <=> (fault = "stack"))
    <3>1. fault # "stack" /\ fault' = "stack"
      BY <1>1, <2>3
    <3>2. ~Reducible
      BY <1>1, <3>1 DEF WholeInv, FaultKnown
    <3>3. Promise!Fail
      BY <1>1, <2>1, <3>1, <3>2 DEF Promise!Fail, Given
    <3>. QED
      BY <3>3 DEF Promise!TNext
  <2>. QED
    BY <2>2, <2>3
<1>. QED
  BY <1>2, <1>3, <1>4

------------------------------------------------------------------------------
(* Theorems. *)

(* DALoop::check and the comparison of the two kinds of edges (DAG.cpp)    *)
(* never fail: every graph of every slice passes its verification.         *)
NeverRejected == fault # "verify"

(* What getUnrolled returns for a block of the slice are ways to it from   *)
(* the entry, over edges that do not lead back to the head of a loop.      *)
AnswersAreWays ==
  \A b : <<Null, b>> \in DOMAIN cache =>
    \A p \in cache[<<Null, b>>].all :
      /\ p[1] = slice.entry /\ Last(p) = b
      /\ \A i \in DOMAIN p : p[i] \in slice.nodes
      /\ \A i \in 2..Len(p) : p[i] \in forward[p[i - 1]]

LEMMA UnrollInvImplies ==
  ASSUME UnrollInv
  PROVE  NeverRejected /\ AnswersAreWays /\ LoopWaysWithin
<1>1. NeverRejected
  BY DEF UnrollInv, GraphsKnown, NeverRejected
<1>2. ASSUME NEW s, NEW b, <<s, b>> \in DOMAIN cache, NEW p \in cache[<<s, b>>].all
      PROVE  /\ p[1] = EntryOf(s) /\ Last(p) = b
             /\ \A i \in DOMAIN p : p[i] \in InScope(s)
             /\ \A i \in 2..Len(p) : p[i] \in forward[p[i - 1]]
  <2>1. p \in Seq(InScope(s)) /\ WayTo(s, b, p)
    BY <1>2 DEF UnrollInv, CacheKnown, WayTo, Walk
  <2>2. \A i \in DOMAIN p : p[i] \in InScope(s)
    BY <2>1, ElementOfSeq, LenProperties
  <2>. QED
    BY <2>1, <2>2 DEF WayTo, Walk, Last
<1>3. AnswersAreWays
  <2>1. EntryOf(Null) = slice.entry /\ InScope(Null) = slice.nodes
    BY DEF EntryOf, InScope
  <2>. QED
    BY <1>2, <2>1 DEF AnswersAreWays
<1>4. LoopWaysWithin
  <2>1. SUFFICES ASSUME NEW c \in DOMAIN cache, c[1] # Null, NEW p \in cache[c].all
                 PROVE  /\ p[1] = c[1] /\ Last(p) = c[2]
                        /\ \A i \in DOMAIN p : p[i] \in loops[c[1]]
                        /\ \A i \in 2..Len(p) : p[i] \in forward[p[i - 1]]
    BY DEF LoopWaysWithin
  <2>. DEFINE s == c[1]
              b == c[2]
  <2>2. c = <<s, b>>
    BY <2>1 DEF UnrollInv, CacheKnown
  <2>3. EntryOf(s) = s /\ InScope(s) = loops[s]
    BY <2>1 DEF EntryOf, InScope
  <2>4. /\ p[1] = EntryOf(s) /\ Last(p) = b
        /\ \A i \in DOMAIN p : p[i] \in InScope(s)
        /\ \A i \in 2..Len(p) : p[i] \in forward[p[i - 1]]
    <3>. HIDE DEF s, b
    <3>1. <<s, b>> \in DOMAIN cache /\ p \in cache[<<s, b>>].all
      BY <2>1, <2>2
    <3>. QED
      BY <1>2, <3>1
  <2>. QED
    BY <2>3, <2>4
<1>. QED
  BY <1>1, <1>3, <1>4

THEOREM UnrollInvariant ==
  ASSUME NEW graphs, \A s \in graphs : Sliced(s)
  PROVE  UnrollInit(graphs) /\ [][UnrollNext]_unrollVars => []UnrollInv
<1>1. UnrollInit(graphs) => UnrollInv
  BY InitKnown
<1>2. UnrollInv /\ [UnrollNext]_unrollVars => UnrollInv'
  BY NextKeeps
<1>. QED
  BY <1>1, <1>2, PTL

(* No graph is rejected by its verification, whatever the slice.           *)
THEOREM VerificationCorrect ==
  ASSUME NEW graphs, \A s \in graphs : Sliced(s)
  PROVE  UnrollInit(graphs) /\ [][UnrollNext]_unrollVars => []NeverRejected
<1>1. UnrollInv => NeverRejected
  BY UnrollInvImplies
<1>. QED
  BY <1>1, UnrollInvariant, PTL

(* No trace is returned that is not a way through the slice.               *)
THEOREM UnrolledCorrect ==
  ASSUME NEW graphs, \A s \in graphs : Sliced(s)
  PROVE  UnrollInit(graphs) /\ [][UnrollNext]_unrollVars => []AnswersAreWays
<1>1. UnrollInv => AnswersAreWays
  BY UnrollInvImplies
<1>. QED
  BY <1>1, UnrollInvariant, PTL

(* What is returned for the inside of a loop stays in it and is entered at *)
(* its header alone.                                                       *)
THEOREM LoopWaysCorrect ==
  ASSUME NEW graphs, \A s \in graphs : Sliced(s)
  PROVE  UnrollInit(graphs) /\ [][UnrollNext]_unrollVars => []LoopWaysWithin
<1>1. UnrollInv => LoopWaysWithin
  BY UnrollInvImplies
<1>. QED
  BY <1>1, UnrollInvariant, PTL

(* getUnrolled keeps the promise of TraceSet on every slice that the stack *)
(* has room for: it returns once, some ways to the block of the fetch, and *)
(* all of them when they are few; it is broken off on an irreducible slice *)
(* alone.                                                                  *)
THEOREM PromiseKept ==
  ASSUME StackLimit \in Nat, UnrollLimit \in Nat \ {0}, NEW graphs,
         \A s \in graphs : Sliced(s) /\ Cardinality(s.nodes) <= StackLimit
  PROVE  UnrollInit(graphs) /\ [][UnrollNext]_unrollVars
           => Promise!TInit /\ [][Promise!TNext]_(Promise!tvars)
<1>1. UnrollInit(graphs) => UnrollInv /\ WholeInv /\ Promise!TInit
  <2>1. SUFFICES ASSUME UnrollInit(graphs)
                 PROVE  UnrollInv /\ WholeInv /\ Promise!TInit
    OBVIOUS
  <2>2. UnrollInv /\ WholeInv
    BY <2>1, InitKnown, WholeInit
  <2>3. ~Answered /\ fault = "none"
    <3>1. \A f : f = <<>> => DOMAIN f = {}
      OBVIOUS
    <3>. QED
      BY <2>1, <3>1 DEF UnrollInit, DagInit, Answered
  <2>. QED
    BY <2>2, <2>3 DEF Promise!TInit
<1>2. UnrollInv /\ [UnrollNext]_unrollVars => UnrollInv'
  BY NextKeeps
<1>3. UnrollInv /\ WholeInv /\ [UnrollNext]_unrollVars => WholeInv'
  BY WholeNext
<1>4. UnrollInv /\ WholeInv => AnswerWhole
  BY AnswerFacts
<1>5. UnrollInv /\ UnrollInv' /\ WholeInv /\ WholeInv' /\ AnswerWhole'
        /\ [UnrollNext]_unrollVars => [Promise!TNext]_(Promise!tvars)
  BY PromiseStep
<1>. QED
  BY <1>1, <1>2, <1>3, <1>4, <1>5, PTL

==============================================================================
