----------------------------- MODULE EvalProofs -----------------------------
(***************************************************************************)
(* Proofs about FetchTraces and EvalGraph, for every function and every    *)
(* fetch of it that fulfil the assumptions: the traces of a fetch are ways *)
(* control can take, and the search for them fails on irreducible loops    *)
(* only; the instructions on a trace have their operands before them,      *)
(* whichever blocks the slice left out, so that no assertion of the        *)
(* construction of the graph fails; a phi and a branch get what control    *)
(* decides; and no store a load can see is trimmed away.                   *)
(***************************************************************************)
EXTENDS EvalGraph, SliceProofs

------------------------------------------------------------------------------
(* Oracle and the module proved about. *)

(* The theorems of UnrollProofs; its operators are those of Oracle. *)
U == INSTANCE UnrollProofs

(* The operators that Oracle!Unroll brings in are the same as those of U. *)
LEMMA SameClosure ==
  ASSUME NEW S, NEW G
  PROVE  U!Closure(S, G) = Closure(S, G) /\ Oracle!Closure(S, G) = Closure(S, G)
BY DEF Closure, Closed, Oracle!Closure, Oracle!Closed, U!Closure, U!Closed

(* Sequences: the last element, the others, the reverse. *)
LEMMA SameSequences ==
  ASSUME NEW s
  PROVE  /\ Oracle!Last(s) = U!Last(s) /\ Oracle!Front(s) = U!Front(s)
         /\ Oracle!Reverse(s) = U!Reverse(s)
BY DEF Oracle!Last, U!Last, Oracle!Front, U!Front, Oracle!Reverse, U!Reverse

(* The size of a set, and its subsets of a size. *)
LEMMA SameCount ==
  ASSUME NEW S, NEW k
  PROVE  Oracle!Cardinality(S) = U!Cardinality(S) /\ U!Cardinality(S) = Cardinality(S)
         /\ (U!IsFiniteSet(S) <=> IsFiniteSet(S))
         /\ Oracle!kSubset(k, S) = U!kSubset(k, S)
<1>1. \A T : Oracle!Cardinality(T) = U!Cardinality(T)
  BY DEF Oracle!Cardinality, U!Cardinality
<1>2. U!Cardinality(S) = Cardinality(S)
  BY DEF Cardinality, U!Cardinality
<1>3. (U!IsFiniteSet(S) <=> IsFiniteSet(S))
  BY DEF IsFiniteSet, U!IsFiniteSet
<1>4. Oracle!kSubset(k, S) = U!kSubset(k, S)
  BY <1>1 DEF Oracle!kSubset, U!kSubset
<1>. QED
  BY <1>1, <1>2, <1>3, <1>4

(* The item a block belongs to in a scope. *)
LEMMA SameItems ==
  ASSUME NEW scope
  PROVE  /\ \A b : /\ Oracle!Item(scope, b) = U!Item(scope, b)
                   /\ Oracle!OuterLoopInScope(scope, b) = U!OuterLoopInScope(scope, b)
         /\ Oracle!InScope(scope) = U!InScope(scope)
<1>1. Oracle!InScope(scope) = U!InScope(scope)
  BY DEF Oracle!InScope, U!InScope
<1>2. ASSUME NEW b
      PROVE  Oracle!OuterLoopInScope(scope, b) = U!OuterLoopInScope(scope, b)
  BY <1>1 DEF Oracle!OuterLoopInScope, U!OuterLoopInScope
<1>3. ASSUME NEW b
      PROVE  Oracle!Item(scope, b) = U!Item(scope, b)
  BY <1>2 DEF Oracle!Item, U!Item, Oracle!Block, U!Block, Oracle!Loop, U!Loop
<1>. QED
  BY <1>1, <1>2, <1>3

(* The condensed graph of a scope and its verification. *)
LEMMA SameGraphs ==
  ASSUME NEW scope
  PROVE  /\ Oracle!Condensed(scope) = U!Condensed(scope)
         /\ \A g : Oracle!Verified(g) <=> U!Verified(g)
<1>1. \A E : Oracle!Edges(scope, E) = U!Edges(scope, E)
  BY SameItems DEF Oracle!Edges, U!Edges
<1>2. Oracle!Condensed(scope) = U!Condensed(scope)
  BY <1>1, SameItems DEF Oracle!Condensed, U!Condensed
<1>3. \A i : Oracle!IsLoop(i) <=> U!IsLoop(i)
  BY DEF Oracle!IsLoop, U!IsLoop
<1>4. \A h : Oracle!Exiting(h) = U!Exiting(h)
  BY DEF Oracle!Exiting, U!Exiting
<1>5. \A i : Oracle!Leaving(i) = U!Leaving(i)
  BY <1>3, <1>4 DEF Oracle!Leaving, U!Leaving
<1>6. \A g, i : Oracle!SingleHeader(g, i) <=> U!SingleHeader(g, i)
  BY <1>3, <1>5 DEF Oracle!SingleHeader, U!SingleHeader
<1>7. \A g : Oracle!Verified(g) <=> U!Verified(g)
  BY <1>6 DEF Oracle!Verified, U!Verified
<1>. QED
  BY <1>2, <1>7

(* The construction of a graph. *)
LEMMA SameBuild ==
  ASSUME NEW scope, Oracle!Build(scope)
  PROVE  U!Build(scope)
<1>1. /\ Oracle!Condensed(scope) = U!Condensed(scope)
      /\ Oracle!Verified(U!Condensed(scope)) <=> U!Verified(U!Condensed(scope))
      /\ \A i : Oracle!IsLoop(i) <=> U!IsLoop(i)
  BY SameGraphs DEF Oracle!IsLoop, U!IsLoop
<1>2. \A f, k, v : Oracle!Inserted(f, k, v) = U!Inserted(f, k, v)
  BY DEF Oracle!Inserted, U!Inserted
<1>. QED
  BY <1>1, <1>2 DEF Oracle!Build, U!Build

(* The call that is active, and what it asks for. *)
LEMMA SameCall ==
  /\ Oracle!Scope = U!Scope /\ Oracle!Mark = U!Mark /\ Oracle!Term = U!Term
  /\ Oracle!Call = U!Call /\ Oracle!Traces = U!Traces
  /\ (Oracle!Active <=> U!Active) /\ (Oracle!Searching <=> U!Searching)
<1>1. Oracle!Call = U!Call
  BY SameSequences DEF Oracle!Call, U!Call
<1>2. Oracle!Scope = U!Scope /\ Oracle!Term = U!Term
  BY <1>1 DEF Oracle!Scope, U!Scope, Oracle!Term, U!Term
<1>3. Oracle!Mark = U!Mark
  BY <1>2, SameItems DEF Oracle!Mark, U!Mark
<1>. QED
  BY <1>1, <1>2, <1>3
  DEF Oracle!Traces, U!Traces, Oracle!Active, U!Active, Oracle!Searching, U!Searching

(* The search for paths. *)
LEMMA SameSearch ==
  ASSUME Oracle!Search
  PROVE  U!Search
<1>1. /\ Oracle!Scope = U!Scope /\ Oracle!Mark = U!Mark
      /\ (Oracle!Active <=> U!Active) /\ (Oracle!Searching <=> U!Searching)
  BY SameCall
<1>2. \A scope, item : Oracle!Before(scope, item) = U!Before(scope, item)
  BY DEF Oracle!Before, U!Before
<1>3. ASSUME NEW scope, NEW stack, NEW ahead, Oracle!Visit(scope, stack, ahead)
      PROVE  U!Visit(scope, stack, ahead)
  BY <1>2, <1>3, SameSequences DEF Oracle!Visit, U!Visit
<1>4. \A f, k, v : Oracle!Inserted(f, k, v) = U!Inserted(f, k, v)
  BY DEF Oracle!Inserted, U!Inserted
<1>5. ASSUME NEW scope, NEW item, Oracle!Start(scope, item)
      PROVE  U!Start(scope, item)
  BY <1>1, <1>3, <1>5 DEF Oracle!Start, U!Start
<1>6. ASSUME NEW scope, Oracle!Descend(scope)
      PROVE  U!Descend(scope)
  BY <1>1, <1>3, <1>6 DEF Oracle!Descend, U!Descend
<1>7. ASSUME NEW scope, Oracle!Retreat(scope)
      PROVE  U!Retreat(scope)
  BY <1>1, <1>4, <1>7, SameSequences DEF Oracle!Retreat, U!Retreat
<1>. QED
  BY <1>1, <1>5, <1>6, <1>7 DEF Oracle!Search, U!Search

(* What a call asks for in turn, and what it returns. *)
LEMMA SamePieces ==
  ASSUME NEW t
  PROVE  /\ Oracle!Callees(t) = U!Callees(t)
         /\ Oracle!Unrolled(t) = U!Unrolled(t)
<1>1. \A i : Oracle!IsLoop(i) <=> U!IsLoop(i)
  BY DEF Oracle!IsLoop, U!IsLoop
<1>2. \A i : Oracle!Links(t, i) = U!Links(t, i)
  BY SameCall DEF Oracle!Links, U!Links, Oracle!Exiting, U!Exiting, Oracle!IsLinked,
       U!IsLinked, Oracle!Entrance, U!Entrance
<1>3. Oracle!Callees(t) = U!Callees(t)
  BY <1>1, <1>2 DEF Oracle!Callees, U!Callees
<1>4. \A i : Oracle!Pieces(t, i) = U!Pieces(t, i)
  BY <1>1, <1>2 DEF Oracle!Pieces, U!Pieces
<1>5. \A w, p : Oracle!Extended(w, p) = U!Extended(w, p)
  BY DEF Oracle!Extended, U!Extended
<1>6. Oracle!Unrolled(t) = U!Unrolled(t)
  BY DEF Oracle!Unrolled, Oracle!Extended, Oracle!Pieces, Oracle!IsLoop, Oracle!Links,
         Oracle!Exiting, Oracle!IsLinked, Oracle!Entrance, Oracle!Term, Oracle!Call, Oracle!Last,
         U!Unrolled, U!Extended, U!Pieces, U!IsLoop, U!Links,
         U!Exiting, U!IsLinked, U!Entrance, U!Term, U!Call, U!Last
<1>. QED
  BY <1>3, <1>6

(* A call and its return. *)
LEMMA SameReturn ==
  ASSUME Oracle!Recurse \/ Oracle!Return
  PROVE  U!Recurse \/ U!Return
<1>1. /\ Oracle!Scope = U!Scope /\ Oracle!Mark = U!Mark /\ Oracle!Call = U!Call
      /\ (Oracle!Active <=> U!Active) /\ (Oracle!Searching <=> U!Searching)
      /\ Oracle!Traces = U!Traces
  BY SameCall
<1>2. Oracle!Flattened <=> U!Flattened
  BY <1>1 DEF Oracle!Flattened, U!Flattened
<1>3. Oracle!Missing = U!Missing
  BY <1>1, SamePieces DEF Oracle!Missing, U!Missing
<1>4. CASE Oracle!Recurse
  BY <1>2, <1>3, <1>4 DEF Oracle!Recurse, U!Recurse, Oracle!dagVars, U!dagVars
<1>5. CASE Oracle!Return
  <2>1. \A f, k, v : Oracle!Inserted(f, k, v) = U!Inserted(f, k, v)
    BY DEF Oracle!Inserted, U!Inserted
  <2>2. UNION {Oracle!Unrolled(t) : t \in U!Traces} = UNION {U!Unrolled(t) : t \in U!Traces}
    BY SamePieces
  <2>3. \A i, j : Oracle!Least(i, j) = U!Least(i, j)
    BY DEF Oracle!Least, U!Least
  <2>4. \A s : Oracle!Last(s) = U!Last(s) /\ Oracle!Front(s) = U!Front(s)
    BY SameSequences
  <2>5. \A k, S : Oracle!kSubset(k, S) = U!kSubset(k, S) /\ Oracle!Cardinality(S) = U!Cardinality(S)
    BY SameCount
  <2>. QED
    BY <1>1, <1>2, <1>3, <1>5, <2>1, <2>2, <2>3, <2>4, <2>5 DEF Oracle!Return, U!Return
<1>. QED
  BY <1>4, <1>5

(* A step of Oracle is a step of U, which UnrollProofs is about. *)
LEMMA SameStep ==
  ASSUME Oracle!UnrollStep
  PROVE  U!UnrollNext
<1>1. ASSUME Oracle!Ask
      PROVE  U!Ask
  BY <1>1 DEF Oracle!Ask, U!Ask, Oracle!dagVars, U!dagVars
<1>. QED
  BY <1>1, SameBuild, SameSearch, SameReturn
  DEF Oracle!UnrollStep, U!UnrollStep, U!UnrollNext

(* The dominators and the loops. *)
LEMMA SameAnalyses ==
  ASSUME NEW g
  PROVE  Oracle!ForwardEdges(g) = U!ForwardEdges(g) /\ Oracle!NaturalLoops(g) = U!NaturalLoops(g)
<1>0. Oracle!Pred(g) = U!Pred(g)
  BY DEF Oracle!Pred, U!Pred
<1>1. \A S, G : Oracle!Closure(S, G) = U!Closure(S, G)
  BY SameClosure
<1>2. \A d, b : Oracle!Dominates(g, d, b) <=> U!Dominates(g, d, b)
  BY <1>1 DEF Oracle!Dominates, U!Dominates
<1>3. Oracle!ForwardEdges(g) = U!ForwardEdges(g)
  BY <1>2 DEF Oracle!ForwardEdges, U!ForwardEdges
<1>4. \A h : Oracle!Latches(g, h) = U!Latches(g, h)
  BY <1>2 DEF Oracle!Latches, U!Latches
<1>5. \A h : Oracle!NaturalLoop(g, h) = U!NaturalLoop(g, h)
  BY <1>0, <1>1, <1>4 DEF Oracle!NaturalLoop, U!NaturalLoop
<1>6. Oracle!NaturalLoops(g) = U!NaturalLoops(g)
  BY <1>4, <1>5 DEF Oracle!NaturalLoops, U!NaturalLoops
<1>. QED
  BY <1>3, <1>6

------------------------------------------------------------------------------
(* The finished slice. *)

------------------------------------------------------------------------------
(* From the slice to its traces. *)

(* The tables of links have no other entries than expand adds. *)
TablesKnown ==
  /\ \A t \in ptab : /\ t[1] \in suits /\ <<t[2], t[3]>> \in To(t[1], PredGraph(prog))
                       /\ t = <<t[1], t[2], t[3]>>
  /\ \A t \in stab : /\ t[1] \in suits /\ <<t[2], t[3]>> \in To(t[1], SuccGraph(prog))
                       /\ t = <<t[1], t[2], t[3]>>
  /\ stage = "slice" => ptab = {} /\ stab = {}
  /\ stage = "ready" => front = entry /\ back \in LastBlock

(* What the tables hold stays control flow. *)
LEMMA TablesStep ==
  ASSUME LinkInv, TablesKnown, [LinkNext]_<<vars, linkVars>>
  PROVE  TablesKnown'
<1>1. ASSUME UNCHANGED vars
      PROVE  /\ suits' = suits /\ prog' = prog /\ entry' = entry
             /\ \A x, gr : To(x, gr)' = To(x, gr)
             /\ LastBlock' = LastBlock
  BY <1>1, LinkFrame DEF LinkInv, vars, LastBlock, FetchBlock
<1>2. CASE Slicing
  BY <1>2 DEF Slicing, TablesKnown
<1>3. ASSUME NEW b \in unlinked, Expand(b)
      PROVE  TablesKnown'
  <2>1. /\ UNCHANGED vars /\ stage = "expand" /\ stage' \in {"expand", "verify"}
        /\ ptab' = ptab \cup {<<b, m[1], m[2]>> : m \in To(b, PredGraph(prog))}
        /\ stab' = stab \cup {<<b, m[1], m[2]>> : m \in To(b, SuccGraph(prog))}
    BY <1>3 DEF Expand
  <2>2. b \in suits
    BY <2>1 DEF LinkInv, Linking, LinksFound
  <2>3. \A gr : \A m \in To(b, gr) : m = <<m[1], m[2]>>
    BY DEF To
  <2>4. /\ suits' = suits /\ prog' = prog /\ \A x, gr : To(x, gr)' = To(x, gr)
    BY <1>1, <2>1
  <2>5. ASSUME NEW t \in ptab'
        PROVE  /\ t[1] \in suits /\ <<t[2], t[3]>> \in To(t[1], PredGraph(prog))
               /\ t = <<t[1], t[2], t[3]>>
    <3>1. CASE t \in ptab
      BY <3>1 DEF TablesKnown
    <3>2. ASSUME NEW m \in To(b, PredGraph(prog)), t = <<b, m[1], m[2]>>
          PROVE  /\ t[1] \in suits /\ <<t[2], t[3]>> \in To(t[1], PredGraph(prog))
                 /\ t = <<t[1], t[2], t[3]>>
      <4>1. t[1] = b /\ t[2] = m[1] /\ t[3] = m[2]
        BY <3>2
      <4>. QED
        BY <2>2, <2>3, <3>2, <4>1
    <3>. QED
      BY <2>1, <3>1, <3>2
  <2>6. ASSUME NEW t \in stab'
        PROVE  /\ t[1] \in suits /\ <<t[2], t[3]>> \in To(t[1], SuccGraph(prog))
               /\ t = <<t[1], t[2], t[3]>>
    <3>1. CASE t \in stab
      BY <3>1 DEF TablesKnown
    <3>2. ASSUME NEW m \in To(b, SuccGraph(prog)), t = <<b, m[1], m[2]>>
          PROVE  /\ t[1] \in suits /\ <<t[2], t[3]>> \in To(t[1], SuccGraph(prog))
                 /\ t = <<t[1], t[2], t[3]>>
      <4>1. t[1] = b /\ t[2] = m[1] /\ t[3] = m[2]
        BY <3>2
      <4>. QED
        BY <2>2, <2>3, <3>2, <4>1
    <3>. QED
      BY <2>1, <3>1, <3>2
  <2>. QED
    BY <2>1, <2>4, <2>5, <2>6 DEF TablesKnown
<1>4. CASE Verify
  BY <1>1, <1>4 DEF Verify, TablesKnown
<1>5. CASE Wrap
  BY <1>1, <1>5 DEF Wrap, TablesKnown
<1>6. CASE LinkStopped \/ UNCHANGED <<vars, linkVars>>
  BY <1>1, <1>6 DEF LinkStopped, linkVars, TablesKnown
<1>. QED
  BY <1>2, <1>3, <1>4, <1>5, <1>6 DEF LinkNext, LinkStep

(* All that is known of the slice while it is built. *)
BuiltInv ==
  LinkInv /\ SlicedInv /\ VisitInv /\ EntryInv /\ WayInv /\ TablesKnown /\ TiedInv

(* It holds in the beginning, *)
LEMMA BuiltInit == LinkInit => BuiltInv
<1>1. LinkInit => LinkInv /\ SlicedInv /\ EntryInv /\ WayInv
  BY LinkInitKeeps, SlicedInit, EntryInit, WayInit DEF LinkInit
<1>2. LinkInit => VisitInv /\ TablesKnown
  BY DEF LinkInit, Init, VisitInv, Walking, TablesKnown
<1>3. LinkInit => TiedInv
  BY TiedInit DEF LinkInit
<1>. QED
  BY <1>1, <1>2, <1>3 DEF BuiltInv

(* and after each step of the construction. *)
LEMMA BuiltStep == BuiltInv /\ [LinkNext]_<<vars, linkVars>> => BuiltInv'
<1>. SUFFICES ASSUME BuiltInv, [LinkNext]_<<vars, linkVars>>
              PROVE  BuiltInv'
  OBVIOUS
<1>1. LinkInv' /\ [Next]_vars
  BY LinkStepKeeps, LinkStepSlices DEF BuiltInv
<1>2. SlicedInv' /\ VisitInv' /\ EntryInv' /\ WayInv'
  BY <1>1, SlicedStep, VisitStep, EntryStep, WayStep DEF BuiltInv, SlicedInv
<1>3. TablesKnown'
  BY TablesStep DEF BuiltInv
<1>4. TiedInv'
  BY <1>1, TiedStep DEF BuiltInv, SlicedInv
<1>. QED
  BY <1>1, <1>2, <1>3, <1>4 DEF BuiltInv

(* What that says of a slice that is ready. *)
LEMMA ReadyFacts ==
  ASSUME BuiltInv, stage = "ready"
  PROVE  /\ prog \in Programs /\ pc = "done" /\ suits \subseteq reach /\ reach \subseteq Blocks
         /\ FetchBlock \in suits /\ front = entry /\ entry \in suits /\ back \in suits
         /\ entry \in NextSuits(EntryBlock)
         /\ succs = {e \in suits \X suits : Follows(e[1], e[2])}
         /\ suits \subseteq Closure({entry}, NextInSlice)
         /\ NextInSlice = [b \in Blocks |-> {s \in suits : <<b, s>> \in succs}]
<1>1. /\ pc = "done" /\ LinksFound /\ FetchBlock \in suits /\ unlinked = {}
      /\ TypeOK /\ SuitsInReach
  BY DEF BuiltInv, LinkInv, Linking
<1>2. entry = dedup[EntryBlock] /\ entry \in suits
  BY <1>1 DEF BuiltInv, EntryInv
<1>3. front = entry /\ back \in LastBlock
  BY DEF BuiltInv, TablesKnown
<1>4. back \in suits
  BY <1>1, <1>2, <1>3 DEF LastBlock
<1>5. prog \in Programs /\ suits \subseteq reach /\ reach \subseteq Blocks
  BY <1>1 DEF TypeOK, SuitsInReach
<1>6. entry \in NextSuits(EntryBlock)
  <2>1. EntryBlock \in reach /\ dedup[EntryBlock] \in Blocks
    BY <1>2, <1>5, EntryReaches DEF BuiltInv, SlicedInv
  <2>. QED
    BY <1>1, <1>2, <2>1 DEF BuiltInv, SlicedInv, AnswerInv, AnswerIsReal
<1>7. succs = {e \in suits \X suits : Follows(e[1], e[2])}
  BY <1>1 DEF LinksFound, Expanded
<1>8. suits \subseteq Closure({entry}, NextInSlice)
  BY <1>1 DEF BuiltInv, SlicedInv, LeadInv
<1>9. NextInSlice = [b \in Blocks |-> {s \in suits : <<b, s>> \in succs}]
  BY <1>7 DEF NextInSlice, Follows
<1>. QED
  BY <1>1, <1>2, <1>3, <1>4, <1>5, <1>6, <1>7, <1>8, <1>9

------------------------------------------------------------------------------
(* The traces. *)

(* The slice as the analyses see it: all of it can be reached.             *)
LEMMA WrappedSliced ==
  ASSUME BuiltInv, stage = "ready"
  PROVE  U!Sliced(Wrapped) /\ Cardinality(Wrapped.nodes) <= StackLimit
<1>. DEFINE L == [b \in Blocks |-> {s \in suits : <<b, s>> \in succs}]
            W == [b \in suits |-> {s \in suits : <<b, s>> \in succs}]
            T == Closure({entry}, W)
<1>1. /\ suits \subseteq Blocks /\ front = entry /\ entry \in suits /\ back \in suits
      /\ suits \subseteq Closure({entry}, L)
  BY ReadyFacts
<1>2. Wrapped.nodes = suits /\ Wrapped.entry = entry /\ Wrapped.basis = back /\ Wrapped.succ = W
  BY <1>1 DEF Wrapped
<1>3. W \in [suits -> SUBSET suits] /\ DOMAIN W = suits /\ DOMAIN L = Blocks
      /\ \A b \in suits : W[b] = L[b] /\ W[b] \subseteq suits
  BY <1>1
<1>4. suits \subseteq T
  <2>. HIDE DEF L, W
  <2>1. {entry} \in SUBSET DOMAIN W
    BY <1>1, <1>3
  <2>2. {entry} \subseteq T /\ Closed(T, W)
    BY <1>3, <2>1, ClosureExtends, ClosureIsClosed
  <2>3. T \in SUBSET suits
    BY <1>3 DEF Closure
  <2>4. Closed(T, L) /\ T \in SUBSET DOMAIN L
    BY <1>1, <1>3, <2>2, <2>3 DEF Closed
  <2>5. Closure({entry}, L) \subseteq T
    BY <2>2, <2>4, ClosureLeast
  <2>. QED
    BY <1>1, <2>5
<1>5. IsFiniteSet(suits) /\ Cardinality(suits) <= Cardinality(Blocks)
      /\ Cardinality(suits) \in Nat /\ Cardinality(Blocks) \in Nat
  BY <1>1, LimitsAssumption, FS_Subset, FS_CardinalityType
<1>6. Cardinality(suits) <= StackLimit
  <2>1. \A x, y, z \in Nat : x <= y /\ y <= z => x <= z
    OBVIOUS
  <2>. QED
    BY <1>5, <2>1, LimitsAssumption
<1>7. U!IsFiniteSet(suits) /\ U!Closure({entry}, W) = T
  BY <1>5, SameCount, SameClosure
<1>8. Null \notin suits
  BY <1>1, SentinelAssumption
<1>. HIDE DEF W, T
<1>. QED
  BY <1>1, <1>2, <1>3, <1>4, <1>6, <1>7, <1>8 DEF U!Sliced

(* Nothing was done for the traces yet. *)
Fresh ==
  /\ dags = <<>> /\ paths = <<>>
  /\ hist = <<>> /\ left = <<>> /\ found = {}
  /\ fault = "none" /\ calls = <<>> /\ cache = <<>>

(* A slice that has been analysed and not unrolled yet. *)
Begun ==
  /\ U!Sliced(slice) /\ Cardinality(slice.nodes) <= StackLimit
  /\ forward = U!ForwardEdges(slice) /\ loops = U!NaturalLoops(slice)
  /\ unbuilt = {Null} /\ Fresh

(* UnrollProofs takes over from there. *)
LEMMA BegunKnown == Begun => U!UnrollInv /\ U!WholeInv
<1>. SUFFICES ASSUME Begun
              PROVE  U!UnrollInv /\ U!WholeInv
  OBVIOUS
<1>1. U!UnrollInit({slice})
  BY DEF Begun, Fresh, U!UnrollInit, U!DagInit
<1>2. StackLimit \in Nat
  BY LimitsAssumption
<1>3. \A s \in {slice} : U!Sliced(s) /\ U!Cardinality(s.nodes) <= StackLimit
  BY SameCount DEF Begun
<1>4. U!UnrollInv
  BY <1>1, <1>3, U!InitKnown
<1>5. U!WholeInv
  BY <1>1, <1>2, <1>3, U!WholeInit
<1>. QED
  BY <1>4, <1>5

(* The slice is finished before it is unrolled, and what is known of       *)
(* unrolling holds for it.                                                 *)
FetchInv ==
  /\ BuiltInv
  /\ slice = Null => Fresh
  /\ slice # Null => stage = "ready" /\ slice = Wrapped /\ U!UnrollInv /\ U!WholeInv

(* It holds in the beginning, *)
LEMMA FetchInitKeeps == FetchInit => FetchInv
BY BuiltInit DEF FetchInit, FetchInv, Fresh

(* and after each step up to the traces. *)
LEMMA FetchStepKeeps == FetchInv /\ [FetchStep]_allVars => FetchInv'
<1>. SUFFICES ASSUME FetchInv, [FetchStep]_allVars
              PROVE  FetchInv'
  OBVIOUS
<1>1. ASSUME UNCHANGED <<vars, linkVars>>
      PROVE  BuiltInv' /\ stage' = stage /\ Wrapped' = Wrapped
  <2>1. BuiltInv'
    BY <1>1, BuiltStep DEF FetchInv
  <2>. QED
    BY <1>1, <2>1 DEF vars, linkVars, Wrapped
<1>2. ASSUME UNCHANGED oracleVars
      PROVE  /\ slice' = slice /\ (Fresh' <=> Fresh) /\ UNCHANGED U!unrollVars
  BY <1>2 DEF oracleVars, Fresh, U!unrollVars, U!dagVars
<1>3. ASSUME slice # Null, [U!UnrollNext]_(U!unrollVars)
      PROVE  U!UnrollInv' /\ U!WholeInv' /\ slice' = slice
  <2>1. UnrollLimit \in Nat \ {0}
    BY LimitsAssumption
  <2>. QED
    BY <1>3, <2>1, U!NextKeeps, U!WholeNext, U!NextUnmoved DEF FetchInv
<1>4. CASE Slicer
  <2>1. LinkStep /\ UNCHANGED oracleVars
    BY <1>4 DEF Slicer
  <2>2. stage # "ready"
    BY <2>1 DEF LinkStep, Slicing, Expand, Verify, Wrap
  <2>3. slice = Null
    BY <2>2 DEF FetchInv
  <2>4. BuiltInv'
    BY <2>1, BuiltStep DEF FetchInv, LinkNext
  <2>. QED
    BY <1>2, <2>1, <2>3, <2>4 DEF FetchInv
<1>5. CASE Analyse
  <2>1. /\ stage = "ready" /\ slice = Null /\ slice' = Wrapped
        /\ forward' = Oracle!ForwardEdges(Wrapped) /\ loops' = Oracle!NaturalLoops(Wrapped)
        /\ unbuilt' = {Null}
        /\ UNCHANGED <<dags, paths, hist, left, found, fault, calls, cache>>
        /\ UNCHANGED <<vars, linkVars>>
    BY <1>5 DEF Analyse
  <2>2. U!Sliced(Wrapped) /\ Cardinality(Wrapped.nodes) <= StackLimit
    BY <2>1, WrappedSliced DEF FetchInv
  <2>3. Fresh'
    BY <2>1 DEF FetchInv, Fresh
  <2>4. forward' = U!ForwardEdges(Wrapped) /\ loops' = U!NaturalLoops(Wrapped)
    BY <2>1, SameAnalyses
  <2>5. Begun'
    BY <2>1, <2>2, <2>3, <2>4 DEF Begun
  <2>6. Begun' => U!UnrollInv' /\ U!WholeInv'
    BY BegunKnown, PTL
  <2>. QED
    BY <1>1, <2>1, <2>3, <2>5, <2>6 DEF FetchInv
<1>6. CASE Unroller
  <2>1. slice # Null /\ U!UnrollNext /\ UNCHANGED <<vars, linkVars>>
    BY <1>6, SameStep DEF Unroller
  <2>. QED
    BY <1>1, <1>3, <2>1 DEF FetchInv
<1>7. CASE UNCHANGED allVars
  <2>1. UNCHANGED <<vars, linkVars>> /\ UNCHANGED oracleVars
    BY <1>7 DEF allVars
  <2>. QED
    BY <1>1, <1>2, <1>3, <2>1 DEF FetchInv
<1>. QED
  BY <1>4, <1>5, <1>6, <1>7 DEF FetchStep

(* A trace: a way through the slice, from its entry to its basis, that     *)
(* passes no block twice.                                                  *)
SliceTrace(t) ==
  /\ t \in Seq(suits) /\ t # <<>> /\ Len(t) \in Nat /\ Len(t) > 0
  /\ t[1] = entry /\ t[Len(t)] = back
  /\ \A i \in 1..Len(t) : t[i] \in suits
  /\ \A i \in 2..Len(t) : Follows(t[i - 1], t[i])
  /\ \A i, j \in 1..Len(t) : t[i] = t[j] => i = j

(* What the unrolling returns, as control sees it. *)
LEMMA TracesKnown ==
  ASSUME FetchInv, Answered
  PROVE  /\ slice.basis = back /\ stage = "ready"
         /\ cache[<<Null, back>>].all # {}
         /\ \A t \in cache[<<Null, back>>].all : SliceTrace(t)
<1>1. /\ slice # Null /\ Oracle!Answered /\ stage = "ready" /\ slice = Wrapped
      /\ U!UnrollInv /\ U!WholeInv
  BY DEF FetchInv, Answered
<1>2. /\ slice.nodes = suits /\ slice.entry = entry /\ slice.basis = back
      /\ slice.succ = [b \in suits |-> {s \in suits : <<b, s>> \in succs}]
  BY <1>1, ReadyFacts DEF Wrapped, FetchInv
<1>3. U!Answered /\ <<Null, back>> \in DOMAIN cache
  BY <1>1, <1>2 DEF Oracle!Answered, U!Answered
<1>4. cache[<<Null, back>>].all # {}
  <2>1. UnrollLimit \in Nat \ {0}
    BY LimitsAssumption
  <2>2. U!Given = cache[<<Null, slice.basis>>].all
    BY <1>3 DEF U!Given
  <2>3. U!AnswerWhole
    BY <1>1, <2>1, U!AnswerFacts
  <2>. QED
    BY <1>2, <1>3, <2>2, <2>3 DEF U!AnswerWhole
<1>5. ASSUME NEW t \in cache[<<Null, back>>].all
      PROVE  SliceTrace(t)
  <2>1. U!WayTo(Null, back, t) /\ U!Analysed
    BY <1>1, <1>3 DEF U!UnrollInv, U!CacheKnown, U!GraphsKnown
  <2>2. U!InScope(Null) = suits /\ U!EntryOf(Null) = entry
    BY <1>2 DEF U!InScope, U!EntryOf
  <2>3. /\ t \in Seq(suits) /\ t # <<>> /\ t[1] = entry /\ t[Len(t)] = back
        /\ \A k \in 2..Len(t) : t[k] \in forward[t[k - 1]]
    BY <2>1, <2>2 DEF U!WayTo, U!Walk
  <2>4. U!Distinct(t)
    <3>1. t \in U!WaysTo(Null, slice.basis)
      BY <1>2, <2>1, <2>2, <2>3 DEF U!WaysTo
    <3>2. <<Null, slice.basis>>[1] = Null /\ <<Null, slice.basis>>[2] = slice.basis
      OBVIOUS
    <3>. QED
      BY <1>1, <1>2, <1>3, <3>1, <3>2 DEF U!WholeInv, U!CacheWhole
  <2>5. Len(t) \in Nat /\ Len(t) > 0
    BY <2>3, EmptySeq, LenProperties
  <2>6. \A i \in 1..Len(t) : t[i] \in suits
    BY <2>3, ElementOfSeq
  <2>7. ASSUME NEW b \in suits
        PROVE  forward[b] \subseteq {s \in suits : <<b, s>> \in succs}
    BY <1>2, <2>1, <2>7 DEF U!Analysed, U!ForwardEdges
  <2>8. succs = {e \in suits \X suits : Follows(e[1], e[2])}
    BY <1>1, ReadyFacts DEF FetchInv
  <2>9. ASSUME NEW i \in 2..Len(t)
        PROVE  Follows(t[i - 1], t[i])
    <3>1. i - 1 \in 1..Len(t)
      BY <2>5, <2>9
    <3>2. t[i - 1] \in suits /\ <<t[i - 1], t[i]>> \in succs
      BY <2>3, <2>6, <2>7, <3>1
    <3>. QED
      BY <2>8, <3>2
  <2>. QED
    BY <2>3, <2>4, <2>5, <2>6, <2>9 DEF SliceTrace, U!Distinct
<1>. QED
  BY <1>1, <1>2, <1>4, <1>5

(* The evaluation leaves the slice and its traces alone. *)
LEMMA EvalFetches == [EvalNext]_everything => [FetchStep]_allVars
<1>1. Evaluate => UNCHANGED allVars
  BY DEF Evaluate, TakeTrace, FollowTrace, Build, BuildUnhandled, StartTrim, GrowTrim, EndTrim, SymbolizeRoots,
         SymbolizeNext, EndSymbolize, Check, EndCheck, Operating
<1>. QED
  BY <1>1 DEF EvalNext, EvalStep, Tracer, EvalStopped, everything

(* So the invariant holds during the evaluation as well. *)
LEMMA FetchInvariant == EvalSpec => []FetchInv
<1>1. EvalInit => FetchInv
  BY FetchInitKeeps DEF EvalInit
<1>. QED
  BY <1>1, FetchStepKeeps, EvalFetches, PTL DEF EvalSpec

------------------------------------------------------------------------------
(* Sequences joined to one. *)

(* FlattenSeq, by its step. *)
Joined(ss, f, i) == IF i = 1 THEN ss[i] ELSE f[i - 1] \o ss[i]

(* FlattenSeq is defined by a recursive function: it exists. *)
LEMMA JoinedExists ==
  ASSUME NEW ss, NEW n \in Nat
  PROVE  \E f : f = [i \in 1..n |-> Joined(ss, f, i)]
<1>. DEFINE Upto(m) == \E f : \A i \in 1..m : f[i] = Joined(ss, f, i)
            bad == {m \in 0..n : ~Upto(m)}
<1>1. ASSUME bad # {}
      PROVE  FALSE
  <2>1. PICK m \in bad : \A k \in bad : m <= k
    <3>1. bad \in SUBSET Nat
      OBVIOUS
    <3>. HIDE DEF bad
    <3>. QED
      BY <1>1, <3>1, LeastExists
  <2>2. m \in 0..n /\ ~Upto(m)
    OBVIOUS
  <2>3. CASE m = 0
    BY <2>2, <2>3
  <2>4. CASE m # 0
    <3>1. m - 1 \in 0..n /\ m - 1 \notin bad
      BY <2>1, <2>2, <2>4
    <3>2. PICK g : \A i \in 1..(m - 1) : g[i] = Joined(ss, g, i)
      BY <3>1
    <3>. DEFINE f == [i \in 1..n |-> IF i = m THEN Joined(ss, g, m) ELSE g[i]]
    <3>3. ASSUME NEW i \in 1..m
          PROVE  f[i] = Joined(ss, f, i)
      <4>1. i \in 1..n /\ (i # 1 => i - 1 \in 1..n /\ i - 1 # m)
        BY <2>2
      <4>2. Joined(ss, f, i) = Joined(ss, g, i)
        BY <4>1 DEF Joined
      <4>3. f[i] = IF i = m THEN Joined(ss, g, m) ELSE g[i]
        BY <4>1
      <4>4. i # m => g[i] = Joined(ss, g, i)
        BY <2>2, <3>2
      <4>. HIDE DEF f
      <4>. QED
        BY Zenon, <4>2, <4>3, <4>4
    <3>. QED
      BY <2>2, <3>3
  <2>. QED
    BY <2>3, <2>4
<1>2. PICK g : \A i \in 1..n : g[i] = Joined(ss, g, i)
  BY <1>1
<1>. DEFINE f == [i \in 1..n |-> g[i]]
<1>3. ASSUME NEW i \in 1..n
      PROVE  Joined(ss, f, i) = Joined(ss, g, i) /\ f[i] = g[i]
  BY DEF Joined
<1>4. f = [i \in 1..n |-> Joined(ss, f, i)]
  BY <1>2, <1>3
<1>. QED
  BY <1>4

(* Where the items of a flattened sequence come from: item i is item       *)
(* off[i] of sequence blk[i], the order is the one of the sequences, and   *)
(* nothing is left out.                                                    *)
Laid(t, ss, n, blk, off) ==
  /\ blk \in [1..Len(t) -> Nat] /\ off \in [1..Len(t) -> Nat]
  /\ \A i \in 1..Len(t) : /\ blk[i] \in 1..n /\ off[i] \in 1..Len(ss[blk[i]])
                          /\ t[i] = ss[blk[i]][off[i]]
  /\ \A i, j \in 1..Len(t) :
       i < j => blk[i] < blk[j] \/ (blk[i] = blk[j] /\ off[i] < off[j])
  /\ \A b \in 1..n : \A o \in 1..Len(ss[b]) : \E i \in 1..Len(t) : blk[i] = b /\ off[i] = o

(* The first sequence is laid out as it is, *)
LEMMA LaidFirst ==
  ASSUME NEW V, NEW ss \in Seq(Seq(V)), Len(ss) >= 1
  PROVE  \E blk, off : Laid(ss[1], ss, 1, blk, off)
<1>1. ss[1] \in Seq(V)
  BY ElementOfSeq
<1>. DEFINE t == ss[1]
            blk == [i \in 1..Len(t) |-> 1]
            off == [i \in 1..Len(t) |-> i]
<1>2. Len(t) \in Nat
  BY <1>1
<1>3. Laid(t, ss, 1, blk, off)
  BY <1>2 DEF Laid
<1>. QED
  BY <1>3

(* each further one behind those before, *)
LEMMA LaidNext ==
  ASSUME NEW V, NEW ss \in Seq(Seq(V)), NEW n \in Nat, n + 1 \in 1..Len(ss),
         NEW t \in Seq(V), NEW blk, NEW off, Laid(t, ss, n, blk, off)
  PROVE  /\ t \o ss[n + 1] \in Seq(V)
         /\ \E c, p : Laid(t \o ss[n + 1], ss, n + 1, c, p)
<1>1. ss[n + 1] \in Seq(V)
  BY ElementOfSeq
<1>. DEFINE s == ss[n + 1]
<1>. HIDE DEF s
<1>2. PICK r : r = t \o s
  OBVIOUS
<1>3. /\ r \in Seq(V) /\ Len(r) = Len(t) + Len(s) /\ Len(t) \in Nat /\ Len(s) \in Nat
      /\ \A i \in 1..(Len(t) + Len(s)) : r[i] = IF i <= Len(t) THEN t[i] ELSE s[i - Len(t)]
  BY <1>1, <1>2, ConcatProperties, LenProperties DEF s
<1>. DEFINE c == [i \in 1..Len(r) |-> IF i <= Len(t) THEN blk[i] ELSE n + 1]
            p == [i \in 1..Len(r) |-> IF i <= Len(t) THEN off[i] ELSE i - Len(t)]
<1>4. ASSUME NEW i \in 1..Len(r), i <= Len(t)
      PROVE  /\ i \in 1..Len(t) /\ c[i] = blk[i] /\ p[i] = off[i] /\ r[i] = t[i]
             /\ blk[i] \in 1..n /\ off[i] \in Nat /\ off[i] \in 1..Len(ss[blk[i]])
             /\ t[i] = ss[blk[i]][off[i]]
  <2>1. i \in 1..Len(t)
    BY <1>3, <1>4
  <2>. QED
    BY <1>3, <1>4, <2>1 DEF Laid
<1>5. ASSUME NEW i \in 1..Len(r), ~(i <= Len(t))
      PROVE  /\ c[i] = n + 1 /\ p[i] = i - Len(t) /\ p[i] \in 1..Len(s) /\ r[i] = s[p[i]]
  BY <1>3, <1>5
<1>6. ASSUME NEW i \in 1..Len(r)
      PROVE  /\ c[i] \in 1..(n + 1) /\ p[i] \in Nat /\ p[i] \in 1..Len(ss[c[i]])
             /\ r[i] = ss[c[i]][p[i]]
  <2>1. CASE i <= Len(t)
    <3>1. c[i] \in 1..(n + 1)
      BY <1>4, <2>1
    <3>2. c[i] = blk[i] /\ p[i] = off[i] /\ r[i] = t[i]
      BY <1>4, <2>1
    <3>. HIDE DEF c, p
    <3>. QED
      BY <1>4, <2>1, <3>1, <3>2
  <2>2. CASE ~(i <= Len(t))
    <3>1. c[i] = n + 1 /\ p[i] \in 1..Len(s) /\ r[i] = s[p[i]]
      BY <1>5, <2>2
    <3>. HIDE DEF c, p
    <3>. QED
      BY <3>1, <1>3 DEF s
  <2>. QED
    BY <2>1, <2>2
<1>7. ASSUME NEW i \in 1..Len(r), NEW j \in 1..Len(r), i < j
      PROVE  c[i] < c[j] \/ (c[i] = c[j] /\ p[i] < p[j])
  <2>1. CASE j <= Len(t)
    <3>1. i <= Len(t)
      BY <1>3, <1>7, <2>1
    <3>2. i \in 1..Len(t) /\ j \in 1..Len(t) /\ c[i] = blk[i] /\ p[i] = off[i] /\ c[j] = blk[j] /\ p[j] = off[j]
      BY <1>4, <2>1, <3>1
    <3>. HIDE DEF c, p
    <3>. QED
      BY <1>7, <3>2 DEF Laid
  <2>2. CASE ~(j <= Len(t)) /\ i <= Len(t)
    <3>1. c[j] = n + 1 /\ c[i] \in 1..n
      BY <1>4, <1>5, <2>2
    <3>. HIDE DEF c, p
    <3>. QED
      BY <3>1
  <2>3. CASE ~(j <= Len(t)) /\ ~(i <= Len(t))
    BY <1>3, <1>5, <1>7, <2>3
  <2>. QED
    BY <2>1, <2>2, <2>3
<1>8. ASSUME NEW b \in 1..(n + 1), NEW o \in 1..Len(ss[b])
      PROVE  \E i \in 1..Len(r) : c[i] = b /\ p[i] = o
  <2>1. CASE b = n + 1
    <3>1. o \in 1..Len(s)
      BY <2>1 DEF s
    <3>2. Len(t) + o \in 1..Len(r) /\ ~(Len(t) + o <= Len(t)) /\ (Len(t) + o) - Len(t) = o
      BY <1>3, <3>1
    <3>3. c[Len(t) + o] = b /\ p[Len(t) + o] = o
      BY <1>5, <2>1, <3>2
    <3>. HIDE DEF c, p
    <3>. QED
      BY <3>2, <3>3
  <2>2. CASE b # n + 1
    <3>1. b \in 1..n
      BY <2>2
    <3>2. PICK i \in 1..Len(t) : blk[i] = b /\ off[i] = o
      BY <3>1 DEF Laid
    <3>3. i \in 1..Len(r) /\ i <= Len(t)
      BY <1>3
    <3>4. c[i] = b /\ p[i] = o
      BY <1>4, <3>2, <3>3
    <3>. HIDE DEF c, p
    <3>. QED
      BY <3>3, <3>4
  <2>. QED
    BY <2>1, <2>2
<1>9. c \in [1..Len(r) -> Nat] /\ p \in [1..Len(r) -> Nat]
  <2>1. \A i \in 1..Len(r) : c[i] \in Nat /\ p[i] \in Nat
    BY <1>6
  <2>. QED
    BY <2>1
<1>. HIDE DEF c, p
<1>10. Laid(r, ss, n + 1, c, p)
  BY <1>6, <1>7, <1>8, <1>9 DEF Laid
<1>. QED
  BY <1>2, <1>3, <1>10 DEF s

(* and so is the whole. *)
LEMMA FlattenLaid ==
  ASSUME NEW V, NEW ss \in Seq(Seq(V))
  PROVE  /\ FlattenSeq(ss) \in Seq(V)
         /\ \E blk, off : Laid(FlattenSeq(ss), ss, Len(ss), blk, off)
<1>1. Len(ss) \in Nat
  OBVIOUS
<1>2. CASE Len(ss) = 0
  <2>1. FlattenSeq(ss) = ss /\ ss = <<>>
    BY <1>2, EmptySeq DEF FlattenSeq
  <2>2. Laid(<<>>, ss, 0, <<>>, <<>>) /\ <<>> \in Seq(V)
    BY DEF Laid
  <2>. QED
    BY <1>2, <2>1, <2>2
<1>3. CASE Len(ss) # 0
  <2>. DEFINE f == CHOOSE g : g = [i \in 1..Len(ss) |-> Joined(ss, g, i)]
              bad == {m \in 1..Len(ss) : ~(/\ f[m] \in Seq(V)
                                           /\ \E blk, off : Laid(f[m], ss, m, blk, off))}
  <2>1. FlattenSeq(ss) = f[Len(ss)]
    BY <1>3 DEF FlattenSeq, Joined
  <2>2. f = [i \in 1..Len(ss) |-> Joined(ss, f, i)]
    <3>1. \E g : g = [i \in 1..Len(ss) |-> Joined(ss, g, i)]
      BY <1>1, JoinedExists
    <3>. QED
      BY Zenon, <3>1
  <2>. HIDE DEF f
  <2>3. ASSUME bad # {}
        PROVE  FALSE
    <3>1. PICK m \in bad : \A k \in bad : m <= k
      <4>1. bad \in SUBSET Nat
        OBVIOUS
      <4>. HIDE DEF bad
      <4>. QED
        BY <2>3, <4>1, LeastExists
    <3>2. CASE m = 1
      <4>1. f[m] = ss[1] /\ ss[1] \in Seq(V)
        BY <1>1, <2>2, <3>2, ElementOfSeq DEF Joined
      <4>. QED
        BY <3>2, <4>1, LaidFirst
    <3>3. CASE m # 1
      <4>1. m - 1 \in 1..Len(ss) /\ m - 1 \notin bad /\ (m - 1) + 1 = m /\ m - 1 \in Nat
        <5>1. m \in 1..Len(ss)
          OBVIOUS
        <5>. HIDE DEF bad
        <5>. QED
          BY <1>1, <3>1, <3>3, <5>1
      <4>2. f[m - 1] \in Seq(V) /\ \E blk, off : Laid(f[m - 1], ss, m - 1, blk, off)
        BY <4>1
      <4>3. f[m] = f[m - 1] \o ss[m]
        BY <2>2, <3>3 DEF Joined
      <4>4. f[m - 1] \o ss[(m - 1) + 1] \in Seq(V)
            /\ \E c, p : Laid(f[m - 1] \o ss[(m - 1) + 1], ss, (m - 1) + 1, c, p)
        BY <4>1, <4>2, LaidNext
      <4>5. f[m] \in Seq(V) /\ \E c, p : Laid(f[m], ss, m, c, p)
        BY <4>1, <4>3, <4>4
      <4>. QED
        BY <4>5
    <3>. QED
      BY <3>2, <3>3
  <2>4. Len(ss) \in 1..Len(ss)
    BY <1>1, <1>3
  <2>. QED
    BY <2>1, <2>3, <2>4
<1>. QED
  BY <1>2, <1>3

------------------------------------------------------------------------------
(* The instructions of a trace. *)

(* What is known of a finished slice. *)
LEMMA SliceKnown ==
  ASSUME BuiltInv, stage = "ready"
  PROVE  /\ prog \in Programs /\ backs \subseteq Values /\ backs \cap UntraceableOf(prog) = {}
         /\ suits \subseteq reach /\ reach \subseteq Blocks /\ Null \notin Blocks
         /\ FetchOf(prog) \in backs /\ FetchBlock \in suits
         /\ \A v \in backs \ RootsOf(prog) : OpsOf(prog, v) \subseteq backs
         /\ \A v \in backs : HostOf(prog, v) \in reach \cup {Null}
         /\ \A v \in backs : HostOf(prog, v) \in Blocks /\ Seen(HostOf(prog, v))
                               => HostOf(prog, v) \in suits
         /\ \A b \in suits : Insts(b) # {}
         /\ Seen(EntryBlock) /\ EntryBlock \in reach
         /\ \A b \in Blocks : Seen(b) => \A c \in Successors(prog, b) : c \in reach => Seen(c)
         /\ entry \in suits /\ entry \in NextSuits(EntryBlock) /\ back \in LastBlock
         /\ reach = ReachBlocks(prog)
<1>1. /\ prog \in Programs /\ pc = "done" /\ suits \subseteq reach /\ reach \subseteq Blocks
      /\ FetchBlock \in suits /\ entry \in suits /\ entry \in NextSuits(EntryBlock)
  BY ReadyFacts
<1>2. TypeOK /\ DataInv /\ WalkInv /\ EntryInv /\ TablesKnown /\ TiedInv
  BY DEF BuiltInv, SlicedInv
<1>3. FetchOf(prog) \in backs /\ \A v \in backs \ RootsOf(prog) : OpsOf(prog, v) \subseteq backs
  BY <1>1, <1>2 DEF DataInv, Pending
<1>4. \A v \in backs : HostOf(prog, v) \in reach \cup {Null}
  BY <1>2 DEF DataInv, SliceInReach
<1>5. /\ \A v \in backs : HostOf(prog, v) \in Blocks /\ Seen(HostOf(prog, v))
                            => HostOf(prog, v) \in suits
      /\ \A b \in suits : Insts(b) # {}
  BY <1>1, <1>2 DEF WalkInv, SliceHosted, Seen
<1>6. /\ Seen(EntryBlock)
      /\ \A b \in Blocks : Seen(b) => \A c \in Successors(prog, b) : c \in reach => Seen(c)
  BY <1>1, <1>2 DEF EntryInv
<1>. QED
  BY <1>1, <1>2, <1>3, <1>4, <1>5, <1>6, EntryReaches, SentinelAssumption
     DEF TypeOK, TablesKnown, DataInv, TiedInv

------------------------------------------------------------------------------
(* The instructions of a trace. *)

(* The instructions of a block come one before the other. *)
LEMMA PrecedesFacts ==
  ASSUME NEW p \in Programs, NEW v, NEW w, HostOf(p, v) \in Blocks, HostOf(p, v) = HostOf(p, w)
  PROVE  ~(Precedes(p, v, w) /\ Precedes(p, w, v))
<1>. DEFINE order == OrderOf(p, HostOf(p, v))
<1>1. /\ order \in Seq({u \in Values : HostOf(p, u) = HostOf(p, v)})
      /\ \A i, j \in DOMAIN order : order[i] = order[j] => i = j
  BY FunctionAssumption DEF LaidOut
<1>2. DOMAIN order = 1..Len(order) /\ Len(order) \in Nat
  BY <1>1, LenProperties
<1>3. SUFFICES ASSUME Precedes(p, v, w), Precedes(p, w, v)
               PROVE  FALSE
  OBVIOUS
<1>4. PICK j \in DOMAIN order : order[j] = w /\ \E i \in 1..(j - 1) : order[i] = v
  BY <1>3 DEF Precedes
<1>5. PICK l \in DOMAIN order : order[l] = v /\ \E i \in 1..(l - 1) : order[i] = w
  BY <1>3 DEF Precedes
<1>. HIDE DEF order
<1>6. PICK i \in 1..(j - 1) : order[i] = v
  BY <1>4
<1>7. PICK k \in 1..(l - 1) : order[k] = w
  BY <1>5
<1>8. i \in DOMAIN order /\ k \in DOMAIN order
  BY <1>2, <1>4, <1>5, <1>6, <1>7
<1>9. i = l /\ k = j
  BY <1>1, <1>4, <1>5, <1>6, <1>7, <1>8
<1>. QED
  BY <1>2, <1>4, <1>5, <1>6, <1>7, <1>9

(* A block of the slice gives the trace its instructions of the slice. *)
LEMMA TakenFacts ==
  ASSUME prog \in Programs, backs \subseteq Values, NEW b \in Blocks
  PROVE  /\ Taken(b) \in Seq(Insts(b))
         /\ \A v \in Insts(b) : \E i \in 1..Len(Taken(b)) : Taken(b)[i] = v
         /\ \A i, j \in 1..Len(Taken(b)) :
              i < j => Precedes(prog, Taken(b)[i], Taken(b)[j])
<1>. DEFINE order == OrderOf(prog, b)
            ss == [i \in DOMAIN order |-> IF order[i] \in backs THEN <<order[i]>> ELSE <<>>]
            t == Taken(b)
<1>1. /\ order \in Seq({v \in Values : HostOf(prog, v) = b})
      /\ \A v \in Values : HostOf(prog, v) = b => \E i \in DOMAIN order : order[i] = v
  BY FunctionAssumption DEF LaidOut
<1>2. DOMAIN order = 1..Len(order) /\ Len(order) \in Nat
      /\ \A i \in DOMAIN order : order[i] \in Values /\ HostOf(prog, order[i]) = b
  <2>1. DOMAIN order = 1..Len(order) /\ Len(order) \in Nat
    BY <1>1, LenProperties
  <2>2. \A i \in 1..Len(order) : order[i] \in {v \in Values : HostOf(prog, v) = b}
    BY <1>1, ElementOfSeq
  <2>. QED
    BY <2>1, <2>2
<1>. HIDE DEF order
<1>3. ASSUME NEW i \in 1..Len(order)
      PROVE  /\ ss[i] \in Seq(Insts(b))
             /\ order[i] \in backs => Len(ss[i]) = 1 /\ ss[i][1] = order[i]
             /\ order[i] \notin backs => Len(ss[i]) = 0
  <2>1. CASE order[i] \in backs
    <3>1. order[i] \in Insts(b)
      BY <1>2, <2>1 DEF Insts
    <3>. QED
      BY <1>2, <2>1, <3>1
  <2>2. CASE order[i] \notin backs
    BY <1>2, <2>2
  <2>. QED
    BY <2>1, <2>2
<1>4. ss \in Seq(Seq(Insts(b))) /\ Len(ss) = Len(order)
  <2>1. ss \in [1..Len(order) -> Seq(Insts(b))]
    BY <1>2, <1>3
  <2>. HIDE DEF ss
  <2>. QED
    BY <1>2, <2>1, IsASeq, LenProperties
<1>5. t = FlattenSeq(ss)
  BY DEF Taken, order
<1>. HIDE DEF ss, t
<1>6. t \in Seq(Insts(b)) /\ \E blk, off : Laid(t, ss, Len(order), blk, off)
  BY <1>4, <1>5, FlattenLaid
<1>7. PICK blk, off : Laid(t, ss, Len(order), blk, off)
  BY <1>6
<1>8. Len(t) \in Nat
  BY <1>6, LenProperties
<1>9. ASSUME NEW i \in 1..Len(t)
      PROVE  blk[i] \in 1..Len(order) /\ off[i] = 1 /\ t[i] = order[blk[i]]
  <2>1. blk[i] \in 1..Len(order) /\ off[i] \in 1..Len(ss[blk[i]]) /\ t[i] = ss[blk[i]][off[i]]
    BY <1>7 DEF Laid
  <2>2. order[blk[i]] \in backs
    BY <1>3, <2>1
  <2>3. Len(ss[blk[i]]) = 1 /\ ss[blk[i]][1] = order[blk[i]]
    BY <1>3, <2>1, <2>2
  <2>. QED
    BY <2>1, <2>3
<1>10. ASSUME NEW v \in Insts(b)
       PROVE  \E i \in 1..Len(t) : t[i] = v
  <2>1. v \in Values /\ v \in backs /\ HostOf(prog, v) = b
    BY DEF Insts
  <2>2. PICK k \in 1..Len(order) : order[k] = v
    BY <1>1, <1>2, <2>1 DEF order
  <2>3. 1 \in 1..Len(ss[k])
    BY <1>3, <2>1, <2>2
  <2>4. PICK i \in 1..Len(t) : blk[i] = k /\ off[i] = 1
    BY <1>7, <2>3 DEF Laid
  <2>. QED
    BY <1>9, <2>2, <2>4
<1>11. ASSUME NEW i \in 1..Len(t), NEW j \in 1..Len(t), i < j
       PROVE  Precedes(prog, t[i], t[j])
  <2>1. blk[i] < blk[j]
    <3>1. blk[i] < blk[j] \/ (blk[i] = blk[j] /\ off[i] < off[j])
      BY <1>7, <1>11 DEF Laid
    <3>. QED
      BY <1>9, <3>1
  <2>2. blk[i] \in 1..(blk[j] - 1) /\ blk[j] \in DOMAIN order
    BY <1>2, <1>9, <2>1
  <2>3. HostOf(prog, t[j]) = b
    BY <1>2, <1>9
  <2>. QED
    BY <1>9, <2>2, <2>3 DEF Precedes, order
<1>. QED
  BY <1>6, <1>10, <1>11 DEF t

(* Instruction v comes before w on a way through blocks. *)
Ahead(blocks, v, w) ==
  \E k, l \in 1..Len(blocks) :
    /\ HostOf(prog, v) = blocks[k] /\ HostOf(prog, w) = blocks[l]
    /\ k < l \/ (k = l /\ Precedes(prog, v, w))

(* Two instructions are not each ahead of the other. *)
LEMMA AheadFacts ==
  ASSUME prog \in Programs, NEW t \in Seq(Blocks), NEW v, NEW w,
         \A i, j \in 1..Len(t) : t[i] = t[j] => i = j
  PROVE  ~(Ahead(t, v, w) /\ Ahead(t, w, v))
<1>1. SUFFICES ASSUME Ahead(t, v, w), Ahead(t, w, v)
               PROVE  FALSE
  OBVIOUS
<1>2. PICK k, l \in 1..Len(t) :
        /\ HostOf(prog, v) = t[k] /\ HostOf(prog, w) = t[l]
        /\ k < l \/ (k = l /\ Precedes(prog, v, w))
  BY <1>1 DEF Ahead
<1>3. PICK m, n \in 1..Len(t) :
        /\ HostOf(prog, w) = t[m] /\ HostOf(prog, v) = t[n]
        /\ m < n \/ (m = n /\ Precedes(prog, w, v))
  BY <1>1 DEF Ahead
<1>4. k = n /\ l = m
  BY <1>2, <1>3
<1>5. k = l /\ Precedes(prog, v, w) /\ Precedes(prog, w, v)
  BY <1>2, <1>3, <1>4
<1>6. t[k] \in Blocks
  BY ElementOfSeq
<1>. QED
  BY <1>2, <1>5, <1>6, PrecedesFacts

(* A trace lists the instructions of the slice on a way, in order, up to   *)
(* the fetch.                                                              *)
Lists(blocks, t) ==
  /\ t \in Seq(backs) /\ Len(t) \in Nat /\ Len(t) > 0 /\ t[Len(t)] = FetchOf(prog)
  /\ \A i \in 1..Len(t) : t[i] \in backs /\ \E k \in 1..Len(blocks) : HostOf(prog, t[i]) = blocks[k]
  /\ \A i, j \in 1..Len(t) : i < j => Ahead(blocks, t[i], t[j])
  /\ \A i, j \in 1..Len(t) : t[i] = t[j] => i = j
  /\ \A v \in backs : \A j \in 1..Len(t) :
       Ahead(blocks, v, t[j]) => \E i \in 1..(j - 1) : t[i] = v

(* Flat lists the slice along the blocks of a trace, up to the fetch. *)
LEMMA FlatLists ==
  ASSUME BuiltInv, stage = "ready", NEW blocks, SliceTrace(blocks)
  PROVE  Lists(blocks, Flat(blocks))
<1>. DEFINE n == Len(blocks)
            ss == [k \in DOMAIN blocks |-> Taken(blocks[k])]
            all == FlattenSeq(ss)
            I == {i \in 1..Len(all) : all[i] = FetchOf(prog)}
            m == SelectLastInSeq(all, LAMBDA v : v = FetchOf(prog))
            t == Flat(blocks)
<1>0. /\ prog \in Programs /\ backs \subseteq Values /\ suits \subseteq Blocks
      /\ FetchOf(prog) \in backs
  BY SliceKnown
<1>1. /\ blocks \in Seq(suits) /\ n \in Nat /\ n > 0 /\ DOMAIN blocks = 1..n
      /\ \A k \in 1..n : blocks[k] \in suits
      /\ \A i, j \in 1..n : blocks[i] = blocks[j] => i = j
  <2>1. blocks \in Seq(suits) /\ DOMAIN blocks = 1..n
    BY LenProperties DEF SliceTrace
  <2>. QED
    BY <2>1 DEF SliceTrace
<1>2. blocks \in Seq(Blocks)
  BY <1>0, <1>1, SeqMonotonic
<1>3. ASSUME NEW k \in 1..n
      PROVE  /\ ss[k] = Taken(blocks[k]) /\ blocks[k] \in Blocks
             /\ ss[k] \in Seq(backs) /\ Len(ss[k]) \in Nat
             /\ \A o \in 1..Len(ss[k]) : ss[k][o] \in backs /\ HostOf(prog, ss[k][o]) = blocks[k]
             /\ \A v \in backs : HostOf(prog, v) = blocks[k] =>
                                   \E o \in 1..Len(ss[k]) : ss[k][o] = v
             /\ \A o, q \in 1..Len(ss[k]) : o < q => Precedes(prog, ss[k][o], ss[k][q])
  <2>1. ss[k] = Taken(blocks[k]) /\ blocks[k] \in Blocks
    BY <1>0, <1>1
  <2>. HIDE DEF ss
  <2>2. ss[k] \in Seq(Insts(blocks[k]))
    BY <1>0, <2>1, TakenFacts
  <2>3. \A o \in 1..Len(ss[k]) : ss[k][o] \in Insts(blocks[k])
    BY <2>2, ElementOfSeq
  <2>4. Insts(blocks[k]) \subseteq backs
    BY DEF Insts
  <2>5. ss[k] \in Seq(backs) /\ Len(ss[k]) \in Nat
    BY <2>2, <2>4, SeqMonotonic, LenProperties
  <2>6. \A v \in backs : HostOf(prog, v) = blocks[k] => v \in Insts(blocks[k])
    BY DEF Insts
  <2>7. /\ \A v \in Insts(blocks[k]) : \E i \in 1..Len(ss[k]) : ss[k][i] = v
        /\ \A o, q \in 1..Len(ss[k]) : o < q => Precedes(prog, ss[k][o], ss[k][q])
    BY <1>0, <2>1, TakenFacts
  <2>8. \A o \in 1..Len(ss[k]) : ss[k][o] \in backs /\ HostOf(prog, ss[k][o]) = blocks[k]
    BY <2>3 DEF Insts
  <2>. QED
    BY <2>1, <2>5, <2>6, <2>7, <2>8
<1>4. ss \in Seq(Seq(backs)) /\ Len(ss) = n
  <2>1. ss \in [1..n -> Seq(backs)]
    BY <1>1, <1>3
  <2>. HIDE DEF ss
  <2>. QED
    BY <1>1, <2>1, IsASeq, LenProperties
<1>5. t = SubSeq(all, 1, m)
  BY DEF Flat
<1>6. m = IF I # {} THEN Max(I) ELSE 0
  BY DEF SelectLastInSeq
<1>. HIDE DEF ss, m, t
<1>7. all \in Seq(backs) /\ \E blk, off : Laid(all, ss, n, blk, off)
  BY <1>4, FlattenLaid
<1>. HIDE DEF all
<1>8. PICK blk, off : Laid(all, ss, n, blk, off)
  BY <1>7
<1>9. Len(all) \in Nat /\ \A i \in 1..Len(all) : all[i] \in backs
  BY <1>7, LenProperties, ElementOfSeq
<1>10. ASSUME NEW i \in 1..Len(all)
       PROVE  /\ blk[i] \in 1..n /\ off[i] \in 1..Len(ss[blk[i]])
              /\ all[i] = ss[blk[i]][off[i]] /\ HostOf(prog, all[i]) = blocks[blk[i]]
  BY <1>3, <1>8 DEF Laid
<1>11. ASSUME NEW v \in backs, NEW k \in 1..n, HostOf(prog, v) = blocks[k]
       PROVE  \E i \in 1..Len(all) : all[i] = v
  <2>1. PICK o \in 1..Len(ss[k]) : ss[k][o] = v
    BY <1>3, <1>11
  <2>2. PICK i \in 1..Len(all) : blk[i] = k /\ off[i] = o
    BY <1>8, <2>1 DEF Laid
  <2>. QED
    BY <1>10, <2>1, <2>2
<1>12. ASSUME NEW i \in 1..Len(all), NEW j \in 1..Len(all), i < j
       PROVE  Ahead(blocks, all[i], all[j])
  <2>1. blk[i] < blk[j] \/ (blk[i] = blk[j] /\ off[i] < off[j])
    BY <1>8, <1>12 DEF Laid
  <2>2. blk[i] \in 1..n /\ blk[j] \in 1..n
        /\ HostOf(prog, all[i]) = blocks[blk[i]] /\ HostOf(prog, all[j]) = blocks[blk[j]]
    BY <1>10
  <2>3. CASE blk[i] < blk[j]
    BY <2>2, <2>3 DEF Ahead
  <2>4. CASE blk[i] = blk[j] /\ off[i] < off[j]
    <3>1. /\ off[i] \in 1..Len(ss[blk[i]]) /\ off[j] \in 1..Len(ss[blk[i]])
          /\ all[i] = ss[blk[i]][off[i]] /\ all[j] = ss[blk[i]][off[j]] /\ off[i] < off[j]
      BY <1>10, <2>4
    <3>2. \A o, q \in 1..Len(ss[blk[i]]) : o < q => Precedes(prog, ss[blk[i]][o], ss[blk[i]][q])
      BY <1>3, <2>2
    <3>3. Precedes(prog, all[i], all[j])
      BY <3>1, <3>2
    <3>. QED
      BY <2>2, <2>4, <3>3 DEF Ahead
  <2>. QED
    BY <2>1, <2>3, <2>4
<1>13. \E k \in 1..n : FetchBlock = blocks[k]
  <2>1. CASE FetchBlock # entry
    <3>1. blocks[n] = FetchBlock
      BY <2>1, SliceKnown DEF SliceTrace, LastBlock
    <3>. QED
      BY <1>1, <3>1
  <2>2. CASE FetchBlock = entry
    BY <1>1, <2>2 DEF SliceTrace
  <2>. QED
    BY <2>1, <2>2
<1>14. I # {}
  <2>1. PICK i \in 1..Len(all) : all[i] = FetchOf(prog)
    BY <1>0, <1>11, <1>13 DEF FetchBlock
  <2>. QED
    BY <2>1
<1>15. m \in 1..Len(all) /\ all[m] = FetchOf(prog)
  <2>1. \E x \in I : \A y \in I : x >= y
    <3>. DEFINE D == {Len(all) - i : i \in I}
    <3>1. D \in SUBSET Nat /\ D # {}
      BY <1>9, <1>14
    <3>2. PICK d \in D : \A e \in D : d <= e
      <4>. HIDE DEF D
      <4>. QED
        BY <3>1, LeastExists
    <3>3. PICK x \in I : d = Len(all) - x
      BY <3>2
    <3>4. ASSUME NEW y \in I
          PROVE  x >= y
      <4>1. d <= Len(all) - y
        BY <3>2
      <4>. QED
        BY <1>9, <3>3, <4>1
    <3>. QED
      BY <3>4
  <2>2. m \in I
    <3>. HIDE DEF I
    <3>. QED
      BY <1>6, <1>14, <2>1 DEF Max
  <2>. QED
    BY <2>2
<1>16. Len(t) = m /\ Len(t) \in Nat /\ Len(t) > 0 /\ t \in Seq(backs)
       /\ \A i \in 1..m : t[i] = all[i] /\ i \in 1..Len(all)
  <2>1. m \in Int /\ 1 \in Int /\ \A i \in 1..m : all[i] \in backs /\ i \in 1..Len(all)
    BY <1>9, <1>15
  <2>2. /\ t \in Seq(backs) /\ Len(t) = IF 1 <= m THEN (m - 1) + 1 ELSE 0
        /\ \A i \in 1..((m - 1) + 1) : t[i] = all[(1 + i) - 1]
    BY <1>5, <2>1, SubSeqProperties
  <2>3. m \in Nat /\ m >= 1 /\ (m - 1) + 1 = m /\ \A i \in 1..m : (1 + i) - 1 = i
    BY <1>9, <1>15
  <2>. QED
    BY <2>1, <2>2, <2>3
<1>17. t[Len(t)] = FetchOf(prog)
  BY <1>15, <1>16
<1>18. \A i \in 1..Len(t) : t[i] \in backs /\ \E k \in 1..n : HostOf(prog, t[i]) = blocks[k]
  BY <1>9, <1>10, <1>16
<1>19. \A i, j \in 1..Len(t) : i < j => Ahead(blocks, t[i], t[j])
  BY <1>12, <1>16
<1>20. ASSUME NEW i \in 1..Len(t), NEW j \in 1..Len(t), t[i] = t[j]
       PROVE  i = j
  <2>1. ~(i < j) /\ ~(j < i)
    BY <1>0, <1>1, <1>2, <1>19, <1>20, AheadFacts
  <2>. QED
    BY <1>16, <2>1
<1>21. ASSUME NEW v \in backs, NEW j \in 1..Len(t), Ahead(blocks, v, t[j])
       PROVE  \E i \in 1..(j - 1) : t[i] = v
  <2>1. PICK k \in 1..n : HostOf(prog, v) = blocks[k]
    BY <1>21 DEF Ahead
  <2>2. PICK i \in 1..Len(all) : all[i] = v
    BY <1>11, <2>1
  <2>3. j \in 1..Len(all) /\ t[j] = all[j]
    BY <1>16
  <2>4. ~(j < i) /\ i # j
    BY <1>0, <1>1, <1>2, <1>12, <1>21, <2>2, <2>3, AheadFacts
  <2>5. i \in 1..(j - 1) /\ i \in 1..m
    BY <1>9, <1>16, <2>2, <2>4
  <2>. QED
    BY <1>16, <2>2, <2>5
<1>. QED
  BY <1>16, <1>17, <1>18, <1>19, <1>20, <1>21 DEF Lists, t

------------------------------------------------------------------------------
(* Dominators and the trace. *)

(* What control reaches without coming to d. *)
Avoiding(d) == Closure({EntryBlock} \ {d}, [c \in Blocks |-> Successors(prog, c) \ {d}])

(* It is what the dominators are defined by. *)
LEMMA AvoidingFacts ==
  ASSUME prog \in Programs, NEW d
  PROVE  /\ EntryBlock # d => EntryBlock \in Avoiding(d)
         /\ Avoiding(d) \subseteq Blocks
         /\ \A x \in Avoiding(d) : \A y \in Successors(prog, x) : y # d => y \in Avoiding(d)
         /\ Avoiding(d) \subseteq Closure({EntryBlock}, SuccGraph(prog))
         /\ \A b : Dominates(prog, d, b) <=> b \notin Avoiding(d)
<1>. DEFINE G == [c \in Blocks |-> Successors(prog, c) \ {d}]
            S == {EntryBlock} \ {d}
            H == SuccGraph(prog)
<1>1. /\ DOMAIN G = Blocks /\ \A c \in Blocks : G[c] = Successors(prog, c) \ {d} /\ G[c] \subseteq Blocks
      /\ DOMAIN H = Blocks /\ \A c \in Blocks : H[c] = Successors(prog, c) /\ H[c] \subseteq Blocks
      /\ S \in SUBSET Blocks /\ S \subseteq {EntryBlock} /\ {EntryBlock} \in SUBSET Blocks
  BY ProgramFacts, EntryAssumption DEF SuccGraph
<1>2. Avoiding(d) = Closure(S, G)
  BY DEF Avoiding
<1>3. \A b : Dominates(prog, d, b) <=> b \notin Avoiding(d)
  BY DEF Dominates, Avoiding
<1>4. EntryBlock # d => EntryBlock \in S
  OBVIOUS
<1>. HIDE DEF G, S, H
<1>5. S \subseteq Closure(S, G) /\ Closure(S, G) \subseteq Blocks
  BY <1>1, ClosureExtends DEF Closure
<1>6. Closed(Closure(S, G), G)
  BY <1>1, ClosureIsClosed
<1>7. \A x \in Closure(S, G) : \A y \in Successors(prog, x) : y # d => y \in Closure(S, G)
  BY <1>1, <1>5, <1>6 DEF Closed
<1>8. Closure(S, G) \subseteq Closure({EntryBlock}, H)
  <2>1. S \subseteq Closure({EntryBlock}, H)
    BY <1>1, ClosureExtends
  <2>2. \A v \in DOMAIN H : G[v] \subseteq H[v] /\ H[v] \subseteq DOMAIN H
    BY <1>1
  <2>. QED
    BY <1>1, <2>1, <2>2, ClosureGrows
<1>. QED
  BY <1>2, <1>3, <1>4, <1>5, <1>7, <1>8 DEF H

(* A trace that has not met block d so far: neither has control.           *)
LEMMA WayAvoids ==
  ASSUME BuiltInv, stage = "ready", NEW t, SliceTrace(t), NEW d,
         d \in reach /\ Seen(d) => d \in suits,
         NEW n \in 1..Len(t), \A k \in 1..n : t[k] # d
  PROVE  t[n] \in Avoiding(d) /\ Seen(t[n])
<1>. DEFINE T == {z \in Blocks : (z \in Avoiding(d) \/ z = d) /\ (z \in reach => Seen(z))}
            bad == {l \in 1..n : ~(t[l] \in Avoiding(d) /\ Seen(t[l]))}
<1>1. /\ prog \in Programs /\ suits \subseteq reach /\ reach \subseteq Blocks
      /\ Seen(EntryBlock)
      /\ \A b \in Blocks : Seen(b) => \A c \in Successors(prog, b) : c \in reach => Seen(c)
      /\ entry \in NextSuits(EntryBlock)
  BY SliceKnown
<1>2. /\ Len(t) \in Nat /\ t[1] = entry /\ \A i \in 1..Len(t) : t[i] \in suits
      /\ \A i \in 2..Len(t) : Follows(t[i - 1], t[i])
  BY DEF SliceTrace
<1>3. \A z \in T : Passing(z) => Successors(prog, z) \subseteq T
  <2> SUFFICES ASSUME NEW z \in T, Passing(z), NEW w \in Successors(prog, z)
               PROVE  w \in T
    OBVIOUS
  <2>1. z \in reach /\ z \notin suits /\ Seen(z) /\ z \in Blocks
    BY DEF Passing
  <2>2. z \in Avoiding(d)
    BY <2>1
  <2>3. w \in Blocks /\ (w \in Avoiding(d) \/ w = d)
    BY <1>1, <2>1, <2>2, AvoidingFacts, ProgramFacts
  <2>. QED
    BY <1>1, <2>1, <2>3
<1>4. ASSUME NEW c \in T, NEW l \in 1..n, t[l] \in NextSuits(c)
      PROVE  t[l] \in Avoiding(d) /\ Seen(t[l])
  <2>1. t[l] \in T
    <3>. HIDE DEF T
    <3>1. T \in SUBSET Blocks
      BY DEF T
    <3>. QED
      BY <1>3, <1>4, <3>1, NextSuitsWithin
  <2>2. l \in 1..Len(t) /\ t[l] # d
    BY <1>2
  <2>. QED
    BY <1>1, <1>2, <2>1, <2>2
<1>5. EntryBlock \in T
  BY <1>1, AvoidingFacts, EntryAssumption
<1>6. ASSUME bad # {}
      PROVE  FALSE
  <2>1. PICK m \in bad : \A k \in bad : m <= k
    <3>1. bad \in SUBSET Nat
      OBVIOUS
    <3>. HIDE DEF bad
    <3>. QED
      BY <1>6, <3>1, LeastExists
  <2>2. m \in 1..n /\ ~(t[m] \in Avoiding(d) /\ Seen(t[m])) /\ m \in 1..Len(t)
    BY <1>2
  <2>. HIDE DEF T
  <2>3. CASE m = 1
    <3>1. t[m] \in NextSuits(EntryBlock)
      BY <1>1, <1>2, <2>3
    <3>. QED
      BY <1>4, <1>5, <2>2, <3>1
  <2>4. CASE m # 1
    <3>1. m - 1 \in 1..n /\ m \in 2..Len(t) /\ m - 1 \in 1..Len(t) /\ ~(m <= m - 1)
      BY <1>2, <2>2, <2>4
    <3>2. t[m - 1] \in Avoiding(d) /\ Seen(t[m - 1]) /\ t[m - 1] \in Blocks
      <4>1. m - 1 \notin bad
        BY <2>1, <3>1
      <4>. QED
        BY <1>1, <1>2, <3>1, <4>1
    <3>3. PICK c \in Successors(prog, t[m - 1]) : t[m] \in NextSuits(c)
      BY <1>2, <3>1 DEF Follows
    <3>4. c \in T
      BY <1>1, <3>2, AvoidingFacts, ProgramFacts DEF T
    <3>. QED
      BY <1>4, <2>2, <3>3, <3>4
  <2>. QED
    BY <2>3, <2>4
<1>7. n \in 1..n
  BY <1>2
<1>. QED
  BY <1>6, <1>7

(* A trace stays in what control reaches. *)
LEMMA WayReached ==
  ASSUME BuiltInv, stage = "ready", NEW t, SliceTrace(t), NEW n \in 1..Len(t)
  PROVE  Seen(t[n]) /\ t[n] \in Closure({EntryBlock}, SuccGraph(prog))
<1>1. Null \notin Blocks /\ reach \subseteq Blocks /\ suits \subseteq reach /\ prog \in Programs
  BY SliceKnown
<1>2. \A k \in 1..n : t[k] # Null
  BY <1>1 DEF SliceTrace
<1>3. t[n] \in Avoiding(Null) /\ Seen(t[n])
  BY <1>1, <1>2, WayAvoids
<1>. QED
  BY <1>1, <1>3, AvoidingFacts

(* An operand is on the trace, where control has computed it. *)
Traced ==
  /\ BuiltInv /\ stage = "ready" /\ SliceTrace(path) /\ Lists(path, trace)

(* What dominates a block of the trace is met before. *)
LEMMA DominatorMet ==
  ASSUME Traced, NEW a \in backs, HostOf(prog, a) # Null,
         NEW l \in 1..Len(path), Dominates(prog, HostOf(prog, a), path[l])
  PROVE  \E k \in 1..l : path[k] = HostOf(prog, a)
<1>1. /\ prog \in Programs /\ reach \subseteq Blocks
      /\ \A v \in backs : HostOf(prog, v) \in reach \cup {Null}
      /\ \A v \in backs : HostOf(prog, v) \in Blocks /\ Seen(HostOf(prog, v))
                            => HostOf(prog, v) \in suits
  BY SliceKnown DEF Traced
<1>2. path[l] \notin Avoiding(HostOf(prog, a))
  BY <1>1, AvoidingFacts
<1>. QED
  BY <1>1, <1>2, WayAvoids DEF Traced

(* An operand that is available is on the trace before its user. *)
LEMMA OperandTraced ==
  ASSUME Traced, NEW i \in 1..Len(trace), NEW a \in backs,
         HostOf(prog, a) # Null, Available(prog, a, trace[i])
  PROVE  \E j \in 1..(i - 1) : trace[j] = a
<1>1. PICK l \in 1..Len(path) : HostOf(prog, trace[i]) = path[l]
  BY DEF Traced, Lists
<1>2. \E k \in 1..Len(path) :
        /\ HostOf(prog, a) = path[k]
        /\ k < l \/ (k = l /\ Precedes(prog, a, trace[i]))
  <2>1. CASE HostOf(prog, a) = HostOf(prog, trace[i])
    <3>1. path[l] \in Closure({EntryBlock}, SuccGraph(prog))
      BY WayReached DEF Traced
    <3>2. Precedes(prog, a, trace[i])
      BY <1>1, <2>1, <3>1 DEF Available
    <3>. QED
      BY <1>1, <2>1, <3>2
  <2>2. CASE HostOf(prog, a) # HostOf(prog, trace[i])
    <3>1. Dominates(prog, HostOf(prog, a), path[l])
      BY <1>1, <2>2 DEF Available
    <3>2. PICK k \in 1..l : path[k] = HostOf(prog, a)
      BY <3>1, DominatorMet
    <3>3. k # l /\ Len(path) \in Nat
      BY <1>1, <2>2, <3>2 DEF Traced, SliceTrace
    <3>. QED
      BY <3>2, <3>3
  <2>. QED
    BY <2>1, <2>2
<1>3. Ahead(path, a, trace[i])
  BY <1>1, <1>2 DEF Ahead
<1>. QED
  BY <1>3 DEF Traced, Lists

------------------------------------------------------------------------------
(* Phis. *)

(* A phi of the trace: the blocks before it are all in the slice, as their *)
(* ends are, so that control comes straight from the block before.         *)
PhiAt(i, l) ==
  /\ i \in 1..Len(trace) /\ l \in 1..Len(path)
  /\ HostOf(prog, trace[i]) = path[l] /\ KindOf(prog, trace[i]) = "phi"

(* The predecessors of a phi that the walk has come to are in the slice. *)
LEMMA PhiPredecessors ==
  ASSUME Traced, NEW i, NEW l, PhiAt(i, l)
  PROVE  /\ GoodPhi(prog, trace[i])
         /\ \A c \in PredGraph(prog)[path[l]] : c \in reach /\ (Seen(c) => c \in suits)
<1>1. /\ prog \in Programs /\ reach \subseteq Blocks /\ suits \subseteq reach /\ backs \subseteq Values
      /\ \A v \in backs \ RootsOf(prog) : OpsOf(prog, v) \subseteq backs
      /\ \A v \in backs : HostOf(prog, v) \in Blocks /\ Seen(HostOf(prog, v))
                            => HostOf(prog, v) \in suits
      /\ reach = ReachBlocks(prog)
  BY SliceKnown DEF Traced
<1>2. trace[i] \in backs /\ trace[i] \in Values /\ path[l] \in reach /\ path[l] \in Blocks
  BY <1>1 DEF Traced, Lists, SliceTrace, PhiAt
<1>3. GoodPhi(prog, trace[i]) /\ trace[i] \notin RootsOf(prog)
  BY <1>1, <1>2, FunctionAssumption DEF GoodValue, Computed, PhiAt
<1>4. ASSUME NEW c \in PredGraph(prog)[path[l]]
      PROVE  c \in reach /\ (Seen(c) => c \in suits)
  <2>1. c \in Blocks /\ c \in reach
    BY <1>1, <1>2, ReachFacts DEF Closed, PredGraph
  <2>2. TermOf(prog, c) \in OpsOf(prog, trace[i])
    BY <1>3 DEF GoodPhi, PhiAt
  <2>3. TermOf(prog, c) \in backs /\ HostOf(prog, TermOf(prog, c)) = c
    BY <1>1, <1>2, <1>3, <2>1, <2>2, ProgramFacts
  <2>. QED
    BY <1>1, <2>1, <2>3
<1>. QED
  BY <1>3, <1>4

(* The block before on the trace is a predecessor of the phi. *)
LEMMA PhiEntered ==
  ASSUME Traced, NEW i, NEW l, PhiAt(i, l)
  PROVE  /\ l - 1 \in 1..Len(path) /\ path[l - 1] \in PredGraph(prog)[path[l]]
         /\ path[l - 1] \in suits /\ Seen(path[l - 1])
<1>. DEFINE h == path[l]
            T == {z \in Blocks : z # h /\ (z \in reach => Seen(z))}
<1>1. /\ prog \in Programs /\ reach \subseteq Blocks /\ suits \subseteq reach
      /\ \A b \in Blocks : Seen(b) => \A c \in Successors(prog, b) : c \in reach => Seen(c)
      /\ entry \in NextSuits(EntryBlock) /\ Seen(EntryBlock)
  BY SliceKnown DEF Traced
<1>2. /\ Len(path) \in Nat /\ path[1] = entry /\ \A k \in 1..Len(path) : path[k] \in suits
      /\ \A k \in 2..Len(path) : Follows(path[k - 1], path[k])
      /\ l \in 1..Len(path) /\ h \in Blocks
  BY <1>1 DEF Traced, SliceTrace, PhiAt
<1>3. GoodPhi(prog, trace[i]) /\ \A c \in PredGraph(prog)[h] : Seen(c) => c \in suits
  BY PhiPredecessors
<1>4. ASSUME NEW c \in Blocks, c \in reach => Seen(c), h \in NextSuits(c)
      PROVE  c = h
  <2>1. SUFFICES ASSUME c # h
                 PROVE  FALSE
    OBVIOUS
  <2>2. \A z \in T : Passing(z) => Successors(prog, z) \subseteq T
    <3> SUFFICES ASSUME NEW z \in T, Passing(z), NEW w \in Successors(prog, z)
                 PROVE  w \in T
      OBVIOUS
    <3>1. z \in reach /\ z \notin suits /\ Seen(z) /\ z \in Blocks
      BY DEF Passing
    <3>2. w \in Blocks /\ (w \in reach => Seen(w))
      BY <1>1, <3>1, ProgramFacts
    <3>3. w = h => z \in PredGraph(prog)[h]
      BY <1>2, <3>1 DEF PredGraph
    <3>. QED
      BY <1>3, <3>1, <3>2, <3>3
  <2>3. T \in SUBSET Blocks /\ c \in T /\ h \notin T
    BY <1>4, <2>1
  <2>. HIDE DEF T
  <2>. QED
    BY <1>4, <2>2, <2>3, NextSuitsWithin
<1>5. l # 1
  <2>1. h # EntryBlock
    BY <1>3 DEF GoodPhi, PhiAt
  <2>. QED
    BY <1>1, <1>2, <1>4, <2>1, EntryAssumption
<1>6. l \in 2..Len(path) /\ l - 1 \in 1..Len(path)
  BY <1>2, <1>5
<1>7. Seen(path[l - 1])
  BY <1>6, WayReached DEF Traced
<1>8. PICK c \in Successors(prog, path[l - 1]) : h \in NextSuits(c)
  BY <1>2, <1>6 DEF Follows
<1>9. path[l - 1] \in Blocks /\ path[l - 1] \in suits
  BY <1>1, <1>2, <1>6
<1>10. c \in Blocks /\ (c \in reach => Seen(c))
  BY <1>1, <1>7, <1>8, <1>9, ProgramFacts
<1>11. c = h
  BY <1>4, <1>8, <1>10
<1>. QED
  BY <1>2, <1>6, <1>7, <1>8, <1>9, <1>11 DEF PredGraph

(* The table of the predecessors has one entry for the block before.       *)
LEMMA PhiTable ==
  ASSUME Traced, NEW i, NEW l, PhiAt(i, l), NEW c \in PredGraph(prog)[path[l]]
  PROVE  <<path[l], path[l - 1], c>> \in ptab <=> c = path[l - 1]
<1>. DEFINE h == path[l]
            s == path[l - 1]
            G == PredGraph(prog)
            T == {z \in Blocks : ~Seen(z)}
<1>1. /\ prog \in Programs /\ reach \subseteq Blocks /\ suits \subseteq reach
      /\ \A b \in Blocks : Seen(b) => \A d \in Successors(prog, b) : d \in reach => Seen(d)
  BY SliceKnown DEF Traced
<1>2. s \in suits /\ s \in G[h] /\ Seen(s) /\ h \in suits
  BY PhiEntered DEF PhiAt, Traced, SliceTrace
<1>3. c \in reach /\ (Seen(c) => c \in suits) /\ c \in Blocks
  BY <1>1, PhiPredecessors
<1>4. DOMAIN Through(G) = Blocks /\ \A x \in Blocks : Through(G)[x] = IF Passing(x) THEN G[x] ELSE {}
  BY DEF Through
<1>5. ASSUME c = s
      PROVE  <<h, s, c>> \in ptab
  <2>1. s \in Closure({s}, Through(G))
    <3>1. {s} \in SUBSET DOMAIN Through(G)
      BY <1>3, <1>4, <1>5
    <3>. QED
      BY <3>1, ClosureExtends
  <2>2. <<s, s>> \in To(h, G)
    BY <1>1, <1>2, <2>1 DEF To, Met
  <2>3. unlinked = {} /\ LinksFound
    BY DEF Traced, BuiltInv, LinkInv, Linking
  <2>4. \A m \in To(h, G) : <<h, m[1], m[2]>> \in ptab
    BY <1>2, <2>3 DEF LinksFound, Expanded
  <2>5. <<h, <<s, s>>[1], <<s, s>>[2]>> \in ptab
    BY <2>2, <2>4
  <2>. QED
    BY <1>5, <2>5
<1>6. ASSUME <<h, s, c>> \in ptab
      PROVE  c = s
  <2>1. <<s, c>> \in To(h, G)
    <3>1. PICK t : t = <<h, s, c>>
      OBVIOUS
    <3>2. t[1] = h /\ t[2] = s /\ t[3] = c
      BY <3>1
    <3>3. <<t[2], t[3]>> \in To(t[1], G)
      BY <1>6, <3>1 DEF Traced, BuiltInv, TablesKnown
    <3>. QED
      BY <3>2, <3>3
  <2>2. s \in Closure({c}, Through(G))
    <3>1. s \in Met(c, G)
      BY <2>1 DEF To
    <3>. QED
      BY <3>1 DEF Met
  <2>3. CASE c \in suits
    <3>1. Closed({c}, Through(G)) /\ {c} \in SUBSET DOMAIN Through(G)
      BY <1>3, <1>4, <2>3 DEF Closed, Passing
    <3>2. Closure({c}, Through(G)) \subseteq {c}
      BY <3>1, ClosureLeast
    <3>. QED
      BY <2>2, <3>2
  <2>4. CASE c \notin suits
    <3>1. c \in T
      BY <1>3, <2>4
    <3>2. Closed(T, Through(G))
      <4> SUFFICES ASSUME NEW z \in T, NEW w \in Through(G)[z]
                   PROVE  w \in T
        BY DEF Closed
      <4>1. z \in Blocks /\ ~Seen(z) /\ z \in reach /\ w \in G[z]
        BY <1>4 DEF Passing
      <4>2. w \in Blocks /\ z \in Successors(prog, w)
        BY <4>1 DEF PredGraph
      <4>. QED
        BY <1>1, <4>1, <4>2
    <3>3. {c} \subseteq T /\ T \in SUBSET DOMAIN Through(G)
      BY <1>4, <3>1
    <3>4. Closure({c}, Through(G)) \subseteq T
      <4>. HIDE DEF T
      <4>. QED
        BY <3>2, <3>3, ClosureLeast
    <3>. QED
      BY <1>2, <2>2, <3>4
  <2>. QED
    BY <2>3, <2>4
<1>. QED
  BY <1>5, <1>6

(* Before the phi the trace was in the block before.                       *)
LEMMA PhiBefore ==
  ASSUME Traced, NEW i, NEW l, PhiAt(i, l)
  PROVE  Before(i) = {path[l - 1]}
<1>. DEFINE others == {j \in 1..(i - 1) : Host(j) # Host(i)}
            last == {m \in others : \A k \in others : k <= m}
<1>1. /\ i \in 1..Len(trace) /\ l \in 1..Len(path) /\ Host(i) = path[l] /\ Len(trace) \in Nat
      /\ Len(path) \in Nat /\ path \in Seq(Blocks)
      /\ \A j, k \in 1..Len(path) : path[j] = path[k] => j = k
  BY SeqMonotonic, SliceKnown DEF Traced, Lists, SliceTrace, PhiAt, Host
<1>2. l - 1 \in 1..Len(path) /\ path[l - 1] \in suits /\ l - 1 # l
  BY <1>1, PhiEntered
<1>3. PICK u \in backs : HostOf(prog, u) = path[l - 1]
  BY <1>2, SliceKnown DEF Traced, Insts
<1>4. Ahead(path, u, trace[i])
  BY <1>1, <1>2, <1>3 DEF Ahead, Host
<1>5. PICK j \in 1..(i - 1) : trace[j] = u
  BY <1>1, <1>4 DEF Traced, Lists
<1>6. path[l - 1] # path[l]
  BY <1>1, <1>2
<1>7. j \in others
  BY <1>1, <1>3, <1>5, <1>6 DEF Host
<1>8. ASSUME NEW m \in others, \A k \in others : k <= m
      PROVE  Host(m) = path[l - 1]
  <2>1. m \in 1..Len(trace) /\ j \in 1..Len(trace) /\ j <= m /\ m < i /\ Host(m) # Host(i)
    BY <1>1, <1>7, <1>8
  <2>2. PICK k \in 1..Len(path) : Host(m) = path[k]
    BY <2>1 DEF Traced, Lists, Host
  <2>3. Ahead(path, trace[m], trace[i])
    BY <1>1, <2>1 DEF Traced, Lists
  <2>4. k < l
    <3>1. PICK x, y \in 1..Len(path) :
            /\ HostOf(prog, trace[m]) = path[x] /\ HostOf(prog, trace[i]) = path[y]
            /\ x < y \/ (x = y /\ Precedes(prog, trace[m], trace[i]))
      BY <2>3 DEF Ahead
    <3>2. x = k /\ y = l
      BY <1>1, <2>2, <3>1 DEF Host
    <3>. QED
      BY <1>1, <2>1, <2>2, <3>1, <3>2
  <2>5. CASE k = l - 1
    BY <2>2, <2>5
  <2>6. CASE k # l - 1
    <3>1. k < l - 1
      BY <1>1, <2>2, <2>4, <2>6
    <3>2. Ahead(path, trace[m], u)
      BY <1>2, <1>3, <2>2, <3>1 DEF Ahead, Host
    <3>3. m # j
      BY <1>1, <1>2, <1>3, <1>5, <2>2, <2>6 DEF Host
    <3>4. Ahead(path, u, trace[m])
      <4>1. j < m
        BY <1>1, <2>1, <3>3
      <4>. QED
        BY <1>5, <2>1, <4>1 DEF Traced, Lists
    <3>. QED
      BY <1>1, <3>2, <3>4, AheadFacts, SliceKnown DEF Traced
  <2>. QED
    BY <2>5, <2>6
<1>9. \E m \in others : \A k \in others : k <= m
  <2>. DEFINE D == {Len(trace) - k : k \in others}
  <2>1. D \in SUBSET Nat /\ D # {}
    BY <1>1, <1>7
  <2>2. PICK d \in D : \A e \in D : d <= e
    <3>. HIDE DEF D
    <3>. QED
      BY <2>1, LeastExists
  <2>3. PICK m \in others : d = Len(trace) - m
    BY <2>2
  <2>4. ASSUME NEW k \in others
        PROVE  k <= m
    <3>1. d <= Len(trace) - k
      BY <2>2
    <3>2. k \in Nat /\ m \in Nat
      BY <1>1
    <3>. HIDE DEF others
    <3>. QED
      BY <1>1, <2>3, <3>1, <3>2
  <2>. QED
    BY <2>4
<1>10. Before(i) = {Host(k) : k \in last}
  BY DEF Before
<1>. HIDE DEF others
<1>11. last # {} /\ \A m \in last : Host(m) = path[l - 1]
  BY <1>8, <1>9
<1>. QED
  BY <1>10, <1>11

(* The value of a phi on the trace is the one that comes in from the block *)
(* before; it is on the trace already.                                     *)
LEMMA PhiFacts ==
  ASSUME Traced, NEW i, NEW l, PhiAt(i, l)
  PROVE  LET a == IncomingOf(prog, trace[i])[path[l - 1]]
         IN  /\ Incoming(i) = {a}
             /\ l - 1 \in 1..Len(path)
             /\ a \in Values
             /\ HostOf(prog, a) # Null => /\ ~IsTerm(prog, a)
                                          /\ \E j \in 1..(i - 1) : trace[j] = a
<1>. DEFINE s == path[l - 1]
            v == trace[i]
            a == IncomingOf(prog, v)[s]
            C == {c \in DOMAIN IncomingOf(prog, v) :
                    \E b \in Before(i) : <<Host(i), b, c>> \in ptab}
<1>1. GoodPhi(prog, v) /\ HostOf(prog, v) = path[l] /\ Host(i) = path[l]
  BY PhiPredecessors DEF PhiAt, Host
<1>2. DOMAIN IncomingOf(prog, v) = PredGraph(prog)[path[l]]
  BY <1>1 DEF GoodPhi
<1>3. l - 1 \in 1..Len(path) /\ s \in DOMAIN IncomingOf(prog, v)
  BY <1>2, PhiEntered
<1>4. C = {s}
  <2>1. Before(i) = {s}
    BY PhiBefore
  <2>2. \A c \in PredGraph(prog)[path[l]] : <<path[l], s, c>> \in ptab <=> c = s
    BY PhiTable
  <2>. QED
    BY <1>1, <1>2, <1>3, <2>1, <2>2
<1>5. Incoming(i) = {a}
  <2>1. Incoming(i) = {IncomingOf(prog, v)[b] : b \in C}
    BY DEF Incoming
  <2>. HIDE DEF C
  <2>. QED
    BY <1>4, <2>1
<1>6. a \in Values
  BY <1>1, <1>3 DEF GoodPhi
<1>7. ASSUME HostOf(prog, a) # Null
      PROVE  ~IsTerm(prog, a) /\ \E j \in 1..(i - 1) : trace[j] = a
  <2>1. a \in OpsOf(prog, v) /\ ~IsTerm(prog, a) /\ Dominates(prog, HostOf(prog, a), s)
    BY <1>1, <1>3, <1>7 DEF GoodPhi
  <2>2. v \in backs /\ v \in Values /\ prog \in Programs
    BY SliceKnown DEF Traced, Lists, PhiAt
  <2>3. v \notin RootsOf(prog)
    BY <2>2, FunctionAssumption DEF GoodValue, Computed, PhiAt
  <2>4. a \in backs
    <3>1. \A w \in backs \ RootsOf(prog) : OpsOf(prog, w) \subseteq backs
      BY SliceKnown DEF Traced
    <3>. HIDE DEF a, v
    <3>. QED
      BY <2>1, <2>2, <2>3, <3>1
  <2>5. PICK k \in 1..(l - 1) : path[k] = HostOf(prog, a)
    <3>. HIDE DEF a
    <3>. QED
      BY <1>3, <1>7, <2>1, <2>4, DominatorMet
  <2>6. k \in 1..Len(path) /\ k < l /\ l \in 1..Len(path)
    <3>1. l \in 1..Len(path) /\ Len(path) \in Nat
      BY DEF PhiAt, Traced, SliceTrace
    <3>. QED
      BY <1>3, <2>5, <3>1
  <2>7. Ahead(path, a, v)
    BY <1>1, <2>5, <2>6 DEF Ahead
  <2>8. i \in 1..Len(trace)
    BY DEF PhiAt
  <2>. QED
    BY <2>1, <2>4, <2>7, <2>8 DEF Traced, Lists
<1>. QED
  BY <1>3, <1>5, <1>6, <1>7

(* Control, on its way from the block before to the phi, comes from there. *)
LEMMA PhiEnters ==
  ASSUME Traced, NEW i, NEW l, PhiAt(i, l)
  PROVE  EntersFrom(path[l - 1], path[l]) \subseteq {path[l - 1]}
<1>. DEFINE s == path[l - 1]
            T == {z \in Blocks : z \in reach => Seen(z)}
<1>1. /\ prog \in Programs /\ reach \subseteq Blocks
      /\ \A b \in Blocks : Seen(b) => \A d \in Successors(prog, b) : d \in reach => Seen(d)
      /\ suits \subseteq reach
  BY SliceKnown DEF Traced
<1>2. s \in suits /\ Seen(s) /\ s \in Blocks
  BY <1>1, PhiEntered
<1>3. SUFFICES ASSUME NEW c \in PredGraph(prog)[path[l]], c \in reach, c \notin suits,
                      NEW d \in Successors(prog, s), c \in Passed(d)
               PROVE  FALSE
  BY DEF EntersFrom, PassingGraph, Passed
<1>4. ~Seen(c)
  BY <1>3, PhiPredecessors
<1>5. d \in T
  BY <1>1, <1>2, ProgramFacts
<1>6. \A z \in T : Passing(z) => Successors(prog, z) \subseteq T
  <2> SUFFICES ASSUME NEW z \in T, Passing(z), NEW w \in Successors(prog, z)
               PROVE  w \in T
    OBVIOUS
  <2>1. z \in Blocks /\ Seen(z)
    BY DEF Passing
  <2>. QED
    BY <1>1, <2>1, ProgramFacts
<1>7. T \in SUBSET Blocks
  OBVIOUS
<1>8. c \in T
  <2>. HIDE DEF T
  <2>. QED
    BY <1>3, <1>5, <1>6, <1>7, NextSuitsWithin
<1>. QED
  BY <1>3, <1>4, <1>8

------------------------------------------------------------------------------
(* The operands of a node, the side of a branch. *)

(* Only a conditional branch becomes a node among the terminators. *)
Jump(v) == IsBranch(v) /\ ~IsConditional(v)

(* The nodes a trace can have. *)
NodeSet ==
  {n \in (0..Len(trace)) \X Values :
     IF n[1] = 0 THEN HostOf(prog, n[2]) = Null ELSE trace[n[1]] = n[2] /\ ~Jump(n[2])}

(* What buildNode makes n depend on. *)
OperandNodes(n) == UNION {Located(n[1], v) \X {v} : v \in Operands(n)}

(* An instruction is found at its only position. *)
LEMMA LocatedFacts ==
  ASSUME Traced, NEW i \in 0..Len(trace), NEW j \in 1..Len(trace), j <= i,
         HostOf(prog, trace[j]) # Null
  PROVE  Located(i, trace[j]) = {j}
<1>1. /\ Len(trace) \in Nat
      /\ \A k, l \in 1..Len(trace) : trace[k] = trace[l] => k = l
  BY DEF Traced, Lists
<1>2. \A k \in 1..i : k \in 1..Len(trace)
  BY <1>1
<1>3. j \in 1..i /\ \A k \in (j + 1)..i : k \in 1..Len(trace) /\ k # j
  BY <1>1
<1>. QED
  BY <1>1, <1>2, <1>3 DEF Located

(* Everything buildNode asks for is there, at an earlier position.         *)
LEMMA OperandsFound ==
  ASSUME Traced, NEW n \in NodeSet
  PROVE  /\ Buildable(n)
         /\ \A m \in OperandNodes(n) : m \in NodeSet /\ m[1] \in Nat /\ n[1] \in Nat /\ m[1] < n[1]
<1>1. /\ prog \in Programs /\ backs \subseteq Values /\ Null \notin Blocks
      /\ \A v \in backs \ RootsOf(prog) : OpsOf(prog, v) \subseteq backs
  BY SliceKnown DEF Traced
<1>2. n[1] \in 0..Len(trace) /\ n[2] \in Values /\ Len(trace) \in Nat
      /\ (n[1] = 0 => HostOf(prog, n[2]) = Null)
      /\ (n[1] # 0 => trace[n[1]] = n[2] /\ ~Jump(n[2]))
  BY DEF NodeSet, Traced, Lists
<1>3. CASE KindOf(prog, n[2]) \notin Computed
  <2>1. Operands(n) = {} /\ KindOf(prog, n[2]) # "phi"
    BY <1>3 DEF Operands, Computed
  <2>. QED
    BY <2>1 DEF Buildable, OperandNodes
<1>4. CASE KindOf(prog, n[2]) \in Computed
  <2>1. HostOf(prog, n[2]) # Null /\ n[2] \notin RootsOf(prog)
    BY <1>1, <1>2, <1>4, FunctionAssumption DEF GoodValue
  <2>2. n[1] \in 1..Len(trace) /\ trace[n[1]] = n[2] /\ ~Jump(n[2]) /\ n[2] \in backs
    BY <1>2, <2>1 DEF Traced, Lists
  <2>3. /\ \A a \in Operands(n) :
             /\ a \in Values
             /\ HostOf(prog, a) # Null =>
                  ~IsTerm(prog, a) /\ \E j \in 1..(n[1] - 1) : trace[j] = a
        /\ KindOf(prog, n[2]) = "phi" => Cardinality(Incoming(n[1])) = 1
    <3>1. CASE KindOf(prog, n[2]) = "phi"
      <4>1. PICK l \in 1..Len(path) : HostOf(prog, trace[n[1]]) = path[l]
        BY <2>2 DEF Traced, Lists
      <4>2. PhiAt(n[1], l)
        BY <2>2, <3>1, <4>1 DEF PhiAt
      <4>3. PICK a : /\ Incoming(n[1]) = {a} /\ a \in Values
                     /\ HostOf(prog, a) # Null =>
                          ~IsTerm(prog, a) /\ \E j \in 1..(n[1] - 1) : trace[j] = a
        BY <4>2, PhiFacts
      <4>4. Cardinality(Incoming(n[1])) = 1
        BY <4>3, FS_Singleton
      <4>. QED
        BY <3>1, <4>3, <4>4 DEF Operands
    <3>2. CASE KindOf(prog, n[2]) # "phi"
      <4>1. Operands(n) = ArgsOf(prog, n[2])
        BY <1>4, <3>2 DEF Operands
      <4>2. IsTerm(prog, n[2]) => Len(SuccOf(prog, HostOf(prog, n[2]))) = 2
        BY <2>2 DEF Jump, IsTerm, IsBranch, IsConditional, Arity
      <4>3. \A a \in ArgsOf(prog, n[2]) : a \in Values /\ Available(prog, a, n[2])
        BY <1>1, <1>2, <1>4, <3>2, <4>2, FunctionAssumption DEF GoodValue
      <4>4. ASSUME NEW a \in ArgsOf(prog, n[2]), HostOf(prog, a) # Null
            PROVE  ~IsTerm(prog, a) /\ \E j \in 1..(n[1] - 1) : trace[j] = a
        <5>1. Available(prog, a, n[2]) /\ a \in OpsOf(prog, n[2]) /\ ~IsTerm(prog, a)
          BY <4>3, <4>4 DEF Available
        <5>2. a \in backs
          BY <1>1, <2>1, <2>2, <5>1
        <5>. QED
          BY <2>2, <4>4, <5>1, <5>2, OperandTraced
      <4>. QED
        BY <3>2, <4>1, <4>3, <4>4
    <3>. QED
      BY <3>1, <3>2
  <2>4. ASSUME NEW a \in Operands(n)
        PROVE  /\ Located(n[1], a) # {}
               /\ \A k \in Located(n[1], a) : <<k, a>> \in NodeSet /\ k \in Nat /\ k < n[1]
    <3>1. CASE HostOf(prog, a) = Null
      <4>1. Located(n[1], a) = {0}
        BY <3>1 DEF Located
      <4>2. <<0, a>> \in NodeSet
        BY <1>2, <2>3, <3>1 DEF NodeSet
      <4>. QED
        BY <2>2, <4>1, <4>2
    <3>2. CASE HostOf(prog, a) # Null
      <4>1. PICK j \in 1..(n[1] - 1) : trace[j] = a
        BY <2>3, <3>2
      <4>2. j \in 1..Len(trace) /\ j \in 0..Len(trace) /\ j <= n[1] /\ j < n[1] /\ j # 0 /\ j \in Nat
        BY <1>2, <2>2, <4>1
      <4>3. Located(n[1], a) = {j}
        BY <1>2, <3>2, <4>1, <4>2, LocatedFacts
      <4>4. ~Jump(a) /\ a \in Values
        BY <2>3, <3>2 DEF Jump, IsBranch, IsTerm
      <4>5. <<j, a>> \in NodeSet
        BY <4>1, <4>2, <4>4 DEF NodeSet
      <4>. QED
        BY <4>2, <4>3, <4>5
    <3>. QED
      BY <3>1, <3>2
  <2>5. Buildable(n)
    BY <2>3, <2>4 DEF Buildable
  <2>6. ASSUME NEW m \in OperandNodes(n)
        PROVE  m \in NodeSet /\ m[1] \in Nat /\ n[1] \in Nat /\ m[1] < n[1]
    <3>1. PICK a \in Operands(n) : m \in Located(n[1], a) \X {a}
      BY DEF OperandNodes
    <3>2. m = <<m[1], a>> /\ m[1] \in Located(n[1], a)
      BY <3>1
    <3>. QED
      BY <2>2, <2>4, <3>2
  <2>. QED
    BY <2>5, <2>6
<1>. QED
  BY <1>3, <1>4

(* The instruction after a branch is the first one of the next block.      *)
LEMMA AfterBranch ==
  ASSUME Traced, NEW i \in 1..Len(trace), IsConditional(trace[i])
  PROVE  \E l \in 1..(Len(path) - 1) :
           /\ Host(i) = path[l] /\ Host(i + 1) = path[l + 1] /\ i # Len(trace)
           /\ Arity(path[l]) = 2
<1>. DEFINE v == trace[i]
            w == trace[i + 1]
<1>1. /\ prog \in Programs /\ backs \subseteq Values /\ suits \subseteq Blocks
      /\ Len(trace) \in Nat /\ Len(path) \in Nat /\ path \in Seq(Blocks)
      /\ \A j, k \in 1..Len(path) : path[j] = path[k] => j = k
      /\ trace[Len(trace)] = FetchOf(prog)
      /\ \A k \in 1..Len(path) : path[k] \in suits
  BY SliceKnown, SeqMonotonic DEF Traced, Lists, SliceTrace
<1>2. IsTerm(prog, v) /\ Arity(HostOf(prog, v)) = 2
  BY DEF IsConditional, IsBranch, IsTerm
<1>3. i # Len(trace)
  <2>1. ~IsTerm(prog, FetchOf(prog))
    BY <1>1, FunctionAssumption DEF GoodFetch
  <2>. QED
    BY <1>1, <1>2, <2>1
<1>4. i + 1 \in 1..Len(trace)
  BY <1>1, <1>3
<1>5. Ahead(path, v, w)
  BY <1>1, <1>4 DEF Traced, Lists
<1>6. PICK l, k \in 1..Len(path) :
        /\ HostOf(prog, v) = path[l] /\ HostOf(prog, w) = path[k]
        /\ l < k \/ (l = k /\ Precedes(prog, v, w))
  BY <1>5 DEF Ahead
<1>7. ~(l = k /\ Precedes(prog, v, w))
  <2>. DEFINE order == OrderOf(prog, path[l])
  <2>1. SUFFICES ASSUME l = k, Precedes(prog, v, w)
                 PROVE  FALSE
    OBVIOUS
  <2>2. path[l] \in Blocks
    BY <1>1
  <2>3. /\ order \in Seq({u \in Values : HostOf(prog, u) = path[l]})
        /\ \A a, b \in DOMAIN order : order[a] = order[b] => a = b
        /\ order # <<>> /\ order[Len(order)] = v
    <3>1. LaidOut(prog, path[l]) /\ v = TermOf(prog, path[l])
      BY <1>1, <1>2, <1>6, <2>2, FunctionAssumption DEF IsTerm
    <3>. HIDE DEF v
    <3>. QED
      BY <3>1 DEF LaidOut
  <2>4. DOMAIN order = 1..Len(order) /\ Len(order) \in Nat /\ Len(order) > 0
    <3>. HIDE DEF order, v, w
    <3>. QED
      BY <2>3, LenProperties, EmptySeq
  <2>5. PICK b \in DOMAIN order : \E a \in 1..(b - 1) : order[a] = v
    BY <1>6, <2>1 DEF Precedes
  <2>. HIDE DEF order
  <2>6. PICK a \in 1..(b - 1) : order[a] = v
    BY <2>5
  <2>7. a \in DOMAIN order /\ Len(order) \in DOMAIN order /\ a # Len(order)
    <3>1. PICK n \in Nat : n = Len(order)
      BY <2>4
    <3>2. DOMAIN order = 1..n /\ n > 0
      BY <2>4, <3>1
    <3>3. b \in 1..n /\ a \in 1..(b - 1)
      BY <2>5, <2>6, <3>2
    <3>4. a \in 1..n /\ n \in 1..n /\ a # n
      BY <3>1, <3>2, <3>3
    <3>. QED
      BY <3>1, <3>2, <3>4
  <2>. QED
    BY <2>3, <2>6, <2>7
<1>8. l < k /\ l + 1 \in 1..Len(path) /\ l \in 1..(Len(path) - 1)
  BY <1>1, <1>6, <1>7
<1>9. k = l + 1
  <2>1. SUFFICES ASSUME k # l + 1
                 PROVE  FALSE
    OBVIOUS
  <2>2. l < l + 1 /\ l + 1 < k /\ l # l + 1
    BY <1>8, <2>1
  <2>3. PICK u \in backs : HostOf(prog, u) = path[l + 1]
    BY <1>1, <1>8, SliceKnown DEF Traced, Insts
  <2>4. Ahead(path, u, w) /\ Ahead(path, v, u)
    BY <1>6, <1>8, <2>2, <2>3 DEF Ahead
  <2>5. PICK j \in 1..((i + 1) - 1) : trace[j] = u
    BY <1>4, <2>4 DEF Traced, Lists
  <2>6. j # i
    BY <1>1, <1>6, <1>8, <2>2, <2>3, <2>5
  <2>7. j < i /\ j \in 1..Len(trace)
    BY <1>1, <2>5, <2>6
  <2>8. Ahead(path, u, v)
    BY <2>5, <2>7 DEF Traced, Lists
  <2>. QED
    BY <1>1, <2>4, <2>8, AheadFacts
<1>. QED
  BY <1>2, <1>3, <1>6, <1>8, <1>9 DEF Host

(* The table of the successors knows the side by what control meets. *)
LEMMA SideFacts ==
  ASSUME Traced, NEW i \in 1..Len(trace), IsConditional(trace[i])
  PROVE  LET ways == {k \in 1..2 : Host(i + 1) \in NextSuits(SuccOf(prog, Host(i))[k])}
         IN  Side(i) = IF ways = {1, 2} THEN {} ELSE ways
<1>. DEFINE next == Host(i + 1)
            b == Host(i)
            G == SuccGraph(prog)
            ways == {k \in 1..2 : next \in NextSuits(SuccOf(prog, b)[k])}
<1>1. PICK l \in 1..(Len(path) - 1) :
        b = path[l] /\ next = path[l + 1] /\ Arity(path[l]) = 2
  BY AfterBranch
<1>2. /\ prog \in Programs /\ suits \subseteq reach /\ reach \subseteq Blocks
      /\ Len(path) \in Nat /\ \A k \in 1..Len(path) : path[k] \in suits
      /\ \A k \in 2..Len(path) : Follows(path[k - 1], path[k])
  BY SliceKnown DEF Traced, SliceTrace
<1>3. /\ l \in 1..Len(path) /\ l + 1 \in 2..Len(path) /\ l + 1 \in 1..Len(path) /\ (l + 1) - 1 = l
  BY <1>2
<1>4. b \in suits /\ b \in Blocks /\ next \in suits /\ Follows(b, next) /\ Arity(b) = 2
  BY <1>1, <1>2, <1>3
<1>5. \A k \in 1..2 : SuccOf(prog, b)[k] \in Successors(prog, b)
  BY <1>2, <1>4, ProgramFacts
<1>6. Successors(prog, b) = {SuccOf(prog, b)[1], SuccOf(prog, b)[2]}
  BY <1>4 DEF Successors, Arity
<1>7. ASSUME NEW s \in Successors(prog, b)
      PROVE  <<b, next, s>> \in stab <=> next \in NextSuits(s)
  <2>1. next \in NextSuits(s) <=> next \in Met(s, G)
    <3>1. Through(G) = [c \in Blocks |-> IF Passing(c) THEN Successors(prog, c) ELSE {}]
      BY DEF Through, SuccGraph
    <3>. QED
      BY <1>2, <1>4, <3>1 DEF NextSuits, Met
  <2>2. s \in G[b]
    BY <1>4 DEF SuccGraph
  <2>3. next \in Met(s, G) <=> <<next, s>> \in To(b, G)
    BY <1>4, <2>2 DEF To
  <2>4. ASSUME <<next, s>> \in To(b, G)
        PROVE  <<b, next, s>> \in stab
    <3>1. unlinked = {} /\ LinksFound
      BY DEF Traced, BuiltInv, LinkInv, Linking
    <3>2. \A m \in To(b, G) : <<b, m[1], m[2]>> \in stab
      BY <1>4, <3>1 DEF LinksFound, Expanded
    <3>3. PICK m : m = <<next, s>>
      OBVIOUS
    <3>4. m[1] = next /\ m[2] = s /\ m \in To(b, G)
      BY <2>4, <3>3
    <3>. QED
      BY <3>2, <3>4
  <2>5. ASSUME <<b, next, s>> \in stab
        PROVE  <<next, s>> \in To(b, G)
    <3>1. PICK t : t = <<b, next, s>>
      OBVIOUS
    <3>2. t[1] = b /\ t[2] = next /\ t[3] = s
      BY <3>1
    <3>3. <<t[2], t[3]>> \in To(t[1], G)
      BY <2>5, <3>1 DEF Traced, BuiltInv, TablesKnown
    <3>. QED
      BY <3>2, <3>3
  <2>. QED
    BY <2>1, <2>3, <2>4, <2>5
<1>8. \A k \in 1..2 : InSTab(b, next, k) <=> next \in NextSuits(SuccOf(prog, b)[k])
  BY <1>5, <1>7 DEF InSTab
<1>9. \E k \in 1..2 : next \in NextSuits(SuccOf(prog, b)[k])
  BY <1>4, <1>6 DEF Follows
<1>10. Side(i) = IF InSTab(b, next, 1) THEN IF InSTab(b, next, 2) THEN {} ELSE {1} ELSE {2}
  BY DEF Side
<1>. HIDE DEF b, next
<1>11. ways = {k \in 1..2 : InSTab(b, next, k)} /\ \E k \in 1..2 : InSTab(b, next, k)
  BY <1>8, <1>9
<1>12. Side(i) = IF ways = {1, 2} THEN {} ELSE ways
  <2>. HIDE DEF ways
  <2>1. CASE InSTab(b, next, 1) /\ InSTab(b, next, 2)
    BY <1>10, <1>11, <2>1
  <2>2. CASE InSTab(b, next, 1) /\ ~InSTab(b, next, 2)
    BY <1>10, <1>11, <2>2
  <2>3. CASE ~InSTab(b, next, 1)
    BY <1>10, <1>11, <2>3
  <2>. QED
    BY <2>1, <2>2, <2>3
<1>. QED
  BY <1>12 DEF b, next

------------------------------------------------------------------------------
(* The invariant of the graph. *)

(* What the branches of the trace before position k say. *)
CondsUpTo(k) ==
  UNION {{<<i, trace[i]>>} \X Side(i) : i \in {j \in 1..(k - 1) : IsConditional(trace[j])}}

(* The graph has the dependencies of its nodes, among its nodes. *)
GraphOver(all) ==
  /\ nodes \subseteq NodeSet /\ all \subseteq NodeSet
  /\ deps = UNION {{n} \X OperandNodes(n) : n \in nodes}
  /\ \A n \in nodes : OperandNodes(n) \subseteq all

(* While the trace is followed: the graph and the conditions so far. *)
FollowKnown ==
  /\ seq \in 1..(Len(trace) + 1)
  /\ GraphOver(nodes \cup pending)
  /\ \A i \in 1..(seq - 1) : ~Jump(trace[i]) => <<i, trace[i]>> \in nodes \cup pending
  /\ conds = CondsUpTo(seq)

(* While the graph is trimmed: all of it, and what is kept so far. *)
TrimKnown ==
  /\ GraphOver(nodes)
  /\ \A i \in 1..Len(trace) : ~Jump(trace[i]) => <<i, trace[i]>> \in nodes
  /\ conds = CondsUpTo(Len(trace) + 1)
  /\ Seeds \subseteq kept /\ kept \subseteq nodes

(* What the trimming leaves: the fetch, and what uses a node that is left. *)
TrimmedKnown ==
  /\ GraphOver(nodes)
  /\ <<Len(trace), trace[Len(trace)]>> \in nodes
  /\ \A i \in 1..Len(trace) :
       ~Jump(trace[i]) /\ OperandNodes(<<i, trace[i]>>) \cap nodes # {} => <<i, trace[i]>> \in nodes

(* Nothing has been done for a trace yet. *)
Unstarted ==
  /\ path = <<>> /\ trace = <<>> /\ seq = 1
  /\ pending = {} /\ nodes = {} /\ deps = {} /\ conds = {} /\ kept = {}
  /\ symbols = {} /\ ready = {} /\ results = <<>>

(* Nothing is missing that the code asserts to be there. *)
Unbroken == flaw \notin {"build", "terminator", "end of trace", "no node"}

(* The invariant of the whole analysis of a fetch. *)
GraphInv ==
  /\ FetchInv
  /\ phase = "wait" => Unstarted
  /\ phase # "wait" => slice # Null /\ Traced
  /\ phase = "follow" => FollowKnown
  /\ phase = "trim" => pending = {} /\ TrimKnown
  /\ phase \in {"roots", "trace", "check", "end"} => TrimmedKnown
  /\ phase \in {"wait", "follow", "trim", "roots", "trace", "check", "end"}
  /\ Unbroken

(* What a trace is does not change once the slice is finished. *)
LEMMA TraceFrame ==
  ASSUME UNCHANGED <<vars, linkVars>>, NEW p, NEW q
  PROVE  (SliceTrace(p)' <=> SliceTrace(p)) /\ (Lists(p, q)' <=> Lists(p, q))
<1>1. /\ prog' = prog /\ reach' = reach /\ backs' = backs /\ suits' = suits /\ entry' = entry
      /\ back' = back
  BY DEF vars, linkVars
<1>2. \A b : NextSuits(b)' = NextSuits(b)
  <2> SUFFICES ASSUME NEW b
               PROVE  NextSuits(b)' = NextSuits(b)
    OBVIOUS
  <2>1. \A c : Passing(c)' = Passing(c)
    BY <1>1 DEF Passing
  <2>. DEFINE G == [c \in Blocks |-> IF Passing(c) THEN Successors(prog, c) ELSE {}]
  <2>2. G' = G
    BY <1>1, <2>1
  <2>3. NextSuits(b) = suits \cap Closure({b}, G) /\ NextSuits(b)' = suits' \cap Closure({b}, G')
    BY DEF NextSuits
  <2>. QED
    BY <1>1, <2>2, <2>3
<1>3. \A x, y : Follows(x, y)' = Follows(x, y)
  BY <1>1, <1>2 DEF Follows
<1>4. SliceTrace(p)' <=> SliceTrace(p)
  BY <1>1, <1>3 DEF SliceTrace
<1>5. \A v, w : Ahead(p, v, w)' = Ahead(p, v, w)
  BY <1>1 DEF Ahead
<1>6. Lists(p, q)' <=> Lists(p, q)
  BY <1>1, <1>5 DEF Lists
<1>. QED
  BY <1>4, <1>6

(* None of this depends on the graph built so far. *)
LEMMA GraphFrame ==
  ASSUME UNCHANGED <<vars, linkVars, path, trace>>
  PROVE  /\ NodeSet' = NodeSet
         /\ \A n : OperandNodes(n)' = OperandNodes(n)
         /\ \A v : Jump(v)' = Jump(v) /\ IsConditional(v)' = IsConditional(v)
         /\ \A k : CondsUpTo(k)' = CondsUpTo(k)
         /\ (SliceTrace(path) /\ Lists(path, trace))' = (SliceTrace(path) /\ Lists(path, trace))
<1>1. /\ prog' = prog /\ ptab' = ptab /\ stab' = stab /\ path' = path /\ trace' = trace
      /\ UNCHANGED <<vars, linkVars>>
  BY DEF vars, linkVars
<1>2. \A v : IsConditional(v)' = IsConditional(v) /\ Jump(v)' = Jump(v)
  BY <1>1 DEF Jump, IsConditional, IsBranch, Arity
<1>3. NodeSet' = NodeSet
  BY <1>1, <1>2 DEF NodeSet
<1>4. \A i, v : Located(i, v)' = Located(i, v)
  BY <1>1 DEF Located
<1>5. \A i : Host(i)' = Host(i)
  BY <1>1 DEF Host
<1>6. \A i : Incoming(i)' = Incoming(i)
  <2>1. \A i : Before(i)' = Before(i)
    BY <1>5 DEF Before
  <2>. QED
    BY <1>1, <1>5, <2>1 DEF Incoming
<1>7. \A n : Operands(n)' = Operands(n)
  BY <1>1, <1>6 DEF Operands
<1>8. \A n : OperandNodes(n)' = OperandNodes(n)
  BY <1>4, <1>7 DEF OperandNodes
<1>9. \A i : Side(i)' = Side(i)
  BY <1>1, <1>5 DEF Side, InSTab
<1>10. \A k : CondsUpTo(k)' = CondsUpTo(k)
  BY <1>1, <1>2, <1>9 DEF CondsUpTo
<1>11. (SliceTrace(path) /\ Lists(path, trace))' = (SliceTrace(path) /\ Lists(path, trace))
  <2>1. PICK p, q : p = path /\ q = trace
    OBVIOUS
  <2>2. SliceTrace(path)' = SliceTrace(p)' /\ Lists(path, trace)' = Lists(p, q)'
    BY <1>1, <2>1
  <2>3. SliceTrace(path) = SliceTrace(p) /\ Lists(path, trace) = Lists(p, q)
    BY <2>1
  <2>. QED
    BY <1>1, <2>2, <2>3, TraceFrame
<1>. QED
  BY <1>2, <1>3, <1>8, <1>10, <1>11

------------------------------------------------------------------------------
(* The steps up to the graph. *)

(* It holds in the beginning. *)
LEMMA GraphInit == EvalInit => GraphInv
BY FetchInitKeeps DEF EvalInit, GraphInv, Unstarted, Unbroken

(* A step of the evaluation leaves alone what the trace is. *)
LEMMA EvalFrame ==
  ASSUME GraphInv, phase # "wait", UNCHANGED allVars, UNCHANGED <<path, trace>>
  PROVE  /\ FetchInv' /\ slice' # Null /\ Traced'
         /\ NodeSet' = NodeSet
         /\ \A n : OperandNodes(n)' = OperandNodes(n)
         /\ \A v : Jump(v)' = Jump(v) /\ IsConditional(v)' = IsConditional(v)
         /\ \A k : CondsUpTo(k)' = CondsUpTo(k)
<1>1. FetchInv'
  BY FetchStepKeeps DEF GraphInv
<1>2. UNCHANGED <<vars, linkVars, path, trace>> /\ stage' = stage /\ slice' = slice
  BY DEF allVars, linkVars, oracleVars
<1>3. BuiltInv'
  BY <1>1 DEF FetchInv
<1>4. Traced /\ slice # Null
  BY DEF GraphInv
<1>5. Traced'
  BY <1>2, <1>3, <1>4, GraphFrame DEF Traced
<1>. QED
  BY <1>1, <1>2, <1>4, <1>5, GraphFrame

(* The slicing and unrolling of the fetch: over before a trace is taken.   *)
LEMMA TracerKeeps == GraphInv /\ Tracer => GraphInv'
<1>. SUFFICES ASSUME GraphInv, Tracer
              PROVE  GraphInv'
  OBVIOUS
<1>1. FetchStep /\ UNCHANGED evalVars
  BY DEF Tracer
<1>2. FetchInv'
  BY <1>1, FetchStepKeeps DEF GraphInv
<1>3. /\ phase' = phase /\ path' = path /\ trace' = trace /\ seq' = seq /\ pending' = pending
      /\ nodes' = nodes /\ deps' = deps /\ conds' = conds /\ kept' = kept /\ symbols' = symbols
      /\ ready' = ready /\ results' = results /\ flaw' = flaw
  BY <1>1 DEF evalVars
<1>4. CASE phase = "wait"
  BY <1>2, <1>3, <1>4 DEF GraphInv, Unstarted, Unbroken
<1>5. CASE phase # "wait"
  <2>1. slice # Null /\ Traced /\ stage = "ready"
    BY <1>5 DEF GraphInv, Traced
  <2>2. UNCHANGED <<vars, linkVars>> /\ slice' = slice
    <3>1. ~Slicer
      BY <2>1 DEF Slicer, LinkStep, Slicing, Expand, Verify, Wrap
    <3>2. ~Analyse
      BY <2>1 DEF Analyse
    <3>3. Unroller
      BY <1>1, <3>1, <3>2 DEF FetchStep
    <3>4. [U!UnrollNext]_(U!unrollVars)
      BY <3>3, SameStep DEF Unroller
    <3>5. slice' = slice
      <4>1. UnrollLimit \in Nat \ {0}
        BY LimitsAssumption
      <4>. QED
        BY <2>1, <3>4, <4>1, U!NextUnmoved DEF GraphInv, FetchInv
    <3>. QED
      BY <3>3, <3>5 DEF Unroller
  <2>3. UNCHANGED <<vars, linkVars, path, trace>> /\ stage' = stage
    BY <1>3, <2>2 DEF linkVars
  <2>4. Traced'
    BY <1>2, <2>1, <2>3, GraphFrame DEF Traced, FetchInv
  <2>5. /\ NodeSet' = NodeSet
        /\ \A n : OperandNodes(n)' = OperandNodes(n)
        /\ \A v : Jump(v)' = Jump(v)
        /\ \A k : CondsUpTo(k)' = CondsUpTo(k)
    BY <2>3, GraphFrame
  <2>6. \A all : GraphOver(all)' = GraphOver(all)
    BY <1>3, <2>5 DEF GraphOver
  <2>7. FollowKnown => FollowKnown'
    BY <1>3, <2>5, <2>6 DEF FollowKnown
  <2>8. TrimKnown => TrimKnown'
    BY <1>3, <2>5, <2>6 DEF TrimKnown, Seeds
  <2>9. TrimmedKnown => TrimmedKnown'
    BY <1>3, <2>5, <2>6 DEF TrimmedKnown
  <2>. QED
    BY <1>2, <1>3, <1>5, <2>1, <2>2, <2>4, <2>7, <2>8, <2>9 DEF GraphInv, Unbroken
<1>. QED
  BY <1>4, <1>5

(* A trace is taken: nothing is built yet. *)
LEMMA TakeTraceKeeps == GraphInv /\ TakeTrace => GraphInv'
<1>. SUFFICES ASSUME GraphInv, TakeTrace
              PROVE  GraphInv'
  OBVIOUS
<1>1. /\ flaw = "none" /\ UNCHANGED allVars /\ Answered /\ phase = "wait"
      /\ path' \in cache[<<Null, slice.basis>>].all
      /\ trace' = Flat(path') /\ phase' = "follow"
      /\ UNCHANGED <<seq, pending, nodes, deps, conds, kept, symbols, ready, results, flaw>>
  BY DEF TakeTrace, Operating
<1>2. FetchInv' /\ FetchInv
  BY <1>1, FetchStepKeeps DEF GraphInv
<1>3. UNCHANGED <<vars, linkVars>> /\ stage' = stage /\ slice' = slice
  BY <1>1 DEF allVars, linkVars, oracleVars
<1>4. PICK p : p = path'
  OBVIOUS
<1>5. stage = "ready" /\ SliceTrace(p) /\ slice # Null /\ BuiltInv
  BY <1>1, <1>2, <1>4, TracesKnown DEF Answered, FetchInv
<1>6. PICK q : q = Flat(p)
  OBVIOUS
<1>7. trace' = q /\ Lists(p, q)
  BY <1>1, <1>4, <1>5, <1>6, FlatLists
<1>8. SliceTrace(path)' = SliceTrace(p)' /\ Lists(path, trace)' = Lists(p, q)'
  BY <1>4, <1>7
<1>9. Traced'
  BY <1>2, <1>3, <1>5, <1>7, <1>8, TraceFrame DEF Traced, FetchInv
<1>10. /\ seq' = 1 /\ pending' = {} /\ nodes' = {} /\ deps' = {} /\ conds' = {}
  BY <1>1 DEF GraphInv, Unstarted
<1>11. FollowKnown'
  <2>1. Len(trace') \in Nat
    BY <1>7 DEF Lists
  <2>2. GraphOver(nodes \cup pending)'
    BY <1>10 DEF GraphOver
  <2>3. CondsUpTo(seq)' = {}
    <3>1. 1..(seq' - 1) = {}
      BY <1>10
    <3>2. {j \in 1..(seq' - 1) : IsConditional(trace[j])'} = {}
      BY <3>1
    <3>. QED
      BY <3>2 DEF CondsUpTo
  <2>. QED
    BY <1>10, <2>1, <2>2, <2>3 DEF FollowKnown
<1>. QED
  BY <1>1, <1>2, <1>3, <1>5, <1>9, <1>11 DEF GraphInv, Unbroken

(* A node is built, with calls for its operands. *)
LEMMA BuildKeeps ==
  ASSUME GraphInv, NEW n \in pending, Build(n)
  PROVE  GraphInv'
<1>. DEFINE under == OperandNodes(n)
<1>1. /\ flaw = "none" /\ UNCHANGED allVars /\ phase = "follow"
      /\ IF Buildable(n)
           THEN /\ nodes' = nodes \cup {n}
                /\ deps' = deps \cup ({n} \X under)
                /\ pending' = (pending \cup under) \ nodes'
                /\ UNCHANGED <<phase, path, trace, seq, conds, kept, symbols,
                               ready, results, flaw>>
           ELSE Break("build")
  BY DEF Build, Operating, OperandNodes
<1>2. Traced /\ FollowKnown /\ phase # "wait"
  BY <1>1 DEF GraphInv
<1>3. n \in NodeSet
  BY <1>2 DEF FollowKnown, GraphOver
<1>4. Buildable(n) /\ under \subseteq NodeSet
  BY <1>2, <1>3, OperandsFound
<1>5. /\ nodes' = nodes \cup {n} /\ deps' = deps \cup ({n} \X under)
      /\ pending' = (pending \cup under) \ nodes'
      /\ phase' = phase /\ path' = path /\ trace' = trace /\ seq' = seq /\ conds' = conds
      /\ flaw' = flaw
  BY <1>1, <1>4
<1>. HIDE DEF under
<1>6. /\ FetchInv' /\ slice' # Null /\ Traced' /\ NodeSet' = NodeSet
      /\ \A m : OperandNodes(m)' = OperandNodes(m)
      /\ \A v : Jump(v)' = Jump(v)
      /\ \A k : CondsUpTo(k)' = CondsUpTo(k)
  BY <1>1, <1>2, <1>5, EvalFrame
<1>7. nodes' \cup pending' = (nodes \cup pending) \cup under
  BY <1>5
<1>8. GraphOver(nodes \cup pending)'
  <2>1. nodes' \subseteq NodeSet' /\ nodes' \cup pending' \subseteq NodeSet'
    BY <1>2, <1>3, <1>4, <1>5, <1>6, <1>7 DEF FollowKnown, GraphOver
  <2>2. deps' = UNION {{m} \X OperandNodes(m) : m \in nodes'}
    BY <1>2, <1>5 DEF FollowKnown, GraphOver, under
  <2>3. \A m \in nodes' : OperandNodes(m) \subseteq nodes' \cup pending'
    BY <1>2, <1>5, <1>7 DEF FollowKnown, GraphOver, under
  <2>4. deps' = UNION {{m} \X OperandNodes(m)' : m \in nodes'}
    BY <1>6, <2>2
  <2>. QED
    BY <1>6, <2>1, <2>3, <2>4 DEF GraphOver
<1>9. FollowKnown'
  <2>1. seq' \in 1..(Len(trace') + 1) /\ conds' = CondsUpTo(seq)'
    BY <1>2, <1>5, <1>6 DEF FollowKnown
  <2>2. \A i \in 1..(seq' - 1) : ~Jump(trace'[i]) => <<i, trace'[i]>> \in nodes' \cup pending'
    BY <1>2, <1>5, <1>7 DEF FollowKnown
  <2>. QED
    BY <1>6, <1>8, <2>1, <2>2 DEF FollowKnown
<1>. QED
  BY <1>1, <1>5, <1>6, <1>9 DEF GraphInv, Unbroken

(* A value without a case ends the analysis of the trace. *)
LEMMA UnhandledKeeps ==
  ASSUME GraphInv, NEW n \in pending, BuildUnhandled(n)
  PROVE  GraphInv'
<1>1. /\ flaw' = "unhandled" /\ UNCHANGED allVars /\ phase = "follow"
      /\ phase' = phase /\ path' = path /\ trace' = trace /\ seq' = seq /\ pending' = pending
      /\ nodes' = nodes /\ deps' = deps /\ conds' = conds
  BY DEF BuildUnhandled, Operating, Break
<1>2. FollowKnown /\ phase # "wait"
  BY <1>1 DEF GraphInv
<1>3. /\ FetchInv' /\ slice' # Null /\ Traced' /\ NodeSet' = NodeSet
      /\ \A m : OperandNodes(m)' = OperandNodes(m)
      /\ \A w : Jump(w)' = Jump(w)
      /\ \A k : CondsUpTo(k)' = CondsUpTo(k)
  BY <1>1, <1>2, EvalFrame
<1>4. GraphOver(nodes \cup pending)'
  BY <1>1, <1>2, <1>3 DEF FollowKnown, GraphOver
<1>5. FollowKnown'
  BY <1>1, <1>2, <1>3, <1>4 DEF FollowKnown
<1>. QED
  BY <1>1, <1>3, <1>5 DEF GraphInv, Unbroken

(* The next instruction: a terminator is a branch, and not the end.        *)
LEMMA FollowTraceKeeps == GraphInv /\ FollowTrace => GraphInv'
<1>. SUFFICES ASSUME GraphInv, FollowTrace
              PROVE  GraphInv'
  OBVIOUS
<1>. DEFINE v == trace[seq]
            n == <<seq, v>>
<1>1. /\ flaw = "none" /\ UNCHANGED allVars /\ phase = "follow" /\ pending = {}
      /\ seq <= Len(trace)
      /\ IF IsBranch(v) /\ v \in UntraceableOf(prog)
           THEN Break("terminator")
         ELSE IF IsConditional(v) /\ seq = Len(trace)
           THEN Break("end of trace")
           ELSE /\ seq' = seq + 1
                /\ pending' = IF IsBranch(v) /\ ~IsConditional(v) THEN {} ELSE {n} \ nodes
                /\ conds' = IF IsConditional(v) THEN conds \cup ({n} \X Side(seq)) ELSE conds
                /\ UNCHANGED <<phase, path, trace, nodes, deps, kept, symbols,
                               ready, results, flaw>>
  BY DEF FollowTrace, Operating
<1>2. Traced /\ FollowKnown /\ phase # "wait"
  BY <1>1 DEF GraphInv
<1>3. seq \in 1..Len(trace) /\ Len(trace) \in Nat /\ seq \in Nat
  <2>1. seq \in 1..(Len(trace) + 1)
    BY <1>2 DEF FollowKnown
  <2>2. Len(trace) \in Nat
    BY <1>2 DEF Traced, Lists
  <2>3. seq <= Len(trace)
    BY <1>1
  <2>. QED
    BY <2>1, <2>2, <2>3
<1>4. v \notin UntraceableOf(prog) /\ ~(IsConditional(v) /\ seq = Len(trace))
  <2>1. v \in backs
    BY <1>2, <1>3 DEF Traced, Lists
  <2>. QED
    BY <1>2, <1>3, <2>1, AfterBranch, SliceKnown DEF Traced
<1>5. /\ seq' = seq + 1 /\ pending' = (IF Jump(v) THEN {} ELSE {n} \ nodes)
      /\ conds' = (IF IsConditional(v) THEN conds \cup ({n} \X Side(seq)) ELSE conds)
      /\ phase' = phase /\ path' = path /\ trace' = trace /\ nodes' = nodes /\ deps' = deps
      /\ flaw' = flaw
  BY <1>1, <1>4 DEF Jump
<1>6. /\ FetchInv' /\ slice' # Null /\ Traced' /\ NodeSet' = NodeSet
      /\ \A m : OperandNodes(m)' = OperandNodes(m)
      /\ \A w : Jump(w)' = Jump(w)
      /\ \A k : CondsUpTo(k)' = CondsUpTo(k)
  BY <1>1, <1>2, <1>5, EvalFrame
<1>7. v \in Values
  BY <1>2, <1>3, SliceKnown DEF Traced, Lists
<1>8. ~Jump(v) => n \in NodeSet
  BY <1>3, <1>7 DEF NodeSet
<1>9. GraphOver(nodes \cup pending)'
  <2>1. nodes \cup pending = nodes /\ nodes \subseteq nodes' \cup pending'
    BY <1>1, <1>5
  <2>2. pending' \subseteq NodeSet
    BY <1>5, <1>8
  <2>3. nodes' \cup pending' \subseteq NodeSet'
    BY <1>2, <1>5, <1>6, <2>2 DEF FollowKnown, GraphOver
  <2>4. deps' = UNION {{m} \X OperandNodes(m)' : m \in nodes'}
    BY <1>2, <1>5, <1>6 DEF FollowKnown, GraphOver
  <2>5. \A m \in nodes' : OperandNodes(m)' \subseteq nodes' \cup pending'
    BY <1>2, <1>5, <1>6, <2>1 DEF FollowKnown, GraphOver
  <2>. QED
    BY <2>3, <2>4, <2>5 DEF GraphOver
<1>10. conds' = CondsUpTo(seq)'
  <2>1. (seq + 1) - 1 = seq /\ 1..seq = (1..(seq - 1)) \cup {seq}
    BY <1>3
  <2>2. {j \in 1..((seq + 1) - 1) : IsConditional(trace[j])}
          = {j \in 1..(seq - 1) : IsConditional(trace[j])} \cup {j \in {seq} : IsConditional(trace[j])}
    BY <2>1
  <2>3. CondsUpTo(seq + 1)
          = CondsUpTo(seq) \cup UNION {{<<j, trace[j]>>} \X Side(j) : j \in {k \in {seq} : IsConditional(trace[k])}}
    BY <2>2 DEF CondsUpTo
  <2>4. conds' = CondsUpTo(seq + 1)
    <3>0. conds = CondsUpTo(seq)
      BY <1>2 DEF FollowKnown
    <3>1. CASE IsConditional(v)
      <4>1. {k \in {seq} : IsConditional(trace[k])} = {seq}
        BY <3>1
      <4>. QED
        BY <1>5, <2>3, <3>0, <3>1, <4>1
    <3>2. CASE ~IsConditional(v)
      <4>1. {k \in {seq} : IsConditional(trace[k])} = {}
        BY <3>2
      <4>. QED
        BY <1>5, <2>3, <3>0, <3>2, <4>1
    <3>. QED
      BY <3>1, <3>2
  <2>5. PICK s : s = seq + 1
    OBVIOUS
  <2>6. CondsUpTo(seq)' = CondsUpTo(s)' /\ CondsUpTo(s)' = CondsUpTo(s)
    BY <1>5, <1>6, <2>5 DEF CondsUpTo
  <2>. QED
    BY <2>4, <2>5, <2>6
<1>11. ASSUME NEW i \in 1..(seq' - 1), ~Jump(trace'[i])
       PROVE  <<i, trace'[i]>> \in nodes' \cup pending'
  <2>1. i \in 1..(seq - 1) \/ i = seq
    BY <1>3, <1>5
  <2>. QED
    BY <1>1, <1>2, <1>5, <1>11, <2>1 DEF FollowKnown
<1>12. FollowKnown'
  <2>1. seq' \in 1..(Len(trace') + 1)
    BY <1>3, <1>5
  <2>. QED
    BY <1>6, <1>9, <1>10, <1>11, <2>1 DEF FollowKnown
<1>. QED
  BY <1>1, <1>5, <1>6, <1>12 DEF GraphInv, Unbroken

------------------------------------------------------------------------------
(* The steps from the trimming on. *)

(* The fetch and the branches are in the graph. *)
LEMMA StartTrimKeeps == GraphInv /\ StartTrim => GraphInv'
<1>. SUFFICES ASSUME GraphInv, StartTrim
              PROVE  GraphInv'
  OBVIOUS
<1>1. /\ flaw = "none" /\ UNCHANGED allVars /\ phase = "follow" /\ pending = {}
      /\ seq > Len(trace) /\ phase' = "trim" /\ kept' = Seeds
      /\ path' = path /\ trace' = trace /\ nodes' = nodes /\ deps' = deps /\ conds' = conds
      /\ pending' = pending /\ flaw' = flaw
  BY DEF StartTrim, Operating
<1>2. Traced /\ FollowKnown /\ phase # "wait"
  BY <1>1 DEF GraphInv
<1>3. /\ FetchInv' /\ slice' # Null /\ Traced' /\ NodeSet' = NodeSet
      /\ \A m : OperandNodes(m)' = OperandNodes(m)
      /\ \A w : Jump(w)' = Jump(w)
      /\ \A k : CondsUpTo(k)' = CondsUpTo(k)
  BY <1>1, <1>2, EvalFrame
<1>4. Len(trace) \in Nat /\ Len(trace) > 0 /\ trace[Len(trace)] = FetchOf(prog)
  BY <1>2 DEF Traced, Lists
<1>5. seq = Len(trace) + 1
  <2>1. seq \in 1..(Len(trace) + 1)
    BY <1>2 DEF FollowKnown
  <2>2. seq > Len(trace)
    BY <1>1
  <2>. QED
    BY <1>4, <2>1, <2>2
<1>6. nodes \cup pending = nodes /\ (seq - 1) = Len(trace)
  BY <1>1, <1>4, <1>5
<1>7. /\ GraphOver(nodes) /\ conds = CondsUpTo(Len(trace) + 1)
      /\ \A i \in 1..Len(trace) : ~Jump(trace[i]) => <<i, trace[i]>> \in nodes
  BY <1>2, <1>5, <1>6 DEF FollowKnown
<1>8. Seeds \subseteq nodes
  <2>1. <<Len(trace), trace[Len(trace)]>> \in nodes
    <3>1. ~Jump(FetchOf(prog))
      BY <1>2, SliceKnown, FunctionAssumption DEF Traced, GoodFetch, IsTerm, Jump, IsBranch
    <3>2. Len(trace) \in 1..Len(trace)
      BY <1>4
    <3>. QED
      BY <1>4, <1>7, <3>1, <3>2
  <2>2. ASSUME NEW c \in conds
        PROVE  c[1] \in nodes
    <3>1. PICK i \in {j \in 1..((Len(trace) + 1) - 1) : IsConditional(trace[j])} :
            c \in {<<i, trace[i]>>} \X Side(i)
      BY <1>7 DEF CondsUpTo
    <3>2. i \in 1..Len(trace) /\ ~Jump(trace[i]) /\ c[1] = <<i, trace[i]>>
      BY <1>4, <3>1 DEF Jump
    <3>. QED
      BY <1>7, <3>2
  <2>. QED
    BY <2>1, <2>2 DEF Seeds
<1>9. GraphOver(nodes)'
  BY <1>1, <1>3, <1>7 DEF GraphOver
<1>10. TrimKnown'
  <2>1. Seeds' = Seeds
    BY <1>1 DEF Seeds
  <2>. QED
    BY <1>1, <1>3, <1>7, <1>8, <1>9, <2>1 DEF TrimKnown
<1>. QED
  BY <1>1, <1>3, <1>10 DEF GraphInv, Unbroken

(* What is related is in the graph. *)
LEMMA GrowTrimKeeps == GraphInv /\ GrowTrim => GraphInv'
<1>. SUFFICES ASSUME GraphInv, GrowTrim
              PROVE  GraphInv'
  OBVIOUS
<1>1. /\ flaw = "none" /\ UNCHANGED allVars /\ phase = "trim" /\ phase' = phase
      /\ kept' = kept \cup Related
      /\ path' = path /\ trace' = trace /\ nodes' = nodes /\ deps' = deps /\ conds' = conds
      /\ pending' = pending /\ flaw' = flaw
  BY DEF GrowTrim, Operating
<1>2. Traced /\ TrimKnown /\ phase # "wait" /\ pending = {}
  BY <1>1 DEF GraphInv
<1>3. /\ FetchInv' /\ slice' # Null /\ Traced' /\ NodeSet' = NodeSet
      /\ \A m : OperandNodes(m)' = OperandNodes(m)
      /\ \A w : Jump(w)' = Jump(w)
      /\ \A k : CondsUpTo(k)' = CondsUpTo(k)
  BY <1>1, <1>2, EvalFrame
<1>4. GraphOver(nodes)'
  BY <1>1, <1>2, <1>3 DEF GraphOver, TrimKnown
<1>5. Seeds' = Seeds /\ Related \subseteq nodes
  BY <1>1 DEF Seeds, Related
<1>6. TrimKnown'
  BY <1>1, <1>2, <1>3, <1>4, <1>5 DEF TrimKnown
<1>. QED
  BY <1>1, <1>2, <1>3, <1>6 DEF GraphInv, Unbroken

(* The nodes trimGraph keeps are closed in both directions. *)
LEMMA EndTrimKeeps == GraphInv /\ EndTrim => GraphInv'
<1>. SUFFICES ASSUME GraphInv, EndTrim
              PROVE  GraphInv'
  OBVIOUS
<1>1. /\ flaw = "none" /\ UNCHANGED allVars /\ phase = "trim" /\ phase' = "roots"
      /\ Related \subseteq kept
      /\ nodes' = nodes \cap kept /\ deps' = deps \cap (kept \X kept)
      /\ path' = path /\ trace' = trace /\ flaw' = flaw
  BY DEF EndTrim, Operating
<1>2. Traced /\ TrimKnown /\ phase # "wait"
  BY <1>1 DEF GraphInv
<1>3. /\ FetchInv' /\ slice' # Null /\ Traced' /\ NodeSet' = NodeSet
      /\ \A m : OperandNodes(m)' = OperandNodes(m)
      /\ \A w : Jump(w)' = Jump(w)
  BY <1>1, <1>2, EvalFrame
<1>4. /\ nodes' = kept /\ kept \subseteq nodes /\ Seeds \subseteq kept /\ nodes \subseteq NodeSet
      /\ deps = UNION {{n} \X OperandNodes(n) : n \in nodes}
      /\ \A n \in nodes : OperandNodes(n) \subseteq nodes
      /\ \A i \in 1..Len(trace) : ~Jump(trace[i]) => <<i, trace[i]>> \in nodes
  BY <1>1, <1>2 DEF TrimKnown, GraphOver
<1>5. ASSUME NEW n \in nodes, NEW m \in OperandNodes(n)
      PROVE  n \in kept <=> m \in kept
  <2>1. <<n, m>> \in deps /\ m \in nodes
    BY <1>4
  <2>. QED
    BY <1>1, <2>1 DEF Related
<1>6. deps' = UNION {{n} \X OperandNodes(n) : n \in kept}
  <2>1. ASSUME NEW d \in deps, d \in kept \X kept
        PROVE  d \in UNION {{n} \X OperandNodes(n) : n \in kept}
    <3>1. PICK n \in nodes : d \in {n} \X OperandNodes(n)
      BY <1>4
    <3>2. n \in kept
      BY <2>1, <3>1
    <3>. QED
      BY <3>1, <3>2
  <2>2. ASSUME NEW n \in kept, NEW d \in {n} \X OperandNodes(n)
        PROVE  d \in deps /\ d \in kept \X kept
    <3>1. n \in nodes /\ d[2] \in OperandNodes(n) /\ d = <<n, d[2]>>
      BY <1>4
    <3>2. d[2] \in kept
      BY <1>5, <3>1
    <3>3. d \in deps
      BY <1>4, <3>1
    <3>. QED
      BY <3>1, <3>2, <3>3
  <2>. QED
    BY <1>1, <2>1, <2>2
<1>7. GraphOver(nodes)'
  <2>1. \A n \in kept : OperandNodes(n) \subseteq kept
    BY <1>4, <1>5
  <2>. QED
    BY <1>3, <1>4, <1>6, <2>1 DEF GraphOver
<1>8. <<Len(trace), trace[Len(trace)]>> \in kept
  BY <1>4 DEF Seeds
<1>9. ASSUME NEW i \in 1..Len(trace), ~Jump(trace[i]),
             OperandNodes(<<i, trace[i]>>) \cap kept # {}
      PROVE  <<i, trace[i]>> \in kept
  <2>1. <<i, trace[i]>> \in nodes
    BY <1>4, <1>9
  <2>. QED
    BY <1>5, <1>9, <2>1
<1>10. TrimmedKnown'
  BY <1>1, <1>3, <1>4, <1>7, <1>8, <1>9 DEF TrimmedKnown
<1>. QED
  BY <1>1, <1>3, <1>10 DEF GraphInv, Unbroken

(* The steps that leave the trimmed graph alone. *)
LEMMA TrimmedKeeps ==
  ASSUME GraphInv, phase \in {"roots", "trace", "check", "end"}, UNCHANGED allVars,
         path' = path, trace' = trace, nodes' = nodes, deps' = deps,
         phase' \in {"roots", "trace", "check", "end"},
         flaw' \notin {"build", "terminator", "end of trace", "no node"}
  PROVE  GraphInv'
<1>1. Traced /\ TrimmedKnown /\ phase # "wait"
  BY DEF GraphInv
<1>2. /\ FetchInv' /\ slice' # Null /\ Traced' /\ NodeSet' = NodeSet
      /\ \A m : OperandNodes(m)' = OperandNodes(m)
      /\ \A w : Jump(w)' = Jump(w)
  BY <1>1, EvalFrame
<1>3. GraphOver(nodes)'
  BY <1>1, <1>2 DEF GraphOver, TrimmedKnown
<1>4. TrimmedKnown'
  BY <1>1, <1>2, <1>3 DEF TrimmedKnown
<1>. QED
  BY <1>2, <1>4 DEF GraphInv, Unbroken

(* The operands of a fetch in the graph are in the graph. *)
LEMMA ComparedFound ==
  ASSUME Traced, TrimmedKnown, NEW i, NEW f \in FetchesOf(prog) \cup {FetchOf(prog)},
         <<i, f>> \in nodes
  PROVE  Compared(i, f) \subseteq nodes
<1>1. KindOf(prog, f) = "inst" /\ {SrcOf(prog, f), LenOf(prog, f)} \subseteq ArgsOf(prog, f)
  BY SliceKnown, FunctionAssumption DEF Traced, GoodFetch
<1>2. PICK n : n = <<i, f>>
  OBVIOUS
<1>3. n[1] = i /\ n[2] = f /\ n \in nodes
  BY <1>2
<1>4. Operands(n) = ArgsOf(prog, f)
  BY <1>1, <1>3 DEF Operands, Computed
<1>5. OperandNodes(n) \subseteq nodes
  BY <1>3 DEF TrimmedKnown, GraphOver
<1>. QED
  BY <1>1, <1>3, <1>4, <1>5 DEF Compared, OperandNodes

(* The operands of a fetch that is in the graph are in it as well. *)
LEMMA CheckKeeps == GraphInv /\ Check => GraphInv'
<1>. SUFFICES ASSUME GraphInv, Check
              PROVE  GraphInv'
  OBVIOUS
<1>. DEFINE four == Compared(seq, trace[seq]) \cup Compared(Len(trace), Fetch)
<1>1. /\ flaw = "none" /\ UNCHANGED allVars /\ phase = "check" /\ phase' = phase
      /\ IF IsOther(seq)
           THEN \E outcome \in Overlap(four) :
                  flaw' = IF outcome \in {"no node", "no expression"} THEN outcome ELSE flaw
           ELSE flaw' = flaw
      /\ path' = path /\ trace' = trace /\ nodes' = nodes /\ deps' = deps
  BY DEF Check, Operating
<1>2. Traced /\ TrimmedKnown
  BY <1>1 DEF GraphInv
<1>3. trace[Len(trace)] = FetchOf(prog)
  BY <1>2 DEF Traced, Lists
<1>4. IsOther(seq) => four \subseteq nodes
  <2>1. <<Len(trace), FetchOf(prog)>> \in nodes
    BY <1>2, <1>3 DEF TrimmedKnown
  <2>2. Compared(Len(trace), Fetch) \subseteq nodes
    BY <1>2, <2>1, ComparedFound DEF Fetch
  <2>3. IsOther(seq) => Compared(seq, trace[seq]) \subseteq nodes
    BY <1>2, ComparedFound DEF IsOther
  <2>. QED
    BY <2>2, <2>3
<1>5. IsOther(seq) => \A outcome \in Overlap(four) : outcome \in {"symerr", "no expression", "sat", "unsat", "undef"}
  <2>. HIDE DEF four
  <2>. QED
    BY <1>4 DEF Overlap
<1>. HIDE DEF four
<1>6. flaw' \notin {"build", "terminator", "end of trace", "no node"}
  BY <1>1, <1>5
<1>. QED
  BY <1>1, <1>6, TrimmedKeeps

(* Every step keeps the invariant. *)
LEMMA GraphStep == GraphInv /\ [EvalNext]_everything => GraphInv'
<1>. SUFFICES ASSUME GraphInv, [EvalNext]_everything
              PROVE  GraphInv'
  OBVIOUS
<1>1. CASE EvalStopped \/ UNCHANGED everything
  <2>1. UNCHANGED allVars /\ UNCHANGED evalVars
    BY <1>1 DEF EvalStopped, everything
  <2>2. FetchInv'
    BY <2>1, FetchStepKeeps DEF GraphInv
  <2>3. /\ phase' = phase /\ path' = path /\ trace' = trace /\ seq' = seq /\ pending' = pending
        /\ nodes' = nodes /\ deps' = deps /\ conds' = conds /\ kept' = kept /\ symbols' = symbols
        /\ ready' = ready /\ results' = results /\ flaw' = flaw
    BY <2>1 DEF evalVars
  <2>4. CASE phase = "wait"
    BY <2>2, <2>3, <2>4 DEF GraphInv, Unstarted, Unbroken
  <2>5. CASE phase # "wait"
    <3>1. /\ FetchInv' /\ slice' # Null /\ Traced' /\ NodeSet' = NodeSet
          /\ \A m : OperandNodes(m)' = OperandNodes(m)
          /\ \A w : Jump(w)' = Jump(w)
          /\ \A k : CondsUpTo(k)' = CondsUpTo(k)
      BY <2>1, <2>3, <2>5, EvalFrame
    <3>2. \A all : GraphOver(all)' = GraphOver(all)
      BY <2>3, <3>1 DEF GraphOver
    <3>3. FollowKnown => FollowKnown'
      BY <2>3, <3>1, <3>2 DEF FollowKnown
    <3>4. TrimKnown => TrimKnown'
      BY <2>3, <3>1, <3>2 DEF TrimKnown, Seeds
    <3>5. TrimmedKnown => TrimmedKnown'
      BY <2>3, <3>1, <3>2 DEF TrimmedKnown
    <3>. QED
      BY <2>3, <2>5, <3>1, <3>3, <3>4, <3>5 DEF GraphInv, Unbroken
  <2>. QED
    BY <2>4, <2>5
<1>2. CASE Tracer
  BY <1>2, TracerKeeps
<1>3. CASE TakeTrace \/ FollowTrace \/ \E n \in pending : Build(n) \/ BuildUnhandled(n)
  BY <1>3, TakeTraceKeeps, FollowTraceKeeps, BuildKeeps, UnhandledKeeps
<1>4. CASE StartTrim \/ GrowTrim \/ EndTrim
  BY <1>4, StartTrimKeeps, GrowTrimKeeps, EndTrimKeeps
<1>5. CASE SymbolizeRoots \/ SymbolizeNext \/ EndSymbolize \/ EndCheck
  <2>1. /\ flaw = "none" /\ flaw' = flaw /\ UNCHANGED allVars
        /\ path' = path /\ trace' = trace /\ nodes' = nodes /\ deps' = deps
        /\ phase \in {"roots", "trace", "check", "end"}
        /\ phase' \in {"roots", "trace", "check", "end"}
    BY <1>5 DEF SymbolizeRoots, SymbolizeNext, EndSymbolize, EndCheck, Operating
  <2>. QED
    BY <2>1, TrimmedKeeps
<1>6. CASE Check
  BY <1>6, CheckKeeps
<1>. QED
  BY <1>1, <1>2, <1>3, <1>4, <1>5, <1>6 DEF EvalNext, EvalStep, Evaluate

------------------------------------------------------------------------------
(* The theorems. *)

(* So it always holds. *)
LEMMA GraphInvariant == EvalSpec => []GraphInv
<1>1. EvalInit => GraphInv
  BY GraphInit
<1>2. GraphInv /\ [EvalNext]_everything => GraphInv'
  BY GraphStep
<1>. QED
  BY <1>1, <1>2, PTL DEF EvalSpec

(* The traces of a fetch are ways control can take through the function,   *)
(* with the blocks outside the slice left out, and there is one.  They end *)
(* with the block of the fetch, or start with it when that is the entry of *)
(* a slice that has other blocks.                                          *)
THEOREM TracesCorrect == EvalSpec => []TracesReachFetch
<1>1. FetchInv => TracesReachFetch
  <2>. SUFFICES ASSUME FetchInv, Answered
                PROVE  /\ cache[<<Null, back>>].all # {}
                       /\ \A t \in cache[<<Null, back>>].all :
                            /\ t[Len(t)] # FetchBlock => suits # {FetchBlock} /\ t[1] = FetchBlock
                            /\ t[1] \in NextSuits(EntryBlock)
                            /\ \A i \in 2..Len(t) :
                                 \E c \in Successors(prog, t[i - 1]) : t[i] \in NextSuits(c)
    BY DEF TracesReachFetch
  <2>1. BuiltInv /\ stage = "ready"
    BY TracesKnown DEF FetchInv
  <2>2. entry \in NextSuits(EntryBlock) /\ entry \in suits /\ back \in LastBlock
    BY <2>1, SliceKnown
  <2>3. back # FetchBlock => suits # {FetchBlock} /\ entry = FetchBlock
    BY <2>2 DEF LastBlock
  <2>. QED
    BY <2>2, <2>3, TracesKnown DEF SliceTrace, Follows
<1>. QED
  BY <1>1, FetchInvariant, PTL

(* A structured function is one whose loops have one entry. *)
LEMMA StructuredFacts == Structured <=> OneEntry
<1>. DEFINE function == [nodes |-> reach, entry |-> EntryBlock,
                         succ  |-> [b \in reach |-> Successors(prog, b) \cap reach]]
            ahead == Oracle!ForwardEdges(function)
<1>1. function.nodes = reach /\ function.entry = EntryBlock /\ function.succ = InnerGraph
  BY DEF InnerGraph, Inner
<1>2. Structured <=> \A b \in Closure({EntryBlock}, function.succ) : b \notin Closure(ahead[b], ahead)
  BY DEF Structured
<1>. HIDE DEF function
<1>3. \A d, b : Oracle!Dominates(function, d, b) <=> b \notin Around(d)
  BY <1>1, SameClosure DEF Oracle!Dominates, Around
<1>4. ahead = ForwardGraph
  BY <1>1, <1>3 DEF Oracle!ForwardEdges, ForwardGraph, InnerGraph
<1>. HIDE DEF ahead
<1>. QED
  BY <1>1, <1>2, <1>4 DEF OneEntry, Reached

(* The forward edges of a structured function's slice form no loop. *)
LEMMA StructuredReducible ==
  ASSUME FetchInv, slice # Null, Structured
  PROVE  Oracle!Reducible /\ U!Reducible
<1>1. BuiltInv /\ stage = "ready" /\ slice = Wrapped /\ U!Analysed
  BY DEF FetchInv, U!UnrollInv, U!GraphsKnown
<1>2. pc = "done" /\ front = entry /\ succs = {e \in suits \X suits : Follows(e[1], e[2])}
      /\ suits \subseteq reach /\ reach \subseteq Blocks
  BY <1>1, ReadyFacts
<1>3. Finished /\ OneEntry
  BY <1>1, <1>2, StructuredFacts, FinishedKnown DEF BuiltInv, LinkInv
<1>4. IsFiniteSet(reach)
  BY <1>2, LimitsAssumption, FS_Subset
<1>5. slice.nodes = suits /\ slice.entry = entry /\ slice.succ = FollowGraph
  BY <1>1, <1>2 DEF Wrapped, FollowGraph
<1>6. \A d, b : U!Dominates(slice, d, b) <=> b \notin SliceAround(d)
  BY <1>5, SameClosure DEF U!Dominates, SliceAround
<1>7. forward = SliceForward
  BY <1>1, <1>5, <1>6 DEF U!Analysed, U!ForwardEdges, SliceForward
<1>8. \A b \in suits : b \notin Closure(SliceForward[b], SliceForward)
  BY <1>3, <1>4, SliceReducible
<1>. QED
  BY <1>5, <1>7, <1>8, SameClosure DEF Oracle!Reducible, U!Reducible

(* Leaving blocks out does not give a loop a second entry: a head with     *)
(* slice blocks on two ways decides between them and stays in the slice.   *)
THEOREM ReducibleCorrect == EvalSpec => []SliceStaysReducible
<1>1. FetchInv => SliceStaysReducible
  BY StructuredReducible DEF SliceStaysReducible
<1>. QED
  BY <1>1, FetchInvariant, PTL

(* So for a structured function the search for the traces ends without a   *)
(* failure: it does not run out of stack, and no assertion of the graphs   *)
(* and of the paths fails.                                                 *)
THEOREM SearchCorrect == EvalSpec => [](Structured => fault \notin {"stack", "verify", "path"})
<1>1. FetchInv /\ Structured => fault \notin {"stack", "verify", "path"}
  <2>. SUFFICES ASSUME FetchInv, Structured
                PROVE  fault \notin {"stack", "verify", "path"}
    OBVIOUS
  <2>1. CASE slice = Null
    BY <2>1 DEF FetchInv, Fresh
  <2>2. CASE slice # Null
    <3>1. U!UnrollInv /\ U!WholeInv /\ U!Reducible
      BY <2>2, StructuredReducible DEF FetchInv
    <3>. QED
      BY <3>1 DEF U!UnrollInv, U!GraphsKnown, U!WholeInv, U!FaultKnown
  <2>. QED
    BY <2>1, <2>2
<1>. QED
  BY <1>1, FetchInvariant, PTL

(* The slicing, unrolling and evaluation leave the function alone. *)
LEMMA FunctionFrame ==
  ASSUME [EvalNext]_everything
  PROVE  prog' = prog /\ reach' = reach
<1>1. [FetchStep]_allVars
  BY EvalFetches
<1>2. CASE UNCHANGED <<vars, linkVars>>
  BY <1>2 DEF vars
<1>3. CASE Slicer
  <2>1. Slicing \/ UNCHANGED vars
    BY <1>3 DEF Slicer, LinkStep, Expand, Verify, Wrap
  <2>2. [Next]_vars
    BY <2>1 DEF Slicing, Next
  <2>. QED
    BY <2>2 DEF Next, Step, Trace, Joint, Btrace, BtraceDone, Follow, FollowDone, UnknownValue,
       JointKnown, JointLoop, JointEnter, JointLeaf, JointTrueSide, JointFinish, JointReturned,
       Stopped, NewBlock, vars
<1>4. Analyse \/ Unroller \/ UNCHANGED allVars => UNCHANGED <<vars, linkVars>>
  BY DEF Analyse, Unroller, allVars
<1>. QED
  BY <1>1, <1>2, <1>3, <1>4 DEF FetchStep

(* A symbol without an expression is the result of an ignored call, and    *)
(* when the analysis broke off, the function says why.                     *)
FlawInv ==
  /\ \A m \in symbols \ ready : KindOf(prog, m[2]) = "ignored"
  /\ flaw = "unhandled" => Unhandled # {}
  /\ flaw = "no expression" => Unexpressed # {}

(* Each step keeps that. *)
LEMMA FlawStep == GraphInv /\ FlawInv /\ [EvalNext]_everything => FlawInv'
<1>. SUFFICES ASSUME GraphInv, FlawInv, [EvalNext]_everything
              PROVE  FlawInv'
  OBVIOUS
<1>1. prog' = prog /\ reach' = reach
  BY FunctionFrame
<1>2. Unhandled' = Unhandled /\ Unexpressed' = Unexpressed
  BY <1>1 DEF Unhandled, Unexpressed, Fetch
<1>3. CASE Tracer \/ EvalStopped \/ UNCHANGED everything
  <2>1. symbols' = symbols /\ ready' = ready /\ flaw' = flaw
    BY <1>3 DEF Tracer, EvalStopped, everything, evalVars
  <2>. QED
    BY <1>1, <1>2, <2>1 DEF FlawInv
<1>4. CASE TakeTrace \/ FollowTrace \/ StartTrim \/ GrowTrim \/ EndTrim \/ EndSymbolize \/ EndCheck
  <2>1. /\ symbols' = symbols /\ ready' = ready
        /\ flaw' \in {flaw, "terminator", "end of trace"}
    BY <1>4 DEF TakeTrace, FollowTrace, StartTrim, GrowTrim, EndTrim, EndSymbolize, EndCheck, Break
  <2>. QED
    BY <1>1, <1>2, <2>1 DEF FlawInv
<1>5. ASSUME NEW n \in pending, Build(n)
      PROVE  FlawInv'
  <2>1. symbols' = symbols /\ ready' = ready /\ flaw' \in {flaw, "build"}
    BY <1>5 DEF Build, Break
  <2>. QED
    BY <1>1, <1>2, <2>1 DEF FlawInv
<1>6. ASSUME NEW n \in pending, BuildUnhandled(n)
      PROVE  FlawInv'
  <2>1. /\ symbols' = symbols /\ ready' = ready /\ flaw' = "unhandled" /\ phase = "follow"
        /\ KindOf(prog, n[2]) = "other"
    BY <1>6 DEF BuildUnhandled, Break
  <2>2. Traced /\ n \in NodeSet
    BY <2>1 DEF GraphInv, FollowKnown, GraphOver
  <2>3. n[2] \in Values /\ n[1] \in 0..Len(trace)
    BY <2>2 DEF NodeSet
  <2>4. CASE n[1] = 0
    <3>1. HostOf(prog, n[2]) = Null
      BY <2>2, <2>4 DEF NodeSet
    <3>2. n[2] \in Unhandled
      BY <2>1, <2>3, <3>1 DEF Unhandled
    <3>. QED
      BY <1>1, <1>2, <2>1, <3>2 DEF FlawInv
  <2>5. CASE n[1] # 0
    <3>1. n[1] \in 1..Len(trace) /\ trace[n[1]] = n[2]
      BY <2>2, <2>3, <2>5 DEF NodeSet, Traced, Lists
    <3>2. n[2] \in backs
      BY <2>2, <3>1 DEF Traced, Lists
    <3>3. HostOf(prog, n[2]) \in reach \cup {Null}
      BY <2>2, <3>2, SliceKnown DEF Traced
    <3>4. n[2] \in Unhandled
      BY <2>1, <2>3, <3>3 DEF Unhandled
    <3>. QED
      BY <1>1, <1>2, <2>1, <3>4 DEF FlawInv
  <2>. QED
    BY <2>4, <2>5
<1>7. CASE SymbolizeRoots
  BY <1>1, <1>2, <1>7 DEF SymbolizeRoots, FlawInv
<1>8. CASE SymbolizeNext
  <2>1. flaw' = flaw /\ \/ symbols' = symbols /\ ready' = ready
                        \/ \E new : /\ symbols' = symbols \cup new
                                    /\ ready' = ready \cup {m \in new : KindOf(prog, m[2]) # "ignored"}
    BY <1>8 DEF SymbolizeNext
  <2>. QED
    BY <1>1, <1>2, <2>1 DEF FlawInv
<1>9. CASE Check
  <2>. DEFINE four == Compared(seq, trace[seq]) \cup Compared(Len(trace), Fetch)
  <2>1. /\ symbols' = symbols /\ ready' = ready
        /\ IF IsOther(seq)
             THEN \E outcome \in Overlap(four) :
                    flaw' = IF outcome \in {"no node", "no expression"} THEN outcome ELSE flaw
             ELSE flaw' = flaw
    BY <1>9 DEF Check
  <2>2. ASSUME IsOther(seq), "no expression" \in Overlap(four)
        PROVE  Unexpressed # {}
    <3>1. PICK m \in four : m \in symbols \ ready
      <4>. HIDE DEF four
      <4>. QED
        BY <2>2 DEF Overlap
    <3>2. PICK f \in FetchesOf(prog) \cup {Fetch} : m[2] \in {SrcOf(prog, f), LenOf(prog, f)}
      <4>1. CASE m \in Compared(seq, trace[seq])
        <5>1. PICK v \in {SrcOf(prog, trace[seq]), LenOf(prog, trace[seq])} : m \in Located(seq, v) \X {v}
          BY <4>1 DEF Compared
        <5>. QED
          BY <2>2, <5>1 DEF IsOther
      <4>2. CASE m \in Compared(Len(trace), Fetch)
        <5>1. PICK v \in {SrcOf(prog, Fetch), LenOf(prog, Fetch)} : m \in Located(Len(trace), v) \X {v}
          BY <4>2 DEF Compared
        <5>. QED
          BY <5>1
      <4>. QED
        BY <3>1, <4>1, <4>2
    <3>3. KindOf(prog, m[2]) = "ignored"
      BY <3>1 DEF FlawInv
    <3>. QED
      BY <3>2, <3>3 DEF Unexpressed
  <2>. HIDE DEF four
  <2>3. Overlap(four) \subseteq {"no node", "symerr", "no expression", "sat", "unsat", "undef"}
    BY DEF Overlap
  <2>4. flaw' = "unhandled" => flaw = "unhandled"
    BY <2>1
  <2>5. flaw' = "no expression" => flaw = "no expression" \/ Unexpressed # {}
    BY <2>1, <2>2
  <2>. QED
    BY <1>1, <1>2, <2>1, <2>4, <2>5 DEF FlawInv
<1>. QED
  BY <1>3, <1>4, <1>5, <1>6, <1>7, <1>8, <1>9 DEF EvalNext, EvalStep, Evaluate

(* Every operand of an instruction of the slice is on the trace before it, *)
(* a phi has one value, a terminator is a branch and not the end of the    *)
(* trace, and the compared operands have their nodes to the end.  The      *)
(* construction breaks off only at a value of the function buildNode has   *)
(* no case for, the comparison only at the result of an ignored call.      *)
THEOREM GraphCorrect == EvalSpec => []GraphBuilt
<1>1. GraphInv /\ FlawInv => GraphBuilt
  BY DEF GraphInv, FlawInv, Unbroken, GraphBuilt
<1>2. EvalInit => FlawInv
  BY DEF EvalInit, FlawInv
<1>. QED
  BY <1>1, <1>2, GraphInvariant, FlawStep, PTL DEF EvalSpec

(* The side a branch is noted with is the one control came from, unless    *)
(* it can come from both.                                                  *)
THEOREM SidesCorrect == EvalSpec => []SidesAreReal
<1>1. GraphInv => SidesAreReal
  <2>. SUFFICES ASSUME GraphInv, phase = "trim", NEW i \in DOMAIN trace, IsConditional(trace[i])
                PROVE  {c[2] : c \in {d \in conds : d[1][1] = i}} =
                         LET ways == {k \in 1..2 : Host(i + 1) \in NextSuits(SuccOf(prog, Host(i))[k])}
                         IN  IF ways = {1, 2} THEN {} ELSE ways
    BY DEF SidesAreReal
  <2>1. Traced /\ TrimKnown
    BY DEF GraphInv
  <2>2. i \in 1..Len(trace) /\ Len(trace) \in Nat
    BY <2>1, LenProperties DEF Traced, Lists
  <2>3. \A d : d \in conds <=> \E j \in 1..Len(trace) :
                 IsConditional(trace[j]) /\ d \in {<<j, trace[j]>>} \X Side(j)
    <3>1. (Len(trace) + 1) - 1 = Len(trace)
      BY <2>2
    <3>. QED
      BY <2>1, <3>1 DEF TrimKnown, CondsUpTo
  <2>4. {d \in conds : d[1][1] = i} = {<<i, trace[i]>>} \X Side(i)
    <3>1. ASSUME NEW d \in conds, d[1][1] = i
          PROVE  d \in {<<i, trace[i]>>} \X Side(i)
      <4>1. PICK j \in 1..Len(trace) : d \in {<<j, trace[j]>>} \X Side(j)
        BY <2>3
      <4>2. d[1] = <<j, trace[j]>>
        BY <4>1
      <4>3. j = i
        BY <3>1, <4>2
      <4>. QED
        BY <4>1, <4>3
    <3>2. ASSUME NEW d \in {<<i, trace[i]>>} \X Side(i)
          PROVE  d \in conds /\ d[1][1] = i
      <4>1. d[1] = <<i, trace[i]>>
        OBVIOUS
      <4>. QED
        BY <2>2, <2>3, <4>1
    <3>. QED
      BY <3>1, <3>2
  <2>5. {c[2] : c \in {<<i, trace[i]>>} \X Side(i)} = Side(i)
    <3>1. ASSUME NEW k \in Side(i)
          PROVE  \E c \in {<<i, trace[i]>>} \X Side(i) : c[2] = k
      <4>1. PICK c : c = <<<<i, trace[i]>>, k>>
        OBVIOUS
      <4>. QED
        BY <4>1
    <3>. QED
      BY <3>1
  <2>. QED
    BY <2>1, <2>2, <2>4, <2>5, SideFacts
<1>. QED
  BY <1>1, GraphInvariant, PTL

(* The operand of a phi on the trace is the value that comes in over the   *)
(* edge control took into its block.                                       *)
THEOREM PhisCorrect == EvalSpec => []PhiTakesEdge
<1>1. GraphInv => PhiTakesEdge
  <2>. SUFFICES ASSUME GraphInv, phase \in {"roots", "trace", "check", "end"},
                       NEW k \in 2..Len(path), NEW i \in DOMAIN trace,
                       Host(i) = path[k], KindOf(prog, trace[i]) = "phi",
                       NEW d \in deps, d[1] = <<i, trace[i]>>,
                       NEW c \in EntersFrom(path[k - 1], path[k])
                PROVE  d[2][2] = IncomingOf(prog, trace[i])[c]
    BY DEF PhiTakesEdge
  <2>1. Traced /\ TrimmedKnown
    BY DEF GraphInv
  <2>2. i \in 1..Len(trace) /\ Len(path) \in Nat
    BY <2>1, LenProperties DEF Traced, Lists, SliceTrace
  <2>3. PhiAt(i, k)
    BY <2>2 DEF PhiAt, Host
  <2>4. Incoming(i) = {IncomingOf(prog, trace[i])[path[k - 1]]}
    BY <2>1, <2>3, PhiFacts
  <2>5. c = path[k - 1]
    BY <2>1, <2>3, PhiEnters
  <2>6. PICK n \in nodes : d \in {n} \X OperandNodes(n)
    BY <2>1 DEF TrimmedKnown, GraphOver
  <2>7. n = <<i, trace[i]>> /\ d[2] \in OperandNodes(n)
    BY <2>6
  <2>8. n[1] = i /\ n[2] = trace[i]
    BY <2>7
  <2>9. Operands(n) = Incoming(i)
    BY <2>8 DEF Operands
  <2>10. PICK a \in Operands(n) : d[2] \in Located(n[1], a) \X {a}
    BY <2>7 DEF OperandNodes
  <2>11. d[2][2] = a
    BY <2>10
  <2>. QED
    BY <2>4, <2>5, <2>9, <2>11
<1>. QED
  BY <1>1, GraphInvariant, PTL

(* What a node of the graph depends on is in the graph.                    *)
LEMMA UnderFacts ==
  ASSUME GraphOver(nodes), NEW n \in nodes
  PROVE  Under(n) = OperandNodes(n) /\ Under(n) \subseteq nodes
<1>1. ASSUME NEW m \in Under(n)
      PROVE  m \in OperandNodes(n)
  <2>1. PICK d \in deps : d[1] = n /\ m = d[2]
    BY DEF Under
  <2>2. PICK o \in nodes : d \in {o} \X OperandNodes(o)
    BY DEF GraphOver
  <2>. QED
    BY <2>1, <2>2
<1>2. ASSUME NEW m \in OperandNodes(n)
      PROVE  m \in Under(n)
  <2>1. PICK d : d = <<n, m>>
    OBVIOUS
  <2>2. d \in {n} \X OperandNodes(n) /\ d[1] = n /\ d[2] = m
    BY <2>1
  <2>3. d \in deps
    BY <2>2 DEF GraphOver
  <2>. QED
    BY <2>2, <2>3 DEF Under
<1>. QED
  BY <1>1, <1>2 DEF GraphOver

(* What is below a node is in the graph: positions fall along the         *)
(* dependencies, so that the recursion of Below has an end.                *)
LEMMA BelowKnown ==
  ASSUME Traced, GraphOver(nodes), NEW n \in nodes
  PROVE  Below(n) \subseteq nodes
<1>. DEFINE G == [x \in nodes |-> Under(x)]
            Fun(f) == f = [m \in nodes |-> {m} \cup UNION {f[u] : u \in Under(m)}]
            f0 == [m \in nodes |-> Closure({m}, G)]
            below == CHOOSE f : Fun(f)
<1>1. DOMAIN G = nodes /\ \A x \in nodes : G[x] = Under(x) /\ Under(x) \subseteq nodes
  BY UnderFacts
<1>2. Fun(f0)
  <2>. HIDE DEF G
  <2>1. ASSUME NEW m \in nodes
        PROVE  Closure({m}, G) = {m} \cup UNION {f0[u] : u \in Under(m)}
    <3>. DEFINE R == {m} \cup UNION {Closure({u}, G) : u \in Under(m)}
    <3>1. \A x \in nodes : /\ x \in Closure({x}, G) /\ Closure({x}, G) \subseteq nodes
                           /\ Closed(Closure({x}, G), G)
      <4> SUFFICES ASSUME NEW x \in nodes
                   PROVE  /\ x \in Closure({x}, G) /\ Closure({x}, G) \subseteq nodes
                          /\ Closed(Closure({x}, G), G)
        OBVIOUS
      <4>1. {x} \in SUBSET DOMAIN G /\ \A v \in DOMAIN G : G[v] \subseteq DOMAIN G
        BY <1>1
      <4>. QED
        <5>1. {x} \subseteq Closure({x}, G) /\ Closed(Closure({x}, G), G)
          BY <4>1, ClosureExtends, ClosureIsClosed
        <5>2. Closure({x}, G) \subseteq DOMAIN G
          BY <4>1 DEF Closure
        <5>. QED
          BY <1>1, <5>1, <5>2
    <3>2. {f0[u] : u \in Under(m)} = {Closure({u}, G) : u \in Under(m)}
      BY <1>1
    <3>3. R \subseteq nodes
      BY <1>1, <3>1
    <3>4. Closed(R, G)
      <4> SUFFICES ASSUME NEW x \in R, NEW y \in G[x]
                   PROVE  y \in R
        BY DEF Closed
      <4>1. CASE x = m
        BY <1>1, <3>1, <4>1
      <4>2. CASE x # m
        <5>1. PICK u \in Under(m) : x \in Closure({u}, G)
          BY <4>2
        <5>2. y \in Closure({u}, G)
          BY <1>1, <3>1, <5>1 DEF Closed
        <5>. QED
          BY <5>1, <5>2
      <4>. QED
        BY <4>1, <4>2
    <3>5. Closure({m}, G) \subseteq R
      <4>1. {m} \subseteq R /\ R \in SUBSET DOMAIN G
        BY <1>1, <3>3
      <4>. HIDE DEF R
      <4>. QED
        BY <3>4, <4>1, ClosureLeast
    <3>6. \A u \in Under(m) : Closure({u}, G) \subseteq Closure({m}, G)
      <4> SUFFICES ASSUME NEW u \in Under(m)
                   PROVE  Closure({u}, G) \subseteq Closure({m}, G)
        OBVIOUS
      <4>1. {u} \subseteq Closure({m}, G) /\ Closure({m}, G) \in SUBSET DOMAIN G
        BY <1>1, <3>1 DEF Closed
      <4>. QED
        BY <3>1, <4>1, ClosureLeast
    <3>. QED
      BY <3>1, <3>2, <3>5, <3>6
  <2>. QED
    BY <2>1
<1>3. Fun(below)
  <2>. HIDE DEF f0, Fun
  <2>. QED
    BY <1>2
<1>4. Below(n) = below[n]
  BY DEF Below
<1>. HIDE DEF below, f0, G
<1>5. \A m \in nodes : below[m] = {m} \cup UNION {below[u] : u \in Under(m)}
  BY <1>3
<1>. HIDE DEF Fun
<1>. DEFINE bad == {m \in nodes : ~(below[m] \subseteq nodes)}
            places == {m[1] : m \in bad}
<1>6. \A m \in nodes : m[1] \in Nat /\ \A u \in Under(m) : u[1] < m[1] /\ u \in nodes
  <2> SUFFICES ASSUME NEW m \in nodes
               PROVE  m[1] \in Nat /\ \A u \in Under(m) : u[1] < m[1] /\ u \in nodes
    OBVIOUS
  <2>1. m \in NodeSet /\ Under(m) = OperandNodes(m) /\ Under(m) \subseteq nodes
    BY UnderFacts DEF GraphOver
  <2>2. m[1] \in Nat
    BY <2>1 DEF NodeSet
  <2>. QED
    BY <2>1, <2>2, OperandsFound
<1>7. ASSUME bad # {}
      PROVE  FALSE
  <2>1. places \in SUBSET Nat /\ places # {}
    BY <1>6, <1>7
  <2>2. PICK p \in places : \A q \in places : p <= q
    <3>. HIDE DEF places
    <3>. QED
      BY <2>1, LeastExists
  <2>3. PICK m \in bad : p = m[1]
    BY <2>2
  <2>4. m \in nodes /\ ~(below[m] \subseteq nodes)
    OBVIOUS
  <2>5. ASSUME NEW u \in Under(m)
        PROVE  below[u] \subseteq nodes
    <3>1. u \in nodes /\ u[1] < m[1] /\ u[1] \in Nat /\ m[1] \in Nat
      BY <1>6, <2>4
    <3>2. u[1] \notin places
      BY <2>2, <2>3, <3>1
    <3>. QED
      BY <3>1, <3>2
  <2>. QED
    BY <1>5, <2>4, <2>5
<1>. QED
  BY <1>4, <1>7

(* A store into a slot of the stack that the address of a load derives     *)
(* from, or anything before it, is in the graph with the load.             *)
THEOREM StoresCorrect == EvalSpec => []StoresKept
<1>1. GraphInv => StoresKept
  <2>. SUFFICES ASSUME GraphInv, phase = "roots",
                       NEW i \in DOMAIN trace, NEW j \in 1..(i - 1),
                       <<i, trace[i]>> \in nodes, KindOf(prog, trace[j]) = "store",
                       NEW m \in Below(<<i, trace[i]>>),
                       m[1] > 0, m[2] \in ArgsOf(prog, trace[j])
                PROVE  <<j, trace[j]>> \in nodes
    BY DEF StoresKept
  <2>1. Traced /\ TrimmedKnown
    BY DEF GraphInv
  <2>2. i \in 1..Len(trace) /\ Len(trace) \in Nat
    BY <2>1, LenProperties DEF Traced, Lists
  <2>3. j \in 1..Len(trace)
    BY <2>2
  <2>4. m \in nodes
    BY <2>1, BelowKnown DEF TrimmedKnown
  <2>5. m \in NodeSet
    BY <2>1, <2>4 DEF TrimmedKnown, GraphOver
  <2>. DEFINE n == <<j, trace[j]>>
  <2>6. n[1] = j /\ n[2] = trace[j] /\ trace[j] \in Values /\ prog \in Programs
    BY <2>1, <2>3, SliceKnown DEF Traced, Lists
  <2>7. ~IsTerm(prog, trace[j])
    BY <2>6, FunctionAssumption DEF GoodValue, Computed
  <2>8. n \in NodeSet
    BY <2>2, <2>3, <2>6, <2>7 DEF NodeSet, Jump, IsBranch, IsTerm
  <2>9. Operands(n) = ArgsOf(prog, trace[j])
    BY <2>6 DEF Operands, Computed
  <2>10. m[1] \in 0..Len(trace) /\ m[1] # 0 /\ trace[m[1]] = m[2] /\ m = <<m[1], m[2]>>
    BY <2>2, <2>5 DEF NodeSet
  <2>11. m[1] \in 1..Len(trace)
    BY <2>2, <2>10
  <2>12. HostOf(prog, m[2]) # Null
    <3>1. trace[m[1]] \in backs
      BY <2>1, <2>11 DEF Traced, Lists
    <3>. QED
      BY <2>1, <2>10, <2>11, SliceKnown DEF Traced, Lists, SliceTrace
  <2>13. Buildable(n)
    BY <2>1, <2>8, OperandsFound
  <2>14. PICK k : k \in Located(j, m[2])
    BY <2>6, <2>9, <2>13 DEF Buildable
  <2>15. k \in 1..j /\ trace[k] = m[2]
    BY <2>12, <2>14 DEF Located
  <2>16. k = m[1]
    BY <2>1, <2>2, <2>3, <2>10, <2>11, <2>15 DEF Traced, Lists
  <2>17. m \in Located(n[1], m[2]) \X {m[2]}
    BY <2>6, <2>10, <2>14, <2>16
  <2>18. m \in OperandNodes(n)
    BY <2>9, <2>17 DEF OperandNodes
  <2>19. ~Jump(trace[j])
    BY <2>7 DEF Jump, IsBranch, IsTerm
  <2>. QED
    BY <2>1, <2>3, <2>4, <2>18, <2>19 DEF TrimmedKnown
<1>. QED
  BY <1>1, GraphInvariant, PTL

==============================================================================
