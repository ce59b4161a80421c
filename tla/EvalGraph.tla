----------------------------- MODULE EvalGraph -----------------------------
(***************************************************************************)
(* FuncHandle::analyzeFetchPerTrace: a trace of slice blocks is flattened  *)
(* to its instructions; SEGraph makes a node of each of them and of the    *)
(* values they take, notes the side every branch took and drops the nodes  *)
(* that nothing relevant depends on; SymExec gives the nodes symbols in    *)
(* the order of the trace; at last the fetch is compared with every other  *)
(* fetch on the way to it.                                                 *)
(*                                                                         *)
(* A node is <<position, value>>; what is not an instruction has position  *)
(* 0 (-1 in the code).  Of a symbol only its presence matters here, and     *)
(* whether it has an expression.                                           *)
(***************************************************************************)
EXTENDS FetchTraces, SequencesExt

CONSTANTS
  OrderOf(_, _),    \* the instructions of a block, in order
  KindOf(_, _),     \* "root", "inst", "load", "store", "phi", "ignored",
                    \* "unknown", or "other": buildNode has no case for it
  ArgsOf(_, _),     \* the operands buildNode looks for
  IncomingOf(_, _), \* the incoming value of a phi by block
  FetchesOf(_),     \* the fetches of the function (FuncHandle::fts)
  SrcOf(_, _), LenOf(_, _)  \* the operands of a fetch to be compared

(* What is known of the functions.  A block lists its instructions, each   *)
(* once, the terminator last. *)
LaidOut(p, b) ==
  LET order == OrderOf(p, b)
  IN  /\ order \in Seq({v \in Values : HostOf(p, v) = b})
      /\ \A v \in Values : HostOf(p, v) = b => \E i \in DOMAIN order : order[i] = v
      /\ \A i, j \in DOMAIN order : order[i] = order[j] => i = j
      /\ order # <<>> /\ order[Len(order)] = TermOf(p, b)

IsTerm(p, v) == v = TermOf(p, HostOf(p, v))

(* Every way from the entry block to b leads through d. *)
Dominates(p, d, b) ==
  b \notin Closure({EntryBlock} \ {d}, [c \in Blocks |-> Successors(p, c) \ {d}])

Precedes(p, v, w) ==
  LET order == OrderOf(p, HostOf(p, w))
  IN  \E j \in DOMAIN order : order[j] = w /\ \E i \in 1..(j - 1) : order[i] = v

(* Operand a of v, an instruction that gives a value: btrace takes it as   *)
(* well, and unless control cannot come to v it is computed before v.      *)
Available(p, a, v) ==
  HostOf(p, a) # Null =>
    /\ a \in OpsOf(p, v) /\ ~IsTerm(p, a)
    /\ IF HostOf(p, a) = HostOf(p, v)
         THEN HostOf(p, v) \in Closure({EntryBlock}, SuccGraph(p)) => Precedes(p, a, v)
         ELSE Dominates(p, HostOf(p, a), HostOf(p, v))

(* A phi has a value for each predecessor, computed when control comes     *)
(* from there; btrace takes these values and the ends of these blocks.     *)
GoodPhi(p, v) ==
  /\ HostOf(p, v) # EntryBlock
  /\ DOMAIN IncomingOf(p, v) = PredGraph(p)[HostOf(p, v)]
  /\ \A c \in DOMAIN IncomingOf(p, v) :
       LET a == IncomingOf(p, v)[c]
       IN  /\ a \in Values /\ TermOf(p, c) \in OpsOf(p, v)
           /\ HostOf(p, a) # Null => /\ a \in OpsOf(p, v) /\ ~IsTerm(p, a)
                                     /\ Dominates(p, HostOf(p, a), c)

Computed == {"inst", "load", "store", "phi"}

(* Only a conditional branch has an operand among the terminators. *)
GoodValue(p, v) ==
  KindOf(p, v) \in Computed =>
    /\ HostOf(p, v) # Null /\ v \notin RootsOf(p)
    /\ KindOf(p, v) = "phi" => GoodPhi(p, v) /\ ~IsTerm(p, v)
    /\ KindOf(p, v) = "store" => ~IsTerm(p, v)
    /\ KindOf(p, v) # "phi" /\ (IsTerm(p, v) => Len(SuccOf(p, HostOf(p, v))) = 2) =>
         \A a \in ArgsOf(p, v) : a \in Values /\ Available(p, a, v)

(* A fetch is a call of the catalogue (Fetch.cpp, FILTERS), for which      *)
(* buildNode looks up the two operands that are compared.                  *)
GoodFetch(p, f) ==
  /\ f \in Values /\ HostOf(p, f) # Null /\ ~IsTerm(p, f)
  /\ KindOf(p, f) = "inst" /\ {SrcOf(p, f), LenOf(p, f)} \subseteq ArgsOf(p, f)

ASSUME FunctionAssumption ==
  \A p \in Programs :
    /\ \A b \in Blocks : LaidOut(p, b)
    /\ \A v \in Values : GoodValue(p, v)
    /\ \A f \in FetchesOf(p) \cup {FetchOf(p)} : GoodFetch(p, f)

VARIABLES
  phase,    \* "wait", "follow", "trim", "roots", "trace", "check", "end"
  path,     \* the blocks of the trace
  trace,    \* its instructions
  seq,      \* the position in the trace
  pending,  \* calls of buildNode still to be made
  nodes,    \* the nodes of the graph
  deps,     \* <<n, m>>: node n depends on node m
  conds,    \* <<n, k>>: the branch n took its side k
  kept,     \* the nodes trimGraph has found to be related
  symbols,  \* the nodes with a SymVar
  ready,    \* those of them that have an expression
  results,  \* the outcome by position of the other fetch
  flaw      \* "none", or what broke the analysis

evalVars == <<phase, path, trace, seq, pending, nodes, deps, conds, kept,
              symbols, ready, results, flaw>>

EvalInit ==
  /\ FetchInit
  /\ phase = "wait"
  /\ path = <<>> /\ trace = <<>> /\ seq = 1
  /\ pending = {} /\ nodes = {} /\ deps = {} /\ conds = {} /\ kept = {}
  /\ symbols = {} /\ ready = {} /\ results = <<>>
  /\ flaw = "none"

Tracer == FetchStep /\ UNCHANGED evalVars

(* Slice::apply: the instructions of the slice in a block, in order. *)
Taken(b) ==
  LET order == OrderOf(prog, b)
  IN  FlattenSeq([i \in DOMAIN order |-> IF order[i] \in backs THEN <<order[i]>> ELSE <<>>])

(* blistToIlist: what follows the fetch is cut off. *)
Flat(blocks) ==
  LET all == FlattenSeq([k \in DOMAIN blocks |-> Taken(blocks[k])])
  IN  SubSeq(all, 1, SelectLastInSeq(all, LAMBDA v : v = FetchOf(prog)))

Operating == flaw = "none" /\ UNCHANGED allVars

TakeTrace ==
  /\ Operating /\ Answered /\ phase = "wait"
  /\ path' \in cache[<<Null, slice.basis>>].all
  /\ trace' = Flat(path')
  /\ phase' = "follow"
  /\ UNCHANGED <<seq, pending, nodes, deps, conds, kept, symbols, ready, results, flaw>>

------------------------------------------------------------------------------
(* followTrace and buildNode. *)

Host(i) == HostOf(prog, trace[i])

(* locateValue: the latest position up to i, 0 for no instruction. *)
Located(i, v) ==
  IF HostOf(prog, v) = Null THEN {0}
  ELSE {j \in 1..i : trace[j] = v /\ \A k \in (j + 1)..i : trace[k] # v}

(* SEGUtil::backtrace: the block the trace was in before, *)
Before(i) ==
  LET others == {j \in 1..(i - 1) : Host(j) # Host(i)}
  IN  {Host(j) : j \in {m \in others : \A k \in others : k <= m}}

IncomingAnywhere(i) ==  \* mutant: the table of the predecessors is not asked
  {IncomingOf(prog, trace[i])[b] : b \in DOMAIN IncomingOf(prog, trace[i])}

IncomingFirst(i) ==  \* mutant: the first entry of the phi is taken
  {IncomingOf(prog, trace[i])[CHOOSE b \in DOMAIN IncomingOf(prog, trace[i]) : TRUE]}

(* and the values that come in over the edges from there. *)
Incoming(i) ==
  {IncomingOf(prog, trace[i])[b] :
     b \in {c \in DOMAIN IncomingOf(prog, trace[i]) :
              \E s \in Before(i) : <<Host(i), s, c>> \in ptab}}

Operands(n) ==
  IF KindOf(prog, n[2]) = "phi" THEN Incoming(n[1])
  ELSE IF KindOf(prog, n[2]) \in Computed THEN ArgsOf(prog, n[2])
  ELSE {}

(* The assertions of buildNode and of the calls it makes. *)
Buildable(n) ==
  /\ \A v \in Operands(n) : Located(n[1], v) # {}
  /\ KindOf(prog, n[2]) = "phi" => Cardinality(Incoming(n[1])) = 1

Break(what) ==
  /\ flaw' = what
  /\ UNCHANGED <<phase, path, trace, seq, pending, nodes, deps, conds, kept,
                 symbols, ready, results>>

(* A node is in the map before its operands are looked up. *)
Build(n) ==
  /\ Operating /\ phase = "follow"
  /\ n \in pending /\ KindOf(prog, n[2]) # "other"
  /\ IF Buildable(n)
       THEN LET under == UNION {Located(n[1], v) \X {v} : v \in Operands(n)}
            IN  /\ nodes' = nodes \cup {n}
                /\ deps' = deps \cup ({n} \X under)
                /\ pending' = (pending \cup under) \ nodes'
                /\ UNCHANGED <<phase, path, trace, seq, conds, kept, symbols,
                               ready, results, flaw>>
       ELSE Break("build")

(* A constant expression, a cast or an operator the switches do not list, a *)
(* comparison of floats, an address with more than two variable indices.   *)
BuildUnhandled(n) ==
  /\ Operating /\ phase = "follow"
  /\ n \in pending /\ KindOf(prog, n[2]) = "other"
  /\ Break("unhandled")

IsBranch(v) == v = TermOf(prog, HostOf(prog, v))

IsConditional(v) == IsBranch(v) /\ Arity(HostOf(prog, v)) = 2

InSTab(b, next, k) == <<b, next, SuccOf(prog, b)[k]>> \in stab

SideTrueFirst(i) ==  \* mutant: the side is not tested for ambiguity
  LET next == Host(i + 1)
  IN  IF InSTab(Host(i), next, 1) THEN {1} ELSE {2}

(* The side a conditional branch took, if only one leads to the next block. *)
Side(i) ==
  LET next == Host(i + 1)
  IN  IF InSTab(Host(i), next, 1)
        THEN IF InSTab(Host(i), next, 2) THEN {} ELSE {1}
        ELSE {2}

(* btrace has a case for one kind of terminator, the branch, and so has    *)
(* followTrace.                                                            *)
FollowTrace ==
  /\ Operating /\ phase = "follow" /\ pending = {}
  /\ seq <= Len(trace)
  /\ LET v == trace[seq]
         n == <<seq, v>>
     IN  IF IsBranch(v) /\ v \in UntraceableOf(prog)
           THEN Break("terminator")
         ELSE IF IsConditional(v) /\ seq = Len(trace)
           THEN Break("end of trace")
           ELSE /\ seq' = seq + 1
                /\ pending' = IF IsBranch(v) /\ ~IsConditional(v) THEN {} ELSE {n} \ nodes
                /\ conds' = IF IsConditional(v) THEN conds \cup ({n} \X Side(seq)) ELSE conds
                /\ UNCHANGED <<phase, path, trace, nodes, deps, kept, symbols,
                               ready, results, flaw>>

------------------------------------------------------------------------------
(* trimGraph: what the fetch and the conditions depend on, and every node  *)
(* connected with that.                                                    *)

Seeds == {<<Len(trace), trace[Len(trace)]>>} \cup {c[1] : c \in conds}

StartTrim ==
  /\ Operating /\ phase = "follow" /\ pending = {}
  /\ seq > Len(trace)
  /\ phase' = "trim"
  /\ kept' = Seeds
  /\ UNCHANGED <<path, trace, seq, pending, nodes, deps, conds, symbols, ready,
                 results, flaw>>

RelatedBelow == {m \in nodes : \E n \in kept : <<n, m>> \in deps}  \* mutant: users are dropped

Related == {m \in nodes : \E n \in kept : <<n, m>> \in deps \/ <<m, n>> \in deps}

GrowTrim ==
  /\ Operating /\ phase = "trim"
  /\ ~(Related \subseteq kept)
  /\ kept' = kept \cup Related
  /\ UNCHANGED <<phase, path, trace, seq, pending, nodes, deps, conds, symbols,
                 ready, results, flaw>>

EndTrim ==
  /\ Operating /\ phase = "trim"
  /\ Related \subseteq kept
  /\ nodes' = nodes \cap kept
  /\ deps' = deps \cap (kept \X kept)
  /\ phase' = "roots"
  /\ UNCHANGED <<path, trace, seq, pending, conds, kept, symbols, ready, results, flaw>>

------------------------------------------------------------------------------
(* symbolize: first the leaves and variables, then along the trace. *)

IsRoot(n) == KindOf(prog, n[2]) = "root"

Under(n) == {d[2] : d \in {e \in deps : e[1] = n}}

SymbolizeRoots ==
  /\ Operating /\ phase = "roots"
  /\ symbols' = {n \in nodes : IsRoot(n)}
  /\ ready' = symbols'
  /\ phase' = "trace" /\ seq' = 1
  /\ UNCHANGED <<path, trace, pending, nodes, deps, conds, kept, results, flaw>>

(* getSymbol asks the operands first, which may give them symbols: the     *)
(* nodes with an expression after all calls below n have returned.         *)
HasExpression(n) ==
  LET has[m \in nodes] ==
        \/ m \in ready
        \/ /\ KindOf(prog, m[2]) \in Computed
           /\ \A u \in Under(m) : has[u]
  IN  has[n]

Below(n) ==
  LET below[m \in nodes] == {m} \cup UNION {below[u] : u \in Under(m)}
  IN  below[n]

(* SENodeInst::getSymbol: the nodes that get a symbol by the call for n. *)
Symbolized(n) ==
  {m \in Below(n) : /\ KindOf(prog, m[2]) # "unknown"
                    /\ \A u \in Under(m) : HasExpression(u)}

Position == seq

SymbolizeNext ==
  /\ Operating /\ phase = "trace"
  /\ seq <= Len(trace)
  /\ LET n == <<Position, trace[Position]>>
     IN  IF n \notin nodes
           THEN UNCHANGED <<symbols, ready>>
           ELSE /\ symbols' = symbols \cup Symbolized(n)
                /\ ready' = ready \cup {m \in Symbolized(n) :
                                          KindOf(prog, m[2]) # "ignored"}
  /\ seq' = seq + 1
  /\ UNCHANGED <<phase, path, trace, pending, nodes, deps, conds, kept, results, flaw>>

EndSymbolize ==
  /\ Operating /\ phase = "trace"
  /\ seq > Len(trace)
  /\ phase' = "check" /\ seq' = 1
  /\ UNCHANGED <<path, trace, pending, nodes, deps, conds, kept, symbols, ready,
                 results, flaw>>

------------------------------------------------------------------------------
(* The comparison of the fetch with the others on the trace. *)

Fetch == FetchOf(prog)

(* getNodeOrFail for the source and the length of fetch f at position i. *)
Compared(i, f) ==
  UNION {Located(i, v) \X {v} : v \in {SrcOf(prog, f), LenOf(prog, f)}}

IsOther(i) == <<i, trace[i]>> \in nodes /\ trace[i] \in FetchesOf(prog)

(* Both checkOverlap: a missing symbol is an outcome, a missing expression *)
(* goes to the solver.  What the solver answers is left open.              *)
Overlap(four) ==
  IF ~(four \subseteq nodes) THEN {"no node"}
  ELSE IF ~(four \subseteq symbols) THEN {"symerr"}
  ELSE IF ~(four \subseteq ready) THEN {"no expression"}
  ELSE {"sat", "unsat", "undef"}

Check ==
  /\ Operating /\ phase = "check"
  /\ seq < Len(trace)
  /\ IF IsOther(seq)
       THEN \E outcome \in Overlap(Compared(seq, trace[seq]) \cup Compared(Len(trace), Fetch)) :
              /\ results' = [i \in DOMAIN results \cup {seq} |->
                                IF i = seq THEN outcome ELSE results[i]]
              /\ flaw' = IF outcome \in {"no node", "no expression"} THEN outcome ELSE flaw
       ELSE UNCHANGED <<results, flaw>>
  /\ seq' = seq + 1
  /\ UNCHANGED <<phase, path, trace, pending, nodes, deps, conds, kept, symbols, ready>>

EndCheck ==
  /\ Operating /\ phase = "check"
  /\ seq >= Len(trace)
  /\ phase' = "end"
  /\ UNCHANGED <<path, trace, seq, pending, nodes, deps, conds, kept, symbols,
                 ready, results, flaw>>

------------------------------------------------------------------------------

Evaluate ==
  \/ TakeTrace
  \/ FollowTrace \/ \E n \in pending : Build(n) \/ BuildUnhandled(n)
  \/ StartTrim \/ GrowTrim \/ EndTrim
  \/ SymbolizeRoots \/ SymbolizeNext \/ EndSymbolize
  \/ Check \/ EndCheck

EvalStep == Tracer \/ Evaluate

EvalStopped ==
  /\ phase = "end" \/ flaw # "none" \/ FetchBroken
  /\ UNCHANGED <<allVars, evalVars>>

EvalNext == EvalStep \/ EvalStopped

everything == <<allVars, evalVars>>

EvalSpec == EvalInit /\ [][EvalNext]_everything /\ WF_everything(EvalStep)

------------------------------------------------------------------------------
(* Properties. *)

(* The values buildNode has no case for that a trace may ask it for.       *)
Unhandled ==
  {v \in Values : KindOf(prog, v) = "other" /\ HostOf(prog, v) \in reach \cup {Null}}

(* The operands of a fetch that are calls without an expression. *)
Unexpressed ==
  {v \in UNION {{SrcOf(prog, f), LenOf(prog, f)} : f \in FetchesOf(prog) \cup {Fetch}} :
     KindOf(prog, v) = "ignored"}

(* The construction fails only at a value without a case, in a block that  *)
(* reaches the fetch or in none, and the comparison only at an operand of  *)
(* a fetch that is an ignored call (the expression Symbolic.cpp:152 does   *)
(* not test).  Otherwise every operand of an instruction of the slice is   *)
(* on the trace before it, whichever blocks the slice left out; a phi has  *)
(* one value for the edge the trace took; a terminator is a branch and not *)
(* the end of the trace; and the nodes of the compared operands survive    *)
(* the trimming.                                                           *)
GraphBuilt ==
  /\ flaw \notin {"build", "terminator", "end of trace", "no node"}
  /\ flaw = "unhandled" => Unhandled # {}
  /\ flaw = "no expression" => Unexpressed # {}

(* Where control can come from when it enters block h and was in the slice *)
(* last in block b. *)
EntersFrom(b, h) ==
  {c \in PredGraph(prog)[h] \cap reach :
     \/ c = b
     \/ c \notin suits /\ \E s \in Successors(prog, b) :
          c \in Closure({s}, [x \in Blocks |-> IF Passing(x) THEN Successors(prog, x) ELSE {}])}

(* The value of a phi on a trace is the one of the edge control took into  *)
(* its block, whichever way it passed through blocks outside the slice.    *)
PhiTakesEdge ==
  phase \in {"roots", "trace", "check", "end"} =>
    \A k \in 2..Len(path) : \A i \in DOMAIN trace :
      (Host(i) = path[k] /\ KindOf(prog, trace[i]) = "phi") =>
        \A d \in {e \in deps : e[1] = <<i, trace[i]>>} :
          \A c \in EntersFrom(path[k - 1], path[k]) :
            d[2][2] = IncomingOf(prog, trace[i])[c]

(* The side a branch is taken to have taken is one from which control can  *)
(* come to the next block of the trace, and the other side is not; where   *)
(* both are possible the branch says nothing.                              *)
SidesAreReal ==
  phase = "trim" =>
    \A i \in DOMAIN trace : IsConditional(trace[i]) =>
      {c[2] : c \in {d \in conds : d[1][1] = i}} =
        LET ways == {k \in 1..2 : Host(i + 1) \in NextSuits(SuccOf(prog, Host(i))[k])}
        IN  IF ways = {1, 2} THEN {} ELSE ways

(* What a load of the trimmed graph can read stays in the graph: a store   *)
(* before it on the trace into a stack slot its address derives from.  The *)
(* solver's memory would lack the store otherwise.                         *)
StoresKept ==
  phase = "roots" =>
    \A i \in DOMAIN trace : \A j \in 1..(i - 1) :
      (/\ KindOf(prog, trace[i]) = "load" /\ <<i, trace[i]>> \in nodes
       /\ KindOf(prog, trace[j]) = "store"
       /\ \E m \in Below(<<i, trace[i]>>) :
            IsRoot(m) /\ m[1] > 0 /\ m[2] \in ArgsOf(prog, trace[j]))
      => <<j, trace[j]>> \in nodes

(* The analysis of a fetch, from slicing to the last comparison, comes to  *)
(* its end (analyzeFetch), but for what the function explains: gotos into  *)
(* loops, values btrace or buildNode has no case for, and operands of a    *)
(* fetch that have no expression, which the solver cannot take.            *)
AnalysisEnds ==
  <>(\/ phase = "end"
     \/ fault # "none" /\ ~Structured
     \/ pc = "unknown" /\ Untreated # {}
     \/ flaw = "unhandled" /\ Unhandled # {}
     \/ flaw = "no expression" /\ Unexpressed # {})

=============================================================================
