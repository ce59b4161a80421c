---------------------------- MODULE FetchTraces ----------------------------
(***************************************************************************)
(* FuncHandle::analyzeFetch up to the traces: the slice of a fetch is      *)
(* built (Slice, SliceLinks), wrapped for the dominator and loop analyses  *)
(* (LLVMSlice, SliceOracle), condensed (Dag) and unrolled (Unroll).        *)
(***************************************************************************)
EXTENDS SliceLinks, FiniteSets

CONSTANTS StackLimit, UnrollLimit

(* A function has finitely many blocks, the stack has room for a call of   *)
(* DFS for each of them, and the limit of the traces is a positive number. *)
ASSUME LimitsAssumption ==
  /\ IsFiniteSet(Blocks)
  /\ StackLimit \in Nat /\ Cardinality(Blocks) <= StackLimit
  /\ UnrollLimit \in Nat \ {0}

VARIABLES slice, forward, loops, unbuilt, dags, paths, hist, left, found,
          fault, calls, cache

Oracle == INSTANCE Unroll

oracleVars == <<slice, forward, loops, unbuilt, dags, paths, hist, left,
                found, fault, calls, cache>>

FetchInit ==
  /\ LinkInit
  /\ slice = Null /\ forward = <<>> /\ loops = <<>>
  /\ unbuilt = {} /\ dags = <<>> /\ paths = <<>>
  /\ hist = <<>> /\ left = <<>> /\ found = {}
  /\ fault = "none"
  /\ calls = <<>> /\ cache = <<>>

(* The slice as LLVM's analyses and DAGraph see it. *)
Wrapped ==
  [nodes |-> suits, entry |-> front, basis |-> back,
   succ  |-> [b \in suits |-> {s \in suits : <<b, s>> \in succs}]]

Slicer == LinkStep /\ UNCHANGED oracleVars

(* The constructor of SliceOracle starts with the analyses. *)
Analyse ==
  /\ stage = "ready" /\ slice = Null
  /\ slice' = Wrapped
  /\ forward' = Oracle!ForwardEdges(Wrapped)
  /\ loops' = Oracle!NaturalLoops(Wrapped)
  /\ unbuilt' = {Null}
  /\ UNCHANGED <<dags, paths, hist, left, found, fault, calls, cache>>
  /\ UNCHANGED <<vars, linkVars>>

Unroller ==
  /\ slice # Null
  /\ Oracle!UnrollStep
  /\ UNCHANGED <<vars, linkVars>>

FetchStep == Slicer \/ Analyse \/ Unroller

Answered == slice # Null /\ Oracle!Answered

FetchBroken == fault # "none" \/ pc \in {"abort", "unknown"} \/ stage = "broken"

allVars == <<vars, linkVars, oracleVars>>

------------------------------------------------------------------------------
(* Properties. *)

(* Every loop of the function has one entry, which dominates it; gotos     *)
(* into loops aside, all functions are like this.                          *)
Structured ==
  LET function == [nodes |-> reach, entry |-> EntryBlock,
                   succ  |-> [b \in reach |-> Successors(prog, b) \cap reach]]
      ahead == Oracle!ForwardEdges(function)
  IN  \A b \in Closure({EntryBlock}, function.succ) : b \notin Closure(ahead[b], ahead)

(* Leaving blocks out does not give a loop a second entry: a head with     *)
(* slice blocks on two ways decides between them and stays in the slice.   *)
(* The search for paths needs this to end.                                 *)
SliceStaysReducible ==
  (slice # Null /\ dags = <<>> /\ ~Oracle!Reducible) => ~Structured

(* The traces of a fetch are ways control can take through the function,   *)
(* with the blocks outside the slice left out, and there is one.  They end *)
(* with the block of the fetch, unless that is the first block of a slice  *)
(* that has others: the basis is not at the back then (Slice.cpp:695), and *)
(* the traces start with it; what follows the fetch is cut off later.      *)
TracesReachFetch ==
  Answered =>
    LET traces == cache[<<Null, back>>].all
    IN  /\ traces # {}
        /\ \A t \in traces :
             /\ t[Len(t)] # FetchBlock => suits # {FetchBlock} /\ t[1] = FetchBlock
             /\ t[1] \in NextSuits(EntryBlock)
             /\ \A i \in 2..Len(t) :
                  \E c \in Successors(prog, t[i - 1]) : t[i] \in NextSuits(c)

==============================================================================
