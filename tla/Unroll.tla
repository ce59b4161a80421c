------------------------------- MODULE Unroll -------------------------------
(***************************************************************************)
(* UnrollCache: every trace over the items of a graph becomes a set of     *)
(* traces over blocks.  A loop item that is not the last one contributes   *)
(* the traces from its header to one of the blocks that lead to the next   *)
(* item, the last one those to the block that is asked for; they come from *)
(* the graph of the loop in the same way, and no more than UnrollLimit of  *)
(* them are used.                                                          *)
(***************************************************************************)
EXTENDS Dag

CONSTANTS
  UnrollLimit  \* KSYM_CONFIG_UNROLL_TOTAL_LIMIT

VARIABLES
  calls,   \* the active calls of getUnrolled: graph and block, innermost last
  cache    \* for a call that has returned: its traces, and the first of them

unrollVars == <<dagVars, calls, cache>>

Call == Last(calls)
Scope == Call[1]
Term == Call[2]
Mark == Item(Scope, Term)
Traces == paths[<<Scope, Mark>>]

IsLinked(b, next) == next \in slice.succ[b]

Entrance(item) == item[2]

LinksAnywhere(trace, i) ==  \* mutant: any block that leaves the loop
  IF i < Len(trace) THEN Exiting(trace[i][2]) ELSE {Term}

LinksToHeader(trace, i) ==  \* mutant: the last loop is entered only
  IF i < Len(trace)
    THEN {b \in Exiting(trace[i][2]) : IsLinked(b, Entrance(trace[i + 1]))}
    ELSE {Entrance(trace[i])}

LinksFirst(trace, i) ==  \* mutant: the search for links ends at the first
  IF i < Len(trace)
    THEN {CHOOSE b \in Exiting(trace[i][2]) : IsLinked(b, Entrance(trace[i + 1]))}
    ELSE {Term}

(* The blocks in which the loop at position i of a trace is left. *)
Links(trace, i) ==
  IF i < Len(trace)
    THEN {b \in Exiting(trace[i][2]) : IsLinked(b, Entrance(trace[i + 1]))}
    ELSE {Term}

(* The calls unrollRecursive makes for a trace. *)
Callees(trace) ==
  UNION {{<<trace[i][2], l>> : l \in Links(trace, i)} : i \in {j \in DOMAIN trace : IsLoop(trace[j])}}

Missing == {c \in UNION {Callees(t) : t \in Traces} : c \notin DOMAIN cache}

(* What the item at position i contributes to the traces of blocks. *)
Pieces(trace, i) ==
  IF IsLoop(trace[i]) THEN UNION {cache[<<trace[i][2], l>>].first : l \in Links(trace, i)}
                      ELSE {<<trace[i][2]>>}

Extended(ways, pieces) == {p \o q : p \in ways, q \in pieces}

(* The traces of blocks for a trace of items. *)
Unrolled(trace) ==
  LET upTo[i \in 0..Len(trace)] ==
        IF i = 0 THEN {<<>>} ELSE Extended(upTo[i - 1], Pieces(trace, i))
  IN  upTo[Len(trace)]

Least(i, j) == IF i < j THEN i ELSE j

------------------------------------------------------------------------------

(* SliceOracle::getUnrolled for the block of the fetch. *)
Ask ==
  /\ fault = "none" /\ unbuilt = {}
  /\ calls = <<>> /\ cache = <<>>
  /\ calls' = <<<<Null, slice.basis>>>>
  /\ UNCHANGED <<dagVars, cache>>

Active == calls # <<>> /\ fault = "none"

(* getPath for the block of the call. *)
Search ==
  /\ Active
  /\ Start(Scope, Mark) \/ Descend(Scope) \/ Retreat(Scope)
  /\ UNCHANGED <<calls, cache>>

Flattened == Active /\ ~Searching /\ <<Scope, Mark>> \in DOMAIN paths

(* unrollRecursive calls getUnrolled for the inside of a loop. *)
Recurse ==
  /\ Flattened
  /\ \E callee \in Missing : calls' = Append(calls, callee)
  /\ UNCHANGED <<dagVars, cache>>

Return ==
  /\ Flattened /\ Missing = {}
  /\ IF (Scope = Null /\ Traces = {}) \/ \E t \in Traces : Last(t) # Mark
       THEN fault' = "path" /\ UNCHANGED <<calls, cache>>
       ELSE LET all == UNION {Unrolled(t) : t \in Traces}
            IN  /\ \E first \in kSubset(Least(UnrollLimit, Cardinality(all)), all) :
                     cache' = Inserted(cache, Call, [all |-> all, first |-> first])
                /\ calls' = Front(calls)
                /\ UNCHANGED fault
  /\ UNCHANGED <<slice, forward, loops, unbuilt, dags, paths, hist, left, found>>

UnrollStep ==
  \/ \E scope \in unbuilt : Build(scope) /\ UNCHANGED <<calls, cache>>
  \/ Ask \/ Search \/ Recurse \/ Return

Answered == <<Null, slice.basis>> \in DOMAIN cache

UnrollStopped == (Answered \/ fault # "none") /\ UNCHANGED unrollVars

UnrollInit(graphs) == DagInit(graphs) /\ calls = <<>> /\ cache = <<>>

UnrollNext == UnrollStep \/ UnrollStopped

------------------------------------------------------------------------------
(* Properties. *)

(* The ways through the slice from its entry to the block of the fetch,    *)
(* over edges that do not lead back to the head of a loop.                 *)
ForwardTraces == ForwardWays(slice, forward)

(* What was asked for within a loop are ways from its header over blocks   *)
(* of the loop that never return to the header.                            *)
LoopWaysWithin ==
  \A c \in DOMAIN cache :
    c[1] # Null =>
      \A p \in cache[c].all :
        /\ p[1] = c[1] /\ Last(p) = c[2]
        /\ \A i \in DOMAIN p : p[i] \in loops[c[1]]
        /\ \A i \in 2..Len(p) : p[i] \in forward[p[i - 1]]

(* SliceOracle::getUnrolled keeps the promise of TraceSet. *)
Promise == INSTANCE TraceSet WITH
  ways <- ForwardTraces, searchable <- Reducible, Enough <- UnrollLimit,
  answer <- IF Answered THEN cache[<<Null, slice.basis>>].all ELSE {},
  failed <- fault = "stack"

TraceSetImplemented == Promise!TSpec

==============================================================================
