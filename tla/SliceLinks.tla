----------------------------- MODULE SliceLinks -----------------------------
(***************************************************************************)
(* The rest of the construction of a slice: once the slicing loop is done, *)
(* Slice::expand links the blocks of the slice with each other and with    *)
(* the basic blocks between them, Slice::verify asserts that the links are *)
(* consistent, and LLVMSlice puts the blocks in the order the dominator    *)
(* and loop analyses expect, the entry in front and the basis (the block   *)
(* of the fetch) at the back.                                              *)
(*                                                                         *)
(* The vectors of links are sets here: expand adds a link once from either *)
(* end, and the graph built from them (DAGraph) uses sets.                 *)
(***************************************************************************)
EXTENDS Slice

VARIABLES
  stage,     \* "slice", "expand", "verify", "wrap", "ready" or "broken"
  unlinked,  \* the blocks of the slice expand has not been called for
  preds,     \* <<b, s>>: s is a predecessor of b in the slice
  succs,     \* <<b, s>>: s is a successor of b in the slice
  ptab,      \* <<b, s, base>>: b is entered from s over the basic block base
  stab,      \* <<b, s, base>>: b leads to s over its successor base
  front,     \* the first block of the LLVMSlice
  back       \* the last one

linkVars == <<stage, unlinked, preds, succs, ptab, stab, front, back>>

LinkInit ==
  /\ Init
  /\ stage = "slice"
  /\ unlinked = {}
  /\ preds = {} /\ succs = {}
  /\ ptab = {} /\ stab = {}
  /\ front = Null /\ back = Null

Slicing ==
  /\ stage = "slice"
  /\ Step
  /\ IF pc' = "done"
       THEN stage' = "expand" /\ unlinked' = suits
       ELSE UNCHANGED <<stage, unlinked>>
  /\ UNCHANGED <<preds, succs, ptab, stab, front, back>>

ThroughAll(graph) == graph  \* mutant: it does not stop at slice blocks

(* The breadth-first search of expand goes on through the blocks that      *)
(* reach the fetch but are not part of the slice.                          *)
Through(graph) == [c \in Blocks |-> IF Passing(c) THEN graph[c] ELSE {}]

(* The blocks of the slice it meets from base on. *)
Met(base, graph) == suits \cap reach \cap Closure({base}, Through(graph))

ToNextInSlice(b, graph) ==  \* mutant: only to those that are in the slice
  {<<base, base>> : base \in graph[b] \cap suits}

(* The blocks of the slice b is linked to, with the adjacent block between. *)
To(b, graph) == {m \in suits \X graph[b] : m[1] \in Met(m[2], graph)}

Expand(b) ==
  LET before == To(b, PredGraph(prog))
      after  == To(b, SuccGraph(prog))
      pre == {m[1] : m \in before}
      suc == {m[1] : m \in after}
  IN  /\ stage = "expand"
      /\ b \in unlinked
      /\ unlinked' = unlinked \ {b}
      /\ preds' = preds \cup {<<b, s>> : s \in pre} \cup {<<s, b>> : s \in suc}
      /\ succs' = succs \cup {<<b, s>> : s \in suc} \cup {<<s, b>> : s \in pre}
      /\ ptab' = ptab \cup {<<b, m[1], m[2]>> : m \in before}
      /\ stab' = stab \cup {<<b, m[1], m[2]>> : m \in after}
      /\ stage' = IF unlinked' = {} THEN "verify" ELSE stage
      /\ UNCHANGED <<front, back>>
      /\ UNCHANGED vars

(* The assertions of verify: every link is known at both ends and has its  *)
(* basic blocks, and a neighbouring basic block without an entry in the    *)
(* tables is not part of the slice.                                        *)
Consistent(b) ==
  /\ \A s \in suits :
       /\ <<b, s>> \in preds => /\ <<s, b>> \in succs
                                /\ \E t \in ptab : t[1] = b /\ t[2] = s
       /\ <<b, s>> \in succs => /\ <<s, b>> \in preds
                                /\ \E t \in stab : t[1] = b /\ t[2] = s
  /\ \A base \in PredGraph(prog)[b] \cap reach \cap suits :
       \E t \in ptab : t[1] = b /\ t[3] = base
  /\ \A base \in SuccGraph(prog)[b] \cap reach \cap suits :
       \E t \in stab : t[1] = b /\ t[3] = base

Verify ==
  /\ stage = "verify"
  /\ stage' = IF \A b \in suits : Consistent(b) THEN "wrap" ELSE "broken"
  /\ UNCHANGED <<unlinked, preds, succs, ptab, stab, front, back>>
  /\ UNCHANGED vars

LastInOrder ==  \* mutant: the basis is listed like the others
  IF suits = {entry} THEN {entry} ELSE suits \ {entry}

(* The blocks are listed entry first, then the others, then the basis if   *)
(* it is not the entry.  The others come in the order of their addresses.  *)
LastBlock ==
  IF FetchBlock # entry THEN {FetchBlock}
  ELSE IF suits = {entry} THEN {entry}
  ELSE suits \ {entry}

Wrap ==
  /\ stage = "wrap"
  /\ stage' = "ready"
  /\ front' = entry
  /\ back' \in LastBlock
  /\ UNCHANGED <<unlinked, preds, succs, ptab, stab>>
  /\ UNCHANGED vars

LinkStep ==
  \/ Slicing
  \/ \E b \in unlinked : Expand(b)
  \/ Verify
  \/ Wrap

LinkStopped ==
  /\ pc \in {"abort", "unknown"} \/ stage \in {"ready", "broken"}
  /\ UNCHANGED vars /\ UNCHANGED linkVars

LinkNext == LinkStep \/ LinkStopped

LinkSpec ==
  LinkInit /\ [][LinkNext]_<<vars, linkVars>> /\ WF_<<vars, linkVars>>(LinkStep)

------------------------------------------------------------------------------
(* Properties. *)

(* No assertion of Slice::verify fails, although expand looks for the      *)
(* predecessors of a block backward and for its successors forward, each   *)
(* from one end only, and the two searches have to agree.  And the links   *)
(* are the control flow of the function with the other blocks left out: s  *)
(* follows b in the slice exactly when control can go from b to s without  *)
(* meeting another block of the slice.                                     *)
LinksAreControlFlow ==
  /\ stage # "broken"
  /\ stage \in {"wrap", "ready"} =>
       succs = {e \in suits \X suits :
                  \E c \in Successors(prog, e[1]) : e[2] \in NextSuits(c)}

(* The entry reaches every block of the slice over the links, and every    *)
(* block of the slice reaches the basis: a trace can be formed through it. *)
FromEntry ==
  suits \subseteq Closure({entry}, [b \in Blocks |->
                                      {s \in suits : <<b, s>> \in succs}])

ToBasis ==
  suits \subseteq Closure({FetchBlock}, [b \in Blocks |->
                                           {s \in suits : <<b, s>> \in preds}])

OnSomeTrace == stage \in {"wrap", "ready"} => FromEntry /\ ToBasis

==============================================================================
