-------------------------------- MODULE Slice --------------------------------
(***************************************************************************)
(* The slicing loop of the constructor Slice::Slice: starting from one     *)
(* fetch instruction it                                                    *)
(*   - traces backward through operands (btrace),                          *)
(*   - traces forward from the roots it met (follow), and repeats both     *)
(*     until nothing new turns up,                                         *)
(*   - walks the blocks that can reach the fetch depth first (joint) to    *)
(*     find the blocks that carry instructions of the slice (suits) and    *)
(*     the branches that decide between two of them, whose terminators     *)
(*     are the taints of the next round,                                   *)
(* until a round finds no new branch.                                      *)
(*                                                                         *)
(* The program under analysis is the input of the constructor: it is       *)
(* picked in Init and never changes.  The recursive calls of btrace and    *)
(* follow are kept as the set todo of the calls still to be made, taken in *)
(* any order (the code iterates over sets ordered by address).  The calls  *)
(* of joint are kept as a stack, hists, one frame per active call.         *)
(***************************************************************************)
EXTENDS Naturals, Sequences, Closure

CONSTANTS
  Programs,       \* the functions considered, each with a fetch to slice for
  Blocks,         \* basic blocks
  EntryBlock,     \* the entry block of every function
  Values,         \* instructions, arguments, globals, constant expressions
  SuccOf(_, _),   \* the successors of a block of a function, true side first
  HostOf(_, _),   \* the block of an instruction; Null for any other value
  TermOf(_, _),   \* the terminator of a block
  OpsOf(_, _),    \* the values btrace recurses into: constants are left out
  UsersOf(_, _),  \* the use list of a value, without the constant
                  \* aggregates and the globals, which follow skips
  RootsOf(_),     \* the arguments, globals and stack slots of a function
  UntraceableOf(_), \* the values btrace or follow has no case for: returns
                  \* and any other terminator that is no branch, ...
  FetchOf(_),     \* the fetch instruction
  Null,           \* nullptr
  Unseen          \* "no entry in dedup"

Successors(p, b) == {SuccOf(p, b)[k] : k \in 1..Len(SuccOf(p, b))}

SuccGraph(p) == [b \in Blocks |-> Successors(p, b)]

PredGraph(p) == [b \in Blocks |-> {c \in Blocks : b \in Successors(p, c)}]

(* FuncOracle::getReachBlocks: the blocks the fetch can be reached from.   *)
ReachBlocks(p) == Closure({HostOf(p, FetchOf(p))}, PredGraph(p))

ProgramType(p) ==
  /\ \A b \in Blocks : SuccOf(p, b) \in Seq(Blocks) /\ TermOf(p, b) \in Values
  /\ \A v \in Values : /\ HostOf(p, v) \in Blocks \cup {Null}
                       /\ OpsOf(p, v) \subseteq Values
                       /\ UsersOf(p, v) \subseteq Values
  /\ RootsOf(p) \subseteq Values
  /\ UntraceableOf(p) \subseteq Values
  /\ FetchOf(p) \in Values

(* What the front of the pass guarantees: switches have been lowered, so a *)
(* block has at most two successors; a terminator sits in its block, and   *)
(* one without successors is no branch; btrace has a case for a root; the  *)
(* fetch is a call, not a root, of a block that the entry block reaches;   *)
(* only instructions have instructions for operands; and a definition      *)
(* reaches its uses, like the terminator of an incoming block, which       *)
(* btrace takes for an operand of a phi, reaches the phi.                  *)
WellFormed(p) ==
  /\ \A b \in Blocks : Len(SuccOf(p, b)) <= 2 /\ HostOf(p, TermOf(p, b)) = b
  /\ \A b \in Blocks : SuccOf(p, b) = <<>> => TermOf(p, b) \in UntraceableOf(p)
  /\ UntraceableOf(p) \cap (RootsOf(p) \cup {FetchOf(p)}) = {}
  /\ HostOf(p, FetchOf(p)) \in Blocks
  /\ FetchOf(p) \notin RootsOf(p)
  /\ HostOf(p, FetchOf(p)) \in Closure({EntryBlock}, SuccGraph(p))
  /\ \A v \in Values : \A o \in OpsOf(p, v) :
       HostOf(p, o) # Null =>
         /\ HostOf(p, v) # Null
         /\ HostOf(p, o) \in Closure({HostOf(p, v)}, PredGraph(p))

ASSUME EntryAssumption == EntryBlock \in Blocks
ASSUME SentinelAssumption ==
  Null \notin Blocks /\ Unseen \notin Blocks /\ Null # Unseen
ASSUME ProgramAssumption ==
  \A p \in Programs : ProgramType(p) /\ WellFormed(p)

VARIABLES
  prog,    \* the function and the fetch
  reach,   \* the blocks the fetch is reachable from
  pc,      \* where the constructor is
  todo,    \* calls of btrace, or of follow, still to be made
  backs,   \* the values that are part of the slice
  roots,   \* the roots among them
  taints,  \* the values found since the last backward trace
  hists,   \* the active calls of joint, innermost last
  cur,     \* the argument of the next call of joint, or its last result
  dedup,   \* the block standing for a visited block
  suits,   \* the blocks of the slice
  entry    \* the first of them

vars == <<prog, reach, pc, todo, backs, roots, taints, hists, cur, dedup,
          suits, entry>>

FetchBlock == HostOf(prog, FetchOf(prog))

InstsWithoutTerminator(b) ==  \* mutant: the terminator is left out
  {v \in backs : HostOf(prog, v) = b /\ v # TermOf(prog, b)}

(* The instructions a slice block holds (Slice::apply): cache is rebuilt   *)
(* from backs before every walk, and backs does not change during it.      *)
Insts(b) == {v \in backs : HostOf(prog, v) = b}

Arity(b) == Len(SuccOf(prog, b))

------------------------------------------------------------------------------
(* Tracing. *)

Init ==
  /\ prog \in Programs
  /\ reach = ReachBlocks(prog)
  /\ pc = "btrace"
  /\ taints = {FetchOf(prog)}
  /\ todo = taints
  /\ backs = {}
  /\ roots = {}
  /\ hists = <<>>
  /\ cur = Null
  /\ dedup = [b \in Blocks |-> Unseen]
  /\ suits = {}
  /\ entry = Null

(* One call of btrace on a value not yet in the slice: a root ends the     *)
(* trace, anything else is decomposed into its operands, those of a phi    *)
(* and the ends of its incoming blocks, for example.                       *)
Btrace(v) ==
  /\ pc = "btrace"
  /\ v \in todo
  /\ v \notin UntraceableOf(prog)
  /\ backs' = backs \cup {v}
  /\ IF v \in RootsOf(prog)
       THEN /\ roots' = roots \cup {v}
            /\ todo' = todo \ backs'
       ELSE /\ roots' = roots
            /\ todo' = (todo \cup OpsOf(prog, v)) \ backs'
  /\ UNCHANGED <<prog, reach, pc, taints, hists, cur, dedup, suits, entry>>

BtraceDone ==
  /\ pc = "btrace"
  /\ todo = {}
  /\ pc' = "follow"
  /\ todo' = roots
  /\ taints' = {}
  /\ UNCHANGED <<prog, reach, backs, roots, hists, cur, dedup, suits, entry>>

FollowedInstructions(v) ==  \* mutant: constant expressions are ignored
  {u \in UsersOf(prog, v) \ (backs \cup taints) : HostOf(prog, u) \in reach}

(* The users follow takes up: not in the slice, not taken up before, and,  *)
(* for an instruction, in a block that reaches the fetch.                  *)
Followed(v) ==
  {u \in UsersOf(prog, v) \ (backs \cup taints) :
     HostOf(prog, u) \in reach \cup {Null}}

(* A user that is neither an instruction nor a constant expression. *)
Strays(v) == {u \in Followed(v) \cap UntraceableOf(prog) : HostOf(prog, u) = Null}

Follow(v) ==
  /\ pc = "follow"
  /\ v \in todo
  /\ Strays(v) = {}
  /\ taints' = taints \cup Followed(v)
  /\ todo' = (todo \ {v}) \cup Followed(v)
  /\ UNCHANGED <<prog, reach, pc, backs, roots, hists, cur, dedup, suits,
                 entry>>

(* btrace and follow give up at a value they have no case for.  That the   *)
(* incoming blocks of a phi end in branches is asserted by btrace.         *)
UnknownValue ==
  /\ \/ pc = "btrace" /\ todo \cap UntraceableOf(prog) # {}
     \/ pc = "follow" /\ \E v \in todo : Strays(v) # {}
  /\ pc' = "unknown"
  /\ UNCHANGED <<prog, reach, todo, backs, roots, taints, hists, cur, dedup,
                 suits, entry>>

(* The inner loop ends when following the roots finds nothing new; then    *)
(* the walk starts afresh at the entry block of the function.              *)
FollowDone ==
  /\ pc = "follow"
  /\ todo = {}
  /\ IF taints # {}
       THEN /\ pc' = "btrace"
            /\ todo' = taints
            /\ UNCHANGED <<hists, cur, dedup, suits>>
       ELSE /\ pc' = "call"
            /\ cur' = EntryBlock
            /\ hists' = <<>>
            /\ dedup' = [b \in Blocks |-> Unseen]
            /\ suits' = {}
            /\ todo' = {}
  /\ UNCHANGED <<prog, reach, backs, roots, taints, entry>>

------------------------------------------------------------------------------
(* The walk: Slice::joint. *)

ActiveForgotten == {}  \* mutant: no loop is ever noticed

Active == {hists[k].block : k \in 1..Len(hists)}

Return(x) == pc' = "return" /\ cur' = x

(* A block that cannot reach the fetch, or one whose answer is known. *)
JointKnown ==
  /\ pc = "call"
  /\ cur \notin reach \/ dedup[cur] # Unseen
  /\ Return(IF cur \in reach THEN dedup[cur] ELSE Null)
  /\ UNCHANGED <<prog, reach, todo, backs, roots, taints, hists, dedup,
                 suits, entry>>

NearestUntested == dedup[cur]  \* mutant: it may have no entry

NearestOfAll ==  \* mutant: the search starts at the outermost call
  LET known == {k \in 1..Len(hists) : dedup[hists[k].block] # Unseen}
  IN  IF known = {}
        THEN Null
        ELSE dedup[hists[CHOOSE k \in known : \A j \in known : k <= j].block]

(* On a loop: the answer of the first block, from cur on, that has one. *)
Nearest ==
  LET first == CHOOSE k \in 1..Len(hists) :
                 /\ hists[k].block = cur
                 /\ \A j \in 1..(k - 1) : hists[j].block # cur
      known == {k \in first..Len(hists) : dedup[hists[k].block] # Unseen}
  IN  IF known = {}
        THEN Null
        ELSE dedup[hists[CHOOSE k \in known : \A j \in known : k <= j].block]

JointLoop ==
  /\ pc = "call"
  /\ cur \in reach /\ dedup[cur] = Unseen
  /\ cur \in Active
  /\ Return(Nearest)
  /\ UNCHANGED <<prog, reach, todo, backs, roots, taints, hists, dedup,
                 suits, entry>>

(* A block seen for the first time.  One with instructions of the slice    *)
(* stands for itself, from now on; then the true side is walked.           *)
NewBlock ==
  /\ pc = "call"
  /\ cur \in reach /\ dedup[cur] = Unseen
  /\ cur \notin Active

MarkIfSliced ==
  IF Insts(cur) # {}
    THEN /\ dedup' = [dedup EXCEPT ![cur] = cur]
         /\ suits' = suits \cup {cur}
    ELSE UNCHANGED <<dedup, suits>>

JointEnter ==
  /\ NewBlock
  /\ Arity(cur) > 0
  /\ MarkIfSliced
  /\ hists' = Append(hists, [block |-> cur, side |-> 1, tnxt |-> Null])
  /\ cur' = SuccOf(prog, cur)[1]
  /\ UNCHANGED <<prog, reach, pc, todo, backs, roots, taints, entry>>

(* A return block: it asserts that it holds instructions of the slice. *)
JointLeaf ==
  /\ NewBlock
  /\ Arity(cur) = 0
  /\ MarkIfSliced
  /\ IF Insts(cur) # {} THEN Return(cur) ELSE pc' = "abort" /\ cur' = cur
  /\ UNCHANGED <<prog, reach, todo, backs, roots, taints, hists, entry>>

Top == hists[Len(hists)]

Rest == SubSeq(hists, 1, Len(hists) - 1)

(* The true side has been walked: keep its answer and walk the false side. *)
JointTrueSide ==
  /\ pc = "return"
  /\ hists # <<>>
  /\ Top.side = 1 /\ Arity(Top.block) = 2
  /\ hists' = [hists EXCEPT ![Len(hists)] =
                 [block |-> Top.block, side |-> 2, tnxt |-> cur]]
  /\ pc' = "call"
  /\ cur' = SuccOf(prog, Top.block)[2]
  /\ UNCHANGED <<prog, reach, todo, backs, roots, taints, dedup, suits,
                 entry>>

DecidesInSlice(tnxt, fnxt) ==  \* mutant: only for a block of the slice
  tnxt # fnxt /\ tnxt # Null /\ fnxt # Null /\ Insts(Top.block) # {}

(* The two sides lead to two different blocks of the slice. *)
Decides(tnxt, fnxt) == tnxt # fnxt /\ tnxt # Null /\ fnxt # Null

NewTaintNone(b) == {}  \* mutant: the branch is not made a condition

NewTaintAlways(b) == {TermOf(prog, b)}  \* mutant: backs is not consulted

(* The terminator of a deciding branch, unless it is in the slice. *)
NewTaint(b) == {TermOf(prog, b)} \ backs

AnswerTrueSide(b, tnxt, fnxt) ==  \* mutant: the true side may be null
  IF Insts(b) # {} \/ Decides(tnxt, fnxt) THEN b ELSE tnxt

(* A block answers with itself when it is part of the slice and with what  *)
(* its sides lead to otherwise.                                            *)
Answer(b, tnxt, fnxt) ==
  IF Insts(b) # {} \/ Decides(tnxt, fnxt) THEN b
  ELSE IF tnxt = Null THEN fnxt ELSE tnxt

(* Every side has been walked.  A deciding branch becomes part of the      *)
(* slice, its terminator a taint of the next round.                        *)
JointFinish ==
  LET b    == Top.block
      tnxt == IF Arity(b) = 2 THEN Top.tnxt ELSE cur
      res  == Answer(b, tnxt, cur)
  IN  /\ pc = "return"
      /\ hists # <<>>
      /\ Arity(b) = Top.side
      /\ IF Decides(tnxt, cur)
           THEN /\ suits' = suits \cup {b}
                /\ taints' = taints \cup NewTaint(b)
           ELSE UNCHANGED <<suits, taints>>
      /\ dedup' = IF dedup[b] = Unseen
                    THEN [dedup EXCEPT ![b] = res] ELSE dedup
      /\ hists' = Rest
      /\ Return(res)
      /\ UNCHANGED <<prog, reach, todo, backs, roots, entry>>

(* The walk is over.  The constructor asserts that it found an entry, goes *)
(* on with the new taints, or leaves the loop and asserts that the block   *)
(* of the fetch is part of the slice.                                      *)
JointReturned ==
  /\ pc = "return"
  /\ hists = <<>>
  /\ entry' = cur
  /\ pc' = IF cur \notin suits THEN "abort"
           ELSE IF taints # {} THEN "btrace"
           ELSE IF FetchBlock \notin suits THEN "abort"
           ELSE "done"
  /\ todo' = taints
  /\ UNCHANGED <<prog, reach, backs, roots, taints, hists, cur, dedup, suits>>

------------------------------------------------------------------------------

Trace ==
  \/ \E v \in todo : Btrace(v) \/ Follow(v)
  \/ BtraceDone
  \/ FollowDone
  \/ UnknownValue

Joint ==
  \/ JointKnown
  \/ JointLoop
  \/ JointEnter
  \/ JointLeaf
  \/ JointTrueSide
  \/ JointFinish
  \/ JointReturned

Step == Trace \/ Joint

Stopped == pc \in {"done", "abort", "unknown"} /\ UNCHANGED vars

Next == Step \/ Stopped

(* The constructor runs to its end without waiting for anyone. *)
Spec == Init /\ [][Next]_vars /\ WF_vars(Step)

------------------------------------------------------------------------------
(* Properties. *)

Frames == [block : Blocks, side : 1..2, tnxt : Blocks \cup {Null}]

TypeOK ==
  /\ prog \in Programs
  /\ reach \subseteq Blocks
  /\ pc \in {"btrace", "follow", "call", "return", "done", "abort", "unknown"}
  /\ todo \subseteq Values
  /\ backs \subseteq Values
  /\ roots \subseteq Values
  /\ taints \subseteq Values
  /\ hists \in Seq(Frames)
  /\ cur \in Blocks \cup {Null}
  /\ dedup \in [Blocks -> Blocks \cup {Null, Unseen}]
  /\ suits \subseteq Blocks
  /\ entry \in Blocks \cup {Null}

(* The values the tracing can come to that it has no case for: users and   *)
(* operands, and ends of two-way branches, in blocks that can reach the    *)
(* fetch or in no block.                                                   *)
Untreated ==
  {v \in UntraceableOf(prog) :
     /\ HostOf(prog, v) \in reach \cup {Null}
     /\ \/ \E u \in Values : v \in OpsOf(prog, u) \cup UsersOf(prog, u)
        \/ \E b \in Blocks : Arity(b) = 2 /\ v = TermOf(prog, b)}

(* The constructor aborts only on a function that uses, where the fetch    *)
(* can be reached, a value btrace or follow has no case for (Slice.cpp:190,*)
(* 225, 266), like the return of a value derived from a root in the block  *)
(* of the fetch.  Its other assertions never fail: a return block holds    *)
(* slice instructions, every walk finds an entry that is a block of the    *)
(* slice (Slice.cpp:600), and the block of the fetch is one (604).         *)
AbortsKnown ==
  /\ pc # "abort"
  /\ pc = "unknown" => Untreated # {}

(* The walk starts, and the constructor ends, with a slice that is closed: *)
(* it holds the operands of its values, and the users of its roots that    *)
(* can affect the fetch.                                                   *)
SliceClosed ==
  pc \in {"call", "return", "done"} =>
    /\ \A v \in backs \ RootsOf(prog) : OpsOf(prog, v) \subseteq backs
    /\ \A v \in roots : \A u \in UsersOf(prog, v) :
         HostOf(prog, u) \in reach \cup {Null} => u \in backs

(* Every instruction of the slice sits in a block that can reach the       *)
(* fetch: another one would be in no slice block and the evaluation graph  *)
(* would look for it in vain.                                              *)
SliceInReach ==
  \A v \in backs \cup todo \cup taints : HostOf(prog, v) \in reach \cup {Null}

(* Every instruction of the finished slice whose block the entry block     *)
(* reaches sits in a block of the slice; so do the terminators of the      *)
(* incoming blocks of a phi, by which a trace tells where it came from.    *)
(* And no block of the slice is without instructions, although joint puts  *)
(* empty blocks into suits: the later stages take the first instruction of *)
(* the next block of a trace to find out where a branch went.              *)
SliceHosted ==
  pc = "done" =>
    /\ \A v \in backs : HostOf(prog, v) \in Blocks /\ dedup[HostOf(prog, v)] # Unseen
                          => HostOf(prog, v) \in suits
    /\ \A b \in suits : Insts(b) # {}

(* The active calls of joint form a path of the control flow graph inside  *)
(* the reachable blocks, without repetition: the recursion is at most as   *)
(* deep as the function has blocks.                                        *)
CallsFormPath ==
  /\ \A j, k \in 1..Len(hists) :
       hists[j].block = hists[k].block => j = k
  /\ \A k \in 1..Len(hists) : hists[k].block \in reach
  /\ \A k \in 2..Len(hists) :
       hists[k].block = SuccOf(prog, hists[k - 1].block)[hists[k - 1].side]

(* The blocks of the slice that control can meet first from b on. *)
Passing(b) == b \in reach \ suits

NextSuits(b) ==
  suits \cap Closure({b}, [c \in Blocks |->
                            IF Passing(c) THEN Successors(prog, c) ELSE {}])

(* What joint answers for a block is a block of the slice that control     *)
(* does meet first from there.                                             *)
AnswerIsReal ==
  pc = "done" =>
    \A b \in reach : dedup[b] \in Blocks => dedup[b] \in NextSuits(b)

(* A branch of the slice whose sides meet different slice blocks first is  *)
(* a condition of the slice: "this condition is relevant (make it a        *)
(* condition when tnxt != fnxt AND tnxt/fnxt != null)" (Slice.cpp:394).    *)
DecidingBranchesKept ==
  pc = "done" =>
    \A b \in suits : Arity(b) = 2 =>
      LET t == NextSuits(SuccOf(prog, b)[1])
          f == NextSuits(SuccOf(prog, b)[2])
      IN  t # {} /\ f # {} /\ t # f => TermOf(prog, b) \in backs

(* Outside the slice control has no choice: from a block that is skipped   *)
(* it can meet only one block of the slice.                                *)
OneWayOut ==
  pc = "done" =>
    \A b \in reach : dedup[b] # Unseen =>
      \A c, d \in NextSuits(b) : c = d

(* Every new round of the loop has a reason: a branch not in the slice.    *)
EachRoundAddsABranch ==
  [][pc = "return" /\ pc' = "btrace" =>
       /\ todo' # {}
       /\ \A v \in todo' : v \notin backs /\ v = TermOf(prog, HostOf(prog, v))]_vars

==============================================================================
