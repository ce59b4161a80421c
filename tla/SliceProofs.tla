----------------------------- MODULE SliceProofs -----------------------------
(***************************************************************************)
(* Proofs about Slice and SliceLinks, for every set of programs that       *)
(* fulfils the assumptions: any control flow graphs and any data flow.     *)
(* First the typing, the stack of the active calls of joint, the data flow *)
(* (the slice is closed and stays inside the blocks that reach the fetch), *)
(* and what the walk puts into the slice; then that no assertion of the    *)
(* constructor fails, that the walk answers for a block what control meets *)
(* next, that the links are the control flow of the function with the      *)
(* other blocks left out, and last what becomes of loops: when the answers *)
(* of the walk are all that can be met, and that leaving out blocks gives  *)
(* no loop a second entry.                                                 *)
(***************************************************************************)
EXTENDS SliceLinks, Integers, SequenceTheorems, FiniteSetTheorems, TLAPS

(* Reachability: it contains the nodes it starts from, it is closed, and   *)
(* it is the least such set.  The other proofs use only these facts.       *)

(* The start nodes are reachable. *)
LEMMA ClosureExtends ==
  ASSUME NEW graph, NEW S \in SUBSET DOMAIN graph
  PROVE  S \subseteq Closure(S, graph)
BY DEF Closure

(* The neighbours of a reachable node are reachable. *)
LEMMA ClosureIsClosed ==
  ASSUME NEW graph, NEW S,
         \A v \in DOMAIN graph : graph[v] \subseteq DOMAIN graph
  PROVE  Closed(Closure(S, graph), graph)
<1> SUFFICES ASSUME NEW v \in Closure(S, graph), NEW w \in graph[v]
             PROVE  w \in Closure(S, graph)
  BY DEF Closed
<1>1. v \in DOMAIN graph /\ w \in DOMAIN graph
  BY DEF Closure
<1>2. ASSUME NEW T \in SUBSET DOMAIN graph, S \subseteq T, Closed(T, graph)
      PROVE  w \in T
  <2>1. v \in T
    BY <1>2 DEF Closure
  <2>. QED
    BY <1>2, <2>1 DEF Closed
<1>. QED
  BY <1>1, <1>2 DEF Closure

(* Every closed set that contains the start nodes contains all reachable   *)
(* ones.                                                                   *)
LEMMA ClosureLeast ==
  ASSUME NEW graph, NEW S, NEW T \in SUBSET DOMAIN graph,
         S \subseteq T, Closed(T, graph)
  PROVE  Closure(S, graph) \subseteq T
BY DEF Closure

------------------------------------------------------------------------------

(* Every nonempty set of natural numbers has a least element. *)
LEMMA LeastExists ==
  ASSUME NEW S \in SUBSET Nat, S # {}
  PROVE  \E m \in S : \A k \in S : m <= k
<1>. DEFINE R == StrictSubsetOrdering(Nat)
            T == {0..k : k \in S}
<1>1. IsWellFoundedOn(R, FiniteSubsetsOf(Nat))
  BY FS_StrictSubsetOrderingWellFounded
<1>2. T \subseteq FiniteSubsetsOf(Nat) /\ T # {}
  <2>1. ASSUME NEW k \in S
        PROVE  0..k \in FiniteSubsetsOf(Nat)
    <3>1. IsFiniteSet(0..k)
      BY FS_Interval
    <3>. QED
      BY <3>1 DEF FiniteSubsetsOf
  <2>. QED
    BY <2>1
<1>3. PICK x \in T : \A y \in T : ~ (<<y, x>> \in R)
  <2>. HIDE DEF R, T
  <2>. QED
    BY <1>1, <1>2, WFMin
<1>4. PICK m \in S : x = 0..m
  OBVIOUS
<1>5. ASSUME NEW k \in S, k < m
      PROVE  FALSE
  <2>1. 0..k \in SUBSET Nat /\ 0..m \in SUBSET Nat
    OBVIOUS
  <2>2. 0..k \subseteq 0..m /\ m \in 0..m /\ m \notin 0..k
    BY <1>5
  <2>3. <<0..k, 0..m>> \in R
    BY <2>1, <2>2 DEF StrictSubsetOrdering
  <2>. QED
    BY <1>3, <1>4, <2>3
<1>. QED
  BY <1>5

(* What the assumption about programs says of the program at hand. *)
LEMMA ProgramFacts ==
  ASSUME prog \in Programs
  PROVE  /\ \A b \in Blocks : /\ SuccOf(prog, b) \in Seq(Blocks)
                              /\ Arity(b) \in 0..2
                              /\ \A k \in 1..Arity(b) :
                                   SuccOf(prog, b)[k] \in Successors(prog, b)
                              /\ Successors(prog, b) \subseteq Blocks
                              /\ TermOf(prog, b) \in Values
                              /\ HostOf(prog, TermOf(prog, b)) = b
         /\ \A v \in Values : /\ HostOf(prog, v) \in Blocks \cup {Null}
                              /\ OpsOf(prog, v) \subseteq Values
                              /\ UsersOf(prog, v) \subseteq Values
         /\ RootsOf(prog) \subseteq Values
         /\ FetchOf(prog) \in Values
         /\ FetchBlock \in Blocks
<1>1. ProgramType(prog) /\ WellFormed(prog)
  BY ProgramAssumption
<1>2. ASSUME NEW b \in Blocks
      PROVE  /\ SuccOf(prog, b) \in Seq(Blocks)
             /\ Arity(b) \in 0..2
             /\ \A k \in 1..Arity(b) :
                  SuccOf(prog, b)[k] \in Successors(prog, b)
             /\ Successors(prog, b) \subseteq Blocks
  <2>1. SuccOf(prog, b) \in Seq(Blocks) /\ Len(SuccOf(prog, b)) <= 2
    BY <1>1 DEF ProgramType, WellFormed
  <2>2. Len(SuccOf(prog, b)) \in Nat
    BY <2>1, LenProperties
  <2>3. \A k \in 1..Len(SuccOf(prog, b)) : SuccOf(prog, b)[k] \in Blocks
    BY <2>1, ElementOfSeq
  <2>4. Successors(prog, b) \subseteq Blocks
    BY <2>3 DEF Successors
  <2>5. Arity(b) \in 0..2
    <3>1. Arity(b) \in Nat /\ Arity(b) <= 2
      BY <2>1, <2>2 DEF Arity
    <3>. QED
      BY <3>1
  <2>6. \A k \in 1..Arity(b) : SuccOf(prog, b)[k] \in Successors(prog, b)
    BY DEF Arity, Successors
  <2>. QED
    BY <2>1, <2>4, <2>5, <2>6
<1>. QED
  BY <1>1, <1>2 DEF ProgramType, WellFormed, FetchBlock

(* The answer on a loop is null or that of an active call, the first one   *)
(* from the call for cur on that has an answer.                            *)
LEMMA NearestIsKnown ==
  ASSUME hists \in Seq(Frames), cur \in Active
  PROVE  \/ Nearest = Null
         \/ \E k \in 1..Len(hists) :
              /\ Nearest = dedup[hists[k].block]
              /\ Nearest # Unseen
              /\ \E i \in 1..k :
                   /\ hists[i].block = cur
                   /\ \A j \in i..(k - 1) : dedup[hists[j].block] = Unseen
<1>. DEFINE here  == {k \in 1..Len(hists) : hists[k].block = cur}
            first == CHOOSE k \in 1..Len(hists) :
                       /\ hists[k].block = cur
                       /\ \A j \in 1..(k - 1) : hists[j].block # cur
            known == {k \in first..Len(hists) : dedup[hists[k].block] # Unseen}
<1>1. Len(hists) \in Nat
  BY LenProperties
<1>2. first \in 1..Len(hists) /\ hists[first].block = cur
  <2>1. here \in SUBSET Nat /\ here # {}
    BY <1>1 DEF Active
  <2>2. PICK m \in here : \A k \in here : m <= k
    BY <2>1, LeastExists
  <2>3. \A j \in 1..(m - 1) : hists[j].block # cur
    BY <1>1, <2>2
  <2>. QED
    BY <2>2, <2>3
<1>3. CASE known = {}
  BY <1>3 DEF Nearest
<1>4. CASE known # {}
  <2>. DEFINE least == CHOOSE k \in known : \A j \in known : k <= j
  <2>1. known \in SUBSET Nat
    <3>1. \A k \in first..Len(hists) : k \in Nat
      <4>. HIDE DEF first
      <4>. QED
        BY <1>1, <1>2
    <3>. QED
      BY <3>1
  <2>2. least \in known /\ \A j \in known : least <= j
    <3>. HIDE DEF known
    <3>. QED
      BY <1>4, <2>1, LeastExists
  <2>3. Nearest = dedup[hists[least].block]
    BY <1>4 DEF Nearest
  <2>4. least \in first..Len(hists) /\ dedup[hists[least].block] # Unseen
    BY <2>2
  <2>5. least \in 1..Len(hists) /\ first \in 1..least
    <3>. HIDE DEF first, least
    <3>. QED
      BY <1>1, <1>2, <2>4
  <2>6. ASSUME NEW j \in first..(least - 1)
        PROVE  dedup[hists[j].block] = Unseen
    <3>1. j \in first..Len(hists) /\ ~ (least <= j)
      <4>. HIDE DEF first, least
      <4>. QED
        BY <1>1, <1>2, <2>5
    <3>. QED
      BY <2>2, <3>1
  <2>7. first \in 1..least /\ \A j \in first..(least - 1) : dedup[hists[j].block] = Unseen
    BY <2>5, <2>6
  <2>. HIDE DEF first, least
  <2>. QED
    BY <1>2, <2>3, <2>4, <2>5, <2>7
<1>. QED
  BY <1>3, <1>4

------------------------------------------------------------------------------

(* Every step of the slicing loop keeps the types. *)
LEMMA TypeStep == TypeOK /\ [Next]_vars => TypeOK'
<1> SUFFICES ASSUME TypeOK, [Next]_vars
             PROVE  TypeOK'
  OBVIOUS
<1>. USE DEF TypeOK
<1>0. Len(hists) \in Nat
  BY LenProperties
<1>1. ASSUME NEW v \in todo, Btrace(v)
      PROVE  TypeOK'
  BY <1>1, ProgramFacts DEF Btrace
<1>2. ASSUME NEW v \in todo, Follow(v)
      PROVE  TypeOK'
  <2>1. Followed(v) \subseteq Values
    BY ProgramFacts DEF Followed
  <2>. QED
    BY <1>2, <2>1 DEF Follow
<1>3. CASE BtraceDone \/ UnknownValue
  BY <1>3 DEF BtraceDone, UnknownValue
<1>4. CASE FollowDone
  <2>1. <<>> \in Seq(Frames) /\ EntryBlock \in Blocks
    BY EntryAssumption
  <2>2. [b \in Blocks |-> Unseen] \in [Blocks -> Blocks \cup {Null, Unseen}]
    OBVIOUS
  <2>. QED
    BY <1>4, <2>1, <2>2 DEF FollowDone
<1>5. CASE JointKnown
  BY <1>5 DEF JointKnown, Return
<1>6. CASE JointLoop
  <2>1. Nearest \in Blocks \cup {Null}
    <3>1. ASSUME NEW k \in 1..Len(hists)
          PROVE  dedup[hists[k].block] \in Blocks \cup {Null, Unseen}
      <4>1. hists[k] \in Frames
        BY <1>0, ElementOfSeq
      <4>. QED
        BY <4>1 DEF Frames
    <3>. QED
      BY <1>6, <3>1, NearestIsKnown DEF JointLoop
  <2>. QED
    BY <1>6, <2>1 DEF JointLoop, Return
<1>7. CASE JointEnter
  <2>0. cur \in Blocks /\ Arity(cur) \in 0..2 /\ Arity(cur) > 0
    BY <1>7, ProgramFacts DEF JointEnter, NewBlock
  <2>1. cur \in Blocks /\ SuccOf(prog, cur)[1] \in Blocks
    BY <2>0, ProgramFacts
  <2>2. [block |-> cur, side |-> 1, tnxt |-> Null] \in Frames
    BY <2>1 DEF Frames
  <2>3. hists' \in Seq(Frames)
    BY <1>7, <2>2, AppendProperties DEF JointEnter
  <2>. QED
    BY <1>7, <2>1, <2>3 DEF JointEnter, MarkIfSliced
<1>8. CASE JointLeaf
  BY <1>8 DEF JointLeaf, NewBlock, MarkIfSliced, Return
<1>9. ASSUME hists # <<>>
      PROVE  Top \in Frames /\ Rest \in Seq(Frames)
  <2>1. Len(hists) \in 1..Len(hists)
    BY <1>0, <1>9, EmptySeq
  <2>2. Top \in Frames
    BY <2>1, ElementOfSeq DEF Top
  <2>3. Rest \in Seq(Frames)
    BY <1>0, <2>1, SubSeqProperties DEF Rest
  <2>. QED
    BY <2>2, <2>3
<1>10. CASE JointTrueSide
  <2>1. /\ Top.block \in Blocks
        /\ SuccOf(prog, Top.block)[2] \in Blocks
    BY <1>9, <1>10, ProgramFacts DEF JointTrueSide, Frames
  <2>2. [block |-> Top.block, side |-> 2, tnxt |-> cur] \in Frames
    BY <2>1 DEF Frames
  <2>3. hists' \in Seq(Frames)
    BY <1>0, <1>10, <2>2, ExceptSeq DEF JointTrueSide
  <2>. QED
    BY <1>10, <2>1, <2>3 DEF JointTrueSide
<1>11. CASE JointFinish
  <2>1. Top.block \in Blocks /\ Top.tnxt \in Blocks \cup {Null}
    BY <1>9, <1>11 DEF JointFinish, Frames
  <2>. DEFINE tnxt == IF Arity(Top.block) = 2 THEN Top.tnxt ELSE cur
  <2>2. Answer(Top.block, tnxt, cur) \in Blocks \cup {Null}
    BY <2>1 DEF Answer
  <2>3. NewTaint(Top.block) \subseteq Values
    BY <2>1, ProgramFacts DEF NewTaint
  <2>4. cur' = Answer(Top.block, tnxt, cur)
    BY <1>11 DEF JointFinish, Return
  <2>5. dedup' \in [Blocks -> Blocks \cup {Null, Unseen}]
    BY <1>11, <2>1, <2>2 DEF JointFinish
  <2>6. taints' \subseteq Values /\ suits' \subseteq Blocks
    BY <1>11, <2>1, <2>3 DEF JointFinish
  <2>. QED
    BY <1>9, <1>11, <2>2, <2>4, <2>5, <2>6 DEF JointFinish, Return
<1>12. CASE JointReturned
  BY <1>12 DEF JointReturned
<1>13. CASE Stopped \/ UNCHANGED vars
  BY <1>13 DEF Stopped, vars
<1>. QED
  BY <1>1, <1>2, <1>3, <1>4, <1>5, <1>6, <1>7, <1>8, <1>10, <1>11, <1>12, <1>13
  DEF Next, Step, Trace, Joint

(* The types hold when the constructor starts. *)
LEMMA TypeInit == Init => TypeOK
<1> SUFFICES ASSUME Init
             PROVE  TypeOK
  OBVIOUS
<1>1. prog \in Programs
  BY DEF Init
<1>2. reach \subseteq Blocks
  BY DEF Init, ReachBlocks, Closure, PredGraph
<1>3. taints \subseteq Values
  BY <1>1, ProgramFacts DEF Init
<1>4. hists \in Seq(Frames) /\ dedup \in [Blocks -> Blocks \cup {Null, Unseen}]
  BY DEF Init
<1>. QED
  BY <1>1, <1>2, <1>3, <1>4 DEF Init, TypeOK

(* Every variable of the slicing loop keeps its type. *)
THEOREM TypeCorrect == Spec => []TypeOK
<1>1. TypeOK /\ [Next]_vars => TypeOK'
  BY TypeStep
<1>. QED
  BY <1>1, TypeInit, PTL DEF Spec

------------------------------------------------------------------------------
(* The stack of the active calls of joint. *)

(* The innermost call, and what is left without it. *)
LEMMA StackFacts ==
  ASSUME TypeOK
  PROVE  /\ Len(hists) \in Nat
         /\ \A k \in 1..Len(hists) :
              /\ hists[k] \in Frames
              /\ hists[k].block \in Active /\ hists[k].block \in Blocks
         /\ Active \subseteq Blocks
         /\ hists = <<>> => Len(hists) = 0
         /\ hists # <<>> => /\ Len(hists) > 0
                            /\ Top \in Frames /\ Top.block \in Active
                            /\ Rest \in Seq(Frames)
                            /\ Len(Rest) = Len(hists) - 1
                            /\ \A k \in 1..(Len(hists) - 1) : Rest[k] = hists[k]
<1>. USE DEF TypeOK
<1>1. Len(hists) \in Nat
  BY LenProperties
<1>2. \A k \in 1..Len(hists) : hists[k] \in Frames
  BY ElementOfSeq
<1>3. \A k \in 1..Len(hists) :
        hists[k].block \in Active /\ hists[k].block \in Blocks
  BY <1>2 DEF Active, Frames
<1>4. Active \subseteq Blocks
  BY <1>3 DEF Active
<1>5. hists = <<>> => Len(hists) = 0
  BY EmptySeq
<1>6. ASSUME hists # <<>>
      PROVE  /\ Len(hists) > 0
             /\ Top \in Frames /\ Top.block \in Active
             /\ Rest \in Seq(Frames)
             /\ Len(Rest) = Len(hists) - 1
             /\ \A k \in 1..(Len(hists) - 1) : Rest[k] = hists[k]
  <2>1. Len(hists) > 0
    BY <1>1, <1>6, EmptySeq
  <2>2. Top \in Frames /\ Top.block \in Active
    BY <1>1, <1>2, <1>3, <2>1 DEF Top
  <2>. DEFINE n == Len(hists) - 1
  <2>3. n \in Int /\ n >= 0 /\ \A k \in 1..n : hists[k] \in Frames
    BY <1>1, <1>2, <2>1
  <2>4. /\ SubSeq(hists, 1, n) \in Seq(Frames)
        /\ Len(SubSeq(hists, 1, n)) = IF 1 <= n THEN n - 1 + 1 ELSE 0
        /\ \A k \in 1..(n - 1 + 1) : SubSeq(hists, 1, n)[k] = hists[1 + k - 1]
    <3>. HIDE DEF n
    <3>. QED
      BY <2>3, SubSeqProperties
  <2>5. Rest = SubSeq(hists, 1, n)
    BY DEF Rest
  <2>6. Len(Rest) = n
    <3>. HIDE DEF n
    <3>1. (IF 1 <= n THEN n - 1 + 1 ELSE 0) = n
      BY <2>3
    <3>. QED
      BY <2>4, <2>5, <3>1
  <2>7. \A k \in 1..n : Rest[k] = hists[k]
    <3>. HIDE DEF n
    <3>. QED
      BY <2>3, <2>4, <2>5
  <2>. QED
    BY <2>1, <2>2, <2>4, <2>5, <2>6, <2>7
<1>. QED
  BY <1>1, <1>2, <1>3, <1>4, <1>5, <1>6

(* Entering a block pushes it. *)
LEMMA PushFacts ==
  ASSUME TypeOK, JointEnter
  PROVE  /\ hists' # <<>>
         /\ Len(hists') = Len(hists) + 1
         /\ \A k \in 1..Len(hists) : hists'[k] = hists[k]
         /\ hists'[Len(hists) + 1] = [block |-> cur, side |-> 1, tnxt |-> Null]
         /\ Top' = [block |-> cur, side |-> 1, tnxt |-> Null]
         /\ Active' = Active \cup {cur}
<1>. DEFINE frame == [block |-> cur, side |-> 1, tnxt |-> Null]
<1>1. hists' = Append(hists, frame)
  BY DEF JointEnter
<1>2. frame \in Frames /\ hists \in Seq(Frames) /\ Len(hists) \in Nat
  BY StackFacts DEF TypeOK, JointEnter, NewBlock, Frames
<1>3. /\ hists' # <<>>
      /\ Len(hists') = Len(hists) + 1
      /\ \A k \in 1..Len(hists) : hists'[k] = hists[k]
      /\ hists'[Len(hists) + 1] = frame
  <2>. HIDE DEF frame
  <2>. QED
    BY <1>1, <1>2, AppendProperties
<1>4. Top' = frame
  BY <1>3 DEF Top
<1>5. Active' = Active \cup {cur}
  <2>1. ASSUME NEW k \in 1..Len(hists')
        PROVE  hists'[k].block \in Active \cup {cur}
    <3>1. k \in 1..Len(hists) \/ k = Len(hists) + 1
      BY <1>2, <1>3
    <3>. QED
      BY <1>3, <3>1 DEF Active
  <2>2. ASSUME NEW k \in 1..Len(hists)
        PROVE  hists[k].block \in Active'
    <3>1. k \in 1..Len(hists')
      BY <1>2, <1>3
    <3>. QED
      BY <1>3, <3>1 DEF Active
  <2>3. cur \in Active'
    <3>1. Len(hists) + 1 \in 1..Len(hists')
      BY <1>2, <1>3
    <3>. QED
      BY <1>3, <3>1 DEF Active
  <2>4. Active' \subseteq Active \cup {cur}
    BY <2>1 DEF Active
  <2>5. Active \subseteq Active'
    BY <2>2 DEF Active
  <2>. QED
    BY <2>3, <2>4, <2>5
<1>. QED
  BY <1>3, <1>4, <1>5

(* The walk of the true side leaves the stack as it was, but for the top. *)
LEMMA TurnFacts ==
  ASSUME TypeOK, JointTrueSide
  PROVE  /\ hists' # <<>>
         /\ Len(hists') = Len(hists)
         /\ \A k \in 1..(Len(hists) - 1) : hists'[k] = hists[k]
         /\ hists'[Len(hists)] = [block |-> Top.block, side |-> 2, tnxt |-> cur]
         /\ Top' = [block |-> Top.block, side |-> 2, tnxt |-> cur]
         /\ Active' = Active
<1>. DEFINE frame == [block |-> Top.block, side |-> 2, tnxt |-> cur]
<1>1. hists' = [hists EXCEPT ![Len(hists)] = frame]
  BY DEF JointTrueSide
<1>2. /\ frame \in Frames /\ hists \in Seq(Frames)
      /\ Len(hists) \in Nat /\ Len(hists) > 0
  BY StackFacts DEF TypeOK, JointTrueSide, Frames
<1>3. /\ hists' \in Seq(Frames)
      /\ Len(hists') = Len(hists)
      /\ \A k \in 1..Len(hists) :
           hists'[k] = IF k = Len(hists) THEN frame ELSE hists[k]
  <2>1. Len(hists) \in 1..Len(hists)
    BY <1>2
  <2>. HIDE DEF frame
  <2>. QED
    BY <1>1, <1>2, <2>1, ExceptSeq
<1>4. hists'[Len(hists)] = frame /\ Top' = frame
  <2>. HIDE DEF frame
  <2>. QED
    BY <1>2, <1>3 DEF Top
<1>5. \A k \in 1..(Len(hists) - 1) : hists'[k] = hists[k]
  <2>. HIDE DEF frame
  <2>. QED
    BY <1>2, <1>3
<1>6. hists' # <<>>
  BY <1>2, <1>3, EmptySeq
<1>7. \A k \in 1..Len(hists) : hists'[k].block = hists[k].block
  BY <1>2, <1>3 DEF Top
<1>8. Active' = Active
  BY <1>3, <1>7 DEF Active
<1>. QED
  BY <1>3, <1>4, <1>5, <1>6, <1>8

(* Finishing a block pops it. *)
LEMMA PopFacts ==
  ASSUME TypeOK, JointFinish
  PROVE  /\ Len(hists) > 0
         /\ Len(hists') = Len(hists) - 1
         /\ \A k \in 1..Len(hists') : k \in 1..Len(hists) /\ hists'[k] = hists[k]
         /\ Active' \subseteq Active
         /\ Active \subseteq Active' \cup {Top.block}
         /\ hists' # <<>> => /\ Len(hists) - 1 \in 1..Len(hists)
                             /\ Top' = hists[Len(hists) - 1]
<1>1. hists # <<>> /\ hists' = Rest
  BY DEF JointFinish
<1>2. /\ Len(hists) \in Nat /\ Len(hists) > 0
      /\ hists' \in Seq(Frames)
      /\ Len(hists') = Len(hists) - 1
      /\ \A k \in 1..(Len(hists) - 1) : hists'[k] = hists[k]
  BY <1>1, StackFacts
<1>3. \A k \in 1..Len(hists') : k \in 1..Len(hists) /\ hists'[k] = hists[k]
  BY <1>2
<1>4. Active' \subseteq Active
  BY <1>3 DEF Active
<1>5. ASSUME NEW k \in 1..Len(hists)
      PROVE  hists[k].block \in Active' \cup {Top.block}
  <2>1. k \in 1..Len(hists') \/ k = Len(hists)
    BY <1>2
  <2>. QED
    BY <1>3, <2>1 DEF Active, Top
<1>6. Active \subseteq Active' \cup {Top.block}
  BY <1>5 DEF Active
<1>7. hists' # <<>> => /\ Len(hists) - 1 \in 1..Len(hists)
                      /\ Top' = hists[Len(hists) - 1]
  <2> SUFFICES ASSUME hists' # <<>>
               PROVE  /\ Len(hists) - 1 \in 1..Len(hists)
                      /\ Top' = hists[Len(hists) - 1]
    OBVIOUS
  <2>1. Len(hists') > 0
    BY <1>2, EmptySeq
  <2>2. Len(hists') \in 1..Len(hists')
    BY <1>2, <2>1
  <2>. QED
    BY <1>2, <1>3, <2>2 DEF Top
<1>. QED
  BY <1>2, <1>3, <1>4, <1>6, <1>7

(* The active calls form a path; while joint is being called, its argument *)
(* continues the path.  A frame has no answer of its true side before the  *)
(* false side is walked.                                                   *)
FrameOK(k) ==
  /\ hists[k].block \in reach
  /\ hists[k].side <= Arity(hists[k].block)
  /\ hists[k].side = 1 => hists[k].tnxt = Null

Linked(k) ==
  hists[k].block = SuccOf(prog, hists[k - 1].block)[hists[k - 1].side]

StackInv ==
  /\ \A k \in 1..Len(hists) : FrameOK(k)
  /\ \A j, k \in 1..Len(hists) : hists[j].block = hists[k].block => j = k
  /\ \A k \in 2..Len(hists) : Linked(k)
  /\ pc = "call" /\ hists # <<>> => cur = SuccOf(prog, Top.block)[Top.side]
  /\ pc \in {"btrace", "follow"} => hists = <<>>

(* The walk keeps its path. *)
LEMMA StackStep == TypeOK /\ StackInv /\ [Next]_vars => StackInv'
<1> SUFFICES ASSUME TypeOK, StackInv, [Next]_vars
             PROVE  StackInv'
  OBVIOUS
<1>0. Len(hists) \in Nat /\ prog \in Programs
  BY StackFacts DEF TypeOK
<1>1. ASSUME UNCHANGED <<prog, reach, hists>>,
             pc' = "call" => hists = <<>>,
             pc' \in {"btrace", "follow"} => hists = <<>>
      PROVE  StackInv'
  BY <1>1 DEF StackInv, FrameOK, Linked, Arity
<1>2. ASSUME NEW v \in todo, Btrace(v) \/ Follow(v)
      PROVE  StackInv'
  BY <1>1, <1>2 DEF Btrace, Follow, StackInv
<1>3. CASE BtraceDone \/ UnknownValue
  BY <1>1, <1>3 DEF BtraceDone, UnknownValue, StackInv
<1>4. CASE FollowDone
  <2>1. hists = <<>> /\ hists' = <<>> /\ UNCHANGED <<prog, reach>>
    BY <1>4 DEF FollowDone, StackInv
  <2>. QED
    BY <1>1, <2>1
<1>5. CASE JointKnown \/ JointLoop \/ JointLeaf
  <2>1. UNCHANGED <<prog, reach, hists>> /\ pc' \in {"return", "abort"}
    BY <1>5 DEF JointKnown, JointLoop, JointLeaf, Return
  <2>. QED
    BY <1>1, <2>1
<1>6. CASE JointEnter
  <2>. DEFINE n == Len(hists)
  <2>0. /\ UNCHANGED <<prog, reach, pc>> /\ pc = "call"
        /\ cur \in reach /\ cur \in Blocks /\ cur \notin Active
        /\ Arity(cur) > 0
        /\ cur' = SuccOf(prog, cur)[1]
    BY <1>6 DEF JointEnter, NewBlock, TypeOK
  <2>1. /\ UNCHANGED <<prog, reach, pc>> /\ pc = "call"
        /\ cur \in reach /\ cur \in Blocks /\ cur \notin Active
        /\ Arity(cur) > 0 /\ Arity(cur) \in Nat
        /\ cur' = SuccOf(prog, cur)[1]
    <3>1. Arity(cur) \in 0..2
      BY <1>0, <2>0, ProgramFacts
    <3>. QED
      BY <2>0, <3>1
  <2>2. /\ hists' # <<>> /\ Len(hists') = n + 1
        /\ \A k \in 1..n : hists'[k] = hists[k]
        /\ hists'[n + 1] = [block |-> cur, side |-> 1, tnxt |-> Null]
        /\ Top' = [block |-> cur, side |-> 1, tnxt |-> Null]
    BY <1>6, PushFacts
  <2>3. \A k \in 1..Len(hists') : k \in 1..n \/ k = n + 1
    BY <1>0, <2>2
  <2>4. ASSUME NEW k, k = n + 1
        PROVE  FrameOK(k)'
    <3>1. 1 <= Arity(cur)
      BY <2>1
    <3>2. 1 <= Len(SuccOf(prog', cur))
      BY <2>1, <3>1 DEF Arity
    <3>3. hists'[k] = [block |-> cur, side |-> 1, tnxt |-> Null]
      BY <2>2, <2>4
    <3>. QED
      BY <2>1, <3>2, <3>3 DEF FrameOK, Arity
  <2>5. ASSUME NEW k \in 1..n
        PROVE  FrameOK(k)' /\ hists'[k].block # cur
    BY <2>1, <2>2 DEF StackInv, FrameOK, Arity, Active
  <2>6. \A j, k \in 1..Len(hists') : hists'[j].block = hists'[k].block => j = k
    <3>. SUFFICES ASSUME NEW j \in 1..Len(hists'), NEW k \in 1..Len(hists'),
                         hists'[j].block = hists'[k].block
                  PROVE  j = k
      OBVIOUS
    <3>1. CASE j \in 1..n /\ k \in 1..n
      BY <2>2, <3>1 DEF StackInv
    <3>2. CASE j \in 1..n /\ k = n + 1
      BY <2>2, <2>5, <3>2
    <3>3. CASE j = n + 1 /\ k \in 1..n
      BY <2>2, <2>5, <3>3
    <3>. QED
      BY <2>3, <3>1, <3>2, <3>3
  <2>7. ASSUME NEW k \in 2..Len(hists')
        PROVE  Linked(k)'
    <3>1. k - 1 \in 1..n /\ (k \in 2..n \/ k = n + 1)
      BY <1>0, <2>2
    <3>2. CASE k \in 2..n
      <4>1. k \in 1..n
        BY <3>2
      <4>. QED
        BY <2>1, <2>2, <3>1, <3>2, <4>1 DEF StackInv, Linked
    <3>3. CASE k = n + 1
      <4>1. hists # <<>>
        BY <3>1, <3>3, <1>0, EmptySeq
      <4>2. cur = SuccOf(prog, hists[n].block)[hists[n].side]
        BY <2>1, <4>1 DEF StackInv, Top
      <4>3. k - 1 = n /\ n \in 1..n
        BY <1>0, <3>1, <3>3
      <4>. QED
        BY <2>1, <2>2, <3>3, <4>2, <4>3 DEF Linked
    <3>. QED
      BY <3>1, <3>2, <3>3
  <2>8. cur' = SuccOf(prog', Top'.block)[Top'.side]
    BY <2>1, <2>2
  <2>9. \A k \in 1..Len(hists') : FrameOK(k)'
    BY <2>3, <2>4, <2>5
  <2>. QED
    BY <2>1, <2>6, <2>7, <2>8, <2>9 DEF StackInv
<1>7. CASE JointTrueSide
  <2>. DEFINE n == Len(hists)
  <2>1. /\ UNCHANGED <<prog, reach>> /\ pc' = "call"
        /\ Top.side = 1 /\ Arity(Top.block) = 2
        /\ cur' = SuccOf(prog, Top.block)[2]
        /\ hists # <<>>
    BY <1>7 DEF JointTrueSide
  <2>2. /\ hists' # <<>> /\ Len(hists') = n
        /\ \A k \in 1..(n - 1) : hists'[k] = hists[k]
        /\ hists'[n] = [block |-> Top.block, side |-> 2, tnxt |-> cur]
        /\ Top' = [block |-> Top.block, side |-> 2, tnxt |-> cur]
    BY <1>7, TurnFacts
  <2>3. \A k \in 1..n : k \in 1..(n - 1) \/ k = n
    BY <1>0
  <2>4. n \in 1..n /\ Top = hists[n]
    BY <1>0, <2>1, StackFacts DEF Top
  <2>5. \A k \in 1..n : hists'[k].block = hists[k].block
    BY <2>2, <2>3, <2>4
  <2>6. ASSUME NEW k \in 1..n
        PROVE  FrameOK(k)'
    <3>1. CASE k \in 1..(n - 1)
      BY <2>1, <2>2, <3>1 DEF StackInv, FrameOK, Arity
    <3>2. CASE k = n
      BY <2>1, <2>2, <2>4, <3>2 DEF StackInv, FrameOK, Arity
    <3>. QED
      BY <2>3, <3>1, <3>2
  <2>7. ASSUME NEW k \in 2..n
        PROVE  Linked(k)'
    <3>1. k - 1 \in 1..(n - 1) /\ k \in 1..n
      BY <1>0
    <3>. QED
      BY <2>1, <2>2, <2>5, <3>1 DEF StackInv, Linked
  <2>. QED
    BY <2>1, <2>2, <2>5, <2>6, <2>7 DEF StackInv
<1>8. CASE JointFinish
  <2>1. /\ UNCHANGED <<prog, reach>> /\ pc' = "return"
    BY <1>8 DEF JointFinish, Return
  <2>2. /\ Len(hists') = Len(hists) - 1
        /\ \A k \in 1..Len(hists') : k \in 1..Len(hists) /\ hists'[k] = hists[k]
    BY <1>8, PopFacts
  <2>3. \A k \in 1..Len(hists') : FrameOK(k)'
    BY <2>1, <2>2 DEF StackInv, FrameOK, Arity
  <2>4. ASSUME NEW k \in 2..Len(hists')
        PROVE  Linked(k)'
    <3>1. /\ k - 1 \in 1..Len(hists') /\ k \in 1..Len(hists')
          /\ k \in 2..Len(hists)
      BY <1>0, <2>2
    <3>. QED
      BY <2>1, <2>2, <3>1 DEF StackInv, Linked
  <2>. QED
    BY <2>1, <2>2, <2>3, <2>4 DEF StackInv
<1>9. CASE JointReturned
  BY <1>1, <1>9 DEF JointReturned
<1>10. CASE Stopped \/ UNCHANGED vars
  <2>1. UNCHANGED vars
    BY <1>10 DEF Stopped
  <2>. QED
    BY <2>1 DEF StackInv, FrameOK, Linked, Arity, Top, vars
<1>. QED
  BY <1>2, <1>3, <1>4, <1>5, <1>6, <1>7, <1>8, <1>9, <1>10
  DEF Next, Step, Trace, Joint

(* The path holds from the start. *)
LEMMA StackInit == Init => StackInv
<1> SUFFICES ASSUME Init
             PROVE  StackInv
  OBVIOUS
<1>1. hists = <<>> /\ Len(hists) = 0 /\ pc = "btrace"
  BY DEF Init
<1>2. 1..Len(hists) = {} /\ 2..Len(hists) = {}
  BY <1>1
<1>. QED
  BY <1>1, <1>2 DEF StackInv

LEMMA StackInvariant == Spec => [](TypeOK /\ StackInv)
<1>1. TypeOK /\ StackInv /\ [Next]_vars => StackInv'
  BY StackStep
<1>. QED
  BY <1>1, StackInit, TypeCorrect, PTL DEF Spec

(* The active calls of joint form a path of the control flow graph without *)
(* repetition, inside the blocks that reach the fetch: the recursion of    *)
(* the walk is never deeper than the function has blocks.                  *)
THEOREM PathCorrect == Spec => []CallsFormPath
<1>1. StackInv => CallsFormPath
  BY DEF StackInv, CallsFormPath, FrameOK, Linked
<1>. QED
  BY <1>1, StackInvariant, PTL

------------------------------------------------------------------------------
(* The data flow. *)

(* What the slice will hold once the calls of btrace are made, if none of  *)
(* them gives up.                                                          *)
Pending == IF pc \in {"btrace", "unknown"} THEN todo ELSE {}

(* The users of a root that follow takes up. *)
InScope(v) == {u \in UsersOf(prog, v) : HostOf(prog, u) \in reach \cup {Null}}

DataInv ==
  /\ reach = ReachBlocks(prog)
  /\ roots \subseteq backs
  /\ FetchOf(prog) \in backs \cup Pending
  /\ \A v \in backs \ RootsOf(prog) : OpsOf(prog, v) \subseteq backs \cup Pending
  /\ pc = "follow" =>
       \A v \in roots \ todo : InScope(v) \subseteq backs \cup taints
  /\ pc \in {"call", "return", "done"} =>
       \A v \in roots : InScope(v) \subseteq backs
  /\ SliceInReach

(* The blocks that reach the fetch: its own block, and whatever leads to   *)
(* one of them.                                                            *)
LEMMA ReachFacts ==
  ASSUME prog \in Programs, reach = ReachBlocks(prog)
  PROVE  /\ reach \subseteq Blocks
         /\ FetchBlock \in reach
         /\ Closed(reach, PredGraph(prog))
         /\ \A b \in reach : Closure({b}, PredGraph(prog)) \subseteq reach
<1>. DEFINE pred == PredGraph(prog)
<1>1. DOMAIN pred = Blocks /\ \A b \in Blocks : pred[b] \subseteq Blocks
  BY DEF PredGraph
<1>2. reach = Closure({FetchBlock}, pred) /\ {FetchBlock} \in SUBSET DOMAIN pred
  BY <1>1, ProgramFacts DEF ReachBlocks, FetchBlock
<1>3. reach \subseteq Blocks
  BY <1>1, <1>2 DEF Closure
<1>4. FetchBlock \in reach
  BY <1>2, ClosureExtends
<1>5. Closed(reach, pred)
  BY <1>1, <1>2, ClosureIsClosed
<1>6. ASSUME NEW b \in reach
      PROVE  Closure({b}, pred) \subseteq reach
  <2>1. reach \in SUBSET DOMAIN pred /\ {b} \subseteq reach
    BY <1>1, <1>3
  <2>. HIDE DEF pred
  <2>. QED
    BY <1>5, <2>1, ClosureLeast
<1>. QED
  BY <1>3, <1>4, <1>5, <1>6

(* An operand that is an instruction sits in a block that reaches its      *)
(* user, so it stays among the blocks that reach the fetch.                *)
LEMMA OperandInReach ==
  ASSUME prog \in Programs, reach = ReachBlocks(prog),
         NEW v \in Values, HostOf(prog, v) \in reach \cup {Null},
         NEW o \in OpsOf(prog, v)
  PROVE  HostOf(prog, o) \in reach \cup {Null}
<1>1. CASE HostOf(prog, o) # Null
  <2>1. /\ HostOf(prog, v) # Null
        /\ HostOf(prog, o) \in Closure({HostOf(prog, v)}, PredGraph(prog))
    BY <1>1, ProgramAssumption DEF WellFormed
  <2>. QED
    BY <2>1, ReachFacts
<1>. QED
  BY <1>1

(* Every step keeps the slice closed, up to the calls still to be made.    *)
LEMMA DataStep ==
  TypeOK /\ StackInv /\ DataInv /\ [Next]_vars => DataInv'
<1> SUFFICES ASSUME TypeOK, StackInv, DataInv, [Next]_vars
             PROVE  DataInv'
  OBVIOUS
<1>0. prog \in Programs /\ reach = ReachBlocks(prog)
  BY DEF TypeOK, DataInv
<1>1. ASSUME NEW v \in todo, Btrace(v)
      PROVE  DataInv'
  <2>1. /\ UNCHANGED <<prog, reach, pc, taints>> /\ pc = "btrace"
        /\ backs' = backs \cup {v}
        /\ roots' \subseteq roots \cup {v}
        /\ todo' \subseteq todo \cup OpsOf(prog, v)
        /\ todo \subseteq todo' \cup backs'
        /\ v \notin RootsOf(prog) => OpsOf(prog, v) \subseteq todo' \cup backs'
    BY <1>1 DEF Btrace
  <2>2. Pending = todo /\ Pending' = todo'
    BY <2>1 DEF Pending
  <2>3. roots' \subseteq backs'
    BY <2>1 DEF DataInv
  <2>4. FetchOf(prog) \in backs' \cup todo'
    BY <2>1, <2>2 DEF DataInv
  <2>5. \A u \in backs' \ RootsOf(prog) : OpsOf(prog, u) \subseteq backs' \cup todo'
    BY <2>1, <2>2 DEF DataInv
  <2>6. ASSUME NEW u \in backs' \cup todo' \cup taints
        PROVE  HostOf(prog, u) \in reach \cup {Null}
    <3>1. \A w \in backs \cup todo \cup taints :
            HostOf(prog, w) \in reach \cup {Null}
      BY DEF DataInv, SliceInReach
    <3>2. v \in Values /\ HostOf(prog, v) \in reach \cup {Null}
      BY <3>1 DEF TypeOK
    <3>3. CASE u \in OpsOf(prog, v)
      BY <1>0, <3>2, <3>3, OperandInReach
    <3>. QED
      BY <2>1, <3>1, <3>3
  <2>. QED
    BY <1>0, <2>1, <2>2, <2>3, <2>4, <2>5, <2>6 DEF DataInv, SliceInReach
<1>2. ASSUME NEW v \in todo, Follow(v)
      PROVE  DataInv'
  <2>1. /\ UNCHANGED <<prog, reach, pc, backs, roots>> /\ pc = "follow"
        /\ taints' = taints \cup Followed(v)
        /\ todo' = (todo \ {v}) \cup Followed(v)
    BY <1>2 DEF Follow
  <2>2. /\ Followed(v) = InScope(v) \ (backs \cup taints)
        /\ \A u \in Followed(v) : HostOf(prog, u) \in reach \cup {Null}
    BY DEF Followed, InScope
  <2>3. ASSUME NEW r \in roots \ todo'
        PROVE  InScope(r) \subseteq backs \cup taints'
    BY <2>1, <2>2 DEF DataInv
  <2>4. Pending = {} /\ Pending' = {}
    BY <2>1 DEF Pending
  <2>5. \A r : InScope(r)' = InScope(r)
    BY <2>1 DEF InScope
  <2>6. SliceInReach'
    BY <2>1, <2>2 DEF DataInv, SliceInReach
  <2>. QED
    BY <2>1, <2>3, <2>4, <2>5, <2>6 DEF DataInv
<1>3. CASE BtraceDone
  <2>1. /\ UNCHANGED <<prog, reach, backs, roots>>
        /\ pc = "btrace" /\ todo = {}
        /\ pc' = "follow" /\ todo' = roots /\ taints' = {}
    BY <1>3 DEF BtraceDone
  <2>2. Pending = {} /\ Pending' = {}
    BY <2>1 DEF Pending
  <2>3. SliceInReach'
    BY <2>1 DEF DataInv, SliceInReach
  <2>. QED
    BY <2>1, <2>2, <2>3 DEF DataInv
<1>4. CASE FollowDone
  <2>1. /\ UNCHANGED <<prog, reach, backs, roots, taints>>
        /\ pc = "follow" /\ todo = {}
        /\ taints # {} => pc' = "btrace"
        /\ taints = {} => pc' = "call"
        /\ todo' = taints
    BY <1>4 DEF FollowDone
  <2>2. Pending = {} /\ Pending' \subseteq taints
    BY <2>1 DEF Pending
  <2>3. SliceInReach'
    BY <2>1 DEF DataInv, SliceInReach
  <2>4. \A r : InScope(r)' = InScope(r)
    BY <2>1 DEF InScope
  <2>5. \A r \in roots : InScope(r) \subseteq backs \cup taints
    BY <2>1 DEF DataInv
  <2>6. FetchOf(prog) \in backs'
    BY <2>1, <2>2 DEF DataInv
  <2>7. \A v \in backs' \ RootsOf(prog) : OpsOf(prog, v) \subseteq backs'
    BY <2>1, <2>2 DEF DataInv
  <2>. QED
    BY <2>1, <2>3, <2>4, <2>5, <2>6, <2>7 DEF DataInv
<1>5. ASSUME UNCHANGED <<prog, reach, backs, roots>>,
             pc \in {"call", "return"},
             pc' \in {"call", "return", "done", "abort", "btrace"},
             SliceInReach'
      PROVE  DataInv'
  <2>1. Pending = {}
    BY <1>5 DEF Pending
  <2>2. \A r : InScope(r)' = InScope(r)
    BY <1>5 DEF InScope
  <2>3. FetchOf(prog) \in backs'
    BY <1>5, <2>1 DEF DataInv
  <2>4. \A v \in backs' \ RootsOf(prog) : OpsOf(prog, v) \subseteq backs'
    BY <1>5, <2>1 DEF DataInv
  <2>5. \A r \in roots : InScope(r) \subseteq backs
    BY <1>5 DEF DataInv
  <2>. QED
    BY <1>5, <2>2, <2>3, <2>4, <2>5 DEF DataInv
<1>6. CASE JointKnown \/ JointLoop \/ JointEnter \/ JointLeaf \/ JointTrueSide
  <2>1. /\ UNCHANGED <<prog, reach, todo, backs, roots, taints>>
        /\ pc \in {"call", "return"} /\ pc' \in {"call", "return", "abort"}
    BY <1>6 DEF JointKnown, JointLoop, JointEnter, JointLeaf, JointTrueSide,
                NewBlock, Return
  <2>2. SliceInReach'
    BY <2>1 DEF DataInv, SliceInReach
  <2>. QED
    BY <1>5, <2>1, <2>2
<1>7. CASE JointFinish
  <2>1. /\ UNCHANGED <<prog, reach, todo, backs, roots>>
        /\ pc = "return" /\ pc' = "return" /\ hists # <<>>
        /\ taints' \subseteq taints \cup NewTaint(Top.block)
    BY <1>7 DEF JointFinish, Return
  <2>2. Top.block \in reach /\ Top.block \in Blocks
    <3>1. Len(hists) \in 1..Len(hists)
      BY <2>1, StackFacts
    <3>. QED
      BY <3>1, StackFacts DEF Top, StackInv, FrameOK
  <2>3. \A v \in NewTaint(Top.block) : HostOf(prog, v) = Top.block
    BY <1>0, <2>2, ProgramFacts DEF NewTaint
  <2>4. SliceInReach'
    BY <2>1, <2>2, <2>3 DEF DataInv, SliceInReach
  <2>. QED
    BY <1>5, <2>1, <2>4
<1>8. CASE JointReturned
  <2>1. /\ UNCHANGED <<prog, reach, backs, roots, taints>>
        /\ pc = "return" /\ pc' \in {"done", "abort", "btrace"}
        /\ todo' = taints
    BY <1>8 DEF JointReturned
  <2>2. SliceInReach'
    BY <2>1 DEF DataInv, SliceInReach
  <2>. QED
    BY <1>5, <2>1, <2>2
<1>9. CASE Stopped \/ UNCHANGED vars
  <2>1. UNCHANGED vars
    BY <1>9 DEF Stopped
  <2>. QED
    BY <2>1 DEF DataInv, Pending, InScope, SliceInReach, vars
<1>10. CASE UnknownValue
  <2>1. /\ UNCHANGED <<prog, reach, todo, backs, roots, taints>>
        /\ pc \in {"btrace", "follow"} /\ pc' = "unknown"
    BY <1>10 DEF UnknownValue
  <2>. QED
    BY <2>1 DEF DataInv, Pending, InScope, SliceInReach
<1>. QED
  BY <1>1, <1>2, <1>3, <1>4, <1>6, <1>7, <1>8, <1>9, <1>10
  DEF Next, Step, Trace, Joint

(* The slice is closed from the start, but for the calls still to be made. *)
LEMMA DataInit == Init => DataInv
<1> SUFFICES ASSUME Init
             PROVE  DataInv
  OBVIOUS
<1>1. /\ prog \in Programs /\ reach = ReachBlocks(prog)
      /\ pc = "btrace" /\ backs = {} /\ roots = {}
      /\ taints = {FetchOf(prog)} /\ todo = taints
  BY DEF Init
<1>2. HostOf(prog, FetchOf(prog)) \in reach
  BY <1>1, ReachFacts DEF FetchBlock
<1>. QED
  BY <1>1, <1>2 DEF DataInv, Pending, SliceInReach

LEMMA DataInvariant == Spec => [](TypeOK /\ StackInv /\ DataInv)
BY DataInit, DataStep, StackInvariant, PTL DEF Spec

(* When the walk starts, and when the constructor ends, the slice holds    *)
(* the operands of its values and the users of its roots that can affect   *)
(* the fetch: the two traces have nothing left to add.                     *)
THEOREM ClosedCorrect == Spec => []SliceClosed
<1>1. DataInv => SliceClosed
  <2> SUFFICES ASSUME DataInv, pc \in {"call", "return", "done"}
               PROVE  /\ \A v \in backs \ RootsOf(prog) : OpsOf(prog, v) \subseteq backs
                      /\ \A v \in roots : InScope(v) \subseteq backs
    BY DEF SliceClosed, InScope
  <2>1. Pending = {}
    BY DEF Pending
  <2>. QED
    BY <2>1 DEF DataInv
<1>. QED
  BY <1>1, DataInvariant, PTL

(* No instruction of the slice, and none about to join it, sits in a block *)
(* that cannot reach the fetch.                                            *)
THEOREM InReachCorrect == Spec => []SliceInReach
<1>1. DataInv => SliceInReach
  BY DEF DataInv
<1>. QED
  BY <1>1, DataInvariant, PTL

------------------------------------------------------------------------------
(* What the walk puts into the slice. *)

Walking == pc \in {"call", "return"}

Seen(b) == dedup[b] # Unseen

(* Taints are terminators outside the slice; a block is in suits for its   *)
(* instructions or for its terminator, which is a taint; the answers are   *)
(* blocks of suits or null; a block met with instructions is in suits.     *)
TaintsNew == \A v \in taints : v \notin backs /\ v = TermOf(prog, HostOf(prog, v))

SuitsJustified == \A b \in suits : Insts(b) # {} \/ TermOf(prog, b) \in taints

AnswersInSuits ==
  /\ \A b \in Blocks : dedup[b] \in suits \cup {Null, Unseen}
  /\ \A k \in 1..Len(hists) : hists[k].tnxt \in suits \cup {Null}
  /\ pc = "return" => cur \in suits \cup {Null}

MetInSuits ==
  \A b \in Blocks :
    (Seen(b) \/ b \in Active) /\ Insts(b) # {} => Seen(b) /\ b \in suits

WalkInv ==
  /\ Walking => TaintsNew /\ SuitsJustified /\ AnswersInSuits /\ MetInSuits
  /\ SliceHosted

(* What marking a block that is met for the first time does. *)
LEMMA MarkFacts ==
  ASSUME TypeOK, cur \in Blocks, MarkIfSliced
  PROVE  /\ suits \subseteq suits' /\ suits' \subseteq suits \cup {cur}
         /\ \A b \in Blocks : b # cur => dedup'[b] = dedup[b]
         /\ Insts(cur) # {} => cur \in suits' /\ dedup'[cur] = cur
         /\ Insts(cur) = {} => suits' = suits /\ dedup' = dedup
  BY DEF MarkIfSliced, TypeOK

(* The answer of a block is one of its sides' or the block itself. *)
LEMMA FinishFacts ==
  ASSUME TypeOK, StackInv, JointFinish
  PROVE  \E tnxt :
           /\ Arity(Top.block) = 2 => tnxt = Top.tnxt
           /\ Arity(Top.block) # 2 => tnxt = cur
           /\ cur' = Answer(Top.block, tnxt, cur)
           /\ IF Decides(tnxt, cur)
                THEN /\ suits' = suits \cup {Top.block}
                     /\ taints' = taints \cup NewTaint(Top.block)
                ELSE suits' = suits /\ taints' = taints
           /\ dedup[Top.block] = Unseen => dedup'[Top.block] = cur'
           /\ dedup[Top.block] # Unseen => dedup'[Top.block] = dedup[Top.block]
           /\ \A b \in Blocks : b # Top.block => dedup'[b] = dedup[b]
           /\ Top.block \in Blocks /\ Top.block \in Active
           /\ UNCHANGED <<prog, reach, backs>>
           /\ pc = "return" /\ pc' = "return"
           /\ Arity(Top.block) = Top.side
<1>. DEFINE tnxt == IF Arity(Top.block) = 2 THEN Top.tnxt ELSE cur
<1>1. hists # <<>>
  BY DEF JointFinish
<1>2. Top.block \in Blocks /\ Top.block \in Active
  BY <1>1, StackFacts DEF Frames
<1>3. /\ cur' = Answer(Top.block, tnxt, cur)
      /\ IF Decides(tnxt, cur)
           THEN /\ suits' = suits \cup {Top.block}
                /\ taints' = taints \cup NewTaint(Top.block)
           ELSE suits' = suits /\ taints' = taints
      /\ dedup' = IF dedup[Top.block] = Unseen
                    THEN [dedup EXCEPT ![Top.block] = cur'] ELSE dedup
      /\ UNCHANGED <<prog, reach, backs>>
      /\ pc = "return" /\ pc' = "return"
      /\ Arity(Top.block) = Top.side
  BY DEF JointFinish, Return
<1>4. /\ dedup[Top.block] = Unseen => dedup'[Top.block] = cur'
      /\ dedup[Top.block] # Unseen => dedup'[Top.block] = dedup[Top.block]
      /\ \A b \in Blocks : b # Top.block => dedup'[b] = dedup[b]
  <2>1. dedup \in [Blocks -> Blocks \cup {Null, Unseen}]
    BY DEF TypeOK
  <2>. HIDE DEF tnxt
  <2>. QED
    BY <1>2, <1>3, <2>1
<1>. QED
  BY <1>2, <1>3, <1>4

(* Every step of the walk keeps what it promises about the slice. *)
LEMMA WalkStep ==
  TypeOK /\ StackInv /\ DataInv /\ WalkInv /\ [Next]_vars => WalkInv'
<1> SUFFICES ASSUME TypeOK, StackInv, DataInv, WalkInv, [Next]_vars
             PROVE  WalkInv'
  OBVIOUS
<1>. USE DEF SliceHosted, Walking
<1>0. prog \in Programs /\ reach \subseteq Blocks /\ Len(hists) \in Nat
  BY StackFacts DEF TypeOK
<1>1. ASSUME NEW v \in todo, Btrace(v) \/ Follow(v)
      PROVE  WalkInv'
  BY <1>1 DEF Btrace, Follow, WalkInv
<1>2. CASE BtraceDone \/ UnknownValue
  BY <1>2 DEF BtraceDone, UnknownValue, WalkInv
<1>3. CASE FollowDone
  <2>1. CASE taints # {}
    BY <1>3, <2>1 DEF FollowDone, WalkInv
  <2>2. CASE taints = {}
    <3>1. /\ pc' = "call" /\ taints' = {} /\ suits' = {} /\ hists' = <<>>
          /\ dedup' = [b \in Blocks |-> Unseen]
      BY <1>3, <2>2 DEF FollowDone
    <3>2. 1..Len(hists') = {}
      BY <3>1
    <3>3. Active' = {} /\ \A b \in Blocks : ~ Seen(b)'
      BY <3>1, <3>2 DEF Active, Seen
    <3>. QED
      BY <3>1, <3>2, <3>3
      DEF WalkInv, TaintsNew, SuitsJustified, AnswersInSuits, MetInSuits
  <2>. QED
    BY <2>1, <2>2
<1>4. ASSUME UNCHANGED <<prog, backs>>
      PROVE  \A b : Insts(b)' = Insts(b)
  BY <1>4 DEF Insts
<1>5. ASSUME pc = "call", pc' = "return", cur' \in suits \cup {Null},
             UNCHANGED <<prog, backs, taints, hists, dedup, suits>>
      PROVE  WalkInv'
  <2>1. /\ TaintsNew' /\ SuitsJustified' /\ AnswersInSuits' /\ MetInSuits'
    BY <1>4, <1>5 DEF WalkInv, TaintsNew, SuitsJustified, AnswersInSuits,
                      MetInSuits, Seen, Active
  <2>. QED
    BY <1>5, <2>1 DEF WalkInv
<1>6. CASE JointKnown
  <2>1. /\ pc = "call" /\ pc' = "return"
        /\ cur' = IF cur \in reach THEN dedup[cur] ELSE Null
        /\ cur \notin reach \/ dedup[cur] # Unseen
        /\ UNCHANGED <<prog, backs, taints, hists, dedup, suits>>
    BY <1>6 DEF JointKnown, Return
  <2>2. cur' \in suits \cup {Null}
    BY <1>0, <2>1 DEF WalkInv, AnswersInSuits
  <2>. QED
    BY <1>5, <2>1, <2>2
<1>7. CASE JointLoop
  <2>1. /\ pc = "call" /\ pc' = "return" /\ cur' = Nearest /\ cur \in Active
        /\ UNCHANGED <<prog, backs, taints, hists, dedup, suits>>
    BY <1>7 DEF JointLoop, Return
  <2>2. \A k \in 1..Len(hists) :
          dedup[hists[k].block] \in suits \cup {Null, Unseen}
    BY <2>1, StackFacts DEF WalkInv, AnswersInSuits
  <2>3. Nearest \in suits \cup {Null}
    BY <2>1, <2>2, NearestIsKnown DEF TypeOK
  <2>. QED
    BY <1>5, <2>1, <2>3
<1>8. ASSUME JointEnter \/ (JointLeaf /\ Insts(cur) # {})
      PROVE  WalkInv'
  <2>1. /\ UNCHANGED <<prog, backs, taints>> /\ pc = "call"
        /\ cur \in Blocks /\ MarkIfSliced
    BY <1>0, <1>8 DEF JointEnter, JointLeaf, NewBlock
  <2>2. /\ suits \subseteq suits' /\ suits' \subseteq suits \cup {cur}
        /\ \A b \in Blocks : b # cur => dedup'[b] = dedup[b]
        /\ Insts(cur) # {} => cur \in suits' /\ dedup'[cur] = cur
        /\ Insts(cur) = {} => suits' = suits /\ dedup' = dedup
    BY <2>1, MarkFacts
  <2>3. \A b : Insts(b)' = Insts(b)
    BY <1>4, <2>1
  <2>4. TaintsNew'
    BY <2>1 DEF WalkInv, TaintsNew
  <2>5. SuitsJustified'
    BY <2>1, <2>2, <2>3 DEF WalkInv, SuitsJustified
  <2>6. \A b \in Blocks : dedup'[b] \in suits' \cup {Null, Unseen}
    BY <2>1, <2>2 DEF WalkInv, AnswersInSuits
  <2>7. /\ \A k \in 1..Len(hists') : hists'[k].tnxt \in suits \cup {Null}
        /\ Active' \subseteq Active \cup {cur}
    <3>1. CASE JointEnter
      <4>1. /\ Len(hists') = Len(hists) + 1 /\ Active' = Active \cup {cur}
            /\ \A k \in 1..Len(hists) : hists'[k] = hists[k]
            /\ hists'[Len(hists) + 1] = [block |-> cur, side |-> 1, tnxt |-> Null]
        BY <3>1, PushFacts
      <4>2. \A k \in 1..Len(hists') : k \in 1..Len(hists) \/ k = Len(hists) + 1
        BY <1>0, <4>1
      <4>. QED
        BY <2>1, <4>1, <4>2 DEF WalkInv, AnswersInSuits
    <3>2. CASE JointLeaf
      <4>1. hists' = hists
        BY <3>2 DEF JointLeaf
      <4>. QED
        BY <2>1, <4>1 DEF WalkInv, AnswersInSuits, Active
    <3>. QED
      BY <1>8, <3>1, <3>2
  <2>8. pc' = "return" => cur' \in suits'
    BY <1>8, <2>1, <2>2 DEF JointEnter, JointLeaf, Return
  <2>9. MetInSuits'
    <3>1. ASSUME NEW b \in Blocks, Seen(b)' \/ b \in Active', Insts(b) # {}
          PROVE  Seen(b)' /\ b \in suits'
      <4>1. CASE b = cur
        BY <2>1, <2>2, <3>1, <4>1, SentinelAssumption DEF Seen
      <4>2. CASE b # cur
        BY <2>1, <2>2, <2>7, <3>1, <4>2 DEF Seen, WalkInv, MetInSuits
      <4>. QED
        BY <4>1, <4>2
    <3>. QED
      BY <2>3, <3>1 DEF MetInSuits
  <2>10. AnswersInSuits'
    BY <2>2, <2>6, <2>7, <2>8 DEF AnswersInSuits
  <2>11. pc' # "done"
    BY <1>8, <2>1 DEF JointEnter, JointLeaf, Return
  <2>. QED
    BY <2>4, <2>5, <2>9, <2>10, <2>11 DEF WalkInv
<1>9. CASE JointLeaf /\ Insts(cur) = {}
  BY <1>9 DEF JointLeaf, WalkInv
<1>10. CASE JointTrueSide
  <2>1. /\ UNCHANGED <<prog, backs, taints, dedup, suits>>
        /\ pc = "return" /\ pc' = "call"
    BY <1>10 DEF JointTrueSide
  <2>2. /\ Len(hists') = Len(hists) /\ Active' = Active
        /\ \A k \in 1..(Len(hists) - 1) : hists'[k] = hists[k]
        /\ hists'[Len(hists)] = [block |-> Top.block, side |-> 2, tnxt |-> cur]
    BY <1>10, TurnFacts
  <2>3. \A k \in 1..Len(hists') : hists'[k].tnxt \in suits \cup {Null}
    <3>1. \A k \in 1..Len(hists') :
            \/ k = Len(hists)
            \/ k \in 1..(Len(hists) - 1) /\ k \in 1..Len(hists)
      BY <1>0, <2>2
    <3>2. cur \in suits \cup {Null}
      BY <2>1 DEF WalkInv, AnswersInSuits
    <3>3. \A k \in 1..Len(hists) : hists[k].tnxt \in suits \cup {Null}
      BY <2>1 DEF WalkInv, AnswersInSuits
    <3>. QED
      BY <2>2, <3>1, <3>2, <3>3
  <2>4. \A b : Insts(b)' = Insts(b)
    BY <1>4, <2>1
  <2>5. TaintsNew' /\ SuitsJustified' /\ MetInSuits'
    BY <2>1, <2>2, <2>4 DEF WalkInv, TaintsNew, SuitsJustified, MetInSuits, Seen
  <2>6. AnswersInSuits'
    BY <2>1, <2>3 DEF WalkInv, AnswersInSuits
  <2>. QED
    BY <2>1, <2>5, <2>6 DEF WalkInv
<1>11. CASE JointFinish
  <2>. DEFINE b == Top.block
  <2>1. PICK tnxt :
          /\ Arity(b) = 2 => tnxt = Top.tnxt
          /\ Arity(b) # 2 => tnxt = cur
          /\ cur' = Answer(b, tnxt, cur)
          /\ IF Decides(tnxt, cur)
               THEN /\ suits' = suits \cup {b}
                    /\ taints' = taints \cup NewTaint(b)
               ELSE suits' = suits /\ taints' = taints
          /\ dedup[b] = Unseen => dedup'[b] = cur'
          /\ dedup[b] # Unseen => dedup'[b] = dedup[b]
          /\ \A c \in Blocks : c # b => dedup'[c] = dedup[c]
          /\ b \in Blocks /\ b \in Active
          /\ UNCHANGED <<prog, reach, backs>>
          /\ pc = "return" /\ pc' = "return"
    BY <1>11, FinishFacts
  <2>2. TaintsNew /\ SuitsJustified /\ AnswersInSuits /\ MetInSuits
    BY <2>1 DEF WalkInv
  <2>3. /\ Len(hists) \in 1..Len(hists) /\ Active' \subseteq Active
        /\ \A k \in 1..Len(hists') : k \in 1..Len(hists) /\ hists'[k] = hists[k]
    BY <1>0, <1>11, PopFacts
  <2>4. \A c : Insts(c)' = Insts(c)
    BY <1>4, <2>1
  <2>5. /\ suits \subseteq suits' /\ suits' \subseteq suits \cup {b}
        /\ taints \subseteq taints' /\ taints' \subseteq taints \cup NewTaint(b)
        /\ Decides(tnxt, cur) => b \in suits' /\ NewTaint(b) \subseteq taints'
        /\ ~ Decides(tnxt, cur) => suits' = suits
    BY <2>1
  <2>6. TaintsNew'
    <3>1. \A v \in NewTaint(b) : v \notin backs /\ v = TermOf(prog, HostOf(prog, v))
      BY <1>0, <2>1, ProgramFacts DEF NewTaint
    <3>. HIDE DEF b
    <3>. QED
      BY <2>1, <2>2, <2>5, <3>1 DEF TaintsNew
  <2>7. SuitsJustified'
    <3>1. Insts(b) # {} \/ TermOf(prog, b) \in NewTaint(b)
      BY <1>0, <2>1, ProgramFacts DEF Insts, NewTaint
    <3>2. ASSUME NEW c \in suits'
          PROVE  Insts(c) # {} \/ TermOf(prog, c) \in taints'
      <4>1. CASE c \in suits
        BY <2>2, <2>5, <4>1 DEF SuitsJustified
      <4>2. CASE c \notin suits
        <5>1. c = b /\ Decides(tnxt, cur)
          BY <2>5, <3>2, <4>2
        <5>. QED
          BY <2>5, <3>1, <5>1
      <4>. QED
        BY <4>1, <4>2
    <3>. QED
      BY <2>1, <2>4, <3>2 DEF SuitsJustified
  <2>8. cur \in suits \cup {Null} /\ tnxt \in suits \cup {Null}
    BY <2>1, <2>2, <2>3 DEF AnswersInSuits, Top
  <2>9. cur' \in suits' \cup {Null}
    <3>1. CASE Decides(tnxt, cur)
      BY <2>1, <2>5, <3>1 DEF Answer
    <3>2. CASE Insts(b) # {} /\ ~ Decides(tnxt, cur)
      BY <2>1, <2>2, <2>5, <3>2 DEF Answer, MetInSuits
    <3>3. CASE Insts(b) = {} /\ ~ Decides(tnxt, cur)
      BY <2>1, <2>5, <2>8, <3>3 DEF Answer
    <3>. QED
      BY <3>1, <3>2, <3>3
  <2>10. AnswersInSuits'
    <3>1. ASSUME NEW c \in Blocks
          PROVE  dedup'[c] \in suits' \cup {Null, Unseen}
      <4>1. dedup'[c] = dedup[c] \/ dedup'[c] = cur'
        BY <2>1
      <4>. QED
        BY <2>2, <2>5, <2>9, <4>1 DEF AnswersInSuits
    <3>2. \A k \in 1..Len(hists') : hists'[k].tnxt \in suits' \cup {Null}
      BY <2>2, <2>3, <2>5 DEF AnswersInSuits
    <3>. QED
      BY <2>9, <3>1, <3>2 DEF AnswersInSuits
  <2>11. MetInSuits'
    <3>1. ASSUME NEW c \in Blocks, Seen(c)' \/ c \in Active', Insts(c) # {}
          PROVE  Seen(c)' /\ c \in suits'
      <4>1. Seen(c) \/ c \in Active
        BY <2>1, <2>3, <3>1 DEF Seen
      <4>2. Seen(c) /\ c \in suits
        BY <2>2, <3>1, <4>1 DEF MetInSuits
      <4>. QED
        BY <2>1, <2>5, <4>2 DEF Seen
    <3>. QED
      BY <2>4, <3>1 DEF MetInSuits
  <2>. QED
    BY <2>1, <2>6, <2>7, <2>10, <2>11 DEF WalkInv
<1>12. CASE JointReturned
  <2>1. CASE pc' # "done"
    BY <1>12, <2>1 DEF JointReturned, WalkInv
  <2>2. CASE pc' = "done"
    <3>1. /\ UNCHANGED <<prog, backs, dedup, suits>> /\ pc = "return"
          /\ taints = {}
      BY <1>12, <2>2 DEF JointReturned
    <3>2. \A b : Insts(b)' = Insts(b)
      BY <1>4, <3>1
    <3>3. \A b \in suits : Insts(b) # {}
      BY <3>1 DEF WalkInv, SuitsJustified
    <3>4. ASSUME NEW v \in backs, HostOf(prog, v) \in Blocks,
                 Seen(HostOf(prog, v))
          PROVE  HostOf(prog, v) \in suits
      BY <3>1, <3>4 DEF WalkInv, MetInSuits, Insts
    <3>. QED
      BY <2>2, <3>1, <3>2, <3>3, <3>4 DEF WalkInv, Seen
  <2>. QED
    BY <2>1, <2>2
<1>13. CASE Stopped \/ UNCHANGED vars
  <2>1. UNCHANGED vars
    BY <1>13 DEF Stopped
  <2>. QED
    BY <2>1 DEF WalkInv, TaintsNew, SuitsJustified, AnswersInSuits, MetInSuits,
                Insts, Seen, Active, vars
<1>14. CASE JointLeaf
  BY <1>8, <1>9, <1>14
<1>15. CASE Trace
  BY <1>1, <1>2, <1>3, <1>15 DEF Trace
<1>16. CASE Joint
  BY <1>6, <1>7, <1>8, <1>10, <1>11, <1>12, <1>14, <1>16 DEF Joint
<1>. QED
  BY <1>13, <1>15, <1>16 DEF Next, Step

LEMMA WalkInvariant == Spec => [](TypeOK /\ StackInv /\ DataInv /\ WalkInv)
<1>1. Init => WalkInv
  BY DEF Init, WalkInv, Walking, SliceHosted
<1>2. TypeOK /\ StackInv /\ DataInv /\ WalkInv /\ [Next]_vars => WalkInv'
  BY WalkStep
<1>. QED
  BY <1>1, <1>2, DataInvariant, PTL DEF Spec

(* Every instruction of the finished slice sits in a block of the slice,   *)
(* if the walk came to its block, and every block of it holds one: joint   *)
(* puts empty blocks into suits, but each is a reason for another round.   *)
THEOREM HostedCorrect == Spec => []SliceHosted
<1>1. WalkInv => SliceHosted
  BY DEF WalkInv
<1>. QED
  BY <1>1, WalkInvariant, PTL

(* The constructor goes round again only for branches that are not in the  *)
(* slice yet: the slice grows in every round.                              *)
THEOREM RoundsCorrect == Spec => EachRoundAddsABranch
<1>. DEFINE Grows ==
  pc = "return" /\ pc' = "btrace" =>
    /\ todo' # {}
    /\ \A v \in todo' : v \notin backs /\ v = TermOf(prog, HostOf(prog, v))
<1>1. WalkInv /\ [Next]_vars => [Grows]_vars
  <2> SUFFICES ASSUME WalkInv, Next, pc = "return", pc' = "btrace"
               PROVE  Grows
    OBVIOUS
  <2>1. ~ Trace /\ ~ Stopped
    BY DEF Trace, Btrace, Follow, BtraceDone, FollowDone, UnknownValue, Stopped
  <2>2. /\ ~ JointKnown /\ ~ JointLoop /\ ~ JointEnter /\ ~ JointLeaf
        /\ ~ JointTrueSide /\ ~ JointFinish
    BY DEF JointKnown, JointLoop, JointEnter, JointLeaf, JointTrueSide,
           JointFinish, NewBlock, Return
  <2>3. JointReturned
    BY <2>1, <2>2 DEF Next, Step, Joint
  <2>. QED
    BY <2>3 DEF JointReturned, WalkInv, Walking, TaintsNew
<1>. QED
  BY <1>1, WalkInvariant, PTL DEF Spec, EachRoundAddsABranch

------------------------------------------------------------------------------
(* The depth-first search. *)

(* The walk need not come back to the block, or is at work on it. *)
Handled(b) == b \notin reach \/ Seen(b) \/ b \in Active

FinishedVisited ==
  \A b \in Blocks :
    Seen(b) /\ b \notin Active => \A c \in Successors(prog, b) : Handled(c)

TrueSideVisited ==
  \A k \in 1..Len(hists) :
    hists[k].side = 2 => Handled(SuccOf(prog, hists[k].block)[1])

ResultVisited ==
  pc = "return" /\ hists # <<>> => Handled(SuccOf(prog, Top.block)[Top.side])

EntryVisited ==
  IF pc = "call" /\ hists = <<>> THEN cur = EntryBlock ELSE Handled(EntryBlock)

(* The walk is a depth-first search: it misses no successor of a block     *)
(* that it has finished.                                                   *)
VisitInv ==
  Walking => FinishedVisited /\ TrueSideVisited /\ ResultVisited /\ EntryVisited

(* Once the block of the fetch was met, some active call, or the last      *)
(* result, makes sure that the walk will not answer null.                  *)
Assuring(k) == Insts(hists[k].block) # {} \/ hists[k].tnxt # Null

Assured ==
  \/ pc = "return" /\ cur # Null
  \/ \E k \in 1..Len(hists) : Assuring(k)

AssuredInv == Walking /\ (Seen(FetchBlock) \/ FetchBlock \in Active) => Assured

------------------------------------------------------------------------------
(* The assertions. *)

(* A return block among the blocks that reach the fetch is the block of    *)
(* the fetch, and after the traces that block is not empty.                *)
LEMMA LeafIsFetchBlock ==
  ASSUME TypeOK, DataInv, cur \in reach, Arity(cur) = 0
  PROVE  cur = FetchBlock
<1>. DEFINE pred == PredGraph(prog)
            T == {FetchBlock} \cup {b \in Blocks : Arity(b) > 0}
<1>1. prog \in Programs /\ FetchBlock \in Blocks
  BY ProgramFacts DEF TypeOK
<1>2. T \in SUBSET DOMAIN pred /\ {FetchBlock} \subseteq T
  BY <1>1 DEF PredGraph
<1>3. ASSUME NEW b \in Blocks, NEW c \in pred[b]
      PROVE  c \in Blocks /\ Arity(c) > 0
  <2>1. c \in Blocks /\ b \in Successors(prog, c)
    BY <1>3 DEF PredGraph
  <2>2. PICK k \in 1..Arity(c) : b = SuccOf(prog, c)[k]
    BY <2>1 DEF Successors, Arity
  <2>3. Arity(c) \in 0..2
    BY <1>1, <2>1, ProgramFacts
  <2>. QED
    BY <2>1, <2>2, <2>3
<1>4. Closed(T, pred)
  BY <1>1, <1>3 DEF Closed
<1>5. reach \subseteq T
  <2>1. reach = Closure({FetchBlock}, pred)
    BY DEF DataInv, ReachBlocks, FetchBlock
  <2>. HIDE DEF T, pred
  <2>. QED
    BY <1>2, <1>4, <2>1, ClosureLeast
<1>. QED
  BY <1>5

LEMMA FetchBlockHolds ==
  ASSUME DataInv, pc \in {"call", "return"}
  PROVE  Insts(FetchBlock) # {}
  BY DEF DataInv, Pending, Insts, FetchBlock

(* Every step keeps the search complete. *)
LEMMA VisitStep ==
  TypeOK /\ StackInv /\ DataInv /\ VisitInv /\ [Next]_vars => VisitInv'
<1> SUFFICES ASSUME TypeOK, StackInv, DataInv, VisitInv, [Next]_vars
             PROVE  VisitInv'
  OBVIOUS
<1>. USE DEF Walking
<1>0. prog \in Programs /\ reach \subseteq Blocks /\ Len(hists) \in Nat
  BY StackFacts DEF TypeOK
<1>1. CASE Trace /\ pc' # "call"
  BY <1>1 DEF Trace, Btrace, Follow, BtraceDone, FollowDone, UnknownValue, VisitInv
<1>2. CASE Trace /\ pc' = "call"
  <2>1. /\ pc' = "call" /\ cur' = EntryBlock /\ hists' = <<>>
        /\ dedup' = [b \in Blocks |-> Unseen]
    BY <1>2 DEF Trace, Btrace, Follow, BtraceDone, FollowDone, UnknownValue
  <2>2. 1..Len(hists') = {}
    BY <2>1
  <2>3. \A b \in Blocks : ~ Seen(b)'
    BY <2>1 DEF Seen
  <2>. QED
    BY <2>1, <2>2, <2>3
    DEF VisitInv, FinishedVisited, TrueSideVisited, ResultVisited, EntryVisited
<1>3. ASSUME UNCHANGED <<prog, reach>>,
             \A b \in Blocks : Seen(b) \/ b \in Active => Seen(b)' \/ b \in Active'
      PROVE  \A b : Handled(b) => Handled(b)'
  BY <1>0, <1>3 DEF Handled
<1>4. ASSUME pc = "call"
      PROVE  /\ FinishedVisited /\ TrueSideVisited
             /\ hists = <<>> => cur = EntryBlock
             /\ hists # <<>> => /\ Handled(EntryBlock)
                                /\ cur = SuccOf(prog, Top.block)[Top.side]
  BY <1>4 DEF VisitInv, EntryVisited, StackInv
<1>5. ASSUME pc = "call", pc' = "return",
             UNCHANGED <<prog, reach, hists>>,
             NEW c, c = cur, Handled(c)',
             \A b : Handled(b) => Handled(b)',
             FinishedVisited'
      PROVE  VisitInv'
  <2>1. TrueSideVisited'
    BY <1>4, <1>5 DEF TrueSideVisited, Handled
  <2>2. Handled(EntryBlock)'
    BY <1>4, <1>5 DEF Handled
  <2>3. hists' # <<>> => c = SuccOf(prog', Top'.block)[Top'.side]
    BY <1>4, <1>5 DEF Top
  <2>4. ResultVisited'
    BY <1>5, <2>3 DEF ResultVisited, Handled
  <2>. QED
    BY <1>5, <2>1, <2>2, <2>4 DEF VisitInv, EntryVisited
<1>6. CASE JointKnown \/ JointLoop
  <2>1. /\ pc = "call" /\ pc' = "return"
        /\ UNCHANGED <<prog, reach, hists, dedup>>
        /\ cur \notin reach \/ Seen(cur) \/ cur \in Active
    BY <1>6 DEF JointKnown, JointLoop, Return, Seen
  <2>2. \A b : Handled(b)' <=> Handled(b)
    BY <2>1 DEF Seen, Handled, Active
  <2>3. FinishedVisited'
    BY <1>4, <2>1 DEF FinishedVisited, Seen, Handled, Active, Successors
  <2>4. ASSUME NEW c, c = cur
        PROVE  Handled(c)'
    BY <2>1, <2>4 DEF Seen, Handled, Active
  <2>. QED
    BY <1>5, <2>1, <2>2, <2>3, <2>4
<1>7. CASE JointLeaf
  <2>1. /\ pc = "call" /\ cur \in Blocks /\ Arity(cur) = 0 /\ MarkIfSliced
        /\ UNCHANGED <<prog, reach, hists>> /\ cur \in reach
        /\ IF Insts(cur) # {} THEN pc' = "return" ELSE pc' = "abort"
    BY <1>0, <1>7 DEF JointLeaf, NewBlock, Return
  <2>2. Insts(cur) # {}
    BY <2>1, LeafIsFetchBlock, FetchBlockHolds
  <2>3. /\ dedup'[cur] = cur /\ Active' = Active
        /\ \A b \in Blocks : b # cur => dedup'[b] = dedup[b]
    BY <2>1, <2>2, MarkFacts DEF Active
  <2>4. cur # Unseen
    BY <2>1, SentinelAssumption
  <2>5. \A b \in Blocks : Seen(b) => Seen(b)'
    BY <2>3, <2>4 DEF Seen
  <2>6. \A b : Handled(b) => Handled(b)'
    BY <1>3, <2>1, <2>3, <2>5
  <2>7. ASSUME NEW b \in Blocks, Seen(b)', b \notin Active',
               NEW d \in Successors(prog, b)
        PROVE  Handled(d)'
    <3>1. CASE b = cur
      BY <2>1, <3>1 DEF Successors, Arity
    <3>2. CASE b # cur
      <4>1. Seen(b) /\ b \notin Active
        BY <2>3, <2>7, <3>2 DEF Seen
      <4>2. Handled(d)
        BY <1>4, <2>1, <2>7, <4>1 DEF FinishedVisited
      <4>. QED
        BY <2>6, <4>2
    <3>. QED
      BY <3>1, <3>2
  <2>8. FinishedVisited'
    BY <2>1, <2>7 DEF FinishedVisited, Successors
  <2>9. ASSUME NEW c, c = cur
        PROVE  Handled(c)'
    BY <2>3, <2>4, <2>9 DEF Seen, Handled
  <2>10. pc' = "return"
    BY <2>1, <2>2
  <2>. QED
    BY <1>5, <2>1, <2>6, <2>8, <2>9, <2>10
<1>8. CASE JointEnter
  <2>1. /\ pc = "call" /\ pc' = "call" /\ cur \in Blocks /\ MarkIfSliced
        /\ UNCHANGED <<prog, reach>> /\ cur \in reach
    BY <1>0, <1>8 DEF JointEnter, NewBlock
  <2>2. /\ \A b \in Blocks : b # cur => dedup'[b] = dedup[b]
        /\ dedup'[cur] = cur \/ dedup' = dedup
    BY <2>1, MarkFacts
  <2>3. /\ hists' # <<>> /\ Len(hists') = Len(hists) + 1
        /\ Active' = Active \cup {cur}
        /\ \A k \in 1..Len(hists) : hists'[k] = hists[k]
        /\ hists'[Len(hists) + 1] = [block |-> cur, side |-> 1, tnxt |-> Null]
    BY <1>8, PushFacts
  <2>4. \A b \in Blocks : Seen(b) \/ b \in Active => Seen(b)' \/ b \in Active'
    BY <2>2, <2>3 DEF Seen
  <2>5. \A b : Handled(b) => Handled(b)'
    BY <1>3, <2>1, <2>4
  <2>6. ASSUME NEW b \in Blocks, Seen(b)', b \notin Active',
               NEW d \in Successors(prog, b)
        PROVE  Handled(d)'
    <3>1. Seen(b) /\ b \notin Active
      BY <2>2, <2>3, <2>6 DEF Seen
    <3>2. Handled(d)
      BY <1>4, <2>1, <2>6, <3>1 DEF FinishedVisited
    <3>. QED
      BY <2>5, <3>2
  <2>7. FinishedVisited'
    BY <2>1, <2>6 DEF FinishedVisited, Successors
  <2>8. TrueSideVisited'
    <3>1. ASSUME NEW k \in 1..Len(hists'), hists'[k].side = 2,
                 NEW c, c = SuccOf(prog, hists'[k].block)[1]
          PROVE  Handled(c)'
      <4>1. k \in 1..Len(hists) \/ k = Len(hists) + 1
        BY <1>0, <2>3
      <4>2. k # Len(hists) + 1
        BY <2>3, <3>1
      <4>3. Handled(c)
        BY <1>4, <2>1, <2>3, <3>1, <4>1, <4>2 DEF TrueSideVisited
      <4>. QED
        BY <2>5, <4>3
    <3>. QED
      BY <2>1, <3>1 DEF TrueSideVisited, Handled
  <2>9. Handled(EntryBlock)'
    <3>1. CASE hists # <<>>
      BY <1>4, <2>1, <2>5, <3>1
    <3>2. CASE hists = <<>>
      <4>1. EntryBlock \in Active'
        BY <1>4, <2>1, <2>3, <3>2
      <4>. QED
        BY <4>1 DEF Handled
    <3>. QED
      BY <3>1, <3>2
  <2>. QED
    BY <2>1, <2>3, <2>7, <2>8, <2>9 DEF VisitInv, ResultVisited, EntryVisited
<1>9. ASSUME pc = "return"
      PROVE  /\ FinishedVisited /\ TrueSideVisited /\ Handled(EntryBlock)
             /\ hists # <<>> => Handled(SuccOf(prog, Top.block)[Top.side])
  BY <1>9 DEF VisitInv, EntryVisited, ResultVisited
<1>10. CASE JointTrueSide
  <2>1. /\ pc = "return" /\ pc' = "call" /\ hists # <<>> /\ Top.side = 1
        /\ UNCHANGED <<prog, reach, dedup>>
    BY <1>10 DEF JointTrueSide
  <2>2. /\ hists' # <<>> /\ Len(hists') = Len(hists)
        /\ Active' = Active
        /\ \A k \in 1..(Len(hists) - 1) : hists'[k] = hists[k]
        /\ hists'[Len(hists)] = [block |-> Top.block, side |-> 2, tnxt |-> cur]
    BY <1>10, TurnFacts
  <2>3. \A b : Handled(b)' <=> Handled(b)
    BY <2>1, <2>2 DEF Handled, Seen
  <2>4. FinishedVisited'
    BY <1>9, <2>1, <2>2 DEF FinishedVisited, Seen, Handled, Successors
  <2>5. TrueSideVisited'
    <3>1. ASSUME NEW k \in 1..Len(hists'), hists'[k].side = 2,
                 NEW c, c = SuccOf(prog, hists'[k].block)[1]
          PROVE  Handled(c)
      <4>1. CASE k = Len(hists)
        BY <1>9, <2>1, <2>2, <3>1, <4>1
      <4>2. CASE k # Len(hists)
        <5>1. k \in 1..(Len(hists) - 1) /\ k \in 1..Len(hists)
          BY <1>0, <2>2, <4>2
        <5>. QED
          BY <1>9, <2>1, <2>2, <3>1, <5>1 DEF TrueSideVisited
      <4>. QED
        BY <4>1, <4>2
    <3>. QED
      BY <2>1, <2>2, <3>1 DEF TrueSideVisited, Handled, Seen
  <2>6. Handled(EntryBlock)'
    BY <1>9, <2>1, <2>3
  <2>. QED
    BY <2>1, <2>2, <2>4, <2>5, <2>6 DEF VisitInv, ResultVisited, EntryVisited
<1>11. CASE JointFinish
  <2>. DEFINE t == Top.block
  <2>0. hists # <<>> /\ Top = hists[Len(hists)] /\ Top.side \in 1..2
    BY <1>11, StackFacts DEF JointFinish, Top, Frames
  <2>1. /\ dedup[t] = Unseen => dedup'[t] = cur'
        /\ dedup[t] # Unseen => dedup'[t] = dedup[t]
        /\ \A b \in Blocks : b # t => dedup'[b] = dedup[b]
        /\ t \in Blocks /\ UNCHANGED <<prog, reach>>
        /\ pc = "return" /\ pc' = "return"
        /\ Arity(t) = Top.side
    BY <1>11, FinishFacts
  <2>2. cur' # Unseen
    <3>1. TypeOK'
      BY TypeStep
    <3>. QED
      BY <3>1, SentinelAssumption DEF TypeOK
  <2>3. /\ Len(hists) \in 1..Len(hists)
        /\ Active \subseteq Active' \cup {t}
        /\ \A k \in 1..Len(hists') : k \in 1..Len(hists) /\ hists'[k] = hists[k]
        /\ hists' # <<>> => /\ Len(hists) - 1 \in 1..Len(hists)
                            /\ Top' = hists[Len(hists) - 1]
    BY <1>0, <1>11, PopFacts
  <2>4. /\ \A b \in Blocks : Seen(b) => Seen(b)'
        /\ \A b \in Blocks : b = t => Seen(b)'
        /\ \A b \in Blocks : Seen(b)' => b = t \/ Seen(b)
    BY <2>1, <2>2 DEF Seen
  <2>5. \A b \in Blocks : Seen(b) \/ b \in Active => Seen(b)' \/ b \in Active'
    BY <2>3, <2>4
  <2>6. \A b : Handled(b) => Handled(b)'
    BY <1>3, <2>1, <2>5
  <2>7. \A d \in Successors(prog, t) : Handled(d)
    <3>1. ASSUME NEW k \in 1..Arity(t)
          PROVE  Handled(SuccOf(prog, t)[k])
      <4>1. k = Top.side \/ (k = 1 /\ Top.side = 2)
        BY <2>0, <2>1
      <4>. QED
        BY <1>9, <2>0, <2>1, <2>3, <4>1 DEF TrueSideVisited
    <3>. QED
      BY <3>1 DEF Successors, Arity
  <2>8. ASSUME NEW b \in Blocks, Seen(b)', b \notin Active',
               NEW d \in Successors(prog, b)
        PROVE  Handled(d)'
    <3>1. CASE b = t
      BY <2>6, <2>7, <2>8, <3>1
    <3>2. CASE b # t
      <4>1. Seen(b) /\ b \notin Active
        BY <2>3, <2>4, <2>8, <3>2
      <4>2. Handled(d)
        BY <1>9, <2>1, <2>8, <4>1 DEF FinishedVisited
      <4>. QED
        BY <2>6, <4>2
    <3>. QED
      BY <3>1, <3>2
  <2>9. FinishedVisited'
    BY <2>1, <2>8 DEF FinishedVisited, Successors
  <2>10. TrueSideVisited'
    <3>1. ASSUME NEW k \in 1..Len(hists'), hists'[k].side = 2,
                 NEW c, c = SuccOf(prog, hists'[k].block)[1]
          PROVE  Handled(c)'
      <4>1. Handled(c)
        BY <1>9, <2>1, <2>3, <3>1 DEF TrueSideVisited
      <4>. QED
        BY <2>6, <4>1
    <3>. QED
      BY <2>1, <3>1 DEF TrueSideVisited, Handled
  <2>11. ResultVisited'
    <3>1. ASSUME hists' # <<>>, NEW c,
                 c = SuccOf(prog, Top'.block)[Top'.side]
          PROVE  c \in Blocks /\ c = t
      <4>1. Len(hists) \in 2..Len(hists)
        BY <1>0, <2>3, <3>1
      <4>2. Linked(Len(hists))
        BY <4>1 DEF StackInv
      <4>. QED
        BY <2>0, <2>1, <2>3, <3>1, <4>2 DEF Linked
    <3>. QED
      BY <2>1, <2>4, <3>1 DEF ResultVisited, Handled
  <2>12. Handled(EntryBlock)'
    BY <1>9, <2>1, <2>6
  <2>. QED
    BY <2>1, <2>9, <2>10, <2>11, <2>12 DEF VisitInv, EntryVisited
<1>12. CASE JointReturned
  BY <1>12 DEF JointReturned, VisitInv
<1>13. CASE Stopped \/ UNCHANGED vars
  <2>1. UNCHANGED vars
    BY <1>13 DEF Stopped
  <2>. QED
    BY <2>1 DEF VisitInv, FinishedVisited, TrueSideVisited, ResultVisited,
                EntryVisited, Handled, Seen, Active, Top, Successors, vars
<1>14. CASE Joint
  BY <1>6, <1>7, <1>8, <1>10, <1>11, <1>12, <1>14 DEF Joint
<1>. QED
  BY <1>1, <1>2, <1>13, <1>14 DEF Next, Step

(* Every step keeps the promise that the walk will not answer null. *)
LEMMA AssuredStep ==
  TypeOK /\ StackInv /\ DataInv /\ AssuredInv /\ [Next]_vars => AssuredInv'
<1> SUFFICES ASSUME TypeOK, StackInv, DataInv, AssuredInv, [Next]_vars
             PROVE  AssuredInv'
  OBVIOUS
<1>. USE DEF Walking
<1>. DEFINE Came == Seen(FetchBlock) \/ FetchBlock \in Active
<1>0. /\ prog \in Programs /\ reach \subseteq Blocks /\ Len(hists) \in Nat
      /\ FetchBlock \in Blocks
  BY StackFacts, ProgramFacts DEF TypeOK
<1>1. CASE Trace
  <2>1. CASE pc' # "call"
    BY <1>1, <2>1 DEF Trace, Btrace, Follow, BtraceDone, FollowDone, UnknownValue, AssuredInv
  <2>2. CASE pc' = "call"
    <3>1. /\ hists' = <<>> /\ prog' = prog
          /\ dedup' = [b \in Blocks |-> Unseen]
      BY <1>1, <2>2 DEF Trace, Btrace, Follow, BtraceDone, FollowDone, UnknownValue
    <3>2. 1..Len(hists') = {}
      BY <3>1
    <3>3. FetchBlock' = FetchBlock /\ Active' = {}
      BY <3>1, <3>2 DEF FetchBlock, Active
    <3>. QED
      BY <1>0, <3>1, <3>3 DEF AssuredInv, Seen
  <2>. QED
    BY <2>1, <2>2
<1>2. ASSUME UNCHANGED <<prog, backs>>
      PROVE  FetchBlock' = FetchBlock /\ \A b : Insts(b)' = Insts(b)
  BY <1>2 DEF FetchBlock, Insts
<1>3. CASE JointKnown \/ JointLoop
  <2>1. /\ pc = "call" /\ UNCHANGED <<prog, backs, hists, dedup>>
    BY <1>3 DEF JointKnown, JointLoop
  <2>2. FetchBlock' = FetchBlock /\ \A b : Insts(b)' = Insts(b)
    BY <1>2, <2>1
  <2>3. Came => \E k \in 1..Len(hists) : Assuring(k)
    BY <2>1 DEF AssuredInv, Assured
  <2>. QED
    BY <2>1, <2>2, <2>3 DEF AssuredInv, Assured, Assuring, Seen, Active
<1>4. CASE JointLeaf
  <2>1. /\ pc = "call" /\ cur \in Blocks /\ Arity(cur) = 0 /\ cur \in reach
        /\ IF Insts(cur) # {} THEN pc' = "return" /\ cur' = cur
                              ELSE pc' = "abort"
    BY <1>0, <1>4 DEF JointLeaf, NewBlock, Return
  <2>2. Insts(cur) # {}
    BY <2>1, LeafIsFetchBlock, FetchBlockHolds
  <2>. QED
    BY <2>1, <2>2, SentinelAssumption DEF AssuredInv, Assured
<1>5. CASE JointEnter
  <2>1. /\ pc = "call" /\ pc' = "call" /\ cur \in Blocks /\ MarkIfSliced
        /\ UNCHANGED <<prog, backs>>
    BY <1>0, <1>5 DEF JointEnter, NewBlock
  <2>2. /\ FetchBlock' = FetchBlock /\ \A b : Insts(b)' = Insts(b)
        /\ \A b \in Blocks : b # cur => dedup'[b] = dedup[b]
    BY <1>2, <2>1, MarkFacts
  <2>3. /\ Len(hists') = Len(hists) + 1
        /\ Active' = Active \cup {cur}
        /\ \A k \in 1..Len(hists) : k \in 1..Len(hists') /\ hists'[k] = hists[k]
        /\ Len(hists') \in 1..Len(hists')
        /\ hists'[Len(hists')] = [block |-> cur, side |-> 1, tnxt |-> Null]
    BY <1>0, <1>5, PushFacts
  <2>4. CASE cur = FetchBlock
    <3>1. Insts(hists'[Len(hists')].block) # {}
      BY <2>1, <2>3, <2>4, FetchBlockHolds
    <3>2. \E k \in 1..Len(hists') : Insts(hists'[k].block) # {}
      BY <2>3, <3>1
    <3>. QED
      BY <2>2, <3>2 DEF AssuredInv, Assured, Assuring
  <2>5. CASE cur # FetchBlock
    <3>1. (Seen(FetchBlock)' \/ FetchBlock \in Active') => Came
      BY <1>0, <2>2, <2>3, <2>5 DEF Seen
    <3>2. Came => \E k \in 1..Len(hists) : Assuring(k)
      BY <2>1 DEF AssuredInv, Assured
    <3>3. ASSUME NEW k \in 1..Len(hists), Assuring(k)
          PROVE  k \in 1..Len(hists') /\ Assuring(k)'
      BY <2>2, <2>3, <3>3 DEF Assuring
    <3>. QED
      BY <2>2, <3>1, <3>2, <3>3 DEF AssuredInv, Assured
  <2>. QED
    BY <2>4, <2>5
<1>6. CASE JointTrueSide
  <2>1. /\ pc = "return" /\ pc' = "call" /\ hists # <<>>
        /\ Top.side = 1 /\ UNCHANGED <<prog, backs, dedup>>
    BY <1>6 DEF JointTrueSide
  <2>2. FetchBlock' = FetchBlock /\ \A b : Insts(b)' = Insts(b)
    BY <1>2, <2>1
  <2>3. /\ Len(hists') = Len(hists) /\ Active' = Active
        /\ \A k \in 1..(Len(hists) - 1) : hists'[k] = hists[k]
        /\ hists'[Len(hists)] = [block |-> Top.block, side |-> 2, tnxt |-> cur]
    BY <1>6, TurnFacts
  <2>4. Len(hists) \in 1..Len(hists) /\ hists[Len(hists)] = Top
    BY <1>0, <2>1, StackFacts DEF Top
  <2>5. Top.tnxt = Null
    BY <2>1, <2>4 DEF StackInv, FrameOK
  <2>6. Came => Assured
    BY <2>1 DEF AssuredInv
  <2>7. CASE cur # Null
    <3>1. hists'[Len(hists)].tnxt # Null
      BY <2>3, <2>7
    <3>2. \E k \in 1..Len(hists') : hists'[k].tnxt # Null
      BY <2>3, <2>4, <3>1
    <3>. QED
      BY <3>2 DEF AssuredInv, Assured, Assuring
  <2>8. ASSUME NEW k \in 1..Len(hists), Assuring(k)
        PROVE  \E j \in 1..Len(hists') : Assuring(j)'
    <3>1. CASE k = Len(hists)
      <4>1. Insts(Top.block) # {} /\ hists'[k].block = Top.block
        BY <2>3, <2>4, <2>5, <2>8, <3>1 DEF Assuring
      <4>2. Assuring(k)'
        BY <2>2, <4>1 DEF Assuring
      <4>. QED
        BY <2>3, <4>2
    <3>2. CASE k # Len(hists)
      <4>1. k \in 1..(Len(hists) - 1)
        BY <1>0, <3>2
      <4>2. Assuring(k)'
        BY <2>2, <2>3, <2>8, <4>1 DEF Assuring
      <4>. QED
        BY <2>3, <4>2
    <3>. QED
      BY <3>1, <3>2
  <2>9. CASE cur = Null
    BY <2>1, <2>2, <2>3, <2>6, <2>8, <2>9 DEF AssuredInv, Assured, Seen
  <2>. QED
    BY <2>7, <2>9
<1>7. CASE JointFinish
  <2>. DEFINE b == Top.block
  <2>1. PICK tnxt :
          /\ Arity(b) = 2 => tnxt = Top.tnxt
          /\ Arity(b) # 2 => tnxt = cur
          /\ cur' = Answer(b, tnxt, cur)
          /\ \A c \in Blocks : c # b => dedup'[c] = dedup[c]
          /\ b \in Blocks /\ b \in Active
          /\ UNCHANGED <<prog, backs>>
          /\ pc = "return" /\ pc' = "return"
          /\ Arity(b) = Top.side
    BY <1>7, FinishFacts
  <2>2. FetchBlock' = FetchBlock /\ \A c : Insts(c)' = Insts(c)
    BY <1>2, <2>1
  <2>3. /\ hists # <<>> /\ Len(hists) \in 1..Len(hists) /\ hists[Len(hists)] = Top
        /\ Top.side \in 1..2
        /\ Len(hists') = Len(hists) - 1 /\ Active' \subseteq Active
        /\ \A k \in 1..Len(hists') : hists'[k] = hists[k]
    BY <1>0, <1>7, PopFacts, StackFacts DEF JointFinish, Top, Frames
  <2>4. (Seen(FetchBlock)' \/ FetchBlock \in Active') => Came
    BY <1>0, <2>1, <2>2, <2>3 DEF Seen
  <2>5. Came => Assured
    BY <2>1 DEF AssuredInv
  <2>6. b # Null
    BY <2>1, SentinelAssumption
  <2>7. Insts(b) # {} \/ tnxt # Null \/ cur # Null => cur' # Null
    BY <2>1, <2>6 DEF Answer, Decides
  <2>8. ASSUME NEW k \in 1..Len(hists), Assuring(k)
        PROVE  Assured'
    <3>1. CASE k = Len(hists)
      <4>1. Insts(b) # {} \/ Top.tnxt # Null
        BY <2>3, <2>8, <3>1 DEF Assuring
      <4>2. Top.tnxt # Null => tnxt # Null
        <5>1. Top.side = 1 => Top.tnxt = Null
          BY <2>3 DEF StackInv, FrameOK
        <5>. QED
          BY <2>1, <2>3, <5>1
      <4>. QED
        BY <2>1, <2>7, <4>1, <4>2 DEF Assured
    <3>2. CASE k # Len(hists)
      <4>1. k \in 1..Len(hists')
        BY <1>0, <2>3, <3>2
      <4>2. Assuring(k)'
        BY <2>2, <2>3, <2>8, <4>1 DEF Assuring
      <4>. QED
        BY <4>1, <4>2 DEF Assured
    <3>. QED
      BY <3>1, <3>2
  <2>9. cur # Null => Assured'
    BY <2>1, <2>7 DEF Assured
  <2>10. Assured => Assured'
    BY <2>8, <2>9 DEF Assured
  <2>. QED
    BY <2>2, <2>4, <2>5, <2>10 DEF AssuredInv, Seen
<1>8. CASE JointReturned
  BY <1>8 DEF JointReturned, AssuredInv
<1>9. CASE Stopped \/ UNCHANGED vars
  <2>1. UNCHANGED vars
    BY <1>9 DEF Stopped
  <2>. QED
    BY <2>1 DEF AssuredInv, Assured, Assuring, Insts, Seen, Active, FetchBlock,
                vars
<1>10. CASE Joint
  BY <1>3, <1>4, <1>5, <1>6, <1>7, <1>8, <1>10 DEF Joint
<1>. QED
  BY <1>1, <1>9, <1>10 DEF Next, Step

(* When the walk is over it has been to the block of the fetch, which the  *)
(* entry block reaches: the blocks it has been to, or need not go to, are  *)
(* closed under the successors.                                            *)
LEMMA WalkMeetsFetch ==
  ASSUME TypeOK, DataInv, VisitInv, pc = "return", hists = <<>>
  PROVE  Seen(FetchBlock)
<1>. DEFINE succ == SuccGraph(prog)
            T == {b \in Blocks : b \notin reach \/ Seen(b)}
<1>1. /\ prog \in Programs /\ FetchBlock \in Blocks /\ FetchBlock \in reach
      /\ Closed(reach, PredGraph(prog))
  BY ProgramFacts, ReachFacts DEF TypeOK, DataInv
<1>2. Active = {}
  <2>1. 1..Len(hists) = {}
    OBVIOUS
  <2>. QED
    BY <2>1 DEF Active
<1>3. T \in SUBSET DOMAIN succ
  BY DEF SuccGraph
<1>4. {EntryBlock} \subseteq T
  BY <1>2, EntryAssumption DEF VisitInv, Walking, EntryVisited, Handled
<1>5. ASSUME NEW b \in T, NEW c \in Successors(prog, b)
      PROVE  c \in T
  <2>1. c \in Blocks
    BY <1>1, <1>5, ProgramFacts
  <2>2. CASE b \notin reach
    <3>1. b \in PredGraph(prog)[c]
      BY <1>5, <2>1 DEF PredGraph
    <3>. QED
      BY <1>1, <2>1, <2>2, <3>1 DEF Closed
  <2>3. CASE Seen(b)
    BY <1>2, <1>5, <2>1, <2>3 DEF VisitInv, Walking, FinishedVisited, Handled
  <2>. QED
    BY <1>5, <2>2, <2>3
<1>6. Closed(T, succ)
  BY <1>5 DEF Closed, SuccGraph
<1>7. Closure({EntryBlock}, succ) \subseteq T
  <2>. HIDE DEF T, succ
  <2>. QED
    BY <1>3, <1>4, <1>6, ClosureLeast
<1>8. FetchBlock \in Closure({EntryBlock}, succ)
  BY <1>1, ProgramAssumption DEF WellFormed, FetchBlock
<1>. QED
  BY <1>1, <1>7, <1>8

(* The fetch, what is used or uses, and the ends of two-way branches: all  *)
(* the tracing can come to.  The slice holds none of them that btrace has  *)
(* no case for.                                                            *)
Tied(v) ==
  \/ v = FetchOf(prog)
  \/ \E u \in Values : v \in OpsOf(prog, u) \cup UsersOf(prog, u)
  \/ \E b \in Blocks : Arity(b) = 2 /\ v = TermOf(prog, b)

TiedInv ==
  /\ \A v \in todo \cup taints : v \in RootsOf(prog) \/ Tied(v)
  /\ roots \subseteq RootsOf(prog)
  /\ backs \cap UntraceableOf(prog) = {}

(* Every step of the tracing stays with those. *)
LEMMA TiedStep ==
  TypeOK /\ StackInv /\ TiedInv /\ [Next]_vars => TiedInv'
<1> SUFFICES ASSUME TypeOK, StackInv, TiedInv, [Next]_vars
             PROVE  TiedInv'
  OBVIOUS
<1>0. prog \in Programs /\ todo \subseteq Values /\ Len(hists) \in Nat
  BY StackFacts DEF TypeOK
<1>1. ASSUME prog' = prog
      PROVE  \A v : Tied(v)' <=> Tied(v)
  BY <1>1 DEF Tied, Arity
<1>2. ASSUME NEW v \in todo, Btrace(v)
      PROVE  TiedInv'
  <2>1. /\ prog' = prog /\ taints' = taints /\ v \notin UntraceableOf(prog)
        /\ backs' = backs \cup {v}
        /\ roots' \subseteq roots \cup ({v} \cap RootsOf(prog))
        /\ todo' \subseteq todo \cup OpsOf(prog, v)
    BY <1>2 DEF Btrace
  <2>2. \A u \in OpsOf(prog, v) : Tied(u)
    BY <1>0 DEF Tied
  <2>3. \A u \in todo' \cup taints' : u \in RootsOf(prog') \/ Tied(u)'
    BY <1>1, <2>1, <2>2 DEF TiedInv
  <2>4. roots' \subseteq RootsOf(prog') /\ backs' \cap UntraceableOf(prog') = {}
    BY <2>1 DEF TiedInv
  <2>. QED
    BY <2>3, <2>4 DEF TiedInv
<1>3. ASSUME NEW v \in todo, Follow(v)
      PROVE  TiedInv'
  <2>1. /\ UNCHANGED <<prog, backs, roots>>
        /\ taints' = taints \cup Followed(v)
        /\ todo' \subseteq todo \cup Followed(v)
    BY <1>3 DEF Follow
  <2>2. \A u \in Followed(v) : Tied(u)
    BY <1>0 DEF Tied, Followed
  <2>. QED
    BY <1>1, <2>1, <2>2 DEF TiedInv
<1>4. CASE BtraceDone \/ FollowDone \/ UnknownValue \/ JointReturned
  <2>1. /\ UNCHANGED <<prog, backs, roots>>
        /\ todo' \subseteq todo \cup taints \cup roots
        /\ taints' \subseteq taints
    BY <1>4 DEF BtraceDone, FollowDone, UnknownValue, JointReturned
  <2>. QED
    BY <1>1, <2>1 DEF TiedInv
<1>5. CASE JointKnown \/ JointLoop \/ JointEnter \/ JointLeaf \/ JointTrueSide
  <2>1. UNCHANGED <<prog, todo, backs, roots, taints>>
    BY <1>5 DEF JointKnown, JointLoop, JointEnter, JointLeaf, JointTrueSide, NewBlock
  <2>. QED
    BY <1>1, <2>1 DEF TiedInv
<1>6. CASE JointFinish
  <2>1. /\ UNCHANGED <<prog, todo, backs, roots>>
        /\ Top.block \in Blocks /\ Arity(Top.block) = Top.side
        /\ taints' = taints \/ (/\ Arity(Top.block) = 2
                               /\ taints' = taints \cup NewTaint(Top.block))
    <3>1. Top \in Frames
      BY <1>6, StackFacts DEF JointFinish
    <3>2. /\ UNCHANGED <<prog, todo, backs, roots>> /\ Arity(Top.block) = Top.side
          /\ taints' = taints \/ (/\ Decides(IF Arity(Top.block) = 2 THEN Top.tnxt ELSE cur, cur)
                                 /\ taints' = taints \cup NewTaint(Top.block))
      BY <1>6 DEF JointFinish
    <3>3. Decides(IF Arity(Top.block) = 2 THEN Top.tnxt ELSE cur, cur) => Arity(Top.block) = 2
      BY DEF Decides
    <3>. QED
      BY <3>1, <3>2, <3>3 DEF Frames
  <2>2. Arity(Top.block) = 2 => \A u \in NewTaint(Top.block) : Tied(u)
    BY <2>1 DEF NewTaint, Tied
  <2>. QED
    BY <1>1, <2>1, <2>2 DEF TiedInv
<1>7. CASE Stopped \/ UNCHANGED vars
  <2>1. UNCHANGED <<prog, todo, backs, roots, taints>>
    BY <1>7 DEF Stopped, vars
  <2>. QED
    BY <1>1, <2>1 DEF TiedInv
<1>. QED
  BY <1>2, <1>3, <1>4, <1>5, <1>6, <1>7 DEF Next, Step, Trace, Joint

LEMMA TiedInit == Init => TiedInv
BY DEF Init, TiedInv, Tied

(* When the tracing gives up, it has come to a value without a case. *)
LEMMA GivesUpAtUntreated ==
  ASSUME TypeOK, DataInv, TiedInv, UnknownValue
  PROVE  Untreated # {}
<1>0. prog \in Programs /\ todo \subseteq Values
  BY DEF TypeOK
<1>1. UntraceableOf(prog) \cap (RootsOf(prog) \cup {FetchOf(prog)}) = {}
  BY <1>0, ProgramAssumption DEF WellFormed
<1>2. ASSUME NEW v \in todo, v \in UntraceableOf(prog)
      PROVE  v \in Untreated
  <2>1. HostOf(prog, v) \in reach \cup {Null}
    BY DEF DataInv, SliceInReach
  <2>2. Tied(v) /\ v # FetchOf(prog)
    BY <1>1, <1>2 DEF TiedInv
  <2>. QED
    BY <1>2, <2>1, <2>2 DEF Untreated, Tied
<1>3. ASSUME NEW v \in todo, NEW u \in Strays(v)
      PROVE  u \in Untreated
  BY <1>0 DEF Strays, Followed, Untreated
<1>. QED
  BY <1>2, <1>3 DEF UnknownValue

(* No step breaks an assertion of the walk. *)
LEMMA AbortStep ==
  /\ TypeOK /\ StackInv /\ DataInv /\ WalkInv /\ VisitInv /\ AssuredInv /\ TiedInv
  /\ AbortsKnown /\ [Next]_vars
  => AbortsKnown'
<1> SUFFICES ASSUME TypeOK, StackInv, DataInv, WalkInv, VisitInv, AssuredInv, TiedInv,
                    AbortsKnown, [Next]_vars
             PROVE  AbortsKnown'
  OBVIOUS
<1>0. ASSUME UNCHANGED <<prog, reach>>
      PROVE  Untreated' = Untreated
  BY <1>0 DEF Untreated, Arity
<1>1. ASSUME NEW v \in todo, Btrace(v) \/ Follow(v)
      PROVE  AbortsKnown'
  BY <1>1 DEF Btrace, Follow, AbortsKnown
<1>2. CASE BtraceDone \/ FollowDone
  BY <1>2 DEF BtraceDone, FollowDone, AbortsKnown
<1>3. CASE UnknownValue
  <2>1. pc' = "unknown" /\ UNCHANGED <<prog, reach>>
    BY <1>3 DEF UnknownValue
  <2>. QED
    BY <1>0, <1>3, <2>1, GivesUpAtUntreated DEF AbortsKnown
<1>4. CASE JointLeaf
  <2>1. /\ pc = "call" /\ Arity(cur) = 0 /\ cur \in reach
        /\ Insts(cur) # {} => pc' = "return"
    BY <1>4 DEF JointLeaf, NewBlock, Return
  <2>. QED
    BY <2>1, LeafIsFetchBlock, FetchBlockHolds DEF AbortsKnown
<1>5. CASE JointReturned
  <2>1. pc = "return" /\ hists = <<>>
    BY <1>5 DEF JointReturned
  <2>2. Seen(FetchBlock) /\ FetchBlock \in Blocks
    BY <2>1, WalkMeetsFetch, ProgramFacts DEF TypeOK
  <2>3. FetchBlock \in suits
    BY <2>1, <2>2, FetchBlockHolds DEF WalkInv, Walking, MetInSuits
  <2>4. cur # Null
    <3>1. 1..Len(hists) = {}
      BY <2>1
    <3>. QED
      BY <2>1, <2>2, <3>1 DEF AssuredInv, Assured, Walking
  <2>5. cur \in suits
    BY <2>1, <2>4 DEF WalkInv, Walking, AnswersInSuits
  <2>. QED
    BY <1>5, <2>3, <2>5 DEF JointReturned, AbortsKnown
<1>6. CASE JointKnown \/ JointLoop \/ JointEnter \/ JointTrueSide \/ JointFinish
  BY <1>6 DEF JointKnown, JointLoop, JointEnter, JointTrueSide, JointFinish,
              NewBlock, Return, AbortsKnown
<1>7. CASE Stopped \/ UNCHANGED vars
  <2>1. UNCHANGED <<prog, reach, pc>>
    BY <1>7 DEF Stopped, vars
  <2>. QED
    BY <1>0, <2>1 DEF AbortsKnown
<1>. QED
  BY <1>1, <1>2, <1>3, <1>4, <1>5, <1>6, <1>7 DEF Next, Step, Trace, Joint

(* The inductive invariant of the slicing loop. *)
SliceInv ==
  /\ TypeOK
  /\ StackInv
  /\ DataInv
  /\ WalkInv
  /\ VisitInv
  /\ AssuredInv
  /\ TiedInv
  /\ AbortsKnown

(* On any control flow graph and any data flow the constructor aborts only *)
(* if a block that reaches the fetch, or a constant, has a value btrace or *)
(* follow has no case for and that is used, uses another or ends a         *)
(* two-way branch.  Otherwise no assertion fails: a return block holds     *)
(* slice instructions, every walk finds an entry that is a block of the    *)
(* slice, and the block of the fetch is one.                               *)
THEOREM AbortsCorrect == Spec => []AbortsKnown
<1>1. Init => VisitInv /\ AssuredInv /\ AbortsKnown
  BY DEF Init, VisitInv, AssuredInv, AbortsKnown, Walking
<1>2. TypeOK /\ StackInv /\ DataInv /\ VisitInv /\ [Next]_vars => VisitInv'
  BY VisitStep
<1>3. TypeOK /\ StackInv /\ DataInv /\ AssuredInv /\ [Next]_vars => AssuredInv'
  BY AssuredStep
<1>4. TypeOK /\ StackInv /\ TiedInv /\ [Next]_vars => TiedInv'
  BY TiedStep
<1>5. SliceInv /\ [Next]_vars => AbortsKnown'
  BY AbortStep DEF SliceInv
<1>. QED
  BY <1>1, <1>2, <1>3, <1>4, <1>5, TiedInit, WalkInvariant, PTL DEF Spec, SliceInv

------------------------------------------------------------------------------
(* The answers of joint. *)

(* The blocks without instructions of the slice that reach the fetch, and  *)
(* what control can meet from b on through those.                          *)
Open(b) == b \in reach /\ Insts(b) = {}

OpenGraph == [c \in Blocks |-> IF Open(c) THEN Successors(prog, c) ELSE {}]

OpenFrom(b) == Closure({b}, OpenGraph)

(* What is known of a block, of the true side of an active call, and what  *)
(* the last call returned, is a block control can meet from there on.      *)
AnswersMet ==
  /\ \A b \in Blocks : dedup[b] \in Blocks => dedup[b] \in OpenFrom(b)
  /\ \A k \in 1..Len(hists) :
       hists[k].tnxt # Null =>
         hists[k].tnxt \in OpenFrom(SuccOf(prog, hists[k].block)[1])
  /\ pc = "return" /\ hists # <<>> /\ cur # Null =>
       cur \in OpenFrom(SuccOf(prog, Top.block)[Top.side])

(* A walk that has found a new branch may have put an empty block between  *)
(* a block and its answer, but then another walk follows.                  *)
AnswerInv ==
  /\ Walking /\ taints = {} => AnswersMet
  /\ AnswerIsReal

LEMMA OpenFacts ==
  ASSUME prog \in Programs, NEW b \in Blocks
  PROVE  /\ b \in OpenFrom(b)
         /\ Open(b) => \A c \in Successors(prog, b) : OpenFrom(c) \subseteq OpenFrom(b)
<1>. DEFINE G == OpenGraph
<1>1. /\ DOMAIN G = Blocks
      /\ \A c \in Blocks : G[c] \subseteq Blocks
      /\ Open(b) => G[b] = Successors(prog, b)
  BY ProgramFacts DEF OpenGraph
<1>2. \A c : OpenFrom(c) = Closure({c}, G)
  BY DEF OpenFrom
<1>. HIDE DEF G
<1>3. {b} \subseteq OpenFrom(b)
  BY <1>1, <1>2, ClosureExtends
<1>4. Closed(OpenFrom(b), G)
  BY <1>1, <1>2, ClosureIsClosed
<1>5. OpenFrom(b) \in SUBSET DOMAIN G
  BY <1>2 DEF Closure
<1>6. ASSUME Open(b), NEW c \in Successors(prog, b)
      PROVE  OpenFrom(c) \subseteq OpenFrom(b)
  <2>1. {c} \subseteq OpenFrom(b)
    BY <1>1, <1>3, <1>4, <1>6 DEF Closed
  <2>. QED
    BY <1>2, <1>4, <1>5, <2>1, ClosureLeast
<1>. QED
  BY <1>3, <1>6

(* On a loop, the blocks from the one called again to the one whose answer *)
(* is taken are active and have no answer: they hold no instructions.      *)
LEMMA LoopAnswerIsMet ==
  ASSUME TypeOK, StackInv, MetInSuits, AnswersMet, cur \in Active,
         Nearest # Null
  PROVE  Nearest \in OpenFrom(cur)
<1>1. hists \in Seq(Frames) /\ prog \in Programs /\ Len(hists) \in Nat
  BY StackFacts DEF TypeOK
<1>2. PICK k \in 1..Len(hists) :
        /\ Nearest = dedup[hists[k].block]
        /\ Nearest # Unseen
        /\ \E i \in 1..k :
             /\ hists[i].block = cur
             /\ \A j \in i..(k - 1) : dedup[hists[j].block] = Unseen
  BY <1>1, NearestIsKnown
<1>3. PICK i \in 1..k :
        /\ hists[i].block = cur
        /\ \A j \in i..(k - 1) : dedup[hists[j].block] = Unseen
  BY <1>2
<1>4. \A j \in 1..Len(hists) : hists[j].block \in Blocks /\ hists[j].block \in Active
  BY StackFacts
<1>5. Nearest \in OpenFrom(hists[k].block)
  <2>1. Nearest \in Blocks
    BY <1>2, <1>4 DEF TypeOK
  <2>. QED
    BY <1>2, <1>4, <2>1 DEF AnswersMet
<1>6. ASSUME NEW j \in i..(k - 1)
      PROVE  OpenFrom(hists[j + 1].block) \subseteq OpenFrom(hists[j].block)
  <2>1. j \in 1..Len(hists) /\ j + 1 \in 2..Len(hists) /\ (j + 1) - 1 = j
    BY <1>1, <1>2, <1>3
  <2>2. Open(hists[j].block)
    BY <1>3, <1>4, <2>1 DEF StackInv, FrameOK, MetInSuits, Seen, Open
  <2>3. hists[j + 1].block = SuccOf(prog, hists[j].block)[hists[j].side]
    BY <2>1 DEF StackInv, Linked
  <2>4. hists[j].side \in 1..Arity(hists[j].block)
    <3>1. hists[j].side \in 1..2 /\ hists[j].side <= Arity(hists[j].block)
      BY <2>1, StackFacts DEF StackInv, FrameOK, Frames
    <3>2. Arity(hists[j].block) \in 0..2
      BY <1>1, <1>4, <2>1, ProgramFacts
    <3>. QED
      BY <3>1, <3>2
  <2>5. hists[j + 1].block \in Successors(prog, hists[j].block)
    BY <1>1, <1>4, <2>1, <2>3, <2>4, ProgramFacts
  <2>. QED
    BY <1>1, <1>4, <2>1, <2>2, <2>5, OpenFacts
<1>. DEFINE far == {n \in Nat : n <= k - i /\ Nearest \in OpenFrom(hists[k - n].block)}
            missed == {n \in Nat : n <= k - i /\ n \notin far}
<1>7. ASSUME missed # {}
      PROVE  FALSE
  <2>1. PICK n \in missed : \A m \in missed : n <= m
    BY <1>7, LeastExists
  <2>2. n # 0
    <3>1. k - 0 = k
      OBVIOUS
    <3>. QED
      BY <1>5, <2>1, <3>1
  <2>3. n - 1 \in far
    BY <2>1, <2>2
  <2>4. k - n \in i..(k - 1) /\ (k - n) + 1 = k - (n - 1)
    BY <2>1, <2>2
  <2>5. Nearest \in OpenFrom(hists[k - n].block)
    <3>1. Nearest \in OpenFrom(hists[(k - n) + 1].block)
      BY <2>3, <2>4
    <3>. QED
      BY <1>6, <2>4, <3>1
  <2>. QED
    BY <2>1, <2>5
<1>8. k - i \in far
  <2>1. k - i \in Nat /\ k - i <= k - i
    BY <1>1
  <2>2. k - i \notin missed
    BY <1>7
  <2>. QED
    BY <2>1, <2>2
<1>9. k - (k - i) = i
  OBVIOUS
<1>. QED
  BY <1>3, <1>8, <1>9

(* When no block of the slice is empty, control can pass the open blocks.  *)
LEMMA OpenIsPassing ==
  ASSUME prog \in Programs, \A c \in suits : Insts(c) # {}, NEW b \in Blocks
  PROVE  suits \cap OpenFrom(b) \subseteq NextSuits(b)
<1>. DEFINE P == [c \in Blocks |-> IF Passing(c) THEN Successors(prog, c) ELSE {}]
<1>1. /\ DOMAIN P = Blocks
      /\ \A c \in Blocks : P[c] \subseteq Blocks /\ OpenGraph[c] \subseteq P[c]
  BY ProgramFacts DEF OpenGraph, Open, Passing
<1>2. DOMAIN OpenGraph = Blocks
  BY DEF OpenGraph
<1>3. NextSuits(b) = suits \cap Closure({b}, P)
  BY DEF NextSuits
<1>. HIDE DEF P
<1>4. {b} \subseteq Closure({b}, P) /\ Closure({b}, P) \in SUBSET Blocks
  <2>1. {b} \in SUBSET DOMAIN P
    BY <1>1
  <2>2. Closure({b}, P) \in SUBSET Blocks
    BY <1>1 DEF Closure
  <2>. QED
    BY <2>1, <2>2, ClosureExtends
<1>5. Closed(Closure({b}, P), P)
  BY <1>1, ClosureIsClosed
<1>6. Closed(Closure({b}, P), OpenGraph)
  BY <1>1, <1>4, <1>5 DEF Closed
<1>7. OpenFrom(b) \subseteq Closure({b}, P)
  BY <1>2, <1>4, <1>6, ClosureLeast DEF OpenFrom
<1>. QED
  BY <1>3, <1>7

(* Every step of the walk keeps its answers real, as long as no new branch *)
(* was found.                                                              *)
LEMMA AnswerStep ==
  /\ TypeOK /\ StackInv /\ DataInv /\ WalkInv /\ AnswerInv /\ [Next]_vars
  => AnswerInv'
<1> SUFFICES ASSUME TypeOK, StackInv, DataInv, WalkInv, AnswerInv, [Next]_vars
             PROVE  AnswerInv'
  OBVIOUS
<1>. USE DEF Walking
<1>0. prog \in Programs /\ reach \subseteq Blocks /\ Len(hists) \in Nat
  BY StackFacts DEF TypeOK
<1>1. ASSUME UNCHANGED <<prog, reach, backs>>
      PROVE  /\ \A b : Insts(b)' = Insts(b) /\ Open(b)' = Open(b)
             /\ \A b : OpenFrom(b)' = OpenFrom(b)
  <2>1. \A b : Insts(b)' = Insts(b)
    BY <1>1 DEF Insts
  <2>2. \A b : Open(b)' = Open(b)
    BY <1>1, <2>1 DEF Open
  <2>3. OpenGraph' = OpenGraph
    BY <1>1, <2>2 DEF OpenGraph
  <2>. QED
    BY <2>1, <2>2, <2>3 DEF OpenFrom
<1>2. CASE pc' \notin {"call", "return", "done"}
  BY <1>2 DEF AnswerInv, AnswerIsReal
<1>3. CASE Trace
  <2>1. CASE FollowDone /\ taints = {}
    <3>1. /\ pc' = "call" /\ hists' = <<>>
          /\ dedup' = [b \in Blocks |-> Unseen]
      BY <2>1 DEF FollowDone
    <3>2. 1..Len(hists') = {}
      BY <3>1
    <3>3. AnswersMet'
      BY <3>1, <3>2, SentinelAssumption DEF AnswersMet
    <3>. QED
      BY <3>1, <3>3 DEF AnswerInv, AnswerIsReal
  <2>. QED
    BY <1>2, <1>3, <2>1 DEF Trace, Btrace, Follow, BtraceDone, FollowDone, UnknownValue
<1>4. ASSUME pc' \in {"call", "return"}, taints' = {} => AnswersMet'
      PROVE  AnswerInv'
  BY <1>4 DEF AnswerInv, AnswerIsReal
<1>5. ASSUME pc = "call", taints = {}
      PROVE  /\ AnswersMet
             /\ hists # <<>> => cur = SuccOf(prog, Top.block)[Top.side]
  BY <1>5 DEF AnswerInv, StackInv
<1>6. CASE JointKnown
  <2>1. /\ pc = "call" /\ pc' = "return" /\ cur \in Blocks \cup {Null}
        /\ cur' = IF cur \in reach THEN dedup[cur] ELSE Null
        /\ cur \notin reach \/ dedup[cur] # Unseen
        /\ UNCHANGED <<prog, reach, backs, taints, hists, dedup>>
    BY <1>6 DEF JointKnown, Return, TypeOK
  <2>2. ASSUME taints = {}
        PROVE  AnswersMet'
    <3>1. AnswersMet /\ (hists # <<>> => cur = SuccOf(prog, Top.block)[Top.side])
      BY <1>5, <2>1, <2>2
    <3>2. cur' # Null => cur' \in OpenFrom(cur)
      <4>1. CASE cur \in reach
        BY <1>0, <2>1, <3>1, <4>1 DEF AnswersMet, TypeOK
      <4>. QED
        BY <2>1, <4>1
    <3>. QED
      BY <1>1, <2>1, <3>1, <3>2 DEF AnswersMet, Top
  <2>. QED
    BY <1>4, <2>1, <2>2
<1>7. CASE JointLoop
  <2>1. /\ pc = "call" /\ pc' = "return" /\ cur' = Nearest /\ cur \in Active
        /\ UNCHANGED <<prog, reach, backs, taints, hists, dedup>>
    BY <1>7 DEF JointLoop, Return
  <2>2. ASSUME taints = {}
        PROVE  AnswersMet'
    <3>1. AnswersMet /\ (hists # <<>> => cur = SuccOf(prog, Top.block)[Top.side])
      BY <1>5, <2>1, <2>2
    <3>2. Nearest # Null => Nearest \in OpenFrom(cur)
      BY <2>1, <3>1, LoopAnswerIsMet DEF WalkInv
    <3>. QED
      BY <1>1, <2>1, <3>1, <3>2 DEF AnswersMet, Top
  <2>. QED
    BY <1>4, <2>1, <2>2
<1>8. ASSUME cur \in Blocks, MarkIfSliced, UNCHANGED <<prog, reach, backs>>,
             AnswersMet
      PROVE  \A b \in Blocks : dedup'[b] \in Blocks => dedup'[b] \in OpenFrom(b)'
  <2>1. ASSUME NEW b \in Blocks, dedup'[b] \in Blocks
        PROVE  dedup'[b] \in OpenFrom(b)
    <3>1. dedup'[b] = dedup[b] \/ dedup'[b] = b
      BY <1>8, MarkFacts
    <3>2. b \in OpenFrom(b)
      BY <1>0, OpenFacts
    <3>. QED
      BY <1>8, <2>1, <3>1, <3>2 DEF AnswersMet
  <2>. QED
    BY <1>1, <1>8, <2>1
<1>9. CASE JointEnter
  <2>1. /\ UNCHANGED <<prog, reach, backs, taints>> /\ pc = "call"
        /\ pc' = "call" /\ cur \in Blocks /\ MarkIfSliced
    BY <1>0, <1>9 DEF JointEnter, NewBlock
  <2>2. ASSUME taints = {}
        PROVE  AnswersMet'
    <3>1. AnswersMet
      BY <1>5, <2>1, <2>2
    <3>2. /\ Len(hists') = Len(hists) + 1
          /\ \A k \in 1..Len(hists) : hists'[k] = hists[k]
          /\ hists'[Len(hists) + 1] = [block |-> cur, side |-> 1, tnxt |-> Null]
      BY <1>9, PushFacts
    <3>3. \A k \in 1..Len(hists') : k \in 1..Len(hists) \/ k = Len(hists) + 1
      BY <1>0, <3>2
    <3>4. \A k \in 1..Len(hists') :
            hists'[k].tnxt # Null =>
              hists'[k].tnxt \in OpenFrom(SuccOf(prog, hists'[k].block)[1])
      BY <3>1, <3>2, <3>3 DEF AnswersMet
    <3>. QED
      BY <1>1, <1>8, <2>1, <3>1, <3>4 DEF AnswersMet
  <2>. QED
    BY <1>4, <2>1, <2>2
<1>10. CASE JointLeaf /\ Insts(cur) # {}
  <2>1. /\ UNCHANGED <<prog, reach, backs, taints, hists>> /\ pc = "call"
        /\ pc' = "return" /\ cur \in Blocks /\ MarkIfSliced /\ cur' = cur
    BY <1>0, <1>10 DEF JointLeaf, NewBlock, Return
  <2>2. ASSUME taints = {}
        PROVE  AnswersMet'
    <3>1. AnswersMet /\ (hists # <<>> => cur = SuccOf(prog, Top.block)[Top.side])
      BY <1>5, <2>1, <2>2
    <3>2. cur \in OpenFrom(cur)
      BY <1>0, <2>1, OpenFacts
    <3>. QED
      BY <1>1, <1>8, <2>1, <3>1, <3>2 DEF AnswersMet, Top
  <2>. QED
    BY <1>4, <2>1, <2>2
<1>11. CASE JointTrueSide
  <2>1. /\ UNCHANGED <<prog, reach, backs, taints, dedup>>
        /\ pc = "return" /\ pc' = "call" /\ hists # <<>> /\ Top.side = 1
    BY <1>11 DEF JointTrueSide
  <2>2. ASSUME taints = {}
        PROVE  AnswersMet'
    <3>1. AnswersMet
      BY <2>1, <2>2 DEF AnswerInv
    <3>2. /\ Len(hists') = Len(hists)
          /\ \A k \in 1..(Len(hists) - 1) : hists'[k] = hists[k]
          /\ hists'[Len(hists)] = [block |-> Top.block, side |-> 2, tnxt |-> cur]
      BY <1>11, TurnFacts
    <3>3. \A k \in 1..Len(hists') :
            \/ k = Len(hists)
            \/ k \in 1..(Len(hists) - 1) /\ k \in 1..Len(hists)
      BY <1>0, <3>2
    <3>4. cur # Null => cur \in OpenFrom(SuccOf(prog, Top.block)[1])
      BY <2>1, <3>1 DEF AnswersMet
    <3>5. \A k \in 1..Len(hists') :
            hists'[k].tnxt # Null =>
              hists'[k].tnxt \in OpenFrom(SuccOf(prog, hists'[k].block)[1])
      BY <3>1, <3>2, <3>3, <3>4 DEF AnswersMet
    <3>. QED
      BY <1>1, <2>1, <3>1, <3>5 DEF AnswersMet
  <2>. QED
    BY <1>4, <2>1, <2>2
<1>12. CASE JointFinish
  <2>. DEFINE b == Top.block
              n == Len(hists)
  <2>1. PICK tnxt :
          /\ Arity(b) = 2 => tnxt = Top.tnxt
          /\ Arity(b) # 2 => tnxt = cur
          /\ cur' = Answer(b, tnxt, cur)
          /\ IF Decides(tnxt, cur)
               THEN /\ suits' = suits \cup {b}
                    /\ taints' = taints \cup NewTaint(b)
               ELSE suits' = suits /\ taints' = taints
          /\ dedup[b] = Unseen => dedup'[b] = cur'
          /\ dedup[b] # Unseen => dedup'[b] = dedup[b]
          /\ \A c \in Blocks : c # b => dedup'[c] = dedup[c]
          /\ b \in Blocks /\ b \in Active
          /\ UNCHANGED <<prog, reach, backs>>
          /\ pc = "return" /\ pc' = "return"
          /\ Arity(b) = Top.side
    BY <1>12, FinishFacts
  <2>2. /\ n > 0 /\ n \in 1..n /\ Top = hists[n] /\ hists # <<>>
        /\ \A k \in 1..Len(hists') : k \in 1..n /\ hists'[k] = hists[k]
        /\ hists' # <<>> => n - 1 \in 1..n /\ Top' = hists[n - 1]
    BY <1>0, <1>12, PopFacts DEF Top, JointFinish
  <2>3. b \in reach /\ Top.side \in 1..2
    BY <2>2, StackFacts DEF StackInv, FrameOK, Frames
  <2>4. ASSUME taints' = {}
        PROVE  AnswersMet'
    <3>1. taints = {} /\ (Decides(tnxt, cur) => NewTaint(b) = {})
      BY <2>1, <2>4
    <3>2. AnswersMet
      BY <2>1, <3>1 DEF AnswerInv
    <3>3. Decides(tnxt, cur) => Insts(b) # {}
      BY <1>0, <2>1, <3>1, ProgramFacts DEF NewTaint, Insts
    <3>4. \A side \in 1..Arity(b) : SuccOf(prog, b)[side] \in Successors(prog, b)
      BY <1>0, <2>1, ProgramFacts
    <3>5. /\ cur # Null => cur \in OpenFrom(SuccOf(prog, b)[Top.side])
          /\ Top.tnxt # Null => Top.tnxt \in OpenFrom(SuccOf(prog, b)[1])
      BY <2>1, <2>2, <3>2 DEF AnswersMet
    <3>6. b \in OpenFrom(b)
      BY <1>0, <2>1, OpenFacts
    <3>7. Insts(b) = {} => \A side \in 1..Arity(b) :
            OpenFrom(SuccOf(prog, b)[side]) \subseteq OpenFrom(b)
      BY <1>0, <2>1, <2>3, <3>4, OpenFacts DEF Open
    <3>8. 1 \in 1..Arity(b) /\ Top.side \in 1..Arity(b)
      BY <2>1, <2>3
    <3>9. cur' # Null => cur' \in OpenFrom(b)
      <4>1. CASE Insts(b) # {}
        BY <2>1, <3>6, <4>1 DEF Answer
      <4>2. CASE Insts(b) = {}
        <5>1. cur' = tnxt \/ cur' = cur
          BY <2>1, <3>3, <4>2 DEF Answer
        <5>2. tnxt = Top.tnxt \/ tnxt = cur
          BY <2>1
        <5>. HIDE DEF b
        <5>. QED
          BY <3>5, <3>7, <3>8, <4>2, <5>1, <5>2
      <4>. QED
        BY <4>1, <4>2
    <3>10. ASSUME NEW c \in Blocks, dedup'[c] \in Blocks
           PROVE  dedup'[c] \in OpenFrom(c)
      <4>1. dedup'[c] = dedup[c] \/ (c = b /\ dedup'[c] = cur')
        BY <2>1
      <4>2. Null \notin Blocks
        BY SentinelAssumption
      <4>. QED
        BY <3>2, <3>9, <3>10, <4>1, <4>2 DEF AnswersMet
    <3>11. \A k \in 1..Len(hists') :
             hists'[k].tnxt # Null =>
               hists'[k].tnxt \in OpenFrom(SuccOf(prog, hists'[k].block)[1])
      BY <2>2, <3>2 DEF AnswersMet
    <3>12. hists' # <<>> => b = SuccOf(prog, Top'.block)[Top'.side]
      <4>1. hists' # <<>> => n \in 2..n
        BY <1>0, <2>2
      <4>. QED
        BY <2>2, <4>1 DEF StackInv, Linked
    <3>13. hists' # <<>> /\ cur' # Null =>
             cur' \in OpenFrom(SuccOf(prog, Top'.block)[Top'.side])
      BY <3>9, <3>12
    <3>. HIDE DEF b, n
    <3>. QED
      BY <1>1, <2>1, <3>10, <3>11, <3>13 DEF AnswersMet
  <2>. QED
    BY <1>4, <2>1, <2>4
<1>13. CASE JointReturned
  <2>1. CASE pc' # "done"
    BY <1>13, <2>1 DEF JointReturned, AnswerInv, AnswerIsReal
  <2>2. CASE pc' = "done"
    <3>1. /\ UNCHANGED <<prog, reach, backs, dedup, suits>> /\ pc = "return"
          /\ taints = {}
      BY <1>13, <2>2 DEF JointReturned
    <3>2. AnswersMet /\ \A b \in suits : Insts(b) # {}
      BY <3>1 DEF AnswerInv, WalkInv, SuitsJustified
    <3>3. ASSUME NEW b \in Blocks
          PROVE  suits \cap OpenFrom(b) \subseteq NextSuits(b)
      BY <1>0, <3>2, OpenIsPassing
    <3>4. \A b \in Blocks : dedup[b] \in Blocks => dedup[b] \in suits
      BY <3>1, SentinelAssumption DEF WalkInv, AnswersInSuits
    <3>5. \A b \in reach : dedup[b] \in Blocks => dedup[b] \in NextSuits(b)
      BY <1>0, <3>2, <3>3, <3>4 DEF AnswersMet
    <3>6. \A b : NextSuits(b)' = NextSuits(b)
      BY <3>1 DEF NextSuits, Passing
    <3>. QED
      BY <2>2, <3>1, <3>5, <3>6 DEF AnswerInv, AnswerIsReal
  <2>. QED
    BY <2>1, <2>2
<1>14. CASE Stopped \/ UNCHANGED vars
  <2>1. UNCHANGED vars
    BY <1>14 DEF Stopped
  <2>2. AnswersMet' = AnswersMet
    BY <1>1, <2>1 DEF AnswersMet, Top, vars
  <2>. QED
    BY <2>1, <2>2 DEF AnswerInv, AnswerIsReal, NextSuits, Passing, vars
<1>15. CASE JointLeaf /\ Insts(cur) = {}
  BY <1>2, <1>15 DEF JointLeaf
<1>16. CASE Joint
  BY <1>6, <1>7, <1>9, <1>10, <1>11, <1>12, <1>13, <1>15, <1>16 DEF Joint
<1>. QED
  BY <1>3, <1>14, <1>16 DEF Next, Step

(* Once the constructor ends, what joint answered for a block is a block   *)
(* of the slice that control does meet first from there, on loops too,     *)
(* where the answer is that of another active call.                        *)
THEOREM AnswersCorrect == Spec => []AnswerIsReal
<1>1. Init => AnswerInv
  BY DEF Init, AnswerInv, AnswerIsReal, Walking
<1>2. /\ TypeOK /\ StackInv /\ DataInv /\ WalkInv /\ AnswerInv /\ [Next]_vars
      => AnswerInv'
  BY AnswerStep
<1>3. AnswerInv => AnswerIsReal
  BY DEF AnswerInv
<1>. QED
  BY <1>1, <1>2, <1>3, WalkInvariant, PTL DEF Spec

------------------------------------------------------------------------------
(* What the walk puts into the slice is led to from its entry. *)

(* The blocks of the slice control can meet first after a block of it.     *)
Leads ==
  [b \in Blocks |-> {s \in suits : b \in suits /\ \E c \in Successors(prog, b) : s \in OpenFrom(c)}]

(* The blocks that will be part of an answer: the active calls on blocks   *)
(* with instructions, the answers of true sides, and the last result.      *)
Heads ==
  {b \in Active : Insts(b) # {}}
    \cup {b \in Blocks : \E k \in 1..Len(hists) : hists[k].tnxt = b}
    \cup {b \in Blocks : pc = "return" /\ b = cur}

NextInSlice ==
  [b \in Blocks |-> {s \in suits : b \in suits /\ \E c \in Successors(prog, b) : s \in NextSuits(c)}]

(* As long as no new branch was found, whatever the walk has met can be    *)
(* reached from there; in the end that is from the entry.                  *)
LeadInv ==
  /\ Walking /\ taints = {} => suits \subseteq Closure(Heads, Leads)
  /\ pc = "done" => suits \subseteq Closure({entry}, NextInSlice)

(* What is reached from some nodes is reached from others that reach them, *)
(* in a graph with more edges.                                             *)
LEMMA ClosureGrows ==
  ASSUME NEW G, NEW H, DOMAIN G = DOMAIN H,
         \A v \in DOMAIN H : G[v] \subseteq H[v] /\ H[v] \subseteq DOMAIN H,
         NEW S, NEW T, S \subseteq Closure(T, H)
  PROVE  Closure(S, G) \subseteq Closure(T, H)
<1>1. Closed(Closure(T, H), H)
  BY ClosureIsClosed
<1>2. Closure(T, H) \in SUBSET DOMAIN G
  BY DEF Closure
<1>3. Closed(Closure(T, H), G)
  BY <1>1, <1>2 DEF Closed
<1>. QED
  BY <1>2, <1>3, ClosureLeast

(* A step that keeps the heads, but for those its new heads lead to, keeps *)
(* everything reachable.                                                   *)
LEMMA LeadFrame ==
  ASSUME TypeOK, TypeOK', UNCHANGED <<prog, reach, backs>>,
         suits \subseteq Closure(Heads, Leads),
         suits \subseteq suits', suits' \subseteq suits \cup Heads',
         Heads \subseteq Closure(Heads', Leads')
  PROVE  suits' \subseteq Closure(Heads', Leads')
<1>. DEFINE G == Leads
            H == Leads'
            S == Heads
            T == Heads'
<1>1. OpenGraph' = OpenGraph
  BY DEF OpenGraph, Open, Insts
<1>2. \A b : OpenFrom(b)' = OpenFrom(b)
  BY <1>1 DEF OpenFrom
<1>3. \A b \in Blocks : G[b] \subseteq H[b]
  BY <1>2 DEF Leads
<1>4. DOMAIN G = Blocks /\ DOMAIN H = Blocks /\ \A b \in Blocks : H[b] \subseteq Blocks
  BY DEF Leads, TypeOK
<1>5. T \in SUBSET Blocks
  <2>1. \A k \in 1..Len(hists') : hists'[k] \in Frames
    BY ElementOfSeq DEF TypeOK
  <2>. QED
    BY <2>1 DEF Heads, Active, Frames
<1>6. T \subseteq Closure(T, H)
  <2>. HIDE DEF T, H
  <2>. QED
    BY <1>4, <1>5, ClosureExtends
<1>7. Closure(S, G) \subseteq Closure(T, H)
  <2>1. S \subseteq Closure(T, H)
    OBVIOUS
  <2>. HIDE DEF T, H, S, G
  <2>. QED
    BY <1>3, <1>4, <2>1, ClosureGrows
<1>. QED
  BY <1>6, <1>7

(* A block that answers leads to what its sides answered, in a walk that   *)
(* has found no new branch.                                                *)
LEMMA FinishLeads ==
  ASSUME TypeOK, TypeOK', StackInv, WalkInv, AnswerInv, JointFinish, taints' = {}
  PROVE  Heads \subseteq Closure(Heads', Leads')
<1>. DEFINE b == Top.block
            n == Len(hists)
            H == Leads'
            T == Heads'
<1>0. prog \in Programs /\ n \in Nat
  BY StackFacts DEF TypeOK
<1>1. PICK tnxt :
        /\ Arity(b) = 2 => tnxt = Top.tnxt
        /\ Arity(b) # 2 => tnxt = cur
        /\ cur' = Answer(b, tnxt, cur)
        /\ IF Decides(tnxt, cur)
             THEN /\ suits' = suits \cup {b}
                  /\ taints' = taints \cup NewTaint(b)
             ELSE suits' = suits /\ taints' = taints
        /\ b \in Blocks /\ b \in Active
        /\ UNCHANGED <<prog, reach, backs>>
        /\ pc = "return" /\ pc' = "return"
        /\ Arity(b) = Top.side
  BY FinishFacts
<1>2. /\ n > 0 /\ n \in 1..n /\ Top = hists[n] /\ hists # <<>>
      /\ Len(hists') = n - 1
      /\ \A k \in 1..Len(hists') : k \in 1..n /\ hists'[k] = hists[k]
      /\ Active \subseteq Active' \cup {b}
  BY <1>0, PopFacts DEF Top, JointFinish
<1>3. b \in reach /\ Top.side \in 1..2 /\ (Top.side = 1 => Top.tnxt = Null)
  BY <1>2, StackFacts DEF StackInv, FrameOK, Frames
<1>4. taints = {} /\ (Decides(tnxt, cur) => NewTaint(b) = {})
  BY <1>1
<1>5. AnswersMet /\ AnswersInSuits /\ MetInSuits
  BY <1>1, <1>4 DEF AnswerInv, WalkInv, Walking
<1>6. Decides(tnxt, cur) => Insts(b) # {}
  BY <1>0, <1>1, <1>4, ProgramFacts DEF NewTaint, Insts
<1>7. \A c : Insts(c)' = Insts(c) /\ OpenFrom(c)' = OpenFrom(c)
  <2>1. \A c : Insts(c)' = Insts(c)
    BY <1>1 DEF Insts
  <2>2. OpenGraph' = OpenGraph
    BY <1>1, <2>1 DEF OpenGraph, Open
  <2>. QED
    BY <2>1, <2>2 DEF OpenFrom
<1>8. DOMAIN H = Blocks /\ T \in SUBSET Blocks /\ \A c \in Blocks : H[c] \subseteq Blocks
  <2>1. \A k \in 1..Len(hists') : hists'[k] \in Frames
    BY ElementOfSeq DEF TypeOK
  <2>. QED
    BY <2>1 DEF Heads, Active, Leads, TypeOK, Frames
<1>9. T \subseteq Closure(T, H) /\ Closed(Closure(T, H), H)
  <2>. HIDE DEF T, H
  <2>. QED
    BY <1>8, ClosureExtends, ClosureIsClosed
<1>10. cur' # Null => cur' \in Closure(T, H)
  <2>1. cur' \in Blocks \cup {Null}
    BY DEF TypeOK
  <2>2. cur' # Null => cur' \in T
    BY <1>1, <2>1 DEF Heads
  <2>. QED
    BY <1>9, <2>2
<1>11. ASSUME Insts(b) # {}
       PROVE  /\ b \in Closure(T, H)
              /\ \A x \in {Top.tnxt, cur} : x # Null => x \in Closure(T, H)
  <2>1. cur' = b /\ b # Null
    BY <1>1, <1>11, SentinelAssumption DEF Answer
  <2>2. b \in suits' /\ suits \subseteq suits'
    BY <1>1, <1>5, <1>11 DEF MetInSuits
  <2>3. Top.side \in 1..Arity(b) /\ 1 \in 1..Arity(b)
    BY <1>1, <1>3
  <2>4. \A side \in 1..Arity(b) : SuccOf(prog, b)[side] \in Successors(prog, b)
    BY <1>0, <1>1, ProgramFacts
  <2>5. /\ cur # Null => cur \in OpenFrom(SuccOf(prog, b)[Top.side])
        /\ Top.tnxt # Null => Top.tnxt \in OpenFrom(SuccOf(prog, b)[1])
    BY <1>1, <1>2, <1>5 DEF AnswersMet
  <2>6. cur \in suits \cup {Null} /\ Top.tnxt \in suits \cup {Null}
    BY <1>1, <1>2, <1>5 DEF AnswersInSuits
  <2>7. \A x \in {Top.tnxt, cur} : x # Null => x \in H[b]
    <3>1. ASSUME NEW x \in suits, NEW side \in 1..Arity(b),
                 x \in OpenFrom(SuccOf(prog, b)[side])
          PROVE  x \in H[b]
      BY <1>1, <1>7, <2>2, <2>4, <3>1 DEF Leads
    <3>. HIDE DEF H, b
    <3>. QED
      BY <2>3, <2>5, <2>6, <3>1
  <2>8. b \in Closure(T, H)
    BY <1>10, <2>1
  <2>. QED
    BY <1>9, <2>7, <2>8 DEF Closed
<1>12. ASSUME Insts(b) = {}
       PROVE  \A x \in {Top.tnxt, cur} : x # Null => x \in Closure(T, H)
  <2>1. ~ Decides(tnxt, cur)
    BY <1>6, <1>12
  <2>2. Top.tnxt # Null => tnxt = Top.tnxt
    BY <1>1, <1>3
  <2>3. \A x \in {Top.tnxt, cur} : x # Null => x = cur'
    BY <1>1, <1>12, <2>1, <2>2 DEF Answer, Decides
  <2>. QED
    BY <1>10, <2>3
<1>13. ASSUME NEW c \in Heads
       PROVE  c \in Closure(T, H)
  <2>1. c \in Blocks /\ c # Null
    BY <1>13, StackFacts, SentinelAssumption DEF Heads
  <2>2. CASE c \in Active /\ Insts(c) # {}
    <3>1. c = b \/ c \in Active'
      BY <1>2, <2>2
    <3>2. c \in Active' => c \in T
      BY <1>7, <2>2 DEF Heads
    <3>. HIDE DEF T, H, b
    <3>. QED
      BY <1>9, <1>11, <2>2, <3>1, <3>2
  <2>3. ASSUME NEW k \in 1..n, hists[k].tnxt = c
        PROVE  c \in Closure(T, H)
    <3>1. CASE k = n
      <4>. HIDE DEF T, H, b
      <4>. QED
        BY <1>2, <1>11, <1>12, <2>1, <2>3, <3>1
    <3>2. CASE k # n
      <4>1. k \in 1..Len(hists')
        BY <1>0, <1>2, <3>2
      <4>2. c \in T
        BY <1>2, <2>1, <2>3, <4>1 DEF Heads
      <4>. QED
        BY <1>9, <4>2
    <3>. QED
      BY <3>1, <3>2
  <2>4. CASE c = cur
    <3>. HIDE DEF T, H, b
    <3>. QED
      BY <1>11, <1>12, <2>1, <2>4
  <2>. QED
    BY <1>13, <2>2, <2>3, <2>4 DEF Heads
<1>. QED
  BY <1>13

(* Every step keeps what the walk has met within reach of the heads. *)
LEMMA LeadStep ==
  /\ TypeOK /\ StackInv /\ DataInv /\ WalkInv /\ AnswerInv /\ LeadInv
  /\ [Next]_vars
  => LeadInv'
<1> SUFFICES ASSUME TypeOK, StackInv, DataInv, WalkInv, AnswerInv, LeadInv,
                    [Next]_vars
             PROVE  LeadInv'
  OBVIOUS
<1>. USE DEF Walking
<1>0. /\ prog \in Programs /\ reach \subseteq Blocks /\ Len(hists) \in Nat /\ TypeOK'
      /\ cur \in Blocks \cup {Null}
  BY StackFacts, TypeStep DEF TypeOK
<1>1. CASE pc' \notin {"call", "return", "done"}
  BY <1>1 DEF LeadInv
<1>2. CASE Trace
  <2>1. CASE FollowDone /\ taints = {}
    <3>1. pc' = "call" /\ suits' = {}
      BY <2>1 DEF FollowDone
    <3>. QED
      BY <3>1 DEF LeadInv
  <2>. QED
    BY <1>1, <1>2, <2>1 DEF Trace, Btrace, Follow, BtraceDone, FollowDone, UnknownValue
<1>3. Heads \subseteq Closure(Heads', Leads') \/ ~ (Heads \subseteq Heads') \/ ~ TypeOK'
  <2>. DEFINE H == Leads'
              T == Heads'
  <2>1. \A k \in 1..Len(hists') : hists'[k] \in Frames
    BY <1>0, ElementOfSeq DEF TypeOK
  <2>2. DOMAIN H = Blocks /\ T \in SUBSET Blocks
    BY <1>0, <2>1 DEF Heads, Active, Leads, Frames
  <2>3. T \subseteq Closure(T, H)
    <3>. HIDE DEF T, H
    <3>. QED
      BY <2>2, ClosureExtends
  <2>. QED
    BY <2>3
<1>4. ASSUME pc \in {"call", "return"}, pc' \in {"call", "return"},
             UNCHANGED <<prog, reach, backs>>, taints \subseteq taints',
             suits \subseteq suits',
             taints' = {} => /\ suits' \subseteq suits \cup Heads'
                             /\ Heads \subseteq Closure(Heads', Leads')
      PROVE  LeadInv'
  <2>1. ASSUME taints' = {}
        PROVE  suits' \subseteq Closure(Heads', Leads')
    <3>1. suits \subseteq Closure(Heads, Leads)
      BY <1>4, <2>1 DEF LeadInv
    <3>. QED
      BY <1>0, <1>4, <2>1, <3>1, LeadFrame
  <2>. QED
    BY <1>4, <2>1 DEF LeadInv
<1>5. CASE JointKnown \/ JointLoop
  <2>1. /\ pc = "call" /\ pc' = "return"
        /\ UNCHANGED <<prog, reach, backs, taints, hists, suits>>
    BY <1>5 DEF JointKnown, JointLoop, Return
  <2>2. Heads \subseteq Heads'
    BY <2>1 DEF Heads, Active, Insts
  <2>. QED
    BY <1>0, <1>3, <1>4, <2>1, <2>2
<1>6. ASSUME cur \in Blocks, MarkIfSliced
      PROVE  suits \subseteq suits' /\ suits' \subseteq suits \cup {cur}
             /\ (Insts(cur) = {} => suits' = suits)
  BY <1>6, MarkFacts
<1>7. CASE JointEnter
  <2>1. /\ UNCHANGED <<prog, reach, backs, taints>> /\ pc = "call"
        /\ pc' = "call" /\ cur \in Blocks /\ MarkIfSliced
    BY <1>0, <1>7 DEF JointEnter, NewBlock
  <2>2. /\ Len(hists') = Len(hists) + 1 /\ Active' = Active \cup {cur}
        /\ \A k \in 1..Len(hists) : hists'[k] = hists[k]
    BY <1>7, PushFacts
  <2>3. \A b : Insts(b)' = Insts(b)
    BY <2>1 DEF Insts
  <2>4. \A k \in 1..Len(hists) : k \in 1..Len(hists')
    BY <1>0, <2>2
  <2>5. Heads \subseteq Heads'
    BY <2>1, <2>2, <2>3, <2>4 DEF Heads
  <2>6. suits' \subseteq suits \cup Heads'
    BY <1>6, <2>1, <2>2, <2>3 DEF Heads
  <2>. QED
    BY <1>0, <1>3, <1>4, <1>6, <2>1, <2>5, <2>6
<1>8. CASE JointLeaf /\ Insts(cur) # {}
  <2>1. /\ UNCHANGED <<prog, reach, backs, taints, hists>> /\ pc = "call"
        /\ pc' = "return" /\ cur \in Blocks /\ MarkIfSliced /\ cur' = cur
    BY <1>0, <1>8 DEF JointLeaf, NewBlock, Return
  <2>2. Heads \subseteq Heads' /\ cur \in Heads'
    BY <2>1 DEF Heads, Active, Insts
  <2>. QED
    BY <1>0, <1>3, <1>4, <1>6, <2>1, <2>2
<1>9. CASE JointTrueSide
  <2>1. /\ UNCHANGED <<prog, reach, backs, taints, dedup, suits>>
        /\ pc = "return" /\ pc' = "call" /\ hists # <<>> /\ Top.side = 1
    BY <1>9 DEF JointTrueSide
  <2>2. /\ Len(hists') = Len(hists) /\ Active' = Active
        /\ \A k \in 1..(Len(hists) - 1) : hists'[k] = hists[k]
        /\ hists'[Len(hists)] = [block |-> Top.block, side |-> 2, tnxt |-> cur]
    BY <1>9, TurnFacts
  <2>3. Len(hists) \in 1..Len(hists) /\ Top = hists[Len(hists)] /\ Top.tnxt = Null
    <3>1. Len(hists) > 0
      BY <2>1, StackFacts
    <3>2. Len(hists) \in 1..Len(hists) /\ Top = hists[Len(hists)]
      BY <1>0, <3>1 DEF Top
    <3>. QED
      BY <2>1, <3>2 DEF StackInv, FrameOK
  <2>4. ASSUME NEW c \in Heads
        PROVE  c \in Heads'
    <3>1. c \in Blocks /\ c # Null
      BY <2>4, StackFacts, SentinelAssumption DEF Heads
    <3>2. CASE c \in Active /\ Insts(c) # {}
      BY <2>1, <2>2, <3>2 DEF Heads, Insts
    <3>3. ASSUME NEW k \in 1..Len(hists), hists[k].tnxt = c
          PROVE  c \in Heads'
      <4>1. k # Len(hists)
        BY <2>3, <3>1, <3>3
      <4>2. k \in 1..(Len(hists) - 1)
        BY <1>0, <4>1
      <4>. QED
        BY <2>2, <3>1, <3>3, <4>2 DEF Heads
    <3>4. CASE c = cur
      BY <2>2, <2>3, <3>1, <3>4 DEF Heads
    <3>. QED
      BY <2>4, <3>2, <3>3, <3>4 DEF Heads
  <2>. QED
    BY <1>0, <1>3, <1>4, <2>1, <2>4
<1>10. CASE JointFinish
  <2>1. /\ pc = "return" /\ pc' = "return" /\ UNCHANGED <<prog, reach, backs>>
        /\ taints \subseteq taints' /\ suits \subseteq suits'
    BY <1>10 DEF JointFinish, Return
  <2>2. ASSUME taints' = {}
        PROVE  suits' \subseteq suits \cup Heads'
    <3>1. Top.block \in Blocks
      BY <1>10, FinishFacts
    <3>2. PICK tnxt :
            /\ cur' = Answer(Top.block, tnxt, cur)
            /\ IF Decides(tnxt, cur) THEN suits' = suits \cup {Top.block}
                                     ELSE suits' = suits
      BY <1>10 DEF JointFinish, Return
    <3>3. Decides(tnxt, cur) => cur' = Top.block
      BY <3>2 DEF Answer
    <3>. QED
      BY <2>1, <3>1, <3>2, <3>3 DEF Heads
  <2>3. taints' = {} => Heads \subseteq Closure(Heads', Leads')
    BY <1>0, <1>10, FinishLeads
  <2>. QED
    BY <1>4, <2>1, <2>2, <2>3
<1>11. CASE JointReturned
  <2>1. CASE pc' # "done"
    <3>1. pc' = "btrace" \/ pc' = "abort"
      BY <1>11, <2>1 DEF JointReturned
    <3>. QED
      BY <3>1 DEF LeadInv
  <2>2. CASE pc' = "done"
    <3>. DEFINE G == Leads
                N == NextInSlice
                S == Heads
    <3>1. /\ UNCHANGED <<prog, reach, backs, dedup, suits>> /\ pc = "return"
          /\ taints = {} /\ entry' = cur /\ hists = <<>> /\ cur \in suits
      BY <1>11, <2>2 DEF JointReturned
    <3>2. \A b \in suits : Insts(b) # {}
      BY <3>1 DEF WalkInv, SuitsJustified
    <3>3. ASSUME NEW b \in Blocks
          PROVE  suits \cap OpenFrom(b) \subseteq NextSuits(b)
      BY <1>0, <3>2, <3>3, OpenIsPassing
    <3>4. \A b \in Blocks : Successors(prog, b) \subseteq Blocks
      BY <1>0, ProgramFacts
    <3>5. \A b \in Blocks : G[b] \subseteq N[b]
      BY <3>3, <3>4 DEF Leads, NextInSlice
    <3>6. /\ DOMAIN G = Blocks /\ DOMAIN N = Blocks /\ cur \in Blocks
          /\ \A b \in Blocks : N[b] \subseteq Blocks
      BY <3>1 DEF Leads, NextInSlice, TypeOK
    <3>7. S \subseteq {cur}
      <4>1. 1..Len(hists) = {}
        BY <3>1
      <4>. QED
        BY <4>1 DEF Heads, Active
    <3>8. suits \subseteq Closure(S, G)
      BY <3>1 DEF LeadInv
    <3>9. suits \subseteq Closure({cur}, N)
      <4>. HIDE DEF S, G, N
      <4>1. {cur} \subseteq Closure({cur}, N)
        BY <3>6, ClosureExtends
      <4>2. Closure(S, G) \subseteq Closure({cur}, N)
        BY <3>5, <3>6, <3>7, <4>1, ClosureGrows
      <4>. QED
        BY <3>8, <4>2
    <3>10. NextInSlice' = N
      BY <3>1 DEF NextInSlice, NextSuits, Passing
    <3>. QED
      BY <2>2, <3>1, <3>9, <3>10 DEF LeadInv
  <2>. QED
    BY <2>1, <2>2
<1>12. CASE Stopped \/ UNCHANGED vars
  <2>1. UNCHANGED vars
    BY <1>12 DEF Stopped
  <2>2. /\ Heads' = Heads /\ Leads' = Leads /\ NextInSlice' = NextInSlice
    BY <2>1 DEF Heads, Leads, NextInSlice, NextSuits, Passing, Active, Insts, Open,
                OpenGraph, OpenFrom, vars
  <2>. QED
    BY <2>1, <2>2 DEF LeadInv, vars
<1>13. CASE JointLeaf /\ Insts(cur) = {}
  BY <1>1, <1>13 DEF JointLeaf
<1>14. CASE Joint
  BY <1>5, <1>7, <1>8, <1>9, <1>10, <1>11, <1>13, <1>14 DEF Joint
<1>. QED
  BY <1>2, <1>12, <1>14 DEF Next, Step

------------------------------------------------------------------------------
(* The links: Slice::verify never fails, and the links are the control     *)
(* flow between the blocks of the slice.                                   *)


(* The two graphs have the same edges, in opposite directions. *)
Opposite(G, H) ==
  /\ DOMAIN G = Blocks /\ DOMAIN H = Blocks
  /\ \A x \in Blocks : G[x] \subseteq Blocks /\ H[x] \subseteq Blocks
  /\ \A x, y \in Blocks : y \in G[x] <=> x \in H[y]

(* What a search meets over one graph, a search over the opposite one      *)
(* finds coming back: both go on through the same blocks.                  *)
LEMMA SearchesAgree ==
  ASSUME NEW G, NEW H, Opposite(G, H), NEW b \in Blocks, NEW c \in G[b],
         NEW s \in Closure({c}, Through(G))
  PROVE  \E base \in H[s] : b \in Closure({base}, Through(H))
<1>. DEFINE From(y) == Closure({y}, Through(H))
            T == {x \in Blocks : \E y \in H[x] : b \in From(y)}
<1>1. /\ DOMAIN Through(G) = Blocks /\ DOMAIN Through(H) = Blocks
      /\ \A x \in Blocks : Through(H)[x] \subseteq Blocks
      /\ \A x \in Blocks : Passing(x) => Through(H)[x] = H[x]
      /\ \A x \in Blocks : Through(G)[x] \subseteq G[x]
      /\ \A x \in Blocks : Through(G)[x] # {} => Passing(x)
  BY DEF Through, Opposite
<1>2. ASSUME NEW y \in Blocks
      PROVE  y \in From(y) /\ From(y) \in SUBSET Blocks /\ Closed(From(y), Through(H))
  <2>1. {y} \in SUBSET DOMAIN Through(H)
    BY <1>1, <1>2
  <2>2. {y} \subseteq From(y) /\ Closed(From(y), Through(H))
    BY <1>1, <2>1, ClosureExtends, ClosureIsClosed
  <2>3. From(y) \in SUBSET Blocks
    BY <1>1 DEF Closure
  <2>. QED
    BY <2>2, <2>3
<1>3. c \in T
  BY <1>2 DEF Opposite
<1>4. ASSUME NEW x \in T, NEW z \in Through(G)[x]
      PROVE  z \in T
  <2>1. x \in Blocks /\ Passing(x) /\ z \in Blocks /\ x \in H[z]
    BY <1>1, <1>4 DEF Opposite
  <2>2. PICK y \in H[x] : b \in From(y)
    BY <1>4
  <2>3. y \in Blocks /\ y \in Through(H)[x]
    BY <1>1, <2>1, <2>2 DEF Opposite
  <2>4. {y} \subseteq From(x)
    BY <1>2, <2>1, <2>3 DEF Closed
  <2>5. From(y) \subseteq From(x)
    <3>1. From(x) \in SUBSET DOMAIN Through(H) /\ Closed(From(x), Through(H))
      BY <1>1, <1>2, <2>1
    <3>. QED
      BY <2>4, <3>1, ClosureLeast
  <2>. QED
    BY <2>1, <2>2, <2>5
<1>5. Closed(T, Through(G)) /\ {c} \subseteq T /\ T \in SUBSET DOMAIN Through(G)
  BY <1>1, <1>3, <1>4 DEF Closed
<1>6. Closure({c}, Through(G)) \subseteq T
  <2>. HIDE DEF T
  <2>. QED
    BY <1>5, ClosureLeast
<1>. QED
  BY <1>6

(* s follows b: control can go from b to s without meeting another block   *)
(* of the slice.                                                           *)
Follows(b, s) == \E c \in Successors(prog, b) : s \in NextSuits(c)

(* The search of expand finds a block over one of the adjacent blocks. *)
LEMMA ToFacts ==
  ASSUME NEW G, NEW x, NEW y \in suits
  PROVE  (\E m \in To(x, G) : m[1] = y) <=> \E base \in G[x] : y \in Met(base, G)
<1>1. ASSUME NEW m \in To(x, G), m[1] = y
      PROVE  \E base \in G[x] : y \in Met(base, G)
  <2>1. m[2] \in G[x] /\ m[1] \in Met(m[2], G)
    BY DEF To
  <2>. QED
    BY <1>1, <2>1
<1>2. ASSUME NEW base \in G[x], y \in Met(base, G)
      PROVE  \E m \in To(x, G) : m[1] = y
  <2>1. <<y, base>> \in To(x, G)
    BY <1>2 DEF To
  <2>. QED
    BY <2>1
<1>. QED
  BY <1>1, <1>2

(* Looking forward from b finds the blocks that follow it, and looking     *)
(* backward from s those it follows.                                       *)
LEMMA ToIsFollows ==
  ASSUME prog \in Programs, suits \subseteq reach, reach \subseteq Blocks,
         NEW b \in suits, NEW s \in suits
  PROVE  /\ (\E m \in To(b, SuccGraph(prog)) : m[1] = s) <=> Follows(b, s)
         /\ (\E m \in To(s, PredGraph(prog)) : m[1] = b) <=> Follows(b, s)
<1>. DEFINE G == SuccGraph(prog)
            H == PredGraph(prog)
<1>1. Opposite(G, H) /\ Opposite(H, G)
  BY ProgramFacts DEF Opposite, SuccGraph, PredGraph
<1>2. \A x \in Blocks : G[x] = Successors(prog, x)
  BY DEF SuccGraph
<1>3. \A x, gr : Met(x, gr) = suits \cap Closure({x}, Through(gr))
  BY DEF Met
<1>4. \A x : NextSuits(x) = Met(x, G)
  BY DEF Met, NextSuits, Through, SuccGraph
<1>5. b \in Blocks /\ s \in Blocks
  OBVIOUS
<1>. HIDE DEF G, H
<1>6. (\E m \in To(b, G) : m[1] = s) <=> \E base \in G[b] : s \in Met(base, G)
  BY ToFacts
<1>7. (\E m \in To(s, H) : m[1] = b) <=> \E base \in H[s] : b \in Met(base, H)
  BY ToFacts
<1>8. ASSUME NEW base \in G[b], s \in Met(base, G)
      PROVE  \E y \in H[s] : b \in Met(y, H)
  <2>1. s \in Closure({base}, Through(G))
    BY <1>3, <1>8
  <2>2. PICK y \in H[s] : b \in Closure({y}, Through(H))
    BY <1>1, <1>5, <2>1, SearchesAgree
  <2>. QED
    BY <1>3, <2>2
<1>9. ASSUME NEW base \in H[s], b \in Met(base, H)
      PROVE  \E y \in G[b] : s \in Met(y, G)
  <2>1. b \in Closure({base}, Through(H))
    BY <1>3, <1>9
  <2>2. PICK y \in G[b] : s \in Closure({y}, Through(G))
    BY <1>1, <1>5, <2>1, SearchesAgree
  <2>. QED
    BY <1>3, <2>2
<1>10. Follows(b, s) <=> \E base \in G[b] : s \in Met(base, G)
  BY <1>2, <1>4, <1>5 DEF Follows
<1>. QED
  BY <1>6, <1>7, <1>8, <1>9, <1>10 DEF G, H

------------------------------------------------------------------------------

(* A slice block reaches the fetch, and the loop ends by handing over the  *)
(* blocks it found, the block of the fetch among them.                     *)
SuitsInReach == suits \subseteq reach /\ reach = ReachBlocks(prog)

LEMMA SuitsStep == TypeOK /\ StackInv /\ SuitsInReach /\ [Next]_vars => SuitsInReach'
<1> SUFFICES ASSUME TypeOK, StackInv, SuitsInReach, [Next]_vars
             PROVE  SuitsInReach'
  OBVIOUS
<1>. USE DEF SuitsInReach
<1>1. CASE JointEnter \/ JointLeaf
  BY <1>1 DEF JointEnter, JointLeaf, NewBlock, MarkIfSliced
<1>2. CASE JointFinish
  <2>1. Top.block \in reach
    <3>1. Len(hists) \in 1..Len(hists)
      BY <1>2, PopFacts, StackFacts
    <3>. QED
      BY <3>1 DEF StackInv, FrameOK, Top
  <2>. QED
    BY <1>2, <2>1 DEF JointFinish
<1>3. CASE FollowDone
  BY <1>3 DEF FollowDone
<1>4. CASE UNCHANGED <<suits, reach, prog>>
  BY <1>4
<1>. QED
  BY <1>1, <1>2, <1>3, <1>4
  DEF Next, Step, Trace, Joint, Btrace, Follow, BtraceDone, UnknownValue, JointKnown,
      JointLoop, JointTrueSide, JointReturned, Stopped, vars

LEMMA DoneIsLast ==
  ASSUME Step
  PROVE  pc # "done" /\ (pc' = "done" => suits' = suits /\ FetchBlock \in suits
                                          /\ FetchBlock' = FetchBlock)
<1>1. CASE Trace
  BY <1>1 DEF Trace, Btrace, Follow, BtraceDone, FollowDone, UnknownValue
<1>2. CASE JointReturned
  BY <1>2 DEF JointReturned, FetchBlock
<1>3. CASE JointKnown \/ JointLoop \/ JointEnter \/ JointLeaf
  BY <1>3 DEF JointKnown, JointLoop, JointEnter, JointLeaf, NewBlock, Return
<1>4. CASE JointTrueSide \/ JointFinish
  BY <1>4 DEF JointTrueSide, JointFinish, Return
<1>. QED
  BY <1>1, <1>2, <1>3, <1>4 DEF Step, Joint

Linking == stage \in {"expand", "verify", "wrap", "ready"}

Expanded(b) == b \in suits \ unlinked

(* The links are those that the blocks expanded so far have added, from    *)
(* either end; the tables have the entries of those blocks.                *)
LinksFound ==
  /\ unlinked \subseteq suits
  /\ succs = {e \in suits \X suits :
                Follows(e[1], e[2]) /\ (Expanded(e[1]) \/ Expanded(e[2]))}
  /\ preds = {<<e[2], e[1]>> : e \in succs}
  /\ \A b \in suits : Expanded(b) =>
       /\ \A m \in To(b, PredGraph(prog)) : <<b, m[1], m[2]>> \in ptab
       /\ \A m \in To(b, SuccGraph(prog)) : <<b, m[1], m[2]>> \in stab

LinkInv ==
  /\ TypeOK /\ StackInv /\ SuitsInReach
  /\ stage \in {"slice", "expand", "verify", "wrap", "ready"}
  /\ stage = "slice" => succs = {} /\ preds = {} /\ pc # "done"
  /\ Linking => pc = "done" /\ LinksFound /\ FetchBlock \in suits
  /\ stage \in {"verify", "wrap", "ready"} => unlinked = {}

(* The slice is not changed any more once it is being linked. *)
LEMMA LinkFrame ==
  ASSUME TypeOK, StackInv, SuitsInReach, UNCHANGED vars
  PROVE  /\ TypeOK' /\ StackInv' /\ SuitsInReach' /\ suits' = suits /\ pc' = pc
         /\ prog' = prog
         /\ \A x, y : Follows(x, y)' = Follows(x, y)
         /\ \A x, gr : To(x, gr)' = To(x, gr)
<1>1. TypeOK' /\ StackInv' /\ SuitsInReach'
  BY TypeStep, StackStep, SuitsStep
<1>2. UNCHANGED <<suits, pc, prog, reach>>
  BY DEF vars
<1>3. \A x : Passing(x)' = Passing(x)
  BY <1>2 DEF Passing
<1>4. \A gr : Through(gr)' = Through(gr)
  BY <1>3 DEF Through
<1>5. \A x : NextSuits(x)' = NextSuits(x)
  BY <1>2, <1>3 DEF NextSuits
<1>. QED
  BY <1>1, <1>2, <1>4, <1>5 DEF Follows, To, Met

(* Expanding a block adds its links, whichever end was expanded first.     *)
LEMMA ExpandStep ==
  ASSUME LinkInv, NEW b \in unlinked, Expand(b)
  PROVE  LinkInv'
<1>. DEFINE G == SuccGraph(prog)
            H == PredGraph(prog)
            pre == {m[1] : m \in To(b, H)}
            suc == {m[1] : m \in To(b, G)}
<1>1. /\ UNCHANGED vars /\ stage = "expand"
      /\ unlinked' = unlinked \ {b}
      /\ preds' = preds \cup {<<b, s>> : s \in pre} \cup {<<s, b>> : s \in suc}
      /\ succs' = succs \cup {<<b, s>> : s \in suc} \cup {<<s, b>> : s \in pre}
      /\ ptab' = ptab \cup {<<b, m[1], m[2]>> : m \in To(b, H)}
      /\ stab' = stab \cup {<<b, m[1], m[2]>> : m \in To(b, G)}
      /\ stage' = IF unlinked' = {} THEN "verify" ELSE stage
  BY DEF Expand
<1>2. /\ TypeOK /\ StackInv /\ SuitsInReach /\ pc = "done" /\ LinksFound
      /\ b \in suits
  BY <1>1 DEF LinkInv, Linking, LinksFound
<1>3. /\ TypeOK' /\ StackInv' /\ SuitsInReach' /\ suits' = suits /\ pc' = "done"
      /\ prog' = prog
      /\ \A x, y : Follows(x, y)' = Follows(x, y)
      /\ \A x, gr : To(x, gr)' = To(x, gr)
  BY <1>1, <1>2, LinkFrame
<1>4. /\ suc = {s \in suits : Follows(b, s)}
      /\ pre = {s \in suits : Follows(s, b)}
  <2>1. prog \in Programs /\ suits \subseteq reach /\ reach \subseteq Blocks
    BY <1>2 DEF TypeOK, SuitsInReach
  <2>2. \A s \in suits : /\ s \in suc <=> Follows(b, s)
                         /\ s \in pre <=> Follows(s, b)
    BY <1>2, <2>1, ToIsFollows
  <2>3. suc \subseteq suits /\ pre \subseteq suits
    BY DEF To
  <2>. HIDE DEF suc, pre
  <2>. QED
    BY <2>2, <2>3
<1>. HIDE DEF suc, pre
<1>5. \A x \in suits : Expanded(x)' <=> Expanded(x) \/ x = b
  BY <1>1, <1>2, <1>3 DEF Expanded
<1>6. succs' = {e \in suits \X suits :
                  /\ Follows(e[1], e[2])
                  /\ Expanded(e[1])' \/ Expanded(e[2])'}
  <2>1. ASSUME NEW x, NEW y
        PROVE  <<x, y>> \in succs' <=>
                 /\ x \in suits /\ y \in suits /\ Follows(x, y)
                 /\ Expanded(x)' \/ Expanded(y)'
    <3>1. <<x, y>> \in succs <=> /\ x \in suits /\ y \in suits /\ Follows(x, y)
                                 /\ Expanded(x) \/ Expanded(y)
      BY <1>2 DEF LinksFound
    <3>2. <<x, y>> \in succs' <=> \/ <<x, y>> \in succs
                                  \/ x = b /\ y \in suc
                                  \/ y = b /\ x \in pre
      BY <1>1
    <3>. QED
      BY <1>2, <1>4, <1>5, <3>1, <3>2
  <2>2. \A e \in succs' : e = <<e[1], e[2]>>
    BY <1>1, <1>2 DEF LinksFound
  <2>. QED
    BY <2>1, <2>2
<1>7. preds' = {<<e[2], e[1]>> : e \in succs'}
  <2>1. \A x, y : <<y, x>> \in preds' <=> <<x, y>> \in succs'
    <3>1. \A x, y : <<y, x>> \in preds <=> <<x, y>> \in succs
      BY <1>2 DEF LinksFound
    <3>. QED
      BY <1>1, <3>1
  <2>2. \A e \in succs' : e = <<e[1], e[2]>>
    BY <1>6
  <2>3. \A e \in preds' : e = <<e[1], e[2]>>
    BY <1>1, <1>2 DEF LinksFound
  <2>4. ASSUME NEW e \in preds'
        PROVE  e \in {<<d[2], d[1]>> : d \in succs'}
    <3>1. <<e[2], e[1]>> \in succs' /\ e = <<e[1], e[2]>>
      BY <2>1, <2>3
    <3>. QED
      BY <3>1
  <2>5. ASSUME NEW e \in succs'
        PROVE  <<e[2], e[1]>> \in preds'
    BY <2>1, <2>2
  <2>. QED
    BY <2>4, <2>5
<1>8. ASSUME NEW x \in suits, Expanded(x)'
      PROVE  /\ \A m \in To(x, H) : <<x, m[1], m[2]>> \in ptab'
             /\ \A m \in To(x, G) : <<x, m[1], m[2]>> \in stab'
  <2>1. CASE x = b
    BY <1>1, <2>1
  <2>2. CASE Expanded(x)
    BY <1>1, <1>2, <2>2 DEF LinksFound
  <2>. QED
    BY <1>5, <1>8, <2>1, <2>2
<1>9. LinksFound'
  BY <1>1, <1>2, <1>3, <1>6, <1>7, <1>8 DEF LinksFound
<1>10. FetchBlock' \in suits'
  BY <1>1, <1>3 DEF LinkInv, Linking, FetchBlock
<1>. QED
  BY <1>1, <1>3, <1>9, <1>10 DEF LinkInv, Linking

(* What expand leaves is what verify asserts. *)
LEMMA LinksAreConsistent ==
  ASSUME TypeOK, SuitsInReach, LinksFound, unlinked = {}
  PROVE  \A b \in suits : Consistent(b)
<1>. DEFINE G == SuccGraph(prog)
            H == PredGraph(prog)
<1>1. prog \in Programs /\ suits \subseteq reach /\ reach \subseteq Blocks
  BY DEF TypeOK, SuitsInReach
<1>2. \A b, s : /\ <<b, s>> \in preds <=> <<s, b>> \in succs
                /\ <<b, s>> \in succs => b \in suits /\ s \in suits /\ Follows(b, s)
  BY DEF LinksFound
<1>3. \A b \in suits :
        /\ \A m \in To(b, H) : <<b, m[1], m[2]>> \in ptab
        /\ \A m \in To(b, G) : <<b, m[1], m[2]>> \in stab
  BY DEF LinksFound, Expanded
<1>4. \A base, gr : base \in suits /\ base \in Blocks /\ DOMAIN Through(gr) = Blocks
                       => base \in Met(base, gr)
  <2> SUFFICES ASSUME NEW base \in suits, NEW gr, base \in Blocks
               PROVE  base \in Met(base, gr)
    OBVIOUS
  <2>1. {base} \in SUBSET DOMAIN Through(gr)
    BY DEF Through
  <2>2. {base} \subseteq Closure({base}, Through(gr))
    BY <2>1, ClosureExtends
  <2>. QED
    BY <1>1, <2>2 DEF Met
<1> SUFFICES ASSUME NEW b \in suits
             PROVE  Consistent(b)
  OBVIOUS
<1>5. ASSUME NEW s \in suits, <<b, s>> \in preds
      PROVE  <<s, b>> \in succs /\ \E t \in ptab : t[1] = b /\ t[2] = s
  <2>1. <<s, b>> \in succs /\ Follows(s, b)
    BY <1>2, <1>5
  <2>2. PICK m \in To(b, H) : m[1] = s
    BY <1>1, <2>1, ToIsFollows
  <2>3. <<b, m[1], m[2]>> \in ptab
    BY <1>3
  <2>. QED
    BY <2>1, <2>2, <2>3
<1>6. ASSUME NEW s \in suits, <<b, s>> \in succs
      PROVE  <<s, b>> \in preds /\ \E t \in stab : t[1] = b /\ t[2] = s
  <2>1. <<s, b>> \in preds /\ Follows(b, s)
    BY <1>2, <1>6
  <2>2. PICK m \in To(b, G) : m[1] = s
    BY <1>1, <2>1, ToIsFollows
  <2>3. <<b, m[1], m[2]>> \in stab
    BY <1>3
  <2>. QED
    BY <2>1, <2>2, <2>3
<1>7. ASSUME NEW gr, NEW base \in gr[b] \cap suits
      PROVE  <<base, base>> \in To(b, gr)
  BY <1>1, <1>4 DEF To, Through
<1>8. ASSUME NEW base \in H[b] \cap reach \cap suits
      PROVE  \E t \in ptab : t[1] = b /\ t[3] = base
  <2>1. <<base, base>> \in To(b, H)
    BY <1>7
  <2>2. <<b, base, base>> \in ptab
    BY <1>3, <2>1
  <2>. QED
    BY <2>2
<1>9. ASSUME NEW base \in G[b] \cap reach \cap suits
      PROVE  \E t \in stab : t[1] = b /\ t[3] = base
  <2>1. <<base, base>> \in To(b, G)
    BY <1>7
  <2>2. <<b, base, base>> \in stab
    BY <1>3, <2>1
  <2>. QED
    BY <2>2
<1>. QED
  BY <1>5, <1>6, <1>8, <1>9 DEF Consistent

(* Every step keeps the links. *)
LEMMA LinkStepKeeps == LinkInv /\ [LinkNext]_<<vars, linkVars>> => LinkInv'
<1> SUFFICES ASSUME LinkInv, [LinkNext]_<<vars, linkVars>>
             PROVE  LinkInv'
  OBVIOUS
<1>1. CASE Slicing
  <2>1. /\ stage = "slice" /\ Step
        /\ IF pc' = "done" THEN stage' = "expand" /\ unlinked' = suits
           ELSE UNCHANGED <<stage, unlinked>>
        /\ UNCHANGED <<preds, succs>>
    BY <1>1 DEF Slicing
  <2>2. TypeOK' /\ StackInv' /\ SuitsInReach'
    BY <2>1, TypeStep, StackStep, SuitsStep DEF LinkInv, Next
  <2>3. succs = {} /\ preds = {}
    BY <2>1 DEF LinkInv
  <2>4. CASE pc' = "done"
    <3>1. suits' = suits /\ FetchBlock' \in suits'
      BY <2>1, <2>4, DoneIsLast
    <3>2. \A x : ~ Expanded(x)'
      BY <2>1, <2>4, <3>1 DEF Expanded
    <3>3. LinksFound'
      BY <2>1, <2>3, <2>4, <3>1, <3>2 DEF LinksFound
    <3>. QED
      BY <2>1, <2>2, <2>4, <3>1, <3>3 DEF LinkInv, Linking
  <2>5. CASE pc' # "done"
    BY <2>1, <2>2, <2>3, <2>5 DEF LinkInv, Linking
  <2>. QED
    BY <2>4, <2>5
<1>2. ASSUME NEW b \in unlinked, Expand(b)
      PROVE  LinkInv'
  BY <1>2, ExpandStep
<1>3. ASSUME UNCHANGED <<vars, unlinked, preds, succs, ptab, stab>>,
             \/ UNCHANGED stage
             \/ stage = "verify" /\ stage' = "wrap"
             \/ stage = "wrap" /\ stage' = "ready"
      PROVE  LinkInv'
  <2>1. TypeOK /\ StackInv /\ SuitsInReach
    BY DEF LinkInv
  <2>2. /\ TypeOK' /\ StackInv' /\ SuitsInReach' /\ suits' = suits /\ pc' = pc
        /\ prog' = prog
        /\ \A x, y : Follows(x, y)' = Follows(x, y)
        /\ \A x, gr : To(x, gr)' = To(x, gr)
    BY <1>3, <2>1, LinkFrame
  <2>3. \A x : Expanded(x)' = Expanded(x)
    BY <1>3, <2>2 DEF Expanded
  <2>4. LinksFound => LinksFound'
    BY <1>3, <2>2, <2>3 DEF LinksFound
  <2>5. FetchBlock \in suits => FetchBlock' \in suits'
    BY <2>2 DEF FetchBlock
  <2>. QED
    BY <1>3, <2>2, <2>4, <2>5 DEF LinkInv, Linking
<1>4. CASE Verify
  <2>1. stage = "verify" /\ UNCHANGED <<vars, unlinked, preds, succs, ptab, stab>>
    BY <1>4 DEF Verify
  <2>2. \A b \in suits : Consistent(b)
    BY <2>1, LinksAreConsistent DEF LinkInv, Linking
  <2>3. stage' = "wrap"
    BY <1>4, <2>2 DEF Verify
  <2>. QED
    BY <1>3, <2>1, <2>3
<1>5. CASE Wrap
  BY <1>3, <1>5 DEF Wrap
<1>6. CASE LinkStopped \/ UNCHANGED <<vars, linkVars>>
  BY <1>3, <1>6 DEF LinkStopped, linkVars
<1>. QED
  BY <1>1, <1>2, <1>4, <1>5, <1>6 DEF LinkNext, LinkStep

(* The links are empty when the slicing loop starts. *)
LEMMA LinkInitKeeps == LinkInit => LinkInv
  BY TypeInit, StackInit
  DEF LinkInit, LinkInv, SuitsInReach, Init, Linking

(* Slice::verify never fails, and when it has passed the links of the      *)
(* slice are its control flow, on any control flow graph.                  *)
THEOREM LinksCorrect == LinkSpec => []LinksAreControlFlow
<1>1. LinkInv => LinksAreControlFlow
  BY DEF LinkInv, LinksAreControlFlow, LinksFound, Linking, Follows, Expanded
<1>. QED
  BY <1>1, LinkInitKeeps, LinkStepKeeps, PTL DEF LinkSpec

(* Every block of the slice leads to the block of the fetch over the       *)
(* links: the path it has in the control flow graph meets a block of the   *)
(* slice that does, first of all.                                          *)
LEMMA LinksLeadToBasis ==
  ASSUME TypeOK, SuitsInReach, LinksFound, unlinked = {}, FetchBlock \in suits
  PROVE  ToBasis
<1>. DEFINE L == [b \in Blocks |-> {s \in suits : <<b, s>> \in preds}]
            B == Closure({FetchBlock}, L)
            T == {x \in reach : NextSuits(x) \cap B # {}}
            H == PredGraph(prog)
            P == [c \in Blocks |-> IF Passing(c) THEN Successors(prog, c) ELSE {}]
<1>1. /\ prog \in Programs /\ suits \subseteq reach /\ reach \subseteq Blocks
      /\ reach = Closure({FetchBlock}, H)
  BY DEF TypeOK, SuitsInReach, ReachBlocks, FetchBlock
<1>2. /\ DOMAIN H = Blocks /\ DOMAIN L = Blocks /\ DOMAIN P = Blocks
      /\ \A x \in Blocks : /\ H[x] \subseteq Blocks /\ L[x] \subseteq Blocks
                           /\ P[x] \subseteq Blocks
                           /\ P[x] = IF Passing(x) THEN Successors(prog, x) ELSE {}
      /\ \A x, y \in Blocks : x \in H[y] <=> y \in Successors(prog, x)
  BY <1>1, ProgramFacts DEF PredGraph
<1>3. ASSUME NEW x \in Blocks
      PROVE  /\ x \in Closure({x}, P) /\ Closed(Closure({x}, P), P)
             /\ Closure({x}, P) \in SUBSET DOMAIN P
             /\ NextSuits(x) = suits \cap Closure({x}, P)
  <2>1. NextSuits(x) = suits \cap Closure({x}, P)
    BY DEF NextSuits
  <2>. HIDE DEF P
  <2>2. {x} \in SUBSET DOMAIN P
    BY <1>2
  <2>3. {x} \subseteq Closure({x}, P) /\ Closed(Closure({x}, P), P)
    BY <1>2, <2>2, ClosureExtends, ClosureIsClosed
  <2>4. Closure({x}, P) \in SUBSET DOMAIN P
    BY DEF Closure
  <2>. QED
    BY <2>1, <2>3, <2>4
<1>4. /\ FetchBlock \in B /\ Closed(B, L)
  <2>. HIDE DEF L
  <2>1. {FetchBlock} \in SUBSET DOMAIN L
    BY <1>1, <1>2
  <2>. QED
    BY <1>2, <2>1, ClosureExtends, ClosureIsClosed
<1>5. \A x \in suits : x \in NextSuits(x)
  BY <1>1, <1>3
<1>6. ASSUME NEW x \in suits
      PROVE  NextSuits(x) \subseteq {x}
  <2>1. ~ Passing(x)
    BY DEF Passing
  <2>2. Closed({x}, P) /\ {x} \in SUBSET DOMAIN P
    BY <1>1, <1>2, <2>1 DEF Closed
  <2>3. Closure({x}, P) \subseteq {x}
    <3>. HIDE DEF P
    <3>. QED
      BY <2>2, ClosureLeast
  <2>. QED
    BY <1>1, <1>3, <2>3
<1>7. ASSUME NEW x \in T, NEW y \in H[x]
      PROVE  y \in T
  <2>1. x \in Blocks /\ y \in Blocks /\ x \in Successors(prog, y) /\ y \in reach
    <3>1. x \in Blocks /\ y \in Blocks
      BY <1>1, <1>2, <1>7
    <3>2. Closed(reach, H)
      <4>. HIDE DEF H
      <4>. QED
        BY <1>1, <1>2, ClosureIsClosed
    <3>. QED
      BY <1>2, <1>7, <3>1, <3>2 DEF Closed
  <2>2. PICK s \in NextSuits(x) : s \in B
    BY <1>7
  <2>3. CASE y \in suits
    <3>1. <<y, s>> \in succs
      BY <2>1, <2>2, <2>3 DEF LinksFound, Follows, Expanded, NextSuits
    <3>2. <<s, y>> \in preds
      BY <3>1 DEF LinksFound
    <3>3. y \in L[s] /\ s \in Blocks
      BY <1>1, <2>2, <2>3, <3>2 DEF NextSuits
    <3>4. y \in B
      BY <1>4, <2>2, <3>3 DEF Closed
    <3>. QED
      BY <1>5, <2>1, <2>3, <3>4
  <2>4. CASE y \notin suits
    <3>1. Passing(y) /\ x \in P[y]
      BY <1>2, <2>1, <2>4 DEF Passing
    <3>2. {x} \subseteq Closure({y}, P)
      BY <1>3, <2>1, <3>1 DEF Closed
    <3>3. Closure({x}, P) \subseteq Closure({y}, P)
      <4>1. Closed(Closure({y}, P), P) /\ Closure({y}, P) \in SUBSET DOMAIN P
        BY <1>3, <2>1
      <4>. HIDE DEF P
      <4>. QED
        BY <3>2, <4>1, ClosureLeast
    <3>4. s \in NextSuits(y)
      BY <1>3, <2>1, <2>2, <3>3
    <3>. QED
      BY <2>1, <2>2, <3>4
  <2>. QED
    BY <2>3, <2>4
<1>8. reach \subseteq T
  <2>1. Closed(T, H) /\ T \in SUBSET DOMAIN H
    BY <1>1, <1>2, <1>7 DEF Closed
  <2>2. {FetchBlock} \subseteq T
    BY <1>1, <1>4, <1>5
  <2>. HIDE DEF T, H
  <2>. QED
    BY <1>1, <2>1, <2>2, ClosureLeast
<1>9. suits \subseteq B
  <2>1. \A x \in suits : NextSuits(x) \cap B # {}
    BY <1>1, <1>8
  <2>. HIDE DEF B
  <2>. QED
    BY <1>6, <2>1
<1>. QED
  BY <1>9 DEF ToBasis

(* Linking follows the slicing loop step by step. *)
LEMMA LinkStepSlices == [LinkNext]_<<vars, linkVars>> => [Next]_vars
BY DEF LinkNext, LinkStep, Slicing, Expand, Verify, Wrap, LinkStopped, Next

(* What the links start from and what they are to be when the slice is     *)
(* done.                                                                   *)
SlicedInv ==
  TypeOK /\ StackInv /\ DataInv /\ WalkInv /\ AnswerInv /\ LeadInv

LEMMA SlicedStep == SlicedInv /\ [Next]_vars => SlicedInv'
BY TypeStep, StackStep, DataStep, WalkStep, AnswerStep, LeadStep DEF SlicedInv

LEMMA SlicedInit == Init => SlicedInv
<1>1. Init => WalkInv /\ AnswerInv /\ LeadInv
  BY DEF Init, WalkInv, SliceHosted, AnswerInv, AnswerIsReal, LeadInv, Walking
<1>. QED
  BY <1>1, TypeInit, StackInit, DataInit DEF SlicedInv

(* Every block of the finished slice can be reached from its entry over    *)
(* the links, and reaches the block of the fetch: no block of the slice is *)
(* on no trace.  That the walk may leave out a deciding branch on a loop   *)
(* does not change this: what such a branch leads to was met on another    *)
(* way.                                                                    *)
THEOREM OnSomeTraceCorrect == LinkSpec => []OnSomeTrace
<1>1. ASSUME LinkInv, SlicedInv, stage \in {"wrap", "ready"}
      PROVE  FromEntry /\ ToBasis
  <2>1. LinksFound /\ pc = "done" /\ unlinked = {} /\ FetchBlock \in suits
    BY <1>1 DEF LinkInv, Linking
  <2>2. ToBasis
    BY <1>1, <2>1, LinksLeadToBasis DEF LinkInv
  <2>3. suits \subseteq Closure({entry}, NextInSlice)
    BY <1>1, <2>1 DEF SlicedInv, LeadInv
  <2>4. NextInSlice = [b \in Blocks |-> {s \in suits : <<b, s>> \in succs}]
    BY <2>1 DEF NextInSlice, LinksFound, Follows, Expanded
  <2>. QED
    BY <2>2, <2>3, <2>4 DEF FromEntry
<1>2. LinkInv /\ SlicedInv => OnSomeTrace
  BY <1>1 DEF OnSomeTrace
<1>3. LinkInit => SlicedInv
  BY SlicedInit DEF LinkInit
<1>4. SlicedInv /\ [LinkNext]_<<vars, linkVars>> => SlicedInv'
  BY LinkStepSlices, SlicedStep
<1>. QED
  BY <1>2, <1>3, <1>4, LinkInitKeeps, LinkStepKeeps, PTL DEF LinkSpec

------------------------------------------------------------------------------
(* The walk ends where it started: its result is the answer of the entry   *)
(* block.  What has an answer while joint is at work on it answers with    *)
(* itself.                                                                 *)
EntryInv ==
  /\ Walking =>
       /\ hists # <<>> => hists[1].block = EntryBlock
       /\ pc = "call" /\ hists = <<>> => cur = EntryBlock
       /\ \A b \in Active : Seen(b) => dedup[b] = b /\ Insts(b) # {}
       /\ pc = "return" /\ hists = <<>> => cur = dedup[EntryBlock]
  /\ pc = "done" =>
       /\ entry = dedup[EntryBlock] /\ entry \in suits
       /\ Seen(EntryBlock)
       /\ \A b \in Blocks : Seen(b) =>
            \A c \in Successors(prog, b) : c \in reach => Seen(c)

(* The entry block is among those that reach the fetch. *)
LEMMA EntryReaches ==
  ASSUME TypeOK, DataInv
  PROVE  EntryBlock \in reach
<1>. DEFINE G == SuccGraph(prog)
            H == PredGraph(prog)
            T == Blocks \ reach
<1>1. prog \in Programs /\ reach \subseteq Blocks /\ FetchBlock \in reach /\ Closed(reach, H)
  BY ReachFacts DEF TypeOK, DataInv
<1>2. FetchBlock \in Closure({EntryBlock}, G)
  BY <1>1, ProgramAssumption DEF WellFormed, FetchBlock
<1>3. SUFFICES ASSUME EntryBlock \notin reach
               PROVE  FALSE
  OBVIOUS
<1>4. \A b \in T : G[b] \subseteq T
  <2> SUFFICES ASSUME NEW b \in T, NEW c \in G[b], c \in reach
               PROVE  FALSE
    BY <1>1, ProgramFacts DEF SuccGraph
  <2>1. b \in H[c]
    BY <1>1 DEF SuccGraph, PredGraph
  <2>. QED
    BY <1>1, <2>1 DEF Closed
<1>5. T \in SUBSET DOMAIN G /\ {EntryBlock} \subseteq T /\ Closed(T, G)
  BY <1>3, <1>4, EntryAssumption DEF SuccGraph, Closed
<1>6. Closure({EntryBlock}, G) \subseteq T
  <2>. HIDE DEF T, G
  <2>. QED
    BY <1>5, ClosureLeast
<1>. QED
  BY <1>1, <1>2, <1>6

(* The walk keeps that. *)
LEMMA EntryStep ==
  ASSUME TypeOK, StackInv, DataInv, WalkInv, VisitInv, EntryInv, [Next]_vars
  PROVE  EntryInv'
<1>. USE DEF Walking
<1>0. prog \in Programs /\ reach \subseteq Blocks /\ Len(hists) \in Nat /\ EntryBlock \in reach
      /\ EntryBlock \in Blocks
  BY StackFacts, EntryReaches, EntryAssumption DEF TypeOK
<1>1. CASE Trace /\ pc' # "call"
  BY <1>1 DEF Trace, Btrace, Follow, BtraceDone, FollowDone, UnknownValue, EntryInv
<1>2. CASE Trace /\ pc' = "call"
  <2>1. /\ pc' = "call" /\ cur' = EntryBlock /\ hists' = <<>>
        /\ dedup' = [b \in Blocks |-> Unseen]
    BY <1>2 DEF Trace, Btrace, Follow, BtraceDone, FollowDone, UnknownValue
  <2>2. Active' = {}
    BY <2>1 DEF Active
  <2>. QED
    BY <2>1, <2>2 DEF EntryInv
<1>3. ASSUME UNCHANGED <<prog, backs>>
      PROVE  \A b : Insts(b)' = Insts(b)
  BY <1>3 DEF Insts
<1>4. CASE JointKnown \/ JointLoop
  <2>1. /\ pc = "call" /\ pc' = "return"
        /\ UNCHANGED <<prog, backs, hists, dedup>>
        /\ cur \in Active \/ cur' = IF cur \in reach THEN dedup[cur] ELSE Null
    BY <1>4 DEF JointKnown, JointLoop, Return
  <2>2. Active' = Active /\ \A b : Insts(b)' = Insts(b) /\ Seen(b)' = Seen(b)
    BY <1>3, <2>1 DEF Active, Seen
  <2>3. hists = <<>> => Active = {}
    BY DEF Active
  <2>4. hists = <<>> => cur' = dedup[EntryBlock]
    BY <1>0, <2>1, <2>3 DEF EntryInv
  <2>. QED
    BY <2>1, <2>2, <2>4 DEF EntryInv
<1>5. CASE JointLeaf
  <2>1. /\ pc = "call" /\ cur \in Blocks /\ Arity(cur) = 0 /\ MarkIfSliced
        /\ UNCHANGED <<prog, backs, hists>> /\ cur \in reach /\ cur \notin Active
    BY <1>0, <1>5 DEF JointLeaf, NewBlock
  <2>2. Insts(cur) # {}
    BY <2>1, LeafIsFetchBlock, FetchBlockHolds
  <2>3. /\ dedup'[cur] = cur /\ Active' = Active
        /\ \A b \in Blocks : b # cur => dedup'[b] = dedup[b]
    BY <2>1, <2>2, MarkFacts DEF Active
  <2>4. pc' = "return" /\ cur' = cur
    BY <1>5, <2>2 DEF JointLeaf, Return
  <2>5. Active \subseteq Blocks
    BY StackFacts
  <2>6. \A b \in Active' : Seen(b)' => dedup'[b] = b /\ Insts(b)' # {}
    BY <1>3, <2>1, <2>3, <2>5 DEF EntryInv, Seen
  <2>7. hists = <<>> => cur' = dedup'[EntryBlock]
    BY <2>1, <2>3, <2>4 DEF EntryInv
  <2>. QED
    BY <2>1, <2>4, <2>6, <2>7 DEF EntryInv
<1>6. CASE JointEnter
  <2>1. /\ pc = "call" /\ pc' = "call" /\ cur \in Blocks /\ MarkIfSliced
        /\ UNCHANGED <<prog, backs>> /\ cur \in reach /\ cur \notin Active
        /\ dedup[cur] = Unseen
    BY <1>0, <1>6 DEF JointEnter, NewBlock
  <2>2. /\ Insts(cur) # {} => dedup'[cur] = cur
        /\ Insts(cur) = {} => dedup' = dedup
        /\ \A b \in Blocks : b # cur => dedup'[b] = dedup[b]
    BY <2>1, MarkFacts
  <2>3. /\ hists' # <<>> /\ Len(hists') = Len(hists) + 1 /\ Active' = Active \cup {cur}
        /\ \A k \in 1..Len(hists) : hists'[k] = hists[k]
        /\ hists'[Len(hists) + 1] = [block |-> cur, side |-> 1, tnxt |-> Null]
    BY <1>6, PushFacts
  <2>4. hists'[1].block = EntryBlock
    <3>1. CASE hists = <<>>
      BY <2>1, <2>3, <3>1, StackFacts DEF EntryInv
    <3>2. CASE hists # <<>>
      BY <1>0, <2>1, <2>3, <3>2, StackFacts DEF EntryInv
    <3>. QED
      BY <3>1, <3>2
  <2>5. Active \subseteq Blocks
    BY StackFacts
  <2>6. \A b \in Active' : Seen(b)' => dedup'[b] = b /\ Insts(b)' # {}
    BY <1>3, <2>1, <2>2, <2>3, <2>5 DEF EntryInv, Seen
  <2>. QED
    BY <2>1, <2>3, <2>4, <2>6 DEF EntryInv
<1>7. CASE JointTrueSide
  <2>1. pc = "return" /\ pc' = "call" /\ UNCHANGED <<prog, backs, dedup>> /\ hists # <<>>
    BY <1>7 DEF JointTrueSide
  <2>2. /\ hists' # <<>> /\ Len(hists') = Len(hists) /\ Active' = Active
        /\ \A k \in 1..(Len(hists) - 1) : hists'[k] = hists[k]
        /\ hists'[Len(hists)] = [block |-> Top.block, side |-> 2, tnxt |-> cur]
    BY <1>7, TurnFacts
  <2>3. hists'[1].block = hists[1].block
    <3>1. Len(hists) > 0
      BY <2>1, StackFacts
    <3>2. CASE Len(hists) = 1
      BY <2>2, <3>2 DEF Top
    <3>3. CASE Len(hists) > 1
      <4>1. 1 \in 1..(Len(hists) - 1)
        BY <1>0, <3>3
      <4>. QED
        BY <2>2, <4>1
    <3>4. Len(hists) = 1 \/ Len(hists) > 1
      <4>1. \A n \in Nat : n > 0 => n = 1 \/ n > 1
        OBVIOUS
      <4>. QED
        BY <1>0, <3>1, <4>1
    <3>. QED
      BY <3>2, <3>3, <3>4
  <2>4. \A b : Insts(b)' = Insts(b) /\ Seen(b)' = Seen(b)
    BY <1>3, <2>1 DEF Seen
  <2>. QED
    BY <2>1, <2>2, <2>3, <2>4 DEF EntryInv
<1>8. CASE JointFinish
  <2>. DEFINE b == Top.block
  <2>1. PICK tnxt :
           /\ cur' = Answer(b, tnxt, cur)
           /\ dedup[b] = Unseen => dedup'[b] = cur'
           /\ dedup[b] # Unseen => dedup'[b] = dedup[b]
           /\ \A c \in Blocks : c # b => dedup'[c] = dedup[c]
           /\ b \in Blocks /\ b \in Active
           /\ UNCHANGED <<prog, reach, backs>>
           /\ pc = "return" /\ pc' = "return"
    BY <1>8, FinishFacts
  <2>2. /\ Len(hists) > 0 /\ Len(hists') = Len(hists) - 1
        /\ \A k \in 1..Len(hists') : k \in 1..Len(hists) /\ hists'[k] = hists[k]
        /\ Active' \subseteq Active
    BY <1>8, PopFacts
  <2>3. b \notin Active'
    <3>1. SUFFICES ASSUME NEW k \in 1..Len(hists'), hists'[k].block = b
                   PROVE  FALSE
      BY DEF Active
    <3>2. k \in 1..Len(hists) /\ Len(hists) \in 1..Len(hists) /\ hists[k].block = hists[Len(hists)].block
      BY <1>0, <2>2, <3>1 DEF Top
    <3>3. k = Len(hists)
      BY <3>2 DEF StackInv
    <3>. QED
      BY <1>0, <2>2, <3>3
  <2>4. Active \subseteq Blocks
    BY StackFacts
  <2>5. \A c : Insts(c)' = Insts(c)
    BY <1>3, <2>1
  <2>6. \A c \in Active' : Seen(c)' => dedup'[c] = c /\ Insts(c)' # {}
    <3>. HIDE DEF b
    <3>. QED
      BY <2>1, <2>2, <2>3, <2>4, <2>5 DEF EntryInv, Seen
  <2>7. hists' # <<>> => hists'[1].block = EntryBlock
    <3>1. SUFFICES ASSUME hists' # <<>>
                   PROVE  hists'[1].block = EntryBlock
      OBVIOUS
    <3>2. hists' \in Seq(Frames) /\ hists # <<>>
      BY <1>8, StackFacts DEF JointFinish
    <3>3. Len(hists') \in Nat /\ Len(hists') > 0
      BY <3>1, <3>2, EmptySeq, LenProperties
    <3>4. 1 \in 1..Len(hists')
      BY <3>3
    <3>. QED
      BY <2>1, <2>2, <3>2, <3>4 DEF EntryInv
  <2>8. hists' = <<>> => cur' = dedup'[EntryBlock]
    <3>1. SUFFICES ASSUME hists' = <<>>
                   PROVE  cur' = dedup'[EntryBlock]
      OBVIOUS
    <3>2. Len(hists) = 1
      <4>1. Len(hists') = 0
        BY <3>1
      <4>. QED
        BY <1>0, <2>2, <4>1
    <3>3. b = EntryBlock
      BY <1>8, <2>1, <3>2 DEF EntryInv, Top, JointFinish
    <3>4. CASE dedup[b] = Unseen
      BY <2>1, <3>3, <3>4
    <3>5. CASE dedup[b] # Unseen
      <4>1. dedup[b] = b /\ Insts(b) # {}
        BY <2>1, <3>5 DEF EntryInv, Seen
      <4>. QED
        BY <2>1, <3>3, <4>1 DEF Answer
    <3>. QED
      BY <3>4, <3>5
  <2>. QED
    BY <2>1, <2>6, <2>7, <2>8 DEF EntryInv
<1>9. CASE JointReturned
  <2>1. /\ pc = "return" /\ hists = <<>> /\ entry' = cur
        /\ UNCHANGED <<prog, reach, dedup, suits>>
        /\ pc' \in {"abort", "btrace", "done"} /\ (pc' = "done" => cur \in suits)
    BY <1>9 DEF JointReturned
  <2>2. Active = {}
    BY <2>1 DEF Active
  <2>3. FinishedVisited /\ Handled(EntryBlock)
    BY <2>1 DEF VisitInv, EntryVisited
  <2>4. Seen(EntryBlock) /\ \A c \in Blocks : Seen(c) =>
            \A d \in Successors(prog, c) : d \in reach => Seen(d)
    BY <1>0, <2>2, <2>3 DEF FinishedVisited, Handled
  <2>. QED
    BY <2>1, <2>4 DEF EntryInv, Seen
<1>10. CASE UNCHANGED vars
  BY <1>10 DEF EntryInv, vars, Active, Seen, Insts
<1>. QED
  BY <1>1, <1>2, <1>4, <1>5, <1>6, <1>7, <1>8, <1>9, <1>10
  DEF Next, Step, Joint, Stopped

(* It holds in the beginning. *)
LEMMA EntryInit == Init => EntryInv
BY DEF Init, EntryInv, Walking

------------------------------------------------------------------------------
(* The loops of the function and those of the slice. *)

(* The successors of a block that reach the fetch, the blocks that control *)
(* reaches from the entry, and those it reaches without coming to d.       *)
Inner(b) == Successors(prog, b) \cap reach

InnerGraph == [b \in reach |-> Inner(b)]

Reached == Closure({EntryBlock}, InnerGraph)

Around(d) == Closure({EntryBlock} \ {d}, [b \in reach |-> InnerGraph[b] \ {d}])

(* An edge that does not lead back to a block all control came by before,  *)
(* and a function in which those edges form no loop.                       *)
Forward(x, y) == x \in reach /\ y \in Inner(x) /\ x \in Around(y)

ForwardGraph == [b \in reach |-> {c \in Inner(b) : b \in Around(c)}]

OneEntry == \A b \in Reached : b \notin Closure(ForwardGraph[b], ForwardGraph)

LEMMA AroundFacts ==
  ASSUME prog \in Programs, reach \subseteq Blocks, EntryBlock \in reach, NEW d
  PROVE  /\ Around(d) \subseteq reach /\ Around(d) \subseteq Reached /\ Reached \subseteq reach
         /\ d \notin Around(d)
         /\ EntryBlock \in Reached
         /\ EntryBlock # d => EntryBlock \in Around(d)
         /\ \A x \in Around(d) : \A y \in Inner(x) : y # d => y \in Around(d)
         /\ \A x \in Reached : Inner(x) \subseteq Reached
<1>. DEFINE G == [b \in reach |-> InnerGraph[b] \ {d}]
            S == {EntryBlock} \ {d}
            N == reach \ {d}
<1>1. /\ DOMAIN InnerGraph = reach
      /\ \A b \in reach : InnerGraph[b] = Inner(b) /\ InnerGraph[b] \subseteq reach
  BY DEF InnerGraph, Inner
<1>2. /\ DOMAIN G = reach
      /\ \A b \in reach : G[b] = Inner(b) \ {d} /\ G[b] \subseteq reach /\ G[b] \subseteq InnerGraph[b]
  BY <1>1
<1>3. S \in SUBSET reach /\ N \in SUBSET reach /\ S \subseteq N /\ S \subseteq {EntryBlock}
      /\ Around(d) = Closure(S, G)
  BY <1>1 DEF Around
<1>4. \A b \in N : G[b] \subseteq N
  BY <1>2
<1>5. EntryBlock # d => EntryBlock \in S
  OBVIOUS
<1>6. d \notin N
  OBVIOUS
<1>. HIDE DEF G, S, N
<1>7. {EntryBlock} \subseteq Reached /\ Reached \subseteq reach
  BY <1>1, ClosureExtends DEF Reached, Closure
<1>8. Closed(Reached, InnerGraph)
  BY <1>1, ClosureIsClosed DEF Reached
<1>9. S \subseteq Around(d) /\ Around(d) \subseteq reach
  BY <1>2, <1>3, ClosureExtends DEF Closure
<1>10. Closed(Around(d), G)
  BY <1>2, <1>3, ClosureIsClosed
<1>11. Around(d) \subseteq N
  <2>1. Closed(N, G)
    BY <1>4 DEF Closed
  <2>. QED
    BY <1>2, <1>3, <2>1, ClosureLeast
<1>12. Around(d) \subseteq Reached
  BY <1>1, <1>2, <1>3, <1>7, ClosureGrows DEF Reached
<1>13. \A x \in Reached : Inner(x) \subseteq Reached
  BY <1>1, <1>7, <1>8 DEF Closed
<1>14. \A x \in Around(d) : \A y \in Inner(x) : y # d => y \in Around(d)
  BY <1>2, <1>9, <1>10 DEF Closed
<1>. QED
  BY <1>5, <1>6, <1>7, <1>9, <1>11, <1>12, <1>13, <1>14

(* It is the least such set. *)
LEMMA AroundLeast ==
  ASSUME prog \in Programs, reach \subseteq Blocks, EntryBlock \in reach, NEW d,
         NEW T \in SUBSET reach, EntryBlock # d => EntryBlock \in T,
         \A x \in T : \A y \in Inner(x) : y # d => y \in T
  PROVE  Around(d) \subseteq T
<1>. DEFINE G == [b \in reach |-> InnerGraph[b] \ {d}]
            S == {EntryBlock} \ {d}
<1>1. /\ DOMAIN G = reach
      /\ \A b \in reach : G[b] = Inner(b) \ {d}
  BY DEF InnerGraph
<1>2. S \subseteq T /\ Closed(T, G)
  BY <1>1 DEF Closed
<1>3. Around(d) = Closure(S, G)
  BY DEF Around
<1>. HIDE DEF G, S
<1>. QED
  BY <1>1, <1>2, <1>3, ClosureLeast

(* Two reached blocks are the same when all control comes to each of them  *)
(* by way of the other.                                                    *)
LEMMA AroundAntisymmetric ==
  ASSUME prog \in Programs, reach \subseteq Blocks, EntryBlock \in reach,
         NEW d \in Reached, NEW e \in Reached, d \notin Around(e), e \notin Around(d)
  PROVE  d = e
<1>. SUFFICES ASSUME d # e
              PROVE  FALSE
  OBVIOUS
<1>. DEFINE T == Around(d) \cap Around(e)
            R == Around(d) \cup Around(e)
<1>1. T \in SUBSET reach /\ R \in SUBSET reach
  BY AroundFacts
<1>2. ASSUME EntryBlock # d, EntryBlock # e
      PROVE  Around(d) \subseteq T /\ Around(e) \subseteq T
  <2>1. EntryBlock \in T
    BY <1>2, AroundFacts
  <2>2. \A x \in T : \A y \in Inner(x) : y # d => y \in T
    <3>. SUFFICES ASSUME NEW x \in T, NEW y \in Inner(x), y # d
                  PROVE  y \in T
      OBVIOUS
    <3>1. y \in Around(d)
      BY AroundFacts
    <3>2. y # e
      BY <3>1
    <3>. QED
      BY <3>1, <3>2, AroundFacts
  <2>3. \A x \in T : \A y \in Inner(x) : y # e => y \in T
    <3>. SUFFICES ASSUME NEW x \in T, NEW y \in Inner(x), y # e
                  PROVE  y \in T
      OBVIOUS
    <3>1. y \in Around(e)
      BY AroundFacts
    <3>2. y # d
      BY <3>1
    <3>. QED
      BY <3>1, <3>2, AroundFacts
  <2>. HIDE DEF T
  <2>. QED
    BY <1>1, <2>1, <2>2, <2>3, AroundLeast
<1>3. EntryBlock # d /\ EntryBlock # e
  BY AroundFacts
<1>4. Around(d) = Around(e)
  BY <1>2, <1>3
<1>5. \A x \in Around(d) : Inner(x) \subseteq Around(d)
  <2>. SUFFICES ASSUME NEW x \in Around(d), NEW y \in Inner(x)
                PROVE  y \in Around(d)
    OBVIOUS
  <2>1. CASE y # d
    BY <2>1, AroundFacts
  <2>2. CASE y # e
    BY <1>4, <2>2, AroundFacts
  <2>. QED
    BY <2>1, <2>2
<1>6. Reached \subseteq Around(d)
  <2>1. {EntryBlock} \subseteq Around(d) /\ Around(d) \in SUBSET DOMAIN InnerGraph
    BY <1>3, AroundFacts DEF InnerGraph
  <2>2. Closed(Around(d), InnerGraph)
    BY <1>5, <2>1 DEF Closed, InnerGraph
  <2>. QED
    BY <2>1, <2>2, ClosureLeast DEF Reached
<1>. QED
  BY <1>6, AroundFacts

(* An active call is reached before the calls it makes, so that the path   *)
(* of the active calls goes forward.                                       *)
LEMMA PathGoesForward ==
  ASSUME TypeOK, StackInv, EntryInv, EntryBlock \in reach, Walking
  PROVE  /\ \A k, m \in 1..Len(hists) : k < m => hists[k].block \in Around(hists[m].block)
         /\ \A k \in 2..Len(hists) :
              /\ hists[k].block \in Inner(hists[k - 1].block)
              /\ Forward(hists[k - 1].block, hists[k].block)
<1>1. /\ Len(hists) \in Nat /\ prog \in Programs /\ reach \subseteq Blocks
      /\ hists # <<>> => hists[1].block = EntryBlock
      /\ hists = <<>> => Len(hists) = 0
      /\ \A k \in 1..Len(hists) : hists[k] \in Frames
  BY StackFacts DEF TypeOK, EntryInv
<1>2. ASSUME NEW k \in 2..Len(hists)
      PROVE  hists[k].block \in Inner(hists[k - 1].block) /\ hists[k - 1].block \in reach
  <2>1. k - 1 \in 1..Len(hists) /\ k \in 1..Len(hists)
    BY <1>1
  <2>2. /\ hists[k].block = SuccOf(prog, hists[k - 1].block)[hists[k - 1].side]
        /\ hists[k - 1].side <= Arity(hists[k - 1].block) /\ hists[k - 1].side \in 1..2
        /\ hists[k - 1].block \in reach /\ hists[k].block \in reach
        /\ hists[k - 1].block \in Blocks
    BY <1>1, <1>2, <2>1 DEF StackInv, Linked, FrameOK, Frames
  <2>3. hists[k - 1].side \in 1..Arity(hists[k - 1].block)
    BY <1>1, <2>2, ProgramFacts DEF Arity
  <2>. QED
    BY <2>2, <2>3 DEF Inner, Successors, Arity
<1>3. ASSUME NEW m \in 1..Len(hists)
      PROVE  \A k \in 1..Len(hists) : k < m => hists[k].block \in Around(hists[m].block)
  <2>. DEFINE S == {k \in 1..Len(hists) : k < m /\ hists[k].block \notin Around(hists[m].block)}
  <2>. SUFFICES ASSUME S # {}
                PROVE  FALSE
    OBVIOUS
  <2>1. PICK k \in S : \A j \in S : k <= j
    <3>1. S \in SUBSET Nat
      OBVIOUS
    <3>. HIDE DEF S
    <3>. QED
      BY <3>1, LeastExists
  <2>2. hists[k].block # hists[m].block
    BY DEF StackInv
  <2>3. k # 1
    BY <1>1, <2>2, AroundFacts
  <2>4. k \in 2..Len(hists) /\ k - 1 \in 1..Len(hists) /\ k - 1 < m /\ ~(k <= k - 1)
    BY <1>1, <2>3
  <2>5. hists[k - 1].block \in Around(hists[m].block)
    BY <2>1, <2>4
  <2>. QED
    BY <1>1, <1>2, <2>2, <2>4, <2>5, AroundFacts
<1>4. ASSUME NEW k \in 2..Len(hists)
      PROVE  Forward(hists[k - 1].block, hists[k].block)
  <2>1. k - 1 \in 1..Len(hists) /\ k \in 1..Len(hists) /\ k - 1 < k
    BY <1>1
  <2>. QED
    BY <1>2, <1>3, <2>1 DEF Forward
<1>. QED
  BY <1>2, <1>3, <1>4

(* The forward edges of the graph. *)
LEMMA ForwardFacts ==
  /\ DOMAIN ForwardGraph = reach
  /\ \A x \in reach : ForwardGraph[x] \subseteq reach
  /\ \A x, y : Forward(x, y) <=> x \in reach /\ y \in ForwardGraph[x]
BY DEF Forward, ForwardGraph, Inner

(* In a function whose loops have one entry the walk comes back to an      *)
(* active call over an edge to the head of a loop only.                    *)
LEMMA ComesBack ==
  ASSUME TypeOK, StackInv, EntryInv, EntryBlock \in reach, Walking, OneEntry,
         hists # <<>>, cur \in Active
  PROVE  ~Forward(Top.block, cur)
<1>. SUFFICES ASSUME Forward(Top.block, cur)
              PROVE  FALSE
  OBVIOUS
<1>. DEFINE C == Closure(ForwardGraph[cur], ForwardGraph)
            n == Len(hists)
<1>1. n \in Nat /\ n > 0 /\ Top = hists[n] /\ prog \in Programs /\ reach \subseteq Blocks
  BY StackFacts DEF TypeOK, Top
<1>2. PICK j \in 1..n : hists[j].block = cur
  BY DEF Active
<1>3. Top.block \in reach /\ Top.block \in Around(cur) /\ cur \in Inner(Top.block) /\ cur \in reach
  BY DEF Forward, Inner
<1>4. cur \in Reached
  BY <1>1, <1>3, AroundFacts
<1>5. Closed(C, ForwardGraph) /\ ForwardGraph[cur] \subseteq C /\ C \subseteq reach
  <2>1. ForwardGraph[cur] \in SUBSET DOMAIN ForwardGraph
    BY <1>3, ForwardFacts
  <2>2. \A v \in DOMAIN ForwardGraph : ForwardGraph[v] \subseteq DOMAIN ForwardGraph
    BY ForwardFacts
  <2>3. C \subseteq reach
    BY ForwardFacts DEF Closure
  <2>. QED
    BY <2>1, <2>2, <2>3, ClosureExtends, ClosureIsClosed
<1>. DEFINE S == {k \in 1..n : j < k /\ hists[k].block \notin C}
<1>. HIDE DEF C
<1>6. S = {}
  <2>. SUFFICES ASSUME S # {}
                PROVE  FALSE
    OBVIOUS
  <2>1. PICK k \in S : \A i \in S : k <= i
    <3>1. S \in SUBSET Nat
      OBVIOUS
    <3>. HIDE DEF S
    <3>. QED
      BY <3>1, LeastExists
  <2>2. k \in 2..n /\ k - 1 \in 1..n /\ ~(k <= k - 1) /\ (j = k - 1 \/ j < k - 1)
    BY <1>1
  <2>3. Forward(hists[k - 1].block, hists[k].block)
    BY <2>2, PathGoesForward
  <2>4. hists[k].block \in ForwardGraph[hists[k - 1].block]
    BY <2>3, ForwardFacts
  <2>5. CASE j = k - 1
    BY <1>2, <1>5, <2>4, <2>5
  <2>6. CASE j < k - 1
    <3>1. hists[k - 1].block \in C
      BY <2>1, <2>2, <2>6
    <3>. QED
      BY <1>5, <2>4, <3>1 DEF Closed
  <2>. QED
    BY <2>2, <2>5, <2>6
<1>7. j # n
  BY <1>1, <1>2, <1>3, AroundFacts
<1>8. Top.block \in C
  BY <1>1, <1>6, <1>7
<1>9. cur \in ForwardGraph[Top.block]
  BY ForwardFacts
<1>10. cur \in C
  BY <1>5, <1>8, <1>9 DEF Closed
<1>. QED
  BY <1>4, <1>10 DEF OneEntry, C

(* An edge over which the walk gets the final answer of the next block:    *)
(* the block is finished by then, or answers with itself from the start.   *)
Sure(x, y) == x \in reach /\ y \in Inner(x) /\ (x \in Around(y) \/ Insts(y) # {})

(* A finished block has, unless it found a new branch, the same answer as  *)
(* the blocks it leads to over such edges, when it has no instructions     *)
(* itself; and a branch between two answers is in the slice, or is new.    *)
Completed(x) == Seen(x) /\ x \notin Active

AnswerKept(x, y) ==
  Seen(y) /\ (Open(x) /\ dedup[y] # Null => dedup[x] = dedup[y] \/ TermOf(prog, x) \in taints)

BranchKept(x, y, z) ==
  dedup[y] # dedup[z] /\ dedup[y] # Null /\ dedup[z] # Null => TermOf(prog, x) \in backs \cup taints

BlockKept(x) ==
  /\ \A y : Sure(x, y) => AnswerKept(x, y)
  /\ \A y, z : Sure(x, y) /\ Sure(x, z) => BranchKept(x, y, z)

FinishedKept == \A x \in reach : Completed(x) => BlockKept(x)

(* What is kept for the sides of the active calls.                         *)
SideKept(b, side, res) ==
  LET y == SuccOf(prog, b)[side]
  IN  Sure(b, y) => Seen(y) /\ res = dedup[y]

TrueSideKept ==
  \A k \in 1..Len(hists) :
    hists[k].side = 2 => SideKept(hists[k].block, 1, hists[k].tnxt)

ResultKept ==
  pc = "return" /\ hists # <<>> => SideKept(Top.block, Top.side, cur)

SelfKept ==
  \A b \in Blocks : Seen(b) => b \in Reached /\ (Insts(b) # {} => dedup[b] = b)

WayInv ==
  OneEntry =>
    /\ Walking => FinishedKept /\ TrueSideKept /\ ResultKept /\ SelfKept
    /\ pc = "done" => FinishedKept /\ SelfKept /\ taints = {} /\ hists = <<>>

(* The graph and its edges do not change. *)
LEMMA WayFrame ==
  ASSUME UNCHANGED <<prog, reach>>
  PROVE  /\ OneEntry' = OneEntry /\ Reached' = Reached
         /\ backs' = backs =>
              /\ \A x : Insts(x)' = Insts(x) /\ Open(x)' = Open(x)
              /\ \A x, y : Sure(x, y)' = Sure(x, y)
<1>1. \A x : Inner(x)' = Inner(x)
  BY DEF Inner, Successors
<1>2. InnerGraph' = InnerGraph
  BY <1>1 DEF InnerGraph
<1>3. \A x : Around(x)' = Around(x)
  BY <1>2 DEF Around
<1>4. ForwardGraph' = ForwardGraph
  BY <1>1, <1>3 DEF ForwardGraph
<1>5. Reached' = Reached
  BY <1>2 DEF Reached
<1>6. OneEntry' = OneEntry
  BY <1>4, <1>5 DEF OneEntry
<1>7. backs' = backs => \A x : Insts(x)' = Insts(x) /\ Open(x)' = Open(x)
  BY DEF Open, Insts
<1>8. backs' = backs => \A x, y : Sure(x, y)' = Sure(x, y)
  BY <1>1, <1>3, <1>7 DEF Sure
<1>. QED
  BY <1>5, <1>6, <1>7, <1>8

(* The active calls are on reached blocks. *)
LEMMA ActiveReached ==
  ASSUME TypeOK, StackInv, EntryInv, EntryBlock \in reach, Walking
  PROVE  /\ Active \subseteq Reached
         /\ pc = "call" /\ cur \in reach => cur \in Reached
<1>1. /\ Len(hists) \in Nat /\ prog \in Programs /\ reach \subseteq Blocks
      /\ hists # <<>> => hists[1].block = EntryBlock /\ Len(hists) > 0
      /\ EntryBlock \in Reached /\ \A x \in Reached : Inner(x) \subseteq Reached
  BY StackFacts, AroundFacts DEF TypeOK, EntryInv
<1>. DEFINE S == {k \in 1..Len(hists) : hists[k].block \notin Reached}
<1>2. S = {}
  <2>. SUFFICES ASSUME S # {}
                PROVE  FALSE
    OBVIOUS
  <2>1. PICK k \in S : \A j \in S : k <= j
    <3>1. S \in SUBSET Nat
      OBVIOUS
    <3>. HIDE DEF S
    <3>. QED
      BY <3>1, LeastExists
  <2>2. hists # <<>>
    BY <1>1, StackFacts
  <2>3. k # 1
    BY <1>1, <2>2
  <2>4. k \in 2..Len(hists) /\ k - 1 \in 1..Len(hists) /\ ~(k <= k - 1)
    BY <1>1, <2>3
  <2>5. hists[k - 1].block \in Reached
    BY <2>1, <2>4
  <2>. QED
    BY <1>1, <2>4, <2>5, PathGoesForward
<1>3. Active \subseteq Reached
  BY <1>2 DEF Active
<1>4. ASSUME pc = "call", cur \in reach
      PROVE  cur \in Reached
  <2>1. CASE hists = <<>>
    BY <1>1, <1>4, <2>1 DEF EntryInv
  <2>2. CASE hists # <<>>
    <3>1. /\ cur = SuccOf(prog, Top.block)[Top.side] /\ Top.block \in Active
          /\ Top \in Frames /\ Top = hists[Len(hists)] /\ Len(hists) \in 1..Len(hists)
      BY <1>1, <1>4, <2>2, StackFacts DEF StackInv, Top
    <3>2. Top.side <= Arity(Top.block) /\ Top.side \in 1..2 /\ Top.block \in Blocks
      BY <3>1 DEF StackInv, FrameOK, Frames
    <3>3. Top.side \in 1..Arity(Top.block)
      BY <1>1, <3>2, ProgramFacts DEF Arity
    <3>4. cur \in Inner(Top.block)
      BY <1>4, <3>1, <3>3 DEF Inner, Successors, Arity
    <3>. QED
      BY <1>1, <1>3, <3>1, <3>4
  <2>. QED
    BY <2>1, <2>2
<1>. QED
  BY <1>3, <1>4

(* An answer that is known stays as it is; what is new is kept, too.       *)
LEMMA KeptLonger ==
  ASSUME UNCHANGED <<prog, reach, backs>>, FinishedKept, SelfKept, taints \subseteq taints',
         reach \subseteq Blocks,
         \A b \in Blocks : Seen(b) => dedup'[b] = dedup[b],
         \A x \in reach : Completed(x)' => Completed(x) \/ BlockKept(x)',
         \A b \in Blocks : Seen(b)' /\ ~Seen(b) =>
            b \in Reached /\ (Insts(b) # {} => dedup'[b] = b)
  PROVE  FinishedKept' /\ SelfKept'
<1>1. /\ \A x, y : Sure(x, y)' = Sure(x, y)
      /\ \A x : Insts(x)' = Insts(x) /\ Open(x)' = Open(x)
      /\ Reached' = Reached
  BY WayFrame
<1>2. FinishedKept'
  <2>. SUFFICES ASSUME NEW x \in reach, Completed(x)'
                PROVE  BlockKept(x)'
    BY DEF FinishedKept
  <2>1. CASE Completed(x)
    <3>1. BlockKept(x)
      BY <2>1 DEF FinishedKept
    <3>2. \A y : Sure(x, y) => Seen(y) /\ dedup'[y] = dedup[y]
      BY <3>1 DEF BlockKept, AnswerKept, Sure, Inner
    <3>3. dedup'[x] = dedup[x]
      BY <2>1 DEF Completed
    <3>4. ASSUME NEW y, Sure(x, y)
          PROVE  AnswerKept(x, y)'
      <4>1. AnswerKept(x, y) /\ dedup'[y] = dedup[y]
        BY <3>1, <3>2, <3>4 DEF BlockKept
      <4>. QED
        BY <1>1, <3>3, <4>1 DEF AnswerKept, Seen
    <3>5. ASSUME NEW y, NEW z, Sure(x, y), Sure(x, z)
          PROVE  BranchKept(x, y, z)'
      <4>1. BranchKept(x, y, z) /\ dedup'[y] = dedup[y] /\ dedup'[z] = dedup[z]
        BY <3>1, <3>2, <3>5 DEF BlockKept
      <4>. QED
        BY <4>1 DEF BranchKept
    <3>. QED
      BY <1>1, <3>4, <3>5 DEF BlockKept
  <2>. QED
    BY <2>1
<1>3. SelfKept'
  BY <1>1 DEF SelfKept, Seen
<1>. QED
  BY <1>2, <1>3

(* The sides of a finished block: its answer is that of the next block,    *)
(* unless it decides between two.                                          *)
LEMMA SidesAgree ==
  ASSUME TypeOK, NEW b \in Blocks, b \in reach, NEW tnxt, NEW side,
         Arity(b) = side, side \in 1..2,
         side = 2 => SideKept(b, 1, tnxt), side = 1 => tnxt = cur,
         SideKept(b, side, cur),
         Decides(tnxt, cur) => NewTaint(b) \subseteq taints',
         UNCHANGED <<prog, reach, backs>>,
         Insts(b) = {} => dedup'[b] = Answer(b, tnxt, cur),
         \A c \in Blocks : Seen(c) => dedup'[c] = dedup[c]
  PROVE  BlockKept(b)'
<1>1. prog \in Programs /\ reach \subseteq Blocks /\ HostOf(prog, TermOf(prog, b)) = b
  BY ProgramFacts DEF TypeOK
<1>2. /\ \A x, y : Sure(x, y)' = Sure(x, y)
      /\ \A x : Insts(x)' = Insts(x) /\ Open(x)' = Open(x)
  BY WayFrame
<1>3. ASSUME NEW y, Sure(b, y)
      PROVE  Seen(y) /\ (dedup[y] = tnxt \/ dedup[y] = cur) /\ dedup'[y] = dedup[y]
  <2>1. y \in Blocks /\ y \in Successors(prog, b)
    BY <1>1, <1>3 DEF Sure, Inner
  <2>2. PICK k \in 1..side : y = SuccOf(prog, b)[k]
    BY <2>1 DEF Successors, Arity
  <2>3. Seen(y) /\ (dedup[y] = tnxt \/ dedup[y] = cur)
    <3>1. CASE k = side
      BY <1>3, <2>2, <3>1 DEF SideKept
    <3>2. CASE k # side
      <4>1. k = 1 /\ side = 2
        BY <2>2, <3>2
      <4>. QED
        BY <1>3, <2>2, <4>1 DEF SideKept
    <3>. QED
      BY <3>1, <3>2
  <2>. QED
    BY <2>1, <2>3
<1>4. Decides(tnxt, cur) => TermOf(prog, b) \in backs \cup taints'
  BY DEF NewTaint
<1>5. ASSUME NEW y, Sure(b, y)
      PROVE  AnswerKept(b, y)'
  <2>1. Seen(y) /\ (dedup[y] = tnxt \/ dedup[y] = cur) /\ dedup'[y] = dedup[y]
    BY <1>3, <1>5
  <2>2. CASE ~Open(b)
    BY <1>2, <2>1, <2>2 DEF AnswerKept, Seen
  <2>3. CASE Open(b) /\ Decides(tnxt, cur)
    <3>1. TermOf(prog, b) \notin backs
      BY <1>1, <2>3 DEF Insts, Open
    <3>. QED
      BY <1>4, <2>1, <2>3, <3>1 DEF AnswerKept, Seen
  <2>4. CASE Open(b) /\ ~Decides(tnxt, cur)
    <3>1. dedup'[b] = IF tnxt = Null THEN cur ELSE tnxt
      BY <2>4 DEF Answer, Open
    <3>2. dedup[y] # Null => dedup'[b] = dedup[y]
      BY <2>1, <2>4, <3>1 DEF Decides
    <3>. QED
      BY <2>1, <3>2 DEF AnswerKept, Seen
  <2>. QED
    BY <2>2, <2>3, <2>4
<1>6. ASSUME NEW y, NEW z, Sure(b, y), Sure(b, z)
      PROVE  BranchKept(b, y, z)'
  <2>1. /\ dedup[y] = tnxt \/ dedup[y] = cur
        /\ dedup[z] = tnxt \/ dedup[z] = cur
        /\ dedup'[y] = dedup[y] /\ dedup'[z] = dedup[z]
    BY <1>3, <1>6
  <2>. QED
    BY <1>4, <2>1 DEF BranchKept, Decides
<1>. QED
  BY <1>2, <1>5, <1>6 DEF BlockKept

(* Every step of the walk keeps that. *)
LEMMA WayStep ==
  ASSUME TypeOK, StackInv, DataInv, WalkInv, EntryInv, WayInv, [Next]_vars
  PROVE  WayInv'
<1>. USE DEF Walking
<1>0. prog \in Programs /\ reach \subseteq Blocks /\ Len(hists) \in Nat /\ EntryBlock \in reach
      /\ prog' = prog /\ reach' = reach
  <2>1. UNCHANGED <<prog, reach>>
    BY DEF Next, Step, Trace, Joint, Stopped, Btrace, Follow, BtraceDone, FollowDone, UnknownValue, JointKnown,
           JointLoop, JointEnter, JointLeaf, JointTrueSide, JointFinish, JointReturned, vars
  <2>. QED
    BY <2>1, StackFacts, EntryReaches DEF TypeOK
<1>. SUFFICES ASSUME OneEntry
              PROVE  WayInv'
  BY <1>0, WayFrame DEF WayInv
<1>1. /\ Reached' = Reached
      /\ backs' = backs => /\ \A x : Insts(x)' = Insts(x) /\ Open(x)' = Open(x)
                          /\ \A x, y : Sure(x, y)' = Sure(x, y)
  BY <1>0, WayFrame
<1>2. ASSUME backs' = backs
      PROVE  \A b, side :
               /\ Sure(b, SuccOf(prog, b)[side])' = Sure(b, SuccOf(prog, b)[side])
               /\ Sure(b, SuccOf(prog, b)[side]) => SuccOf(prog, b)[side] \in Blocks
  BY <1>0, <1>1, <1>2 DEF Sure, Inner
<1>3. CASE Trace /\ pc' # "call"
  BY <1>3 DEF Trace, Btrace, Follow, BtraceDone, FollowDone, UnknownValue, WayInv
<1>4. CASE Trace /\ pc' = "call"
  <2>1. pc' = "call" /\ hists' = <<>> /\ dedup' = [b \in Blocks |-> Unseen]
    BY <1>4 DEF Trace, Btrace, Follow, BtraceDone, FollowDone, UnknownValue
  <2>2. 1..Len(hists') = {}
    BY <2>1
  <2>3. \A b \in Blocks : ~Seen(b)'
    BY <2>1 DEF Seen
  <2>. QED
    BY <1>0, <2>1, <2>2, <2>3
    DEF WayInv, FinishedKept, Completed, SelfKept, TrueSideKept, ResultKept
<1>5. ASSUME pc \in {"call", "return"}
      PROVE  FinishedKept /\ TrueSideKept /\ ResultKept /\ SelfKept
  BY <1>5 DEF WayInv
<1>6. ASSUME pc' \in {"call", "return"}, FinishedKept', TrueSideKept', ResultKept', SelfKept'
      PROVE  WayInv'
  BY <1>6 DEF WayInv
<1>7. ASSUME pc = "call", hists # <<>>
      PROVE  cur = SuccOf(prog, Top.block)[Top.side]
  BY <1>7 DEF StackInv
(* The sides after the step. *)
<1>. DEFINE Kept(b, side, res) ==
              LET y == SuccOf(prog, b)[side]
              IN  Sure(b, y) => dedup'[y] # Unseen /\ res = dedup'[y]
<1>8. ASSUME backs' = backs
      PROVE  /\ (\A k \in 1..Len(hists') :
                    hists'[k].side = 2 => Kept(hists'[k].block, 1, hists'[k].tnxt)) => TrueSideKept'
             /\ (pc' = "return" /\ hists' # <<>> => Kept(Top'.block, Top'.side, cur')) => ResultKept'
  BY <1>0, <1>1, <1>8 DEF TrueSideKept, ResultKept, SideKept, Seen
<1>18. ASSUME backs' = backs, \A b \in Blocks : Seen(b) => dedup'[b] = dedup[b]
       PROVE  \A b, side, res : SideKept(b, side, res) => Kept(b, side, res)
  BY <1>2, <1>18 DEF SideKept, Seen
<1>. HIDE DEF Kept
(* The walk keeps what it has, when it finishes no block. *)
<1>20. ASSUME UNCHANGED <<backs, taints, dedup>>, Active \subseteq Active', FinishedKept, SelfKept
       PROVE  FinishedKept' /\ SelfKept'
  <2>1. \A x \in reach : Completed(x)' => Completed(x)
    BY <1>20 DEF Completed, Seen
  <2>2. \A b \in Blocks : Seen(b)' => Seen(b)
    BY <1>20 DEF Seen
  <2>. QED
    BY <1>0, <1>20, <2>1, <2>2, KeptLonger
<1>9. CASE JointKnown \/ JointLoop
  <2>1. /\ pc = "call" /\ pc' = "return" /\ UNCHANGED <<backs, taints, hists, dedup>>
        /\ \/ Seen(cur) /\ cur' = dedup[cur]
           \/ cur \notin reach
           \/ cur \in Active /\ ~Seen(cur) /\ cur \in Blocks
    BY <1>0, <1>9 DEF JointKnown, JointLoop, Return, Seen
  <2>2. FinishedKept /\ TrueSideKept /\ SelfKept
    BY <1>5, <2>1
  <2>3. FinishedKept' /\ SelfKept'
    <3>1. Active' = Active
      BY <2>1 DEF Active
    <3>. QED
      BY <1>20, <2>1, <2>2, <3>1
  <2>4. TrueSideKept'
    BY <1>8, <1>18, <2>1, <2>2 DEF TrueSideKept
  <2>5. ResultKept'
    <3>. SUFFICES ASSUME hists # <<>>, Sure(Top.block, cur)
                  PROVE  Seen(cur) /\ cur' = dedup[cur]
      BY <1>7, <1>8, <2>1 DEF Seen, Top, Kept
    <3>1. cur \in reach
      BY DEF Sure, Inner
    <3>2. ASSUME cur \in Active, ~Seen(cur), cur \in Blocks
          PROVE  FALSE
      <4>1. Insts(cur) = {}
        BY <2>1, <3>2 DEF WalkInv, MetInSuits
      <4>2. Forward(Top.block, cur)
        BY <4>1 DEF Sure, Forward
      <4>. QED
        BY <1>0, <2>1, <3>2, <4>2, ComesBack
    <3>. QED
      BY <2>1, <3>1, <3>2
  <2>. QED
    BY <1>6, <2>1, <2>3, <2>4, <2>5
<1>10. ASSUME cur \in Blocks, MarkIfSliced, UNCHANGED <<backs, taints>>, FinishedKept, SelfKept,
              dedup[cur] = Unseen, pc = "call", cur \in reach, Active \subseteq Active',
              cur \in Active' \/ Arity(cur) = 0
       PROVE  FinishedKept' /\ SelfKept' /\ \A b \in Blocks : Seen(b) => dedup'[b] = dedup[b]
  <2>1. /\ \A b \in Blocks : b # cur => dedup'[b] = dedup[b]
        /\ Insts(cur) # {} => dedup'[cur] = cur
        /\ Insts(cur) = {} => dedup' = dedup
    BY <1>10, MarkFacts
  <2>2. ~Seen(cur) /\ cur \in Reached
    BY <1>0, <1>10, ActiveReached DEF Seen
  <2>3. \A b \in Blocks : Seen(b) => dedup'[b] = dedup[b]
    BY <2>1, <2>2
  <2>4. ASSUME NEW x \in reach, Completed(x)'
        PROVE  Completed(x) \/ BlockKept(x)'
    <3>1. CASE x # cur
      BY <1>0, <1>10, <2>1, <2>4, <3>1 DEF Completed, Seen
    <3>2. CASE x = cur
      <4>1. Arity(x) = 0 /\ backs' = backs
        BY <1>10, <2>4, <3>2 DEF Completed
      <4>2. \A y : ~Sure(x, y)
        BY <4>1 DEF Sure, Inner, Successors, Arity
      <4>3. \A y : ~Sure(x, y)'
        BY <1>1, <4>1, <4>2
      <4>. QED
        BY <4>3 DEF BlockKept
    <3>. QED
      BY <3>1, <3>2
  <2>5. \A b \in Blocks : Seen(b)' /\ ~Seen(b) =>
          b \in Reached /\ (Insts(b) # {} => dedup'[b] = b)
    BY <2>1, <2>2 DEF Seen
  <2>6. FinishedKept' /\ SelfKept'
    BY <1>0, <1>10, <2>3, <2>4, <2>5, KeptLonger
  <2>. QED
    BY <2>3, <2>6
<1>11. CASE JointEnter
  <2>1. /\ UNCHANGED <<backs, taints>> /\ pc = "call" /\ pc' = "call" /\ dedup[cur] = Unseen
        /\ cur \in Blocks /\ cur \in reach /\ MarkIfSliced /\ Active' = Active \cup {cur}
    BY <1>0, <1>11, PushFacts DEF JointEnter, NewBlock
  <2>2. FinishedKept /\ TrueSideKept /\ SelfKept
    BY <1>5, <2>1
  <2>3. FinishedKept' /\ SelfKept' /\ \A b \in Blocks : Seen(b) => dedup'[b] = dedup[b]
    BY <1>10, <2>1, <2>2
  <2>4. /\ Len(hists') = Len(hists) + 1
        /\ \A k \in 1..Len(hists) : hists'[k] = hists[k]
        /\ hists'[Len(hists) + 1] = [block |-> cur, side |-> 1, tnxt |-> Null]
    BY <1>11, PushFacts
  <2>5. \A k \in 1..Len(hists') : k \in 1..Len(hists) \/ hists'[k].side = 1
    BY <1>0, <2>4
  <2>6. TrueSideKept'
    <3>. SUFFICES ASSUME NEW k \in 1..Len(hists'), hists'[k].side = 2
                  PROVE  Kept(hists'[k].block, 1, hists'[k].tnxt)
      BY <1>8, <2>1
    <3>1. k \in 1..Len(hists) /\ hists'[k] = hists[k]
      BY <2>4, <2>5
    <3>2. SideKept(hists[k].block, 1, hists[k].tnxt)
      BY <2>2, <3>1 DEF TrueSideKept
    <3>. QED
      BY <1>18, <2>1, <2>3, <3>1, <3>2
  <2>7. ResultKept'
    BY <2>1 DEF ResultKept
  <2>. QED
    BY <1>6, <2>1, <2>3, <2>6, <2>7
<1>12. CASE JointLeaf /\ Insts(cur) # {}
  <2>1. /\ UNCHANGED <<backs, taints, hists>> /\ pc = "call" /\ pc' = "return" /\ dedup[cur] = Unseen
        /\ cur \in Blocks /\ cur \in reach /\ MarkIfSliced /\ cur' = cur /\ Arity(cur) = 0
        /\ Active' = Active
    BY <1>0, <1>12 DEF JointLeaf, NewBlock, Return, Active
  <2>2. FinishedKept /\ TrueSideKept /\ SelfKept
    BY <1>5, <2>1
  <2>3. FinishedKept' /\ SelfKept' /\ \A b \in Blocks : Seen(b) => dedup'[b] = dedup[b]
    BY <1>10, <2>1, <2>2
  <2>4. dedup'[cur] = cur /\ cur # Unseen
    BY <1>12, <2>1, MarkFacts, SentinelAssumption
  <2>5. TrueSideKept'
    <3>. SUFFICES ASSUME NEW k \in 1..Len(hists), hists[k].side = 2
                  PROVE  Kept(hists[k].block, 1, hists[k].tnxt)
      BY <1>8, <2>1
    <3>1. SideKept(hists[k].block, 1, hists[k].tnxt)
      BY <2>2 DEF TrueSideKept
    <3>. QED
      BY <1>18, <2>1, <2>3, <3>1
  <2>6. ResultKept'
    BY <1>7, <1>8, <2>1, <2>4 DEF Kept, Top
  <2>. QED
    BY <1>6, <2>1, <2>3, <2>5, <2>6
<1>13. CASE JointTrueSide
  <2>1. /\ UNCHANGED <<backs, taints, dedup>>
        /\ pc = "return" /\ pc' = "call" /\ hists # <<>> /\ Top.side = 1
    BY <1>13 DEF JointTrueSide
  <2>2. FinishedKept /\ TrueSideKept /\ ResultKept /\ SelfKept
    BY <1>5, <2>1
  <2>3. FinishedKept' /\ SelfKept'
    <3>1. Active' = Active
      BY <1>13, TurnFacts
    <3>. QED
      BY <1>20, <2>1, <2>2, <3>1
  <2>4. /\ Len(hists') = Len(hists)
        /\ \A k \in 1..(Len(hists) - 1) : hists'[k] = hists[k]
        /\ hists'[Len(hists)] = [block |-> Top.block, side |-> 2, tnxt |-> cur]
    BY <1>13, TurnFacts
  <2>5. TrueSideKept'
    <3>. SUFFICES ASSUME NEW k \in 1..Len(hists'), hists'[k].side = 2
                  PROVE  Kept(hists'[k].block, 1, hists'[k].tnxt)
      BY <1>8, <2>1
    <3>1. SideKept(hists'[k].block, 1, hists'[k].tnxt)
      <4>1. CASE k = Len(hists)
        BY <2>1, <2>2, <2>4, <4>1 DEF ResultKept
      <4>2. CASE k \in 1..(Len(hists) - 1) /\ k \in 1..Len(hists)
        BY <2>2, <2>4, <4>2 DEF TrueSideKept
      <4>. QED
        BY <1>0, <2>4, <4>1, <4>2
    <3>. QED
      BY <1>18, <2>1, <3>1
  <2>. QED
    BY <1>6, <2>1, <2>3, <2>5 DEF ResultKept
<1>14. CASE JointFinish
  <2>. DEFINE n == Len(hists)
  <2>0. PICK b : b = Top.block
    OBVIOUS
  <2>1. PICK tnxt :
          /\ Arity(b) = 2 => tnxt = Top.tnxt
          /\ Arity(b) # 2 => tnxt = cur
          /\ cur' = Answer(b, tnxt, cur)
          /\ IF Decides(tnxt, cur)
               THEN /\ suits' = suits \cup {b}
                    /\ taints' = taints \cup NewTaint(b)
               ELSE suits' = suits /\ taints' = taints
          /\ dedup[b] = Unseen => dedup'[b] = cur'
          /\ dedup[b] # Unseen => dedup'[b] = dedup[b]
          /\ \A c \in Blocks : c # b => dedup'[c] = dedup[c]
          /\ b \in Blocks /\ b \in Active
          /\ UNCHANGED <<prog, reach, backs>>
          /\ pc = "return" /\ pc' = "return"
          /\ Arity(b) = Top.side
    BY <1>14, <2>0, FinishFacts
  <2>2. /\ n > 0 /\ n \in 1..n /\ Top = hists[n] /\ hists # <<>>
        /\ \A k \in 1..Len(hists') : k \in 1..n /\ hists'[k] = hists[k]
        /\ hists' # <<>> => n - 1 \in 1..n /\ Top' = hists[n - 1]
    BY <1>0, <1>14, PopFacts DEF Top, JointFinish
  <2>3. b \in reach /\ Top.side \in 1..2
    BY <2>0, <2>2, StackFacts DEF StackInv, FrameOK, Frames
  <2>4. FinishedKept /\ TrueSideKept /\ ResultKept /\ SelfKept
    BY <1>5, <2>1
  <2>5. taints \subseteq taints' /\ (Decides(tnxt, cur) => NewTaint(b) \subseteq taints')
    BY <2>1
  <2>6. Insts(b) # {} => dedup[b] = b /\ cur' = b
    <3>1. Insts(b) # {} => Seen(b)
      BY <2>1 DEF WalkInv, MetInSuits
    <3>2. Insts(b) # {} => dedup[b] = b
      BY <2>1, <3>1 DEF EntryInv
    <3>. QED
      BY <2>1, <3>2 DEF Answer
  <2>7. Insts(b) = {} => dedup[b] = Unseen
    BY <2>1 DEF EntryInv, Seen
  <2>8. \A c \in Blocks : Seen(c) => dedup'[c] = dedup[c]
    BY <2>1 DEF Seen
  <2>9. BlockKept(b)'
    <3>1. Top.side = 2 => SideKept(b, 1, tnxt)
      BY <2>0, <2>1, <2>2, <2>4 DEF TrueSideKept
    <3>2. SideKept(b, Top.side, cur)
      BY <2>0, <2>1, <2>2, <2>4 DEF ResultKept
    <3>3. Top.side = 1 => tnxt = cur
      BY <2>1
    <3>4. Insts(b) = {} => dedup'[b] = Answer(b, tnxt, cur)
      BY <2>1, <2>7
    <3>. QED
      BY <2>1, <2>3, <2>5, <2>8, <3>1, <3>2, <3>3, <3>4, SidesAgree
  <2>10. FinishedKept' /\ SelfKept'
    <3>1. ASSUME NEW x \in reach, Completed(x)'
          PROVE  Completed(x) \/ BlockKept(x)'
      <4>1. CASE x = b
        BY <2>9, <4>1
      <4>2. CASE x # b
        <5>1. Active \subseteq Active' \cup {b}
          BY <1>14, <2>0, PopFacts
        <5>. QED
          BY <1>0, <2>1, <3>1, <4>2, <5>1 DEF Completed, Seen
      <4>. QED
        BY <4>1, <4>2
    <3>2. \A c \in Blocks : Seen(c)' /\ ~Seen(c) =>
            c \in Reached /\ (Insts(c) # {} => dedup'[c] = c)
      <4>1. b \in Reached
        BY <1>0, <2>1, ActiveReached
      <4>. QED
        BY <2>1, <2>6, <4>1, SentinelAssumption DEF Seen
    <3>. QED
      BY <1>0, <2>1, <2>4, <2>5, <2>8, <3>1, <3>2, KeptLonger
  <2>11. TrueSideKept'
    <3>. SUFFICES ASSUME NEW k \in 1..Len(hists'), hists'[k].side = 2
                  PROVE  Kept(hists'[k].block, 1, hists'[k].tnxt)
      BY <1>8, <2>1
    <3>1. SideKept(hists'[k].block, 1, hists'[k].tnxt)
      BY <2>2, <2>4 DEF TrueSideKept
    <3>. QED
      BY <1>18, <2>1, <2>8, <3>1
  <2>12. ResultKept'
    <3>. SUFFICES ASSUME hists' # <<>>
                  PROVE  /\ dedup'[b] # Unseen /\ cur' = dedup'[b]
                         /\ b = SuccOf(prog, Top'.block)[Top'.side]
      BY <1>8, <2>1 DEF Kept
    <3>1. n \in 2..n
      BY <1>0, <2>2
    <3>2. b = SuccOf(prog, Top'.block)[Top'.side]
      BY <2>0, <2>2, <3>1 DEF StackInv, Linked
    <3>3. cur' \in Blocks \cup {Null}
      <4>1. TypeOK'
        BY TypeStep
      <4>. QED
        BY <4>1 DEF TypeOK
    <3>4. cur' # Unseen
      BY <3>3, SentinelAssumption
    <3>5. CASE Insts(b) = {}
      BY <2>1, <2>7, <3>2, <3>4, <3>5 DEF Seen
    <3>6. CASE Insts(b) # {}
      <4>1. dedup[b] # Unseen
        BY <2>1, <2>6, <3>6, SentinelAssumption
      <4>. QED
        BY <2>1, <2>6, <3>2, <3>6, <4>1 DEF Seen
    <3>. QED
      BY <3>5, <3>6
  <2>. QED
    BY <1>6, <2>1, <2>10, <2>11, <2>12
<1>15. CASE JointReturned
  <2>1. CASE pc' # "done"
    BY <1>15, <2>1 DEF JointReturned, WayInv
  <2>2. CASE pc' = "done"
    <3>1. /\ UNCHANGED <<backs, dedup, taints, hists>> /\ pc = "return" /\ taints = {} /\ hists = <<>>
      BY <1>15, <2>2 DEF JointReturned
    <3>2. FinishedKept /\ SelfKept
      BY <1>5, <3>1
    <3>3. FinishedKept' /\ SelfKept'
      <4>1. Active' = Active
        BY <3>1 DEF Active
      <4>. QED
        BY <1>20, <3>1, <3>2, <4>1
    <3>. QED
      BY <2>2, <3>1, <3>3 DEF WayInv
  <2>. QED
    BY <2>1, <2>2
<1>16. CASE Stopped \/ UNCHANGED vars
  <2>1. UNCHANGED vars
    BY <1>16 DEF Stopped
  <2>2. CASE pc \in {"call", "return", "done"}
    <3>1. FinishedKept /\ SelfKept /\ Active' = Active
      BY <2>1, <2>2 DEF WayInv, Active, vars
    <3>2. FinishedKept' /\ SelfKept'
      BY <1>20, <2>1, <3>1 DEF vars
    <3>3. ASSUME Walking
          PROVE  TrueSideKept' /\ ResultKept'
      BY <1>1, <1>5, <2>1, <3>3 DEF TrueSideKept, ResultKept, SideKept, Seen, Top, vars
    <3>. QED
      BY <2>1, <3>2, <3>3 DEF WayInv, vars
  <2>3. CASE pc \notin {"call", "return", "done"}
    BY <2>1, <2>3 DEF WayInv, vars
  <2>. QED
    BY <2>2, <2>3
<1>17. CASE JointLeaf /\ Insts(cur) = {}
  BY <1>17 DEF JointLeaf, WayInv
<1>. QED
  BY <1>3, <1>4, <1>9, <1>11, <1>12, <1>13, <1>14, <1>15, <1>16, <1>17 DEF Next, Step, Joint

LEMMA WayInit == Init => WayInv
BY DEF Init, WayInv, Walking

(* The blocks outside the slice, as control passes through them. *)
PassingGraph == [c \in Blocks |-> IF Passing(c) THEN Successors(prog, c) ELSE {}]

Passed(b) == Closure({b}, PassingGraph)

(* What holds of a block, and of the successors of a block outside the     *)
(* slice it holds of, holds of the next blocks of the slice.               *)
LEMMA NextSuitsWithin ==
  ASSUME NEW T \in SUBSET Blocks, NEW b \in T,
         \A z \in T : Passing(z) => Successors(prog, z) \subseteq T
  PROVE  /\ NextSuits(b) \subseteq T
         /\ Passed(b) \subseteq T
<1>1. Closed(T, PassingGraph) /\ T \in SUBSET DOMAIN PassingGraph /\ {b} \subseteq T
  BY DEF Closed, PassingGraph
<1>2. Passed(b) \subseteq T
  BY <1>1, ClosureLeast DEF Passed
<1>3. NextSuits(b) \subseteq Passed(b)
  BY DEF NextSuits, PassingGraph, Passed
<1>. QED
  BY <1>2, <1>3

LEMMA PassedFacts ==
  ASSUME prog \in Programs, suits \subseteq reach, reach \subseteq Blocks, NEW x \in Blocks
  PROVE  /\ x \in Passed(x) /\ Passed(x) \subseteq Blocks
         /\ \A z \in Passed(x) : Passing(z) => Successors(prog, z) \subseteq Passed(x)
         /\ NextSuits(x) = suits \cap Passed(x)
         /\ x \in suits => NextSuits(x) = {x}
         /\ x \notin reach => NextSuits(x) = {}
         /\ Passing(x) => \A y \in Successors(prog, x) : NextSuits(y) \subseteq NextSuits(x)
<1>1. /\ DOMAIN PassingGraph = Blocks
      /\ \A z \in Blocks : /\ PassingGraph[z] = IF Passing(z) THEN Successors(prog, z) ELSE {}
                           /\ PassingGraph[z] \subseteq Blocks
  BY ProgramFacts DEF PassingGraph
<1>2. {x} \subseteq Passed(x) /\ Passed(x) \subseteq Blocks
  <2>1. {x} \in SUBSET DOMAIN PassingGraph
    BY <1>1
  <2>2. Passed(x) \subseteq Blocks
    BY <1>1 DEF Closure, Passed
  <2>. QED
    BY <2>1, <2>2, ClosureExtends DEF Passed
<1>3. Closed(Passed(x), PassingGraph)
  BY <1>1, ClosureIsClosed DEF Passed
<1>4. \A z \in Passed(x) : Passing(z) => Successors(prog, z) \subseteq Passed(x)
  BY <1>1, <1>2, <1>3 DEF Closed
<1>5. \A y : NextSuits(y) = suits \cap Passed(y)
  BY DEF NextSuits, Passed, PassingGraph
<1>6. ~Passing(x) => Passed(x) \subseteq {x}
  <2>1. {x} \in SUBSET Blocks
    OBVIOUS
  <2>. QED
    BY <2>1, NextSuitsWithin
<1>7. x \in suits => ~Passing(x)
  BY DEF Passing
<1>8. x \notin reach => ~Passing(x) /\ x \notin suits
  BY DEF Passing
<1>9. ASSUME Passing(x), NEW y \in Successors(prog, x)
      PROVE  NextSuits(y) \subseteq NextSuits(x)
  <2>1. y \in Passed(x)
    BY <1>2, <1>4, <1>9
  <2>2. Passed(y) \subseteq Passed(x)
    BY <1>2, <1>4, <2>1, NextSuitsWithin
  <2>. QED
    BY <1>5, <2>2
<1>. QED
  BY <1>2, <1>4, <1>5, <1>6, <1>7, <1>8, <1>9

(* What is known when the slice is finished. *)
Finished ==
  /\ prog \in Programs /\ suits \subseteq reach /\ reach \subseteq Blocks
  /\ EntryBlock \in reach /\ entry \in NextSuits(EntryBlock)
  /\ \A x \in Reached \ suits : \A y : Forward(x, y) /\ dedup[y] # Null => dedup[x] = dedup[y]
  /\ \A s \in suits \cap Reached : dedup[s] = s

LEMMA FinishedKnown ==
  ASSUME SlicedInv, SuitsInReach, EntryInv, WayInv, OneEntry, pc = "done"
  PROVE  Finished
<1>1. /\ prog \in Programs /\ suits \subseteq reach /\ reach \subseteq Blocks /\ EntryBlock \in reach
      /\ SliceHosted /\ AnswerIsReal
  BY EntryReaches DEF SlicedInv, TypeOK, SuitsInReach, WalkInv, AnswerInv
<1>2. entry \in NextSuits(EntryBlock)
  BY <1>1 DEF EntryInv, AnswerIsReal
<1>3. \A x \in Reached : Seen(x)
  <2>. DEFINE T == {x \in reach : Seen(x)}
  <2>1. T \in SUBSET DOMAIN InnerGraph /\ {EntryBlock} \subseteq T
    BY <1>1 DEF InnerGraph, EntryInv
  <2>2. Closed(T, InnerGraph)
    BY <1>1 DEF Closed, InnerGraph, Inner, EntryInv
  <2>. QED
    BY <2>1, <2>2, ClosureLeast DEF Reached
<1>4. FinishedKept /\ SelfKept /\ taints = {} /\ Reached \subseteq reach /\ Active = {}
  BY <1>1, AroundFacts DEF WayInv, Active
<1>5. \A x \in Reached \ suits : Open(x)
  BY <1>1, <1>3, <1>4 DEF SliceHosted, Seen, Open, Insts
<1>6. \A x \in Reached \ suits : \A y : Forward(x, y) /\ dedup[y] # Null => dedup[x] = dedup[y]
  <2>. SUFFICES ASSUME NEW x \in Reached \ suits, NEW y, Forward(x, y), dedup[y] # Null
                PROVE  dedup[x] = dedup[y]
    OBVIOUS
  <2>1. Sure(x, y)
    BY DEF Forward, Sure
  <2>2. BlockKept(x)
    BY <1>3, <1>4 DEF FinishedKept, Completed
  <2>. QED
    BY <1>4, <1>5, <2>1, <2>2 DEF BlockKept, AnswerKept
<1>7. \A s \in suits \cap Reached : dedup[s] = s
  BY <1>1, <1>3, <1>4 DEF SelfKept, SliceHosted
<1>. QED
  BY <1>1, <1>2, <1>6, <1>7 DEF Finished

(* The loops of the slice are entered at blocks of the slice: an edge back *)
(* to a block that all control came by before is one to a slice block.     *)
Headed == \A x \in Reached : \A y \in Inner(x) : x \in Around(y) \/ y \in suits

(* Then all that can be met first from a block is its answer.              *)
LEMMA OneAnswer ==
  ASSUME SlicedInv, SuitsInReach, EntryInv, WayInv, OneEntry, Headed, pc = "done"
  PROVE  /\ taints = {} /\ prog \in Programs /\ reach \subseteq Blocks
         /\ suits \subseteq Reached /\ Reached \subseteq reach
         /\ \A x \in Blocks : Seen(x) => x \in Reached
         /\ \A x \in Reached : BlockKept(x) /\ \A y \in Inner(x) : y \in Reached /\ Sure(x, y)
         /\ \A x \in Reached : NextSuits(x) \subseteq {dedup[x]} \ {Null}
<1>1. /\ Finished /\ EntryBlock \in reach /\ prog \in Programs /\ suits \subseteq reach
      /\ reach \subseteq Blocks
  BY FinishedKnown DEF Finished
<1>2. /\ FinishedKept /\ SelfKept /\ taints = {} /\ Active = {} /\ SliceHosted
      /\ suits \subseteq Closure({entry}, NextInSlice)
  <2>1. /\ FinishedKept /\ SelfKept /\ taints = {} /\ hists = <<>> /\ SliceHosted
        /\ suits \subseteq Closure({entry}, NextInSlice)
    BY DEF WayInv, SlicedInv, WalkInv, LeadInv
  <2>2. Active = {}
    BY <2>1 DEF Active
  <2>. QED
    BY <2>1, <2>2
<1>3. /\ EntryBlock \in Reached /\ Reached \subseteq reach
      /\ \A x \in Reached : Inner(x) \subseteq Reached
  BY <1>1, AroundFacts
<1>4. \A x \in Reached : Seen(x)
  <2>. DEFINE T == {x \in reach : Seen(x)}
  <2>1. T \in SUBSET DOMAIN InnerGraph /\ {EntryBlock} \subseteq T
    BY <1>1 DEF InnerGraph, EntryInv
  <2>2. Closed(T, InnerGraph)
    BY <1>1 DEF Closed, InnerGraph, Inner, EntryInv
  <2>. QED
    BY <2>1, <2>2, ClosureLeast DEF Reached
<1>5. \A x \in Reached : BlockKept(x)
  BY <1>2, <1>3, <1>4 DEF FinishedKept, Completed
<1>6. \A s \in suits : Insts(s) # {}
  BY <1>2 DEF SliceHosted
<1>7. \A x \in Reached : \A y \in Inner(x) : y \in Reached /\ Sure(x, y)
  BY <1>3, <1>6 DEF Headed, Sure
<1>. DEFINE O == Reached \cup (Blocks \ reach)
<1>8. /\ O \in SUBSET Blocks /\ Reached \subseteq O /\ O \cap suits \subseteq Reached
      /\ \A z \in O : Passing(z) => Successors(prog, z) \subseteq O
      /\ \A z \in O \cap suits : Successors(prog, z) \subseteq O
  BY <1>1, <1>3, ProgramFacts DEF Passing, Inner
<1>. HIDE DEF O
<1>9. \A z \in O : NextSuits(z) \subseteq Reached \cap suits
  <2>. SUFFICES ASSUME NEW z \in O
                PROVE  NextSuits(z) \subseteq Reached \cap suits
    OBVIOUS
  <2>1. NextSuits(z) \subseteq O
    BY <1>8, NextSuitsWithin
  <2>2. NextSuits(z) \subseteq suits
    BY DEF NextSuits
  <2>. QED
    BY <1>8, <2>1, <2>2
<1>10. suits \subseteq Reached
  <2>. DEFINE T == Reached \cap suits
  <2>1. entry \in T
    BY <1>1, <1>3, <1>8, <1>9 DEF Finished
  <2>2. T \in SUBSET DOMAIN NextInSlice /\ {entry} \subseteq T
    BY <1>1, <1>3, <2>1 DEF NextInSlice
  <2>3. \A b \in T : NextInSlice[b] \subseteq T
    BY <1>1, <1>8, <1>9 DEF NextInSlice
  <2>4. Closed(T, NextInSlice)
    BY <2>3 DEF Closed
  <2>. HIDE DEF T
  <2>5. Closure({entry}, NextInSlice) \subseteq T
    BY <2>2, <2>4, ClosureLeast
  <2>. QED
    BY <1>2, <2>5 DEF T
<1>11. ASSUME NEW x \in Reached, NEW t \in NextSuits(x)
       PROVE  dedup[x] = t /\ t # Null
  <2>. DEFINE T == {y \in O : y \in reach => dedup[y] # t}
  <2>1. t \in suits /\ t \in Reached /\ t # Null
    BY <1>1, <1>3, <1>8, <1>9, <1>11, SentinelAssumption
  <2>2. dedup[t] = t
    BY <1>1, <2>1 DEF Finished
  <2>3. \A z \in T : Passing(z) => Successors(prog, z) \subseteq T
    <3>. SUFFICES ASSUME NEW z \in T, Passing(z), NEW w \in Successors(prog, z), w \in reach,
                         dedup[w] = t
                  PROVE  FALSE
      BY <1>8
    <3>1. z \in Reached /\ z \notin suits /\ w \in Inner(z) /\ dedup[z] # t
      <4>1. z \in O /\ z \in reach /\ z \notin suits
        BY DEF Passing
      <4>. QED
        BY <4>1 DEF O, Inner
    <3>2. Open(z)
      BY <1>1, <1>2, <1>3, <1>4, <3>1 DEF SliceHosted, Seen, Open, Insts
    <3>3. AnswerKept(z, w)
      BY <1>5, <1>7, <3>1 DEF BlockKept
    <3>. QED
      BY <1>2, <2>1, <3>1, <3>2, <3>3 DEF AnswerKept
  <2>4. ASSUME dedup[x] # t
        PROVE  FALSE
    <3>1. x \in T /\ T \in SUBSET Blocks
      BY <1>8, <2>4
    <3>2. t \notin T
      BY <1>3, <2>1, <2>2
    <3>. HIDE DEF T
    <3>. QED
      BY <1>11, <2>3, <3>1, <3>2, NextSuitsWithin
  <2>. QED
    BY <2>1, <2>4
<1>12. \A x \in Reached : NextSuits(x) \subseteq {dedup[x]} \ {Null}
  BY <1>11
<1>13. \A x \in Blocks : Seen(x) => x \in Reached
  BY <1>2 DEF SelfKept
<1>. QED
  BY <1>1, <1>2, <1>3, <1>5, <1>7, <1>10, <1>12, <1>13

(* Whatever block outside the slice all control comes by to a block of the *)
(* slice that it can meet next, this block is its answer.                  *)
LEMMA HeadAnswers ==
  ASSUME Finished, NEW h \in Reached \ suits, NEW t \in NextSuits(h), t \notin Around(h)
  PROVE  dedup[h] = t
<1>. SUFFICES ASSUME dedup[h] # t
              PROVE  FALSE
  OBVIOUS
<1>. DEFINE A == {y \in reach \ {h} : dedup[y] = t /\ y \notin Around(h)}
            G == [c \in Blocks |-> IF Passing(c) THEN Successors(prog, c) \ A ELSE {}]
            R == Closure({h}, G)
            O == Reached \cup (Blocks \ reach)
            N == O \ A
<1>1. /\ prog \in Programs /\ suits \subseteq reach /\ reach \subseteq Blocks /\ EntryBlock \in reach
      /\ Reached \subseteq reach /\ \A x \in Reached : Inner(x) \subseteq Reached
  BY AroundFacts DEF Finished
<1>2. /\ DOMAIN G = Blocks /\ h \in Blocks
      /\ \A c \in Blocks : /\ G[c] \subseteq Blocks
                           /\ Passing(c) => G[c] = Successors(prog, c) \ A
                           /\ ~Passing(c) => G[c] = {}
  BY <1>1, ProgramFacts
<1>3. O \in SUBSET Blocks /\ \A z \in O : Passing(z) => Successors(prog, z) \subseteq O
  BY <1>1, ProgramFacts DEF Passing, Inner
<1>4. t \in suits /\ t \in Reached /\ t \in A
  <2>1. t \in suits /\ t \in O
    BY <1>3, NextSuitsWithin DEF NextSuits
  <2>2. t \in Reached /\ t # h
    BY <1>1, <2>1
  <2>. QED
    BY <1>1, <2>1, <2>2 DEF Finished
<1>5. N \in SUBSET Blocks /\ h \in N /\ \A c \in N : G[c] \subseteq N
  BY <1>1, <1>2, <1>3
<1>6. \A y \in A : y \in reach /\ y # h /\ dedup[y] = t /\ y \notin Around(h)
  OBVIOUS
<1>7. \A y \in reach : y # h /\ dedup[y] = t /\ y \notin Around(h) => y \in A
  OBVIOUS
<1>8. N \cap A = {} /\ N \cap reach \subseteq Reached
  OBVIOUS
<1>. HIDE DEF A, G, O, N
<1>9. R \subseteq N /\ h \in R
  <2>1. Closed(N, G) /\ N \in SUBSET DOMAIN G /\ {h} \subseteq N
    BY <1>2, <1>5 DEF Closed
  <2>2. {h} \in SUBSET DOMAIN G
    BY <1>2
  <2>. QED
    BY <2>1, <2>2, ClosureLeast, ClosureExtends
<1>10. Closed(R, G) /\ R \subseteq Blocks
  <2>1. R \subseteq Blocks
    BY <1>2 DEF Closure
  <2>. QED
    BY <1>2, <2>1, ClosureIsClosed
<1>11. ASSUME NEW x \in R, Passing(x), NEW y \in Successors(prog, x), y \in A
       PROVE  FALSE
  <2>1. x \in Reached \ suits /\ y \in Inner(x) /\ y \in Reached /\ x \in reach
    BY <1>1, <1>6, <1>8, <1>9, <1>11 DEF Passing, Inner
  <2>2. h \in Around(y)
    BY <1>1, <1>6, <1>11, <2>1, AroundAntisymmetric
  <2>3. x \in Around(y)
    <3>. DEFINE T == {z \in Blocks : z \in reach => z \in Around(y)}
    <3>1. \A z \in T : G[z] \subseteq T
      <4>. SUFFICES ASSUME NEW z \in T, NEW w \in G[z], w \in reach
                    PROVE  w \in Around(y)
        BY <1>2
      <4>1. Passing(z) /\ w \in Successors(prog, z) /\ w \notin A
        BY <1>2
      <4>2. z \in Around(y) /\ w \in Inner(z) /\ w # y
        BY <1>11, <4>1 DEF Passing, Inner
      <4>. QED
        BY <1>1, <4>2, AroundFacts
    <3>2. Closed(T, G) /\ T \in SUBSET DOMAIN G /\ {h} \subseteq T
      BY <1>2, <2>2, <3>1 DEF Closed
    <3>3. R \subseteq T
      BY <3>2, ClosureLeast
    <3>. QED
      BY <2>1, <3>3
  <2>4. Forward(x, y)
    BY <2>1, <2>3 DEF Forward
  <2>5. dedup[x] = t
    <3>1. dedup[y] = t /\ t # Null
      BY <1>1, <1>4, <1>6, <1>11, SentinelAssumption
    <3>. QED
      BY <2>1, <2>4, <3>1 DEF Finished
  <2>6. x # h /\ x \notin Around(h)
    BY <1>1, <1>6, <1>11, <2>1, <2>5, AroundFacts
  <2>. QED
    BY <1>7, <1>8, <1>9, <2>1, <2>5, <2>6
<1>12. \A x \in R : Passing(x) => Successors(prog, x) \subseteq R
  BY <1>2, <1>10, <1>11 DEF Closed
<1>13. t \in R
  <2>. HIDE DEF R
  <2>. QED
    BY <1>9, <1>10, <1>12, NextSuitsWithin
<1>. QED
  BY <1>4, <1>8, <1>9, <1>13

(* The slice without one of its blocks, and its edges that do not lead     *)
(* back to a block that all control in the slice came by.                  *)
FollowGraph == [n \in suits |-> {s \in suits : Follows(n, s)}]

SliceAround(d) == Closure({entry} \ {d}, [n \in suits |-> FollowGraph[n] \ {d}])

SliceForward == [n \in suits |-> {s \in FollowGraph[n] : n \in SliceAround(s)}]

(* Control gets around a block of the slice in the function if it does in  *)
(* the slice.                                                              *)
LEMMA SliceAroundLifts ==
  ASSUME Finished, NEW d \in suits
  PROVE  SliceAround(d) \subseteq Around(d)
<1>. DEFINE G == [n \in suits |-> FollowGraph[n] \ {d}]
            S == {entry} \ {d}
            T == suits \cap Around(d)
<1>1. prog \in Programs /\ suits \subseteq reach /\ reach \subseteq Blocks /\ EntryBlock \in reach
  BY DEF Finished
<1>2. /\ EntryBlock # d => EntryBlock \in Around(d)
      /\ \A x \in Around(d) : \A y \in Inner(x) : y # d => y \in Around(d)
      /\ Around(d) \subseteq reach /\ d \in Blocks /\ NextSuits(d) = {d}
  BY <1>1, AroundFacts, PassedFacts
<1>3. ASSUME NEW x \in Around(d), NEW s \in NextSuits(x), s # d
      PROVE  s \in T
  <2>. DEFINE N == {z \in Blocks : z \in reach /\ z # d => z \in Around(d)}
  <2>1. \A z \in N : Passing(z) => Successors(prog, z) \subseteq N
    <3>. SUFFICES ASSUME NEW z \in N, Passing(z), NEW y \in Successors(prog, z), y \in reach, y # d
                  PROVE  y \in Around(d)
      BY <1>1, ProgramFacts
    <3>1. z \in Around(d) /\ y \in Inner(z)
      BY DEF Passing, Inner
    <3>. QED
      BY <1>2, <3>1
  <2>2. N \in SUBSET Blocks /\ x \in N
    BY <1>1, <1>2
  <2>3. s \in N
    <3>. HIDE DEF N
    <3>. QED
      BY <2>1, <2>2, NextSuitsWithin
  <2>. QED
    BY <1>1, <1>3, <2>3 DEF NextSuits
<1>4. S \subseteq T
  <2>. SUFFICES ASSUME entry # d
                PROVE  entry \in T
    OBVIOUS
  <2>1. EntryBlock # d /\ entry \in NextSuits(EntryBlock)
    BY <1>2 DEF Finished
  <2>. QED
    BY <1>2, <1>3, <2>1
<1>5. \A n \in T : G[n] \subseteq T
  <2>. SUFFICES ASSUME NEW n \in T, NEW s \in suits, Follows(n, s), s # d
                PROVE  s \in T
    BY DEF FollowGraph
  <2>1. PICK c \in Successors(prog, n) : s \in NextSuits(c)
    BY DEF Follows
  <2>2. c \in Inner(n)
    BY <1>1, <2>1, ProgramFacts, PassedFacts DEF Inner
  <2>3. c \in Around(d)
    BY <1>2, <2>1, <2>2
  <2>. QED
    BY <1>3, <2>1, <2>3
<1>6. SliceAround(d) = Closure(S, G) /\ DOMAIN G = suits
  BY DEF SliceAround
<1>7. T \in SUBSET suits /\ T \subseteq Around(d)
  OBVIOUS
<1>. HIDE DEF T, G, S
<1>. QED
  BY <1>4, <1>5, <1>6, <1>7, ClosureLeast DEF Closed

(* The nodes on a loop with b: each is led to from one of them and leads   *)
(* to one of them, and what leads from some of them is all of them.        *)
LEMMA LoopMembers ==
  ASSUME NEW G, \A v \in DOMAIN G : G[v] \subseteq DOMAIN G, NEW b \in DOMAIN G,
         b \in Closure(G[b], G)
  PROVE  \E C \in SUBSET DOMAIN G :
           /\ b \in C
           /\ \A c \in C : (\E p \in C : c \in G[p]) /\ (\E s \in C : s \in G[c])
           /\ \A T \in SUBSET C : T # {} /\ (\A c \in T : G[c] \cap C \subseteq T) => T = C
<1>. DEFINE After(v) == Closure(G[v], G)
            C == {c \in DOMAIN G : c \in After(b) /\ b \in After(c)}
<1>1. ASSUME NEW v \in DOMAIN G
      PROVE  /\ After(v) \subseteq DOMAIN G /\ G[v] \subseteq After(v)
             /\ \A x \in After(v) : G[x] \subseteq After(v)
             /\ \A T \in SUBSET DOMAIN G :
                  G[v] \subseteq T /\ (\A x \in T : G[x] \subseteq T) => After(v) \subseteq T
  <2>1. After(v) \subseteq DOMAIN G
    BY DEF Closure
  <2>2. G[v] \subseteq After(v)
    BY ClosureExtends
  <2>3. Closed(After(v), G)
    BY ClosureIsClosed
  <2>4. \A T \in SUBSET DOMAIN G : G[v] \subseteq T /\ Closed(T, G) => After(v) \subseteq T
    BY ClosureLeast
  <2>. QED
    BY <2>1, <2>2, <2>3, <2>4 DEF Closed
<1>. HIDE DEF After
<1>2. ASSUME NEW v \in DOMAIN G, NEW w \in After(v)
      PROVE  w \in DOMAIN G /\ After(w) \subseteq After(v)
  BY <1>1, <1>2
<1>3. b \in C
  BY DEF After
<1>4. ASSUME NEW c \in C, NEW x \in After(c), NEW y \in G[x], y \in C
      PROVE  x \in C
  <2>1. c \in DOMAIN G /\ x \in DOMAIN G /\ After(c) \subseteq After(b) /\ y \in After(x)
    BY <1>1, <1>2
  <2>2. After(y) \subseteq After(x)
    BY <1>2, <2>1
  <2>3. b \in After(y) /\ c \in After(b)
    BY <1>4
  <2>. QED
    BY <2>1, <2>2, <2>3
<1>5. ASSUME NEW c \in C
      PROVE  \E p \in C : c \in G[p]
  <2>. SUFFICES ASSUME \A p \in C : c \notin G[p]
                PROVE  FALSE
    OBVIOUS
  <2>. DEFINE T == After(c) \ {c}
  <2>1. c \in DOMAIN G /\ c \in After(c)
    BY <1>2
  <2>2. \A x \in T : G[x] \subseteq T
    BY <1>1, <1>4, <2>1
  <2>3. G[c] \subseteq T /\ T \in SUBSET DOMAIN G
    BY <1>1, <2>1
  <2>4. After(c) \subseteq T
    <3>. HIDE DEF T, C
    <3>. QED
      BY <1>1, <2>1, <2>2, <2>3
  <2>. QED
    BY <2>1, <2>4
<1>6. ASSUME NEW c \in C
      PROVE  \E s \in C : s \in G[c]
  <2>. SUFFICES ASSUME \A s \in C : s \notin G[c]
                PROVE  FALSE
    OBVIOUS
  <2>. DEFINE T == {x \in After(c) : x \notin C}
  <2>1. c \in DOMAIN G /\ b \in After(c)
    OBVIOUS
  <2>2. \A x \in T : G[x] \subseteq T
    BY <1>1, <1>4, <2>1
  <2>3. G[c] \subseteq T /\ T \in SUBSET DOMAIN G /\ b \notin T
    BY <1>1, <1>3, <2>1
  <2>4. After(c) \subseteq T
    <3>. HIDE DEF T, C
    <3>. QED
      BY <1>1, <2>1, <2>2, <2>3
  <2>. QED
    BY <2>1, <2>3, <2>4
<1>7. ASSUME NEW T \in SUBSET C, NEW c \in T, \A x \in T : G[x] \cap C \subseteq T
      PROVE  T = C
  <2>. DEFINE N == {x \in After(c) : x \in C => x \in T}
  <2>1. c \in C /\ c \in DOMAIN G /\ b \in After(c)
    OBVIOUS
  <2>2. \A x \in N : G[x] \subseteq N
    BY <1>1, <1>4, <1>7, <2>1
  <2>3. G[c] \subseteq N /\ N \in SUBSET DOMAIN G
    BY <1>1, <1>7, <2>1
  <2>4. After(c) \subseteq N
    <3>. HIDE DEF N, C
    <3>. QED
      BY <1>1, <2>1, <2>2, <2>3
  <2>5. \A d \in C : d \in After(c)
    BY <1>2, <2>1
  <2>. QED
    BY <2>4, <2>5
<1>8. C \in SUBSET DOMAIN G
  OBVIOUS
<1>9. \A T \in SUBSET C : T # {} /\ (\A c \in T : G[c] \cap C \subseteq T) => T = C
  BY <1>7
<1>. HIDE DEF C
<1>. QED
  BY <1>3, <1>5, <1>6, <1>8, <1>9

(* Among finitely many blocks there is one that no forward edge leads to.  *)
LEMMA HeadExists ==
  ASSUME prog \in Programs, reach \subseteq Blocks, EntryBlock \in reach,
         OneEntry, IsFiniteSet(reach), NEW W \in SUBSET Reached, W # {}
  PROVE  \E h \in W : \A w \in W : ~Forward(w, h)
<1>. DEFINE G == ForwardGraph
            Before(v) == {w \in W : v \in Closure(G[w], G)}
            S == {Cardinality(Before(v)) : v \in W}
<1>1. W \subseteq reach /\ DOMAIN G = reach /\ \A v \in DOMAIN G : G[v] \subseteq DOMAIN G
  BY ForwardFacts, AroundFacts
<1>2. \A v : IsFiniteSet(Before(v)) /\ Cardinality(Before(v)) \in Nat
  <2>1. \A v : Before(v) \in SUBSET reach
    BY <1>1
  <2>. HIDE DEF Before
  <2>. QED
    BY <2>1, FS_Subset, FS_CardinalityType
<1>3. S \in SUBSET Nat /\ S # {}
  <2>. HIDE DEF Before
  <2>. QED
    BY <1>2
<1>4. PICK m \in S : \A k \in S : m <= k
  <2>. HIDE DEF S
  <2>. QED
    BY <1>3, LeastExists
<1>5. PICK h \in W : \A v \in W : Cardinality(Before(h)) <= Cardinality(Before(v))
  <2>. HIDE DEF Before
  <2>. QED
    BY <1>4
<1>6. ASSUME NEW p \in W, Forward(p, h)
      PROVE  FALSE
  <2>1. p \in reach /\ h \in G[p] /\ h \in reach
    BY <1>1, <1>6, ForwardFacts
  <2>. HIDE DEF G
  <2>2. h \in Closure(G[p], G)
    BY <1>1, <2>1, ClosureExtends
  <2>3. p \in Before(h)
    BY <2>2
  <2>4. p \notin Before(p)
    BY <1>1 DEF OneEntry, G
  <2>5. Before(p) \subseteq Before(h)
    <3>. SUFFICES ASSUME NEW w \in W, p \in Closure(G[w], G)
                  PROVE  h \in Closure(G[w], G)
      OBVIOUS
    <3>1. Closed(Closure(G[w], G), G)
      BY <1>1, ClosureIsClosed
    <3>. QED
      BY <2>1, <3>1 DEF Closed
  <2>. HIDE DEF Before
  <2>6. Cardinality(Before(p)) <= Cardinality(Before(h)) /\ Cardinality(Before(p)) # Cardinality(Before(h))
    <3>1. Before(p) \in SUBSET Before(h) /\ Before(p) # Before(h)
      BY <2>3, <2>4, <2>5
    <3>. QED
      BY <1>2, <3>1, FS_Subset
  <2>7. \A x, y \in Nat : ~(x <= y /\ x # y /\ y <= x)
    OBVIOUS
  <2>. QED
    BY <1>2, <1>5, <2>6, <2>7
<1>. QED
  BY <1>5, <1>6

(* The blocks of a loop of the slice, with those control passes between    *)
(* them.                                                                   *)
Span(C) ==
  {x \in reach :
     /\ \E c \in C : \E a \in Successors(prog, c) : x \in Passed(a)
     /\ NextSuits(x) \cap C # {}}

(* What is needed of a loop of the slice. *)
SliceLoop(C) ==
  /\ C \subseteq suits /\ C # {}
  /\ \A c \in C : (\E p \in C : c \in SliceForward[p]) /\ (\E s \in C : s \in SliceForward[c])
  /\ \A T \in SUBSET C :
       T # {} /\ (\A c \in T : SliceForward[c] \cap C \subseteq T) => T = C

LEMMA SpanFacts ==
  ASSUME Finished, NEW C, SliceLoop(C)
  PROVE  /\ C \subseteq Span(C) /\ Span(C) \subseteq Reached
         /\ \A c \in C : \A a \in Successors(prog, c) : \A x \in Passed(a) :
              NextSuits(x) \cap C # {} => x \in Span(C) /\ x \in reach
         /\ \A p, s \in C : s \in SliceForward[p] => Follows(p, s) /\ p \in Around(s)
<1>1. /\ prog \in Programs /\ suits \subseteq reach /\ reach \subseteq Blocks /\ EntryBlock \in reach
      /\ C \subseteq suits
  BY DEF Finished, SliceLoop
<1>2. ASSUME NEW c \in C, NEW a \in Successors(prog, c), NEW x \in Passed(a), NextSuits(x) \cap C # {}
      PROVE  x \in Span(C) /\ x \in reach
  <2>1. c \in Blocks /\ a \in Blocks
    BY <1>1, ProgramFacts
  <2>2. x \in Blocks
    BY <1>1, <2>1, PassedFacts
  <2>3. x \in reach
    BY <1>1, <1>2, <2>2, PassedFacts
  <2>. QED
    BY <1>2, <2>3 DEF Span
<1>3. \A p, s \in C : s \in SliceForward[p] => Follows(p, s) /\ p \in Around(s)
  BY <1>1, SliceAroundLifts DEF SliceForward, FollowGraph
<1>4. C \subseteq Span(C)
  <2>. SUFFICES ASSUME NEW c \in C
                PROVE  c \in Span(C)
    OBVIOUS
  <2>1. PICK p \in C : Follows(p, c)
    BY <1>3 DEF SliceLoop
  <2>2. PICK a \in Successors(prog, p) : c \in NextSuits(a)
    BY <2>1 DEF Follows
  <2>3. a \in Blocks /\ c \in Blocks
    BY <1>1, <2>2, ProgramFacts
  <2>4. c \in Passed(a) /\ NextSuits(c) = {c}
    BY <1>1, <2>2, <2>3, PassedFacts
  <2>. QED
    BY <1>2, <2>2, <2>4
<1>5. Span(C) \subseteq Reached
  <2>. DEFINE O == Reached \cup (Blocks \ reach)
  <2>. SUFFICES ASSUME NEW x \in Span(C)
                PROVE  x \in Reached
    OBVIOUS
  <2>1. PICK c \in C : \E a \in Successors(prog, c) : x \in Passed(a)
    BY DEF Span
  <2>2. PICK a \in Successors(prog, c) : x \in Passed(a)
    BY <2>1
  <2>3. PICK s \in C : s \in SliceForward[c]
    BY DEF SliceLoop
  <2>4. c \in Reached
    BY <1>1, <1>3, <2>3, AroundFacts
  <2>5. Reached \subseteq reach /\ \A z \in Reached : Inner(z) \subseteq Reached
    BY <1>1, AroundFacts
  <2>6. O \in SUBSET Blocks /\ \A z \in O : Passing(z) => Successors(prog, z) \subseteq O
    BY <1>1, <2>5, ProgramFacts DEF Passing, Inner
  <2>7. a \in O
    BY <1>1, <2>2, <2>4, <2>5, ProgramFacts DEF Inner
  <2>8. x \in O
    <3>. HIDE DEF O
    <3>. QED
      BY <2>2, <2>6, <2>7, NextSuitsWithin
  <2>. QED
    BY <2>8 DEF Span
<1>. QED
  BY <1>2, <1>3, <1>4, <1>5

(* All control to a loop of the slice comes by a block of its span that no *)
(* forward edge from the span leads to: whatever part of the loop control  *)
(* gets to around this block, it goes on from there to all of it and to    *)
(* the block itself.                                                       *)
LEMMA HeadDominates ==
  ASSUME Finished, NEW C, SliceLoop(C), NEW h \in Span(C), \A w \in Span(C) : ~Forward(w, h)
  PROVE  \A w \in Span(C) : w \notin Around(h)
<1>. SUFFICES ASSUME NEW w \in Span(C), w \in Around(h)
              PROVE  FALSE
  OBVIOUS
<1>. DEFINE W == Span(C)
<1>1. /\ prog \in Programs /\ suits \subseteq reach /\ reach \subseteq Blocks /\ EntryBlock \in reach
      /\ C \subseteq suits
  BY DEF Finished, SliceLoop
<1>2. /\ C \subseteq W /\ W \subseteq reach
      /\ \A c \in C : \A a \in Successors(prog, c) : \A x \in Passed(a) :
           NextSuits(x) \cap C # {} => x \in W /\ x \in reach
  BY SpanFacts DEF Span
<1>3. ASSUME NEW x \in W, x \in Around(h), NEW y \in W, y \in Successors(prog, x)
      PROVE  y \in Around(h)
  <2>1. x \in reach /\ y \in Inner(x)
    BY <1>2, <1>3 DEF Inner
  <2>2. y # h
    BY <1>3, <2>1 DEF Forward
  <2>. QED
    BY <1>1, <1>3, <2>1, <2>2, AroundFacts
(* Passing on towards a block of the loop. *)
<1>4. ASSUME NEW c \in C, NEW a \in Successors(prog, c), NEW x \in Passed(a), NEW s \in C,
             s \in NextSuits(x) => x \in Around(h), NEW y \in Passed(x), s \in NextSuits(y)
      PROVE  y \in Around(h)
  <2>. DEFINE T == {z \in Passed(a) : s \in NextSuits(z) => z \in Around(h)}
  <2>1. a \in Blocks /\ Passed(a) \subseteq Blocks
        /\ \A z \in Passed(a) : Passing(z) => Successors(prog, z) \subseteq Passed(a)
    BY <1>1, ProgramFacts, PassedFacts
  <2>2. \A z \in T : Passing(z) => Successors(prog, z) \subseteq T
    <3>. SUFFICES ASSUME NEW z \in T, Passing(z), NEW v \in Successors(prog, z), s \in NextSuits(v)
                  PROVE  v \in Around(h)
      BY <2>1
    <3>1. v \in Passed(a)
      BY <2>1
    <3>2. s \in NextSuits(z)
      BY <1>1, <2>1, PassedFacts
    <3>3. z \in Around(h) /\ z \in W /\ v \in W
      BY <1>2, <3>1, <3>2
    <3>. QED
      BY <1>3, <3>3
  <2>3. T \in SUBSET Blocks /\ x \in T
    BY <1>4, <2>1
  <2>4. y \in T
    <3>. HIDE DEF T
    <3>. QED
      BY <2>2, <2>3, NextSuitsWithin
  <2>. QED
    BY <1>4, <2>4
<1>5. \A s \in C : s \in Passed(s) /\ NextSuits(s) = {s}
  BY <1>1, PassedFacts
<1>6. \A x \in Blocks : \A s \in NextSuits(x) : s \in Passed(x)
  BY <1>1, PassedFacts
<1>7. C \cap Around(h) # {}
  <2>1. PICK c \in C : \E a \in Successors(prog, c) : w \in Passed(a)
    BY DEF Span
  <2>2. PICK a \in Successors(prog, c) : w \in Passed(a)
    BY <2>1
  <2>3. PICK s \in C : s \in NextSuits(w)
    BY DEF Span
  <2>4. s \in Passed(w)
    BY <1>1, <1>2, <1>6, <2>3
  <2>. QED
    BY <1>4, <1>5, <2>2, <2>3, <2>4
(* From a block of the loop around the head, on to the next. *)
<1>8. ASSUME NEW c \in C, c \in Around(h), NEW a \in Successors(prog, c), NEW s \in C,
             NEW y \in Passed(a), s \in NextSuits(y)
      PROVE  y \in Around(h)
  <2>1. a \in Passed(a)
    BY <1>1, ProgramFacts, PassedFacts
  <2>2. s \in NextSuits(a) => a \in Around(h)
    BY <1>2, <1>3, <1>8, <2>1
  <2>. QED
    BY <1>4, <1>8, <2>1, <2>2
<1>9. C \subseteq Around(h)
  <2>. DEFINE T == C \cap Around(h)
  <2>1. \A c \in T : SliceForward[c] \cap C \subseteq T
    <3>. SUFFICES ASSUME NEW c \in T, NEW s \in C, s \in SliceForward[c]
                  PROVE  s \in Around(h)
      OBVIOUS
    <3>1. PICK a \in Successors(prog, c) : s \in NextSuits(a)
      BY SpanFacts DEF Follows
    <3>2. s \in Passed(a)
      BY <1>1, <1>6, <3>1, ProgramFacts
    <3>. QED
      BY <1>5, <1>8, <3>1, <3>2
  <2>2. T \in SUBSET C /\ T # {}
    BY <1>7
  <2>3. T = C
    <3>. HIDE DEF T
    <3>. QED
      BY <2>1, <2>2 DEF SliceLoop
  <2>. QED
    BY <2>3
<1>10. h \in Around(h)
  <2>1. PICK c \in C : \E a \in Successors(prog, c) : h \in Passed(a)
    BY DEF Span
  <2>2. PICK s \in C : s \in NextSuits(h)
    BY DEF Span
  <2>. QED
    BY <1>8, <1>9, <2>1, <2>2
<1>. QED
  BY <1>1, <1>10, AroundFacts

(* No loop of the slice is made of forward edges only.  Its head in the    *)
(* function is a block of the slice, and then its head in the slice, too,  *)
(* or was left out, having a single way on into the slice as far as this   *)
(* loop is concerned: then where that leads is the head in the slice.      *)
LEMMA NoSliceLoop ==
  ASSUME Finished, OneEntry, IsFiniteSet(reach), NEW C, SliceLoop(C)
  PROVE  FALSE
<1>1. /\ prog \in Programs /\ suits \subseteq reach /\ reach \subseteq Blocks /\ EntryBlock \in reach
      /\ C \subseteq suits
  BY DEF Finished, SliceLoop
<1>2. C \subseteq Span(C) /\ Span(C) \subseteq Reached /\ Span(C) # {} /\ Span(C) \subseteq reach
  BY SpanFacts DEF SliceLoop, Span
<1>3. PICK h \in Span(C) : \A w \in Span(C) : ~Forward(w, h)
  BY <1>1, <1>2, HeadExists
<1>4. \A w \in Span(C) : w \notin Around(h)
  BY <1>3, HeadDominates
<1>5. \A c \in C : \E p \in C : p \in Around(c) /\ p \notin Around(h) /\ p \in suits
  BY <1>1, <1>2, <1>4, SpanFacts DEF SliceLoop
<1>6. h \in Blocks /\ h \in Reached
  BY <1>1, <1>2
<1>7. CASE h \in suits
  <2>1. h \in C
    BY <1>1, <1>6, <1>7, PassedFacts DEF Span
  <2>. QED
    BY <1>5, <2>1
<1>8. CASE h \notin suits
  <2>1. PICK e \in C : e \in NextSuits(h)
    BY DEF Span
  <2>2. \A t \in NextSuits(h) : t \notin Around(h) => t = e
    BY <1>2, <1>4, <1>6, <1>8, <2>1, HeadAnswers
  <2>3. PICK p \in C : p \in Around(e) /\ p \notin Around(h) /\ p \in suits
    BY <1>5
  <2>. DEFINE T == {y \in reach : y \in Around(h) \/ y \in Passed(h) \ suits}
  <2>4. /\ h \in Passed(h) /\ NextSuits(h) = suits \cap Passed(h)
        /\ \A z \in Passed(h) : Passing(z) => Successors(prog, z) \subseteq Passed(h)
    BY <1>1, <1>6, PassedFacts
  <2>5. EntryBlock # e => EntryBlock \in T
    BY <1>1, <1>8, <2>4, AroundFacts
  <2>6. ASSUME NEW y \in T, NEW z \in Inner(y), z # e
        PROVE  z \in T
    <3>1. z \in reach /\ z \in Successors(prog, y)
      BY <2>6 DEF Inner
    <3>2. CASE y \in Around(h)
      <4>1. z = h \/ z \in Around(h)
        BY <1>1, <2>6, <3>2, AroundFacts
      <4>. QED
        BY <1>8, <2>4, <3>1, <4>1
    <3>3. CASE y \in Passed(h) \ suits
      <4>1. z \in Passed(h)
        BY <2>4, <2>6, <3>1, <3>3 DEF Passing
      <4>2. z \in suits => z \in Around(h)
        BY <2>2, <2>4, <2>6, <4>1
      <4>. QED
        BY <3>1, <4>1, <4>2
    <3>. QED
      BY <2>6, <3>2, <3>3
  <2>7. Around(e) \subseteq T
    <3>1. T \in SUBSET reach
      OBVIOUS
    <3>. HIDE DEF T
    <3>. QED
      BY <1>1, <2>5, <2>6, <3>1, AroundLeast
  <2>. QED
    BY <2>3, <2>7
<1>. QED
  BY <1>7, <1>8

(* Over the forward edges of the finished slice no block leads to itself.  *)
LEMMA SliceReducible ==
  ASSUME Finished, OneEntry, IsFiniteSet(reach), NEW b \in suits
  PROVE  b \notin Closure(SliceForward[b], SliceForward)
<1>. SUFFICES ASSUME b \in Closure(SliceForward[b], SliceForward)
              PROVE  FALSE
  OBVIOUS
<1>1. DOMAIN SliceForward = suits /\ \A v \in suits : SliceForward[v] \subseteq suits
  BY DEF SliceForward, FollowGraph
<1>2. PICK C \in SUBSET suits :
        /\ b \in C
        /\ \A c \in C : (\E p \in C : c \in SliceForward[p]) /\ (\E s \in C : s \in SliceForward[c])
        /\ \A T \in SUBSET C : T # {} /\ (\A c \in T : SliceForward[c] \cap C \subseteq T) => T = C
  <2>1. b \in DOMAIN SliceForward
    BY <1>1
  <2>2. \A v \in DOMAIN SliceForward : SliceForward[v] \subseteq DOMAIN SliceForward
    BY <1>1
  <2>3. \E C \in SUBSET DOMAIN SliceForward :
          /\ b \in C
          /\ \A c \in C : (\E p \in C : c \in SliceForward[p]) /\ (\E s \in C : s \in SliceForward[c])
          /\ \A T \in SUBSET C : T # {} /\ (\A c \in T : SliceForward[c] \cap C \subseteq T) => T = C
    BY <2>1, <2>2, LoopMembers
  <2>. QED
    BY <1>1, <2>3
<1>3. SliceLoop(C)
  BY <1>2 DEF SliceLoop
<1>. QED
  BY <1>3, NoSliceLoop

------------------------------------------------------------------------------
(* The precision of the slice. *)

LEMMA PreciseInvariant == Spec => [](SlicedInv /\ SuitsInReach /\ EntryInv /\ WayInv)
<1>. DEFINE I == SlicedInv /\ VisitInv /\ SuitsInReach /\ EntryInv /\ WayInv
<1>1. Init => I
  <2>1. Init => SuitsInReach
    BY DEF Init, SuitsInReach
  <2>2. Init => VisitInv
    BY DEF Init, VisitInv, Walking
  <2>. QED
    BY <2>1, <2>2, SlicedInit, EntryInit, WayInit
<1>2. I /\ [Next]_vars => I'
  BY SlicedStep, VisitStep, SuitsStep, EntryStep, WayStep DEF SlicedInv
<1>. QED
  BY <1>1, <1>2, PTL DEF Spec

(* In a function whose loops have one entry, and that a block of the slice *)
(* (as in any function without loops), control has no choice outside the   *)
(* slice: joint's one answer for a block is all it can meet first.         *)
THEOREM OneWayOutCorrect == Spec => [](OneEntry /\ Headed => OneWayOut)
<1>1. SlicedInv /\ SuitsInReach /\ EntryInv /\ WayInv => (OneEntry /\ Headed => OneWayOut)
  BY OneAnswer DEF OneWayOut, Seen
<1>. QED
  BY <1>1, PreciseInvariant, PTL

(* And a branch of the slice between two different blocks of the slice is  *)
(* a condition of the slice: joint has compared all that its sides lead to.*)
THEOREM BranchesCorrect == Spec => [](OneEntry /\ Headed => DecidingBranchesKept)
<1>1. ASSUME SlicedInv, SuitsInReach, EntryInv, WayInv, OneEntry, Headed, pc = "done",
             NEW b \in suits, Arity(b) = 2,
             NextSuits(SuccOf(prog, b)[1]) # {}, NextSuits(SuccOf(prog, b)[2]) # {},
             NextSuits(SuccOf(prog, b)[1]) # NextSuits(SuccOf(prog, b)[2])
      PROVE  TermOf(prog, b) \in backs
  <2>1. /\ taints = {} /\ prog \in Programs /\ reach \subseteq Blocks
        /\ b \in Reached /\ b \in Blocks /\ BlockKept(b) /\ suits \subseteq reach
    BY <1>1, OneAnswer DEF SuitsInReach
  <2>2. ASSUME NEW k \in 1..2, NextSuits(SuccOf(prog, b)[k]) # {}
        PROVE  /\ Sure(b, SuccOf(prog, b)[k])
               /\ NextSuits(SuccOf(prog, b)[k]) = {dedup[SuccOf(prog, b)[k]]}
               /\ dedup[SuccOf(prog, b)[k]] # Null
    <3>1. SuccOf(prog, b)[k] \in Successors(prog, b) /\ SuccOf(prog, b)[k] \in Blocks
      BY <1>1, <2>1, ProgramFacts
    <3>2. SuccOf(prog, b)[k] \in Inner(b)
      BY <2>1, <2>2, <3>1, PassedFacts DEF Inner
    <3>. QED
      BY <1>1, <2>1, <2>2, <3>2, OneAnswer
  <2>3. BranchKept(b, SuccOf(prog, b)[1], SuccOf(prog, b)[2])
    BY <1>1, <2>1, <2>2 DEF BlockKept
  <2>. QED
    BY <1>1, <2>1, <2>2, <2>3 DEF BranchKept
<1>2. SlicedInv /\ SuitsInReach /\ EntryInv /\ WayInv => (OneEntry /\ Headed => DecidingBranchesKept)
  BY <1>1 DEF DecidingBranchesKept
<1>. QED
  BY <1>2, PreciseInvariant, PTL

==============================================================================
