------------------------------- MODULE MCSlice -------------------------------
(***************************************************************************)
(* Functions of at most five blocks for SliceLinks.  There are two kinds.  *)
(*                                                                         *)
(* A graph has any control flow; block b has the terminator "t"b and an    *)
(* instruction "i"b, of which the fetch, in the last block, takes some.    *)
(*                                                                         *)
(* A loop with data has an error exit that cannot reach the fetch,         *)
(*                                                                         *)
(*   1  entry: buf = alloca                          -> 2                  *)
(*   2  head:  phi = [.., 1], [inc, 3]; cmp           -> 4, 3               *)
(*   3  body:  inc = phi + 1; store; log(buf)         -> 2, 5               *)
(*   4  fetch: ptr = gep buf; fetch                   -> 5 or nothing       *)
(*   5  error: late = load buf; return late           -> nothing            *)
(*                                                                         *)
(* where log is a call btrace does not look into; it says which values the *)
(* fetch, the two branches and the store take.  Some have a value btrace   *)
(* has no case for: block 4 returns arg, the end of block 3 is a computed  *)
(* goto, or global has an alias.                                           *)
(***************************************************************************)
EXTENDS SliceLinks, FiniteSets

MCBlocks == 1..5

MCTerm(p, b) == <<"t1", "t2", "t3", "t4", "t5">>[b]
Inst(b) == <<"i1", "i2", "i3", "i4">>[b]

Hosted ==
  [buf |-> 1, phi |-> 2, cmp |-> 2, inc |-> 3, store |-> 3, log |-> 3,
   ptr |-> 4, fetch |-> 4, late |-> 5,
   i1 |-> 1, i2 |-> 2, i3 |-> 3, i4 |-> 4,
   t1 |-> 1, t2 |-> 2, t3 |-> 3, t4 |-> 4, t5 |-> 5]

MCValues == DOMAIN Hosted \cup {"arg", "global", "expr", "alias"}

IsGraph(p) == "needs" \in DOMAIN p

MCSucc(p, b) ==
  IF ~IsGraph(p) THEN <<<<2>>, <<4, 3>>, <<2, 5>>, p.leave, <<>>>>[b]
  ELSE IF b \in DOMAIN p.succ THEN p.succ[b] ELSE <<>>

MCHost(p, v) ==
  IF v \notin DOMAIN Hosted THEN Null
  ELSE IF v = "fetch" /\ IsGraph(p) THEN Len(p.succ) ELSE Hosted[v]

MCRoots(p) == IF IsGraph(p) THEN {} ELSE {"buf", "arg", "global"}
MCFetch(p) == "fetch"

(* A block without a way on returns. *)
Returns(p) == {MCTerm(p, b) : b \in {c \in MCBlocks : MCSucc(p, c) = <<>>}}

MCUntraceable(p) ==
  Returns(p) \cup (IF IsGraph(p) THEN {} ELSE {"alias"})
    \cup (IF ~IsGraph(p) /\ p.odd = "goto" THEN {"t3"} ELSE {})

DataOps(p, v) ==
  CASE v = "fetch" -> p.fetch
    [] v = "t2"    -> p.head
    [] v = "t3"    -> p.body
    [] v = "store" -> p.store
    [] v = "cmp"   -> {"phi", "arg"}
    [] v = "phi"   -> {"inc", "t1", "t3"}
    [] v = "inc"   -> {"phi"}
    [] v = "ptr"   -> {"buf"}
    [] v = "late"  -> {"buf"}
    [] v = "t5"    -> {"late"}
    [] v = "expr"  -> {"global"}
    [] v = "t4"    -> IF p.odd = "return" THEN {"arg"} ELSE {}
    [] v = "alias" -> IF p.odd = "alias" THEN {"global"} ELSE {}
    [] OTHER       -> {}

MCOps(p, v) ==
  IF ~IsGraph(p) THEN DataOps(p, v)
  ELSE IF v = "fetch" THEN {Inst(b) : b \in p.needs} ELSE {}

(* A phi does not use the terminators of its incoming blocks; log uses its *)
(* argument though btrace ignores it.                                      *)
MCUsers(p, v) ==
  IF IsGraph(p) THEN {}
  ELSE {u \in MCValues \ {"phi"} : v \in DataOps(p, u)}
         \cup (IF v = "inc" THEN {"phi"} ELSE {})
         \cup (IF v = "buf" THEN {"log"} ELSE {})

------------------------------------------------------------------------------

DataLoops ==
  {p \in [fetch : {{"ptr"}, {"phi"}, {"expr", "arg"}},
          head  : {{"cmp"}, {"arg"}},
          body  : {{}, {"inc"}, {"global"}},
          store : {{"buf", "arg"}, {"inc", "buf"}, {"inc", "expr"}},
          leave : {<<>>, <<5>>},
          odd   : {"none", "return", "goto", "alias"}] :
     p.odd = "return" => p.leave = <<>>}

(* The ways a block can end when it can lead to the blocks in S.  A branch *)
(* with two equal sides is folded before the pass runs.                    *)
Endings(S) ==
  {<<>>} \cup {<<b>> : b \in S}
  \cup {<<bc[1], bc[2]>> : bc \in {d \in S \X S : d[1] # d[2]}}

(* The blocks of a graph that reach the last one. *)
Reaching(g) ==
  Closure({Len(g)}, [b \in 1..Len(g) |-> {c \in 1..Len(g) : \E k \in DOMAIN g[c] : g[c][k] = b}])

(* The functions with one of the given graphs, the fetch of which the      *)
(* entry block reaches.                                                    *)
ProgramsOn(graphs) ==
  UNION {[succ : {g}, needs : SUBSET (Reaching(g) \ {Len(g)})] :
           g \in {h \in graphs : 1 \in Reaching(h)}}

(* All control flow graphs of four blocks, loops included, of which the    *)
(* entry block has no predecessor and the block of the fetch returns or    *)
(* loops back.  The others are interchangeable: the first one the entry    *)
(* block leads to is called 2, the next one 3.                             *)
LoopGraphs(leave) ==
  ProgramsOn(
    {<<a, b, c, d>> : a \in {<<2>>, <<4>>, <<2, 4>>, <<4, 2>>, <<2, 3>>},
                      b \in Endings(2..4), c \in Endings(2..4), d \in leave})

(* All control flow graphs of five blocks without loops: every branch      *)
(* leads to blocks with larger numbers; the fetch depends on one of them.  *)
AcyclicGraphs ==
  {p \in ProgramsOn({<<a, b, c, d, <<>>>> :
                       a \in Endings(2..5), b \in Endings(3..5), c \in Endings(4..5),
                       d \in Endings({5})}) : Cardinality(p.needs) <= 1}

AllPrograms == {p : p \in LoopGraphs({<<>>, <<2>>, <<2, 3>>}) \cup AcyclicGraphs \cup DataLoops}

(* By way of a definition TLC evaluates once. *)
MCPrograms == AllPrograms

(* One loop with two ways to start over:                                   *)
(*                                                                         *)
(*   1  entry                                                              *)
(*   2  loop head    for(;;){ if(skip)                                     *)
(*   3                 continue;                                           *)
(*   5  fetch          copy_from_user(...); if(again)                      *)
(*   3                 continue;                                           *)
(*   4                 p = ...; }                                          *)
(*                                                                         *)
(* with the value of block 4 among the operands of the fetch.              *)
ContinueLoops ==
  [succ  : {<<<<2>>, h, <<2>>, <<2>>, f>> : h \in {<<3, 5>>, <<5, 3>>}, f \in {<<3, 4>>, <<4, 3>>}},
   needs : {{4}}]

==============================================================================
