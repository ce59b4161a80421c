------------------------------- MODULE MCFetch -------------------------------
(***************************************************************************)
(* EvalGraph on graphs of MCSlice, where the fetch depends on blocks by    *)
(* way of the memory, on loops of five blocks, and on functions with two   *)
(* ways to a phi and two fetches:                                          *)
(*                                                                         *)
(*   1  buf = alloca; lib = libcall; br arg             -> 2, 3             *)
(*   2  store arg to buf; first fetch; br               -> 4, 3 or 5         *)
(*   3  ext = unknown call; br                          -> 4, 5 or both     *)
(*   4  phi = [two, 2], [three, 3], [arg, 5]; ld = load; fetch; return      *)
(*   5  (nothing)                                       -> 4 or 3           *)
(*                                                                         *)
(* The return of some takes what the fetch takes, and in some ext is a     *)
(* value btrace has a case for and buildNode has none.                     *)
(***************************************************************************)
EXTENDS EvalGraph, MCSlice

Located5 == 
  [buf |-> 1, lib |-> 1, store |-> 2, first |-> 2, ext |-> 3,
   phi |-> 4, ld |-> 4, fetch |-> 4,
   t1 |-> 1, t2 |-> 2, t3 |-> 3, t4 |-> 4, t5 |-> 5]

FetchValues == MCValues \cup DOMAIN Located5 \cup {"zero"}

FetchRoots(p) == IF IsGraph(p) THEN {} ELSE {"buf", "arg"}

FetchSucc(p, b) ==
  IF IsGraph(p) THEN MCSucc(p, b)
  ELSE <<<<2, 3>>, p.second, p.third, <<>>, p.fifth>>[b]

(* A graph has no more instructions than its blocks hold. *)
GraphHost(p, v) ==
  IF v = "fetch" THEN Len(p.succ)
  ELSE IF \E b \in 1..(Len(p.succ) - 1) : v = Inst(b) THEN Hosted[v]
  ELSE IF \E b \in MCBlocks : v = MCTerm(p, b) THEN Hosted[v] ELSE Null

FetchHost(p, v) ==
  IF IsGraph(p) THEN GraphHost(p, v)
  ELSE IF v \in DOMAIN Located5 THEN Located5[v] ELSE Null

FetchOrder(p, b) ==
  IF IsGraph(p)
    THEN IF b = Len(p.succ) THEN <<"fetch", MCTerm(p, b)>>
         ELSE IF b < Len(p.succ) THEN <<Inst(b), MCTerm(p, b)>> ELSE <<MCTerm(p, b)>>
    ELSE <<<<"buf", "lib", "t1">>, <<"store", "first", "t2">>, <<"ext", "t3">>,
           <<"phi", "ld", "fetch", "t4">>, <<"t5">>>>[b]

FetchKind(p, v) ==
  CASE FetchHost(p, v) = Null \/ v = "buf" -> "root"
    [] v = "lib" -> "ignored"
    [] v = "ext" -> IF p.odd = "value" THEN "other" ELSE "unknown"
    [] v = "phi" -> "phi"
    [] v = "ld"  -> "load"
    [] v \in {"store", "i1", "i2", "i3", "i4"} -> "store"
    [] OTHER     -> "inst"

FetchIncoming(p, v) ==
  [b \in {c \in MCBlocks : \E k \in DOMAIN FetchSucc(p, c) : FetchSucc(p, c)[k] = 4} |->
     IF b = 2 THEN p.two ELSE IF b = 3 THEN p.three ELSE "arg"]

ValueArgs(p, v) ==
  CASE v = "store" -> {"arg", "buf"}
    [] v = "first" -> {p.first, "zero"}
    [] v = "ld"    -> {p.address}
    [] v = "fetch" -> {p.source, "zero"}
    [] v = "t1"    -> {"arg"}
    [] v = "t2"    -> {"first"}
    [] v = "t3"    -> {"ext"}
    [] v = "t4"    -> IF p.odd = "return" THEN {p.source} ELSE {}
    [] OTHER       -> {}

FetchArgs(p, v) ==
  IF ~IsGraph(p) THEN ValueArgs(p, v) ELSE IF v = "fetch" THEN {"zero"} ELSE {}

(* A branch with one way on has no condition. *)
ValueOps(p, v) ==
  CASE v = "phi" -> ({FetchIncoming(p, v)[b] : b \in DOMAIN FetchIncoming(p, v)} \ {"zero"})
                      \cup {MCTerm(p, b) : b \in DOMAIN FetchIncoming(p, v)}
    [] v \in {"t2", "t3"} ->
         IF Len(FetchSucc(p, Located5[v])) = 2 THEN ValueArgs(p, v) ELSE {}
    [] OTHER -> ValueArgs(p, v) \ {"zero"}

FetchOps(p, v) == IF IsGraph(p) THEN MCOps(p, v) ELSE ValueOps(p, v)

FetchUsers(p, v) ==
  IF IsGraph(p) THEN {}
  ELSE {u \in FetchValues :
          v \in ValueOps(p, u) /\ (u = "phi" => v \notin {MCTerm(p, b) : b \in MCBlocks})}

FetchUntraceable(p) == {MCTerm(p, b) : b \in {c \in MCBlocks : FetchSucc(p, c) = <<>>}}

Fetches(p) == IF IsGraph(p) THEN {"fetch"} ELSE {"first", "fetch"}
FetchSrc(p, f) == IF IsGraph(p) THEN "zero" ELSE IF f = "first" THEN p.first ELSE p.source
FetchLen(p, f) == "zero"

------------------------------------------------------------------------------

ValueFunctions ==
  {p \in [second : {<<4>>, <<3>>, <<4, 3>>, <<3, 5>>}, third : {<<4>>, <<5, 4>>},
          fifth : {<<4>>, <<3>>}, two : {"arg", "first"}, three : {"zero", "ext", "lib"},
          first : {"arg", "buf"}, address : {"buf", "phi"}, source : {"phi", "ld", "arg"},
          odd : {"none", "return", "value"}] :
     /\ (p.first = "arg") = (p.two = "arg")
     /\ p.odd = "value" => p.three = "ext" /\ p.third = <<4>>
     /\ p.odd = "return" => p.fifth = <<4>> /\ p.third = <<4>> /\ p.second = <<4>>
     /\ p.three = "lib" => p.second = <<4>>
     /\ p.source = "arg" => p.address = "buf" /\ p.three = "zero"
     /\ p.three = "ext" => p.address = "buf" /\ p.first = "buf"
     /\ p.fifth = <<3>> => (p.third = <<4>>) = (p.second = <<3, 5>>) /\ p.three = "zero"}

(* compat_alloc_user_space is one of the ignored calls; here its result is *)
(* the source of a fetch.                                                  *)
IgnoredSources ==
  {[p EXCEPT !.first = "lib"] :
     p \in {q \in ValueFunctions : q.second = <<4>> /\ q.third = <<4>> /\ q.fifth = <<4>> /\ q.three = "zero"}}

(* A test at the head and up to three more tests that go on, start over or *)
(* leave.                                                                  *)
LoopsOfFive ==
  {p \in [succ : {<<<<2>>, b, c, d, e>> :
                    b \in {<<3, 5>>, <<5, 3>>, <<3, 4>>}, c \in {<<2>>, <<2, 4>>, <<5, 2>>},
                    d \in {<<2>>, <<5, 2>>, <<3, 5>>}, e \in {<<4, 3>>, <<2>>, <<>>}},
          needs : {{4}, {3, 4}}] :
     1 \in Reaching(p.succ) /\ p.needs \subseteq Reaching(p.succ)}

NeedsInside ==
  {p \in LoopGraphs({<<2>>}) : p.needs = {3} /\ p.succ[1] \in {<<2>>, <<2, 3>>}}

AllFetches == {p : p \in ValueFunctions \cup IgnoredSources \cup LoopsOfFive \cup NeedsInside}
FetchPrograms == AllFetches

==============================================================================
