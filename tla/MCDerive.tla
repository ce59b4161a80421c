------------------------------ MODULE MCDerive ------------------------------
(***************************************************************************)
(* Derive with two bits at an address and pointers of four bits, in an     *)
(* address space just long enough for the regions and one address behind.  *)
(***************************************************************************)
EXTENDS Derive

MCSlotLen == [k \in Kinds |-> CASE k = "stack" -> 1 [] k = "extern" -> 3 [] k = "heap" -> 3]
MCSlotNum == [k \in Kinds |-> 1]

Plain == [ops |-> {}, ints |-> {}, casts |-> {}, ptrInts |-> {4}, memWidths |-> {2, 4},
          calcOps |-> {}, cmpOps |-> {}, flags |-> {{}}, steps |-> {}, scales |-> {},
          userData |-> {1}, maxLeaves |-> 2, maxRegs |-> 4]

(* All integers of one, two and four bits, with every operation on them.   *)
Calculating ==
  [Plain EXCEPT
     !.ops = {"cast", "calc", "cmp", "select", "branch", "phi", "swap"},
     !.ints = {1} \X (0..1) \cup {2} \X (0..3) \cup {4} \X (0..15),
     !.casts = {"trunc", "zext", "sext"} \X {1, 2, 4},
     !.calcOps = {"add", "sub", "mul", "udiv", "urem", "sdiv", "srem", "shl", "lshr", "ashr",
                  "and", "or", "xor"},
     !.cmpOps = {"eq", "ne", "ugt", "uge", "ult", "ule", "sgt", "sge", "slt", "sle"},
     !.flags = SUBSET {"nsw", "nuw"}]

Neighbours == {<<1, 1>>, <<1, -1>>}

(* Sizes of zero, of one address and of two, and a value of one address.   *)
Sizes == {<<4, 0>>, <<4, 1>>, <<4, 2>>, <<2, 1>>}

Calling ==
  [Plain EXCEPT
     !.ops = {"extern", "local", "malloc", "duplicate", "copy", "compare", "length",
              "get_user", "extract", "load", "pointer", "ignore", "gep"},
     !.ints = Sizes, !.steps = Neighbours, !.scales = {1, 2}]

Remembering ==
  [Plain EXCEPT
     !.ops = {"extern", "gep", "load", "store", "copy", "ignore"},
     !.ints = {<<4, 2>>, <<2, 3>>}, !.steps = Neighbours, !.maxRegs = 5]

Fetching ==
  [Plain EXCEPT
     !.ops = {"extern", "gep", "copy", "get_user"},
     !.ints = {<<4, 0>>, <<4, 1>>, <<4, 2>>}, !.steps = Neighbours, !.maxLeaves = 3, !.maxRegs = 6]

(* Objects only, more than there are slots for. *)
Creating ==
  [Plain EXCEPT !.ops = {"extern", "local", "malloc"}, !.maxLeaves = 3]

MCTrials == {Calculating, Calling, Remembering, Fetching, Creating}

(* The assignment puts the regions where they begin, or anywhere if there  *)
(* are objects only.                                                       *)
MCInit == DeriveInit /\ (trial # Creating => next = Base)

MCSpec == MCInit /\ [][DeriveNext]_deriveVars
=============================================================================
