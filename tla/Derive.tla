------------------------------- MODULE Derive -------------------------------
(***************************************************************************)
(* The symbols of SymExec, in lockstep with a run of the code they stand   *)
(* for.  The instructions of a trace are taken one by one; each has the    *)
(* value LLVM gives it in the run and the term its derive function makes.  *)
(* Terms are evaluated under one assignment: the one that gives a free     *)
(* variable the value the run has there, and memory not yet looked at the  *)
(* content it has in the run.  A term is thus a sort and a value, a        *)
(* constraint is true or false, and the question is whether the two runs   *)
(* agree.  What the code takes for granted of the run (that calls succeed, *)
(* say) and the run does not keep is noted in excused.                     *)
(*                                                                         *)
(* Only runs without undefined behaviour are taken.  An address holds      *)
(* 2^Bits values, ModuleOracle::BITS is 8.                                 *)
(***************************************************************************)
EXTENDS Regions, Sequences

CONSTANTS
  Null,        \* no expression
  NoValue,     \* the expression of what has no value, the string "NONE"
  Bits,        \* the bits at an address
  PtrWidth,    \* the bits of a pointer
  Trials       \* the sorts of programs taken, see below

ASSUME WidthAssumption ==
  /\ Bits \in Nat \ {0} /\ PtrWidth \in Nat /\ Bits <= PtrWidth
  /\ Space = 2^PtrWidth /\ SlotLen["heap"] < Space

VARIABLES
  trial,    \* the sort of the program
  regs,     \* the values of the trace: type, value of the run and term
  mem,      \* the memory of the run
  blob,     \* the memory of SymExec under the assignment
  fixed,    \* addresses whose content in blob is fixed
  stale,    \* those of them the run has written and SymExec has not
  held,     \* the constraints asserted so far are true
  excused,  \* what the run did that SymExec does not expect
  fetches,  \* <<source, length>> of the calls that read user space
  verdict,  \* two fetches with the answer of checkOverlap
  phase,    \* "leaves", "code", "check"
  flaw      \* "none", or what broke the analysis

memVars == <<mem, blob, fixed, stale>>
callVars == <<held, excused, fetches>>
deriveVars == <<trial, regs, memVars, callVars, verdict, phase, flaw, regionVars>>

DeriveInit ==
  /\ RegionsInit
  /\ trial \in Trials
  /\ regs = <<>>
  /\ mem = [a \in Address |-> a % 2^Bits] /\ blob = mem
  /\ fixed = {} /\ stale = {}
  /\ held = TRUE /\ excused = {} /\ fetches = {} /\ verdict = <<>>
  /\ phase = "leaves" /\ flaw = "none"

------------------------------------------------------------------------------
(* What occurs in a program of a sort. *)

Ops == trial.ops              \* the instructions and objects
Ints == trial.ints            \* <<width, value>> of constants and parameters
Casts == trial.casts          \* <<kind, width>>
PtrInts == trial.ptrInts      \* widths of integers cast to and from pointers
MemWidths == trial.memWidths  \* widths of integers loaded and stored
CalcOps == trial.calcOps      \* binary operators
CmpOps == trial.cmpOps        \* predicates
Flags == trial.flags          \* sets of "nsw" and "nuw"
Steps == trial.steps          \* <<size, value>>: constant indices over elements of a size
Scales == trial.scales        \* sizes of the elements that variables index
UserData == trial.userData    \* values at an address in user space
MaxLeaves == trial.maxLeaves  \* bounds on the values of the trace
MaxRegs == trial.maxRegs

ASSUME TrialAssumption ==
  \A t \in Trials :
    /\ \A c \in t.ints : c[1] \in Nat \ {0} /\ c[2] \in 0..(2^c[1] - 1)
    /\ \A c \in t.casts : c[1] \in {"trunc", "zext", "sext"} /\ c[2] \in Nat \ {0}
    /\ t.ptrInts \cup t.memWidths \subseteq Nat \ {0}
    /\ t.calcOps \subseteq {"add", "sub", "mul", "udiv", "urem", "sdiv", "srem",
                          "shl", "lshr", "ashr", "and", "or", "xor"}
    /\ \A s \in t.steps : s[1] \in Nat /\ s[2] \in Int
    /\ t.scales \subseteq Nat
    /\ t.userData \subseteq 0..(2^Bits - 1)

------------------------------------------------------------------------------
(* Types and terms. *)

IntType(w) == [w |-> w, ptr |-> FALSE]
PtrType == [w |-> PtrWidth, ptr |-> TRUE]
VoidType == [w |-> 0, ptr |-> FALSE]
PairType == [w |-> 0, ptr |-> TRUE]  \* the results of get_user

StoreSize(w) == (w + Bits - 1) \div Bits

(* getTypeSize: the size with padding, a power of two. *)
TypeSize(w) ==
  CHOOSE n \in {1, 2, 4, 8} :
    StoreSize(w) <= n /\ \A m \in {1, 2, 4, 8} : StoreSize(w) <= m => n <= m

Bv(w, v) == [w |-> w, v |-> v % 2^w]

Pointer(v) == Bv(PtrWidth, v)

IsPointer(e) == e.w = PtrWidth

Signed(w, v) == IF v < 2^(w - 1) THEN v ELSE v - 2^w

(* The digits of b bits of a number, and the number that has n digits c.   *)
Digit(v, k, b) == (v \div 2^(b * k)) % 2^b

Number(c, n, b) ==
  LET upTo[k \in 0..n] == IF k = 0 THEN 0 ELSE upTo[k - 1] + c[k - 1] * 2^(b * (k - 1))
  IN  upTo[n]

Term1(i) == regs[i].sym
Val(i) == regs[i].val
Type(i) == regs[i].ty

IntRegs == {i \in DOMAIN regs : ~Type(i).ptr /\ Type(i).w > 0}
PtrRegs == {i \in DOMAIN regs : Type(i) = PtrType}
SizeRegs == {i \in IntRegs : Type(i).w = PtrWidth}

Ready(I) == \A i \in I : Term1(i) # Null

Emit(ty, val, sym) == regs' = Append(regs, [ty |-> ty, val |-> val, sym |-> sym])

Leaf == phase = "leaves" /\ Len(regs) < MaxLeaves

Coded(op) == phase = "code" /\ flaw = "none" /\ Len(regs) < MaxRegs /\ op \in Ops

Rest == UNCHANGED <<trial, verdict, phase>>

(* An instruction without operands that have no symbol gets a term, if the *)
(* assertions of the code and the sorts of the solver allow.               *)
Derived(I, sound, ty, val, sym, asserted, excuse) ==
  /\ Rest
  /\ excused' = excused \cup excuse
  /\ IF ~Ready(I) THEN Emit(ty, val, Null) /\ UNCHANGED <<held, flaw>>
     ELSE IF sound THEN Emit(ty, val, sym) /\ held' = (held /\ asserted) /\ UNCHANGED flaw
     ELSE flaw' = "assertion" /\ UNCHANGED <<regs, held>>

(* One that only computes. *)
Computed(I, sound, ty, val, sym, asserted, excuse) ==
  /\ Derived(I, sound, ty, val, sym, asserted, excuse)
  /\ UNCHANGED <<memVars, fetches, regionVars>>

------------------------------------------------------------------------------
(* Leaves: constants and parameters, of which those used as pointers and   *)
(* the globals are objects from outside; locals are stack slots.           *)

LeafOnly == UNCHANGED <<trial, memVars, callVars, verdict, phase, flaw>>

IntLeaf ==
  /\ Leaf
  /\ \E c \in Ints : Emit(IntType(c[1]), c[2], Bv(c[1], c[2]))
  /\ LeafOnly /\ UNCHANGED regionVars

NullLeaf ==
  /\ Leaf
  /\ Emit(PtrType, 0, Pointer(0))
  /\ LeafOnly /\ UNCHANGED regionVars

Object(k, ty) ==
  /\ Leaf
  /\ CreatePtr(k)
  /\ Emit(ty, next[k], Pointer(next[k]))
  /\ LeafOnly

ObjectLeaf ==
  \/ "extern" \in Ops /\ (Object("extern", PtrType) \/ Object("extern", IntType(PtrWidth)))
  \/ "local" \in Ops /\ Object("stack", PtrType)

EndLeaves ==
  /\ phase = "leaves"
  /\ phase' = "code"
  /\ UNCHANGED <<trial, regs, memVars, callVars, verdict, flaw, regionVars>>

------------------------------------------------------------------------------
(* Casts. *)

Resized(kind, w, e) ==
  CASE kind = "trunc" -> Bv(w, e.v)
    [] kind = "zext" -> Bv(w, e.v)
    [] kind = "sext" -> Bv(w, Signed(e.w, e.v))

(* extract, zero_ext and sign_ext take what the widths leave to them. *)
CastTerm(kind, w, e) == Resized(kind, w, e)

Castable(kind, w, e) == IF kind = "trunc" THEN w <= e.w ELSE e.w <= w

Cast ==
  /\ Coded("cast")
  /\ \E i \in IntRegs, c \in Casts :
       /\ IF c[1] = "trunc" THEN c[2] < Type(i).w ELSE Type(i).w < c[2]
       /\ Computed({i}, Castable(c[1], c[2], Term1(i)), IntType(c[2]),
                   Resized(c[1], c[2], Bv(Type(i).w, Val(i))).v,
                   CastTerm(c[1], c[2], Term1(i)), TRUE, {})

(* Casts between pointers and integers, and from type to type, leave the   *)
(* term as it is.                                                          *)
CastPointer ==
  /\ Coded("pointer")
  /\ \/ \E i \in {j \in IntRegs : Type(j).w \in PtrInts} :
          Computed({i}, TRUE, PtrType, Val(i) % Space, Term1(i), TRUE, {})
     \/ \E i \in PtrRegs, w \in PtrInts :
          Computed({i}, TRUE, IntType(w), Val(i) % 2^w, Term1(i), TRUE, {})
     \/ \E i \in PtrRegs : Computed({i}, TRUE, PtrType, Val(i), Term1(i), TRUE, {})

------------------------------------------------------------------------------
(* Binary operators and comparisons. *)

Quotient(a, b) ==
  LET q == (IF a < 0 THEN -a ELSE a) \div (IF b < 0 THEN -b ELSE b)
  IN  IF (a < 0) = (b < 0) THEN q ELSE -q

Bit(v, k) == Digit(v, k, 1)

(* What a machine computes. *)
Result(op, w, a, b) ==
  LET x == Signed(w, a)
      y == Signed(w, b)
  IN  CASE op = "add" -> a + b
        [] op = "sub" -> a - b
        [] op = "mul" -> a * b
        [] op = "udiv" -> a \div b
        [] op = "urem" -> a % b
        [] op = "sdiv" -> Quotient(x, y)
        [] op = "srem" -> x - y * Quotient(x, y)
        [] op = "shl" -> a * 2^b
        [] op = "lshr" -> a \div 2^b
        [] op = "ashr" -> x \div 2^b
        [] op = "and" -> Number([k \in 0..(w - 1) |-> Bit(a, k) * Bit(b, k)], w, 1)
        [] op = "or" -> Number([k \in 0..(w - 1) |-> IF Bit(a, k) = 1 THEN 1 ELSE Bit(b, k)], w, 1)
        [] op = "xor" -> Number([k \in 0..(w - 1) |-> (Bit(a, k) + Bit(b, k)) % 2], w, 1)

Highest(w) == 2^(w - 1) - 1
Lowest(w) == -(2^(w - 1))

SignedResult(op, w, a, b) ==
  CASE op = "add" -> Signed(w, a) + Signed(w, b)
    [] op = "sub" -> Signed(w, a) - Signed(w, b)
    [] op = "mul" -> Signed(w, a) * Signed(w, b)

Exact(op) == op \in {"add", "sub", "mul"}

SignedFits(op, w, a, b) == SignedResult(op, w, a, b) \in Lowest(w)..Highest(w)

(* LLVM leaves these without a meaning. *)
Undefined(op, flags, w, a, b) ==
  \/ op \in {"udiv", "urem", "sdiv", "srem"} /\ b = 0
  \/ op \in {"sdiv", "srem"} /\ Signed(w, a) = Lowest(w) /\ Signed(w, b) = -1
  \/ op \in {"shl", "lshr", "ashr"} /\ b >= w
  \/ Exact(op) /\ "nsw" \in flags /\ ~SignedFits(op, w, a, b)
  \/ Exact(op) /\ "nuw" \in flags /\ Result(op, w, a, b) \notin 0..(2^w - 1)

ConstraintUnflagged(op, flags, l, r) ==  \* mutant: unsigned wrap is always excluded
  Exact(op) => Result(op, l.w, l.v, r.v) \in 0..(2^l.w - 1)

(* What is asserted of an operation: the side on which the flag asks for a *)
(* test, and the other side of the signed range in any case.               *)
Constraint(op, flags, l, r) ==
  LET s == SignedResult(op, l.w, l.v, r.v)
  IN  /\ op \in {"add", "mul"} =>
           /\ "nsw" \in flags => s <= Highest(l.w)
           /\ s >= Lowest(l.w)
      /\ op = "sub" =>
           /\ "nsw" \in flags => s >= Lowest(l.w)
           /\ s <= Highest(l.w)
      /\ Exact(op) /\ "nuw" \in flags => Result(op, l.w, l.v, r.v) \in 0..(2^l.w - 1)
      /\ op = "sdiv" => ~(Signed(l.w, l.v) = Lowest(l.w) /\ Signed(l.w, r.v) = -1)

(* prepareCalcOperation and prepareCmpOperation. *)
Prepared(i, j) ==
  /\ Type(i).w = Type(j).w
  /\ Type(i).w = Term1(i).w /\ Type(j).w = Term1(j).w

CalcTerm(op, l, r) == Bv(l.w, Result(op, l.w, l.v, r.v))

Calc ==
  /\ Coded("calc")
  /\ \E i, j \in IntRegs, op \in CalcOps, flags \in Flags :
       /\ Type(i) = Type(j)
       /\ flags # {} => Exact(op)
       /\ ~Undefined(op, flags, Type(i).w, Val(i), Val(j))
       /\ Computed({i, j}, Prepared(i, j), Type(i),
                   Result(op, Type(i).w, Val(i), Val(j)) % 2^Type(i).w,
                   CalcTerm(op, Term1(i), Term1(j)),
                   Constraint(op, flags, Term1(i), Term1(j)),
                   IF Exact(op) /\ ~SignedFits(op, Type(i).w, Val(i), Val(j))
                     THEN {"wrap"} ELSE {})

Compares(op, w, a, b) ==
  LET x == Signed(w, a)
      y == Signed(w, b)
  IN  CASE op = "eq" -> a = b  [] op = "ne" -> a # b
        [] op = "ugt" -> a > b [] op = "uge" -> a >= b
        [] op = "ult" -> a < b [] op = "ule" -> a <= b
        [] op = "sgt" -> x > y [] op = "sge" -> x >= y
        [] op = "slt" -> x < y [] op = "sle" -> x <= y

(* castBoolToMachInt: true is -1. *)
FromBool(b, w) == Bv(w, IF b THEN -1 ELSE 0)

CmpTermInversed(op, l, r) ==  \* mutant: ne is taken for eq
  IF op = "ne" THEN FromBool(l = r, 1) ELSE FromBool(Compares(op, l.w, l.v, r.v), 1)

(* ne is the equality, inversed. *)
CmpTerm(op, l, r) ==
  IF op = "ne" THEN FromBool(~(l = r), 1) ELSE FromBool(Compares(op, l.w, l.v, r.v), 1)

Cmp ==
  /\ Coded("cmp")
  /\ \E i, j \in IntRegs \cup PtrRegs, op \in CmpOps :
       /\ Type(i) = Type(j)
       /\ Computed({i, j}, Prepared(i, j), IntType(1),
                   IF Compares(op, Type(i).w, Val(i), Val(j)) THEN 1 ELSE 0,
                   CmpTerm(op, Term1(i), Term1(j)), TRUE, {})

------------------------------------------------------------------------------
(* Selections and branches. *)

ToBool(e) == e.v # 0

Select ==
  /\ Coded("select")
  /\ \E c \in IntRegs, i, j \in IntRegs \cup PtrRegs :
       /\ Type(c) = IntType(1) /\ Type(i) = Type(j)
       /\ Computed({c, i, j}, Term1(i).w = Term1(j).w, Type(i),
                   IF Val(c) = 1 THEN Val(i) ELSE Val(j),
                   IF ToBool(Term1(c)) THEN Term1(i) ELSE Term1(j), TRUE, {})

Phi ==
  /\ Coded("phi")
  /\ \E i \in IntRegs \cup PtrRegs :
       Computed({i}, TRUE, Type(i), Val(i), Term1(i), TRUE, {})

Taken == {0, 1, -1}

(* The side the trace takes (0 is the true one) is asserted, where the     *)
(* graph knows it: the run takes that side.                                *)
Branch ==
  /\ Coded("branch")
  /\ \E c \in IntRegs, side \in Taken :
       /\ Type(c) = IntType(1)
       /\ side # -1 => Val(c) = 1 - side
       /\ Computed({c}, TRUE, VoidType, 0, NoValue,
                   CASE side = 0 -> ToBool(Term1(c))
                     [] side = 1 -> ~ToBool(Term1(c))
                     [] side = -1 -> TRUE, {})

------------------------------------------------------------------------------
(* Addresses and memory. *)

(* An index steps over elements; a constant one keeps its value as an      *)
(* unsigned number of the width of a pointer.                              *)
Gep ==
  /\ Coded("gep")
  /\ \/ \E p \in PtrRegs, s \in Steps :
          Computed({p}, IsPointer(Term1(p)), PtrType, (Val(p) + s[1] * s[2]) % Space,
                   Pointer(Term1(p).v + s[1] * (s[2] % Space)), TRUE, {})
     \/ \E p \in PtrRegs, i \in SizeRegs, n \in Scales :
          Computed({p, i}, IsPointer(Term1(p)) /\ IsPointer(Term1(i)), PtrType,
                   (Val(p) + n * Signed(PtrWidth, Val(i))) % Space,
                   Pointer(Term1(p).v + n * Term1(i).v), TRUE, {})

Byte(v, k) == Digit(v, k, Bits)

Read(m, a, n) == Number([k \in 0..(n - 1) |-> m[(a + k) % Space]], n, Bits)

Written(m, a, v, n) ==
  [x \in Address |-> IF (x - a) % Space < n THEN Byte(v, (x - a) % Space) ELSE m[x]]

LoadTerm(a, n) == Bv(Bits * n, Read(blob, a.v, n))

Accessible == {p \in PtrRegs : Val(p) # 0}

Load ==
  /\ Coded("load")
  /\ \E p \in Accessible, ty \in {PtrType} \cup {IntType(w) : w \in MemWidths} :
       LET n == TypeSize(ty.w)
       IN  /\ Derived({p}, IsPointer(Term1(p)), ty,
                      Read(mem, Val(p), StoreSize(ty.w)) % 2^ty.w,
                      LoadTerm(Term1(p), n), TRUE,
                      IF Ready({p}) /\ Cells(Term1(p).v, n) \cap stale # {}
                        THEN {"stale"} ELSE {})
           /\ fixed' = IF Ready({p}) THEN fixed \cup Cells(Term1(p).v, n) ELSE fixed
  /\ UNCHANGED <<mem, blob, stale, fetches, regionVars>>

(* The run writes what SymExec does not write. *)
Unnoticed(m, cells) ==
  /\ mem' = m
  /\ blob' = [x \in Address |-> IF x \in fixed THEN blob[x] ELSE m[x]]
  /\ stale' = stale \cup (cells \cap fixed)
  /\ UNCHANGED fixed

Stored(a, e) == Written(blob, a.v, e.v, e.w \div Bits)

Store ==
  /\ Coded("store")
  /\ \E p \in Accessible, i \in PtrRegs \cup {j \in IntRegs : Type(j).w \in MemWidths} :
       LET m == Written(mem, Val(p), Val(i), StoreSize(Type(i).w))
           n == Term1(i).w \div Bits
       IN  /\ Derived({p, i}, IsPointer(Term1(p)), VoidType, 0, NoValue, TRUE, {})
           /\ IF Ready({p, i})
                THEN /\ mem' = m
                     /\ blob' = Stored(Term1(p), Term1(i))
                     /\ fixed' = fixed \cup Cells(Term1(p).v, n)
                     /\ stale' = stale \ Cells(Term1(p).v, n)
                ELSE Unnoticed(m, Cells(Val(p), StoreSize(Type(i).w)))
  /\ UNCHANGED <<fetches, regionVars>>

------------------------------------------------------------------------------
(* Calls of the library. *)

(* The assertions on the size of an object or of a copy. *)
Sized(e) == e.v > 0 /\ e.v < SlotLen["heap"]

SizeExcuse(v) == IF v > 0 /\ v < SlotLen["heap"] THEN {} ELSE {"size"}

(* Allocations, without an operand, with one, or with one that is their    *)
(* size: they succeed.                                                     *)
Malloc ==
  /\ Coded("malloc")
  /\ \E I \in {{}} \cup {{i} : i \in SizeRegs} : \E sizes \in SUBSET I :
       /\ Derived(I, \A i \in sizes : IsPointer(Term1(i)), PtrType, next["heap"],
                  Pointer(next["heap"]), \A i \in sizes : Sized(Term1(i)),
                  UNION {SizeExcuse(Val(i)) : i \in sizes})
       /\ IF Ready(I) THEN CreatePtr("heap") ELSE UNCHANGED regionVars
  /\ UNCHANGED <<memVars, fetches>>

(* The run fills memory with data of the user. *)
Filled(a, n, d) == [x \in Address |-> IF (x - a) % Space < n THEN d ELSE mem[x]]

FetchOf(s, i) == fetches' = fetches \cup {<<s, i>>}

(* memdup_user; the copy is written to an object SymExec has just made. *)
Duplicate ==
  /\ Coded("duplicate")
  /\ \E s \in PtrRegs, i \in SizeRegs, d \in UserData :
       /\ Val(i) <= SlotLen["heap"]
       /\ Derived({s, i}, IsPointer(Term1(i)), PtrType, next["heap"], Pointer(next["heap"]),
                  Sized(Term1(i)), SizeExcuse(Val(i)))
       /\ IF Ready({s, i}) THEN CreatePtr("heap") ELSE UNCHANGED regionVars
       /\ Unnoticed(Filled(next["heap"], Val(i), d), Cells(next["heap"], Val(i)))
       /\ FetchOf(s, i)

(* Copies return 0, and memory stays as it is. *)
CopyOf(t, s, i, sound, size) ==
  /\ t # s
  /\ \E d \in UserData, left \in {0, 1} :
       /\ Derived({t, s, i}, sound, IntType(PtrWidth), left, Pointer(0), Sized(size),
                  SizeExcuse(Val(i)) \cup (IF left = 0 THEN {} ELSE {"call"}))
       /\ Unnoticed(Filled(Val(t), Val(i), d), Cells(Val(t), Val(i)))
       /\ FetchOf(s, i)

Widened(e) == Bv(PtrWidth, e.v)

(* _copy_from_user takes a size of 64 bits; __copy_user_nocache and        *)
(* __copy_user_flushcache take one of 32 bits, and widen it.               *)
Copy ==
  /\ Coded("copy")
  /\ \E t \in Accessible, s \in PtrRegs, i \in IntRegs :
       \/ i \in SizeRegs /\ CopyOf(t, s, i, IsPointer(Term1(i)), Term1(i))
       \/ Type(i).w <= PtrWidth /\ CopyOf(t, s, i, TRUE, Widened(Term1(i)))
  /\ UNCHANGED regionVars

(* get_user: the status and the data are one and the same variable. *)
GetUser ==
  /\ Coded("get_user")
  /\ \E s \in PtrRegs, i \in SizeRegs, d \in UserData :
       /\ Derived({s, i}, IsPointer(Term1(i)), PairType, [status |-> 0, data |-> d],
                  Pointer(d), Sized(Term1(i)), SizeExcuse(Val(i)))
       /\ FetchOf(s, i)
  /\ UNCHANGED <<memVars, regionVars>>

(* Either part has the term of the whole. *)
PartTerm(e, part) == e

ExtractValue ==
  /\ Coded("extract")
  /\ \E i \in {j \in DOMAIN regs : Type(j) = PairType}, part \in {"status", "data"} :
       Computed({i}, TRUE, IntType(PtrWidth), Val(i)[part],
                PartTerm(Term1(i), part), TRUE,
                IF Val(i)["status"] = Val(i)["data"] THEN {} ELSE {"parts"})

(* strcmp, and memcmp and strncmp with a count, find no difference. *)
Compare ==
  /\ Coded("compare")
  /\ \E i, j \in PtrRegs, count \in {{}} \cup {{c} : c \in SizeRegs}, r \in {0, 1} :
       Computed({i, j} \cup count, TRUE, IntType(PtrWidth), r, Pointer(0), TRUE,
                IF r = 0 THEN {} ELSE {"call"})

(* Bound: of the lengths that fill a slot only one is taken.               *)
Lengths == 0..SlotLen["heap"]

(* strlen and llvm.objectsize: less than a slot; strnlen: not above the    *)
(* count.  The size of a member of an object is the size of its type.      *)
Length ==
  /\ Coded("length")
  /\ \/ \E i \in PtrRegs, r \in Lengths :
          Computed({i}, TRUE, IntType(PtrWidth), r, Pointer(r), r < SlotLen["heap"],
                   IF r < SlotLen["heap"] THEN {} ELSE {"size"})
     \/ \E i \in PtrRegs, c \in SizeRegs, r \in Lengths :
          /\ r <= Val(c)
          /\ Computed({i, c}, IsPointer(Term1(c)), IntType(PtrWidth), r, Pointer(r),
                      r <= Term1(c).v, {})
     \/ \E i \in PtrRegs, r \in Lengths, n \in Scales :
          Computed({i}, TRUE, IntType(PtrWidth), r, Pointer(n), TRUE,
                   IF r = n THEN {} ELSE {"call"})

Swapped(v, n) == Number([k \in 0..(n - 1) |-> Byte(v, n - 1 - k)], n, Bits)

Swap ==
  /\ Coded("swap")
  /\ \E i \in {j \in IntRegs : Type(j).w = 2 * Bits} :
       Computed({i}, (Term1(i).w \div Bits) % 2 = 0, Type(i), Swapped(Val(i), 2),
                Bv(Term1(i).w, Swapped(Term1(i).v, Term1(i).w \div Bits)), TRUE, {})

(* Calls that are ignored or unknown have no expression.  The run's call   *)
(* may return a pointer it was given, and write behind one.                *)
Ignore ==
  /\ Coded("ignore")
  /\ \/ Emit(IntType(PtrWidth), 0, Null)
     \/ \E v \in {0} \cup {Val(p) : p \in PtrRegs} : Emit(PtrType, v, Null)
  /\ \/ UNCHANGED memVars
     \/ \E p \in Accessible, n \in Lengths, d \in UserData :
          Unnoticed(Filled(Val(p), n, d), Cells(Val(p), n))
  /\ UNCHANGED <<trial, callVars, verdict, phase, flaw, regionVars>>

------------------------------------------------------------------------------
(* The end of SEGraph::symbolize, and SymExec::checkOverlap, which leaves  *)
(* the solver as it was: any one pair of fetches is looked at.             *)

EndCode ==
  /\ phase = "code" /\ flaw = "none"
  /\ Complete
  /\ held' = (held /\ Satisfied)
  /\ phase' = "check"
  /\ UNCHANGED <<trial, regs, memVars, excused, fetches, verdict, flaw>>

CheckOverlap ==
  /\ phase = "check" /\ flaw = "none" /\ verdict = <<>>
  /\ \E f, g \in fetches :
       /\ f # g
       /\ Ready({f[1], f[2], g[1], g[2]})
       /\ IF IsPointer(Term1(f[1])) /\ IsPointer(Term1(g[1]))
            THEN /\ verdict' = <<f, g, Overlap(Term1(f[1]).v, Widened(Term1(f[2])).v,
                                            Term1(g[1]).v, Widened(Term1(g[2])).v)>>
                 /\ UNCHANGED flaw
            ELSE flaw' = "assertion" /\ UNCHANGED verdict
  /\ UNCHANGED <<trial, regs, memVars, callVars, phase, regionVars>>

------------------------------------------------------------------------------
DeriveStep ==
  \/ IntLeaf \/ NullLeaf \/ ObjectLeaf \/ EndLeaves
  \/ Cast \/ CastPointer \/ Calc \/ Cmp \/ Select \/ Phi \/ Branch
  \/ Gep \/ Load \/ Store
  \/ Malloc \/ Duplicate \/ Copy \/ GetUser \/ ExtractValue
  \/ Compare \/ Length \/ Swap \/ Ignore
  \/ EndCode \/ CheckOverlap

DeriveStopped == (phase = "check" \/ flaw # "none") /\ UNCHANGED deriveVars

DeriveNext == DeriveStep \/ DeriveStopped

DeriveSpec == DeriveInit /\ [][DeriveNext]_deriveVars

------------------------------------------------------------------------------
(* The run is one that SymExec is made for. *)
Expected(reasons) == held /\ excused \cap reasons = {}

(* A term has the sort of the type and the value of the run, through every *)
(* chain of casts, operations, comparisons, selections, stores and loads   *)
(* (SEG.cpp and Libcall.cpp derive), and SymExec's memory has the content  *)
(* of the run wherever no call and no store of an unknown value went past. *)
Mirrors ==
  Expected({"call", "stale", "parts"}) =>
    /\ \A i \in DOMAIN regs :
         Type(i).w > 0 /\ Term1(i) # Null =>
           Term1(i) = [w |-> Type(i).w, v |-> Val(i)]
    /\ \A a \in Address \ stale : blob[a] = mem[a]

(* No defined run is excluded by the constraints, except where a signed    *)
(* result wraps, a size is zero or beyond a slot, a call fails, or terms   *)
(* are wrong already.  (They say nothing on the end of the regions yet.)   *)
(* And none ends in an assertion on the widths of operands, short of       *)
(* integers loaded from more addresses than their width fills, whose terms *)
(* have the width of all of them (prepareCalcOperation against loadMemory).*)
RunsAdmitted ==
  /\ phase # "check" => held \/ excused # {}
  /\ (\A w \in MemWidths : w = Bits * TypeSize(w)) => flaw = "none"

(* Two fetches are reported to overlap just when they read a common        *)
(* address: the sizes asserted with the calls leave no empty range.        *)
OverlapExact ==
  Expected({"call", "stale", "parts", "size"}) /\ verdict # <<>> =>
    LET s == Val(verdict[1][1])  l == Val(verdict[1][2])
        t == Val(verdict[2][1])  m == Val(verdict[2][2])
    IN  s + l < Space /\ t + m < Space =>
          verdict[3] = (Cells(s, l) \cap Cells(t, m) # {})

=============================================================================
