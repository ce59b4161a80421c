-------------------------- MODULE LowerSwitchProofs --------------------------
(***************************************************************************)
(* Proofs about LowerSwitch, for values of any width, any cases and any    *)
(* blocks.                                                                 *)
(***************************************************************************)
EXTENDS LowerSwitch, FiniteSetTheorems, FunctionTheorems, TLAPS

------------------------------------------------------------------------------
(* The comparison of a leaf. *)

LEMMA UnsignedMeans ==
  ASSUME NEW v \in Int, -(2 * Half) <= v, v < 2 * Half
  PROVE  Unsigned(v) = IF 0 <= v THEN v ELSE v + 2 * Half
<1>. DEFINE N == 2 * Half
<1>1. N \in Nat \ {0}
  BY SwitchConstants
<1>. HIDE DEF N
<1>2. \A x \in 0..(N - 1) : x % N = x
  BY <1>1
<1>3. \A x \in (-N)..(-1) : x % N = x + N
  BY <1>1
<1>. QED
  BY <1>1, <1>2, <1>3 DEF Unsigned, N

(* A leaf decides whether the value is in its range.                       *)
LEMMA CompareMeans ==
  ASSUME NEW r, r.low \in Values, r.high \in Values, r.low <= r.high, NEW v \in Values
  PROVE  Compare(r, v) <=> v \in r.low .. r.high
<1>1. Half \in Nat \ {0}
  BY SwitchConstants
<1>2. /\ v \in Int /\ -Half <= v /\ v < Half
      /\ r.low \in Int /\ -Half <= r.low /\ r.low < Half
      /\ r.high \in Int /\ -Half <= r.high /\ r.high < Half
  BY <1>1 DEF Values
<1>. DEFINE off == v - r.low
            len == r.high - r.low
<1>3. Unsigned(off) = (IF 0 <= off THEN off ELSE off + 2 * Half) /\ Unsigned(len) = len
  BY <1>1, <1>2, UnsignedMeans
<1>4. Unsigned(v) = (IF 0 <= v THEN v ELSE v + 2 * Half)
      /\ (r.low = 0 => Unsigned(r.high) = r.high)
  BY <1>1, <1>2, UnsignedMeans
<1>5. CASE r.low = r.high
  BY <1>2, <1>5 DEF Compare
<1>6. CASE r.low # r.high /\ r.low = -Half
  BY <1>1, <1>2, <1>6 DEF Compare
<1>7. CASE r.low # r.high /\ r.low # -Half /\ r.low = 0
  BY <1>1, <1>2, <1>4, <1>7 DEF Compare
<1>8. CASE r.low # r.high /\ r.low # -Half /\ r.low # 0
  BY <1>1, <1>2, <1>3, <1>8 DEF Compare
<1>. QED
  BY <1>5, <1>6, <1>7, <1>8

------------------------------------------------------------------------------
(* The ranges. *)

In(v, r) == v \in r.low .. r.high

(* Ranges hold cases of one destination and lie apart, and every case is   *)
(* in one, unless it goes to the destination that became the default.      *)
RangesKnown ==
  /\ \A r \in ranges : /\ r \in [low : Values, high : Values, to : Blocks]
                       /\ r.low <= r.high
                       /\ \A v \in r.low .. r.high : cases[v] = r.to
  /\ \A r, s \in ranges : r # s => r.high < s.low \/ s.high < r.low
  /\ pc # "switch" =>
       \A v \in Cased :
         \/ \E r \in ranges : In(v, r)
         \/ dead /\ cases[v] = default /\ pc # "clusters"

(* The bounds hold for all values that may occur.                          *)
Within(v, lo, hi) == (lo # None => lo <= v) /\ (hi # None => v <= hi)

BoundsKnown ==
  /\ ~dead => default = Default
  /\ lower \in Values \union {None} /\ upper \in Values \union {None}
  /\ \A v \in Occurring : Within(v, lower, upper)

TypeKnown ==
  /\ cases \in [Values -> Blocks \union {None}] /\ dead \in BOOLEAN
  /\ pc \in {"switch", "clusters", "fitted", "convert", "done", "branch"}
  /\ pc = "switch" => ranges = {}
  /\ pc = "branch" => ranges = {}
  /\ pc \notin {"convert", "done"} => calls = {} /\ DOMAIN tree = {}

------------------------------------------------------------------------------
(* The tree. *)

Names == calls \union DOMAIN tree

Named(c) ==
  /\ c = Call(c.of, c.lo, c.hi)
  /\ c.of # {} /\ c.of \subseteq ranges
  /\ c.lo \in Values \union {None} /\ c.hi \in Values \union {None}

(* What the comparison of a block says about the halves.                   *)
Parted(c, block) ==
  /\ block.pivot \in Values
  /\ block.left \in Names /\ block.right \in Names
  /\ c.of = block.left.of \union block.right.of
  /\ \A r \in block.left.of : r.high < block.pivot
  /\ \A r \in block.right.of : block.pivot <= r.low
  /\ block.right.lo = block.pivot /\ block.right.hi = c.hi
  /\ block.left.lo = c.lo
  /\ \A v \in Occurring : v < block.pivot => Within(v, None, block.left.hi)

Leaf(c, block) ==
  /\ c.of = {block.range}
  /\ block.at = "jump" => block.range.low = c.lo /\ block.range.high = c.hi

TreeKnown ==
  /\ pc \in {"convert", "done"} => Root \in Names
  /\ pc = "done" => calls = {}
  /\ \A c \in Names : Named(c)
  /\ \A c \in DOMAIN tree :
       /\ tree[c].at \in {"node", "leaf", "jump"}
       /\ tree[c].at = "node" => Parted(c, tree[c])
       /\ tree[c].at # "node" => Leaf(c, tree[c])

(* Calls to be made and leaves share no range, and no block is made twice. *)
Disjoint(c, d) == c.of \intersect d.of = {}

PartsKnown ==
  /\ \A c, d \in calls \union Ends : c # d => Disjoint(c, d)
  /\ \A c \in calls, d \in DOMAIN tree :
       Disjoint(c, d) \/ (c.of \subseteq d.of /\ c.of # d.of)
  /\ pc \in {"convert", "done"} =>
       \A r \in ranges : \E c \in calls \union Ends : r \in c.of

LowerInv == TypeKnown /\ RangesKnown /\ BoundsKnown /\ TreeKnown /\ PartsKnown

LEMMA LeastExists ==
  ASSUME NEW S \in SUBSET Nat, S # {}
  PROVE  \E m \in S : \A k \in S : m <= k
<1>. DEFINE R == StrictSubsetOrdering(Nat)
            T == {0..k : k \in S}
<1>1. IsWellFoundedOn(R, FiniteSubsetsOf(Nat))
  BY FS_StrictSubsetOrderingWellFounded
<1>2. T \subseteq FiniteSubsetsOf(Nat) /\ T # {}
  <2>1. ASSUME NEW k \in S
        PROVE  0..k \in FiniteSubsetsOf(Nat)
    BY FS_Interval DEF FiniteSubsetsOf
  <2>. QED
    BY <2>1
<1>3. PICK x \in T : \A y \in T : ~(<<y, x>> \in R)
  <2>. HIDE DEF R, T
  <2>. QED
    BY <1>1, <1>2, WFMin
<1>4. PICK m \in S : x = 0..m
  OBVIOUS
<1>5. ASSUME NEW k \in S, k < m
      PROVE  FALSE
  <2>1. 0..k \subseteq 0..m /\ m \in 0..m /\ m \notin 0..k
    BY <1>5
  <2>2. 0..k \in SUBSET Nat /\ 0..m \in SUBSET Nat
    OBVIOUS
  <2>3. <<0..k, 0..m>> \in R
    BY <2>1, <2>2 DEF StrictSubsetOrdering
  <2>. QED
    BY <1>3, <1>4, <2>3
<1>. QED
  BY <1>5

------------------------------------------------------------------------------
(* Every step keeps the invariant. *)

LEMMA ValuesAreInts == Values \subseteq Int /\ \A v \in Int : v \in Values <=> -Half <= v /\ v < Half
BY SwitchConstants DEF Values

(* Every case lies in a range that cannot be extended.                     *)
LEMMA InSomeRange ==
  ASSUME TypeKnown, NEW v \in Cased
  PROVE  \E r \in [low : Values, high : Values, to : Blocks] : IsRange(r) /\ In(v, r)
<1>. DEFINE Same(a, b) == \A u \in a..b : cases[u] = cases[v]
            lows == {l \in Values : l <= v /\ Same(l, v)}
            highs == {h \in Values : v <= h /\ Same(v, h)}
<1>1. v \in Values /\ v \in Int /\ cases[v] \in Blocks
  BY ValuesAreInts DEF TypeKnown, Cased
<1>2. v \in lows /\ v \in highs
  BY <1>1
<1>3. PICK l \in lows : \A k \in lows : l <= k
  <2>. DEFINE S == {n \in Nat : n - Half \in lows}
  <2>1. v + Half \in S
    BY <1>1, <1>2, ValuesAreInts, SwitchConstants
  <2>2. PICK m \in S : \A k \in S : m <= k
    <3>. HIDE DEF S
    <3>. QED
      BY <2>1, LeastExists DEF S
  <2>3. ASSUME NEW k \in lows
        PROVE  m - Half <= k
    <3>1. k + Half \in S
      BY ValuesAreInts, SwitchConstants
    <3>2. m <= k + Half
      BY <2>2, <3>1
    <3>. QED
      BY <3>2, ValuesAreInts, SwitchConstants
  <2>. QED
    BY <2>2, <2>3
<1>4. PICK h \in highs : \A k \in highs : k <= h
  <2>. DEFINE S == {n \in Nat : Half - n \in highs}
  <2>1. Half - v \in S
    BY <1>1, <1>2, ValuesAreInts, SwitchConstants
  <2>2. PICK m \in S : \A k \in S : m <= k
    <3>. HIDE DEF S
    <3>. QED
      BY <2>1, LeastExists DEF S
  <2>3. ASSUME NEW k \in highs
        PROVE  k <= Half - m
    <3>1. Half - k \in S
      BY ValuesAreInts, SwitchConstants
    <3>2. m <= Half - k
      BY <2>2, <3>1
    <3>. QED
      BY <3>2, ValuesAreInts, SwitchConstants
  <2>. QED
    BY <2>2, <2>3
<1>5. l \in Int /\ h \in Int /\ l <= v /\ v <= h /\ l \in Values /\ h \in Values
  BY ValuesAreInts
<1>6. \A u \in l..h : cases[u] = cases[v]
  <2>1. ASSUME NEW u \in l..h
        PROVE  u \in l..v \/ u \in v..h
    BY <1>1, <1>5
  <2>. QED
    BY <2>1
<1>7. ASSUME l - 1 \in Values
      PROVE  cases[l - 1] # cases[v]
  <2>1. ASSUME cases[l - 1] = cases[v]
        PROVE  l - 1 \in lows
    <3>1. \A u \in (l - 1)..v : u = l - 1 \/ u \in l..v
      BY <1>1, <1>5
    <3>. QED
      BY <1>1, <1>5, <1>7, <2>1, <3>1
  <2>. QED
    BY <1>3, <1>5, <2>1
<1>8. ASSUME h + 1 \in Values
      PROVE  cases[h + 1] # cases[v]
  <2>1. ASSUME cases[h + 1] = cases[v]
        PROVE  h + 1 \in highs
    <3>1. \A u \in v..(h + 1) : u = h + 1 \/ u \in v..h
      BY <1>1, <1>5
    <3>. QED
      BY <1>1, <1>5, <1>8, <2>1, <3>1
  <2>. QED
    BY <1>4, <1>5, <2>1
<1>. DEFINE r == [low |-> l, high |-> h, to |-> cases[v]]
<1>9. r \in [low : Values, high : Values, to : Blocks] /\ In(v, r)
  BY <1>1, <1>5 DEF In
<1>10. \A u \in {l - 1, h + 1} \intersect Values : cases[u] # cases[v]
  BY <1>7, <1>8
<1>11. r.low = l /\ r.high = h /\ r.to = cases[v]
  OBVIOUS
<1>12. IsRange(r)
  <2>. HIDE DEF r
  <2>. QED
    BY <1>1, <1>5, <1>6, <1>10, <1>11 DEF IsRange
<1>. QED
  BY <1>9, <1>12

(* Ranges that cannot be extended lie apart.                               *)
LEMMA MaximalApart ==
  ASSUME NEW r \in [low : Values, high : Values, to : Blocks], IsRange(r),
         NEW s \in [low : Values, high : Values, to : Blocks], IsRange(s),
         r # s
  PROVE  r.high < s.low \/ s.high < r.low
<1>. SUFFICES ASSUME ~(r.high < s.low), ~(s.high < r.low)
              PROVE  FALSE
  OBVIOUS
<1>1. /\ r.low \in Int /\ r.high \in Int /\ s.low \in Int /\ s.high \in Int
      /\ r.low <= r.high /\ s.low <= s.high /\ s.low <= r.high /\ r.low <= s.high
  <2>1. /\ r.low \in Int /\ r.high \in Int /\ s.low \in Int /\ s.high \in Int
    BY ValuesAreInts
  <2>. QED
    BY <2>1 DEF IsRange
<1>2. /\ \A v \in r.low .. r.high : cases[v] = r.to
      /\ \A v \in s.low .. s.high : cases[v] = s.to
      /\ \A v \in {r.low - 1, r.high + 1} \intersect Values : cases[v] # r.to
      /\ \A v \in {s.low - 1, s.high + 1} \intersect Values : cases[v] # s.to
  BY DEF IsRange
<1>3. r.to = s.to
  <2>1. r.low \in s.low .. s.high \/ s.low \in r.low .. r.high
    BY <1>1
  <2>2. r.low \in r.low .. r.high /\ s.low \in s.low .. s.high
    BY <1>1
  <2>. QED
    BY <1>2, <2>1, <2>2
<1>4. \A v, a, b \in Int : a \in Values /\ b \in Values /\ a <= v /\ v <= b => v \in Values
  BY ValuesAreInts, SwitchConstants
<1>5. ~(r.low < s.low)
  <2>1. r.low < s.low => s.low - 1 \in Int /\ s.low - 1 \in r.low .. r.high /\ s.low - 1 <= r.high
    BY <1>1
  <2>. QED
    BY <1>1, <1>2, <1>3, <1>4, <2>1
<1>6. ~(s.low < r.low)
  <2>1. s.low < r.low => r.low - 1 \in Int /\ r.low - 1 \in s.low .. s.high /\ r.low - 1 <= s.high
    BY <1>1
  <2>. QED
    BY <1>1, <1>2, <1>3, <1>4, <2>1
<1>7. ~(r.high < s.high)
  <2>1. r.high < s.high => r.high + 1 \in Int /\ r.high + 1 \in s.low .. s.high /\ r.low <= r.high + 1
    BY <1>1
  <2>. QED
    BY <1>1, <1>2, <1>3, <1>4, <2>1
<1>8. ~(s.high < r.high)
  <2>1. s.high < r.high => s.high + 1 \in Int /\ s.high + 1 \in r.low .. r.high /\ s.low <= s.high + 1
    BY <1>1
  <2>. QED
    BY <1>1, <1>2, <1>3, <1>4, <2>1
<1>9. r.low = s.low /\ r.high = s.high
  BY <1>1, <1>5, <1>6, <1>7, <1>8
<1>. QED
  BY <1>3, <1>9

LEMMA InitKeeps == LowerInit => LowerInv
<1>. SUFFICES ASSUME LowerInit
              PROVE  LowerInv
  OBVIOUS
<1>1. DOMAIN tree = {} /\ calls = {}
  BY DEF LowerInit
<1>2. TypeKnown /\ RangesKnown
  BY <1>1, SwitchConstants DEF TypeKnown, RangesKnown, LowerInit
<1>3. BoundsKnown
  BY DEF BoundsKnown, Within, LowerInit
<1>4. TreeKnown /\ PartsKnown
  BY <1>1 DEF TreeKnown, PartsKnown, Names, Ends, LowerInit
<1>. QED
  BY <1>2, <1>3, <1>4 DEF LowerInv

LEMMA ClusterifyKeeps == LowerInv /\ Clusterify => LowerInv'
<1>. SUFFICES ASSUME LowerInv, Clusterify
              PROVE  LowerInv'
  OBVIOUS
<1>. USE DEF LowerInv
<1>1. TypeKnown'
  BY DEF TypeKnown, Clusterify
<1>2. BoundsKnown'
  BY DEF BoundsKnown, Clusterify, Occurring, Cased
<1>3. calls' = {} /\ DOMAIN tree' = {}
  BY DEF TypeKnown, Clusterify
<1>4. TreeKnown' /\ PartsKnown'
  BY <1>3 DEF TreeKnown, PartsKnown, Names, Ends, Clusterify
<1>5. ASSUME NEW r \in ranges', NEW s \in ranges', r # s
      PROVE  r.high < s.low \/ s.high < r.low
  BY <1>5, MaximalApart DEF Clusterify
<1>6. ASSUME NEW v \in Cased'
      PROVE  \E r \in ranges' : In(v, r)
  BY InSomeRange DEF Clusterify, Cased
<1>7. \A r \in ranges' : /\ r \in [low : Values, high : Values, to : Blocks]
                         /\ r.low <= r.high
                         /\ \A v \in r.low .. r.high : cases'[v] = r.to
  BY DEF Clusterify, IsRange
<1>8. RangesKnown'
  <2>1. \A r, s \in ranges' : r # s => r.high < s.low \/ s.high < r.low
    BY <1>5
  <2>. QED
    BY <1>6, <1>7, <2>1 DEF RangesKnown
<1>. QED
  BY <1>1, <1>2, <1>4, <1>8

LEMMA FitKeeps == LowerInv /\ Fit => LowerInv'
<1>. SUFFICES ASSUME LowerInv, Fit
              PROVE  LowerInv'
  OBVIOUS
<1>. USE DEF LowerInv
<1>1. calls' = {} /\ DOMAIN tree' = {} /\ pc' = "fitted" /\ pc = "clusters"
  BY DEF TypeKnown, Fit
<1>2. TreeKnown' /\ PartsKnown'
  BY <1>1 DEF TreeKnown, PartsKnown, Names, Ends
<1>3. TypeKnown'
  BY <1>1 DEF TypeKnown, Fit
<1>4. ranges' \subseteq ranges /\ cases' = cases /\ dead' = dead /\ Cased' = Cased
  BY DEF Fit, Cased
<1>5. ASSUME NEW v \in Cased
      PROVE  (\E r \in ranges' : In(v, r)) \/ (dead /\ cases[v] = default')
  <2>1. PICK r \in ranges : In(v, r)
    BY <1>1 DEF RangesKnown
  <2>2. cases[v] = r.to
    BY <2>1 DEF RangesKnown, In
  <2>. QED
    BY <2>1, <2>2 DEF Fit
<1>6. RangesKnown'
  <2>1. /\ \A r \in ranges' : /\ r \in [low : Values, high : Values, to : Blocks]
                              /\ r.low <= r.high
                              /\ \A v \in r.low .. r.high : cases[v] = r.to
        /\ \A r, s \in ranges' : r # s => r.high < s.low \/ s.high < r.low
    BY <1>4 DEF RangesKnown
  <2>2. \A v \in Cased' : (\E r \in ranges' : In(v, r)) \/ (dead' /\ cases'[v] = default')
    BY <1>4, <1>5
  <2>. QED
    BY <1>1, <1>4, <2>1, <2>2 DEF RangesKnown
<1>7. BoundsKnown'
  <2>1. CASE ~dead
    BY <1>4, <2>1 DEF BoundsKnown, Fit, Occurring
  <2>2. CASE dead
    <3>1. PICK p \in ranges, q \in ranges :
            /\ IsFirst(p, ranges) /\ lower' = p.low
            /\ IsLast(q, ranges) /\ upper' = q.high
      BY <2>2 DEF Fit
    <3>2. lower' \in Values /\ upper' \in Values
      BY <3>1 DEF RangesKnown
    <3>3. ASSUME NEW v \in Cased
          PROVE  lower' <= v /\ v <= upper'
      <4>1. PICK r \in ranges : In(v, r)
        BY <1>1 DEF RangesKnown
      <4>2. /\ r.low \in Int /\ r.high \in Int /\ v \in Int
            /\ p.low \in Int /\ q.low \in Int /\ q.high \in Int
            /\ q.low <= q.high
        BY ValuesAreInts DEF RangesKnown, Cased
      <4>3. r.low <= v /\ v <= r.high
        BY <4>1, <4>2 DEF In
      <4>4. p.low <= r.low /\ r.low <= q.low
        BY <3>1 DEF IsFirst, IsLast
      <4>5. r = q \/ r.high < q.low \/ q.high < r.low
        BY DEF RangesKnown
      <4>. QED
        BY <3>1, <4>2, <4>3, <4>4, <4>5
    <3>. QED
      BY <1>4, <2>2, <3>2, <3>3 DEF BoundsKnown, Within, Occurring
  <2>. QED
    BY <2>1, <2>2 DEF TypeKnown
<1>. QED
  BY <1>2, <1>3, <1>6, <1>7

LEMMA BranchKeeps == LowerInv /\ JustBranch => LowerInv'
<1>. SUFFICES ASSUME LowerInv, JustBranch
              PROVE  LowerInv'
  OBVIOUS
<1>. USE DEF LowerInv
<1>1. /\ pc' = "branch" /\ ranges' = {} /\ calls' = {} /\ DOMAIN tree' = {}
      /\ cases' = cases /\ dead' = dead /\ default' = default
      /\ lower' = lower /\ upper' = upper /\ pc \notin {"convert", "done", "clusters"}
      /\ pc = "switch" => Cased = {}
      /\ ranges = {}
  BY DEF TypeKnown, JustBranch
<1>2. TreeKnown' /\ PartsKnown'
  BY <1>1 DEF TreeKnown, PartsKnown, Names, Ends
<1>3. TypeKnown'
  BY <1>1 DEF TypeKnown
<1>4. BoundsKnown'
  BY <1>1 DEF BoundsKnown, Occurring, Cased
<1>5. Cased' = Cased
  BY <1>1 DEF Cased
<1>6. \A v \in Cased : dead /\ cases[v] = default
  BY <1>1 DEF RangesKnown, JustBranch
<1>7. RangesKnown'
  BY <1>1, <1>5, <1>6 DEF RangesKnown
<1>. QED
  BY <1>2, <1>3, <1>4, <1>7

LEMMA SwitchConvertKeeps == LowerInv /\ SwitchConvert => LowerInv'
<1>. SUFFICES ASSUME LowerInv, SwitchConvert
              PROVE  LowerInv'
  OBVIOUS
<1>. USE DEF LowerInv
<1>1. /\ pc' = "convert" /\ pc = "fitted" /\ ranges # {} /\ calls' = {Root} /\ DOMAIN tree' = {}
      /\ UNCHANGED <<cases, dead, ranges, lower, upper, default, tree>>
  BY DEF TypeKnown, SwitchConvert
<1>2. Root' = Root /\ Names' = {Root} /\ Ends' = {} /\ Cased' = Cased
  BY <1>1 DEF Root, Names, Ends, Cased
<1>3. Named(Root)'
  BY <1>1 DEF Named, Root, Call, BoundsKnown
<1>4. TreeKnown' /\ PartsKnown'
  <2>1. Root.of = ranges
    BY DEF Root, Call
  <2>. QED
    BY <1>1, <1>2, <1>3, <2>1 DEF TreeKnown, PartsKnown
<1>5. TypeKnown'
  BY <1>1 DEF TypeKnown
<1>6. BoundsKnown'
  BY <1>1 DEF BoundsKnown, Occurring, Cased
<1>7. RangesKnown'
  BY <1>1, <1>2 DEF RangesKnown
<1>. QED
  BY <1>4, <1>5, <1>6, <1>7

LEMMA MadeFacts ==
  ASSUME NEW c, NEW block, tree' = Made(c, block)
  PROVE  /\ DOMAIN tree' = DOMAIN tree \union {c}
         /\ tree'[c] = block
         /\ \A d \in DOMAIN tree : d # c => tree'[d] = tree[d]
BY DEF Made

LEMMA SizesKept ==
  ASSUME TypeKnown, RangesKnown, BoundsKnown,
         UNCHANGED <<cases, dead, ranges, lower, upper, default>>,
         pc' \in {"convert", "done"}, pc # "switch", pc # "clusters"
  PROVE  TypeKnown' /\ RangesKnown' /\ BoundsKnown' /\ Root' = Root /\ Occurring' = Occurring
<1>1. TypeKnown'
  BY DEF TypeKnown
<1>2. Cased' = Cased
  BY DEF Cased
<1>3. RangesKnown'
  BY <1>2 DEF RangesKnown
<1>4. BoundsKnown'
  BY <1>2 DEF BoundsKnown, Occurring
<1>. QED
  BY <1>1, <1>2, <1>3, <1>4 DEF Root, Occurring

(* The bound of the lower half holds for the values that go there.         *)
LEMMA BoundHolds ==
  ASSUME RangesKnown, NEW l \in ranges, NEW p \in ranges, l.high < p.low
  PROVE  /\ Bound(l, p) \in Values
         /\ \A v \in Occurring : v < p.low => v <= Bound(l, p)
<1>. DEFINE gap == (l.high + 1) .. (p.low - 1)
<1>1. /\ l.high \in Values /\ p.low \in Values /\ l.high \in Int /\ p.low \in Int
  BY ValuesAreInts DEF RangesKnown
<1>2. Occurring \subseteq Values /\ Values \subseteq Int
  BY ValuesAreInts DEF Occurring, Cased
<1>3. p.low - 1 \in Values
  BY <1>1, ValuesAreInts, SwitchConstants
<1>4. CASE gap # {} /\ Gap(gap)
  <2>1. Bound(l, p) = l.high
    BY <1>4 DEF Bound
  <2>2. ASSUME NEW v \in Occurring, v < p.low, l.high < v
        PROVE  FALSE
    <3>1. v \in gap
      BY <1>1, <1>2, <2>2
    <3>2. v \in Cased
      BY <1>4 DEF Gap, Occurring
    <3>. QED
      BY <1>4, <3>1, <3>2 DEF Gap
  <2>. QED
    BY <1>1, <1>2, <2>1, <2>2
<1>5. CASE ~(gap # {} /\ Gap(gap))
  <2>1. Bound(l, p) = p.low - 1
    BY <1>5 DEF Bound
  <2>. QED
    BY <1>1, <1>2, <1>3, <2>1
<1>. QED
  BY <1>4, <1>5

LEMMA HalveKeeps ==
  ASSUME LowerInv, NEW c \in calls, Halve(c)
  PROVE  LowerInv'
<1>. USE DEF LowerInv
<1>1. PICK rs \in SUBSET c.of :
        /\ Below(rs, c.of \ rs)
        /\ \E l \in rs, p \in c.of \ rs :
             /\ IsLast(l, rs) /\ IsFirst(p, c.of \ rs)
             /\ LET left == Call(rs, c.lo, Bound(l, p))
                    right == Call(c.of \ rs, p.low, c.hi)
                IN /\ tree' = Made(c, [at |-> "node", pivot |-> p.low,
                                       left |-> left, right |-> right])
                   /\ calls' = (calls \ {c}) \union {left, right}
  BY DEF Halve
<1>. DEFINE ss == c.of \ rs
<1>2. PICK l \in rs, p \in ss :
        /\ IsLast(l, rs) /\ IsFirst(p, ss)
        /\ tree' = Made(c, [at |-> "node", pivot |-> p.low,
                            left |-> Call(rs, c.lo, Bound(l, p)),
                            right |-> Call(ss, p.low, c.hi)])
        /\ calls' = (calls \ {c}) \union {Call(rs, c.lo, Bound(l, p)), Call(ss, p.low, c.hi)}
  BY <1>1
<1>0. PICK left, right, block :
        /\ left = Call(rs, c.lo, Bound(l, p)) /\ right = Call(ss, p.low, c.hi)
        /\ block = [at |-> "node", pivot |-> p.low, left |-> left, right |-> right]
  OBVIOUS
<1>3. /\ UNCHANGED <<cases, dead, ranges, lower, upper, default, pc>>
      /\ pc = "convert"
  BY DEF Halve, TypeKnown, TreeKnown
<1>4. /\ TypeKnown' /\ RangesKnown' /\ BoundsKnown' /\ Root' = Root /\ Occurring' = Occurring
  BY <1>3, SizesKept
<1>5. /\ DOMAIN tree' = DOMAIN tree \union {c} /\ tree'[c] = block
      /\ \A d \in DOMAIN tree : d # c => tree'[d] = tree[d]
  BY <1>0, <1>2, MadeFacts
<1>6. /\ left.of = rs /\ left.lo = c.lo /\ left.hi = Bound(l, p)
      /\ right.of = ss /\ right.lo = p.low /\ right.hi = c.hi
      /\ block.at = "node" /\ block.pivot = p.low /\ block.left = left /\ block.right = right
  BY <1>0 DEF Call
<1>7. /\ Named(c) /\ c \in Names
  BY DEF TreeKnown, Names
<1>8. /\ p \in ranges /\ l \in ranges /\ l.high < p.low /\ p.low \in Values
      /\ Bound(l, p) \in Values
      /\ \A v \in Occurring : v < p.low => v <= Bound(l, p)
  <2>1. p \in ranges /\ l \in ranges /\ l.high < p.low
    BY <1>1, <1>7 DEF Named, Below
  <2>. QED
    BY <2>1, BoundHolds DEF RangesKnown
<1>9. calls' = (calls \ {c}) \union {left, right}
  BY <1>0, <1>2
<1>10. Names' = Names \union {left, right}
  BY <1>5, <1>9 DEF Names
<1>11. \A d \in calls, e \in DOMAIN tree : d # e
  BY <1>7 DEF PartsKnown, TreeKnown, Names, Named, Disjoint
<1>12. Ends' = Ends
  BY <1>5, <1>6, <1>11 DEF Ends
<1>13. Named(left)' /\ Named(right)'
  <2>1. left = Call(left.of, left.lo, left.hi) /\ right = Call(right.of, right.lo, right.hi)
    BY <1>0 DEF Call
  <2>. QED
    BY <1>2, <1>3, <1>6, <1>7, <1>8, <2>1 DEF Named
<1>14. Parted(c, block)'
  <2>1. \A r \in rs : r.high < p.low
    BY <1>1, <1>2 DEF Below
  <2>2. \A r \in ss : p.low <= r.low
    BY <1>2 DEF IsFirst
  <2>3. \A v \in Occurring : v < p.low => Within(v, None, left.hi)
    BY <1>6, <1>8 DEF Within
  <2>4. c.of = rs \union ss
    OBVIOUS
  <2>. QED
    BY <1>4, <1>6, <1>8, <1>10, <2>1, <2>2, <2>3, <2>4 DEF Parted
<1>15. TreeKnown'
  <2>1. \A d \in Names' : Named(d)'
    <3>1. \A d \in Names : Named(d)'
      BY <1>3 DEF TreeKnown, Named
    <3>. QED
      BY <1>10, <1>13, <3>1
  <2>2. ASSUME NEW d \in DOMAIN tree', d # c
        PROVE  /\ tree'[d].at \in {"node", "leaf", "jump"}
               /\ tree'[d].at = "node" => Parted(d, tree[d])'
               /\ tree'[d].at # "node" => Leaf(d, tree[d])'
    <3>1. d \in DOMAIN tree /\ tree'[d] = tree[d]
      BY <1>5, <2>2
    <3>2. Parted(d, tree[d]) => Parted(d, tree[d])'
      BY <1>4, <1>10, <3>1 DEF Parted
    <3>3. Leaf(d, tree[d]) => Leaf(d, tree[d])'
      BY <3>1 DEF Leaf
    <3>. QED
      BY <3>1, <3>2, <3>3 DEF TreeKnown
  <2>3. tree'[c].at = "node" /\ Parted(c, tree[c])'
    BY <1>5, <1>6, <1>14
  <2>. QED
    BY <1>3, <1>4, <1>10, <2>1, <2>2, <2>3 DEF TreeKnown
<1>16. PartsKnown'
  <2>1. /\ rs # {} /\ ss # {} /\ rs \subseteq c.of /\ ss \subseteq c.of
        /\ rs \intersect ss = {} /\ rs \union ss = c.of
    OBVIOUS
  <2>2. \A d, e \in calls' \union Ends' : d # e => Disjoint(d, e)
    <3>. DEFINE others == (calls \union Ends) \ {c}
    <3>1. c \notin Ends /\ calls' \union Ends' = others \union {left, right}
      BY <1>9, <1>11, <1>12 DEF Ends
    <3>2. \A d, e \in others : d # e => Disjoint(d, e)
      BY DEF PartsKnown
    <3>3. \A d \in others : Disjoint(d, c)
      BY DEF PartsKnown
    <3>4. /\ \A d \in others : Disjoint(d, left) /\ Disjoint(d, right)
                               /\ Disjoint(left, d) /\ Disjoint(right, d)
          /\ Disjoint(left, right) /\ Disjoint(right, left)
      BY <1>6, <2>1, <3>3 DEF Disjoint
    <3>. HIDE DEF others
    <3>. QED
      BY <3>1, <3>2, <3>4
  <2>3. \A d \in calls', e \in DOMAIN tree' :
          Disjoint(d, e) \/ (d.of \subseteq e.of /\ d.of # e.of)
    <3>1. ASSUME NEW d \in calls, d # c
          PROVE  Disjoint(d, c)
      BY <3>1 DEF PartsKnown
    <3>2. ASSUME NEW e \in DOMAIN tree
          PROVE  /\ Disjoint(left, e) \/ (left.of \subseteq e.of /\ left.of # e.of)
                 /\ Disjoint(right, e) \/ (right.of \subseteq e.of /\ right.of # e.of)
      <4>1. Disjoint(c, e) \/ (c.of \subseteq e.of /\ c.of # e.of)
        BY DEF PartsKnown
      <4>. QED
        BY <1>6, <2>1, <4>1 DEF Disjoint
    <3>3. left.of \subseteq c.of /\ left.of # c.of /\ right.of \subseteq c.of /\ right.of # c.of
      BY <1>6, <2>1
    <3>. QED
      BY <1>5, <1>9, <3>1, <3>2, <3>3 DEF PartsKnown
  <2>4. \A r \in ranges' : \E d \in calls' \union Ends' : r \in d.of
    <3>1. ASSUME NEW r \in ranges
          PROVE  \E d \in calls' \union Ends' : r \in d.of
      <4>1. PICK d \in calls \union Ends : r \in d.of
        BY <1>3 DEF PartsKnown
      <4>. QED
        BY <1>6, <1>9, <1>12, <2>1, <4>1
    <3>. QED
      BY <1>3, <3>1
  <2>. QED
    BY <2>2, <2>3, <2>4 DEF PartsKnown, Disjoint
<1>. QED
  BY <1>4, <1>15, <1>16

LEMMA MakeLeafKeeps ==
  ASSUME LowerInv, NEW c \in calls, MakeLeaf(c)
  PROVE  LowerInv'
<1>. USE DEF LowerInv
<1>0. PICK r \in c.of :
        /\ c.of = {r}
        /\ tree' = Made(c, [at |-> IF Squeezed(r, c.lo, c.hi) THEN "jump" ELSE "leaf",
                            range |-> r])
  BY DEF MakeLeaf
<1>1. PICK block :
        /\ c.of = {r}
        /\ block = [at |-> IF Squeezed(r, c.lo, c.hi) THEN "jump" ELSE "leaf", range |-> r]
        /\ tree' = Made(c, block)
  BY <1>0
<1>2. /\ UNCHANGED <<cases, dead, ranges, lower, upper, default>>
      /\ pc = "convert" /\ pc' \in {"convert", "done"} /\ (pc' = "done" => calls' = {})
      /\ calls' = calls \ {c}
  BY DEF MakeLeaf, TypeKnown, TreeKnown
<1>3. /\ TypeKnown' /\ RangesKnown' /\ BoundsKnown' /\ Root' = Root /\ Occurring' = Occurring
  BY <1>2, SizesKept
<1>4. /\ DOMAIN tree' = DOMAIN tree \union {c} /\ tree'[c] = block
      /\ \A d \in DOMAIN tree : d # c => tree'[d] = tree[d]
  BY <1>1, MadeFacts
<1>5. Named(c) /\ Names' = Names
  BY <1>2, <1>4 DEF TreeKnown, Names
<1>6. \A d \in calls, e \in DOMAIN tree : d # e
  BY DEF PartsKnown, TreeKnown, Names, Named, Disjoint
<1>7. Leaf(c, block) /\ block.at \in {"leaf", "jump"}
  BY <1>1 DEF Leaf, Squeezed
<1>8. Ends' = Ends \union {c} /\ c \notin Ends
  BY <1>4, <1>6, <1>7 DEF Ends
<1>9. TreeKnown'
  <2>1. \A d \in Names' : Named(d)'
    BY <1>2, <1>5 DEF TreeKnown, Named
  <2>2. ASSUME NEW d \in DOMAIN tree', d # c
        PROVE  /\ tree'[d].at \in {"node", "leaf", "jump"}
               /\ tree'[d].at = "node" => Parted(d, tree[d])'
               /\ tree'[d].at # "node" => Leaf(d, tree[d])'
    <3>1. d \in DOMAIN tree /\ tree'[d] = tree[d]
      BY <1>4, <2>2
    <3>2. Parted(d, tree[d]) => Parted(d, tree[d])'
      BY <1>3, <1>5, <3>1 DEF Parted
    <3>3. Leaf(d, tree[d]) => Leaf(d, tree[d])'
      BY <3>1 DEF Leaf
    <3>. QED
      BY <3>1, <3>2, <3>3 DEF TreeKnown
  <2>3. tree'[c].at \in {"leaf", "jump"} /\ Leaf(c, tree[c])'
    BY <1>4, <1>7 DEF Leaf
  <2>. QED
    BY <1>2, <1>3, <1>5, <2>1, <2>2, <2>3 DEF TreeKnown
<1>10. PartsKnown'
  <2>1. calls' \union Ends' = calls \union Ends
    BY <1>2, <1>8
  <2>2. \A d \in calls', e \in DOMAIN tree' :
          Disjoint(d, e) \/ (d.of \subseteq e.of /\ d.of # e.of)
    BY <1>2, <1>4 DEF PartsKnown
  <2>. QED
    BY <1>2, <2>1, <2>2 DEF PartsKnown, Disjoint
<1>. QED
  BY <1>3, <1>9, <1>10

LEMMA StepKeeps == LowerInv /\ [LowerNext]_vars => LowerInv'
<1>. SUFFICES ASSUME LowerInv, [LowerNext]_vars
              PROVE  LowerInv'
  OBVIOUS
<1>1. CASE UNCHANGED vars
  BY <1>1 DEF vars, LowerInv, TypeKnown, RangesKnown, BoundsKnown, TreeKnown, PartsKnown,
              Cased, Occurring, Names, Named, Parted, Leaf, Ends, Root, Disjoint
<1>2. CASE Clusterify
  BY <1>2, ClusterifyKeeps
<1>3. CASE Fit
  BY <1>3, FitKeeps
<1>4. CASE JustBranch
  BY <1>4, BranchKeeps
<1>5. CASE SwitchConvert
  BY <1>5, SwitchConvertKeeps
<1>6. CASE \E c \in calls : Halve(c) \/ MakeLeaf(c)
  BY <1>6, HalveKeeps, MakeLeafKeeps
<1>. QED
  BY <1>1, <1>2, <1>3, <1>4, <1>5, <1>6 DEF LowerNext, stopped

LEMMA LowerInvariant == LowerSpec => []LowerInv
<1>1. LowerInv /\ [LowerNext]_vars => LowerInv'
  BY StepKeeps
<1>. QED
  BY <1>1, InitKeeps, PTL DEF LowerSpec

------------------------------------------------------------------------------
(* Where the tree leads. *)

LEMMA RangesFinite ==
  ASSUME RangesKnown
  PROVE  IsFiniteSet(ranges)
<1>. DEFINE f == [r \in ranges |-> r.low]
<1>1. IsFiniteSet(Values)
  BY FS_Interval, SwitchConstants DEF Values
<1>2. f \in [ranges -> Values]
  BY DEF RangesKnown
<1>3. ASSUME NEW r \in ranges, NEW s \in ranges, f[r] = f[s]
      PROVE  r = s
  <2>1. r.low = s.low /\ r.low \in Int /\ r.high \in Int /\ s.high \in Int
        /\ r.low <= r.high /\ s.low <= s.high
    BY <1>3, ValuesAreInts DEF RangesKnown
  <2>. QED
    BY <2>1 DEF RangesKnown
<1>4. f \in Injection(ranges, Values)
  <2>. HIDE DEF f
  <2>. QED
    BY <1>2, <1>3 DEF Injection, IsInjective
<1>. QED
  BY <1>1, <1>4, FS_Injection

(* One step of a value through the tree. *)
Hop(t, v, from, d) ==
  CASE t[d].at = "node" -> from[IF v < t[d].pivot THEN t[d].left ELSE t[d].right]
    [] t[d].at = "leaf" -> IF Compare(t[d].range, v) THEN t[d].range.to ELSE default
    [] t[d].at = "jump" -> t[d].range.to

(* The tree ends: the halves of a node are smaller than the node.          *)
Wellfounded(t, size, n) ==
  /\ n \in Nat /\ size \in [DOMAIN t -> 0 .. (n - 1)]
  /\ \A d \in DOMAIN t : t[d].at \in {"node", "leaf", "jump"}
  /\ \A d \in DOMAIN t : t[d].at = "node" =>
       /\ t[d].left \in DOMAIN t /\ size[t[d].left] < size[d]
       /\ t[d].right \in DOMAIN t /\ size[t[d].right] < size[d]

LEMMA HopsExist ==
  ASSUME NEW t, NEW v, NEW size, NEW n, Wellfounded(t, size, n)
  PROVE  \E f : f = [d \in DOMAIN t |-> Hop(t, v, f, d)]
<1>. DEFINE Upto(m, f) == \A d \in DOMAIN t : size[d] < m => f[d] = Hop(t, v, f, d)
            bad == {m \in Nat : ~\E f : Upto(m, f)}
<1>1. ASSUME bad # {}
      PROVE  FALSE
  <2>1. PICK m \in bad : \A k \in bad : m <= k
    <3>1. bad \in SUBSET Nat
      OBVIOUS
    <3>. HIDE DEF bad
    <3>. QED
      BY <1>1, <3>1, LeastExists
  <2>2. m \in Nat /\ ~\E f : Upto(m, f)
    OBVIOUS
  <2>3. m # 0
    <3>1. m = 0 => Upto(m, t)
      BY DEF Wellfounded
    <3>. QED
      BY <2>2, <3>1
  <2>4. PICK g : Upto(m - 1, g)
    <3>1. m - 1 \in Nat /\ m - 1 \notin bad
      BY <2>1, <2>2, <2>3
    <3>. QED
      BY <3>1
  <2>. DEFINE f == [d \in DOMAIN t |-> IF size[d] = m - 1 THEN Hop(t, v, g, d) ELSE g[d]]
  <2>5. ASSUME NEW d \in DOMAIN t, size[d] < m
        PROVE  f[d] = Hop(t, v, f, d)
    <3>1. f[d] = Hop(t, v, g, d)
      <4>1. size[d] \in Nat
        BY DEF Wellfounded
      <4>2. CASE size[d] = m - 1
        BY <4>2
      <4>3. CASE size[d] < m - 1
        BY <2>4, <4>3
      <4>. QED
        BY <2>2, <2>5, <4>1, <4>2, <4>3
    <3>2. CASE t[d].at = "node"
      <4>. DEFINE e == IF v < t[d].pivot THEN t[d].left ELSE t[d].right
      <4>1. e \in DOMAIN t /\ size[e] \in Nat /\ size[d] \in Nat /\ size[e] < size[d]
        BY <3>2 DEF Wellfounded
      <4>2. f[e] = g[e]
        <5>1. size[e] # m - 1
          BY <2>2, <2>5, <4>1
        <5>. HIDE DEF e
        <5>. QED
          BY <4>1, <5>1
      <4>. HIDE DEF f
      <4>3. Hop(t, v, f, d) = f[e] /\ Hop(t, v, g, d) = g[e]
        BY <3>2 DEF Hop
      <4>. QED
        BY <3>1, <4>2, <4>3
    <3>3. CASE t[d].at # "node"
      <4>. HIDE DEF f
      <4>1. Hop(t, v, f, d) = Hop(t, v, g, d)
        BY <3>3 DEF Hop, Wellfounded
      <4>. QED
        BY <3>1, <4>1
    <3>. QED
      BY <3>2, <3>3
  <2>. QED
    BY <2>2, <2>5
<1>2. PICK g : \A d \in DOMAIN t : g[d] = Hop(t, v, g, d)
  <2>1. n \in Nat /\ \A d \in DOMAIN t : size[d] < n
    BY DEF Wellfounded
  <2>. QED
    BY <1>1, <2>1
<1>. DEFINE f == [d \in DOMAIN t |-> g[d]]
<1>3. ASSUME NEW d \in DOMAIN t
      PROVE  g[d] = Hop(t, v, f, d)
  <2>. DEFINE e == IF v < t[d].pivot THEN t[d].left ELSE t[d].right
  <2>1. CASE t[d].at = "node"
    <3>1. e \in DOMAIN t
      BY <2>1 DEF Wellfounded
    <3>2. f[e] = g[e]
      <4>. HIDE DEF e
      <4>. QED
        BY <3>1
    <3>. HIDE DEF f
    <3>3. Hop(t, v, f, d) = f[e] /\ Hop(t, v, g, d) = g[e]
      BY <2>1 DEF Hop
    <3>. QED
      BY <1>2, <3>2, <3>3
  <2>2. CASE t[d].at # "node"
    <3>. HIDE DEF f
    <3>1. Hop(t, v, f, d) = Hop(t, v, g, d)
      BY <2>2 DEF Hop, Wellfounded
    <3>. QED
      BY <1>2, <3>1
  <2>. QED
    BY <2>1, <2>2
<1>4. f = [d \in DOMAIN t |-> Hop(t, v, f, d)]
  BY Zenon, <1>3
<1>. QED
  BY <1>4

(* The tree leads every value that may occur to the block of its case.     *)
Routed(c, v) ==
  /\ \A r \in ranges : In(v, r) => r \in c.of
  /\ Within(v, c.lo, c.hi)

LEMMA TreeLeads ==
  ASSUME LowerInv, pc = "done", NEW v \in Occurring
  PROVE  Goes(tree, v, Root) = Target(v)
<1>. USE DEF LowerInv
<1>. DEFINE from == CHOOSE f : f = [d \in DOMAIN tree |-> Hop(tree, v, f, d)]
            size == [d \in DOMAIN tree |-> Cardinality(d.of)]
            n == Cardinality(ranges) + 1
            D == DOMAIN tree
<1>1. Root \in D /\ Names = D /\ calls = {}
  BY DEF TreeKnown, Names
<1>2. \A d \in D : /\ d.of \subseteq ranges /\ d.of # {} /\ IsFiniteSet(d.of)
                   /\ Cardinality(d.of) \in Nat /\ Cardinality(d.of) <= Cardinality(ranges)
  BY <1>1, RangesFinite, FS_Subset, FS_CardinalityType DEF TreeKnown, Named
<1>3. Wellfounded(tree, size, n)
  <2>1. Cardinality(ranges) \in Nat
    BY RangesFinite, FS_CardinalityType
  <2>2. \A d \in D : tree[d].at \in {"node", "leaf", "jump"}
    BY DEF TreeKnown
  <2>3. ASSUME NEW d \in D, tree[d].at = "node"
        PROVE  /\ tree[d].left \in D /\ size[tree[d].left] < size[d]
               /\ tree[d].right \in D /\ size[tree[d].right] < size[d]
    <3>. DEFINE a == tree[d].left
                b == tree[d].right
    <3>1. Parted(d, tree[d])
      BY <2>3 DEF TreeKnown
    <3>2. a \in D /\ b \in D /\ d.of = a.of \union b.of
      BY <1>1, <3>1 DEF Parted
    <3>3. a.of \intersect b.of = {}
      <4>1. \A r \in ranges : r.low \in Int /\ r.high \in Int /\ r.low <= r.high
        BY ValuesAreInts DEF RangesKnown
      <4>2. tree[d].pivot \in Int
        BY <3>1, ValuesAreInts DEF Parted
      <4>. QED
        BY <1>2, <3>1, <3>2, <4>1, <4>2 DEF Parted
    <3>4. a.of # d.of /\ b.of # d.of /\ a.of \in SUBSET d.of /\ b.of \in SUBSET d.of
      BY <1>2, <3>2, <3>3
    <3>5. Cardinality(a.of) < Cardinality(d.of) /\ Cardinality(b.of) < Cardinality(d.of)
      <4>1. IsFiniteSet(d.of) /\ Cardinality(d.of) \in Nat
            /\ Cardinality(a.of) \in Nat /\ Cardinality(b.of) \in Nat
        BY <1>2, <3>2
      <4>2. \A T \in SUBSET d.of : /\ Cardinality(T) <= Cardinality(d.of)
                                   /\ Cardinality(T) = Cardinality(d.of) => T = d.of
        BY <4>1, FS_Subset
      <4>. QED
        BY <3>4, <4>1, <4>2
    <3>. QED
      BY <3>2, <3>5
  <2>4. size \in [D -> 0 .. (n - 1)]
    BY <1>2, <2>1
  <2>. QED
    BY <2>1, <2>2, <2>3, <2>4 DEF Wellfounded
<1>4. from = [d \in D |-> Hop(tree, v, from, d)]
  <2>1. \E f : f = [d \in D |-> Hop(tree, v, f, d)]
    BY <1>3, HopsExist
  <2>. QED
    BY Zenon, <2>1
<1>5. Goes(tree, v, Root) = from[Root]
  BY DEF Goes, Hop
<1>. HIDE DEF from
<1>6. v \in Values /\ v \in Int /\ None \notin Values
  BY ValuesAreInts, SwitchConstants DEF Occurring, Cased
<1>7. (\A r \in ranges : ~In(v, r)) => Target(v) = default
  <2>1. CASE v \in Cased
    BY <2>1 DEF RangesKnown, Target, Cased
  <2>2. CASE v \notin Cased
    BY <1>6, <2>2 DEF Target, Occurring, Cased, BoundsKnown
  <2>. QED
    BY <2>1, <2>2
<1>8. \A r \in ranges : In(v, r) => Target(v) = r.to
  <2>1. \A r \in ranges : In(v, r) => cases[v] = r.to /\ r.to \in Blocks
    BY DEF RangesKnown, In
  <2>. QED
    BY <2>1, SwitchConstants DEF Target
<1>. DEFINE bad == {d \in D : Routed(d, v) /\ from[d] # Target(v)}
<1>9. ASSUME bad # {}
      PROVE  FALSE
  <2>. DEFINE S == {size[d] : d \in bad}
  <2>1. S \in SUBSET Nat /\ S # {}
    BY <1>2, <1>9
  <2>2. PICK m \in S : \A k \in S : m <= k
    <3>. HIDE DEF S
    <3>. QED
      BY <2>1, LeastExists
  <2>3. PICK d \in bad : \A e \in bad : size[d] <= size[e]
    BY <2>2
  <2>4. d \in D /\ Routed(d, v) /\ from[d] # Target(v) /\ from[d] = Hop(tree, v, from, d)
    BY <1>4
  <2>. HIDE DEF S, bad
  <2>5. CASE tree[d].at = "node"
    <3>. DEFINE e == IF v < tree[d].pivot THEN tree[d].left ELSE tree[d].right
    <3>1. Parted(d, tree[d])
      BY <2>4, <2>5 DEF TreeKnown
    <3>2. e \in D /\ size[e] < size[d]
      BY <1>3, <2>4, <2>5 DEF Wellfounded
    <3>3. from[d] = from[e]
      BY <2>4, <2>5 DEF Hop
    <3>4. Routed(e, v)
      <4>1. /\ \A r \in ranges : /\ r.low \in Int /\ r.high \in Int /\ r.low <= r.high
                                 /\ In(v, r) => r.low <= v /\ v <= r.high
            /\ tree[d].pivot \in Int /\ tree[d].pivot \in Values
        <5>1. \A r \in ranges : r.low \in Int /\ r.high \in Int /\ r.low <= r.high
          BY ValuesAreInts DEF RangesKnown
        <5>2. \A r \in ranges : In(v, r) => r.low <= v /\ v <= r.high
          BY <1>6, <5>1 DEF In
        <5>3. tree[d].pivot \in Int /\ tree[d].pivot \in Values
          BY <3>1, ValuesAreInts DEF Parted
        <5>. QED
          BY <5>1, <5>2, <5>3
      <4>2. CASE v < tree[d].pivot
        <5>1. \A r \in ranges : In(v, r) => r \in e.of
          BY <1>6, <2>4, <3>1, <4>1, <4>2 DEF Routed, Parted
        <5>2. Within(v, e.lo, e.hi)
          BY <2>4, <3>1, <4>2 DEF Routed, Parted, Within
        <5>. QED
          BY <5>1, <5>2 DEF Routed
      <4>3. CASE ~(v < tree[d].pivot)
        <5>1. \A r \in ranges : In(v, r) => r \in e.of
          BY <1>6, <2>4, <3>1, <4>1, <4>3 DEF Routed, Parted
        <5>2. Within(v, e.lo, e.hi)
          BY <1>6, <2>4, <3>1, <4>1, <4>3 DEF Routed, Parted, Within
        <5>. QED
          BY <5>1, <5>2 DEF Routed
      <4>. QED
        BY <4>2, <4>3
    <3>5. e \in bad
      BY <2>4, <3>2, <3>3, <3>4 DEF bad
    <3>6. size[d] <= size[e] /\ size[d] \in Nat /\ size[e] \in Nat
      BY <1>2, <2>3, <2>4, <3>2, <3>5
    <3>. QED
      BY <3>2, <3>6
  <2>6. CASE tree[d].at # "node"
    <3>. DEFINE r == tree[d].range
    <3>1. Leaf(d, tree[d]) /\ tree[d].at \in {"leaf", "jump"}
      BY <2>4, <2>6 DEF TreeKnown
    <3>2. r \in ranges /\ r.low \in Values /\ r.high \in Values /\ r.low <= r.high
      BY <1>2, <2>4, <3>1 DEF Leaf, RangesKnown
    <3>3. ~In(v, r) => \A s \in ranges : ~In(v, s)
      BY <2>4, <3>1 DEF Leaf, Routed
    <3>4. CASE tree[d].at = "leaf"
      <4>1. from[d] = IF Compare(r, v) THEN r.to ELSE default
        BY <2>4, <3>4 DEF Hop
      <4>2. Compare(r, v) <=> In(v, r)
        BY <1>6, <3>2, CompareMeans DEF In
      <4>. QED
        BY <1>7, <1>8, <2>4, <3>2, <3>3, <4>1, <4>2
    <3>5. CASE tree[d].at = "jump"
      <4>1. from[d] = r.to
        BY <2>4, <3>5 DEF Hop
      <4>2. d.lo = r.low /\ d.hi = r.high
        BY <3>1, <3>5 DEF Leaf
      <4>3. r.low <= v /\ v <= r.high
        BY <1>6, <2>4, <3>2, <4>2 DEF Routed, Within
      <4>4. In(v, r)
        BY <1>6, <3>2, <4>3, ValuesAreInts DEF In
      <4>. QED
        BY <1>8, <2>4, <3>2, <4>1, <4>4
    <3>. QED
      BY <3>1, <3>4, <3>5
  <2>. QED
    BY <2>5, <2>6
<1>10. Routed(Root, v)
  BY DEF Routed, Root, Call, BoundsKnown
<1>. QED
  BY <1>1, <1>5, <1>9, <1>10

(* For values of any width, any cases, any bounds and any default: every   *)
(* value comes to the block the switch would have sent it to.              *)
THEOREM TargetsCorrect == LowerSpec => []SameTargets
<1>1. LowerInv => SameTargets
  <2>. SUFFICES ASSUME LowerInv
                PROVE  SameTargets
    OBVIOUS
  <2>1. ASSUME pc = "branch", NEW v \in Occurring
        PROVE  default = Target(v)
    <3>1. ranges = {}
      BY <2>1 DEF LowerInv, TypeKnown
    <3>2. CASE v \in Cased
      BY <2>1, <3>1, <3>2 DEF LowerInv, RangesKnown, Target, Cased
    <3>3. CASE v \notin Cased
      BY <2>1, <3>3 DEF LowerInv, BoundsKnown, Occurring, Target, Cased
    <3>. QED
      BY <3>2, <3>3
  <2>. QED
    BY <2>1, TreeLeads DEF SameTargets
<1>. QED
  BY <1>1, LowerInvariant, PTL

------------------------------------------------------------------------------
(* The phis.  What stays of the entries of a block are the lowest cases of *)
(* the ranges that go there, and each of these has one end of the tree.    *)
LEMMA EntriesAreEnds ==
  ASSUME LowerInv, pc \in {"done", "branch"}, NEW b \in Blocks, dead => b # default
  PROVE  Cardinality({v \in Values : cases[v] = b}
                        \ UNION {Merged(tree[c].range) : c \in EndsTo(b)})
           = Cardinality(EndsTo(b))
<1>. USE DEF LowerInv
<1>. DEFINE A == {v \in Values : cases[v] = b} \ UNION {Merged(tree[c].range) : c \in EndsTo(b)}
            E == EndsTo(b)
            f == [c \in E |-> tree[c].range.low]
<1>1. \A c \in E : /\ c \in Ends /\ c.of = {tree[c].range}
                   /\ tree[c].range \in ranges /\ tree[c].range.to = b
  <2>1. \A c \in E : c \in Ends /\ c \in DOMAIN tree /\ tree[c].at # "node" /\ tree[c].range.to = b
    BY DEF EndsTo, Ends
  <2>2. \A c \in E : c.of = {tree[c].range} /\ c.of \subseteq ranges
    BY <2>1 DEF TreeKnown, Leaf, Names, Named
  <2>. QED
    BY <2>1, <2>2
<1>2. \A r \in ranges : /\ r.low \in Int /\ r.high \in Int /\ r.low <= r.high /\ r.low \in Values
                        /\ \A v \in r.low .. r.high : cases[v] = r.to
  BY ValuesAreInts DEF RangesKnown
<1>3. \A r, s \in ranges : r # s => r.high < s.low \/ s.high < r.low
  BY DEF RangesKnown
<1>4. ASSUME NEW c \in E
      PROVE  f[c] \in A
  <2>. DEFINE r == tree[c].range
  <2>1. r \in ranges /\ r.low \in Values /\ cases[r.low] = b
    BY <1>1, <1>2
  <2>2. ASSUME NEW d \in E
        PROVE  r.low \notin Merged(tree[d].range)
    <3>1. tree[d].range \in ranges
      BY <1>1
    <3>2. r = tree[d].range \/ r.high < tree[d].range.low \/ tree[d].range.high < r.low
      BY <1>3, <2>1, <3>1
    <3>. QED
      BY <1>2, <2>1, <3>1, <3>2 DEF Merged
  <2>. QED
    BY <2>1, <2>2
<1>5. ASSUME NEW c \in E, NEW d \in E, f[c] = f[d]
      PROVE  c = d
  <2>1. tree[c].range = tree[d].range
    <3>1. tree[c].range \in ranges /\ tree[d].range \in ranges
          /\ tree[c].range.low = tree[d].range.low
      BY <1>1, <1>5
    <3>. QED
      BY <1>2, <1>3, <3>1
  <2>. QED
    BY <1>1, <2>1 DEF PartsKnown, Disjoint
<1>6. ASSUME NEW v \in A
      PROVE  \E c \in E : f[c] = v
  <2>1. v \in Values /\ v \in Int /\ cases[v] = b /\ v \in Cased
    BY SwitchConstants, ValuesAreInts DEF Cased
  <2>2. PICK r \in ranges : In(v, r)
    BY <2>1 DEF RangesKnown
  <2>3. r.to = b /\ r.low <= v /\ v <= r.high
    BY <1>2, <2>1, <2>2 DEF In
  <2>4. PICK c \in Ends : r \in c.of
    BY <2>2 DEF PartsKnown, TreeKnown, TypeKnown
  <2>5. c.of = {tree[c].range} /\ tree[c].range = r
    BY <2>4 DEF Ends, TreeKnown, Leaf
  <2>6. c \in E
    BY <2>3, <2>4, <2>5 DEF EndsTo
  <2>7. v \notin Merged(r)
    BY <2>5, <2>6
  <2>8. v = r.low
    BY <1>2, <2>1, <2>3, <2>7 DEF Merged
  <2>. QED
    BY <2>5, <2>6, <2>8
<1>7. f \in Bijection(E, A)
  <2>1. f \in [E -> A]
    BY <1>4
  <2>. HIDE DEF f, E, A
  <2>. QED
    BY <1>5, <1>6, <2>1 DEF Bijection, Injection, Surjection, IsInjective
<1>8. IsFiniteSet(A)
  <2>1. IsFiniteSet(Values)
    BY FS_Interval, SwitchConstants DEF Values
  <2>. QED
    BY <2>1, FS_Subset
<1>9. ExistsBijection(A, E)
  <2>. HIDE DEF f, E, A
  <2>. QED
    BY <1>7, Fun_ExistsBijSymmetric, Fun_ExistsBij
<1>. QED
  <2>. HIDE DEF E, A
  <2>1. Cardinality(A) = Cardinality(E)
    BY <1>8, <1>9, FS_Bijection
  <2>. QED
    BY <2>1 DEF A, E

(* A phi keeps as many entries as there are branches to its block, but     *)
(* for the two blocks PhisMatch leaves out when the default cannot be      *)
(* reached.                                                                *)
THEOREM PhisCorrect == LowerSpec => []PhisMatch
<1>1. LowerInv => PhisMatch
  <2>. SUFFICES ASSUME LowerInv, pc \in {"done", "branch"},
                       NEW b \in Blocks \ (IF dead THEN {Default, default} ELSE {})
                PROVE  Incoming(b) = Branches(b)
    BY DEF PhisMatch
  <2>1. dead \in BOOLEAN /\ (~dead => default = Default)
    BY DEF LowerInv, TypeKnown, BoundsKnown
  <2>2. dead => b # default /\ b # Default
    OBVIOUS
  <2>3. Default1(b, Default) = Default1(b, default)
    BY <2>1, <2>2 DEF Default1
  <2>. QED
    BY <2>2, <2>3, EntriesAreEnds DEF Incoming, Branches
<1>. QED
  BY <1>1, LowerInvariant, PTL

=============================================================================
