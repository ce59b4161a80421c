----------------------------- MODULE LowerSwitch -----------------------------
(***************************************************************************)
(* The lowering of switches before a function is analysed: the cases are   *)
(* gathered into ranges, and a tree of comparisons finds the range of a    *)
(* value.  Values are the signed integers of some width.                   *)
(***************************************************************************)
EXTENDS Integers, FiniteSets

CONSTANTS
  Half,         \* half the number of values, 2^(width - 1)
  Blocks,       \* the blocks a switch may lead to
  Default,      \* the default destination
  None,         \* no case for a value; a bound that is not there
  Unreachables  \* whether the default destination is unreachable

Values == -Half .. (Half - 1)
Unsigned(v) == v % (2 * Half)

ASSUME SwitchConstants ==
  /\ Half \in Nat \ {0}
  /\ Default \in Blocks /\ None \notin Blocks /\ None \notin Values
  /\ Unreachables \subseteq BOOLEAN

VARIABLES
  cases,    \* the destination of each value that has a case
  dead,     \* the default destination starts with `unreachable'
  ranges,   \* the clusters
  lower, upper,  \* the bounds the value is known to lie between, or None
  default,  \* the destination of what is in no cluster
  calls,    \* the calls of switchConvert still to be made
  tree,     \* the block each call has made
  pc

vars == <<cases, dead, ranges, lower, upper, default, calls, tree, pc>>

LowerInit ==
  /\ cases \in [Values -> Blocks \union {None}]
  /\ dead \in Unreachables
  /\ dead => \A v \in Values : cases[v] # Default
  /\ ranges = {} /\ lower = None /\ upper = None /\ default = Default
  /\ calls = {} /\ tree = <<>>
  /\ pc = "switch"

Cased == {v \in Values : cases[v] # None}

\* Neighbouring cases that go to the same block are one range.
IsRange(r) ==
  /\ r.low <= r.high
  /\ \A v \in r.low .. r.high : cases[v] = r.to
  /\ \A v \in {r.low - 1, r.high + 1} \intersect Values : cases[v] # r.to

Clusterify ==
  /\ pc = "switch" /\ Cased # {}
  /\ ranges' = {r \in [low : Values, high : Values, to : Blocks] : IsRange(r)}
  /\ pc' = "clusters"
  /\ UNCHANGED <<cases, dead, lower, upper, default, calls, tree>>

IsFirst(r, rs) == r \in rs /\ \A s \in rs : r.low <= s.low
IsLast(r, rs) == r \in rs /\ \A s \in rs : s.low <= r.low

\* The most popular destination: the first to come past the others as the
\* clusters are counted in order.
Popularity(r) == Cardinality({v \in Values : cases[v] = r.to /\ v <= r.high})
Popular ==
  (CHOOSE r \in ranges :
     \A s \in ranges : \/ Popularity(s) < Popularity(r)
                       \/ Popularity(s) = Popularity(r) /\ r.low <= s.low).to

\* If the default cannot be reached the value is one of the cases, and their
\* most popular destination becomes the default.
Fit ==
  /\ pc = "clusters"
  /\ IF dead
     THEN /\ \E p, q \in ranges : /\ IsFirst(p, ranges) /\ lower' = p.low
                                  /\ IsLast(q, ranges) /\ upper' = q.high
          /\ default' = Popular
          /\ ranges' = {r \in ranges : r.to # Popular}
     ELSE UNCHANGED <<lower, upper, default, ranges>>
  /\ pc' = "fitted"
  /\ UNCHANGED <<cases, dead, calls, tree>>

\* Without cases, or with one destination only, the switch becomes a branch.
JustBranch ==
  /\ (pc = "switch" /\ Cased = {}) \/ (pc = "fitted" /\ ranges = {})
  /\ pc' = "branch"
  /\ UNCHANGED <<cases, dead, ranges, lower, upper, default, calls, tree>>

(***************************************************************************)
(* switchConvert: a call has some of the clusters and the bounds that were *)
(* checked on the way to it, and names the block it makes.                 *)
(***************************************************************************)
Call(rs, lo, hi) == [of |-> rs, lo |-> lo, hi |-> hi]
Root == Call(ranges, lower, upper)

SwitchConvert ==
  /\ pc = "fitted" /\ ranges # {}
  /\ calls' = {Root}
  /\ pc' = "convert"
  /\ UNCHANGED <<cases, dead, ranges, lower, upper, default, tree>>

Below(rs, ss) == \A r \in rs, s \in ss : r.high < s.low

\* The recursion goes to the lower half first.
Current(c) == c \in calls /\ \A d \in calls \ {c} : Below(c.of, d.of)

Made(c, block) == [d \in DOMAIN tree \union {c} |-> IF d = c THEN block ELSE tree[d]]

\* No value of the gap can occur: the unreachable ranges are what lies
\* between all the cases.
GapAlways(gap) == TRUE  \* mutant: whatever the default is
Gap(gap) == dead /\ gap \intersect Cased = {}

Bound(l, p) ==
  LET gap == (l.high + 1) .. (p.low - 1)
  IN IF gap # {} /\ Gap(gap) THEN l.high ELSE p.low - 1

\* A half of the clusters on either side of a comparison.
Halve(c) ==
  /\ Current(c)
  /\ \E rs \in SUBSET c.of :
       LET ss == c.of \ rs IN
         /\ Cardinality(c.of) > 1 /\ Cardinality(rs) = Cardinality(c.of) \div 2
         /\ Below(rs, ss)
         /\ \E l \in rs, p \in ss :
              /\ IsLast(l, rs) /\ IsFirst(p, ss)
              /\ LET left == Call(rs, c.lo, Bound(l, p))
                     right == Call(ss, p.low, c.hi)
                 IN /\ tree' = Made(c, [at |-> "node", pivot |-> p.low,
                                        left |-> left, right |-> right])
                    /\ calls' = (calls \ {c}) \union {left, right}
  /\ UNCHANGED <<cases, dead, ranges, lower, upper, default, pc>>

\* A leaf compares for one range.  Where the bounds say that the value is in
\* the range, its destination is taken without a comparison, by a branch of
\* the parent.
Squeezed(r, lo, hi) == r.low = lo /\ r.high = hi

MakeLeaf(c) ==
  /\ Current(c)
  /\ \E r \in c.of :
       /\ c.of = {r}
       /\ tree' = Made(c, [at |-> IF Squeezed(r, c.lo, c.hi) THEN "jump" ELSE "leaf",
                           range |-> r])
  /\ calls' = calls \ {c}
  /\ pc' = IF calls' = {} THEN "done" ELSE "convert"
  /\ UNCHANGED <<cases, dead, ranges, lower, upper, default>>

stopped == pc \in {"done", "branch"} /\ UNCHANGED vars

LowerNext == Clusterify \/ Fit \/ JustBranch \/ SwitchConvert
               \/ (\E c \in calls : Halve(c) \/ MakeLeaf(c)) \/ stopped
LowerSpec == LowerInit /\ [][LowerNext]_vars

-----------------------------------------------------------------------------
\* What the new blocks do.

Compare(r, v) ==
  IF r.low = r.high     THEN v = r.low
  ELSE IF r.low = -Half THEN v <= r.high
  ELSE IF r.low = 0     THEN Unsigned(v) <= Unsigned(r.high)
  ELSE Unsigned(v - r.low) <= Unsigned(r.high - r.low)

\* The block a value comes to from the block of a call.
Goes(t, v, c) ==
  LET from[d \in DOMAIN t] ==
        CASE t[d].at = "node" -> from[IF v < t[d].pivot THEN t[d].left ELSE t[d].right]
          [] t[d].at = "leaf" -> IF Compare(t[d].range, v) THEN t[d].range.to ELSE default
          [] t[d].at = "jump" -> t[d].range.to
  IN from[c]

Ends == {c \in DOMAIN tree : tree[c].at # "node"}

\* The cases whose entries of the phis for the block of the switch are
\* removed by fixPhis and newLeafBlock: all but one of a range.
MergedNone(r) == {}  \* mutant: one entry is rewritten, the others stay
Merged(r) == (r.low + 1) .. r.high

\* The entries a phi of b has for the block of the switch or the new blocks,
\* and the edges that lead there.  Merged ranges are those of its ends.
EndsTo(b) == {c \in Ends : tree[c].range.to = b}
Default1(b, d) == IF b = d THEN 1 ELSE 0

Incoming(b) ==
  Cardinality({v \in Values : cases[v] = b} \ UNION {Merged(tree[c].range) : c \in EndsTo(b)})
    + Default1(b, Default)
Branches(b) == Cardinality(EndsTo(b)) + Default1(b, default)

Occurring == IF dead THEN Cased ELSE Values
Target(v) == IF cases[v] = None THEN Default ELSE cases[v]

(***************************************************************************)
(* Every value that may occur comes to the block the switch would have     *)
(* sent it to, whatever comparisons were left out (182-334).               *)
(***************************************************************************)
SameTargets ==
  /\ pc = "done" => \A v \in Occurring : Goes(tree, v, Root) = Target(v)
  /\ pc = "branch" => \A v \in Occurring : default = Target(v)

(***************************************************************************)
(* `keep the number of phi values equal to the number of branches to       *)
(* SuccBB' (142-143): the phis are resolved by these entries later.  If    *)
(* the default cannot be reached, its own phis and those of the block that *)
(* becomes the default keep the entries of all their cases.                *)
(***************************************************************************)
PhisMatch ==
  pc \in {"done", "branch"} =>
    \A b \in Blocks \ (IF dead THEN {Default, default} ELSE {}) : Incoming(b) = Branches(b)

==============================================================================
