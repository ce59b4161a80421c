------------------------------ MODULE Regions ------------------------------
(***************************************************************************)
(* The memory layout of SymExec: stack slots, objects from outside and     *)
(* heap objects get addresses of their own, each handed out by adding the  *)
(* length of a slot to a pointer the solver may place on any page from the *)
(* base of the region on.  Addresses are machine integers: sums wrap.      *)
(* That the pointer stays below the term of its region is asserted once,   *)
(* when all symbols are made.                                              *)
(***************************************************************************)
EXTENDS Integers, FiniteSets

CONSTANTS
  Space,    \* the number of addresses, 2^64 in the code
  Page,     \* PAGE_SIZE
  SlotLen,  \* the length of a slot by kind
  SlotNum   \* the number of slots by kind

Kinds == {"stack", "extern", "heap"}

ASSUME LayoutAssumption ==
  /\ Space \in Nat \ {0}
  /\ Page \in Nat \ {0}
  /\ SlotLen \in [Kinds -> Nat \ {0}]
  /\ SlotNum \in [Kinds -> Nat]

VARIABLES
  next,       \* sptr, eptr and hptr
  given,      \* the slots handed out
  wrapped,    \* the kinds whose pointer came past the end of the space
  completed   \* SymExec::complete has been called

regionVars == <<next, given, wrapped, completed>>

StackBase == Page + SlotLen["stack"]
StackTerm == StackBase + SlotLen["stack"] * SlotNum["stack"]
ExternBase == StackTerm + SlotLen["extern"]
ExternTerm == ExternBase + SlotLen["extern"] * SlotNum["extern"]
HeapBase == ExternTerm + SlotLen["heap"]
HeapTerm == HeapBase + SlotLen["heap"] * SlotNum["heap"]

Base == [k \in Kinds |-> CASE k = "stack" -> StackBase
                           [] k = "extern" -> ExternBase
                           [] k = "heap" -> HeapBase]

Term(k) == CASE k = "stack" -> StackTerm
             [] k = "extern" -> ExternTerm
             [] k = "heap" -> HeapTerm

Address == 0..(Space - 1)

(* A machine product of a free variable and PAGE_SIZE, at least the base. *)
RegionsInit ==
  /\ next \in {n \in [Kinds -> {(x * Page) % Space : x \in Address}] :
                 \A k \in Kinds : Base[k] <= n[k]}
  /\ given = {} /\ wrapped = {} /\ completed = FALSE

AdvancePage(k) == (next[k] + Page) % Space  \* mutant: a page for every slot

Advance(k) == (next[k] + SlotLen[k]) % Space

(* incAndRetPtr: the caller gets next[k]. *)
CreatePtr(k) ==
  /\ ~completed
  /\ given' = given \cup {[kind |-> k, at |-> next[k]]}
  /\ next' = [next EXCEPT ![k] = Advance(k)]
  /\ wrapped' = IF next[k] + SlotLen[k] < Space THEN wrapped ELSE wrapped \cup {k}
  /\ UNCHANGED completed

(* What complete asserts. *)
Satisfied == \A k \in Kinds : next[k] <= Term(k)

Complete ==
  /\ ~completed
  /\ completed' = TRUE
  /\ UNCHANGED <<next, given, wrapped>>

RegionsStopped == completed /\ UNCHANGED regionVars

RegionsNext == (\E k \in Kinds : CreatePtr(k)) \/ Complete \/ RegionsStopped

RegionsSpec == RegionsInit /\ [][RegionsNext]_regionVars

------------------------------------------------------------------------------
(* The addresses of a range of n addresses from a on. *)
Cells(a, n) == {(a + k) % Space : k \in 0..(n - 1)}

OverlapWithin(s, l, t, m) ==  \* mutant: a range that starts with the other does not overlap
  /\ s + l < Space /\ t + m < Space
  /\ (t < s /\ s < t + m) \/ (s < t /\ t < s + l)

(* The constraints of checkOverlap for two ranges. *)
Overlap(s, l, t, m) ==
  /\ s + l < Space /\ t + m < Space
  /\ (t <= s /\ s < t + m) \/ (s <= t /\ t < s + l)

------------------------------------------------------------------------------
Clear(s, t) == s.at + SlotLen[s.kind] <= t.at

Inside(s) == Base[s.kind] <= s.at /\ s.at + SlotLen[s.kind] <= Term(s.kind)

(* Two objects never share an address: in an assignment that satisfies the *)
(* constraints, and in which no pointer came past the end of the address   *)
(* space, every slot lies in its region and clear of every other slot.     *)
(* checkOverlap tells fetches from different objects apart by that.        *)
SlotsApart ==
  completed /\ Satisfied /\ wrapped = {} =>
    \A s \in given :
      Inside(s) /\ \A t \in given : s = t \/ Clear(s, t) \/ Clear(t, s)

=============================================================================
