------------------------------ MODULE TraceSet ------------------------------
(***************************************************************************)
(* What the analysis of a fetch is promised by SliceOracle::getUnrolled:   *)
(* ways through the slice from its entry to the block of the fetch, in     *)
(* which no loop is gone around twice.                                     *)
(***************************************************************************)
EXTENDS Naturals, Sequences, FiniteSets

CONSTANTS
  Enough  \* the number of ways up to which none is left out

VARIABLES
  ways,        \* the ways through the slice that take no back edge
  searchable,  \* whether the search for them is known to end
  answer,      \* the traces returned
  failed       \* the search was broken off

tvars == <<ways, searchable, answer, failed>>

TInit == answer = {} /\ ~failed

Answer ==
  /\ answer = {} /\ ~failed
  /\ answer' \in (SUBSET ways) \ {{}}
  /\ Cardinality(ways) <= Enough => answer' = ways
  /\ UNCHANGED <<ways, searchable, failed>>

Fail ==
  /\ answer = {} /\ ~failed
  /\ ~searchable
  /\ failed' = TRUE
  /\ UNCHANGED <<ways, searchable, answer>>

TNext == Answer \/ Fail

TSpec == TInit /\ [][TNext]_tvars /\ WF_tvars(TNext)

==============================================================================
