----------------------------- MODULE FuncHandle -----------------------------
(***************************************************************************)
(* The analysis of one function, FuncHandle::run: every fetch is sliced,   *)
(* the slice is unrolled into traces, and on every trace each earlier      *)
(* fetch is checked for an overlap with the fetch at the end.  The         *)
(* outcomes are collected per pair of fetches by addResult, and a debug    *)
(* build logs them through the JSON logger, whose calls assert the kind of *)
(* the value under its cursor.                                             *)
(*                                                                         *)
(* Slicing, unrolling and the solver are abstracted: a fetch has any       *)
(* number of traces up to MaxTraces, a trace holds any of the other        *)
(* fetches, each once since loops are not unrolled, and a check has any    *)
(* outcome (two traces may disagree on the same pair).                     *)
(***************************************************************************)
EXTENDS Naturals, Sequences, FiniteSets

CONSTANTS
  Fetches,    \* the fetch calls of the function
  MaxTraces,  \* bound: traces per fetch
  Builds      \* the build configurations considered

ASSUME FetchesAssumption == IsFiniteSet(Fetches)
ASSUME MaxTracesAssumption == MaxTraces \in Nat

(* A release build has no debug code, a profile build has the common part  *)
(* and that of one item (CMakeLists.txt:27).  The items not listed print   *)
(* to stderr, or close at once what they open in the log.                  *)
Items == {"func", "dump"}

ASSUME BuildsAssumption ==
  Builds \subseteq {{}, {"debug"}} \cup {{"debug", item} : item \in Items}

(* CheckResult in the order of its ranks, the highest rank first.  (The    *)
(* code has a fifth, CK_UNREL, that no check returns.)                     *)
Outcomes == {"sat", "undef", "unsat", "symerr"}
Rank == [sat |-> 0, undef |-> 1, unsat |-> 2, symerr |-> 4]

Pairs == Fetches \X Fetches
None == "none"

VARIABLES
  build,    \* the configuration the pass was compiled with
  pc,       \* where run() is
  pending,  \* the fetches still to be analyzed
  fetch,    \* the fetch under analysis, as a set of at most one
  traces,   \* the number of its traces still to be analyzed
  passed,   \* the fetches of the current trace already checked
  result,   \* the map result: None where it has no entry
  failed,   \* the set failed
  log,      \* the kinds of the JSON values from the root to the cursor
  report,   \* the counts logged at the end
  seen      \* history: every outcome of every pair

vars == <<build, pc, pending, fetch, traces, passed, result, failed, log,
          report, seen>>

NoReport == [total |-> 0, error |-> 0, sat |-> 0, uns |-> 0, udf |-> 0]

On(item) == item \in build

Cursor == log[Len(log)]

(* The calls that open a JSON value: vec() and map() append to an array,   *)
(* vec(key) and map(key) add a member to an object.                        *)
CanAppend == Cursor = "array"
CanAddKey == Cursor = "object"

Popped(stack) == SubSeq(stack, 1, Len(stack) - 1)

Init ==
  /\ build \in Builds
  /\ pc = "start"
  /\ pending = Fetches
  /\ fetch = {}
  /\ traces = 0
  /\ passed = {}
  /\ result = [k \in Pairs |-> None]
  /\ failed = {}
  /\ log = <<"object", "object">>   \* the root, and map(function name)
  /\ report = NoReport
  /\ seen = [k \in Pairs |-> {}]

Abort ==
  /\ pc' = "abort"
  /\ UNCHANGED <<build, pending, fetch, traces, passed, result, failed, log,
                 report, seen>>

(* run() collects the fetches and opens the array "fetch".                 *)
Run ==
  /\ pc = "start"
  /\ IF On("debug") /\ ~CanAddKey
       THEN Abort
       ELSE /\ pc' = "fetches"
            /\ log' = IF On("debug") THEN Append(log, "array") ELSE log
            /\ UNCHANGED <<build, pending, fetch, traces, passed, result,
                           failed, report, seen>>

FetchOpenedLate ==  \* mutant: the array "check" is not opened
  IF On("debug") THEN Append(log, "object") ELSE log

(* A debug build logs a fetch in an object of its own, a "func" build its  *)
(* traces in the array "check" there.                                      *)
FetchOpened ==
  IF On("func") THEN Append(Append(log, "object"), "array")
  ELSE IF On("debug") THEN Append(log, "object") ELSE log

(* analyzeFetch up to the loop over the traces. *)
Begin(f) ==
  /\ pc = "fetches"
  /\ f \in pending
  /\ IF On("debug") /\ ~CanAppend
       THEN Abort
       ELSE /\ pc' = "traces"
            /\ pending' = pending \ {f}
            /\ fetch' = {f}
            /\ traces' \in 0..MaxTraces
            /\ log' = FetchOpened
            /\ UNCHANGED <<build, passed, result, failed, report, seen>>

NextTrace ==
  /\ pc = "traces"
  /\ traces > 0
  /\ pc' = "trace"
  /\ traces' = traces - 1
  /\ passed' = {}
  /\ UNCHANGED <<build, pending, fetch, result, failed, log, report, seen>>

(* addResult: an entry is added if there is none; for a higher rank the    *)
(* code calls insert again, which leaves an existing entry of a map alone. *)
Entered(old, res) == IF old = None THEN res ELSE old

FailuresCleared(p, res) ==  \* mutant: a later outcome clears the error
  IF res = "symerr" THEN failed \cup {p} ELSE failed \ {p}

FailuresOfKnown(p, res) ==  \* mutant: not when the pair has no result yet
  IF res = "symerr" /\ result[p] # None THEN failed \cup {p} ELSE failed

(* addResult keeps every pair that had a symbolic error. *)
Failures(p, res) == IF res = "symerr" THEN failed \cup {p} ELSE failed

(* One check on a trace.  A "dump" build logs a trace that overlaps, in an *)
(* object it appends to the value under the cursor and closes again.       *)
Check(f, o, res) ==
  /\ pc = "trace"
  /\ f \in fetch
  /\ o \in Fetches \ (fetch \cup passed)
  /\ passed' = passed \cup {o}
  /\ result' = [result EXCEPT ![<<f, o>>] = Entered(@, res)]
  /\ failed' = Failures(<<f, o>>, res)
  /\ seen' = [seen EXCEPT ![<<f, o>>] = @ \cup {res}]
  /\ pc' = IF res = "sat" /\ On("dump") /\ ~CanAppend THEN "abort" ELSE pc
  /\ UNCHANGED <<build, pending, fetch, traces, log, report>>

EndTrace ==
  /\ pc = "trace"
  /\ pc' = "traces"
  /\ UNCHANGED <<build, pending, fetch, traces, passed, result, failed, log,
                 report, seen>>

FetchClosedOnce ==  \* mutant: the array "check" is left open
  IF On("debug") THEN Popped(log) ELSE log

(* The array "check" and the object of the fetch are closed. *)
FetchClosed ==
  IF On("func") THEN Popped(Popped(log))
  ELSE IF On("debug") THEN Popped(log) ELSE log

End ==
  /\ pc = "traces"
  /\ traces = 0
  /\ pc' = "fetches"
  /\ fetch' = {}
  /\ passed' = {}
  /\ log' = FetchClosed
  /\ UNCHANGED <<build, pending, traces, result, failed, report, seen>>

Count(res) == Cardinality({k \in Pairs : result[k] = res})

(* run() closes the array "fetch"; a "func" build logs the counts in the   *)
(* object "result".                                                        *)
Finish ==
  LET closed == IF On("debug") THEN Popped(log) ELSE log
  IN  /\ pc = "fetches"
      /\ pending = {}
      /\ IF On("func") /\ closed[Len(closed)] # "object"
           THEN Abort
           ELSE /\ pc' = "done"
                /\ log' = closed
                /\ report' =
                     IF On("func")
                       THEN [total |-> Cardinality({k \in Pairs :
                                                      result[k] # None}),
                             error |-> Cardinality(failed),
                             sat   |-> Count("sat"),
                             uns   |-> Count("unsat"),
                             udf   |-> Count("undef")]
                       ELSE report
                /\ UNCHANGED <<build, pending, fetch, traces, passed, result,
                               failed, seen>>

Step ==
  \/ Run
  \/ \E f \in pending : Begin(f)
  \/ NextTrace
  \/ \E f \in fetch : \E o \in Fetches : \E res \in Outcomes : Check(f, o, res)
  \/ EndTrace
  \/ End
  \/ Finish

Stopped == pc \in {"done", "abort"} /\ UNCHANGED vars

Next == Step \/ Stopped

(* The pass is sequential: it goes on as long as it can. *)
Spec == Init /\ [][Next]_vars /\ WF_vars(Step)

------------------------------------------------------------------------------
(* Properties. *)

TypeOK ==
  /\ build \in Builds
  /\ pc \in {"start", "fetches", "traces", "trace", "done", "abort"}
  /\ pending \subseteq Fetches
  /\ fetch \subseteq Fetches
  /\ traces \in 0..MaxTraces
  /\ passed \subseteq Fetches
  /\ result \in [Pairs -> Outcomes \cup {None}]
  /\ failed \subseteq Pairs
  /\ log \in Seq({"array", "object"})
  /\ report \in [{"total", "error", "sat", "uns", "udf"} -> Nat]
  /\ seen \in [Pairs -> SUBSET Outcomes]

(* The two records of a check agree with what was observed: a pair has a   *)
(* result exactly when it was checked, the result is one of its outcomes,  *)
(* and a pair with a symbolic error on any trace is in failed, whatever    *)
(* the other traces said before or after.                                  *)
ResultsObserved ==
  /\ \A k \in Pairs : IF seen[k] = {} THEN result[k] = None
                      ELSE result[k] \in seen[k]
  /\ failed = {k \in Pairs : "symerr" \in seen[k]}

(* What the log looks like outside the array "fetch", in it, and while a   *)
(* fetch is analyzed: an object per fetch, in it the array "check" of a    *)
(* "func" build.                                                           *)
BaseLog == <<"object", "object">>
ListLog == IF On("debug") THEN Append(BaseLog, "array") ELSE BaseLog
FetchLog ==
  IF On("func") THEN Append(Append(ListLog, "object"), "array")
  ELSE IF On("debug") THEN Append(ListLog, "object") ELSE ListLog

(* The cursor of the logger is in every phase where that phase of a "func" *)
(* build expects it: fetches are appended to the array "fetch", and the    *)
(* result is added to the object of the function.                          *)
LogShape ==
  /\ pc \in {"start", "done"} => log = BaseLog
  /\ pc = "fetches" => log = ListLog
  /\ pc \in {"traces", "trace"} => log = FetchLog

(* The logger's assertions fail in no build but one: the trace a "dump"    *)
(* build logs is appended to the array "check", which only a "func" build  *)
(* opens (Func.cpp:120 and 238), so this build stops at the first overlap  *)
(* it finds, and only there.                                               *)
OnlyDumpAborts ==
  (pc = "abort") = (On("dump") /\ \E k \in Pairs : "sat" \in seen[k])

(* The counts in the report of a "func" build: a pair is counted under at  *)
(* most one outcome, and a pair counted nowhere else is an error.          *)
ReportAddsUp ==
  (pc = "done" /\ On("func")) =>
    /\ report.sat + report.uns + report.udf <= report.total
    /\ report.total <= report.sat + report.uns + report.udf + report.error
    /\ report.error <= report.total

(* "if in higher rank, override" (Func.cpp:61): the result of a pair is    *)
(* the highest of the ranks any trace found for it.                        *)
HighestRankKept ==
  \A k \in Pairs : \A res \in seen[k] : Rank[result[k]] <= Rank[res]

==============================================================================
