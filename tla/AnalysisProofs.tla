--------------------------- MODULE AnalysisProofs ---------------------------
(***************************************************************************)
(* Proofs about the analysis of a function.  FuncHandle, which collects    *)
(* the outcomes, for any number of fetches and of traces; Regions, the     *)
(* layout of the memory the solver works on, for every layout and any      *)
(* number of objects; Derive, the symbols of a trace, for machines of any  *)
(* width and programs of any length.                                       *)
(***************************************************************************)
EXTENDS FuncHandle, Derive, SequenceTheorems, FiniteSetTheorems, FunctionTheorems,
        WellFoundedInduction, TLAPS

------------------------------------------------------------------------------
(* The collecting of the outcomes. *)

(* Closing the JSON value opened last gives back the log before. *)
LEMMA PoppedAppend ==
  ASSUME NEW S, NEW s \in Seq(S), NEW e \in S
  PROVE  Popped(Append(s, e)) = s
<1>1. Append(s, e) = s \o <<e>> /\ Len(Append(s, e)) = Len(s) + 1
  BY AppendIsConcat, AppendProperties
<1>2. Len(s) \in Nat /\ <<e>> \in Seq(S) /\ s \o <<e>> \in Seq(S)
  OBVIOUS
<1>3. Popped(Append(s, e)) = SubSeq(s \o <<e>>, 1, Len(s))
  BY <1>1, <1>2 DEF Popped
<1>4. CASE s = <<>>
  <2>1. SubSeq(s \o <<e>>, 1, 0) = <<>>
    BY <1>2, SubSeqEmpty
  <2>. QED
    BY <1>3, <1>4, <2>1
<1>5. CASE Len(s) > 0
  <2>1. SubSeq(s \o <<e>>, 1, Len(s)) = SubSeq(s, 1, Len(s))
    BY <1>2, <1>5, SubSeqOfConcat1
  <2>2. SubSeq(s, 1, Len(s)) = s
    BY SubSeqFull
  <2>. QED
    BY <1>3, <2>1, <2>2
<1>. QED
  BY <1>2, <1>4, <1>5

LEMMA PoppedType ==
  ASSUME NEW S, NEW s \in Seq(S)
  PROVE  Popped(s) \in Seq(S)
<1>1. CASE s = <<>>
  BY <1>1, SubSeqEmpty DEF Popped
<1>2. CASE s # <<>>
  BY <1>2, SubSeqProperties DEF Popped
<1>. QED
  BY <1>1, <1>2

(* The cursor is at the value opened last. *)
LEMMA LastAppended ==
  ASSUME NEW S, NEW s \in Seq(S), NEW e \in S
  PROVE  Append(s, e)[Len(Append(s, e))] = e
<1>1. Len(Append(s, e)) = Len(s) + 1 /\ Append(s, e)[Len(s) + 1] = e
  BY AppendProperties
<1>. QED
  BY <1>1

LEMMA CountIsNat ==
  ASSUME NEW S \in SUBSET Pairs
  PROVE  Cardinality(S) \in Nat
<1>1. IsFiniteSet(Pairs)
  BY FetchesAssumption, FS_Product DEF Pairs
<1>. QED
  BY <1>1, FS_Subset, FS_CardinalityType

------------------------------------------------------------------------------

(* Every step of the analysis keeps the types. *)
LEMMA TypeStep == TypeOK /\ [Next]_vars => TypeOK'
<1> SUFFICES ASSUME TypeOK, [Next]_vars
             PROVE  TypeOK'
  OBVIOUS
<1>. USE DEF TypeOK
<1>1. CASE Run
  <2>1. Append(log, "array") \in Seq({"array", "object"})
    OBVIOUS
  <2>. QED
    BY <1>1, <2>1 DEF Run, Abort
<1>2. ASSUME NEW f \in pending, Begin(f)
      PROVE  TypeOK'
  <2>1. /\ Append(log, "object") \in Seq({"array", "object"})
        /\ Append(Append(log, "object"), "array") \in Seq({"array", "object"})
    OBVIOUS
  <2>. QED
    BY <1>2, <2>1 DEF Begin, FetchOpened, Abort
<1>3. CASE NextTrace
  BY <1>3, MaxTracesAssumption DEF NextTrace
<1>4. ASSUME NEW f \in fetch, NEW o \in Fetches, NEW res \in Outcomes,
             Check(f, o, res)
      PROVE  TypeOK'
  <2>1. <<f, o>> \in Pairs
    BY DEF Pairs
  <2>2. result' \in [Pairs -> Outcomes \cup {None}]
    BY <1>4, <2>1 DEF Check, Entered
  <2>3. failed' \subseteq Pairs /\ seen' \in [Pairs -> SUBSET Outcomes]
    BY <1>4, <2>1 DEF Check, Failures
  <2>4. pc' \in {"start", "fetches", "traces", "trace", "done", "abort"}
    BY <1>4 DEF Check
  <2>. QED
    BY <1>4, <2>2, <2>3, <2>4 DEF Check
<1>5. CASE EndTrace
  BY <1>5 DEF EndTrace
<1>6. CASE End
  <2>1. /\ Popped(log) \in Seq({"array", "object"})
        /\ Popped(Popped(log)) \in Seq({"array", "object"})
    BY PoppedType
  <2>. QED
    BY <1>6, <2>1 DEF End, FetchClosed
<1>7. CASE Finish
  <2>1. Popped(log) \in Seq({"array", "object"})
    BY PoppedType
  <2>2. /\ Cardinality({k \in Pairs : result[k] # None}) \in Nat
        /\ Cardinality(failed) \in Nat
        /\ \A res \in Outcomes : Count(res) \in Nat
    BY CountIsNat DEF Count
  <2>3. report' \in [{"total", "error", "sat", "uns", "udf"} -> Nat]
    BY <1>7, <2>2 DEF Finish, Abort, Outcomes
  <2>. QED
    BY <1>7, <2>1, <2>3 DEF Finish, Abort
<1>8. CASE Stopped \/ UNCHANGED vars
  BY <1>8 DEF Stopped, vars
<1>. QED
  BY <1>1, <1>2, <1>3, <1>4, <1>5, <1>6, <1>7, <1>8 DEF Next, Step

(* Every variable of the analysis keeps its type. *)
THEOREM TypeCorrect == Spec => []TypeOK
<1>1. Init => TypeOK
  BY MaxTracesAssumption DEF Init, TypeOK, NoReport
<1>2. TypeOK /\ [Next]_vars => TypeOK'
  BY TypeStep
<1>. QED
  BY <1>1, <1>2, PTL DEF Spec

------------------------------------------------------------------------------

(* What is recorded for a pair is an outcome of its checks, and a symbolic *)
(* error is never forgotten.                                               *)
THEOREM ResultsCorrect == Spec => []ResultsObserved
<1>1. Init => ResultsObserved
  BY DEF Init, ResultsObserved
<1>2. TypeOK /\ ResultsObserved /\ [Next]_vars => ResultsObserved'
  <2> SUFFICES ASSUME TypeOK, ResultsObserved, [Next]_vars
               PROVE  ResultsObserved'
    OBVIOUS
  <2>1. ASSUME NEW f \in fetch, NEW o \in Fetches, NEW res \in Outcomes,
               Check(f, o, res)
        PROVE  ResultsObserved'
    <3>. DEFINE p == <<f, o>>
    <3>1. p \in Pairs
      BY DEF Pairs, TypeOK
    <3>2. /\ result' = [result EXCEPT ![p] = Entered(result[p], res)]
          /\ seen' = [seen EXCEPT ![p] = seen[p] \cup {res}]
          /\ failed' = IF res = "symerr" THEN failed \cup {p} ELSE failed
      BY <2>1 DEF Check, Failures
    <3>. HIDE DEF p
    <3>3. ASSUME NEW k \in Pairs
          PROVE  /\ IF seen'[k] = {} THEN result'[k] = None
                    ELSE result'[k] \in seen'[k]
                 /\ k \in failed' <=> "symerr" \in seen'[k]
      <4>1. CASE k = p
        BY <3>1, <3>2, <4>1 DEF TypeOK, ResultsObserved, Entered, Outcomes, None
      <4>2. CASE k # p
        BY <3>1, <3>2, <4>2 DEF TypeOK, ResultsObserved
      <4>. QED
        BY <4>1, <4>2
    <3>4. failed' \subseteq Pairs
      BY <3>1, <3>2 DEF TypeOK
    <3>. QED
      BY <3>3, <3>4 DEF ResultsObserved
  <2>2. CASE UNCHANGED <<result, failed, seen>>
    BY <2>2 DEF ResultsObserved
  <2>. QED
    BY <2>1, <2>2
    DEF Next, Step, Run, Begin, NextTrace, EndTrace, End, Finish, Abort,
        Stopped, vars
<1>. QED
  BY <1>1, <1>2, TypeCorrect, PTL DEF Spec

------------------------------------------------------------------------------

ValueKinds == {"array", "object"}

(* The logs of the phases, and what closing and the cursor give in each. *)
LEMMA LogFacts ==
  /\ BaseLog \in Seq(ValueKinds) /\ ListLog \in Seq(ValueKinds) /\ FetchLog \in Seq(ValueKinds)
  /\ BaseLog[Len(BaseLog)] = "object"
  /\ On("debug") => /\ ListLog[Len(ListLog)] = "array"
                    /\ Popped(ListLog) = BaseLog
  /\ On("func") => /\ FetchLog[Len(FetchLog)] = "array"
                   /\ Popped(Popped(FetchLog)) = ListLog
  /\ On("debug") /\ ~ On("func") => Popped(FetchLog) = ListLog
<1>1. "array" \in ValueKinds /\ "object" \in ValueKinds
  BY DEF ValueKinds
<1>2. BaseLog \in Seq(ValueKinds) /\ BaseLog[Len(BaseLog)] = "object"
  BY <1>1 DEF BaseLog
<1>3. ListLog \in Seq(ValueKinds)
  BY <1>1, <1>2, AppendProperties DEF ListLog
<1>4. On("debug") => /\ ListLog[Len(ListLog)] = "array"
                    /\ Popped(ListLog) = BaseLog
  BY <1>1, <1>2, LastAppended, PoppedAppend DEF ListLog
<1>. DEFINE item == Append(ListLog, "object")
<1>5. item \in Seq(ValueKinds) /\ Popped(item) = ListLog
  BY <1>1, <1>3, AppendProperties, PoppedAppend
<1>6. /\ Append(item, "array") \in Seq(ValueKinds)
      /\ Popped(Append(item, "array")) = item
      /\ Append(item, "array")[Len(Append(item, "array"))] = "array"
  <2>. HIDE DEF item
  <2>. QED
    BY <1>1, <1>5, AppendProperties, PoppedAppend, LastAppended
<1>7. FetchLog = IF On("func") THEN Append(item, "array")
                 ELSE IF On("debug") THEN item ELSE ListLog
  BY DEF FetchLog
<1>. HIDE DEF item
<1>. QED
  BY <1>2, <1>3, <1>4, <1>5, <1>6, <1>7

(* Every step leaves the cursor where the next phase expects it. *)
LEMMA LogStep == TypeOK /\ LogShape /\ [Next]_vars => LogShape'
<1> SUFFICES ASSUME TypeOK, LogShape, [Next]_vars
             PROVE  LogShape'
  OBVIOUS
<1>1. build' = build
  BY DEF Next, Step, Run, Begin, NextTrace, Check, EndTrace, End, Finish, Abort,
         Stopped, vars
<1>2. BaseLog' = BaseLog /\ ListLog' = ListLog /\ FetchLog' = FetchLog
  <2>1. \A item : On(item)' = On(item)
    BY <1>1 DEF On
  <2>2. BaseLog' = BaseLog
    BY DEF BaseLog
  <2>3. ListLog' = ListLog
    BY <2>1, <2>2 DEF ListLog
  <2>. QED
    BY <2>1, <2>2, <2>3 DEF FetchLog
<1>3. "func" \in build => "debug" \in build
  BY BuildsAssumption DEF TypeOK, Items
<1>4. CASE Run
  <2>1. (IF On("debug") THEN Append(log, "array") ELSE log) = ListLog
    BY <1>4 DEF Run, LogShape, ListLog
  <2>2. pc' = "abort" \/ (pc' = "fetches" /\ log' = ListLog)
    BY <1>4, <2>1 DEF Run, Abort
  <2>. QED
    BY <1>2, <2>2 DEF LogShape
<1>5. ASSUME NEW f \in pending, Begin(f)
      PROVE  LogShape'
  <2>1. log = ListLog
    BY <1>5 DEF Begin, LogShape
  <2>2. FetchOpened = FetchLog
    BY <2>1 DEF FetchOpened, FetchLog
  <2>. QED
    BY <1>2, <1>5, <2>2 DEF Begin, Abort, LogShape
<1>6. CASE NextTrace \/ EndTrace
  BY <1>2, <1>6 DEF NextTrace, EndTrace, LogShape
<1>7. ASSUME NEW f \in fetch, NEW o \in Fetches, NEW res \in Outcomes,
             Check(f, o, res)
      PROVE  LogShape'
  BY <1>2, <1>7 DEF Check, LogShape
<1>8. CASE End
  <2>1. log = FetchLog /\ log' = FetchClosed /\ pc' = "fetches"
    BY <1>8 DEF End, LogShape
  <2>2. FetchClosed = ListLog
    BY <1>3, <2>1, LogFacts DEF FetchClosed, On, FetchLog
  <2>. QED
    BY <1>2, <2>1, <2>2 DEF LogShape
<1>9. CASE Finish
  <2>1. log = ListLog
    BY <1>9 DEF Finish, LogShape
  <2>2. (IF On("debug") THEN Popped(log) ELSE log) = BaseLog
    BY <2>1, LogFacts DEF ListLog
  <2>. QED
    BY <1>2, <1>9, <2>2 DEF Finish, Abort, LogShape
<1>10. CASE Stopped \/ UNCHANGED vars
  BY <1>2, <1>10 DEF Stopped, LogShape, vars
<1>. QED
  BY <1>4, <1>5, <1>6, <1>7, <1>8, <1>9, <1>10 DEF Next, Step

(* In every phase of the analysis the cursor of the logger is where the    *)
(* code expects it, and what the analysis of a fetch opens it closes.      *)
THEOREM LogCorrect == Spec => []LogShape
<1>1. Init => LogShape
  BY DEF Init, LogShape, BaseLog
<1>2. TypeOK /\ LogShape /\ [Next]_vars => LogShape'
  BY LogStep
<1>. QED
  BY <1>1, <1>2, TypeCorrect, PTL DEF Spec

(* The assertions of the logger hold in every build but the one that logs  *)
(* traces, and fail there as soon as two fetches overlap on a trace.       *)
THEOREM AbortsCorrect == Spec => []OnlyDumpAborts
<1>1. Init => OnlyDumpAborts
  BY DEF Init, OnlyDumpAborts, Pairs
<1>2. TypeOK /\ LogShape /\ OnlyDumpAborts /\ [Next]_vars => OnlyDumpAborts'
  <2> SUFFICES ASSUME TypeOK, LogShape, OnlyDumpAborts, [Next]_vars
               PROVE  OnlyDumpAborts'
    OBVIOUS
  <2>1. On("func") => On("debug") /\ ~On("dump")
    BY BuildsAssumption DEF TypeOK, On, Items
  <2>2. On("dump") => On("debug") /\ ~On("func")
    BY BuildsAssumption DEF TypeOK, On, Items
  <2>3. CASE Run
    <3>1. log = BaseLog
      BY <2>3 DEF Run, LogShape
    <3>2. build' = build /\ seen' = seen /\ pc # "abort" /\ pc' # "abort"
      BY <2>3, <3>1, LogFacts DEF Run, CanAddKey, Cursor
    <3>. QED
      BY <3>2 DEF OnlyDumpAborts, On
  <2>4. ASSUME NEW f \in pending, Begin(f)
        PROVE  OnlyDumpAborts'
    <3>1. log = ListLog
      BY <2>4 DEF Begin, LogShape
    <3>2. build' = build /\ seen' = seen /\ pc # "abort" /\ pc' # "abort"
      BY <2>4, <3>1, LogFacts DEF Begin, CanAppend, Cursor
    <3>. QED
      BY <3>2 DEF OnlyDumpAborts, On
  <2>5. ASSUME NEW f \in fetch, NEW o \in Fetches, NEW res \in Outcomes,
               Check(f, o, res)
        PROVE  OnlyDumpAborts'
    <3>1. /\ pc = "trace" /\ build' = build /\ log = FetchLog
          /\ seen' = [seen EXCEPT ![<<f, o>>] = @ \cup {res}]
          /\ pc' = IF res = "sat" /\ On("dump") /\ ~CanAppend THEN "abort" ELSE pc
      BY <2>5 DEF Check, LogShape
    <3>2. On("dump") => ~CanAppend
      <4>1. On("dump") => log = Append(ListLog, "object")
        BY <2>2, <3>1 DEF FetchLog
      <4>2. Append(ListLog, "object")[Len(Append(ListLog, "object"))] = "object"
        BY LogFacts, LastAppended DEF ValueKinds
      <4>. QED
        BY <4>1, <4>2 DEF CanAppend, Cursor
    <3>3. <<f, o>> \in Pairs /\ seen \in [Pairs -> SUBSET Outcomes]
      BY DEF Pairs, TypeOK
    <3>4. On("dump") => \A k \in Pairs : "sat" \notin seen[k]
      BY <3>1 DEF OnlyDumpAborts
    <3>5. On("dump") => ((\E k \in Pairs : "sat" \in seen'[k]) <=> res = "sat")
      BY <3>1, <3>3, <3>4
    <3>. QED
      BY <3>1, <3>2, <3>5 DEF OnlyDumpAborts, On
  <2>6. CASE Finish
    <3>1. log = ListLog
      BY <2>6 DEF Finish, LogShape
    <3>2. (IF On("debug") THEN Popped(log) ELSE log) = BaseLog
      BY <3>1, LogFacts DEF ListLog
    <3>3. build' = build /\ seen' = seen /\ pc # "abort" /\ pc' # "abort"
      BY <2>6, <3>2, LogFacts DEF Finish
    <3>. QED
      BY <3>3 DEF OnlyDumpAborts, On
  <2>7. CASE NextTrace \/ EndTrace \/ End \/ Stopped \/ UNCHANGED vars
    <3>1. build' = build /\ seen' = seen /\ (pc' = "abort" <=> pc = "abort")
      BY <2>7 DEF NextTrace, EndTrace, End, Stopped, vars
    <3>. QED
      BY <3>1 DEF OnlyDumpAborts, On
  <2>. QED
    BY <2>3, <2>4, <2>5, <2>6, <2>7 DEF Next, Step
<1>. QED
  BY <1>1, <1>2, TypeCorrect, LogCorrect, PTL DEF Spec

------------------------------------------------------------------------------

(* The pairs with a result are counted under exactly one of the outcomes.  *)
LEMMA CountsOfOutcomes ==
  ASSUME TypeOK
  PROVE  Cardinality({k \in Pairs : result[k] # None})
           = Count("sat") + Count("unsat") + Count("undef") + Count("symerr")
<1>. DEFINE Of(res) == {k \in Pairs : result[k] = res}
            checked == {k \in Pairs : result[k] # None}
<1>1. IsFiniteSet(Pairs)
  BY FetchesAssumption, FS_Product DEF Pairs
<1>2. \A res : IsFiniteSet(Of(res))
  BY <1>1, FS_Subset
<1>3. \A res : Count(res) = Cardinality(Of(res))
  BY DEF Count
<1>4. /\ checked = ((Of("sat") \cup Of("unsat")) \cup Of("undef")) \cup Of("symerr")
      /\ Of("sat") \cap Of("unsat") = {}
      /\ (Of("sat") \cup Of("unsat")) \cap Of("undef") = {}
      /\ ((Of("sat") \cup Of("unsat")) \cup Of("undef")) \cap Of("symerr") = {}
  BY DEF TypeOK, Outcomes, None
<1>. HIDE DEF Of, checked
<1>5. \A res : Cardinality(Of(res)) \in Nat
  BY <1>2, FS_CardinalityType
<1>6. /\ IsFiniteSet(Of("sat") \cup Of("unsat"))
      /\ Cardinality(Of("sat") \cup Of("unsat"))
           = Cardinality(Of("sat")) + Cardinality(Of("unsat")) - Cardinality({})
  BY <1>2, <1>4, FS_Union
<1>7. /\ IsFiniteSet((Of("sat") \cup Of("unsat")) \cup Of("undef"))
      /\ Cardinality((Of("sat") \cup Of("unsat")) \cup Of("undef"))
           = Cardinality(Of("sat") \cup Of("unsat")) + Cardinality(Of("undef"))
             - Cardinality({})
  BY <1>2, <1>4, <1>6, FS_Union
<1>8. Cardinality(checked)
        = Cardinality((Of("sat") \cup Of("unsat")) \cup Of("undef"))
          + Cardinality(Of("symerr")) - Cardinality({})
  BY <1>2, <1>4, <1>7, FS_Union
<1>9. Cardinality({}) = 0
  BY FS_EmptySet
<1>10. Cardinality(checked) = Count("sat") + Count("unsat") + Count("undef")
                                + Count("symerr")
  BY <1>3, <1>5, <1>6, <1>7, <1>8, <1>9
<1>. QED
  BY <1>10 DEF checked

(* The report counts every pair that was checked under one outcome or as   *)
(* an error, whatever its traces said and in whatever order they came.     *)
THEOREM ReportCorrect == Spec => []ReportAddsUp
<1>1. Init => ReportAddsUp
  BY DEF Init, ReportAddsUp
<1>2. TypeOK /\ ResultsObserved /\ ReportAddsUp /\ [Next]_vars => ReportAddsUp'
  <2> SUFFICES ASSUME TypeOK, ResultsObserved, ReportAddsUp, [Next]_vars
               PROVE  ReportAddsUp'
    OBVIOUS
  <2>1. ASSUME Finish, pc' = "done", On("func")
        PROVE  ReportAddsUp'
    <3>. DEFINE checked == {k \in Pairs : result[k] # None}
                wrong   == {k \in Pairs : result[k] = "symerr"}
    <3>1. report' = [total |-> Cardinality(checked), error |-> Cardinality(failed),
                     sat |-> Count("sat"), uns |-> Count("unsat"),
                     udf |-> Count("undef")]
      BY <2>1 DEF Finish, Abort
    <3>2. wrong \subseteq failed /\ failed \subseteq checked
      BY DEF ResultsObserved, TypeOK, None, Outcomes
    <3>3. /\ Cardinality(checked) \in Nat /\ Cardinality(failed) \in Nat
          /\ Count("sat") \in Nat /\ Count("unsat") \in Nat
          /\ Count("undef") \in Nat /\ Cardinality(wrong) \in Nat
      BY CountIsNat DEF Count, TypeOK
    <3>4. IsFiniteSet(Pairs) /\ checked \subseteq Pairs
      BY FetchesAssumption, FS_Product DEF Pairs
    <3>5. IsFiniteSet(checked) /\ IsFiniteSet(failed)
      BY <3>2, <3>4, FS_Subset
    <3>6. Cardinality(wrong) <= Cardinality(failed)
          /\ Cardinality(failed) <= Cardinality(checked)
      BY <3>2, <3>5, FS_Subset
    <3>7. Cardinality(checked) = Count("sat") + Count("unsat") + Count("undef")
                                   + Cardinality(wrong)
      BY CountsOfOutcomes DEF Count
    <3>. HIDE DEF checked, wrong
    <3>. QED
      BY <3>1, <3>3, <3>6, <3>7 DEF ReportAddsUp
  <2>2. CASE UNCHANGED <<build, report>> /\ (pc = "done" \/ pc' # "done")
    BY <2>2 DEF ReportAddsUp, On
  <2>3. CASE build' = build /\ ~ On("func")
    BY <2>3 DEF ReportAddsUp, On
  <2>4. build' = build
    BY DEF Next, Step, Run, Begin, NextTrace, Check, EndTrace, End, Finish,
           Abort, Stopped, vars
  <2>5. CASE Finish
    BY <2>1, <2>2, <2>3, <2>4, <2>5 DEF Finish, Abort
  <2>6. CASE Stopped \/ UNCHANGED vars
    BY <2>2, <2>6 DEF Stopped, vars
  <2>7. ASSUME NEW f \in fetch, NEW o \in Fetches, NEW res \in Outcomes,
               Check(f, o, res)
        PROVE  UNCHANGED <<build, report>> /\ pc' # "done"
    BY <2>7 DEF Check
  <2>8. CASE Run \/ (\E f \in pending : Begin(f)) \/ NextTrace \/ EndTrace \/ End
    BY <2>2, <2>8 DEF Run, Begin, NextTrace, EndTrace, End, Abort
  <2>. QED
    BY <2>2, <2>5, <2>6, <2>7, <2>8 DEF Next, Step
<1>. QED
  BY <1>1, <1>2, TypeCorrect, ResultsCorrect, PTL DEF Spec

------------------------------------------------------------------------------
(* The objects of a satisfying assignment lie in their regions and apart.  *)

Slots == [kind : Kinds, at : Nat]

RegionsTypeOK ==
  /\ next \in [Kinds -> Nat]
  /\ given \in SUBSET Slots
  /\ wrapped \in SUBSET Kinds
  /\ completed \in BOOLEAN

(* As long as the pointer of a kind has not come past the end, the slots   *)
(* of that kind lie between the base and the pointer, and apart.           *)
Below(k) ==
  /\ Base[k] <= next[k]
  /\ \A s \in given :
       s.kind = k =>
         /\ Base[k] <= s.at /\ s.at + SlotLen[k] <= next[k]
         /\ \A t \in given : t.kind = k => s = t \/ Clear(s, t) \/ Clear(t, s)

RegionsInv == RegionsTypeOK /\ \A k \in Kinds \ wrapped : Below(k)

(* The regions follow one another.                                         *)
LEMMA LayoutOrdered ==
  /\ Base \in [Kinds -> Nat]
  /\ \A k \in Kinds : Term(k) \in Nat
  /\ Term("stack") < Base["extern"]
  /\ Term("extern") < Base["heap"]
  /\ Base["stack"] <= Term("stack")
  /\ Base["extern"] <= Term("extern")
<1>. DEFINE stack == SlotLen["stack"] * SlotNum["stack"]
            extern == SlotLen["extern"] * SlotNum["extern"]
            heap == SlotLen["heap"] * SlotNum["heap"]
<1>1. /\ SlotLen["stack"] \in Nat \ {0} /\ SlotNum["stack"] \in Nat
      /\ SlotLen["extern"] \in Nat \ {0} /\ SlotNum["extern"] \in Nat
      /\ SlotLen["heap"] \in Nat \ {0} /\ SlotNum["heap"] \in Nat
      /\ Page \in Nat
  BY LayoutAssumption DEF Kinds
<1>2. stack \in Nat /\ extern \in Nat /\ heap \in Nat
  BY <1>1
<1>3. /\ StackBase = Page + SlotLen["stack"]
      /\ StackTerm = StackBase + stack
      /\ ExternBase = StackTerm + SlotLen["extern"]
      /\ ExternTerm = ExternBase + extern
      /\ HeapBase = ExternTerm + SlotLen["heap"]
      /\ HeapTerm = HeapBase + heap
  BY DEF StackBase, StackTerm, ExternBase, ExternTerm, HeapBase, HeapTerm
<1>. HIDE DEF stack, extern, heap
<1>4. /\ Base["stack"] = StackBase /\ Term("stack") = StackTerm
      /\ Base["extern"] = ExternBase /\ Term("extern") = ExternTerm
      /\ Base["heap"] = HeapBase /\ Term("heap") = HeapTerm
  BY DEF Base, Term, Kinds
<1>5. /\ StackBase \in Nat /\ StackTerm \in Nat /\ ExternBase \in Nat
      /\ ExternTerm \in Nat /\ HeapBase \in Nat /\ HeapTerm \in Nat
      /\ StackBase <= StackTerm /\ StackTerm < ExternBase
      /\ ExternBase <= ExternTerm /\ ExternTerm < HeapBase
  BY <1>1, <1>2, <1>3
<1>6. Base \in [Kinds -> Nat] /\ \A k \in Kinds : Term(k) \in Nat
  BY <1>4, <1>5 DEF Base, Kinds
<1>. QED
  BY <1>4, <1>5, <1>6

LEMMA RegionsInitInv == RegionsInit => RegionsInv
<1>. SUFFICES ASSUME RegionsInit PROVE RegionsInv
  OBVIOUS
<1>1. next \in [Kinds -> Nat]
  <2>1. \A x \in Nat : (x * Page) % Space \in Nat
    BY LayoutAssumption
  <2>2. {(x * Page) % Space : x \in Address} \subseteq Nat
    BY <2>1, LayoutAssumption DEF Address
  <2>3. PICK n \in [Kinds -> {(x * Page) % Space : x \in Address}] : next = n
    BY DEF RegionsInit
  <2>. QED
    BY <2>2, <2>3
<1>2. \A k \in Kinds : Base[k] <= next[k]
  BY DEF RegionsInit
<1>. QED
  BY <1>1, <1>2 DEF RegionsInit, RegionsInv, RegionsTypeOK, Below

LEMMA CreatePtrInv ==
  ASSUME RegionsInv, NEW k \in Kinds, CreatePtr(k)
  PROVE  RegionsInv'
<1>. DEFINE slot == [kind |-> k, at |-> next[k]]
<1>1. /\ next \in [Kinds -> Nat] /\ given \in SUBSET Slots
      /\ wrapped \in SUBSET Kinds /\ completed \in BOOLEAN
  BY DEF RegionsInv, RegionsTypeOK
<1>2. /\ SlotLen[k] \in Nat \ {0} /\ Space \in Nat \ {0} /\ next[k] \in Nat
      /\ Advance(k) \in Nat
  BY <1>1, LayoutAssumption DEF Advance
<1>3. /\ given' = given \cup {slot}
      /\ next' = [next EXCEPT ![k] = Advance(k)]
      /\ wrapped' = IF next[k] + SlotLen[k] < Space THEN wrapped ELSE wrapped \cup {k}
      /\ completed' = completed
  BY DEF CreatePtr
<1>4. slot \in Slots
  BY <1>2 DEF Slots
<1>5. RegionsTypeOK'
  BY <1>1, <1>2, <1>3, <1>4 DEF RegionsTypeOK
<1>6. ASSUME NEW j \in Kinds \ wrapped', j # k
      PROVE  Below(j)'
  <2>1. j \in Kinds \ wrapped
    BY <1>3, <1>6
  <2>2. Below(j)
    BY <2>1 DEF RegionsInv
  <2>3. next'[j] = next[j] /\ \A s \in given' : s.kind = j => s \in given
    BY <1>1, <1>3, <1>6
  <2>. QED
    BY <2>2, <2>3 DEF Below, Clear
<1>7. ASSUME k \notin wrapped'
      PROVE  Below(k)'
  <2>1. next[k] + SlotLen[k] < Space /\ k \notin wrapped
    BY <1>3, <1>7
  <2>2. next'[k] = next[k] + SlotLen[k]
    BY <1>1, <1>2, <1>3, <2>1 DEF Advance
  <2>3. Below(k)
    BY <2>1 DEF RegionsInv
  <2>4. Base[k] \in Nat
    BY LayoutOrdered
  <2>5. ASSUME NEW s \in given', s.kind = k
        PROVE  Base[k] <= s.at /\ s.at + SlotLen[k] <= next'[k]
    <3>1. CASE s = slot
      BY <3>1, <2>2, <2>3, <2>4, <1>2 DEF Below
    <3>2. CASE s \in given
      <4>1. s.at \in Nat
        BY <3>2, <1>1 DEF Slots
      <4>2. Base[k] <= s.at /\ s.at + SlotLen[k] <= next[k]
        BY <3>2, <2>3, <2>5 DEF Below
      <4>. QED
        BY <4>1, <4>2, <2>2, <1>2
    <3>. QED
      BY <3>1, <3>2, <2>5, <1>3
  <2>6. ASSUME NEW s \in given, s.kind = k
        PROVE  Clear(s, slot)
    BY <2>3, <2>6 DEF Below, Clear
  <2>7. ASSUME NEW s \in given', NEW t \in given', s.kind = k, t.kind = k
        PROVE  s = t \/ Clear(s, t) \/ Clear(t, s)
    <3>1. CASE s \in given /\ t \in given
      BY <3>1, <2>3, <2>7 DEF Below
    <3>2. CASE s = slot \/ t = slot
      BY <3>2, <2>6, <2>7, <1>3
    <3>. QED
      BY <3>1, <3>2, <1>3
  <2>8. Base[k] <= next'[k]
    BY <2>2, <2>3, <2>4, <1>2 DEF Below
  <2>. QED
    BY <2>5, <2>7, <2>8 DEF Below, Clear
<1>8. \A j \in Kinds \ wrapped' : Below(j)'
  BY <1>6, <1>7
<1>. QED
  BY <1>5, <1>8 DEF RegionsInv

LEMMA CompleteInv ==
  ASSUME RegionsInv, Complete \/ UNCHANGED regionVars
  PROVE  RegionsInv'
<1>1. /\ next' = next /\ given' = given /\ wrapped' = wrapped
      /\ completed' \in BOOLEAN
  BY DEF Complete, regionVars, RegionsInv, RegionsTypeOK
<1>. QED
  BY <1>1 DEF RegionsInv, RegionsTypeOK, Below, Clear

LEMMA RegionsInvariant == RegionsSpec => []RegionsInv
<1>1. RegionsInv /\ [RegionsNext]_regionVars => RegionsInv'
  BY CreatePtrInv, CompleteInv DEF RegionsNext, RegionsStopped
<1>. QED
  BY <1>1, RegionsInitInv, PTL DEF RegionsSpec

(* The invariant and the final assertions keep the slots apart.            *)
LEMMA InvImpliesApart == RegionsInv => SlotsApart
<1>. SUFFICES ASSUME RegionsInv, Satisfied, wrapped = {},
                     NEW s \in given
              PROVE  Inside(s) /\ \A t \in given : s = t \/ Clear(s, t) \/ Clear(t, s)
  BY DEF SlotsApart
<1>1. /\ next \in [Kinds -> Nat] /\ given \in SUBSET Slots
      /\ \A k \in Kinds : Below(k)
  BY DEF RegionsInv, RegionsTypeOK
<1>2. \A t \in given : t.kind \in Kinds /\ t.at \in Nat
  BY <1>1 DEF Slots
<1>3. \A k \in Kinds : SlotLen[k] \in Nat
  BY LayoutAssumption
<1>4. ASSUME NEW t \in given
      PROVE  Inside(t)
  <2>1. next[t.kind] \in Nat /\ Term(t.kind) \in Nat /\ next[t.kind] <= Term(t.kind)
    BY <1>1, <1>2, LayoutOrdered DEF Satisfied
  <2>2. Base[t.kind] <= t.at /\ t.at + SlotLen[t.kind] <= next[t.kind]
    BY <1>1, <1>2 DEF Below
  <2>. QED
    BY <2>1, <2>2, <1>2, <1>3 DEF Inside
<1>5. ASSUME NEW t \in given
      PROVE  s = t \/ Clear(s, t) \/ Clear(t, s)
  <2>1. CASE s.kind = t.kind
    BY <2>1, <1>1, <1>2 DEF Below
  <2>2. CASE s.kind # t.kind
    <3>1. Inside(s) /\ Inside(t)
      BY <1>4
    <3>2. Term(s.kind) < Base[t.kind] \/ Term(t.kind) < Base[s.kind]
      <4>1. /\ Base["stack"] \in Nat /\ Base["extern"] \in Nat /\ Base["heap"] \in Nat
            /\ Term("stack") \in Nat /\ Term("extern") \in Nat /\ Term("heap") \in Nat
        BY LayoutOrdered DEF Kinds
      <4>2. Term("stack") < Base["heap"]
        BY <4>1, LayoutOrdered
      <4>3. s.kind \in {"stack", "extern", "heap"} /\ t.kind \in {"stack", "extern", "heap"}
        BY <1>2 DEF Kinds
      <4>. QED
        BY <4>2, <4>3, <2>2, LayoutOrdered
    <3>3. /\ Term(s.kind) \in Nat /\ Term(t.kind) \in Nat
          /\ Base[s.kind] \in Nat /\ Base[t.kind] \in Nat
      BY <1>2, LayoutOrdered
    <3>. QED
      BY <3>1, <3>2, <3>3, <1>2, <1>3 DEF Inside, Clear
  <2>. QED
    BY <2>1, <2>2
<1>. QED
  BY <1>4, <1>5

(* SlotsApart for every layout: objects the solver may place share no      *)
(* address as long as no region pointer wraps (Symbolic.h incAndRetPtr and *)
(* SymExec::complete).                                                     *)
THEOREM RegionsApart == RegionsSpec => []SlotsApart
BY RegionsInvariant, InvImpliesApart, PTL

------------------------------------------------------------------------------

(* Addresses of a range that ends within the space do not wrap. *)
LEMMA CellsOfRange ==
  ASSUME NEW a \in Address, NEW n \in Nat, a + n < Space
  PROVE  Cells(a, n) = a..(a + n - 1)
<1>1. Space \in Nat /\ a \in Nat
  BY LayoutAssumption DEF Address
<1>2. ASSUME NEW k \in 0..(n - 1)
      PROVE  (a + k) % Space = a + k
  <2>1. a + k \in Nat /\ a + k < Space
    BY <1>1
  <2>. QED
    BY <1>1, <2>1
<1>3. Cells(a, n) = {a + k : k \in 0..(n - 1)}
  BY <1>2 DEF Cells
<1>4. ASSUME NEW x \in a..(a + n - 1)
      PROVE  x - a \in 0..(n - 1) /\ x = a + (x - a)
  BY <1>1
<1>5. \A k \in 0..(n - 1) : a + k \in a..(a + n - 1)
  BY <1>1
<1>. QED
  BY <1>3, <1>4, <1>5

(* The constraints of checkOverlap hold of two ranges that are not empty   *)
(* and end within the address space just when they have an address in      *)
(* common, whichever of the two is asked about first, on a machine of any  *)
(* size.                                                                   *)
THEOREM OverlapDecides ==
  ASSUME NEW s \in Address, NEW l \in Nat \ {0}, s + l < Space,
         NEW t \in Address, NEW m \in Nat \ {0}, t + m < Space
  PROVE  /\ Overlap(s, l, t, m) <=> Cells(s, l) \cap Cells(t, m) # {}
         /\ Overlap(s, l, t, m) <=> Overlap(t, m, s, l)
<1>1. Space \in Nat /\ s \in Nat /\ t \in Nat /\ l \in Nat /\ m \in Nat /\ l > 0 /\ m > 0
  BY LayoutAssumption DEF Address
<1>2. Cells(s, l) = s..(s + l - 1) /\ Cells(t, m) = t..(t + m - 1)
  BY CellsOfRange
<1>3. ASSUME Overlap(s, l, t, m)
      PROVE  Cells(s, l) \cap Cells(t, m) # {}
  <2>1. CASE t <= s /\ s < t + m
    <3>1. s \in s..(s + l - 1) /\ s \in t..(t + m - 1)
      BY <1>1, <2>1
    <3>. QED
      BY <1>2, <3>1
  <2>2. CASE s <= t /\ t < s + l
    <3>1. t \in s..(s + l - 1) /\ t \in t..(t + m - 1)
      BY <1>1, <2>2
    <3>. QED
      BY <1>2, <3>1
  <2>. QED
    BY <1>3, <2>1, <2>2 DEF Overlap
<1>4. ASSUME NEW x \in Cells(s, l) \cap Cells(t, m)
      PROVE  Overlap(s, l, t, m)
  <2>1. x \in Int /\ s <= x /\ x < s + l /\ t <= x /\ x < t + m
    BY <1>1, <1>2
  <2>. QED
    BY <1>1, <2>1 DEF Overlap
<1>. QED
  BY <1>1, <1>3, <1>4 DEF Overlap

(* A range of addresses within a slot. *)
Holds(x, s, l) == x.at <= s /\ s + l <= x.at + SlotLen[x.kind]

(* Fetches from different objects are not reported to overlap, wherever    *)
(* they read within their objects: not in an assignment the final test of  *)
(* the regions accepts and in which no pointer wrapped.                    *)
ObjectsApart ==
  completed /\ Satisfied /\ wrapped = {} =>
    \A x, y \in given : \A s, t \in Address : \A l, m \in Nat \ {0} :
      x # y /\ Holds(x, s, l) /\ Holds(y, t, m) => ~Overlap(s, l, t, m)

THEOREM FetchesApart == RegionsSpec => []ObjectsApart
<1>1. ASSUME RegionsInv, SlotsApart
      PROVE  ObjectsApart
  <2>1. SUFFICES ASSUME completed, Satisfied, wrapped = {},
                        NEW x \in given, NEW y \in given, x # y,
                        NEW s \in Address, NEW t \in Address,
                        NEW l \in Nat \ {0}, NEW m \in Nat \ {0},
                        Holds(x, s, l), Holds(y, t, m)
                 PROVE  ~Overlap(s, l, t, m)
    BY DEF ObjectsApart
  <2>2. Clear(x, y) \/ Clear(y, x)
    BY <1>1, <2>1 DEF SlotsApart
  <2>3. /\ s \in Nat /\ t \in Nat /\ x.at \in Nat /\ y.at \in Nat
        /\ SlotLen[x.kind] \in Nat /\ SlotLen[y.kind] \in Nat
    BY <1>1, LayoutAssumption DEF Address, RegionsInv, RegionsTypeOK, Slots
  <2>. QED
    BY <2>1, <2>2, <2>3 DEF Clear, Holds, Overlap
<1>2. RegionsInv /\ SlotsApart => ObjectsApart
  BY <1>1
<1>. QED
  BY <1>2, RegionsInvariant, RegionsApart, PTL

------------------------------------------------------------------------------
(* Numbers: powers of two, sums of digits, remainders.                     *)

(* A set of numbers has a least element.                                   *)
LEMMA LeastExists ==
  ASSUME NEW S \in SUBSET Nat, S # {}
  PROVE  \E m \in S : \A k \in S : m <= k
<1>. DEFINE R == StrictSubsetOrdering(Nat)
            T == {0..k : k \in S}
<1>1. IsWellFoundedOn(R, FiniteSubsetsOf(Nat))
  BY FS_StrictSubsetOrderingWellFounded
<1>2. T \subseteq FiniteSubsetsOf(Nat) /\ T # {}
  <2>1. ASSUME NEW k \in S
        PROVE  0..k \in FiniteSubsetsOf(Nat)
    <3>1. IsFiniteSet(0..k)
      BY FS_Interval
    <3>. QED
      BY <3>1 DEF FiniteSubsetsOf
  <2>. QED
    BY <2>1
<1>3. PICK x \in T : \A y \in T : ~ (<<y, x>> \in R)
  <2>. HIDE DEF R, T
  <2>. QED
    BY <1>1, <1>2, WFMin
<1>4. PICK m \in S : x = 0..m
  OBVIOUS
<1>5. ASSUME NEW k \in S, k < m
      PROVE  FALSE
  <2>1. 0..k \in SUBSET Nat /\ 0..m \in SUBSET Nat
    OBVIOUS
  <2>2. 0..k \subseteq 0..m /\ m \in 0..m /\ m \notin 0..k
    BY <1>5
  <2>3. <<0..k, 0..m>> \in R
    BY <2>1, <2>2 DEF StrictSubsetOrdering
  <2>. QED
    BY <1>3, <1>4, <2>3
<1>. QED
  BY <1>5

(* Powers of two count sets of bits.  From that they get all that is used  *)
(* of them.                                                                *)
LEMMA PowerCounts ==
  ASSUME NEW S, IsFiniteSet(S), NEW n \in Nat, Cardinality(S) = n
  PROVE  IsFiniteSet(SUBSET S) /\ Cardinality(SUBSET S) = 2^n
BY FS_SUBSET

LEMMA PowerPositive ==
  ASSUME NEW n \in Nat
  PROVE  2^n \in Nat \ {0} /\ 1 <= 2^n
<1>1. IsFiniteSet(1..n) /\ Cardinality(1..n) = n
  BY FS_Interval
<1>2. IsFiniteSet(SUBSET (1..n)) /\ Cardinality(SUBSET (1..n)) = 2^n
  BY <1>1, PowerCounts
<1>3. SUBSET (1..n) # {}
  OBVIOUS
<1>4. 2^n \in Nat /\ 2^n # 0
  BY <1>2, <1>3, FS_CardinalityType, FS_EmptySet
<1>. QED
  BY <1>4

LEMMA PowerGrows ==
  ASSUME NEW m \in Nat, NEW n \in Nat, m <= n
  PROVE  2^m <= 2^n
<1>1. /\ IsFiniteSet(1..n) /\ Cardinality(1..n) = n
      /\ IsFiniteSet(1..m) /\ Cardinality(1..m) = m
  BY FS_Interval
<1>2. /\ IsFiniteSet(SUBSET (1..n)) /\ Cardinality(SUBSET (1..n)) = 2^n
      /\ IsFiniteSet(SUBSET (1..m)) /\ Cardinality(SUBSET (1..m)) = 2^m
  BY <1>1, PowerCounts
<1>3. SUBSET (1..m) \subseteq SUBSET (1..n)
  OBVIOUS
<1>. QED
  BY <1>2, <1>3, FS_Subset

LEMMA PowerAdds ==
  ASSUME NEW m \in Nat, NEW n \in Nat
  PROVE  2^(m + n) = 2^m * 2^n
<1>. DEFINE A == 1..m
            B == (m + 1)..(m + n)
            F == [P \in (SUBSET A) \X (SUBSET B) |-> P[1] \cup P[2]]
<1>1. /\ IsFiniteSet(A) /\ Cardinality(A) = m
      /\ IsFiniteSet(B) /\ Cardinality(B) = n
      /\ IsFiniteSet(A \cup B) /\ Cardinality(A \cup B) = m + n
  <2>1. A \cup B = 1..(m + n)
    OBVIOUS
  <2>2. IsFiniteSet(A) /\ Cardinality(A) = m
    BY FS_Interval
  <2>3. IsFiniteSet(B) /\ Cardinality(B) = n
    BY FS_Interval
  <2>4. IsFiniteSet(1..(m + n)) /\ Cardinality(1..(m + n)) = m + n
    <3>1. m + n \in Nat /\ m + n \in Int /\ 1 \in Int
      OBVIOUS
    <3>. DEFINE s == m + n
    <3>2. s \in Nat
      OBVIOUS
    <3>. HIDE DEF s
    <3>3. IsFiniteSet(1..s) /\ Cardinality(1..s) = s
      BY <3>2, FS_Interval
    <3>. QED
      BY <3>3 DEF s
  <2>. QED
    BY <2>1, <2>2, <2>3, <2>4
<1>2. A \cap B = {}
  OBVIOUS
<1>. HIDE DEF A, B
<1>3. /\ IsFiniteSet(SUBSET A) /\ Cardinality(SUBSET A) = 2^m
      /\ IsFiniteSet(SUBSET B) /\ Cardinality(SUBSET B) = 2^n
      /\ Cardinality(SUBSET (A \cup B)) = 2^(m + n)
  BY <1>1, PowerCounts
<1>4. /\ IsFiniteSet((SUBSET A) \X (SUBSET B))
      /\ Cardinality((SUBSET A) \X (SUBSET B)) = 2^m * 2^n
  BY <1>3, FS_Product
<1>5. F \in Bijection((SUBSET A) \X (SUBSET B), SUBSET (A \cup B))
  <2>1. F \in [(SUBSET A) \X (SUBSET B) -> SUBSET (A \cup B)]
    OBVIOUS
  <2>2. ASSUME NEW P \in (SUBSET A) \X (SUBSET B), NEW Q \in (SUBSET A) \X (SUBSET B), F[P] = F[Q]
        PROVE  P = Q
    <3>1. P[1] \cup P[2] = Q[1] \cup Q[2]
      BY <2>2
    <3>2. P[1] \subseteq A /\ P[2] \subseteq B /\ Q[1] \subseteq A /\ Q[2] \subseteq B
          /\ P = <<P[1], P[2]>> /\ Q = <<Q[1], Q[2]>>
      OBVIOUS
    <3>3. P[1] = Q[1]
      BY <1>2, <3>1, <3>2
    <3>4. P[2] = Q[2]
      BY <1>2, <3>1, <3>2
    <3>. QED
      BY <3>2, <3>3, <3>4
  <2>3. ASSUME NEW T \in SUBSET (A \cup B)
        PROVE  \E P \in (SUBSET A) \X (SUBSET B) : F[P] = T
    <3>1. <<T \cap A, T \cap B>> \in (SUBSET A) \X (SUBSET B)
      OBVIOUS
    <3>2. F[<<T \cap A, T \cap B>>] = T
      BY <3>1
    <3>. QED
      BY <3>1, <3>2
  <2>. HIDE DEF F
  <2>. QED
    BY <2>1, <2>2, <2>3 DEF Bijection, Injection, IsInjective, Surjection
<1>6. ExistsBijection((SUBSET A) \X (SUBSET B), SUBSET (A \cup B))
  BY <1>5 DEF ExistsBijection
<1>. HIDE DEF F
<1>. QED
  BY <1>3, <1>4, <1>6, FS_Bijection

(* A number is the sum of the values of its digits, up to each of them.    *)
Sums(g, c, m, b) ==
  g = [k \in 0..m |-> IF k = 0 THEN 0 ELSE g[k - 1] + c[k - 1] * 2^(b * (k - 1))]

LEMMA PowerStep ==
  ASSUME NEW b \in Nat, NEW k \in Nat \ {0}
  PROVE  /\ b * (k - 1) \in Nat /\ 2^(b * (k - 1)) \in Nat \ {0} /\ 2^b \in Nat \ {0}
         /\ b * k \in Nat /\ 2^(b * k) = 2^(b * (k - 1)) * 2^b
<1>1. b * (k - 1) \in Nat /\ b * k = b * (k - 1) + b
  OBVIOUS
<1>. DEFINE m == b * (k - 1)
<1>2. m \in Nat /\ b * k = m + b
  BY <1>1
<1>. HIDE DEF m
<1>3. 2^m \in Nat \ {0} /\ 2^b \in Nat \ {0} /\ 2^(m + b) = 2^m * 2^b
  BY <1>2, PowerAdds, PowerPositive
<1>. QED
  BY <1>1, <1>2, <1>3 DEF m

LEMMA SumsExtend ==
  ASSUME NEW c, NEW b \in Nat, NEW m \in Nat, NEW g, Sums(g, c, m, b)
  PROVE  \E f : Sums(f, c, m + 1, b)
<1>. DEFINE f == [k \in 0..(m + 1) |-> IF k <= m THEN g[k] ELSE g[m] + c[m] * 2^(b * m)]
<1>1. DOMAIN g = 0..m
  BY DEF Sums
<1>2. ASSUME NEW k \in 0..(m + 1)
      PROVE  f[k] = IF k = 0 THEN 0 ELSE f[k - 1] + c[k - 1] * 2^(b * (k - 1))
  <2>1. CASE k = 0
    BY <2>1 DEF Sums
  <2>2. CASE k # 0 /\ k <= m
    <3>1. k \in 0..m /\ k - 1 \in 0..m /\ f[k] = g[k] /\ f[k - 1] = g[k - 1]
      BY <2>2
    <3>2. g[k] = IF k = 0 THEN 0 ELSE g[k - 1] + c[k - 1] * 2^(b * (k - 1))
      <4>. HIDE DEF f
      <4>. QED
        BY <3>1 DEF Sums
    <3>. QED
      BY <3>1, <3>2
  <2>3. CASE k = m + 1
    <3>1. k - 1 = m /\ k # 0 /\ ~(k <= m) /\ m \in 0..(m + 1)
      BY <2>3
    <3>2. f[k] = g[m] + c[m] * 2^(b * m) /\ f[m] = g[m]
      BY <3>1
    <3>. HIDE DEF f
    <3>. QED
      BY <3>1, <3>2
  <2>. QED
    BY <2>1, <2>2, <2>3
<1>3. f = [k \in 0..(m + 1) |-> IF k = 0 THEN 0 ELSE f[k - 1] + c[k - 1] * 2^(b * (k - 1))]
  <2>1. DOMAIN f = 0..(m + 1) /\ f = [k \in 0..(m + 1) |-> f[k]]
    OBVIOUS
  <2>. HIDE DEF f
  <2>. QED
    BY <1>2, <2>1
<1>. HIDE DEF f
<1>. QED
  BY <1>3 DEF Sums

LEMMA SumsExist ==
  ASSUME NEW c, NEW b \in Nat, NEW n \in Nat
  PROVE  \E g : Sums(g, c, n, b)
<1>. DEFINE Bad == {m \in Nat : ~\E g : Sums(g, c, m, b)}
<1>1. 0 \notin Bad
  <2>. DEFINE z == [k \in 0..0 |-> 0]
  <2>1. z = [k \in 0..0 |-> IF k = 0 THEN 0 ELSE z[k - 1] + c[k - 1] * 2^(b * (k - 1))]
    OBVIOUS
  <2>2. Sums(z, c, 0, b)
    <3>. HIDE DEF z
    <3>. QED
      BY <2>1 DEF Sums
  <2>. QED
    BY <2>2
<1>2. Bad = {}
  <2>1. SUFFICES ASSUME Bad # {}
                 PROVE  FALSE
    OBVIOUS
  <2>2. PICK m \in Bad : \A k \in Bad : m <= k
    BY <2>1, LeastExists
  <2>3. m \in Nat \ {0} /\ m - 1 \in Nat /\ m - 1 \notin Bad
    BY <1>1, <2>2
  <2>4. PICK g : Sums(g, c, m - 1, b)
    BY <2>3
  <2>5. \E f : Sums(f, c, (m - 1) + 1, b)
    BY <2>3, <2>4, SumsExtend
  <2>6. (m - 1) + 1 = m
    BY <2>3
  <2>. QED
    BY <2>2, <2>5, <2>6
<1>. QED
  BY <1>2

LEMMA NumberSums ==
  ASSUME NEW c, NEW b \in Nat, NEW n \in Nat
  PROVE  \E g : Sums(g, c, n, b) /\ Number(c, n, b) = g[n]
<1>. DEFINE Is(f) == f = [k \in 0..n |-> IF k = 0 THEN 0 ELSE f[k - 1] + c[k - 1] * 2^(b * (k - 1))]
            f == CHOOSE f : Is(f)
<1>1. \E g : Is(g)
  BY SumsExist DEF Sums
<1>2. Is(f)
  <2>. HIDE DEF Is
  <2>. QED
    BY <1>1
<1>3. Number(c, n, b) = f[n]
  BY DEF Number
<1>. HIDE DEF f
<1>. QED
  BY <1>2, <1>3 DEF Sums

LEMMA SumBounded ==
  ASSUME NEW b \in Nat, NEW k \in Nat \ {0}, NEW s \in 0..(2^(b * (k - 1)) - 1), NEW d \in 0..(2^b - 1)
  PROVE  s + d * 2^(b * (k - 1)) \in 0..(2^(b * k) - 1)
<1>. DEFINE p == 2^(b * (k - 1))
            q == 2^b
<1>1. p \in Nat \ {0} /\ q \in Nat \ {0} /\ 2^(b * k) = p * q
  BY PowerStep
<1>2. s \in 0..(p - 1) /\ d \in 0..(q - 1)
  OBVIOUS
<1>. HIDE DEF p, q
<1>3. s + d * p \in Nat /\ s + d * p <= p - 1 + d * p
  BY <1>1, <1>2
<1>4. (d + 1) * p <= q * p
  BY <1>1, <1>2
<1>5. s + d * p \in 0..(p * q - 1)
  BY <1>1, <1>2, <1>3, <1>4
<1>. QED
  BY <1>1, <1>5 DEF p

(* What has n digits of b bits is below 2^(b * n).                         *)
LEMMA NumberInRange ==
  ASSUME NEW c, NEW b \in Nat, NEW n \in Nat,
         \A k \in 0..(n - 1) : c[k] \in 0..(2^b - 1)
  PROVE  Number(c, n, b) \in 0..(2^(b * n) - 1)
<1>1. PICK g : Sums(g, c, n, b) /\ Number(c, n, b) = g[n]
  BY NumberSums
<1>2. \A k \in 0..n : g[k] = IF k = 0 THEN 0 ELSE g[k - 1] + c[k - 1] * 2^(b * (k - 1))
  BY <1>1 DEF Sums
<1>. DEFINE Bad == {k \in 0..n : g[k] \notin 0..(2^(b * k) - 1)}
<1>3. Bad = {}
  <2>1. SUFFICES ASSUME Bad # {}
                 PROVE  FALSE
    OBVIOUS
  <2>2. PICK k \in Bad : \A j \in Bad : k <= j
    <3>1. Bad \in SUBSET Nat
      OBVIOUS
    <3>. HIDE DEF Bad
    <3>. QED
      BY <2>1, <3>1, LeastExists
  <2>3. k # 0
    <3>1. SUFFICES ASSUME k = 0
                   PROVE  FALSE
      OBVIOUS
    <3>2. g[k] = 0 /\ b * k = 0
      BY <1>2, <2>2, <3>1
    <3>3. 2^(b * k) = 1
      <4>1. 2^0 = 1
        OBVIOUS
      <4>. QED
        BY <3>2, <4>1
    <3>. QED
      BY <2>2, <3>2, <3>3
  <2>4. k \in Nat \ {0} /\ k \in 0..n /\ k - 1 \in 0..n /\ k - 1 \in 0..(n - 1)
    BY <2>2, <2>3
  <2>5. g[k - 1] \in 0..(2^(b * (k - 1)) - 1)
    BY <2>2, <2>4
  <2>6. g[k] = g[k - 1] + c[k - 1] * 2^(b * (k - 1))
    BY <1>2, <2>4
  <2>7. g[k] \in 0..(2^(b * k) - 1)
    BY <2>4, <2>5, <2>6, SumBounded
  <2>. QED
    BY <2>2, <2>7
<1>4. n \in 0..n
  OBVIOUS
<1>. QED
  BY <1>1, <1>3, <1>4

(* Remainders.                                                             *)
LEMMA ModIsUnique ==
  ASSUME NEW s \in Nat \ {0}, NEW q \in Int, NEW r \in 0..(s - 1)
  PROVE  (s * q + r) % s = r
<1>. DEFINE x == s * q + r
            p == x \div s
            t == x % s
<1>1. x \in Int /\ p \in Int /\ t \in 0..(s - 1) /\ x = s * p + t
  OBVIOUS
<1>2. s * q + r = s * p + t
  BY <1>1
<1>. HIDE DEF x, p, t
<1>3. s * (q - p) = t - r
  BY <1>1, <1>2
<1>4. CASE q - p >= 1
  <2>1. s * (q - p) >= s
    BY <1>1, <1>4
  <2>. QED
    BY <1>1, <1>3, <2>1
<1>5. CASE q - p <= -1
  <2>1. s * (q - p) <= -s
    BY <1>1, <1>5
  <2>. QED
    BY <1>1, <1>3, <2>1
<1>6. CASE q - p = 0
  <2>1. s * (q - p) = 0
    BY <1>6
  <2>. QED
    BY <1>1, <1>3, <2>1 DEF t, x
<1>. QED
  BY <1>1, <1>4, <1>5, <1>6

LEMMA ModShift ==
  ASSUME NEW s \in Nat \ {0}, NEW x \in Int, NEW q \in Int
  PROVE  (x + s * q) % s = x % s
<1>. DEFINE p == x \div s
            t == x % s
<1>1. p \in Int /\ t \in 0..(s - 1) /\ x = s * p + t
  OBVIOUS
<1>. HIDE DEF p, t
<1>2. x + s * q = s * (p + q) + t /\ p + q \in Int
  BY <1>1
<1>3. (s * (p + q) + t) % s = t
  BY <1>1, <1>2, ModIsUnique
<1>. QED
  BY <1>2, <1>3 DEF t

(* A factor may be reduced first.                                          *)
LEMMA ModFactor ==
  ASSUME NEW s \in Nat \ {0}, NEW x \in Int, NEW n \in Int, NEW t \in Int
  PROVE  (x + n * (t % s)) % s = (x + n * t) % s
<1>. DEFINE p == t \div s
            r == t % s
<1>1. p \in Int /\ r \in 0..(s - 1) /\ t = s * p + r
  OBVIOUS
<1>. HIDE DEF p, r
<1>2. x + n * t = (x + n * r) + s * (n * p) /\ n * p \in Int /\ x + n * r \in Int
  BY <1>1
<1>3. ((x + n * r) + s * (n * p)) % s = (x + n * r) % s
  BY <1>2, ModShift
<1>. QED
  BY <1>2, <1>3 DEF r

LEMMA ModSmall ==
  ASSUME NEW s \in Nat \ {0}, NEW x \in 0..(s - 1)
  PROVE  x % s = x
OBVIOUS

LEMMA ModBelow ==
  ASSUME NEW s \in Nat \ {0}, NEW k \in Nat
  PROVE  k % s \in Nat /\ k % s <= k
<1>. DEFINE p == k \div s
            r == k % s
<1>1. p \in Int /\ r \in 0..(s - 1) /\ k = s * p + r
  OBVIOUS
<1>. HIDE DEF p, r
<1>2. CASE p >= 0
  <2>1. s * p >= 0
    BY <1>1, <1>2
  <2>. QED
    BY <1>1, <2>1 DEF r
<1>3. CASE p <= -1
  <2>1. s * p <= -s
    BY <1>1, <1>3
  <2>. QED
    BY <1>1, <2>1
<1>. QED
  BY <1>1, <1>2, <1>3

(* The cells of a range are those that are less than its length behind its *)
(* beginning.                                                              *)
LEMMA CellsBehind ==
  ASSUME NEW a \in Address, NEW x \in Address, NEW n \in Nat
  PROVE  x \in Cells(a, n) <=> (x - a) % Space < n
<1>1. Space \in Nat \ {0} /\ a \in 0..(Space - 1) /\ x \in 0..(Space - 1)
  BY LayoutAssumption DEF Address
<1>. DEFINE d == (x - a) % Space
            q == (x - a) \div Space
<1>2. d \in 0..(Space - 1) /\ q \in Int /\ x - a = Space * q + d
  BY <1>1
<1>3. (a + d) % Space = x
  <2>. DEFINE u == -q
  <2>1. a + d = x + Space * u /\ u \in Int
    <3>. HIDE DEF d, q
    <3>1. Space * (-q) = -(Space * q)
      BY <1>1, <1>2
    <3>. QED
      BY <1>1, <1>2, <3>1
  <2>. HIDE DEF d, q, u
  <2>2. (x + Space * u) % Space = x % Space
    <3>1. Space \in Nat \ {0} /\ x \in Int /\ u \in Int
      BY <1>1, <2>1
    <3>. QED
      BY <3>1, ModShift, Zenon
  <2>3. x % Space = x
    BY <1>1, ModSmall
  <2>. QED
    BY <2>1, <2>2, <2>3
<1>4. ASSUME d < n
      PROVE  x \in Cells(a, n)
  <2>. HIDE DEF d
  <2>1. d \in 0..(n - 1)
    BY <1>2, <1>4
  <2>. QED
    BY <1>3, <2>1 DEF Cells
<1>5. ASSUME NEW k \in 0..(n - 1), x = (a + k) % Space
      PROVE  d < n
  <2>. DEFINE p == (a + k) \div Space
  <2>1. p \in Int /\ a + k = Space * p + x
    BY <1>1, <1>5
  <2>. DEFINE u == -p
  <2>. HIDE DEF p
  <2>2. x - a = k + Space * u /\ u \in Int
    <3>1. Space * (-p) = -(Space * p)
      BY <1>1, <2>1
    <3>. QED
      BY <1>1, <2>1, <3>1
  <2>. HIDE DEF u
  <2>3. (k + Space * u) % Space = k % Space
    <3>1. Space \in Nat \ {0} /\ k \in Int /\ u \in Int
      BY <1>1, <2>2
    <3>. QED
      BY <3>1, ModShift, Zenon
  <2>4. k % Space <= k
    <3>1. k \in Nat
      OBVIOUS
    <3>. QED
      BY <1>1, <3>1, ModBelow
  <2>. QED
    BY <1>2, <2>2, <2>3, <2>4
<1>. QED
  BY <1>4, <1>5 DEF Cells

------------------------------------------------------------------------------
(* The symbols mirror the run.                                             *)

(* The layout of the data that SymExec is made for: pointers and what is   *)
(* loaded and stored fill one, two, four or eight addresses, and integers  *)
(* are cast to and from pointers at the width of a pointer.                *)
Regular ==
  /\ PtrInts \subseteq {PtrWidth}
  /\ \A w \in MemWidths \cup {PtrWidth} : \E n \in {1, 2, 4, 8} : w = Bits * n

IsSeq(s) == \E S : s \in Seq(S)

(* What the run may have for a value, and SymExec for the term of it.      *)
Valued(ty, val) ==
  \/ /\ ty \in [w : Nat \ {0}, ptr : BOOLEAN] /\ (ty.ptr => ty.w = PtrWidth)
     /\ val \in 0..(2^ty.w - 1)
  \/ ty = VoidType
  \/ ty = PairType /\ val.status = 0 /\ val.data \in Address

Sorted(ty, val, sym) ==
  sym # Null =>
    /\ ty.w > 0 => sym.w = ty.w
    /\ ty = PairType => sym = [w |-> PtrWidth, v |-> val.data]

Exactly(ty, val, sym) == ty.w > 0 /\ sym # Null => sym = [w |-> ty.w, v |-> val]

Faithful == excused \cap {"call", "stale", "parts"} = {}

RegsTyped ==
  /\ IsSeq(regs)
  /\ \A i \in DOMAIN regs : Valued(Type(i), Val(i)) /\ Sorted(Type(i), Val(i), Term1(i))

RegsExact == \A i \in DOMAIN regs : Exactly(Type(i), Val(i), Term1(i))

MemTyped == mem \in [Address -> 0..(2^Bits - 1)]

MemExact == \A a \in Address \ stale : blob[a] = mem[a]

FetchTyped(f) ==
  /\ f = <<f[1], f[2]>> /\ f[1] \in PtrRegs /\ f[2] \in IntRegs /\ Type(f[2]).w <= PtrWidth
  /\ "size" \notin excused => Val(f[2]) > 0

DeriveInv ==
  /\ trial \in Trials
  /\ Regular =>
       /\ RegsTyped /\ MemTyped /\ next \in [Kinds -> Address]
       /\ flaw = "none"
       /\ Faithful => RegsExact /\ MemExact
       /\ phase # "check" /\ excused = {} => held
       /\ \A f \in fetches : FetchTyped(f)
       /\ verdict # <<>> => phase = "check"
       /\ OverlapExact

(* A step that adds a value to the trace.                                  *)
Extended == \A i \in DOMAIN regs : i \in DOMAIN regs' /\ regs'[i] = regs[i]

Grown ==
  /\ RegsTyped' /\ Extended
  /\ flaw' = "none" /\ UNCHANGED <<trial, verdict, phase>>
  /\ excused \subseteq excused'
  /\ Faithful' /\ RegsExact => RegsExact'
  /\ excused' = {} /\ held => held'

LEMMA SeqGrows ==
  ASSUME NEW s, IsSeq(s), NEW e
  PROVE  LET t == Append(s, e)
         IN  /\ IsSeq(t)
             /\ \A i \in DOMAIN t : (i \in DOMAIN s /\ t[i] = s[i]) \/ t[i] = e
             /\ \A i \in DOMAIN s : i \in DOMAIN t /\ t[i] = s[i]
<1>1. PICK S : s \in Seq(S)
  BY DEF IsSeq
<1>. DEFINE T == S \cup {e}
            t == Append(s, e)
<1>2. s \in Seq(T) /\ e \in T
  <2>1. s \in [1..Len(s) -> S] /\ Len(s) \in Nat
    BY <1>1
  <2>2. s \in [1..Len(s) -> T]
    BY <2>1
  <2>. QED
    BY <2>1, <2>2
<1>. HIDE DEF T
<1>3. /\ t \in Seq(T)
      /\ DOMAIN s = 1..Len(s) /\ DOMAIN t = 1..(Len(s) + 1) /\ Len(s) \in Nat
      /\ \A i \in 1..Len(s) : t[i] = s[i]
      /\ t[Len(s) + 1] = e
  BY <1>2
<1>. HIDE DEF t
<1>4. IsSeq(t)
  BY <1>3 DEF IsSeq
<1>. QED
  BY <1>3, <1>4 DEF t

LEMMA EmitGrows ==
  ASSUME RegsTyped, NEW ty, NEW val, NEW sym, Emit(ty, val, sym),
         Valued(ty, val), Sorted(ty, val, sym)
  PROVE  /\ RegsTyped' /\ Extended
         /\ Exactly(ty, val, sym) /\ RegsExact => RegsExact'
<1>. DEFINE r == [ty |-> ty, val |-> val, sym |-> sym]
<1>1. /\ IsSeq(regs')
      /\ \A i \in DOMAIN regs' : (i \in DOMAIN regs /\ regs'[i] = regs[i]) \/ regs'[i] = r
      /\ \A i \in DOMAIN regs : i \in DOMAIN regs' /\ regs'[i] = regs[i]
  <2>1. regs' = Append(regs, r) /\ IsSeq(regs)
    BY DEF Emit, RegsTyped
  <2>. HIDE DEF r
  <2>. QED
    BY <2>1, SeqGrows
<1>2. r.ty = ty /\ r.val = val /\ r.sym = sym
  OBVIOUS
<1>. HIDE DEF r
<1>3. ASSUME NEW i \in DOMAIN regs'
      PROVE  /\ Valued(regs'[i].ty, regs'[i].val) /\ Sorted(regs'[i].ty, regs'[i].val, regs'[i].sym)
             /\ Exactly(ty, val, sym) /\ RegsExact => Exactly(regs'[i].ty, regs'[i].val, regs'[i].sym)
  <2>1. CASE i \in DOMAIN regs /\ regs'[i] = regs[i]
    BY <2>1 DEF RegsTyped, RegsExact, Term1, Val, Type
  <2>2. CASE regs'[i] = r
    BY <1>2, <2>2
  <2>. QED
    BY <1>1, <2>1, <2>2
<1>4. RegsTyped'
  BY <1>1, <1>3 DEF RegsTyped, Term1, Val, Type
<1>5. Exactly(ty, val, sym) /\ RegsExact => RegsExact'
  BY <1>3 DEF RegsExact, Term1, Val, Type
<1>. QED
  BY <1>1, <1>4, <1>5 DEF Extended

(* What an instruction without side effects leaves to be shown: its value  *)
(* is of the type, its assertions hold, its term has the sort and, in a    *)
(* run the code is made for, the value, and what it asserts is true.       *)
LEMMA DerivedGrows ==
  ASSUME RegsTyped, flaw = "none",
         NEW I, NEW sound, NEW ty, NEW val, NEW sym, NEW asserted, NEW excuse,
         Derived(I, sound, ty, val, sym, asserted, excuse),
         Valued(ty, val),
         Ready(I) => sound /\ Sorted(ty, val, sym),
         Ready(I) /\ Faithful /\ RegsExact /\ excuse \cap {"call", "stale", "parts"} = {}
           => Exactly(ty, val, sym),
         Ready(I) /\ excused = {} /\ excuse = {} => asserted
  PROVE  Grown
<1>1. UNCHANGED <<trial, verdict, phase>> /\ excused' = excused \cup excuse
  BY DEF Derived, Rest
<1>2. excused \subseteq excused'
  BY <1>1
<1>3. Faithful' => Faithful /\ excuse \cap {"call", "stale", "parts"} = {}
  BY <1>1 DEF Faithful
<1>4. CASE ~Ready(I)
  <2>1. Emit(ty, val, Null) /\ held' = held /\ flaw' = "none"
    BY <1>4 DEF Derived
  <2>2. Sorted(ty, val, Null) /\ Exactly(ty, val, Null)
    BY DEF Sorted, Exactly
  <2>3. RegsTyped' /\ Extended /\ (RegsExact => RegsExact')
    BY <2>1, <2>2, EmitGrows
  <2>. QED
    BY <1>1, <1>2, <2>1, <2>3 DEF Grown
<1>5. CASE Ready(I)
  <2>1. Emit(ty, val, sym) /\ held' = (held /\ asserted) /\ flaw' = "none"
    BY <1>5 DEF Derived
  <2>2. Sorted(ty, val, sym)
    BY <1>5
  <2>3. RegsTyped' /\ Extended /\ (Exactly(ty, val, sym) /\ RegsExact => RegsExact')
    BY <2>1, <2>2, EmitGrows
  <2>4. Faithful' /\ RegsExact => RegsExact'
    BY <1>3, <1>5, <2>3
  <2>5. excused' = {} /\ held => held'
    BY <1>1, <1>5, <2>1
  <2>. QED
    BY <1>1, <1>2, <2>1, <2>3, <2>4, <2>5 DEF Grown
<1>. QED
  BY <1>4, <1>5

LEMMA GrownInv ==
  ASSUME DeriveInv, Regular, phase # "check", Grown,
         MemTyped', next' \in [Kinds -> Address],
         Faithful' /\ RegsExact /\ MemExact => MemExact',
         \A f \in fetches' : f \in fetches \/ FetchTyped(f)'
  PROVE  DeriveInv'
<1>1. Regular' /\ trial' \in Trials /\ UNCHANGED <<verdict, phase, trial>>
  BY DEF DeriveInv, Grown, Regular, PtrInts, MemWidths
<1>2. Faithful' => RegsExact' /\ MemExact'
  <2>1. Faithful' => Faithful
    BY DEF Grown, Faithful
  <2>. QED
    BY <2>1 DEF DeriveInv, Grown
<1>3. ASSUME NEW f \in fetches'
      PROVE  FetchTyped(f)'
  <2>1. CASE f \in fetches
    BY <2>1 DEF DeriveInv, FetchTyped, Grown, Extended, PtrRegs, IntRegs, Type, Val
  <2>. QED
    BY <2>1
<1>4. verdict = <<>>
  BY DEF DeriveInv
<1>5. OverlapExact' /\ (verdict' # <<>> => phase' = "check")
  BY <1>1, <1>4 DEF OverlapExact
<1>6. phase' # "check" /\ excused' = {} => held'
  <2>1. excused' = {} => excused = {}
    BY DEF Grown
  <2>. QED
    BY <2>1 DEF DeriveInv, Grown
<1>. QED
  BY <1>1, <1>2, <1>3, <1>5, <1>6 DEF DeriveInv, Grown

LEMMA ComputedInv ==
  ASSUME DeriveInv, Regular, phase = "code",
         NEW I, NEW sound, NEW ty, NEW val, NEW sym, NEW asserted, NEW excuse,
         Computed(I, sound, ty, val, sym, asserted, excuse),
         Valued(ty, val),
         Ready(I) => sound /\ Sorted(ty, val, sym),
         Ready(I) /\ Faithful /\ RegsExact /\ excuse \cap {"call", "stale", "parts"} = {}
           => Exactly(ty, val, sym),
         Ready(I) /\ excused = {} /\ excuse = {} /\ RegsExact => asserted
  PROVE  DeriveInv'
<1>1. RegsTyped /\ flaw = "none" /\ (excused = {} => RegsExact)
  BY DEF DeriveInv, Faithful
<1>2. Derived(I, sound, ty, val, sym, asserted, excuse)
      /\ UNCHANGED <<memVars, fetches, regionVars>>
  BY DEF Computed
<1>3. Grown
  BY <1>1, <1>2, DerivedGrows
<1>4. MemTyped' /\ (MemExact => MemExact') /\ next' \in [Kinds -> Address]
  BY <1>2 DEF DeriveInv, MemTyped, MemExact, memVars, regionVars
<1>5. fetches' = fetches /\ phase # "check"
  BY <1>2
<1>. QED
  BY <1>3, <1>4, <1>5, GrownInv

(* Values and terms of integers and of pointers.                           *)
LEMMA IntReg ==
  ASSUME RegsTyped, NEW i \in IntRegs
  PROVE  /\ Type(i).w \in Nat \ {0} /\ Type(i) = IntType(Type(i).w)
         /\ Val(i) \in 0..(2^Type(i).w - 1)
         /\ Term1(i) # Null => Term1(i).w = Type(i).w
         /\ Term1(i) # Null /\ RegsExact => Term1(i) = [w |-> Type(i).w, v |-> Val(i)]
<1>1. i \in DOMAIN regs /\ ~Type(i).ptr /\ Type(i).w > 0
  BY DEF IntRegs
<1>2. Valued(Type(i), Val(i)) /\ Sorted(Type(i), Val(i), Term1(i))
  BY <1>1 DEF RegsTyped
<1>3. Type(i) # VoidType /\ Type(i) # PairType
  BY <1>1 DEF VoidType, PairType
<1>4. RegsExact => Exactly(Type(i), Val(i), Term1(i))
  BY <1>1 DEF RegsExact
<1>. QED
  BY <1>1, <1>2, <1>3, <1>4 DEF Valued, Sorted, Exactly, IntType

LEMMA Widths ==
  /\ Bits \in Nat \ {0} /\ PtrWidth \in Nat \ {0} /\ Space = 2^PtrWidth
  /\ Space \in Nat \ {0} /\ Address = 0..(2^PtrWidth - 1)
BY WidthAssumption, LayoutAssumption DEF Address

LEMMA PtrReg ==
  ASSUME RegsTyped, NEW i \in PtrRegs
  PROVE  /\ Type(i) = PtrType /\ Type(i).w = PtrWidth
         /\ Val(i) \in Address /\ Val(i) \in 0..(2^PtrWidth - 1)
         /\ Term1(i) # Null => Term1(i).w = PtrWidth
         /\ Term1(i) # Null /\ RegsExact => Term1(i) = [w |-> PtrWidth, v |-> Val(i)]
<1>1. i \in DOMAIN regs /\ Type(i) = PtrType /\ Type(i).w = PtrWidth /\ PtrWidth > 0
  BY Widths DEF PtrRegs, PtrType
<1>2. Valued(Type(i), Val(i)) /\ Sorted(Type(i), Val(i), Term1(i))
  BY <1>1 DEF RegsTyped
<1>3. Type(i) # VoidType /\ Type(i) # PairType
  BY <1>1 DEF VoidType, PairType, PtrType
<1>4. RegsExact => Exactly(Type(i), Val(i), Term1(i))
  BY <1>1 DEF RegsExact
<1>. QED
  BY <1>1, <1>2, <1>3, <1>4, Widths DEF Valued, Sorted, Exactly

LEMMA AnyReg ==
  ASSUME RegsTyped, NEW i \in IntRegs \cup PtrRegs
  PROVE  /\ Type(i).w \in Nat \ {0} /\ Type(i) # PairType /\ Valued(Type(i), Val(i))
         /\ Val(i) \in 0..(2^Type(i).w - 1)
         /\ Term1(i) # Null => Term1(i).w = Type(i).w
         /\ Term1(i) # Null /\ RegsExact => Term1(i) = [w |-> Type(i).w, v |-> Val(i)]
<1>1. i \in DOMAIN regs
  BY DEF IntRegs, PtrRegs
<1>2. Valued(Type(i), Val(i))
  BY <1>1 DEF RegsTyped
<1>3. Type(i).w \in Nat \ {0} => Type(i) # PairType
  BY DEF PairType
<1>. QED
  BY <1>2, <1>3, IntReg, PtrReg, Widths

LEMMA TypesValued ==
  /\ \A w \in Nat \ {0} : \A v \in 0..(2^w - 1) : Valued(IntType(w), v)
  /\ \A v \in Address : Valued(PtrType, v)
  /\ \A v : Valued(VoidType, v)
<1>1. ASSUME NEW w \in Nat \ {0}, NEW v \in 0..(2^w - 1)
      PROVE  Valued(IntType(w), v)
  BY DEF Valued, IntType
<1>2. ASSUME NEW v \in Address
      PROVE  Valued(PtrType, v)
  BY Widths DEF Valued, PtrType
<1>. QED
  BY <1>1, <1>2 DEF Valued

LEMMA TypesSorted ==
  ASSUME NEW val, NEW sym
  PROVE  /\ \A w \in Nat \ {0} : sym.w = w => Sorted(IntType(w), val, sym)
         /\ sym.w = PtrWidth => Sorted(PtrType, val, sym)
         /\ Sorted(VoidType, val, sym)
         /\ \A w \in Nat \ {0} : sym = [w |-> w, v |-> val] => Exactly(IntType(w), val, sym)
         /\ sym = [w |-> PtrWidth, v |-> val] => Exactly(PtrType, val, sym)
         /\ Exactly(VoidType, val, sym)
<1>1. /\ \A w \in Nat \ {0} : IntType(w).w = w /\ IntType(w) # PairType
      /\ PtrType.w = PtrWidth /\ PtrType # PairType
      /\ VoidType.w = 0 /\ VoidType # PairType
  BY Widths DEF IntType, PtrType, VoidType, PairType
<1>. QED
  BY <1>1 DEF Sorted, Exactly

LEMMA BvRange ==
  ASSUME NEW w \in Nat, NEW x \in Int
  PROVE  /\ x % 2^w \in 0..(2^w - 1)
         /\ Bv(w, x) = [w |-> w, v |-> x % 2^w] /\ Bv(w, x).w = w /\ Bv(w, x).v = x % 2^w
         /\ x \in 0..(2^w - 1) => x % 2^w = x
<1>1. 2^w \in Nat \ {0}
  BY PowerPositive
<1>2. x % 2^w \in 0..(2^w - 1)
  BY <1>1
<1>3. x \in 0..(2^w - 1) => x % 2^w = x
  BY <1>1, ModSmall
<1>. QED
  BY <1>2, <1>3 DEF Bv

LEMMA SignedInt ==
  ASSUME NEW w \in Nat \ {0}, NEW v \in Int
  PROVE  Signed(w, v) \in Int /\ (Signed(w, v) = v \/ Signed(w, v) = v - 2^w)
<1>1. 2^w \in Nat
  BY PowerPositive
<1>. QED
  BY <1>1 DEF Signed

LEMMA ResizedType ==
  ASSUME NEW kind \in {"trunc", "zext", "sext"}, NEW w \in Nat \ {0},
         NEW u \in Nat \ {0}, NEW x \in Int
  PROVE  Resized(kind, w, [w |-> u, v |-> x]).v \in 0..(2^w - 1)
<1>. DEFINE e == [w |-> u, v |-> x]
<1>1. e.w = u /\ e.v = x
  OBVIOUS
<1>. HIDE DEF e
<1>2. Signed(e.w, e.v) \in Int
  BY <1>1, SignedInt
<1>3. CASE kind = "sext"
  <2>1. Resized(kind, w, e) = Bv(w, Signed(e.w, e.v))
    BY <1>3 DEF Resized
  <2>. DEFINE z == Signed(e.w, e.v)
  <2>2. z \in Int
    BY <1>2
  <2>. HIDE DEF z
  <2>3. Bv(w, z).v \in 0..(2^w - 1)
    BY <2>2, BvRange
  <2>. QED
    BY <2>1, <2>3 DEF e, z
<1>4. CASE kind # "sext"
  <2>1. Resized(kind, w, e) = Bv(w, x)
    BY <1>1, <1>4 DEF Resized
  <2>2. Bv(w, x).v \in 0..(2^w - 1)
    BY BvRange
  <2>. QED
    BY <2>1, <2>2 DEF e
<1>. QED
  BY <1>3, <1>4

LEMMA ResizedSort ==
  ASSUME NEW kind \in {"trunc", "zext", "sext"}, NEW w, NEW e
  PROVE  Resized(kind, w, e).w = w /\ Resized(kind, w, e) = [w |-> w, v |-> Resized(kind, w, e).v]
BY DEF Resized, Bv

LEMMA CastInv == DeriveInv /\ Regular /\ Cast => DeriveInv'
<1>1. SUFFICES ASSUME DeriveInv, Regular, Cast
               PROVE  DeriveInv'
  OBVIOUS
<1>2. phase = "code" /\ RegsTyped /\ trial \in Trials
  BY <1>1 DEF DeriveInv, Cast, Coded
<1>3. PICK i \in IntRegs, c \in Casts :
        /\ IF c[1] = "trunc" THEN c[2] < Type(i).w ELSE Type(i).w < c[2]
        /\ Computed({i}, Castable(c[1], c[2], Term1(i)), IntType(c[2]),
                    Resized(c[1], c[2], Bv(Type(i).w, Val(i))).v,
                    CastTerm(c[1], c[2], Term1(i)), TRUE, {})
  BY <1>1 DEF Cast
<1>4. c[1] \in {"trunc", "zext", "sext"} /\ c[2] \in Nat \ {0}
  BY <1>2, TrialAssumption DEF Casts
<1>. DEFINE w == Type(i).w
            x == Val(i)
            val == Resized(c[1], c[2], Bv(w, x)).v
            sym == CastTerm(c[1], c[2], Term1(i))
            ty == IntType(c[2])
<1>5. /\ w \in Nat \ {0} /\ x \in 0..(2^w - 1)
      /\ Term1(i) # Null => Term1(i).w = w
      /\ Term1(i) # Null /\ RegsExact => Term1(i) = [w |-> w, v |-> x]
  BY <1>2, IntReg
<1>6. Bv(w, x) = [w |-> w, v |-> x]
  <2>. HIDE DEF w, x
  <2>. QED
    BY <1>5, BvRange
<1>7. val \in 0..(2^c[2] - 1)
  <2>1. Resized(c[1], c[2], [w |-> w, v |-> x]).v \in 0..(2^c[2] - 1)
    <3>. HIDE DEF w, x
    <3>. QED
      BY <1>4, <1>5, ResizedType
  <2>. QED
    BY <1>6, <2>1
<1>8. Ready({i}) => Castable(c[1], c[2], Term1(i))
  <2>1. c[2] \in Nat
    BY <1>4
  <2>. QED
    BY <1>3, <1>5, <2>1 DEF Ready, Castable
<1>9. sym.w = c[2] /\ sym = [w |-> c[2], v |-> sym.v]
  BY <1>4, ResizedSort DEF CastTerm
<1>10. Ready({i}) /\ RegsExact => sym.v = val
  BY <1>5, <1>6 DEF Ready, CastTerm
<1>11. Computed({i}, Castable(c[1], c[2], Term1(i)), ty, val, sym, TRUE, {})
  BY <1>3
<1>. HIDE DEF val, sym
<1>12. Valued(ty, val) /\ Sorted(ty, val, sym)
  BY <1>4, <1>7, <1>9, TypesValued, TypesSorted
<1>13. Ready({i}) /\ RegsExact => Exactly(ty, val, sym)
  BY <1>4, <1>9, <1>10, TypesSorted
<1>. HIDE DEF ty
<1>. QED
  BY <1>1, <1>2, <1>8, <1>11, <1>12, <1>13, ComputedInv

LEMMA CastPointerInv == DeriveInv /\ Regular /\ CastPointer => DeriveInv'
<1>1. SUFFICES ASSUME DeriveInv, Regular, CastPointer
               PROVE  DeriveInv'
  OBVIOUS
<1>2. phase = "code" /\ RegsTyped /\ PtrInts \subseteq {PtrWidth}
  BY <1>1 DEF DeriveInv, CastPointer, Coded, Regular
<1>3. ASSUME NEW i \in IntRegs, Type(i).w \in PtrInts,
             Computed({i}, TRUE, PtrType, Val(i) % Space, Term1(i), TRUE, {})
      PROVE  DeriveInv'
  <2>1. /\ Type(i).w = PtrWidth /\ Val(i) \in Address
        /\ Term1(i) # Null => Term1(i).w = PtrWidth
        /\ Term1(i) # Null /\ RegsExact => Term1(i) = [w |-> PtrWidth, v |-> Val(i)]
    BY <1>2, <1>3, IntReg, Widths
  <2>2. Val(i) % Space = Val(i)
    BY <2>1, Widths, ModSmall
  <2>3. Valued(PtrType, Val(i) % Space)
    BY <2>1, <2>2, TypesValued
  <2>4. Ready({i}) => Sorted(PtrType, Val(i) % Space, Term1(i))
    BY <2>1, TypesSorted DEF Ready
  <2>5. Ready({i}) /\ RegsExact => Exactly(PtrType, Val(i) % Space, Term1(i))
    BY <2>1, <2>2, TypesSorted DEF Ready
  <2>. QED
    BY <1>1, <1>2, <1>3, <2>3, <2>4, <2>5, ComputedInv
<1>4. ASSUME NEW i \in PtrRegs, NEW w \in PtrInts,
             Computed({i}, TRUE, IntType(w), Val(i) % 2^w, Term1(i), TRUE, {})
      PROVE  DeriveInv'
  <2>1. /\ w = PtrWidth /\ w \in Nat \ {0} /\ Val(i) \in 0..(2^w - 1)
        /\ Term1(i) # Null => Term1(i).w = w
        /\ Term1(i) # Null /\ RegsExact => Term1(i) = [w |-> w, v |-> Val(i)]
    BY <1>2, PtrReg, Widths
  <2>2. Val(i) % 2^w = Val(i)
    BY <2>1, BvRange
  <2>3. Valued(IntType(w), Val(i) % 2^w)
    BY <2>1, <2>2, TypesValued
  <2>4. Ready({i}) => Sorted(IntType(w), Val(i) % 2^w, Term1(i))
    BY <2>1, TypesSorted DEF Ready
  <2>5. Ready({i}) /\ RegsExact => Exactly(IntType(w), Val(i) % 2^w, Term1(i))
    BY <2>1, <2>2, TypesSorted DEF Ready
  <2>. QED
    BY <1>1, <1>2, <1>4, <2>3, <2>4, <2>5, ComputedInv
<1>5. ASSUME NEW i \in PtrRegs,
             Computed({i}, TRUE, PtrType, Val(i), Term1(i), TRUE, {})
      PROVE  DeriveInv'
  <2>1. /\ Val(i) \in Address
        /\ Term1(i) # Null => Term1(i).w = PtrWidth
        /\ Term1(i) # Null /\ RegsExact => Term1(i) = [w |-> PtrWidth, v |-> Val(i)]
    BY <1>2, PtrReg
  <2>2. Valued(PtrType, Val(i))
    BY <2>1, TypesValued
  <2>3. Ready({i}) => Sorted(PtrType, Val(i), Term1(i))
    BY <2>1, TypesSorted DEF Ready
  <2>4. Ready({i}) /\ RegsExact => Exactly(PtrType, Val(i), Term1(i))
    BY <2>1, TypesSorted DEF Ready
  <2>. QED
    BY <1>1, <1>2, <1>5, <2>2, <2>3, <2>4, ComputedInv
<1>. QED
  BY <1>1, <1>3, <1>4, <1>5 DEF CastPointer

LEMMA FromBoolValue ==
  ASSUME NEW b
  PROVE  FromBool(b, 1) = [w |-> 1, v |-> IF b THEN 1 ELSE 0]
<1>1. ASSUME NEW s, s = 2
      PROVE  (-1) % s = 1 /\ 0 % s = 0
  <2>1. s \in Nat \ {0} /\ 1 \in 0..(s - 1) /\ 0 \in 0..(s - 1)
    BY <1>1
  <2>. DEFINE q == -1
  <2>2. q \in Int /\ s * q + 1 = -1
    BY <1>1
  <2>. HIDE DEF q
  <2>3. (s * q + 1) % s = 1
    BY <2>1, <2>2, ModIsUnique, Zenon
  <2>4. 0 % s = 0
    BY <2>1, ModSmall
  <2>. QED
    BY <2>2, <2>3, <2>4
<1>2. (-1) % 2^1 = 1 /\ 0 % 2^1 = 0
  <2>. DEFINE s == 2^1
  <2>1. s = 2
    OBVIOUS
  <2>. HIDE DEF s
  <2>2. (-1) % s = 1 /\ 0 % s = 0
    BY <1>1, <2>1
  <2>. QED
    BY <2>2 DEF s
<1>. QED
  BY <1>2 DEF FromBool, Bv

LEMMA ComparesBool ==
  ASSUME NEW a, NEW b
  PROVE  /\ \A w : Compares("ne", w, a, b) = (a # b)
         /\ \A w : Compares("eq", w, a, b) = (a = b)
BY DEF Compares

(* The term of a comparison has the value of the comparison.               *)
LEMMA CmpTermValue ==
  ASSUME NEW op, NEW w, NEW a, NEW b
  PROVE  CmpTerm(op, [w |-> w, v |-> a], [w |-> w, v |-> b])
           = [w |-> 1, v |-> IF Compares(op, w, a, b) THEN 1 ELSE 0]
<1>. DEFINE l == [w |-> w, v |-> a]
            r == [w |-> w, v |-> b]
<1>1. l.w = w /\ l.v = a /\ r.v = b /\ (l = r <=> a = b)
  <2>1. l.w = w /\ l.v = a /\ r.v = b
    OBVIOUS
  <2>2. l = r => a = b
    <3>. HIDE DEF l, r
    <3>. QED
      BY <2>1
  <2>. QED
    BY <2>1, <2>2
<1>. HIDE DEF l, r
<1>2. CASE op = "ne"
  <2>1. CmpTerm(op, l, r) = FromBool(a # b, 1)
    BY <1>1, <1>2 DEF CmpTerm
  <2>2. FromBool(a # b, 1) = [w |-> 1, v |-> IF a # b THEN 1 ELSE 0]
    BY FromBoolValue
  <2>3. Compares(op, w, a, b) = (a # b)
    BY <1>2, ComparesBool
  <2>. QED
    BY <2>1, <2>2, <2>3 DEF l, r
<1>3. CASE op # "ne"
  <2>1. CmpTerm(op, l, r) = FromBool(Compares(op, w, a, b), 1)
    BY <1>1, <1>3 DEF CmpTerm
  <2>2. FromBool(Compares(op, w, a, b), 1)
          = [w |-> 1, v |-> IF Compares(op, w, a, b) THEN 1 ELSE 0]
    BY FromBoolValue
  <2>. QED
    BY <2>1, <2>2 DEF l, r
<1>. QED
  BY <1>2, <1>3

LEMMA CmpInv == DeriveInv /\ Regular /\ Cmp => DeriveInv'
<1>1. SUFFICES ASSUME DeriveInv, Regular, Cmp
               PROVE  DeriveInv'
  OBVIOUS
<1>2. phase = "code" /\ RegsTyped
  BY <1>1 DEF DeriveInv, Cmp, Coded
<1>3. PICK i \in IntRegs \cup PtrRegs, j \in IntRegs \cup PtrRegs, op \in CmpOps :
        /\ Type(i) = Type(j)
        /\ Computed({i, j}, Prepared(i, j), IntType(1),
                    IF Compares(op, Type(i).w, Val(i), Val(j)) THEN 1 ELSE 0,
                    CmpTerm(op, Term1(i), Term1(j)), TRUE, {})
  BY <1>1 DEF Cmp
<1>. DEFINE w == Type(i).w
            ty == IntType(1)
            val == IF Compares(op, w, Val(i), Val(j)) THEN 1 ELSE 0
            sym == CmpTerm(op, Term1(i), Term1(j))
<1>4. /\ Term1(i) # Null => Term1(i).w = w
      /\ Term1(i) # Null /\ RegsExact => Term1(i) = [w |-> w, v |-> Val(i)]
  BY <1>2, AnyReg
<1>5. /\ Term1(j) # Null => Term1(j).w = w
      /\ Term1(j) # Null /\ RegsExact => Term1(j) = [w |-> w, v |-> Val(j)]
  BY <1>2, <1>3, AnyReg
<1>6. Ready({i, j}) => Prepared(i, j)
  BY <1>3, <1>4, <1>5 DEF Ready, Prepared
<1>7. Valued(ty, val)
  <2>1. val \in 0..(2^1 - 1)
    <3>1. 2^1 = 2
      OBVIOUS
    <3>. QED
      BY <3>1
  <2>. HIDE DEF val
  <2>2. 1 \in Nat \ {0}
    OBVIOUS
  <2>. QED
    BY <2>1, <2>2, TypesValued
<1>8. sym.w = 1
  BY DEF CmpTerm, FromBool, Bv
<1>9. Ready({i, j}) /\ RegsExact => sym = [w |-> 1, v |-> val]
  <2>1. CmpTerm(op, [w |-> w, v |-> Val(i)], [w |-> w, v |-> Val(j)]) = [w |-> 1, v |-> val]
    <3>. DEFINE a == Val(i)
                b == Val(j)
    <3>. HIDE DEF w, a, b
    <3>1. CmpTerm(op, [w |-> w, v |-> a], [w |-> w, v |-> b])
            = [w |-> 1, v |-> IF Compares(op, w, a, b) THEN 1 ELSE 0]
      BY CmpTermValue
    <3>. QED
      BY <3>1 DEF a, b
  <2>. HIDE DEF w, val
  <2>. QED
    BY <1>4, <1>5, <2>1 DEF Ready
<1>10. Computed({i, j}, Prepared(i, j), ty, val, sym, TRUE, {})
  BY <1>3
<1>. HIDE DEF val, sym
<1>11. Sorted(ty, val, sym) /\ (Ready({i, j}) /\ RegsExact => Exactly(ty, val, sym))
  BY <1>8, <1>9, TypesSorted
<1>. HIDE DEF ty
<1>. QED
  BY <1>1, <1>2, <1>6, <1>7, <1>10, <1>11, ComputedInv

LEMMA SelectInv == DeriveInv /\ Regular /\ Select => DeriveInv'
<1>1. SUFFICES ASSUME DeriveInv, Regular, Select
               PROVE  DeriveInv'
  OBVIOUS
<1>2. phase = "code" /\ RegsTyped
  BY <1>1 DEF DeriveInv, Select, Coded
<1>3. PICK c \in IntRegs, i \in IntRegs \cup PtrRegs, j \in IntRegs \cup PtrRegs :
        /\ Type(c) = IntType(1) /\ Type(i) = Type(j)
        /\ Computed({c, i, j}, Term1(i).w = Term1(j).w, Type(i),
                    IF Val(c) = 1 THEN Val(i) ELSE Val(j),
                    IF ToBool(Term1(c)) THEN Term1(i) ELSE Term1(j), TRUE, {})
  BY <1>1 DEF Select
<1>. DEFINE ty == Type(i)
            val == IF Val(c) = 1 THEN Val(i) ELSE Val(j)
            sym == IF ToBool(Term1(c)) THEN Term1(i) ELSE Term1(j)
<1>4. /\ ty.w \in Nat \ {0} /\ ty # PairType /\ Valued(ty, Val(i))
      /\ Term1(i) # Null => Term1(i).w = ty.w
      /\ Term1(i) # Null /\ RegsExact => Term1(i) = [w |-> ty.w, v |-> Val(i)]
  BY <1>2, AnyReg
<1>5. /\ Valued(ty, Val(j))
      /\ Term1(j) # Null => Term1(j).w = ty.w
      /\ Term1(j) # Null /\ RegsExact => Term1(j) = [w |-> ty.w, v |-> Val(j)]
  BY <1>2, <1>3, AnyReg
<1>6. Ready({c, i, j}) => Term1(i).w = Term1(j).w
  BY <1>4, <1>5 DEF Ready
<1>7. Valued(ty, val)
  BY <1>4, <1>5
<1>8. Ready({c, i, j}) => Sorted(ty, val, sym)
  BY <1>4, <1>5 DEF Ready, Sorted
<1>9. Ready({c, i, j}) /\ RegsExact => (ToBool(Term1(c)) <=> Val(c) = 1)
  <2>1. Type(c).w = 1 /\ 2^1 = 2
    BY <1>3 DEF IntType
  <2>2. /\ Val(c) \in 0..(2^1 - 1)
        /\ Term1(c) # Null /\ RegsExact => Term1(c) = [w |-> 1, v |-> Val(c)]
    BY <1>2, <2>1, IntReg
  <2>3. Val(c) \in {0, 1}
    BY <2>1, <2>2
  <2>. QED
    BY <2>2, <2>3 DEF Ready, ToBool
<1>10. Ready({c, i, j}) /\ RegsExact => Exactly(ty, val, sym)
  BY <1>4, <1>5, <1>9 DEF Ready, Exactly
<1>11. Computed({c, i, j}, Term1(i).w = Term1(j).w, ty, val, sym, TRUE, {})
  BY <1>3
<1>. HIDE DEF val, sym, ty
<1>. QED
  BY <1>1, <1>2, <1>6, <1>7, <1>8, <1>10, <1>11, ComputedInv

LEMMA PhiInv == DeriveInv /\ Regular /\ Phi => DeriveInv'
<1>1. SUFFICES ASSUME DeriveInv, Regular, Phi
               PROVE  DeriveInv'
  OBVIOUS
<1>2. phase = "code" /\ RegsTyped
  BY <1>1 DEF DeriveInv, Phi, Coded
<1>3. PICK i \in IntRegs \cup PtrRegs :
        Computed({i}, TRUE, Type(i), Val(i), Term1(i), TRUE, {})
  BY <1>1 DEF Phi
<1>4. /\ Type(i) # PairType /\ Valued(Type(i), Val(i))
      /\ Term1(i) # Null => Term1(i).w = Type(i).w
      /\ Term1(i) # Null /\ RegsExact => Term1(i) = [w |-> Type(i).w, v |-> Val(i)]
  BY <1>2, AnyReg
<1>5. Ready({i}) => Sorted(Type(i), Val(i), Term1(i))
  BY <1>4 DEF Ready, Sorted
<1>6. Ready({i}) /\ RegsExact => Exactly(Type(i), Val(i), Term1(i))
  BY <1>4 DEF Ready, Exactly
<1>. QED
  BY <1>1, <1>2, <1>3, <1>4, <1>5, <1>6, ComputedInv

(* The side of a branch the run takes is the side the trace asserts.       *)
LEMMA BranchInv == DeriveInv /\ Regular /\ Branch => DeriveInv'
<1>1. SUFFICES ASSUME DeriveInv, Regular, Branch
               PROVE  DeriveInv'
  OBVIOUS
<1>2. phase = "code" /\ RegsTyped
  BY <1>1 DEF DeriveInv, Branch, Coded
<1>3. PICK c \in IntRegs, side \in Taken :
        /\ Type(c) = IntType(1)
        /\ side # -1 => Val(c) = 1 - side
        /\ Computed({c}, TRUE, VoidType, 0, NoValue,
                    CASE side = 0 -> ToBool(Term1(c))
                      [] side = 1 -> ~ToBool(Term1(c))
                      [] side = -1 -> TRUE, {})
  BY <1>1 DEF Branch
<1>. DEFINE asserted == CASE side = 0 -> ToBool(Term1(c))
                          [] side = 1 -> ~ToBool(Term1(c))
                          [] side = -1 -> TRUE
<1>4. Ready({c}) /\ RegsExact => asserted
  <2>1. Type(c).w = 1
    BY <1>3 DEF IntType
  <2>2. Term1(c) # Null /\ RegsExact => Term1(c) = [w |-> 1, v |-> Val(c)]
    BY <1>2, <2>1, IntReg
  <2>3. CASE side = 0
    BY <1>3, <2>2, <2>3 DEF Ready, ToBool
  <2>4. CASE side = 1
    BY <1>3, <2>2, <2>4 DEF Ready, ToBool
  <2>5. CASE side = -1
    BY <2>5
  <2>. QED
    BY <2>3, <2>4, <2>5 DEF Taken
<1>5. Computed({c}, TRUE, VoidType, 0, NoValue, asserted, {})
  BY <1>3
<1>. HIDE DEF asserted
<1>6. Valued(VoidType, 0) /\ Sorted(VoidType, 0, NoValue) /\ Exactly(VoidType, 0, NoValue)
  BY TypesValued, TypesSorted
<1>. QED
  BY <1>1, <1>2, <1>4, <1>5, <1>6, ComputedInv

LEMMA DigitRange ==
  ASSUME NEW v \in Nat, NEW k \in Nat, NEW b \in Nat
  PROVE  Digit(v, k, b) \in 0..(2^b - 1)
<1>1. b * k \in Nat
  OBVIOUS
<1>2. 2^(b * k) \in Nat \ {0} /\ 2^b \in Nat \ {0}
  BY <1>1, PowerPositive
<1>3. v \div 2^(b * k) \in Int
  BY <1>2
<1>. QED
  BY <1>2, <1>3 DEF Digit

LEMMA BitRange ==
  ASSUME NEW v \in Nat, NEW k \in Nat
  PROVE  Bit(v, k) \in {0, 1}
<1>1. 1 \in Nat /\ 2^1 = 2
  OBVIOUS
<1>2. Digit(v, k, 1) \in 0..(2^1 - 1)
  BY <1>1, DigitRange, Zenon
<1>. QED
  BY <1>1, <1>2 DEF Bit

(* The bitwise operations are numbers of as many bits.                     *)
LEMMA BitsNumber ==
  ASSUME NEW w \in Nat, NEW c, \A k \in 0..(w - 1) : c[k] \in {0, 1}
  PROVE  Number(c, w, 1) \in Int
<1>1. 2^1 = 2
  OBVIOUS
<1>2. \A k \in 0..(w - 1) : c[k] \in 0..(2^1 - 1)
  BY <1>1
<1>3. Number(c, w, 1) \in 0..(2^(1 * w) - 1)
  BY <1>2, NumberInRange
<1>. QED
  BY <1>3

LEMMA QuotientInt ==
  ASSUME NEW x \in Int, NEW y \in Int, y # 0
  PROVE  Quotient(x, y) \in Int
<1>. DEFINE m == IF x < 0 THEN -x ELSE x
            n == IF y < 0 THEN -y ELSE y
            q == m \div n
<1>1. m \in Nat /\ n \in Nat \ {0}
  OBVIOUS
<1>2. q \in Int
  <2>. HIDE DEF m, n
  <2>. QED
    BY <1>1
<1>. HIDE DEF q
<1>3. Quotient(x, y) = IF (x < 0) = (y < 0) THEN q ELSE -q
  BY DEF Quotient, q
<1>. QED
  BY <1>2, <1>3

CalcOpList == {"add", "sub", "mul", "udiv", "urem", "sdiv", "srem", "shl", "lshr", "ashr",
               "and", "or", "xor"}

(* An operation with a meaning has an integer for its result.              *)
LEMMA ResultInt ==
  ASSUME NEW op \in CalcOpList, NEW flags, NEW w \in Nat \ {0},
         NEW a \in 0..(2^w - 1), NEW b \in 0..(2^w - 1), ~Undefined(op, flags, w, a, b)
  PROVE  Result(op, w, a, b) \in Int
<1>. DEFINE x == Signed(w, a)
            y == Signed(w, b)
<1>1. a \in Nat /\ b \in Nat /\ x \in Int /\ y \in Int
  <2>1. 2^w \in Nat
    BY PowerPositive
  <2>2. a \in Nat /\ b \in Nat
    BY <2>1
  <2>. QED
    BY <2>2, SignedInt
<1>2. 2^b \in Nat \ {0} /\ 2^w \in Nat \ {0}
  BY <1>1, PowerPositive
<1>3. CASE op \in {"add", "sub", "mul"}
  BY <1>1, <1>3 DEF Result
<1>4. CASE op \in {"udiv", "urem"}
  <2>1. b # 0
    BY <1>4 DEF Undefined
  <2>2. a \div b \in Int /\ a % b \in Int
    BY <1>1, <2>1
  <2>. QED
    BY <1>4, <2>2 DEF Result
<1>5. CASE op \in {"sdiv", "srem"}
  <2>1. b # 0
    BY <1>5 DEF Undefined
  <2>2. y # 0
    <3>1. 2^w \in Nat /\ b < 2^w
      BY <1>2
    <3>. QED
      BY <1>1, <2>1, <3>1, SignedInt
  <2>. HIDE DEF x, y
  <2>3. Quotient(x, y) \in Int
    BY <1>1, <2>2, QuotientInt
  <2>4. y * Quotient(x, y) \in Int
    BY <1>1, <2>3
  <2>5. x - y * Quotient(x, y) \in Int
    BY <1>1, <2>4
  <2>6. Result(op, w, a, b) = IF op = "sdiv" THEN Quotient(x, y) ELSE x - y * Quotient(x, y)
    BY <1>5 DEF Result, x, y
  <2>. QED
    BY <2>3, <2>5, <2>6
<1>6. CASE op \in {"shl", "lshr", "ashr"}
  <2>. DEFINE p == 2^b
  <2>. HIDE DEF x
  <2>1. a * p \in Int /\ a \div p \in Int /\ x \div p \in Int
    <3>1. p \in Nat \ {0}
      BY <1>2
    <3>. HIDE DEF p
    <3>. QED
      BY <1>1, <3>1
  <2>. QED
    BY <1>6, <2>1 DEF Result, x
<1>7. CASE op \in {"and", "or", "xor"}
  <2>1. \A k \in 0..(w - 1) : Bit(a, k) \in {0, 1} /\ Bit(b, k) \in {0, 1}
    BY <1>1, BitRange
  <2>. DEFINE c1 == [k \in 0..(w - 1) |-> Bit(a, k) * Bit(b, k)]
              c2 == [k \in 0..(w - 1) |-> IF Bit(a, k) = 1 THEN 1 ELSE Bit(b, k)]
              c3 == [k \in 0..(w - 1) |-> (Bit(a, k) + Bit(b, k)) % 2]
  <2>2. \A k \in 0..(w - 1) : c1[k] \in {0, 1} /\ c2[k] \in {0, 1} /\ c3[k] \in {0, 1}
    <3>1. ASSUME NEW m \in {0, 1}, NEW n \in {0, 1}
          PROVE  m * n \in {0, 1} /\ (m + n) % 2 \in {0, 1}
      <4>1. m + n \in Int
        OBVIOUS
      <4>2. (m + n) % 2 \in 0..1
        BY <4>1
      <4>. QED
        BY <4>2
    <3>2. ASSUME NEW k \in 0..(w - 1)
          PROVE  c1[k] \in {0, 1} /\ c2[k] \in {0, 1} /\ c3[k] \in {0, 1}
      <4>. DEFINE m == Bit(a, k)
                  n == Bit(b, k)
      <4>1. m \in {0, 1} /\ n \in {0, 1}
        BY <2>1
      <4>2. c1[k] = m * n /\ c2[k] = (IF m = 1 THEN 1 ELSE n) /\ c3[k] = (m + n) % 2
        OBVIOUS
      <4>. HIDE DEF m, n, c1, c2, c3
      <4>. QED
        BY <3>1, <4>1, <4>2
    <3>. QED
      BY <3>2
  <2>3. Result(op, w, a, b) \in {Number(c1, w, 1), Number(c2, w, 1), Number(c3, w, 1)}
    BY <1>7 DEF Result
  <2>. HIDE DEF c1, c2, c3
  <2>4. Number(c1, w, 1) \in Int /\ Number(c2, w, 1) \in Int /\ Number(c3, w, 1) \in Int
    BY <2>2, BitsNumber
  <2>. QED
    BY <2>3, <2>4
<1>. QED
  BY <1>3, <1>4, <1>5, <1>6, <1>7 DEF CalcOpList

LEMMA BoundsInt ==
  ASSUME NEW w \in Nat \ {0}
  PROVE  Lowest(w) \in Int /\ Highest(w) \in Int
<1>1. w - 1 \in Nat
  OBVIOUS
<1>2. 2^(w - 1) \in Nat
  BY <1>1, PowerPositive
<1>. QED
  BY <1>2 DEF Lowest, Highest

(* What is asserted of an operation is true of the run, if the run is      *)
(* defined and no signed result wraps.                                     *)
LEMMA ConstraintHolds ==
  ASSUME NEW op, NEW flags, NEW w \in Nat \ {0}, NEW a, NEW b,
         ~Undefined(op, flags, w, a, b), Exact(op) => SignedFits(op, w, a, b)
  PROVE  Constraint(op, flags, [w |-> w, v |-> a], [w |-> w, v |-> b])
<1>. DEFINE l == [w |-> w, v |-> a]
            r == [w |-> w, v |-> b]
            s == SignedResult(op, w, a, b)
<1>1. l.w = w /\ l.v = a /\ r.v = b
  OBVIOUS
<1>. HIDE DEF l, r
<1>2. Exact(op) => s <= Highest(w) /\ s >= Lowest(w)
  <2>1. Exact(op) => s \in Lowest(w)..Highest(w)
    BY DEF SignedFits
  <2>. HIDE DEF s
  <2>. QED
    BY <2>1, BoundsInt
<1>3. Exact(op) /\ "nuw" \in flags => Result(op, w, a, b) \in 0..(2^w - 1)
  BY DEF Undefined
<1>4. op = "sdiv" => ~(Signed(w, a) = Lowest(w) /\ Signed(w, b) = -1)
  BY DEF Undefined
<1>5. op \in {"add", "mul", "sub"} => Exact(op)
  BY DEF Exact
<1>. HIDE DEF s
<1>6. Constraint(op, flags, l, r)
  BY <1>1, <1>2, <1>3, <1>4, <1>5 DEF Constraint, s
<1>. QED
  BY <1>6 DEF l, r

LEMMA CalcInv == DeriveInv /\ Regular /\ Calc => DeriveInv'
<1>1. SUFFICES ASSUME DeriveInv, Regular, Calc
               PROVE  DeriveInv'
  OBVIOUS
<1>2. phase = "code" /\ RegsTyped /\ trial \in Trials
  BY <1>1 DEF DeriveInv, Calc, Coded
<1>3. PICK i \in IntRegs, j \in IntRegs, op \in CalcOps, flags \in Flags :
        /\ Type(i) = Type(j)
        /\ ~Undefined(op, flags, Type(i).w, Val(i), Val(j))
        /\ Computed({i, j}, Prepared(i, j), Type(i),
                    Result(op, Type(i).w, Val(i), Val(j)) % 2^Type(i).w,
                    CalcTerm(op, Term1(i), Term1(j)),
                    Constraint(op, flags, Term1(i), Term1(j)),
                    IF Exact(op) /\ ~SignedFits(op, Type(i).w, Val(i), Val(j))
                      THEN {"wrap"} ELSE {})
  BY <1>1 DEF Calc
<1>4. op \in CalcOpList
  BY <1>2, TrialAssumption DEF CalcOps, CalcOpList
<1>. DEFINE w == Type(i).w
            a == Val(i)
            b == Val(j)
            res == Result(op, w, a, b)
            val == res % 2^w
            sym == CalcTerm(op, Term1(i), Term1(j))
            asserted == Constraint(op, flags, Term1(i), Term1(j))
            excuse == IF Exact(op) /\ ~SignedFits(op, w, a, b) THEN {"wrap"} ELSE {}
<1>5. /\ w \in Nat \ {0} /\ Type(i) = IntType(w) /\ a \in 0..(2^w - 1)
      /\ Term1(i) # Null => Term1(i).w = w
      /\ Term1(i) # Null /\ RegsExact => Term1(i) = [w |-> w, v |-> a]
  BY <1>2, IntReg
<1>6. /\ b \in 0..(2^w - 1)
      /\ Term1(j) # Null => Term1(j).w = w
      /\ Term1(j) # Null /\ RegsExact => Term1(j) = [w |-> w, v |-> b]
  BY <1>2, <1>3, IntReg
<1>7. Ready({i, j}) => Prepared(i, j)
  BY <1>3, <1>5, <1>6 DEF Ready, Prepared
<1>8. Computed({i, j}, Prepared(i, j), IntType(w), val, sym, asserted, excuse)
      /\ ~Undefined(op, flags, w, a, b)
  BY <1>3, <1>5
<1>. HIDE DEF w, a, b
<1>9. res \in Int
  BY <1>4, <1>5, <1>6, <1>8, ResultInt
<1>10. Valued(IntType(w), val)
  <2>1. val \in 0..(2^w - 1)
    <3>. HIDE DEF res
    <3>. QED
      BY <1>5, <1>9, BvRange
  <2>. HIDE DEF val
  <2>. QED
    BY <1>5, <2>1, TypesValued
<1>11. Ready({i, j}) => sym.w = w
  BY <1>5 DEF Ready, CalcTerm, Bv
<1>12. Ready({i, j}) /\ RegsExact => sym = [w |-> w, v |-> val]
  <2>1. CalcTerm(op, [w |-> w, v |-> a], [w |-> w, v |-> b]) = [w |-> w, v |-> val]
    BY DEF CalcTerm, Bv
  <2>. HIDE DEF val
  <2>. QED
    BY <1>5, <1>6, <2>1 DEF Ready
<1>13. Ready({i, j}) /\ RegsExact /\ excuse = {} => asserted
  <2>1. excuse = {} => (Exact(op) => SignedFits(op, w, a, b))
    OBVIOUS
  <2>. HIDE DEF excuse
  <2>2. excuse = {} => Constraint(op, flags, [w |-> w, v |-> a], [w |-> w, v |-> b])
    BY <1>5, <1>8, <2>1, ConstraintHolds
  <2>. QED
    BY <1>5, <1>6, <2>2 DEF Ready
<1>. HIDE DEF val, sym, asserted, excuse
<1>14. (Ready({i, j}) => Sorted(IntType(w), val, sym))
       /\ (Ready({i, j}) /\ RegsExact => Exactly(IntType(w), val, sym))
  BY <1>5, <1>11, <1>12, TypesSorted
<1>. QED
  BY <1>1, <1>2, <1>7, <1>8, <1>10, <1>13, <1>14, ComputedInv

LEMMA PointerValue ==
  ASSUME NEW x \in Int
  PROVE  /\ Pointer(x).w = PtrWidth /\ Pointer(x) = [w |-> PtrWidth, v |-> x % Space]
         /\ x % Space \in Address
         /\ x \in Address => Pointer(x) = [w |-> PtrWidth, v |-> x]
<1>1. PtrWidth \in Nat /\ Space = 2^PtrWidth /\ Space \in Nat \ {0} /\ Address = 0..(2^PtrWidth - 1)
  BY Widths
<1>. QED
  BY <1>1, BvRange DEF Pointer

(* An index that is computed in the width of a pointer leads to the same   *)
(* address as one that is signed, whatever the size of the elements.       *)
LEMMA GepInv == DeriveInv /\ Regular /\ Gep => DeriveInv'
<1>1. SUFFICES ASSUME DeriveInv, Regular, Gep
               PROVE  DeriveInv'
  OBVIOUS
<1>2. phase = "code" /\ RegsTyped /\ trial \in Trials
  BY <1>1 DEF DeriveInv, Gep, Coded
<1>3. Space \in Nat \ {0} /\ PtrWidth \in Nat \ {0} /\ Space = 2^PtrWidth /\ Address \subseteq Int
  BY Widths DEF Address
<1>4. ASSUME NEW p \in PtrRegs, NEW s \in Steps,
             Computed({p}, IsPointer(Term1(p)), PtrType, (Val(p) + s[1] * s[2]) % Space,
                      Pointer(Term1(p).v + s[1] * (s[2] % Space)), TRUE, {})
      PROVE  DeriveInv'
  <2>. DEFINE a == Val(p)
              n == s[1]
              t == s[2]
              val == (a + n * t) % Space
              sym == Pointer(Term1(p).v + n * (t % Space))
  <2>1. /\ a \in Address
        /\ Term1(p) # Null => Term1(p).w = PtrWidth
        /\ Term1(p) # Null /\ RegsExact => Term1(p) = [w |-> PtrWidth, v |-> a]
    BY <1>2, PtrReg
  <2>2. n \in Nat /\ t \in Int
    BY <1>2, TrialAssumption DEF Steps
  <2>3. Computed({p}, IsPointer(Term1(p)), PtrType, val, sym, TRUE, {})
    BY <1>4
  <2>4. sym.w = PtrWidth
    BY DEF Pointer, Bv
  <2>. HIDE DEF a, n, t
  <2>5. a + n * t \in Int /\ a + n * (t % Space) \in Int
    BY <1>3, <2>1, <2>2
  <2>6. (a + n * (t % Space)) % Space = val
    <3>1. Space \in Nat \ {0} /\ a \in Int /\ n \in Int /\ t \in Int
      BY <1>3, <2>1, <2>2
    <3>. QED
      BY <3>1, ModFactor, Zenon
  <2>7. val \in Address /\ Pointer(a + n * (t % Space)) = [w |-> PtrWidth, v |-> val]
    <3>. DEFINE x == a + n * t
                y == a + n * (t % Space)
    <3>1. x \in Int /\ y \in Int /\ x % Space = y % Space
      BY <2>5, <2>6
    <3>. HIDE DEF x, y
    <3>2. x % Space \in Address /\ Pointer(y) = [w |-> PtrWidth, v |-> x % Space]
      BY <3>1, PointerValue
    <3>. QED
      BY <3>2 DEF x, y
  <2>8. Ready({p}) /\ RegsExact => sym = [w |-> PtrWidth, v |-> val]
    <3>. HIDE DEF val
    <3>. QED
      BY <2>1, <2>7 DEF Ready
  <2>. HIDE DEF val, sym
  <2>9. Ready({p}) => IsPointer(Term1(p))
    BY <2>1 DEF Ready, IsPointer
  <2>10. Valued(PtrType, val) /\ Sorted(PtrType, val, sym)
         /\ (Ready({p}) /\ RegsExact => Exactly(PtrType, val, sym))
    BY <2>4, <2>7, <2>8, TypesValued, TypesSorted
  <2>. QED
    BY <1>1, <1>2, <2>3, <2>9, <2>10, ComputedInv
<1>5. ASSUME NEW p \in PtrRegs, NEW i \in SizeRegs, NEW n \in Scales,
             Computed({p, i}, IsPointer(Term1(p)) /\ IsPointer(Term1(i)), PtrType,
                      (Val(p) + n * Signed(PtrWidth, Val(i))) % Space,
                      Pointer(Term1(p).v + n * Term1(i).v), TRUE, {})
      PROVE  DeriveInv'
  <2>. DEFINE a == Val(p)
              k == Val(i)
              z == Signed(PtrWidth, k)
              val == (a + n * z) % Space
              sym == Pointer(Term1(p).v + n * Term1(i).v)
  <2>1. /\ a \in Address
        /\ Term1(p) # Null => Term1(p).w = PtrWidth
        /\ Term1(p) # Null /\ RegsExact => Term1(p) = [w |-> PtrWidth, v |-> a]
    BY <1>2, PtrReg
  <2>2. /\ k \in 0..(2^PtrWidth - 1)
        /\ Term1(i) # Null => Term1(i).w = PtrWidth
        /\ Term1(i) # Null /\ RegsExact => Term1(i) = [w |-> PtrWidth, v |-> k]
    BY <1>2, IntReg DEF SizeRegs
  <2>3. n \in Nat
    BY <1>2, TrialAssumption DEF Scales
  <2>4. Computed({p, i}, IsPointer(Term1(p)) /\ IsPointer(Term1(i)), PtrType, val, sym, TRUE, {})
    BY <1>5
  <2>5. sym.w = PtrWidth
    BY DEF Pointer, Bv
  <2>. HIDE DEF a, k
  <2>6. k \in Int /\ z \in Int /\ z % Space = k
    <3>1. k \in Int /\ z \in Int /\ (z = k \/ z = k - Space)
      BY <1>3, <2>2, SignedInt
    <3>2. k % Space = k
      BY <1>3, <2>2, ModSmall
    <3>. HIDE DEF z
    <3>3. CASE z = k
      BY <3>1, <3>2, <3>3
    <3>4. CASE z = k - Space
      <4>. DEFINE q == -1
      <4>1. q \in Int /\ k + Space * q = z
        BY <1>3, <3>1, <3>4
      <4>. HIDE DEF q
      <4>2. (k + Space * q) % Space = k % Space
        BY <1>3, <3>1, <4>1, ModShift, Zenon
      <4>. QED
        BY <3>1, <3>2, <4>1, <4>2
    <3>. QED
      BY <3>1, <3>3, <3>4
  <2>. HIDE DEF z
  <2>7. (a + n * (z % Space)) % Space = (a + n * z) % Space
    <3>1. Space \in Nat \ {0} /\ a \in Int /\ n \in Int /\ z \in Int
      BY <1>3, <2>1, <2>3, <2>6
    <3>. QED
      BY <3>1, ModFactor, Zenon
  <2>8. val \in Address /\ Pointer(a + n * k) = [w |-> PtrWidth, v |-> val]
    <3>. DEFINE x == a + n * z
                y == a + n * k
    <3>1. x \in Int /\ y \in Int /\ x % Space = y % Space
      BY <1>3, <2>1, <2>3, <2>6, <2>7
    <3>. HIDE DEF x, y
    <3>2. x % Space \in Address /\ Pointer(y) = [w |-> PtrWidth, v |-> x % Space]
      BY <3>1, PointerValue
    <3>. QED
      BY <3>2 DEF x, y
  <2>9. Ready({p, i}) /\ RegsExact => sym = [w |-> PtrWidth, v |-> val]
    <3>. HIDE DEF val
    <3>. QED
      BY <2>1, <2>2, <2>8 DEF Ready
  <2>. HIDE DEF val, sym
  <2>10. Ready({p, i}) => IsPointer(Term1(p)) /\ IsPointer(Term1(i))
    BY <2>1, <2>2 DEF Ready, IsPointer
  <2>11. Valued(PtrType, val) /\ Sorted(PtrType, val, sym)
         /\ (Ready({p, i}) /\ RegsExact => Exactly(PtrType, val, sym))
    BY <2>5, <2>8, <2>9, TypesValued, TypesSorted
  <2>. QED
    BY <1>1, <1>2, <2>4, <2>10, <2>11, ComputedInv
<1>. QED
  BY <1>1, <1>4, <1>5 DEF Gep

(* Values of the width of a pointer.                                       *)
LEMMA SizeReg ==
  ASSUME RegsTyped, NEW i \in SizeRegs
  PROVE  /\ Val(i) \in Address /\ i \in IntRegs /\ Type(i).w = PtrWidth
         /\ Term1(i) # Null => Term1(i).w = PtrWidth /\ IsPointer(Term1(i))
         /\ Term1(i) # Null /\ RegsExact => Term1(i) = [w |-> PtrWidth, v |-> Val(i)]
BY IntReg, Widths DEF SizeRegs, IsPointer

LEMMA SizeTyped ==
  ASSUME NEW val \in Address, NEW sym, sym.w = PtrWidth
  PROVE  /\ Valued(IntType(PtrWidth), val) /\ Sorted(IntType(PtrWidth), val, sym)
         /\ sym = [w |-> PtrWidth, v |-> val] => Exactly(IntType(PtrWidth), val, sym)
BY Widths, TypesValued, TypesSorted

LEMMA SlotsSmall == SlotLen["heap"] \in Nat \ {0} /\ SlotLen["heap"] < Space /\ Lengths \subseteq Address
<1>1. "heap" \in Kinds
  BY DEF Kinds
<1>2. SlotLen["heap"] \in Nat \ {0} /\ SlotLen["heap"] < Space
  BY <1>1, LayoutAssumption, WidthAssumption
<1>. QED
  BY <1>2, Widths DEF Lengths, Address

LEMMA ExtractInv == DeriveInv /\ Regular /\ ExtractValue => DeriveInv'
<1>1. SUFFICES ASSUME DeriveInv, Regular, ExtractValue
               PROVE  DeriveInv'
  OBVIOUS
<1>2. phase = "code" /\ RegsTyped
  BY <1>1 DEF DeriveInv, ExtractValue, Coded
<1>3. PICK i \in DOMAIN regs, part \in {"status", "data"} :
        /\ Type(i) = PairType
        /\ Computed({i}, TRUE, IntType(PtrWidth), Val(i)[part], PartTerm(Term1(i), part), TRUE,
                    IF Val(i)["status"] = Val(i)["data"] THEN {} ELSE {"parts"})
  BY <1>1 DEF ExtractValue
<1>. DEFINE val == Val(i)[part]
            sym == PartTerm(Term1(i), part)
            excuse == IF Val(i)["status"] = Val(i)["data"] THEN {} ELSE {"parts"}
<1>4. /\ Val(i).status = 0 /\ Val(i).data \in Address
      /\ Term1(i) # Null => Term1(i) = [w |-> PtrWidth, v |-> Val(i).data]
  <2>1. Valued(PairType, Val(i)) /\ Sorted(PairType, Val(i), Term1(i))
    BY <1>2, <1>3 DEF RegsTyped
  <2>2. PairType # VoidType /\ PairType.w = 0
    BY DEF PairType, VoidType
  <2>. QED
    BY <2>1, <2>2 DEF Valued, Sorted
<1>5. val \in Address
  <2>1. 0 \in Address
    BY Widths DEF Address
  <2>. QED
    BY <1>3, <1>4, <2>1
<1>6. Ready({i}) => sym = [w |-> PtrWidth, v |-> Val(i).data]
  BY <1>4 DEF Ready, PartTerm
<1>7. excuse \cap {"call", "stale", "parts"} = {} => val = Val(i).data
  BY <1>3
<1>8. Computed({i}, TRUE, IntType(PtrWidth), val, sym, TRUE, excuse)
  BY <1>3
<1>. HIDE DEF val, sym, excuse
<1>9. Ready({i}) => sym.w = PtrWidth
  BY <1>6
<1>10. Valued(IntType(PtrWidth), val)
  BY <1>5, TypesValued, Widths
<1>11. Ready({i}) => Sorted(IntType(PtrWidth), val, sym)
  BY <1>5, <1>9, SizeTyped
<1>12. Ready({i}) /\ excuse \cap {"call", "stale", "parts"} = {} => Exactly(IntType(PtrWidth), val, sym)
  BY <1>5, <1>6, <1>7, <1>9, SizeTyped
<1>. QED
  BY <1>1, <1>2, <1>8, <1>10, <1>11, <1>12, ComputedInv

LEMMA CompareInv == DeriveInv /\ Regular /\ Compare => DeriveInv'
<1>1. SUFFICES ASSUME DeriveInv, Regular, Compare
               PROVE  DeriveInv'
  OBVIOUS
<1>2. phase = "code" /\ RegsTyped
  BY <1>1 DEF DeriveInv, Compare, Coded
<1>3. PICK i \in PtrRegs, j \in PtrRegs, count \in {{}} \cup {{c} : c \in SizeRegs}, r \in {0, 1} :
        Computed({i, j} \cup count, TRUE, IntType(PtrWidth), r, Pointer(0), TRUE,
                 IF r = 0 THEN {} ELSE {"call"})
  BY <1>1 DEF Compare
<1>. DEFINE I == {i, j} \cup count
            excuse == IF r = 0 THEN {} ELSE {"call"}
<1>4. 0 \in Address /\ 1 \in Address
  <2>1. Bits \in Nat \ {0} /\ 1 <= PtrWidth
    BY WidthAssumption
  <2>2. 2^1 <= 2^PtrWidth /\ 2^1 = 2
    <3>1. 1 \in Nat /\ 2^1 = 2 /\ PtrWidth \in Nat
      BY Widths
    <3>. QED
      BY <2>1, <3>1, PowerGrows
  <2>. QED
    BY <2>2, Widths
<1>5. Pointer(0) = [w |-> PtrWidth, v |-> 0]
  BY <1>4, PointerValue
<1>6. r \in Address /\ (excuse \cap {"call", "stale", "parts"} = {} => r = 0)
  BY <1>4
<1>7. Computed(I, TRUE, IntType(PtrWidth), r, Pointer(0), TRUE, excuse)
  BY <1>3
<1>. HIDE DEF I, excuse
<1>8. Valued(IntType(PtrWidth), r) /\ Sorted(IntType(PtrWidth), r, Pointer(0))
      /\ (excuse \cap {"call", "stale", "parts"} = {} => Exactly(IntType(PtrWidth), r, Pointer(0)))
  BY <1>5, <1>6, SizeTyped
<1>. QED
  BY <1>1, <1>2, <1>7, <1>8, ComputedInv

LEMMA LengthInv == DeriveInv /\ Regular /\ Length => DeriveInv'
<1>1. SUFFICES ASSUME DeriveInv, Regular, Length
               PROVE  DeriveInv'
  OBVIOUS
<1>2. phase = "code" /\ RegsTyped /\ trial \in Trials
  BY <1>1 DEF DeriveInv, Length, Coded
<1>3. ASSUME NEW r \in Lengths
      PROVE  /\ r \in Address /\ Pointer(r) = [w |-> PtrWidth, v |-> r]
             /\ Valued(IntType(PtrWidth), r) /\ Sorted(IntType(PtrWidth), r, Pointer(r))
             /\ Exactly(IntType(PtrWidth), r, Pointer(r))
  <2>1. r \in Address /\ r \in Int
    BY SlotsSmall, Widths DEF Address
  <2>2. Pointer(r) = [w |-> PtrWidth, v |-> r] /\ Pointer(r).w = PtrWidth
    BY <2>1, PointerValue
  <2>. QED
    BY <2>1, <2>2, SizeTyped
<1>4. ASSUME NEW i \in PtrRegs, NEW r \in Lengths,
             Computed({i}, TRUE, IntType(PtrWidth), r, Pointer(r), r < SlotLen["heap"],
                      IF r < SlotLen["heap"] THEN {} ELSE {"size"})
      PROVE  DeriveInv'
  <2>. DEFINE asserted == r < SlotLen["heap"]
              excuse == IF r < SlotLen["heap"] THEN {} ELSE {"size"}
  <2>1. Computed({i}, TRUE, IntType(PtrWidth), r, Pointer(r), asserted, excuse)
    BY <1>4
  <2>2. excuse = {} => asserted
    OBVIOUS
  <2>. HIDE DEF asserted, excuse
  <2>. QED
    BY <1>1, <1>2, <1>3, <2>1, <2>2, ComputedInv
<1>5. ASSUME NEW i \in PtrRegs, NEW c \in SizeRegs, NEW r \in Lengths, r <= Val(c),
             Computed({i, c}, IsPointer(Term1(c)), IntType(PtrWidth), r, Pointer(r),
                      r <= Term1(c).v, {})
      PROVE  DeriveInv'
  <2>. DEFINE asserted == r <= Term1(c).v
  <2>1. Computed({i, c}, IsPointer(Term1(c)), IntType(PtrWidth), r, Pointer(r), asserted, {})
    BY <1>5
  <2>2. Ready({i, c}) => IsPointer(Term1(c))
    BY <1>2, SizeReg DEF Ready
  <2>3. Ready({i, c}) /\ RegsExact => asserted
    BY <1>2, <1>5, SizeReg DEF Ready
  <2>. HIDE DEF asserted
  <2>. QED
    BY <1>1, <1>2, <1>3, <2>1, <2>2, <2>3, ComputedInv
<1>6. ASSUME NEW i \in PtrRegs, NEW r \in Lengths, NEW n \in Scales,
             Computed({i}, TRUE, IntType(PtrWidth), r, Pointer(n), TRUE,
                      IF r = n THEN {} ELSE {"call"})
      PROVE  DeriveInv'
  <2>. DEFINE excuse == IF r = n THEN {} ELSE {"call"}
  <2>1. Computed({i}, TRUE, IntType(PtrWidth), r, Pointer(n), TRUE, excuse)
    BY <1>6
  <2>2. excuse \cap {"call", "stale", "parts"} = {} => r = n
    OBVIOUS
  <2>. HIDE DEF excuse
  <2>3. Sorted(IntType(PtrWidth), r, Pointer(n))
    <3>1. Pointer(n).w = PtrWidth
      BY DEF Pointer, Bv
    <3>. QED
      BY <1>3, <3>1, SizeTyped
  <2>. QED
    BY <1>1, <1>2, <1>3, <2>1, <2>2, <2>3, ComputedInv
<1>. QED
  BY <1>1, <1>4, <1>5, <1>6 DEF Length

(* Bytes are swapped within the width of the value.                        *)
LEMMA SwapInv == DeriveInv /\ Regular /\ Swap => DeriveInv'
<1>1. SUFFICES ASSUME DeriveInv, Regular, Swap
               PROVE  DeriveInv'
  OBVIOUS
<1>2. phase = "code" /\ RegsTyped
  BY <1>1 DEF DeriveInv, Swap, Coded
<1>3. PICK i \in IntRegs :
        /\ Type(i).w = 2 * Bits
        /\ Computed({i}, (Term1(i).w \div Bits) % 2 = 0, Type(i), Swapped(Val(i), 2),
                    Bv(Term1(i).w, Swapped(Term1(i).v, Term1(i).w \div Bits)), TRUE, {})
  BY <1>1 DEF Swap
<1>. DEFINE w == 2 * Bits
            a == Val(i)
            val == Swapped(a, 2)
            sym == Bv(Term1(i).w, Swapped(Term1(i).v, Term1(i).w \div Bits))
<1>4. w \in Nat \ {0} /\ w \div Bits = 2 /\ 2 % 2 = 0
  <2>1. ASSUME NEW b, b = Bits
        PROVE  (2 * b) \div b = 2
    <3>1. b \in Nat \ {0}
      BY <2>1, Widths
    <3>. DEFINE q == (2 * b) \div b
                r == (2 * b) % b
    <3>2. q \in Int /\ r \in 0..(b - 1) /\ 2 * b = b * q + r
      BY <3>1
    <3>. HIDE DEF q, r
    <3>3. b * (2 - q) = r
      BY <3>1, <3>2
    <3>4. CASE 2 - q >= 1
      <4>1. b * (2 - q) >= b
        BY <3>1, <3>2, <3>4
      <4>. QED
        BY <3>1, <3>2, <3>3, <4>1
    <3>5. CASE 2 - q <= -1
      <4>1. b * (2 - q) <= -b
        BY <3>1, <3>2, <3>5
      <4>. QED
        BY <3>1, <3>2, <3>3, <4>1
    <3>. QED
      BY <3>2, <3>4, <3>5 DEF q
  <2>2. 2 % 2 = 0
    OBVIOUS
  <2>. QED
    BY <2>1, <2>2, Widths
<1>5. /\ Type(i) = IntType(w) /\ a \in 0..(2^w - 1) /\ a \in Nat
      /\ Term1(i) # Null => Term1(i).w = w
      /\ Term1(i) # Null /\ RegsExact => Term1(i) = [w |-> w, v |-> a]
  <2>1. 2^w \in Nat
    <3>. HIDE DEF w
    <3>. QED
      BY <1>4, PowerPositive
  <2>. QED
    BY <1>2, <1>3, <2>1, IntReg
<1>6. Computed({i}, (Term1(i).w \div Bits) % 2 = 0, IntType(w), val, sym, TRUE, {})
  BY <1>3, <1>5
<1>. HIDE DEF a
<1>7. val \in 0..(2^w - 1)
  <2>. DEFINE c == [k \in 0..(2 - 1) |-> Byte(a, 2 - 1 - k)]
  <2>1. \A k \in 0..(2 - 1) : c[k] \in 0..(2^Bits - 1)
    <3>1. ASSUME NEW k \in 0..(2 - 1)
          PROVE  c[k] \in 0..(2^Bits - 1)
      <4>. DEFINE m == 2 - 1 - k
      <4>1. m \in Nat /\ Bits \in Nat /\ c[k] = Byte(a, m)
        BY Widths
      <4>. HIDE DEF m, c
      <4>. QED
        BY <1>5, <4>1, DigitRange DEF Byte
    <3>. QED
      BY <3>1
  <2>2. val = Number(c, 2, Bits)
    BY DEF Swapped
  <2>. HIDE DEF c, val
  <2>3. 2 \in Nat /\ Bits \in Nat /\ Bits * 2 = w
    BY Widths
  <2>4. Number(c, 2, Bits) \in 0..(2^(Bits * 2) - 1)
    BY <2>1, <2>3, NumberInRange, Zenon
  <2>. QED
    BY <2>2, <2>3, <2>4
<1>8. Ready({i}) => (Term1(i).w \div Bits) % 2 = 0 /\ sym.w = w
  <2>. HIDE DEF w
  <2>. QED
    BY <1>4, <1>5 DEF Ready, Bv
<1>9. Ready({i}) /\ RegsExact => sym = [w |-> w, v |-> val]
  <2>. HIDE DEF w
  <2>1. Ready({i}) /\ RegsExact => sym = Bv(w, val)
    BY <1>4, <1>5 DEF Ready
  <2>. HIDE DEF val, sym
  <2>2. val \in Int /\ Bv(w, val) = [w |-> w, v |-> val]
    BY <1>4, <1>7, BvRange
  <2>. QED
    BY <2>1, <2>2
<1>. HIDE DEF w, val, sym
<1>10. Valued(IntType(w), val) /\ (Ready({i}) => Sorted(IntType(w), val, sym))
       /\ (Ready({i}) /\ RegsExact => Exactly(IntType(w), val, sym))
  BY <1>4, <1>7, <1>8, <1>9, TypesValued, TypesSorted
<1>. QED
  BY <1>1, <1>2, <1>6, <1>8, <1>10, ComputedInv

LEMMA EmitInv ==
  ASSUME DeriveInv, Regular, phase # "check", NEW ty, NEW val, NEW sym, Emit(ty, val, sym),
         Valued(ty, val), Sorted(ty, val, sym), Exactly(ty, val, sym),
         UNCHANGED <<trial, memVars, callVars, verdict, phase, flaw>>,
         next' \in [Kinds -> Address]
  PROVE  DeriveInv'
<1>1. RegsTyped /\ flaw = "none"
  BY DEF DeriveInv
<1>2. RegsTyped' /\ Extended /\ (RegsExact => RegsExact')
  BY <1>1, EmitGrows
<1>3. Grown
  BY <1>1, <1>2 DEF Grown, callVars
<1>4. MemTyped' /\ (MemExact => MemExact') /\ fetches' = fetches
  BY DEF DeriveInv, MemTyped, MemExact, memVars, callVars
<1>. QED
  BY <1>3, <1>4, GrownInv

LEMMA CreatePtrTyped ==
  ASSUME next \in [Kinds -> Address], NEW k \in Kinds, CreatePtr(k)
  PROVE  next' \in [Kinds -> Address]
<1>1. Advance(k) \in Address
  <2>1. next[k] \in Int /\ SlotLen[k] \in Int /\ Space \in Nat \ {0}
    BY LayoutAssumption DEF Address
  <2>2. next[k] + SlotLen[k] \in Int
    BY <2>1
  <2>. DEFINE x == next[k] + SlotLen[k]
  <2>. HIDE DEF x
  <2>3. x % Space \in 0..(Space - 1)
    BY <2>1, <2>2 DEF x
  <2>. QED
    BY <2>3 DEF Advance, Address, x
<1>. QED
  BY <1>1 DEF CreatePtr

LEMMA LeavesInv ==
  DeriveInv /\ Regular /\ (IntLeaf \/ NullLeaf \/ ObjectLeaf) => DeriveInv'
<1>1. SUFFICES ASSUME DeriveInv, Regular
               PROVE  IntLeaf \/ NullLeaf \/ ObjectLeaf => DeriveInv'
  OBVIOUS
<1>2. next \in [Kinds -> Address] /\ trial \in Trials
  BY <1>1 DEF DeriveInv
<1>3. ASSUME IntLeaf
      PROVE  DeriveInv'
  <2>1. PICK c \in Ints : Emit(IntType(c[1]), c[2], Bv(c[1], c[2]))
    BY <1>3 DEF IntLeaf
  <2>2. c[1] \in Nat \ {0} /\ c[2] \in 0..(2^c[1] - 1)
    BY <1>2, TrialAssumption DEF Ints
  <2>3. Bv(c[1], c[2]) = [w |-> c[1], v |-> c[2]]
    <3>. DEFINE w == c[1]
                x == c[2]
    <3>. HIDE DEF w, x
    <3>1. Bv(w, x) = [w |-> w, v |-> x]
      BY <2>2, BvRange DEF w, x
    <3>. QED
      BY <3>1 DEF w, x
  <2>4. /\ Valued(IntType(c[1]), c[2]) /\ Sorted(IntType(c[1]), c[2], Bv(c[1], c[2]))
        /\ Exactly(IntType(c[1]), c[2], Bv(c[1], c[2]))
    BY <2>2, <2>3, TypesValued, TypesSorted
  <2>5. next' = next /\ phase # "check" /\ UNCHANGED <<trial, memVars, callVars, verdict, phase, flaw>>
    BY <1>3 DEF IntLeaf, Leaf, LeafOnly, regionVars
  <2>. QED
    BY <1>1, <1>2, <2>1, <2>4, <2>5, EmitInv
<1>4. ASSUME NEW a \in Address
      PROVE  /\ Valued(PtrType, a) /\ Sorted(PtrType, a, Pointer(a)) /\ Exactly(PtrType, a, Pointer(a))
             /\ Valued(IntType(PtrWidth), a) /\ Sorted(IntType(PtrWidth), a, Pointer(a))
             /\ Exactly(IntType(PtrWidth), a, Pointer(a))
  <2>1. a \in Int
    BY Widths DEF Address
  <2>2. Pointer(a) = [w |-> PtrWidth, v |-> a] /\ Pointer(a).w = PtrWidth
    BY <2>1, PointerValue
  <2>. QED
    BY <2>2, TypesValued, TypesSorted, SizeTyped
<1>5. 0 \in Address
  BY Widths DEF Address
<1>6. ASSUME NullLeaf
      PROVE  DeriveInv'
  <2>1. Emit(PtrType, 0, Pointer(0)) /\ next' = next /\ phase # "check"
        /\ UNCHANGED <<trial, memVars, callVars, verdict, phase, flaw>>
    BY <1>6 DEF NullLeaf, Leaf, LeafOnly, regionVars
  <2>. QED
    BY <1>1, <1>2, <1>4, <1>5, <2>1, EmitInv
<1>7. ASSUME NEW k \in Kinds, NEW ty \in {PtrType, IntType(PtrWidth)}, Object(k, ty)
      PROVE  DeriveInv'
  <2>1. Emit(ty, next[k], Pointer(next[k])) /\ CreatePtr(k) /\ phase # "check"
        /\ UNCHANGED <<trial, memVars, callVars, verdict, phase, flaw>>
    BY <1>7 DEF Object, Leaf, LeafOnly
  <2>2. next[k] \in Address /\ next' \in [Kinds -> Address]
    BY <1>2, <2>1, CreatePtrTyped
  <2>. QED
    BY <1>1, <1>4, <2>1, <2>2, EmitInv
<1>8. ASSUME ObjectLeaf
      PROVE  DeriveInv'
  BY <1>7, <1>8 DEF ObjectLeaf, Kinds
<1>. QED
  BY <1>3, <1>6, <1>8

LEMMA SizeExcused ==
  ASSUME NEW v
  PROVE  SizeExcuse(v) \in {{}, {"size"}}
         /\ ("size" \notin SizeExcuse(v) => v > 0 /\ v < SlotLen["heap"])
BY DEF SizeExcuse

LEMMA FetchAdded ==
  ASSUME Grown, NEW s \in PtrRegs, NEW i \in IntRegs, Type(i).w <= PtrWidth,
         "size" \notin excused' => Val(i) > 0, FetchOf(s, i)
  PROVE  \A f \in fetches' : f \in fetches \/ FetchTyped(f)'
<1>1. s \in DOMAIN regs /\ i \in DOMAIN regs
  BY DEF PtrRegs, IntRegs
<1>2. regs'[s] = regs[s] /\ regs'[i] = regs[i] /\ s \in DOMAIN regs' /\ i \in DOMAIN regs'
  BY <1>1 DEF Grown, Extended
<1>. DEFINE g == <<s, i>>
<1>3. g[1] = s /\ g[2] = i /\ g = <<g[1], g[2]>>
  OBVIOUS
<1>4. FetchTyped(g)'
  <2>1. s \in PtrRegs' /\ i \in IntRegs' /\ Type(i)' = Type(i) /\ Val(i)' = Val(i)
    BY <1>2 DEF PtrRegs, IntRegs, Type, Val
  <2>. QED
    BY <1>3, <2>1 DEF FetchTyped
<1>5. fetches' = fetches \cup {g}
  BY DEF FetchOf
<1>. QED
  BY <1>4, <1>5

(* The run writes behind the back of SymExec.                              *)
LEMMA UnnoticedExact ==
  ASSUME NEW m \in [Address -> 0..(2^Bits - 1)], NEW cells,
         \A x \in Address \ cells : m[x] = mem[x], Unnoticed(m, cells)
  PROVE  MemTyped' /\ (MemExact => MemExact')
<1>1. mem' = m /\ stale' = stale \cup (cells \cap fixed)
      /\ blob' = [x \in Address |-> IF x \in fixed THEN blob[x] ELSE m[x]]
  BY DEF Unnoticed
<1>2. MemTyped'
  BY <1>1 DEF MemTyped
<1>3. ASSUME MemExact, NEW x \in Address \ stale'
      PROVE  blob'[x] = mem'[x]
  <2>1. CASE x \in fixed
    <3>1. x \notin stale /\ x \notin cells
      BY <1>1, <1>3, <2>1
    <3>. QED
      BY <1>1, <1>3, <2>1, <3>1 DEF MemExact
  <2>2. CASE x \notin fixed
    BY <1>1, <2>2
  <2>. QED
    BY <2>1, <2>2
<1>. QED
  BY <1>2, <1>3 DEF MemExact

LEMMA FilledCells ==
  ASSUME MemTyped, NEW a \in Address, NEW n \in Nat, NEW d \in 0..(2^Bits - 1)
  PROVE  /\ Filled(a, n, d) \in [Address -> 0..(2^Bits - 1)]
         /\ \A x \in Address \ Cells(a, n) : Filled(a, n, d)[x] = mem[x]
BY CellsBehind DEF Filled, MemTyped

LEMMA WrittenCells ==
  ASSUME MemTyped, NEW a \in Address, NEW v \in Nat, NEW n \in Nat
  PROVE  /\ Written(mem, a, v, n) \in [Address -> 0..(2^Bits - 1)]
         /\ \A x \in Address \ Cells(a, n) : Written(mem, a, v, n)[x] = mem[x]
<1>1. ASSUME NEW x \in Address
      PROVE  Byte(v, (x - a) % Space) \in 0..(2^Bits - 1)
  <2>1. Space \in Nat \ {0} /\ x - a \in Int /\ Bits \in Nat
    BY Widths DEF Address
  <2>. DEFINE k == (x - a) % Space
  <2>2. k \in Nat
    BY <2>1
  <2>. HIDE DEF k
  <2>3. Byte(v, k) \in 0..(2^Bits - 1)
    BY <2>1, <2>2, DigitRange DEF Byte
  <2>. QED
    BY <2>3 DEF k
<1>2. Written(mem, a, v, n) \in [Address -> 0..(2^Bits - 1)]
  BY <1>1 DEF Written, MemTyped
<1>3. \A x \in Address \ Cells(a, n) : Written(mem, a, v, n)[x] = mem[x]
  BY CellsBehind DEF Written
<1>. QED
  BY <1>2, <1>3

LEMMA IgnoreInv == DeriveInv /\ Regular /\ Ignore => DeriveInv'
<1>1. SUFFICES ASSUME DeriveInv, Regular, Ignore
               PROVE  DeriveInv'
  OBVIOUS
<1>2. /\ phase = "code" /\ RegsTyped /\ flaw = "none" /\ MemTyped /\ trial \in Trials
      /\ next \in [Kinds -> Address]
      /\ UNCHANGED <<trial, callVars, verdict, phase, flaw, regionVars>>
  BY <1>1 DEF DeriveInv, Ignore, Coded
<1>3. PICK ty \in {PtrType, IntType(PtrWidth)}, v \in {0} \cup {Val(p) : p \in PtrRegs} :
        Emit(ty, v, Null)
  BY <1>1 DEF Ignore
<1>4. v \in Address
  BY <1>2, PtrReg, Widths DEF Address
<1>5. Valued(ty, v) /\ Sorted(ty, v, Null) /\ Exactly(ty, v, Null)
  <2>1. Valued(PtrType, v)
    BY <1>4, TypesValued
  <2>2. Valued(IntType(PtrWidth), v)
    BY <1>4, Widths, TypesValued
  <2>. QED
    BY <2>1, <2>2 DEF Sorted, Exactly
<1>6. RegsTyped' /\ Extended /\ (RegsExact => RegsExact')
  BY <1>2, <1>3, <1>5, EmitGrows
<1>7. Grown
  BY <1>2, <1>6 DEF Grown, callVars
<1>8. MemTyped' /\ (MemExact => MemExact')
  <2>1. CASE UNCHANGED memVars
    BY <1>2, <2>1 DEF memVars, MemTyped, MemExact
  <2>2. ASSUME NEW p \in Accessible, NEW n \in Lengths, NEW d \in UserData,
               Unnoticed(Filled(Val(p), n, d), Cells(Val(p), n))
        PROVE  MemTyped' /\ (MemExact => MemExact')
    <3>. DEFINE a == Val(p)
                m == Filled(a, n, d)
                cells == Cells(a, n)
    <3>1. a \in Address /\ d \in 0..(2^Bits - 1)
      BY <1>2, PtrReg, TrialAssumption DEF Accessible, UserData
    <3>2. n \in Nat
      BY SlotsSmall, Widths DEF Address
    <3>. HIDE DEF a
    <3>3. /\ m \in [Address -> 0..(2^Bits - 1)]
          /\ \A x \in Address \ cells : m[x] = mem[x]
      BY <1>2, <3>1, <3>2, FilledCells
    <3>4. Unnoticed(m, cells)
      BY <2>2 DEF a
    <3>. HIDE DEF m, cells
    <3>. QED
      BY <3>3, <3>4, UnnoticedExact
  <2>. QED
    BY <1>1, <2>1, <2>2 DEF Ignore
<1>9. fetches' = fetches /\ next' = next /\ phase # "check"
  BY <1>2 DEF callVars, regionVars
<1>. QED
  BY <1>1, <1>2, <1>7, <1>8, <1>9, GrownInv

LEMMA GetUserInv == DeriveInv /\ Regular /\ GetUser => DeriveInv'
<1>1. SUFFICES ASSUME DeriveInv, Regular, GetUser
               PROVE  DeriveInv'
  OBVIOUS
<1>2. phase = "code" /\ RegsTyped /\ trial \in Trials /\ flaw = "none" /\ (excused = {} => RegsExact)
  BY <1>1 DEF DeriveInv, GetUser, Coded, Faithful
<1>3. PICK s \in PtrRegs, i \in SizeRegs, d \in UserData :
        /\ Derived({s, i}, IsPointer(Term1(i)), PairType, [status |-> 0, data |-> d],
                   Pointer(d), Sized(Term1(i)), SizeExcuse(Val(i)))
        /\ FetchOf(s, i)
  BY <1>1 DEF GetUser
<1>. DEFINE val == [status |-> 0, data |-> d]
<1>4. d \in Address /\ Pointer(d) = [w |-> PtrWidth, v |-> d]
  <2>1. d \in 0..(2^Bits - 1)
    BY <1>2, TrialAssumption DEF UserData
  <2>2. 2^Bits <= 2^PtrWidth /\ 2^Bits \in Nat /\ 2^PtrWidth \in Nat
    BY WidthAssumption, Widths, PowerGrows, PowerPositive
  <2>3. d \in Address /\ d \in Int
    BY <2>1, <2>2, Widths
  <2>. QED
    BY <2>3, PointerValue
<1>5. val.status = 0 /\ val.data = d
  OBVIOUS
<1>. HIDE DEF val
<1>6. Valued(PairType, val) /\ Sorted(PairType, val, Pointer(d)) /\ Exactly(PairType, val, Pointer(d))
  <2>1. PairType.w = 0
    BY DEF PairType
  <2>. QED
    BY <1>4, <1>5, <2>1 DEF Valued, Sorted, Exactly
<1>7. Ready({s, i}) => IsPointer(Term1(i))
  BY <1>2, SizeReg DEF Ready
<1>8. Ready({s, i}) /\ excused = {} /\ SizeExcuse(Val(i)) = {} => Sized(Term1(i))
  BY <1>2, SizeReg, SizeExcused DEF Ready, Sized
<1>9. Derived({s, i}, IsPointer(Term1(i)), PairType, val, Pointer(d), Sized(Term1(i)), SizeExcuse(Val(i)))
  BY <1>3 DEF val
<1>10. Grown
  BY <1>2, <1>6, <1>7, <1>8, <1>9, DerivedGrows
<1>11. "size" \notin excused' => Val(i) > 0
  BY <1>9, SizeExcused DEF Derived
<1>12. i \in IntRegs /\ Type(i).w <= PtrWidth
  BY <1>2, SizeReg, Widths
<1>13. \A f \in fetches' : f \in fetches \/ FetchTyped(f)'
  BY <1>3, <1>10, <1>11, <1>12, FetchAdded
<1>14. MemTyped' /\ (MemExact => MemExact') /\ next' \in [Kinds -> Address]
  BY <1>1 DEF DeriveInv, GetUser, MemTyped, MemExact, memVars, regionVars
<1>15. phase # "check"
  BY <1>2
<1>. QED
  BY <1>1, <1>10, <1>13, <1>14, <1>15, GrownInv

LEMMA MallocInv == DeriveInv /\ Regular /\ Malloc => DeriveInv'
<1>1. SUFFICES ASSUME DeriveInv, Regular, Malloc
               PROVE  DeriveInv'
  OBVIOUS
<1>2. /\ phase = "code" /\ RegsTyped /\ flaw = "none" /\ (excused = {} => RegsExact)
      /\ next \in [Kinds -> Address] /\ "heap" \in Kinds
  BY <1>1 DEF DeriveInv, Malloc, Coded, Faithful, Kinds
<1>3. PICK I \in {{}} \cup {{i} : i \in SizeRegs} :
        \E sizes \in SUBSET I :
          /\ Derived(I, \A i \in sizes : IsPointer(Term1(i)), PtrType, next["heap"],
                     Pointer(next["heap"]), \A i \in sizes : Sized(Term1(i)),
                     UNION {SizeExcuse(Val(i)) : i \in sizes})
          /\ IF Ready(I) THEN CreatePtr("heap") ELSE UNCHANGED regionVars
  BY <1>1 DEF Malloc
<1>4. PICK sizes \in SUBSET I :
        /\ Derived(I, \A i \in sizes : IsPointer(Term1(i)), PtrType, next["heap"],
                   Pointer(next["heap"]), \A i \in sizes : Sized(Term1(i)),
                   UNION {SizeExcuse(Val(i)) : i \in sizes})
        /\ IF Ready(I) THEN CreatePtr("heap") ELSE UNCHANGED regionVars
  BY <1>3
<1>. DEFINE a == next["heap"]
            sound == \A i \in sizes : IsPointer(Term1(i))
            asserted == \A i \in sizes : Sized(Term1(i))
            excuse == UNION {SizeExcuse(Val(i)) : i \in sizes}
<1>5. sizes \subseteq I /\ I \subseteq SizeRegs
  BY <1>3, <1>4
<1>6. a \in Address /\ Valued(PtrType, a) /\ Pointer(a) = [w |-> PtrWidth, v |-> a]
  <2>1. a \in Address /\ a \in Int
    BY <1>2, Widths DEF Address
  <2>. HIDE DEF a
  <2>. QED
    BY <2>1, PointerValue, TypesValued
<1>7. Sorted(PtrType, a, Pointer(a)) /\ Exactly(PtrType, a, Pointer(a))
  <2>1. Pointer(a).w = PtrWidth
    BY <1>6
  <2>. HIDE DEF a
  <2>. QED
    BY <1>6, <2>1, TypesSorted
<1>8. Ready(I) => sound
  BY <1>2, <1>5, SizeReg DEF Ready
<1>9. Ready(I) /\ excused = {} /\ excuse = {} => asserted
  BY <1>2, <1>5, SizeReg, SizeExcused DEF Ready, Sized
<1>10. Derived(I, sound, PtrType, a, Pointer(a), asserted, excuse)
  BY <1>4
<1>. HIDE DEF a, sound, asserted, excuse
<1>11. Grown
  BY <1>2, <1>6, <1>7, <1>8, <1>9, <1>10, DerivedGrows
<1>12. next' \in [Kinds -> Address]
  BY <1>2, <1>4, CreatePtrTyped DEF regionVars
<1>13. MemTyped' /\ (MemExact => MemExact') /\ fetches' = fetches /\ phase # "check"
  BY <1>1, <1>2 DEF DeriveInv, Malloc, MemTyped, MemExact, memVars
<1>. QED
  BY <1>1, <1>11, <1>12, <1>13, GrownInv

LEMMA DuplicateInv == DeriveInv /\ Regular /\ Duplicate => DeriveInv'
<1>1. SUFFICES ASSUME DeriveInv, Regular, Duplicate
               PROVE  DeriveInv'
  OBVIOUS
<1>2. /\ phase = "code" /\ RegsTyped /\ flaw = "none" /\ (excused = {} => RegsExact)
      /\ MemTyped /\ trial \in Trials
      /\ next \in [Kinds -> Address] /\ "heap" \in Kinds
  BY <1>1 DEF DeriveInv, Duplicate, Coded, Faithful, Kinds
<1>3. PICK s \in PtrRegs, i \in SizeRegs, d \in UserData :
        /\ Derived({s, i}, IsPointer(Term1(i)), PtrType, next["heap"], Pointer(next["heap"]),
                   Sized(Term1(i)), SizeExcuse(Val(i)))
        /\ IF Ready({s, i}) THEN CreatePtr("heap") ELSE UNCHANGED regionVars
        /\ Unnoticed(Filled(next["heap"], Val(i), d), Cells(next["heap"], Val(i)))
        /\ FetchOf(s, i)
  BY <1>1 DEF Duplicate
<1>. DEFINE a == next["heap"]
            n == Val(i)
<1>4. a \in Address /\ Valued(PtrType, a) /\ Pointer(a) = [w |-> PtrWidth, v |-> a]
  <2>1. a \in Address /\ a \in Int
    BY <1>2, Widths DEF Address
  <2>. HIDE DEF a
  <2>. QED
    BY <2>1, PointerValue, TypesValued
<1>5. Sorted(PtrType, a, Pointer(a)) /\ Exactly(PtrType, a, Pointer(a))
  <2>1. Pointer(a).w = PtrWidth
    BY <1>4
  <2>. HIDE DEF a
  <2>. QED
    BY <1>4, <2>1, TypesSorted
<1>6. n \in Nat /\ d \in 0..(2^Bits - 1)
  BY <1>2, SizeReg, Widths, TrialAssumption DEF Address, UserData
<1>7. Ready({s, i}) => IsPointer(Term1(i))
  BY <1>2, SizeReg DEF Ready
<1>8. Ready({s, i}) /\ excused = {} /\ SizeExcuse(n) = {} => Sized(Term1(i))
  BY <1>2, SizeReg, SizeExcused DEF Ready, Sized
<1>9. /\ Derived({s, i}, IsPointer(Term1(i)), PtrType, a, Pointer(a), Sized(Term1(i)), SizeExcuse(n))
      /\ Unnoticed(Filled(a, n, d), Cells(a, n))
  BY <1>3
<1>10. "size" \notin excused' => Val(i) > 0
  BY <1>9, SizeExcused DEF Derived
<1>11. i \in IntRegs /\ Type(i).w <= PtrWidth
  BY <1>2, SizeReg, Widths
<1>12. next' \in [Kinds -> Address]
  BY <1>2, <1>3, CreatePtrTyped DEF regionVars
<1>. HIDE DEF a, n
<1>13. Grown
  BY <1>2, <1>4, <1>5, <1>7, <1>8, <1>9, DerivedGrows
<1>14. \A f \in fetches' : f \in fetches \/ FetchTyped(f)'
  BY <1>3, <1>10, <1>11, <1>13, FetchAdded
<1>15. MemTyped' /\ (MemExact => MemExact')
  <2>. DEFINE m == Filled(a, n, d)
              cells == Cells(a, n)
  <2>1. /\ m \in [Address -> 0..(2^Bits - 1)]
        /\ \A x \in Address \ cells : m[x] = mem[x]
    BY <1>2, <1>4, <1>6, <1>9, FilledCells
  <2>2. Unnoticed(m, cells)
    BY <1>9
  <2>. HIDE DEF m, cells
  <2>. QED
    BY <2>1, <2>2, UnnoticedExact
<1>16. phase # "check"
  BY <1>2
<1>. QED
  BY <1>1, <1>12, <1>13, <1>14, <1>15, <1>16, GrownInv

LEMMA WidenedValue ==
  ASSUME NEW w \in Nat \ {0}, w <= PtrWidth, NEW v \in 0..(2^w - 1)
  PROVE  Widened([w |-> w, v |-> v]) = [w |-> PtrWidth, v |-> v]
<1>1. 2^w <= 2^PtrWidth /\ 2^w \in Nat /\ 2^PtrWidth \in Nat
  BY Widths, PowerGrows, PowerPositive
<1>2. v \in 0..(2^PtrWidth - 1) /\ v \in Int
  BY <1>1
<1>3. Bv(PtrWidth, v) = [w |-> PtrWidth, v |-> v]
  BY <1>2, Widths, BvRange
<1>. QED
  BY <1>3 DEF Widened

LEMMA CopyInv == DeriveInv /\ Regular /\ Copy => DeriveInv'
<1>1. SUFFICES ASSUME DeriveInv, Regular, Copy
               PROVE  DeriveInv'
  OBVIOUS
<1>2. /\ phase = "code" /\ RegsTyped /\ flaw = "none" /\ (excused = {} => RegsExact)
      /\ MemTyped /\ trial \in Trials /\ next \in [Kinds -> Address]
  BY <1>1 DEF DeriveInv, Copy, Coded, Faithful
<1>3. PICK t \in Accessible, s \in PtrRegs, i \in IntRegs :
        \/ i \in SizeRegs /\ CopyOf(t, s, i, IsPointer(Term1(i)), Term1(i))
        \/ Type(i).w <= PtrWidth /\ CopyOf(t, s, i, TRUE, Widened(Term1(i)))
  BY <1>1 DEF Copy
<1>4. PICK sound \in BOOLEAN, size \in {Term1(i), Widened(Term1(i))} :
         /\ Type(i).w <= PtrWidth
         /\ CopyOf(t, s, i, sound, size)
         /\ \/ i \in SizeRegs /\ sound = IsPointer(Term1(i)) /\ size = Term1(i)
            \/ sound = TRUE /\ size = Widened(Term1(i))
  <2>1. IsPointer(Term1(i)) \in BOOLEAN
    BY DEF IsPointer
  <2>2. i \in SizeRegs => Type(i).w <= PtrWidth
    BY Widths DEF SizeRegs
  <2>. QED
    BY <1>3, <2>1, <2>2
<1>5. PICK d \in UserData, left \in {0, 1} :
         /\ Derived({t, s, i}, sound, IntType(PtrWidth), left, Pointer(0), Sized(size),
                    SizeExcuse(Val(i)) \cup (IF left = 0 THEN {} ELSE {"call"}))
         /\ Unnoticed(Filled(Val(t), Val(i), d), Cells(Val(t), Val(i)))
         /\ FetchOf(s, i)
  BY <1>4 DEF CopyOf
<1>. DEFINE a == Val(t)
            w == Type(i).w
            n == Val(i)
            asserted == Sized(size)
            excuse == SizeExcuse(n) \cup (IF left = 0 THEN {} ELSE {"call"})
<1>6. /\ w \in Nat \ {0} /\ n \in 0..(2^w - 1) /\ n \in Nat
      /\ Term1(i) # Null /\ RegsExact => Term1(i) = [w |-> w, v |-> n]
  <2>1. /\ w \in Nat \ {0} /\ n \in 0..(2^w - 1)
        /\ Term1(i) # Null /\ RegsExact => Term1(i) = [w |-> w, v |-> n]
    BY <1>2, IntReg
  <2>. HIDE DEF w, n
  <2>2. 2^w \in Nat
    BY <2>1, PowerPositive
  <2>. QED
    BY <2>1, <2>2
<1>7. a \in Address /\ d \in 0..(2^Bits - 1)
  BY <1>2, PtrReg, TrialAssumption DEF Accessible, UserData
<1>8. left \in Address /\ Pointer(0) = [w |-> PtrWidth, v |-> 0]
  <2>1. 1 <= PtrWidth /\ 1 \in Nat /\ 2^1 = 2 /\ PtrWidth \in Nat
    BY WidthAssumption, Widths
  <2>2. 2^1 <= 2^PtrWidth
    BY <2>1, PowerGrows
  <2>3. 0 \in Address /\ 1 \in Address
    BY <2>1, <2>2, Widths
  <2>. QED
    BY <2>3, PointerValue
<1>9. excuse \cap {"call", "stale", "parts"} = {} => left = 0
  OBVIOUS
<1>10. /\ Derived({t, s, i}, sound, IntType(PtrWidth), left, Pointer(0), asserted, excuse)
      /\ Unnoticed(Filled(a, n, d), Cells(a, n)) /\ w <= PtrWidth
  BY <1>4, <1>5
<1>11. "size" \notin excuse => n > 0 /\ n < SlotLen["heap"]
  BY SizeExcused
<1>12. "size" \notin excused' => Val(i) > 0
  BY <1>10, <1>11 DEF Derived
<1>. HIDE DEF a, w, n
<1>13. Ready({t, s, i}) /\ excused = {} /\ excuse = {} => asserted
  <2>1. Widened([w |-> w, v |-> n]) = [w |-> PtrWidth, v |-> n]
    BY <1>6, <1>10, WidenedValue
  <2>2. Ready({t, s, i}) /\ excused = {} => size.v = n
    BY <1>2, <1>6, <1>4, <2>1 DEF Ready
  <2>. HIDE DEF excuse
  <2>. QED
    BY <1>11, <2>2 DEF Sized
<1>. HIDE DEF asserted, excuse
<1>14. Valued(IntType(PtrWidth), left) /\ Sorted(IntType(PtrWidth), left, Pointer(0))
       /\ (left = 0 => Exactly(IntType(PtrWidth), left, Pointer(0)))
  BY <1>8, SizeTyped
<1>15. Ready({t, s, i}) => sound
  <2>1. i \in SizeRegs /\ Term1(i) # Null => IsPointer(Term1(i))
    BY <1>2, SizeReg
  <2>. QED
    BY <1>4, <2>1 DEF Ready
<1>16. Grown
  BY <1>2, <1>9, <1>10, <1>13, <1>14, <1>15, DerivedGrows
<1>17. \A f \in fetches' : f \in fetches \/ FetchTyped(f)'
  BY <1>12, <1>16, <1>4, <1>5, FetchAdded
<1>18. MemTyped' /\ (MemExact => MemExact')
  <2>. DEFINE m == Filled(a, n, d)
              cells == Cells(a, n)
  <2>1. /\ m \in [Address -> 0..(2^Bits - 1)]
        /\ \A x \in Address \ cells : m[x] = mem[x]
    BY <1>2, <1>6, <1>7, <1>10, FilledCells
  <2>2. Unnoticed(m, cells)
    BY <1>10
  <2>. HIDE DEF m, cells
  <2>. QED
    BY <2>1, <2>2, UnnoticedExact
<1>19. phase # "check" /\ next' \in [Kinds -> Address]
  BY <1>1, <1>2 DEF Copy, regionVars
<1>. QED
  BY <1>1, <1>16, <1>17, <1>18, <1>19, GrownInv

(* Data that fills n addresses has that size, in the run and in memory.    *)
LEMMA DataSizes ==
  ASSUME Regular, NEW w \in MemWidths \cup {PtrWidth}
  PROVE  \E n \in {1, 2, 4, 8} :
           w = Bits * n /\ w \in Nat \ {0} /\ StoreSize(w) = n /\ TypeSize(w) = n /\ w \div Bits = n
<1>1. PICK n \in {1, 2, 4, 8} : w = Bits * n
  BY DEF Regular
<1>2. ASSUME NEW b \in Nat \ {0}, NEW r \in 0..(b - 1)
      PROVE  (b * n + r) \div b = n
  <2>. DEFINE x == b * n + r
              q == x \div b
              t == x % b
  <2>1. q \in Int /\ t \in 0..(b - 1) /\ x = b * q + t /\ n \in Nat
    BY <1>1
  <2>2. x = b * n + r
    OBVIOUS
  <2>. HIDE DEF x, q, t
  <2>3. b * (q - n) = r - t
    BY <2>1, <2>2
  <2>4. CASE q - n >= 1
    <3>1. b * (q - n) >= b
      BY <2>1, <2>4
    <3>. QED
      BY <2>1, <2>3, <3>1
  <2>5. CASE q - n <= -1
    <3>1. b * (q - n) <= -b
      BY <2>1, <2>5
    <3>. QED
      BY <2>1, <2>3, <3>1
  <2>. QED
    BY <2>1, <2>4, <2>5 DEF q, x
<1>3. w \div Bits = n /\ StoreSize(w) = n
  <2>. DEFINE b == Bits
              r == b - 1
  <2>1. b \in Nat \ {0} /\ r \in 0..(b - 1) /\ 0 \in 0..(b - 1) /\ n \in Nat
    BY <1>1, Widths
  <2>2. w = b * n + 0 /\ w + Bits - 1 = b * n + r
    BY <1>1, <2>1
  <2>3. StoreSize(w) = (b * n + r) \div b
    BY <2>2 DEF StoreSize
  <2>4. (b * n + 0) \div b = n
    <3>. HIDE DEF b, r
    <3>. QED
      BY <1>2, <2>1, Zenon
  <2>5. (b * n + r) \div b = n
    <3>. HIDE DEF b, r
    <3>. QED
      BY <1>2, <2>1
  <2>. HIDE DEF r
  <2>. QED
    BY <2>2, <2>3, <2>4, <2>5
<1>4. TypeSize(w) = n
  <2>. DEFINE Least(k) == StoreSize(w) <= k /\ \A m \in {1, 2, 4, 8} : StoreSize(w) <= m => k <= m
  <2>1. Least(n) /\ \A k \in {1, 2, 4, 8} : Least(k) => k = n
    BY <1>1, <1>3
  <2>2. TypeSize(w) = CHOOSE k \in {1, 2, 4, 8} : Least(k)
    BY DEF TypeSize
  <2>. HIDE DEF Least
  <2>. QED
    BY <1>1, <2>1, <2>2
<1>5. w \in Nat \ {0}
  <2>. DEFINE b == Bits
  <2>1. b \in Nat \ {0} /\ w = b * n
    BY <1>1, Widths
  <2>. HIDE DEF b
  <2>. QED
    BY <1>1, <2>1
<1>. QED
  BY <1>1, <1>3, <1>4, <1>5

LEMMA ReadRange ==
  ASSUME NEW m \in [Address -> 0..(2^Bits - 1)], NEW a \in Address, NEW n \in Nat
  PROVE  Read(m, a, n) \in Int
<1>. DEFINE c == [k \in 0..(n - 1) |-> m[(a + k) % Space]]
<1>1. \A k \in 0..(n - 1) : c[k] \in 0..(2^Bits - 1)
  <2>1. \A k \in 0..(n - 1) : (a + k) % Space \in Address
    BY Widths DEF Address
  <2>. QED
    BY <2>1
<1>2. Read(m, a, n) = Number(c, n, Bits)
  BY DEF Read
<1>. HIDE DEF c
<1>3. Bits \in Nat /\ Bits * n \in Nat
  BY Widths
<1>4. Number(c, n, Bits) \in 0..(2^(Bits * n) - 1)
  BY <1>1, <1>3, NumberInRange
<1>5. 2^(Bits * n) \in Nat
  BY <1>3, PowerPositive
<1>. QED
  BY <1>2, <1>4, <1>5

LEMMA ReadSame ==
  ASSUME NEW m, NEW f, NEW a \in Address, NEW n \in Nat, \A x \in Cells(a, n) : m[x] = f[x]
  PROVE  Read(m, a, n) = Read(f, a, n)
<1>. DEFINE c == [k \in 0..(n - 1) |-> m[(a + k) % Space]]
            e == [k \in 0..(n - 1) |-> f[(a + k) % Space]]
<1>1. \A k \in 0..(n - 1) : (a + k) % Space \in Cells(a, n)
  BY DEF Cells
<1>2. c = e
  BY <1>1
<1>3. Read(m, a, n) = Number(c, n, Bits) /\ Read(f, a, n) = Number(e, n, Bits)
  BY DEF Read
<1>. HIDE DEF c, e
<1>. QED
  BY <1>2, <1>3

(* SymExec loads what the run loads, from addresses whose content it knows *)
(* the writes of.                                                          *)
LEMMA LoadInv == DeriveInv /\ Regular /\ Load => DeriveInv'
<1>1. SUFFICES ASSUME DeriveInv, Regular, Load
               PROVE  DeriveInv'
  OBVIOUS
<1>2. /\ phase = "code" /\ RegsTyped /\ flaw = "none" /\ (Faithful => MemExact)
      /\ MemTyped /\ next \in [Kinds -> Address]
  BY <1>1 DEF DeriveInv, Load, Coded
<1>3. PICK p \in Accessible, ty \in {PtrType} \cup {IntType(u) : u \in MemWidths} :
        Derived({p}, IsPointer(Term1(p)), ty,
                Read(mem, Val(p), StoreSize(ty.w)) % 2^ty.w,
                LoadTerm(Term1(p), TypeSize(ty.w)), TRUE,
                IF Ready({p}) /\ Cells(Term1(p).v, TypeSize(ty.w)) \cap stale # {}
                  THEN {"stale"} ELSE {})
  BY <1>1 DEF Load
<1>. DEFINE a == Val(p)
            w == ty.w
            val == Read(mem, a, StoreSize(w)) % 2^w
            sym == LoadTerm(Term1(p), TypeSize(w))
            excuse == IF Ready({p}) /\ Cells(Term1(p).v, TypeSize(w)) \cap stale # {}
                        THEN {"stale"} ELSE {}
<1>4. /\ a \in Address
      /\ Term1(p) # Null => Term1(p).w = PtrWidth
      /\ Term1(p) # Null /\ RegsExact => Term1(p) = [w |-> PtrWidth, v |-> a]
  BY <1>2, PtrReg DEF Accessible
<1>5. w \in MemWidths \cup {PtrWidth} /\ ((ty = PtrType /\ w = PtrWidth) \/ ty = IntType(w))
  BY <1>3 DEF PtrType, IntType
<1>6. Derived({p}, IsPointer(Term1(p)), ty, val, sym, TRUE, excuse)
  BY <1>3
<1>7. Ready({p}) => IsPointer(Term1(p))
  BY <1>4 DEF Ready, IsPointer
<1>. HIDE DEF a, w
<1>8. PICK n \in {1, 2, 4, 8} :
        w = Bits * n /\ w \in Nat \ {0} /\ StoreSize(w) = n /\ TypeSize(w) = n
  BY <1>1, <1>5, DataSizes
<1>9. val = Read(mem, a, n) % 2^w /\ sym = Bv(w, Read(blob, Term1(p).v, n))
  BY <1>8 DEF LoadTerm
<1>10. Read(mem, a, n) \in Int /\ n \in Nat
  <2>1. n \in Nat /\ mem \in [Address -> 0..(2^Bits - 1)]
    BY <1>2, <1>8 DEF MemTyped
  <2>. QED
    BY <1>4, <2>1, ReadRange
<1>11. val \in 0..(2^w - 1) /\ Bv(w, Read(mem, a, n)) = [w |-> w, v |-> val]
  <2>. DEFINE x == Read(mem, a, n)
  <2>1. x \in Int /\ w \in Nat
    BY <1>8, <1>10
  <2>. HIDE DEF x, val
  <2>2. x % 2^w \in 0..(2^w - 1) /\ Bv(w, x) = [w |-> w, v |-> x % 2^w]
    BY <2>1, BvRange
  <2>. QED
    BY <1>9, <2>2 DEF x
<1>12. Ready({p}) /\ Faithful /\ RegsExact /\ excuse \cap {"call", "stale", "parts"} = {}
         => sym = [w |-> w, v |-> val]
  <2>1. SUFFICES ASSUME Ready({p}), Faithful, RegsExact, excuse \cap {"call", "stale", "parts"} = {}
                 PROVE  Read(blob, Term1(p).v, n) = Read(mem, a, n)
    BY <1>9, <1>11
  <2>2. Term1(p).v = a
    BY <1>4, <2>1 DEF Ready
  <2>3. Cells(a, n) \cap stale = {}
    BY <1>8, <2>1, <2>2
  <2>4. Cells(a, n) \subseteq Address
    BY <1>4, <1>10, Widths DEF Cells, Address
  <2>5. \A x \in Cells(a, n) : blob[x] = mem[x]
    BY <1>2, <2>1, <2>3, <2>4 DEF MemExact
  <2>. QED
    BY <1>4, <1>10, <2>2, <2>5, ReadSame
<1>13. sym.w = w
  BY <1>9 DEF Bv
<1>. HIDE DEF val, sym, excuse
<1>14. /\ Valued(ty, val) /\ Sorted(ty, val, sym)
       /\ sym = [w |-> w, v |-> val] => Exactly(ty, val, sym)
  <2>1. CASE ty = PtrType /\ w = PtrWidth
    BY <1>11, <1>13, <2>1, Widths, TypesValued, TypesSorted
  <2>2. CASE ty = IntType(w)
    BY <1>8, <1>11, <1>13, <2>2, TypesValued, TypesSorted
  <2>. QED
    BY <1>5, <2>1, <2>2
<1>15. Grown
  BY <1>2, <1>6, <1>7, <1>12, <1>14, DerivedGrows
<1>16. /\ MemTyped' /\ (MemExact => MemExact') /\ fetches' = fetches /\ phase # "check"
       /\ next' \in [Kinds -> Address]
  BY <1>1, <1>2 DEF Load, MemTyped, MemExact, regionVars
<1>. QED
  BY <1>1, <1>15, <1>16, GrownInv

(* Both memories take the same store, or it goes past SymExec and is noted *)
(* where the content was fixed already.                                    *)
LEMMA StoreInv == DeriveInv /\ Regular /\ Store => DeriveInv'
<1>1. SUFFICES ASSUME DeriveInv, Regular, Store
               PROVE  DeriveInv'
  OBVIOUS
<1>2. /\ phase = "code" /\ RegsTyped /\ flaw = "none" /\ (Faithful => MemExact)
      /\ MemTyped /\ next \in [Kinds -> Address]
  BY <1>1 DEF DeriveInv, Store, Coded
<1>3. PICK p \in Accessible, i \in PtrRegs \cup {j \in IntRegs : Type(j).w \in MemWidths} :
        /\ Derived({p, i}, IsPointer(Term1(p)), VoidType, 0, NoValue, TRUE, {})
        /\ IF Ready({p, i})
             THEN /\ mem' = Written(mem, Val(p), Val(i), StoreSize(Type(i).w))
                  /\ blob' = Stored(Term1(p), Term1(i))
                  /\ fixed' = fixed \cup Cells(Term1(p).v, Term1(i).w \div Bits)
                  /\ stale' = stale \ Cells(Term1(p).v, Term1(i).w \div Bits)
             ELSE Unnoticed(Written(mem, Val(p), Val(i), StoreSize(Type(i).w)),
                            Cells(Val(p), StoreSize(Type(i).w)))
  BY <1>1 DEF Store
<1>. DEFINE a == Val(p)
            v == Val(i)
            w == Type(i).w
<1>4. /\ a \in Address
      /\ Term1(p) # Null => Term1(p).w = PtrWidth
      /\ Term1(p) # Null /\ RegsExact => Term1(p) = [w |-> PtrWidth, v |-> a]
  BY <1>2, PtrReg DEF Accessible
<1>5. /\ w \in MemWidths \cup {PtrWidth} /\ v \in 0..(2^w - 1)
      /\ Term1(i) # Null => Term1(i).w = w
      /\ Term1(i) # Null /\ RegsExact => Term1(i) = [w |-> w, v |-> v]
  BY <1>2, <1>3, IntReg, PtrReg
<1>6. Ready({p, i}) => IsPointer(Term1(p))
  BY <1>4 DEF Ready, IsPointer
<1>7. Grown
  <2>1. Valued(VoidType, 0) /\ Sorted(VoidType, 0, NoValue) /\ Exactly(VoidType, 0, NoValue)
    BY TypesValued, TypesSorted
  <2>. QED
    BY <1>2, <1>3, <1>6, <2>1, DerivedGrows
<1>. HIDE DEF a, v, w
<1>8. PICK n \in {1, 2, 4, 8} :
        w = Bits * n /\ w \in Nat \ {0} /\ StoreSize(w) = n /\ w \div Bits = n
  BY <1>1, <1>5, DataSizes
<1>9. n \in Nat /\ v \in Nat
  <2>1. 2^w \in Nat
    BY <1>8, PowerPositive
  <2>. QED
    BY <1>5, <1>8, <2>1
<1>. DEFINE m == Written(mem, a, v, n)
            cells == Cells(a, n)
<1>10. m \in [Address -> 0..(2^Bits - 1)] /\ \A x \in Address \ cells : m[x] = mem[x]
  BY <1>2, <1>4, <1>9, WrittenCells
<1>11. MemTyped' /\ (Faithful' /\ RegsExact /\ MemExact => MemExact')
  <2>1. CASE Ready({p, i})
    <3>1. mem' = m /\ blob' = Written(blob, Term1(p).v, Term1(i).v, Term1(i).w \div Bits)
          /\ stale' = stale \ Cells(Term1(p).v, Term1(i).w \div Bits)
      BY <1>3, <1>8, <2>1 DEF Stored, a, v, w
    <3>2. MemTyped'
      BY <1>10, <3>1 DEF MemTyped
    <3>3. ASSUME RegsExact, MemExact
          PROVE  MemExact'
      <4>1. Term1(p).v = a /\ Term1(i).v = v /\ Term1(i).w = w
        BY <1>4, <1>5, <2>1, <3>3 DEF Ready
      <4>2. blob' = Written(blob, a, v, n) /\ stale' = stale \ cells
        BY <1>8, <3>1, <4>1
      <4>3. ASSUME NEW x \in Address \ stale'
            PROVE  Written(blob, a, v, n)[x] = m[x]
        <5>1. CASE x \in cells
          <6>1. (x - a) % Space < n
            BY <1>4, <1>9, <5>1, CellsBehind
          <6>. QED
            BY <6>1 DEF Written
        <5>2. CASE x \notin cells
          <6>1. ~((x - a) % Space < n)
            BY <1>4, <1>9, <5>2, CellsBehind
          <6>2. x \notin stale
            BY <4>2, <4>3, <5>2
          <6>3. blob[x] = mem[x]
            BY <3>3, <6>2 DEF MemExact
          <6>. QED
            BY <6>1, <6>3 DEF Written
        <5>. QED
          BY <5>1, <5>2
      <4>. HIDE DEF m
      <4>. QED
        BY <3>1, <4>2, <4>3 DEF MemExact
    <3>. QED
      BY <3>2, <3>3
  <2>2. CASE ~Ready({p, i})
    <3>1. Unnoticed(m, cells)
      BY <1>3, <1>8, <2>2 DEF a, v, w
    <3>. HIDE DEF m, cells
    <3>. QED
      BY <1>10, <3>1, UnnoticedExact
  <2>. QED
    BY <2>1, <2>2
<1>12. fetches' = fetches /\ phase # "check" /\ next' \in [Kinds -> Address]
  BY <1>1, <1>2 DEF Store, regionVars
<1>. QED
  BY <1>1, <1>7, <1>11, <1>12, GrownInv

LEMMA PhasesInv == DeriveInv /\ Regular /\ (EndLeaves \/ EndCode) => DeriveInv'
<1>1. SUFFICES ASSUME DeriveInv, Regular, EndLeaves \/ EndCode
               PROVE  DeriveInv'
  OBVIOUS
<1>2. UNCHANGED <<trial, regs, memVars, excused, fetches, verdict, flaw>> /\ next' = next
      /\ phase # "check" /\ verdict = <<>>
      /\ (phase' = "check" \/ held' = held)
  BY <1>1 DEF DeriveInv, EndLeaves, EndCode, Complete, regionVars, callVars
<1>3. Regular' /\ RegsTyped' /\ MemTyped' /\ (Faithful' => RegsExact' /\ MemExact')
  BY <1>1, <1>2 DEF DeriveInv, Regular, PtrInts, MemWidths, RegsTyped, MemTyped, Faithful,
     RegsExact, MemExact, memVars, Type, Val, Term1
<1>4. \A f \in fetches' : FetchTyped(f)'
  BY <1>1, <1>2 DEF DeriveInv, FetchTyped, PtrRegs, IntRegs, Type, Val
<1>5. OverlapExact' /\ verdict' = <<>>
  BY <1>2 DEF OverlapExact
<1>6. phase' # "check" /\ excused' = {} => held'
  <2>1. excused = {} => held
    BY <1>1, <1>2 DEF DeriveInv
  <2>2. excused' = excused
    BY <1>2
  <2>3. CASE phase' = "check"
    BY <2>3
  <2>4. CASE held' = held
    BY <2>1, <2>2, <2>4, Zenon
  <2>. QED
    BY <1>2, <2>3, <2>4, Zenon
<1>. QED
  BY <1>1, <1>2, <1>3, <1>4, <1>5, <1>6 DEF DeriveInv

LEMMA FetchRange ==
  ASSUME DeriveInv, Regular, NEW f \in fetches, Faithful, "size" \notin excused,
         Ready({f[1], f[2]})
  PROVE  /\ Val(f[1]) \in Address /\ Val(f[2]) \in Nat \ {0}
         /\ Term1(f[1]).v = Val(f[1]) /\ Widened(Term1(f[2])).v = Val(f[2])
<1>1. FetchTyped(f) /\ RegsTyped /\ RegsExact
  BY DEF DeriveInv
<1>2. /\ f[1] \in PtrRegs /\ f[2] \in IntRegs
      /\ Type(f[2]).w <= PtrWidth /\ Val(f[2]) > 0
  BY <1>1 DEF FetchTyped
<1>3. Val(f[1]) \in Address /\ Term1(f[1]).v = Val(f[1])
  BY <1>1, <1>2, PtrReg DEF Ready
<1>. DEFINE w == Type(f[2]).w
            n == Val(f[2])
<1>4. w \in Nat \ {0} /\ n \in 0..(2^w - 1) /\ Term1(f[2]) = [w |-> w, v |-> n]
  BY <1>1, <1>2, IntReg DEF Ready
<1>5. w <= PtrWidth /\ n > 0
  BY <1>2
<1>. HIDE DEF w, n
<1>6. Widened([w |-> w, v |-> n]) = [w |-> PtrWidth, v |-> n]
  BY <1>4, <1>5, WidenedValue
<1>7. n \in Nat \ {0}
  <2>1. 2^w \in Nat
    BY <1>4, PowerPositive
  <2>. QED
    BY <1>4, <1>5, <2>1
<1>. QED
  BY <1>3, <1>4, <1>6, <1>7 DEF n

LEMMA CheckOverlapInv == DeriveInv /\ Regular /\ CheckOverlap => DeriveInv'
<1>1. SUFFICES ASSUME DeriveInv, Regular, CheckOverlap
               PROVE  DeriveInv'
  OBVIOUS
<1>2. /\ UNCHANGED <<trial, regs, memVars, held, excused, fetches, phase>> /\ next' = next
      /\ phase = "check" /\ RegsTyped
  BY <1>1 DEF DeriveInv, CheckOverlap, callVars, regionVars
<1>3. PICK f \in fetches, g \in fetches :
        /\ Ready({f[1], f[2], g[1], g[2]})
        /\ IF IsPointer(Term1(f[1])) /\ IsPointer(Term1(g[1]))
             THEN /\ verdict' = <<f, g, Overlap(Term1(f[1]).v, Widened(Term1(f[2])).v,
                                             Term1(g[1]).v, Widened(Term1(g[2])).v)>>
                  /\ UNCHANGED flaw
             ELSE flaw' = "assertion" /\ UNCHANGED verdict
  BY <1>1 DEF CheckOverlap
<1>4. f[1] \in PtrRegs /\ g[1] \in PtrRegs
  BY <1>1 DEF DeriveInv, FetchTyped
<1>5. IsPointer(Term1(f[1])) /\ IsPointer(Term1(g[1]))
  BY <1>2, <1>3, <1>4, PtrReg DEF Ready, IsPointer
<1>. DEFINE o == Overlap(Term1(f[1]).v, Widened(Term1(f[2])).v,
                         Term1(g[1]).v, Widened(Term1(g[2])).v)
<1>6. verdict' = <<f, g, o>> /\ flaw' = "none" /\ o \in BOOLEAN
  BY <1>1, <1>3, <1>5 DEF DeriveInv, Overlap
<1>7. Faithful /\ "size" \notin excused =>
        LET s == Val(f[1])  l == Val(f[2])  t == Val(g[1])  m == Val(g[2])
        IN  s + l < Space /\ t + m < Space => o = (Cells(s, l) \cap Cells(t, m) # {})
  <2>1. SUFFICES ASSUME Faithful, "size" \notin excused,
                        Val(f[1]) + Val(f[2]) < Space, Val(g[1]) + Val(g[2]) < Space
                 PROVE  o = (Cells(Val(f[1]), Val(f[2])) \cap Cells(Val(g[1]), Val(g[2])) # {})
    OBVIOUS
  <2>2. Ready({f[1], f[2]}) /\ Ready({g[1], g[2]})
    BY <1>3 DEF Ready
  <2>3. /\ Val(f[1]) \in Address /\ Val(f[2]) \in Nat \ {0}
        /\ Term1(f[1]).v = Val(f[1]) /\ Widened(Term1(f[2])).v = Val(f[2])
    BY <1>1, <2>1, <2>2, FetchRange
  <2>4. /\ Val(g[1]) \in Address /\ Val(g[2]) \in Nat \ {0}
        /\ Term1(g[1]).v = Val(g[1]) /\ Widened(Term1(g[2])).v = Val(g[2])
    BY <1>1, <2>1, <2>2, FetchRange
  <2>5. o = Overlap(Val(f[1]), Val(f[2]), Val(g[1]), Val(g[2]))
    BY <2>3, <2>4
  <2>. DEFINE s == Val(f[1])
              l == Val(f[2])
              t == Val(g[1])
              m == Val(g[2])
  <2>6. s \in Address /\ l \in Nat \ {0} /\ t \in Address /\ m \in Nat \ {0}
        /\ s + l < Space /\ t + m < Space /\ o = Overlap(s, l, t, m)
    BY <2>1, <2>3, <2>4, <2>5
  <2>. HIDE DEF s, l, t, m, o
  <2>7. Overlap(s, l, t, m) <=> Cells(s, l) \cap Cells(t, m) # {}
    BY <2>6, OverlapDecides
  <2>8. o = (Cells(s, l) \cap Cells(t, m) # {})
    BY <1>6, <2>6, <2>7
  <2>. QED
    BY <2>8 DEF s, l, t, m
<1>. HIDE DEF o
<1>8. OverlapExact'
  <2>1. verdict'[1] = f /\ verdict'[2] = g /\ verdict'[3] = o
    BY <1>6
  <2>2. Expected({"call", "stale", "parts", "size"})' => Faithful /\ "size" \notin excused
    BY <1>2 DEF Expected, Faithful
  <2>3. \A i : Val(i)' = Val(i)
    BY <1>2 DEF Val
  <2>. QED
    BY <1>7, <2>1, <2>2, <2>3 DEF OverlapExact
<1>9. Regular' /\ RegsTyped' /\ MemTyped' /\ (Faithful' => RegsExact' /\ MemExact')
  BY <1>1, <1>2 DEF DeriveInv, Regular, PtrInts, MemWidths, RegsTyped, MemTyped, Faithful,
     RegsExact, MemExact, memVars, Type, Val, Term1
<1>10. \A e \in fetches' : FetchTyped(e)'
  BY <1>1, <1>2 DEF DeriveInv, FetchTyped, PtrRegs, IntRegs, Type, Val
<1>11. trial' \in Trials /\ next' \in [Kinds -> Address] /\ phase' = "check"
  BY <1>1, <1>2 DEF DeriveInv
<1>. QED
  BY <1>6, <1>8, <1>9, <1>10, <1>11 DEF DeriveInv

LEMMA DeriveInitInv == DeriveInit => DeriveInv
<1>1. SUFFICES ASSUME DeriveInit
               PROVE  DeriveInv
  OBVIOUS
<1>2. regs = <<>> /\ IsSeq(regs) /\ DOMAIN regs = {}
  <2>1. <<>> \in Seq({})
    OBVIOUS
  <2>. QED
    BY <1>1, <2>1 DEF DeriveInit, IsSeq
<1>3. RegsTyped /\ RegsExact
  BY <1>2 DEF RegsTyped, RegsExact
<1>4. MemTyped /\ MemExact
  <2>1. 2^Bits \in Nat \ {0} /\ Address \subseteq Int
    BY Widths, PowerPositive DEF Address
  <2>2. \A a \in Address : a % 2^Bits \in 0..(2^Bits - 1)
    BY <2>1
  <2>. QED
    BY <1>1, <2>2 DEF DeriveInit, MemTyped, MemExact
<1>5. next \in [Kinds -> Address]
  <2>1. \A x \in Address : (x * Page) % Space \in Address
    <3>1. Space \in Nat \ {0} /\ Page \in Nat /\ Address = 0..(Space - 1)
      BY LayoutAssumption DEF Address
    <3>2. ASSUME NEW y \in Int
          PROVE  y % Space \in Address
      BY <3>1
    <3>3. \A x \in Address : x * Page \in Int
      BY <3>1
    <3>. QED
      BY <3>2, <3>3
  <2>2. next \in [Kinds -> {(x * Page) % Space : x \in Address}]
    BY <1>1 DEF DeriveInit, RegionsInit
  <2>. QED
    BY <2>1, <2>2
<1>6. held /\ fetches = {} /\ verdict = <<>> /\ flaw = "none" /\ trial \in Trials
  BY <1>1 DEF DeriveInit
<1>7. OverlapExact
  BY <1>6 DEF OverlapExact
<1>. QED
  BY <1>3, <1>4, <1>5, <1>6, <1>7 DEF DeriveInv

LEMMA DeriveStepInv == DeriveInv /\ [DeriveNext]_deriveVars => DeriveInv'
<1>1. SUFFICES ASSUME DeriveInv, [DeriveNext]_deriveVars
               PROVE  DeriveInv'
  OBVIOUS
<1>2. CASE ~Regular
  <2>1. IntLeaf \/ NullLeaf \/ ObjectLeaf \/ EndLeaves => trial' = trial
    BY DEF IntLeaf, NullLeaf, ObjectLeaf, Object, LeafOnly, EndLeaves
  <2>2. Cast \/ CastPointer \/ Calc \/ Cmp \/ Select \/ Phi \/ Branch => trial' = trial
    BY DEF Cast, CastPointer, Calc, Cmp, Select, Phi, Branch, Computed, Derived, Rest
  <2>3. Gep \/ Load \/ Store => trial' = trial
    BY DEF Gep, Load, Store, Computed, Derived, Rest
  <2>4. Malloc \/ Duplicate \/ Copy \/ GetUser => trial' = trial
    <3>1. Malloc \/ Duplicate => trial' = trial
      BY DEF Malloc, Duplicate, Derived, Rest
    <3>2. Copy \/ GetUser => trial' = trial
      BY DEF Copy, CopyOf, GetUser, Derived, Rest
    <3>. QED
      BY <3>1, <3>2
  <2>5. ExtractValue \/ Compare \/ Length \/ Swap \/ Ignore => trial' = trial
    <3>1. ExtractValue \/ Compare \/ Length \/ Swap => trial' = trial
      BY DEF ExtractValue, Compare, Length, Swap, Computed, Derived, Rest
    <3>2. Ignore => trial' = trial
      BY DEF Ignore
    <3>. QED
      BY <3>1, <3>2
  <2>6. EndCode \/ CheckOverlap \/ DeriveStopped \/ UNCHANGED deriveVars => trial' = trial
    BY DEF EndCode, CheckOverlap, DeriveStopped, deriveVars
  <2>7. trial' = trial
    BY <1>1, <2>1, <2>2, <2>3, <2>4, <2>5, <2>6 DEF DeriveNext, DeriveStep
  <2>. QED
    BY <1>1, <1>2, <2>7 DEF DeriveInv, Regular, PtrInts, MemWidths
<1>3. CASE Regular /\ (DeriveStopped \/ UNCHANGED deriveVars)
  <2>1. UNCHANGED deriveVars
    BY <1>3 DEF DeriveStopped
  <2>. QED
    BY <1>1, <1>3, <2>1 DEF deriveVars, memVars, callVars, regionVars, DeriveInv, Regular,
       PtrInts, MemWidths, RegsTyped, MemTyped, Faithful, RegsExact, MemExact, FetchTyped,
       PtrRegs, IntRegs, OverlapExact, Expected, Type, Val, Term1
<1>4. CASE Regular /\ (IntLeaf \/ NullLeaf \/ ObjectLeaf)
  BY <1>1, <1>4, LeavesInv
<1>5. CASE Regular /\ (EndLeaves \/ EndCode \/ CheckOverlap)
  BY <1>1, <1>5, PhasesInv, CheckOverlapInv
<1>6. CASE Regular /\ (Cast \/ CastPointer \/ Calc \/ Cmp)
  BY <1>1, <1>6, CastInv, CastPointerInv, CalcInv, CmpInv
<1>7. CASE Regular /\ (Select \/ Phi \/ Branch \/ Gep)
  BY <1>1, <1>7, SelectInv, PhiInv, BranchInv, GepInv
<1>8. CASE Regular /\ (Load \/ Store)
  BY <1>1, <1>8, LoadInv, StoreInv
<1>9. CASE Regular /\ (Malloc \/ Duplicate \/ Copy \/ GetUser \/ Ignore)
  BY <1>1, <1>9, MallocInv, DuplicateInv, CopyInv, GetUserInv, IgnoreInv
<1>10. CASE Regular /\ (ExtractValue \/ Compare \/ Length \/ Swap)
  BY <1>1, <1>10, ExtractInv, CompareInv, LengthInv, SwapInv
<1>. QED
  BY <1>1, <1>2, <1>3, <1>4, <1>5, <1>6, <1>7, <1>8, <1>9, <1>10 DEF DeriveNext, DeriveStep

(* By the invariant, for every sort of program the constant Trials holds.  *)
LEMMA DeriveInvariant == DeriveSpec => []DeriveInv
BY DeriveInitInv, DeriveStepInv, PTL DEF DeriveSpec

(* The symbols mirror the run: through casts, operations, comparisons,     *)
(* selections, pointer arithmetic, loads, stores and library calls, a term *)
(* has the sort of the type and the value of the run (the derive functions *)
(* of SEG.cpp and Libcall.cpp), on machines of any width and for programs  *)
(* of any length.                                                          *)
THEOREM MirrorsCorrect == DeriveSpec => [](Regular => Mirrors)
<1>1. DeriveInv => (Regular => Mirrors)
  BY DEF DeriveInv, Mirrors, Expected, Faithful, RegsExact, MemExact, Exactly
<1>. QED
  BY <1>1, DeriveInvariant, PTL

(* No constraint of an instruction excludes a defined run in which no      *)
(* signed result wraps, sizes are in range, calls succeed and terms are    *)
(* right; and no run ends in an assertion on the widths of operands.       *)
THEOREM AdmittedCorrect == DeriveSpec => [](Regular => RunsAdmitted)
<1>1. DeriveInv => (Regular => RunsAdmitted)
  BY DEF DeriveInv, RunsAdmitted
<1>. QED
  BY <1>1, DeriveInvariant, PTL

(* checkOverlap, asked about the terms of two fetches of a run, answers    *)
(* that they overlap just when the run reads a common address.             *)
THEOREM OverlapsCorrect == DeriveSpec => [](Regular => OverlapExact)
<1>1. DeriveInv => (Regular => OverlapExact)
  BY DEF DeriveInv
<1>. QED
  BY <1>1, DeriveInvariant, PTL

(* The memory of SymExec is laid out as Regions has it: every step makes   *)
(* an object, ends the making of objects, or leaves the regions alone.     *)
THEOREM DeriveImplementsRegions == DeriveSpec => RegionsSpec
<1>1. DeriveInit => RegionsInit
  BY DEF DeriveInit
<1>2. ASSUME [DeriveNext]_deriveVars
      PROVE  [RegionsNext]_regionVars
  <2>1. \A k \in Kinds : CreatePtr(k) => RegionsNext
    BY DEF RegionsNext
  <2>2. Complete => RegionsNext
    BY DEF RegionsNext
  <2>3. "stack" \in Kinds /\ "extern" \in Kinds /\ "heap" \in Kinds
    BY DEF Kinds
  <2>4. CASE DeriveStopped \/ UNCHANGED deriveVars
    BY <2>4 DEF DeriveStopped, deriveVars
  <2>5. CASE IntLeaf \/ NullLeaf \/ ObjectLeaf \/ EndLeaves \/ EndCode \/ Ignore
    BY <2>1, <2>2, <2>3, <2>5 DEF IntLeaf, NullLeaf, ObjectLeaf, Object, EndLeaves, EndCode, Ignore
  <2>6. CASE Cast \/ CastPointer \/ Calc \/ Cmp \/ Select \/ Phi \/ Branch \/ Gep
               \/ ExtractValue \/ Compare \/ Length \/ Swap
    BY <2>6 DEF Cast, CastPointer, Calc, Cmp, Select, Phi, Branch, Gep, ExtractValue, Compare,
       Length, Swap, Computed
  <2>7. CASE Load \/ Store \/ Copy \/ GetUser \/ CheckOverlap
    BY <2>7 DEF Load, Store, Copy, GetUser, CheckOverlap
  <2>8. CASE Malloc \/ Duplicate
    <3>1. CreatePtr("heap") \/ UNCHANGED regionVars
      BY <2>8 DEF Malloc, Duplicate
    <3>. QED
      BY <2>1, <2>3, <3>1
  <2>. QED
    BY <1>2, <2>4, <2>5, <2>6, <2>7, <2>8 DEF DeriveNext, DeriveStep
<1>3. [DeriveNext]_deriveVars => [RegionsNext]_regionVars
  BY <1>2
<1>. QED
  BY <1>1, <1>3, PTL DEF DeriveSpec, RegionsSpec

(* The objects a run makes while SymExec derives its symbols are apart, in *)
(* any assignment its constraints accept.                                  *)
THEOREM DeriveApart == DeriveSpec => []SlotsApart
BY DeriveImplementsRegions, RegionsApart, PTL

=============================================================================
