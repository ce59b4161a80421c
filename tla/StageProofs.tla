---------------------------- MODULE StageProofs ----------------------------
(***************************************************************************)
(* A stage run any number of times over any number of files.               *)
(***************************************************************************)
EXTENDS Stage, TLAPS

Entries == \A i \in Items : <<i, "done">> \in log => out[i] = "whole"

\* A command that writes its output at the end leaves none in part.
Jobs ==
  /\ \A i \in Items : out[i] # "partial"
  /\ \A i \in Items : job[i] \in {"skip", "good"} => out[i] = "whole"
  /\ ~force => \A i \in Items : job[i] \in {"queued", "runs"} => out[i] = "absent"

IInv == /\ TypeOK
        /\ command.atomic => Jobs
        /\ command.atomic /\ ~undone /\ (pc = "idle" \/ ~force) => Entries

LEMMA TypeStep == TypeOK /\ [StageNext]_vars => TypeOK'
<1> SUFFICES ASSUME TypeOK, [StageNext]_vars PROVE TypeOK'
  OBVIOUS
<1> USE StageConstants
<1>1. CASE Start
  <2>1. PICK items \in SUBSET Items \ {{}}, f \in BOOLEAN :
          /\ force' = f
          /\ job' = [i \in Items |-> CASE i \notin items -> "none"
                                       [] Skips(i, f)    -> "skip"
                                       [] OTHER          -> "queued"]
    BY <1>1 DEF Start
  <2> QED BY <1>1, <2>1 DEF Start, TypeOK
<1>2. ASSUME NEW i \in Items, Begin(i) \/ Succeed(i) \/ Fail(i) PROVE TypeOK'
  BY <1>2 DEF Begin, Opened, Succeed, Fail, Left, TypeOK
<1>3. CASE Logged
  <2>1. log' = {<<i, IF job[i] = "good" THEN "done" ELSE "fail">> :
                  i \in {k \in Items : job[k] # "none"}}
    BY <1>3 DEF Logged, Written
  <2>2. /\ log' \subseteq Items \X {"done", "fail"}
        /\ \A e, f \in log' : e[1] = f[1] => e = f
    BY <2>1
  <2>3. /\ job' \in [Items -> {"none", "skip", "queued", "runs", "good", "bad"}]
        /\ undone' = FALSE /\ pc' = "idle" /\ UNCHANGED <<command, out, force>>
    BY <1>3 DEF Logged
  <2> QED BY <2>2, <2>3 DEF TypeOK
<1>4. CASE Interrupt \/ Kill
  BY <1>4 DEF Interrupt, Kill, TypeOK
<1>5. CASE UNCHANGED vars
  BY <1>5 DEF vars, TypeOK
<1> QED BY <1>1, <1>2, <1>3, <1>4, <1>5 DEF StageNext

LEMMA AtomicStep ==
  ASSUME IInv, StageNext, command.atomic
  PROVE  /\ Jobs'
         /\ ~undone' /\ (pc' = "idle" \/ ~force') => Entries'
<1> USE DEF IInv
<1>1. CASE Start
  <2>1. PICK items \in SUBSET Items \ {{}}, f \in BOOLEAN :
          /\ force' = f
          /\ job' = [i \in Items |-> CASE i \notin items -> "none"
                                       [] Skips(i, f)    -> "skip"
                                       [] OTHER          -> "queued"]
    BY <1>1 DEF Start
  <2>2. pc = "idle" /\ pc' = "pool" /\ UNCHANGED <<out, log, undone>>
    BY <1>1 DEF Start
  <2>3. \A i \in Items : /\ job'[i] = "skip" => out[i] # "absent"
                         /\ job'[i] = "queued" /\ ~f => out[i] = "absent"
                         /\ job'[i] \in {"none", "skip", "queued"}
    BY <2>1 DEF Skips
  <2>4. Jobs' BY <2>1, <2>2, <2>3 DEF TypeOK, Jobs
  <2>5. ~undone' => Entries' BY <2>2 DEF Entries
  <2> QED BY <2>4, <2>5
<1>2. ASSUME NEW i \in Items, Begin(i)
      PROVE  Jobs' /\ (~undone' /\ (pc' = "idle" \/ ~force') => Entries')
  <2>1. out' = out BY <1>2 DEF Begin, Opened, TypeOK
  <2>2. Jobs' BY <1>2, <2>1 DEF Begin, TypeOK, Jobs
  <2>3. ~undone' /\ (pc' = "idle" \/ ~force') => Entries' BY <1>2, <2>1 DEF Begin, Entries
  <2> QED BY <2>2, <2>3
<1>3. ASSUME NEW i \in Items, Succeed(i)
      PROVE  Jobs' /\ (~undone' /\ (pc' = "idle" \/ ~force') => Entries')
  <2>1. Jobs' BY <1>3 DEF Succeed, TypeOK, Jobs
  <2>2. ~undone' /\ (pc' = "idle" \/ ~force') => Entries'
    BY <1>3 DEF Succeed, TypeOK, Entries
  <2> QED BY <2>1, <2>2
<1>4. ASSUME NEW i \in Items, Fail(i)
      PROVE  Jobs' /\ (~undone' /\ (pc' = "idle" \/ ~force') => Entries')
  <2>1. out' = [out EXCEPT ![i] = "absent"] BY <1>4 DEF Fail, Left
  <2>2. Jobs' BY <1>4, <2>1 DEF Fail, TypeOK, Jobs
  <2>3. ~undone /\ ~force => <<i, "done">> \notin log BY <1>4 DEF Fail, Jobs, Entries
  <2>4. ~undone' /\ (pc' = "idle" \/ ~force') => Entries'
    BY <1>4, <2>1, <2>3 DEF Fail, TypeOK, Entries
  <2> QED BY <2>2, <2>4
<1>5. CASE Logged
  <2>1. log' = {<<i, IF job[i] = "good" THEN "done" ELSE "fail">> :
                  i \in {k \in Items : job[k] # "none"}}
    BY <1>5 DEF Logged, Written
  <2>2. job' = [i \in Items |-> "none"] /\ UNCHANGED <<out, force>>
    BY <1>5 DEF Logged
  <2>3. Jobs' BY <2>2 DEF Jobs
  <2>4. Entries' BY <2>1, <2>2 DEF Jobs, Entries
  <2> QED BY <2>3, <2>4
<1>6. CASE Interrupt
  <2>1. job' = [i \in Items |-> "none"] /\ UNCHANGED <<out, force>>
    BY <1>6 DEF Interrupt
  <2>2. Jobs' BY <2>1 DEF Jobs
  <2>3. ~undone' => Entries' BY <2>1, <1>6 DEF Interrupt, TypeOK, Entries
  <2> QED BY <2>2, <2>3
<1>7. CASE Kill
  BY <1>7 DEF Kill, TypeOK, Jobs, Entries
<1> QED BY <1>1, <1>2, <1>3, <1>4, <1>5, <1>6, <1>7 DEF StageNext

\* What the log calls done is a complete file, through interrupts, failures,
\* re-runs and kills, if the command writes its output at the end (663-668).
THEOREM DoneWasCompleted == StageSpec => []DoneIsWhole
<1>1. StageInit => IInv
  BY DEF StageInit, IInv, TypeOK, Jobs, Entries
<1>2. IInv /\ [StageNext]_vars => IInv'
  <2> SUFFICES ASSUME IInv, [StageNext]_vars PROVE IInv'
    OBVIOUS
  <2>1. TypeOK' BY TypeStep DEF IInv
  <2>2. CASE StageNext
    <3>1. command' = command
      BY <2>2 DEF StageNext, Start, Begin, Succeed, Fail, Logged, Interrupt, Kill
    <3> QED BY <2>1, <2>2, <3>1, AtomicStep DEF IInv
  <2>3. CASE UNCHANGED vars
    BY <2>1, <2>3 DEF vars, IInv, Jobs, Entries
  <2> QED BY <2>2, <2>3
<1>3. IInv => DoneIsWhole
  BY DEF IInv, DoneIsWhole, Entries
<1> QED BY <1>1, <1>2, <1>3, PTL DEF StageSpec

\* No run without --force undoes what an earlier one completed, for either
\* kind of command (644, 731).
KeepInv ==
  /\ out \in [Items -> {"absent", "partial", "whole"}]
  /\ job \in [Items -> {"none", "skip", "queued", "runs", "good", "bad"}]
  /\ ~force => \A i \in Items : job[i] \in {"queued", "runs"} => out[i] # "whole"

THEOREM CompletedIsKept == StageSpec => WholeIsKept
<1>1. StageInit => KeepInv
  BY DEF StageInit, KeepInv
<1>2. KeepInv /\ [StageNext]_vars => KeepInv'
  <2> SUFFICES ASSUME KeepInv, [StageNext]_vars PROVE KeepInv'
    OBVIOUS
  <2>1. CASE Start
    <3>1. PICK items \in SUBSET Items \ {{}}, f \in BOOLEAN :
            /\ force' = f
            /\ job' = [i \in Items |-> CASE i \notin items -> "none"
                                         [] Skips(i, f)    -> "skip"
                                         [] OTHER          -> "queued"]
      BY <2>1 DEF Start
    <3>2. \A i \in Items : /\ job'[i] = "queued" /\ ~f => out[i] = "absent"
                           /\ job'[i] \in {"none", "skip", "queued"}
      BY <3>1 DEF Skips
    <3> QED BY <3>1, <3>2, <2>1 DEF Start, KeepInv
  <2>2. ASSUME NEW i \in Items, Begin(i) \/ Succeed(i) \/ Fail(i) PROVE KeepInv'
    <3>1. CASE Begin(i) BY <3>1 DEF Begin, Opened, KeepInv
    <3>2. CASE Succeed(i) BY <3>2 DEF Succeed, KeepInv
    <3>3. CASE Fail(i) BY <3>3 DEF Fail, Left, KeepInv
    <3> QED BY <2>2, <3>1, <3>2, <3>3
  <2>3. CASE Logged \/ Interrupt \/ Kill
    BY <2>3 DEF Logged, Interrupt, Kill, KeepInv
  <2>4. CASE UNCHANGED vars
    BY <2>4 DEF vars, KeepInv
  <2> QED BY <2>1, <2>2, <2>3, <2>4 DEF StageNext
<1>3. KeepInv /\ [StageNext]_vars
        => [\A i \in Items : out[i] = "whole" /\ ~force => out'[i] = "whole"]_vars
  <2> SUFFICES ASSUME KeepInv, StageNext, NEW i \in Items, out[i] = "whole", ~force
               PROVE out'[i] = "whole"
    OBVIOUS
  <2>1. job[i] \notin {"queued", "runs"}
    BY DEF KeepInv
  <2>2. ASSUME NEW k \in Items, Begin(k) \/ Succeed(k) \/ Fail(k) PROVE out'[i] = "whole"
    BY <2>1, <2>2 DEF Begin, Succeed, Fail, KeepInv
  <2>3. CASE Start \/ Logged \/ Interrupt \/ Kill
    BY <2>3 DEF Start, Logged, Interrupt, Kill
  <2> QED BY <2>2, <2>3 DEF StageNext
<1> QED BY <1>1, <1>2, <1>3, PTL DEF StageSpec, WholeIsKept

==============================================================================
