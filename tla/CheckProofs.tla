----------------------------- MODULE CheckProofs -----------------------------
(***************************************************************************)
(* The pool of checkers, for any number of modules and workers.            *)
(***************************************************************************)
EXTENDS Check, TLAPS

Busy(w) == at[w] # "idle"

(***************************************************************************)
(* Every module is in one place: in the queue, with one worker, or given   *)
(* back (or lost).  Its process is at the stage the worker has reached.    *)
(***************************************************************************)
OnePlace ==
  /\ \A w \in Workers : Busy(w) => job[w] \in Jobs \ queue
  /\ \A v, w \in Workers : v # w /\ Busy(v) /\ Busy(w) => job[v] # job[w]
  /\ \A j \in Jobs : res[j] # "none" =>
        j \notin queue /\ \A w \in Workers : Busy(w) => job[w] # j

Stages ==
  /\ \A j \in queue : proc[j] = "none"
  /\ \A w \in Workers :
        /\ at[w] \in {"taken", "armed"} => proc[job[w]] = "none"
        /\ at[w] \in {"started", "try"} => proc[job[w]] \in {"runs", "zero", "other"}
        /\ at[w] = "waited" => proc[job[w]] \in {"zero", "other"}
        /\ at[w] = "timed" => proc[job[w]] \in {"killed", "zero", "other"}
  /\ \A j \in Jobs :
        /\ res[j] = "0" => proc[j] = "zero"
        /\ res[j] = "1" => proc[j] = "other"
        /\ res[j] = "-1" => proc[j] \in {"killed", "zero", "other"}
        /\ res[j] = "False" => j \notin preparable
        /\ proc[j] = "killed" =>
             res[j] = "-1" \/ \E w \in Workers : at[w] = "timed" /\ job[w] = j

Written ==
  \A j \in Jobs : \A e \in {"done", "time", "fail"} :
    <<j, e>> \in log => pc = "end" /\ e = Entry(res[j]) /\ res[j] # "none"

Complete == pc = "end" => \A j \in Jobs : res[j] # "none" /\ <<j, Entry(res[j])>> \in log

IInv == TypeOK /\ OnePlace /\ Stages /\ Written /\ Complete /\ RunsAttended

USE NobodyIsNoJob

LEMMA CheckInitInv == CheckInit => IInv
  BY DEF CheckInit, IInv, TypeOK, OnePlace, Busy, Stages, Written, Complete, RunsAttended

\* The steps of one worker.
LEMMA WorkerInv ==
  ASSUME IInv, NEW w \in Workers, Worker(w) PROVE IInv'
<1> USE DEF IInv, Goes
<1>1. CASE Take(w)
  <2>1. TypeOK' BY <1>1 DEF Take, TypeOK
  <2>2. OnePlace' BY <1>1 DEF Take, TypeOK, OnePlace, Busy
  <2>3. Stages' BY <1>1 DEF Take, TypeOK, Stages
  <2>4. Written' /\ Complete' BY <1>1 DEF Take, TypeOK, Written, Complete, Entry
  <2>5. RunsAttended' BY <1>1 DEF Take, TypeOK, RunsAttended
  <2> QED BY <2>1, <2>2, <2>3, <2>4, <2>5
<1>2. CASE Arm(w)
  <2>1. TypeOK' BY <1>2 DEF Arm, Armed, TypeOK
  <2>2. OnePlace' BY <1>2 DEF Arm, TypeOK, OnePlace, Busy
  <2>3. Stages' BY <1>2 DEF Arm, TypeOK, Stages
  <2>4. Written' /\ Complete' BY <1>2 DEF Arm, TypeOK, Written, Complete, Entry
  <2>5. RunsAttended' BY <1>2 DEF Arm, TypeOK, RunsAttended
  <2> QED BY <2>1, <2>2, <2>3, <2>4, <2>5
<1>3. CASE Unprepared(w)
  <2>0. job[w] \in Jobs BY <1>3 DEF Unprepared, OnePlace, Busy
  <2>1. TypeOK' BY <1>3, <2>0 DEF Unprepared, TypeOK
  <2>2. OnePlace' BY <1>3, <2>0 DEF Unprepared, TypeOK, OnePlace, Busy
  <2>3. Stages' BY <1>3, <2>0 DEF Unprepared, TypeOK, Stages
  <2>4. Written' /\ Complete' BY <1>3, <2>0 DEF Unprepared, TypeOK, Written, Complete, Entry
  <2>5. RunsAttended' BY <1>3 DEF Unprepared, TypeOK, RunsAttended
  <2> QED BY <2>1, <2>2, <2>3, <2>4, <2>5
<1>4. CASE Popen(w)
  <2>0. job[w] \in Jobs /\ job[w] \notin queue BY <1>4 DEF Popen, OnePlace, Busy
  <2>1. TypeOK' BY <1>4, <2>0 DEF Popen, TypeOK
  <2>2. OnePlace' BY <1>4 DEF Popen, TypeOK, OnePlace, Busy
  <2>3. Stages' BY <1>4, <2>0 DEF Popen, TypeOK, OnePlace, Busy, Stages
  <2>4. Written' /\ Complete' BY <1>4 DEF Popen, TypeOK, Written, Complete, Entry
  <2>5. RunsAttended' BY <1>4 DEF Popen, TypeOK, RunsAttended
  <2> QED BY <2>1, <2>2, <2>3, <2>4, <2>5
<1>5. CASE Try(w)
  <2>1. TypeOK' BY <1>5 DEF Try, TypeOK
  <2>2. OnePlace' BY <1>5 DEF Try, TypeOK, OnePlace, Busy
  <2>3. Stages' BY <1>5 DEF Try, TypeOK, Stages
  <2>4. Written' /\ Complete' BY <1>5 DEF Try, TypeOK, Written, Complete, Entry
  <2>5. RunsAttended' BY <1>5 DEF Try, TypeOK, RunsAttended
  <2> QED BY <2>1, <2>2, <2>3, <2>4, <2>5
<1>6. CASE Wait(w)
  <2>1. TypeOK' BY <1>6 DEF Wait, TypeOK
  <2>2. OnePlace' BY <1>6 DEF Wait, TypeOK, OnePlace, Busy
  <2>3. Stages' BY <1>6 DEF Wait, TypeOK, Stages
  <2>4. Written' /\ Complete' BY <1>6 DEF Wait, TypeOK, Written, Complete, Entry
  <2>5. RunsAttended' BY <1>6 DEF Wait, TypeOK, RunsAttended
  <2> QED BY <2>1, <2>2, <2>3, <2>4, <2>5
<1>7. CASE Disarm(w)
  <2>0. job[w] \in Jobs /\ Returned(w) \in {"0", "1", "-1"}
    BY <1>7 DEF Disarm, Returned, OnePlace, Busy
  <2>1. TypeOK' BY <1>7, <2>0 DEF Disarm, Disarmed, TypeOK
  <2>2. OnePlace' BY <1>7, <2>0 DEF Disarm, TypeOK, OnePlace, Busy
  <2>3. Stages' BY <1>7, <2>0 DEF Disarm, Returned, TypeOK, OnePlace, Busy, Stages
  <2>4. Written' /\ Complete' BY <1>7, <2>0 DEF Disarm, TypeOK, Written, Complete, Entry
  <2>5. RunsAttended' BY <1>7 DEF Disarm, TypeOK, RunsAttended
  <2> QED BY <2>1, <2>2, <2>3, <2>4, <2>5
<1>8. CASE AlarmInTry(w)
  <2>0. job[w] \in Jobs /\ job[w] \notin queue BY <1>8 DEF AlarmInTry, OnePlace, Busy
  <2>1. TypeOK' BY <1>8, <2>0 DEF AlarmInTry, Terminated, TypeOK
  <2>2. OnePlace' BY <1>8 DEF AlarmInTry, TypeOK, OnePlace, Busy
  <2>3. Stages'
    <3>1. /\ at' = [at EXCEPT ![w] = "timed"] /\ at[w] = "try"
          /\ proc' = [proc EXCEPT ![job[w]] = Terminated(proc[job[w]])]
          /\ UNCHANGED <<preparable, queue, job, res>>
      BY <1>8 DEF AlarmInTry
    <3>2. /\ proc'[job[w]] = Terminated(proc[job[w]])
          /\ \A j \in Jobs \ {job[w]} : proc'[j] = proc[j]
          /\ at'[w] = "timed" /\ \A v \in Workers \ {w} : at'[v] = at[v]
      BY <3>1, <2>0 DEF TypeOK
    <3>3. \A v \in Workers \ {w} : at[v] # "idle" => job[v] \in Jobs /\ job[v] # job[w]
      BY <3>1 DEF OnePlace, Busy
    <3>4. proc[job[w]] \in {"runs", "zero", "other", "killed"} /\ res[job[w]] = "none"
      BY <3>1, <2>0 DEF OnePlace, Busy, Stages, TypeOK
    <3>5. proc'[job[w]] \in {"zero", "other", "killed"}
      BY <3>2, <3>4 DEF Terminated
    <3>6. \A j \in queue' : proc'[j] = "none"
      BY <3>1, <3>2, <2>0 DEF Stages, TypeOK
    <3>7. ASSUME NEW v \in Workers
          PROVE  /\ at'[v] \in {"taken", "armed"} => proc'[job'[v]] = "none"
                 /\ at'[v] \in {"started", "try"} =>
                      proc'[job'[v]] \in {"runs", "zero", "other"}
                 /\ at'[v] = "waited" => proc'[job'[v]] \in {"zero", "other"}
                 /\ at'[v] = "timed" => proc'[job'[v]] \in {"killed", "zero", "other"}
      <4>1. CASE v = w BY <4>1, <3>1, <3>2, <3>5
      <4>2. CASE v # w BY <4>2, <3>1, <3>2, <3>3 DEF Stages
      <4> QED BY <4>1, <4>2
    <3>8. ASSUME NEW j \in Jobs
          PROVE  /\ res'[j] = "0" => proc'[j] = "zero"
                 /\ res'[j] = "1" => proc'[j] = "other"
                 /\ res'[j] = "-1" => proc'[j] \in {"killed", "zero", "other"}
                 /\ res'[j] = "False" => j \notin preparable'
                 /\ proc'[j] = "killed" =>
                      res'[j] = "-1" \/ \E v \in Workers : at'[v] = "timed" /\ job'[v] = j
      <4>1. CASE j = job[w] BY <4>1, <3>1, <3>2, <3>4
      <4>2. CASE j # job[w] BY <4>2, <3>1, <3>2 DEF Stages
      <4> QED BY <4>1, <4>2
    <3> QED BY <3>6, <3>7, <3>8 DEF Stages
  <2>4. Written' /\ Complete' BY <1>8 DEF AlarmInTry, TypeOK, Written, Complete, Entry
  <2>5. RunsAttended' BY <1>8, <2>0 DEF AlarmInTry, Terminated, TypeOK, RunsAttended
  <2> QED BY <2>1, <2>2, <2>3, <2>4, <2>5
<1>9. CASE AlarmOutside(w)
  <2>1. TypeOK' BY <1>9 DEF AlarmOutside, TypeOK
  <2>2. OnePlace' BY <1>9 DEF AlarmOutside, TypeOK, OnePlace, Busy
  <2>3. Stages' BY <1>9 DEF AlarmOutside, TypeOK, Stages
  <2>4. Written' /\ Complete' BY <1>9 DEF AlarmOutside, TypeOK, Written, Complete, Entry
  <2>5. RunsAttended' BY <1>9 DEF AlarmOutside, RunsAttended
  <2> QED BY <2>1, <2>2, <2>3, <2>4, <2>5
<1>10. CASE AlarmIdle(w)
  <2>1. TypeOK' BY <1>10 DEF AlarmIdle, TypeOK
  <2>2. OnePlace' BY <1>10 DEF AlarmIdle, TypeOK, OnePlace, Busy
  <2>3. Stages' BY <1>10 DEF AlarmIdle, TypeOK, Stages
  <2>4. Written' /\ Complete' BY <1>10 DEF AlarmIdle, TypeOK, Written, Complete, Entry
  <2>5. RunsAttended' BY <1>10 DEF AlarmIdle, TypeOK, RunsAttended
  <2> QED BY <2>1, <2>2, <2>3, <2>4, <2>5
<1> QED BY <1>1, <1>2, <1>3, <1>4, <1>5, <1>6, <1>7, <1>8, <1>9, <1>10 DEF Worker

\* A process that exits, and the log.
LEMMA ExitInv ==
  ASSUME IInv, NEW k \in Jobs, Exit(k) PROVE IInv'
<1> USE DEF IInv
<1>1. TypeOK' BY DEF Exit, TypeOK
<1>2. OnePlace' BY DEF Exit, OnePlace, Busy
<1>3. Stages' BY DEF Exit, TypeOK, Stages
<1>4. Written' /\ Complete' BY DEF Exit, Written, Complete, Entry
<1>5. RunsAttended' BY DEF Exit, TypeOK, RunsAttended
<1> QED BY <1>1, <1>2, <1>3, <1>4, <1>5

LEMMA LoggedInv ==
  ASSUME IInv, Logged PROVE IInv'
<1> USE DEF IInv
<1>1. TypeOK' BY DEF Logged, TypeOK, Entry
<1>2. OnePlace' BY DEF Logged, OnePlace, Busy
<1>3. Stages' BY DEF Logged, TypeOK, Stages
<1>4. Written' BY DEF Logged, Written, Entry
<1>5. Complete' BY DEF Logged, Complete, Entry
<1>6. RunsAttended' BY DEF Logged, RunsAttended
<1> QED BY <1>1, <1>2, <1>3, <1>4, <1>5, <1>6

THEOREM CheckInvariant == CheckSpec => []IInv
<1>1. IInv /\ [CheckNext]_vars => IInv'
  <2> SUFFICES ASSUME IInv, [CheckNext]_vars PROVE IInv'
    OBVIOUS
  <2>1. CASE UNCHANGED vars
    BY <2>1 DEF vars, IInv, TypeOK, OnePlace, Busy, Stages, Written, Complete, Entry,
                RunsAttended
  <2> QED BY <2>1, WorkerInv, ExitInv, LoggedInv DEF CheckNext, stopped
<1> QED BY <1>1, CheckInitInv, PTL DEF CheckSpec

\* However many modules time out, a process that runs is one a worker waits
\* for, until an exception ends check (79-116).
THEOREM ProcessesAttended == CheckSpec => []RunsAttended
<1>1. IInv => RunsAttended
  BY DEF IInv
<1> QED BY <1>1, CheckInvariant, PTL

\* The log says of each module whose output could be prepared what became of
\* its process (854-861).
THEOREM LogSound == CheckSpec => []LogMatchesRuns
<1>1. IInv => LogMatchesRuns
  <2> SUFFICES ASSUME IInv, NEW j \in preparable
               PROVE  /\ <<j, "done">> \in log => proc[j] = "zero"
                      /\ <<j, "fail">> \in log => proc[j] = "other"
                      /\ <<j, "time">> \in log => proc[j] \in {"killed", "zero", "other"}
                      /\ proc[j] = "killed" /\ pc = "end" => <<j, "time">> \in log
    BY DEF LogMatchesRuns
  <2> QED BY DEF IInv, TypeOK, Stages, Written, Complete, Entry, OnePlace
<1> QED BY <1>1, CheckInvariant, PTL

==============================================================================
