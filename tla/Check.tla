------------------------------- MODULE Check -------------------------------
(***************************************************************************)
(* The stage that checks modules: a pool of workers, each of which starts  *)
(* a process for a module, sets an alarm for twelve hours and waits.       *)
(*                                                                         *)
(* The alarm is a signal that may arrive at any step while it is set; the  *)
(* handler raises an exception where the worker happens to be.             *)
(***************************************************************************)
EXTENDS Naturals, FiniteSets

CONSTANTS
  Jobs,       \* the modules
  Workers,    \* the workers of the pool
  Nobody      \* no module

ASSUME NobodyIsNoJob == Nobody \notin Jobs

VARIABLES
  preparable, \* the modules whose output directory can be made
  queue,  \* the modules not given to a worker
  at,     \* where a worker is
  job,    \* what it works on
  alarm,  \* its alarm is set
  proc,   \* the processes
  res,    \* the results the pool has
  log,    \* pairs of a module and its entry in the log
  pc      \* check: in the call of map, at its end, or ended by an exception

vars == <<preparable, queue, at, job, alarm, proc, res, log, pc>>

CheckInit ==
  /\ preparable \in SUBSET Jobs
  /\ queue = Jobs
  /\ at = [w \in Workers |-> "idle"]
  /\ job = [w \in Workers |-> Nobody]
  /\ alarm = [w \in Workers |-> FALSE]
  /\ proc = [j \in Jobs |-> "none"]
  /\ res = [j \in Jobs |-> "none"]
  /\ log = {}
  /\ pc = "map"

Goes(w, from, to) == pc = "map" /\ at[w] = from /\ at' = [at EXCEPT ![w] = to]

Take(w) ==
  /\ Goes(w, "idle", "taken")
  /\ \E j \in queue : queue' = queue \ {j} /\ job' = [job EXCEPT ![w] = j]
  /\ UNCHANGED <<preparable, alarm, proc, res, log, pc>>

ArmedNot == FALSE  \* mutant: there is no alarm
Armed == TRUE

\* signal.signal, signal.alarm
Arm(w) ==
  /\ Goes(w, "taken", "armed")
  /\ alarm' = [alarm EXCEPT ![w] = Armed]
  /\ UNCHANGED <<preparable, queue, job, proc, res, log, pc>>

\* `return False' leaves the alarm as it is.
Unprepared(w) ==
  /\ Goes(w, "armed", "idle") /\ job[w] \notin preparable
  /\ res' = [res EXCEPT ![job[w]] = "False"]
  /\ UNCHANGED <<preparable, queue, job, alarm, proc, log, pc>>

Popen(w) ==
  /\ Goes(w, "armed", "started") /\ job[w] \in preparable
  /\ proc' = [proc EXCEPT ![job[w]] = "runs"]
  /\ UNCHANGED <<preparable, queue, job, alarm, res, log, pc>>

Try(w) ==
  /\ Goes(w, "started", "try")
  /\ UNCHANGED <<preparable, queue, job, alarm, proc, res, log, pc>>

\* The process ends by itself, if it ever does.
Exit(j) ==
  /\ proc[j] = "runs"
  /\ \E s \in {"zero", "other"} : proc' = [proc EXCEPT ![j] = s]
  /\ UNCHANGED <<preparable, queue, at, job, alarm, res, log, pc>>

\* wait returns and the process is gone; the result is set, and returned
\* when the finally clause is done.
Wait(w) ==
  /\ Goes(w, "try", "waited") /\ proc[job[w]] \in {"zero", "other"}
  /\ UNCHANGED <<preparable, queue, job, alarm, proc, res, log, pc>>

Returned(w) == IF at[w] = "timed" THEN "-1"
               ELSE IF proc[job[w]] = "zero" THEN "0" ELSE "1"

Disarmed == FALSE

\* signal.alarm(0) and the return of the worker
Disarm(w) ==
  /\ Goes(w, "waited", "idle") \/ Goes(w, "timed", "idle")
  /\ alarm' = [alarm EXCEPT ![w] = Disarmed]
  /\ res' = [res EXCEPT ![job[w]] = Returned(w)]
  /\ UNCHANGED <<preparable, queue, job, proc, log, pc>>

TerminatedNot(p) == p  \* mutant: the process is left alone
Terminated(p) == IF p = "runs" THEN "killed" ELSE p

(***************************************************************************)
(* The alarm.  In the try block it stops the process.  Where the worker    *)
(* has started but is not in the try block, or has taken the exit status   *)
(* of the process (whose pid is gone then), the exception leaves the       *)
(* worker, and map raises it at once: check ends without a log, and the    *)
(* pool with it.  An idle worker dies and is replaced; so does one that    *)
(* has taken a job but not called its function, and the job is lost.       *)
(***************************************************************************)
AlarmInTry(w) ==
  /\ alarm[w] /\ Goes(w, "try", "timed")
  /\ alarm' = [alarm EXCEPT ![w] = FALSE]
  /\ proc' = [proc EXCEPT ![job[w]] = Terminated(@)]
  /\ UNCHANGED <<preparable, queue, job, res, log, pc>>

AlarmOutside(w) ==
  /\ pc = "map" /\ alarm[w] /\ at[w] \in {"taken", "armed", "started", "waited", "timed"}
  /\ alarm' = [alarm EXCEPT ![w] = FALSE]
  /\ pc' = "raised"
  /\ UNCHANGED <<preparable, queue, at, job, proc, res, log>>

AlarmIdle(w) ==
  /\ alarm[w] /\ (Goes(w, "idle", "idle") \/ Goes(w, "taken", "idle"))
  /\ alarm' = [alarm EXCEPT ![w] = FALSE]
  /\ UNCHANGED <<preparable, queue, job, proc, res, log, pc>>

\* `work[i] == 0' holds of False, too.
EntryTruth(r) ==  \* mutant: done as in the other stages
  IF r \in {"0", "False"} THEN "fail" ELSE IF r = "-1" THEN "time" ELSE "done"
Entry(r) == IF r \in {"0", "False"} THEN "done" ELSE IF r = "-1" THEN "time" ELSE "fail"

Logged ==
  /\ pc = "map" /\ \A j \in Jobs : res[j] # "none"
  /\ log' = {<<j, Entry(res[j])>> : j \in Jobs}
  /\ pc' = "end"
  /\ UNCHANGED <<preparable, queue, at, job, alarm, proc, res>>

Worker(w) == Take(w) \/ Arm(w) \/ Unprepared(w) \/ Popen(w) \/ Try(w) \/ Wait(w)
               \/ Disarm(w) \/ AlarmInTry(w) \/ AlarmOutside(w) \/ AlarmIdle(w)

stopped == pc \in {"end", "raised"} /\ UNCHANGED vars

CheckNext == (\E w \in Workers : Worker(w)) \/ (\E j \in Jobs : Exit(j))
               \/ Logged \/ stopped

\* Workers run and alarms arrive; a process may run for ever.
CheckSpec == /\ CheckInit /\ [][CheckNext]_vars
             /\ \A w \in Workers : WF_vars(Worker(w))
             /\ WF_vars(Logged)

-----------------------------------------------------------------------------

TypeOK ==
  /\ preparable \subseteq Jobs
  /\ queue \subseteq Jobs
  /\ at \in [Workers -> {"idle", "taken", "armed", "started", "try", "waited", "timed"}]
  /\ job \in [Workers -> Jobs \union {Nobody}]
  /\ alarm \in [Workers -> BOOLEAN]
  /\ \A w \in Workers :  \* set in a worker that returned early, or at work
        alarm[w] => at[w] \notin {"idle", "taken"} \/ preparable # Jobs
  /\ proc \in [Jobs -> {"none", "runs", "zero", "other", "killed"}]
  /\ res \in [Jobs -> {"none", "False", "0", "1", "-1"}]
  /\ log \subseteq Jobs \X {"done", "time", "fail"}
  /\ pc \in {"map", "end", "raised"}

\* `Check failure/timeouts: ./main.py stat' (README.md:32): what is neither a
\* failure nor a timeout was checked by a process that succeeded.
DoneWasRun == \A j \in Jobs : <<j, "done">> \in log => proc[j] = "zero"

\* The log says of every module whose output could be prepared what became of
\* its process.  A timeout may meet a process that just ended (854-861).
LogMatchesRuns ==
  \A j \in preparable :
    /\ <<j, "done">> \in log => proc[j] = "zero"
    /\ <<j, "fail">> \in log => proc[j] = "other"
    /\ <<j, "time">> \in log => proc[j] \in {"killed", "zero", "other"}
    /\ proc[j] = "killed" /\ pc = "end" => <<j, "time">> \in log

(***************************************************************************)
(* While check goes on, and when it has written its log, no process runs   *)
(* that no worker waits for: there are never more of them than workers,    *)
(* whatever alarms are left set by workers that returned early (79-116).   *)
(***************************************************************************)
RunsAttended ==
  pc # "raised" =>
    \A j \in Jobs : proc[j] = "runs" =>
      \E w \in Workers : job[w] = j /\ at[w] \in {"started", "try"}

\* check comes to an end even if the solver does not, thanks to the alarm: if
\* every output can be prepared.
Ends == <>(pc # "map" \/ preparable # Jobs)

==============================================================================
