------------------------------- MODULE Stage -------------------------------
(***************************************************************************)
(* A stage that runs one command per item and is run again when something  *)
(* went wrong: irgen and trans.  The two differ in what a command that     *)
(* fails leaves behind, and in what an interrupt does.                     *)
(***************************************************************************)
EXTENDS Naturals, FiniteSets

CONSTANTS
  Items,    \* the files of the stage
  Commands  \* [atomic |-> the command writes its output at the end; else the
            \*    shell opens it first (`> out'),
            \*  returns |-> the handler of an interrupt leaves the stage]

ASSUME StageConstants == Commands \subseteq [atomic : BOOLEAN, returns : BOOLEAN]

VARIABLES
  command,
  out,    \* an output is absent, partial or whole
  job,    \* what the pool has of an item in this run
  force,
  log,    \* pairs of an item and its entry in the log of the stage
  undone, \* a run with --force has ended without a log
  pc

vars == <<command, out, job, force, log, undone, pc>>

StageInit ==
  /\ command \in Commands
  /\ out = [i \in Items |-> "absent"]
  /\ job = [i \in Items |-> "none"]
  /\ force = FALSE /\ undone = FALSE
  /\ log = {}
  /\ pc = "idle"

SkipsTried(i, f) ==  \* mutant: an item that has an entry in the log is skipped
  ~f /\ \E r \in {"done", "fail"} : <<i, r>> \in log
Skips(i, f) == out[i] # "absent" /\ ~f

\* The whole stage is asked for, or some of its items (-i).
Start ==
  /\ pc = "idle"
  /\ \E items \in SUBSET Items \ {{}} : \E f \in BOOLEAN :
        /\ force' = f
        /\ job' = [i \in Items |-> CASE i \notin items -> "none"
                                     [] Skips(i, f)    -> "skip"
                                     [] OTHER          -> "queued"]
  /\ pc' = "pool"
  /\ UNCHANGED <<command, out, log, undone>>

\* The shell opens the output before the command runs.
Opened(old) == IF command.atomic THEN old ELSE "partial"
Begin(i) ==
  /\ pc = "pool" /\ job[i] = "queued"
  /\ job' = [job EXCEPT ![i] = "runs"]
  /\ out' = [out EXCEPT ![i] = Opened(@)]
  /\ UNCHANGED <<command, force, log, undone, pc>>

Succeed(i) ==
  /\ pc = "pool" /\ job[i] \in {"runs", "skip"}
  /\ out' = [out EXCEPT ![i] = IF job[i] = "runs" THEN "whole" ELSE @]
  /\ job' = [job EXCEPT ![i] = "good"]
  /\ UNCHANGED <<command, force, log, undone, pc>>

\* clang takes back the output of a failed compilation; what was redirected
\* stays.
Left(old) == IF command.atomic THEN "absent" ELSE old

Fail(i) ==
  /\ pc = "pool" /\ job[i] = "runs"
  /\ out' = [out EXCEPT ![i] = Left(@)]
  /\ job' = [job EXCEPT ![i] = "bad"]
  /\ UNCHANGED <<command, force, log, undone, pc>>

Finished == \A i \in Items : job[i] \in {"none", "good", "bad"}

Appended(entries) == log \union entries  \* mutant: the log is opened with "a"
Written(entries) == entries

\* The log is written anew, with the items of this run only.
Logged ==
  /\ pc = "pool" /\ Finished
  /\ log' = Written({<<i, IF job[i] = "good" THEN "done" ELSE "fail">> :
                       i \in {k \in Items : job[k] # "none"}})
  /\ job' = [i \in Items |-> "none"]
  /\ undone' = FALSE
  /\ pc' = "idle"
  /\ UNCHANGED <<command, out, force>>

\* Ctrl-C is delivered when the pool has all results.  Without a return the
\* log is opened, and emptied, before the missing list ends the script.
Interrupt ==
  /\ pc = "pool" /\ Finished
  /\ IF command.returns THEN log' = log /\ undone' = (undone \/ force)
                        ELSE log' = {} /\ undone' = FALSE
  /\ job' = [i \in Items |-> "none"]
  /\ pc' = "idle"
  /\ UNCHANGED <<command, out, force>>

\* The machine goes down, or the script is killed with its commands.
Kill ==
  /\ pc = "pool"
  /\ undone' = (undone \/ force)
  /\ job' = [i \in Items |-> "none"]
  /\ pc' = "idle"
  /\ UNCHANGED <<command, out, force, log>>

StageNext == Start \/ (\E i \in Items : Begin(i) \/ Succeed(i) \/ Fail(i))
               \/ Logged \/ Interrupt \/ Kill

StageSpec == StageInit /\ [][StageNext]_vars

-----------------------------------------------------------------------------

TypeOK ==
  /\ command \in Commands
  /\ out \in [Items -> {"absent", "partial", "whole"}]
  /\ job \in [Items -> {"none", "skip", "queued", "runs", "good", "bad"}]
  /\ force \in BOOLEAN /\ undone \in BOOLEAN /\ pc \in {"idle", "pool"}
  /\ log \subseteq Items \X {"done", "fail"}
  /\ \A e, f \in log : e[1] = f[1] => e = f

(***************************************************************************)
(* What the log calls done while the stage is not running is complete, for *)
(* the next stage takes it from there, if the command writes its output at *)
(* the end, as irgen's does (663-668): through failures, interrupts, kills *)
(* and re-runs.  Only a run with --force that ends without a log leaves an *)
(* older log behind that calls done what the run has taken back.           *)
(***************************************************************************)
DoneIsWhole ==
  command.atomic /\ ~undone /\ pc = "idle" =>
    \A i \in Items : <<i, "done">> \in log => out[i] = "whole"

\* A run without --force does not undo what an earlier one completed (644, 731).
WholeIsKept ==
  [][\A i \in Items : out[i] = "whole" /\ ~force => out'[i] = "whole"]_vars

==============================================================================
