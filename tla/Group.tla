------------------------------- MODULE Group -------------------------------
(***************************************************************************)
(* The stage that links the bitcode of a kernel into modules: the links    *)
(* are read from the log of the build, goals met twice are dropped, and    *)
(* the rest is linked bottom up, every iteration by a pool of workers.     *)
(*                                                                         *)
(* A file is the set of its contents: {} if it is absent, {c} if it holds  *)
(* c, and c is the set of compiled objects that went into it.              *)
(***************************************************************************)
EXTENDS Naturals, FiniteSets, SequencesExt, Closure

CONSTANTS
  Goals,       \* the outputs of link commands
  Objects,     \* the files a compiler makes
  BuildLogs,   \* sequences of [goal |-> a goal, srcs |-> a set of inputs]
  Compiles,    \* the sets of objects the stage before may have made
  Earlier,     \* the goals an earlier run left a file of
  Old,         \* what a file of an earlier run holds
  Marked(_)    \* the goals group_mark takes for modules

Inputs == Goals \union Objects

ASSUME NamesDiffer ==
  /\ Goals \intersect Objects = {}
  /\ Old \notin Inputs /\ Earlier \subseteq Goals
  /\ BuildLogs \subseteq Seq([goal : Goals, srcs : SUBSET Inputs])
  /\ Compiles \subseteq SUBSET Objects

VARIABLES
  lines,   \* the lines of the build log still to be read
  order,   \* the goals in the order runs and arch keep them in
  runs,    \* the inputs of each goal
  dups,    \* the goals met again, as often as they were
  left,    \* the keys of arch: the goals still to be linked
  subs,    \* the goals a goal of arch still waits for
  tops,    \* the goals no other goal links
  bcfs,    \* the files taken for available
  file,    \* the bitcode files
  failed,  \* pairs of a goal and an input it was linked without
  batch,   \* the goals of the iteration
  infs,    \* the inputs each of them is linked from
  pending, \* those the pool has not finished
  good,    \* those a worker returned True for
  work,    \* the list of results: {} while unbound
  log,     \* pairs of a goal and what the log of the stage says of it
  links,   \* the same for the list of modules
  interrupted,  \* the user has pressed Ctrl-C
  pc

vars == <<lines, order, runs, dups, left, subs, tops, bcfs, file, failed, batch,
          infs, pending, good, work, log, links, interrupted, pc>>

read  == <<lines, order, runs, dups>>
outcome == <<work, interrupted>>
tree  == <<left, subs, tops>>
pool  == <<batch, infs, pending, good>>
marks == <<failed, log, links>>

GroupInit ==
  /\ lines \in BuildLogs
  /\ order = <<>> /\ dups = <<>>
  /\ runs = [g \in Goals |-> {}] /\ left = {}
  /\ subs = [g \in Goals |-> {}]
  /\ tops = {}
  /\ \E made \in Compiles :
        /\ bcfs = made
        /\ file = [f \in Inputs |-> CASE f \in made    -> {{f}}
                                      [] f \in Earlier -> {{Old}}
                                      [] OTHER         -> {}]
  /\ batch = {} /\ pending = {} /\ good = {} /\ work = {}
  /\ infs = [g \in Goals |-> {}]
  /\ failed = {} /\ log = {} /\ links = {}
  /\ interrupted = FALSE
  /\ pc = "read"

(***************************************************************************)
(* One link command of the log.  A goal met again keeps its place and      *)
(* takes the new inputs.                                                   *)
(***************************************************************************)
Known(g) == g \in Range(order)

ReadLine ==
  /\ pc = "read" /\ lines # <<>>
  /\ LET l == Head(lines) IN
       /\ dups' = IF Known(l.goal) THEN Append(dups, l.goal) ELSE dups
       /\ order' = IF Known(l.goal) THEN order ELSE Append(order, l.goal)
       /\ runs' = [runs EXCEPT ![l.goal] = l.srcs]
  /\ lines' = Tail(lines)
  /\ UNCHANGED <<bcfs, file, outcome, pc>> /\ UNCHANGED tree
  /\ UNCHANGED pool /\ UNCHANGED marks

LogRead ==
  /\ pc = "read" /\ lines = <<>>
  /\ pc' = "dups"
  /\ UNCHANGED <<bcfs, file, outcome>> /\ UNCHANGED read /\ UNCHANGED tree
  /\ UNCHANGED pool /\ UNCHANGED marks

\* `del runs[goal]' for the list of the goals met again: a goal that is in
\* the list twice is no longer a key the second time.
Keys == Range(order) \ Range(dups)

DropDups ==
  /\ pc = "dups"
  /\ IF IsInjective(dups)
     THEN pc' = "arch" /\ left' = Keys
     ELSE pc' = "KeyError" /\ UNCHANGED left
  /\ runs' = [g \in Goals |-> IF g \in Keys THEN runs[g] ELSE {}]
  /\ UNCHANGED <<lines, order, dups, subs, tops, bcfs, file, outcome>>
  /\ UNCHANGED pool /\ UNCHANGED marks

(***************************************************************************)
(* The hierarchy: a goal waits for those of its inputs that are goals, and *)
(* the goals nothing waits for are the top level.                          *)
(***************************************************************************)
SubsForward(g, arch) ==  \* mutant: linked in one pass, later goals are not known yet
  {s \in runs[g] \intersect arch :
     \E i, j \in DOMAIN order : order[i] = s /\ order[j] = g /\ i <= j}
Subs(g, arch) == runs[g] \intersect arch

Hierarchy ==
  /\ pc = "arch"
  /\ subs' = [g \in Goals |-> IF g \in left THEN Subs(g, left) ELSE {}]
  /\ tops' = {g \in left : \A h \in left : g \notin Subs(h, left)}
  /\ pc' = "up"
  /\ UNCHANGED <<left, bcfs, file, outcome>> /\ UNCHANGED read
  /\ UNCHANGED pool /\ UNCHANGED marks

\* The inputs of a goal that go into its command.
LinkableFile(g) == {r \in runs[g] : file[r] # {}}  \* mutant: whatever exists is taken
Linkable(g) == runs[g] \intersect bcfs

IsFreeEnough(g) ==  \* mutant: one input that is there is enough
  subs[g] = {} \/ Linkable(g) # {}
IsFree(g) == subs[g] = {}

StartIteration ==
  /\ pc = "up" /\ left # {}
  /\ batch' = {g \in left : IsFree(g)}
  /\ infs' = [g \in Goals |-> IF g \in batch' THEN Linkable(g) ELSE {}]
  /\ failed' = failed \union {p \in batch' \X Inputs :
                                p[2] \in runs[p[1]] \ infs'[p[1]]}
  /\ pending' = batch' /\ good' = {}
  /\ pc' = "pool"
  /\ UNCHANGED <<bcfs, file, outcome, log, links>> /\ UNCHANGED read
  /\ UNCHANGED tree

\* llvm-link needs an input, and all of them must be there; it writes the
\* output when the module is complete, and leaves what was there otherwise.
Content(g) == {UNION {UNION file[r] : r \in infs[g]}}
Links(g, ok) ==
  /\ g \in pending
  /\ ok => infs[g] # {} /\ \A r \in infs[g] : file[r] # {}
  /\ file' = IF ok THEN [file EXCEPT ![g] = Content(g)] ELSE file

GroupWorker(g) ==
  /\ pc = "pool"
  /\ \E ok \in BOOLEAN :
        /\ Links(g, ok)
        /\ good' = IF ok THEN good \union {g} ELSE good
  /\ pending' = pending \ {g}
  /\ UNCHANGED <<bcfs, outcome, batch, infs, pc>> /\ UNCHANGED read
  /\ UNCHANGED tree /\ UNCHANGED marks

\* A goal and its result go by their index in the lists of the iteration.
Index(i) == Cardinality({j \in 1..i : order[j] \in batch})
Results == [len  |-> Cardinality(batch),
            good |-> {Index(i) : i \in {j \in DOMAIN order : order[j] \in good}}]

PoolDone ==
  /\ pc = "pool" /\ pending = {}
  /\ work' = {Results}
  /\ pc' = "consolidate"
  /\ UNCHANGED <<bcfs, file, interrupted>> /\ UNCHANGED read /\ UNCHANGED tree
  /\ UNCHANGED pool /\ UNCHANGED marks

(***************************************************************************)
(* Ctrl-C.  The workers ignore it, and `map' delivers it when it has all   *)
(* results; the handler stops the pool and goes on, without a result.      *)
(***************************************************************************)
Interrupt ==
  /\ pc = "pool" /\ pending = {}
  /\ interrupted' = TRUE
  /\ pc' = "consolidate"
  /\ UNCHANGED <<bcfs, file, work>> /\ UNCHANGED read /\ UNCHANGED tree
  /\ UNCHANGED pool /\ UNCHANGED marks

Survived(r) ==
  {order[i] : i \in {j \in DOMAIN order : order[j] \in batch /\ Index(j) \in r.good}}

\* With the list of an earlier iteration, or none, the results are those of
\* other goals or an exception.
Consolidate ==
  /\ pc = "consolidate"
  /\ IF \E r \in work : r.len >= Cardinality(batch)
     THEN \E r \in work :
            /\ log' = log \union {<<g, IF g \in Survived(r) THEN "done" ELSE "fail">> :
                                    g \in batch}
            /\ bcfs' = bcfs \union Survived(r)
            /\ pc' = "clean"
     ELSE pc' = "NameError" /\ UNCHANGED <<log, bcfs>>
  /\ UNCHANGED <<file, outcome, failed, links>> /\ UNCHANGED read
  /\ UNCHANGED tree /\ UNCHANGED pool

Waits(g, done) == subs[g] \ done

CleanUp ==
  /\ pc = "clean"
  /\ left' = left \ batch
  /\ subs' = [g \in Goals |-> IF g \in left' THEN Waits(g, batch) ELSE {}]
  /\ pc' = "up"
  /\ UNCHANGED <<tops, bcfs, file, outcome>> /\ UNCHANGED read
  /\ UNCHANGED pool /\ UNCHANGED marks

\* The list of modules goes by the files that exist.
LoggedDone(m) == <<m, "done">> \in log  \* mutant: by the log of the stage
Exists(m) == file[m] # {}
Report ==
  /\ pc = "up" /\ left = {}
  /\ links' = {<<m, IF Exists(m) THEN "done" ELSE "fail">> :
                 m \in {t \in tops : Marked(t)}}
  /\ pc' = "end"
  /\ UNCHANGED <<bcfs, file, outcome, failed, log>> /\ UNCHANGED read
  /\ UNCHANGED tree /\ UNCHANGED pool

stopped == pc \in {"end", "KeyError", "NameError"} /\ UNCHANGED vars

GroupNext == ReadLine \/ LogRead \/ DropDups \/ Hierarchy \/ StartIteration
               \/ (\E g \in Goals : GroupWorker(g)) \/ PoolDone \/ Interrupt
               \/ Consolidate \/ CleanUp \/ Report \/ stopped

\* The script runs on, and every command ends.
GroupSpec == GroupInit /\ [][GroupNext]_vars /\ WF_vars(GroupNext)

-----------------------------------------------------------------------------

Tree == [f \in Inputs |-> IF f \in Goals THEN runs[f] ELSE {}]
Below(g) == Closure({g}, Tree)
Linked == {g \in Goals : <<g, "done">> \in log}

(***************************************************************************)
(* A goal whose linking succeeded, and below which no goal is reported as  *)
(* linked in part, holds exactly the objects the build linked into it,     *)
(* through however many levels, all of them from this run, unless it was   *)
(* interrupted (475-545).                                                  *)
(***************************************************************************)
ModulesWhole ==
  \A g \in Linked :
    ~interrupted /\ (\A h \in Below(g) \intersect Goals : \A r \in Inputs : <<h, r>> \notin failed)
      => file[g] = {Below(g) \intersect Objects}

(***************************************************************************)
(* A goal is reported as linked in part for an input only if that input    *)
(* never becomes available: no input was merely not linked yet (475-515).  *)
(***************************************************************************)
PartialForGood == \A p \in failed : p[2] \notin bcfs

(***************************************************************************)
(* A partial module is still not mixed with an earlier run: what the links *)
(* take for available exists, and holds objects from below it only, of     *)
(* this run (451, 507-511).  Only when the user interrupts the linking may *)
(* the results of an earlier iteration be taken for those of this one      *)
(* (534-545).                                                              *)
(***************************************************************************)
NothingStale ==
  interrupted \/ \A f \in bcfs : file[f] # {} /\ UNION file[f] \subseteq Below(f)

(***************************************************************************)
(* The list of modules the next stage takes names files that exist and     *)
(* hold objects from below the module, even if the user interrupted the    *)
(* linking and the log of the stage is wrong (574-587).  A file of an      *)
(* earlier run is taken for a module when the linking of this run failed.  *)
(***************************************************************************)
ModulesExist ==
  \A m \in Goals : <<m, "done">> \in links
                     => file[m] # {} /\ UNION file[m] \subseteq Below(m) \union {Old}

(***************************************************************************)
(* The loop over the hierarchy ends when no goal depends on itself, and    *)
(* goes on for ever when one does (475).  Otherwise an exception ends the  *)
(* script only after an interrupt or a goal met three times.               *)
(***************************************************************************)
Cyclic == \E g \in Goals : g \in Closure(Tree[g], Tree)
EndsUnlessCyclic ==
  <>[](IF Cyclic THEN pc # "end"
       ELSE \/ pc = "end"
            \/ pc = "NameError" /\ interrupted
            \/ pc = "KeyError" /\ ~IsInjective(dups))

==============================================================================
