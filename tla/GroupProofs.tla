---------------------------- MODULE GroupProofs ----------------------------
(***************************************************************************)
(* Proofs about Group, for every set of goals, every log of the build and  *)
(* every outcome of the stage before: what the links leave in the bitcode  *)
(* files, and what the stage reports of them.                              *)
(***************************************************************************)
EXTENDS Group, Integers, SequenceTheorems, FiniteSetTheorems, TLAPS

Contents == SUBSET (Objects \union {Old})
Verdicts == Goals \X {"done", "fail"}
Outcomes == [len : Nat, good : SUBSET Nat]

GroupTypeOK ==
  /\ lines \in Seq([goal : Goals, srcs : SUBSET Inputs])
  /\ order \in Seq(Goals) /\ dups \in Seq(Goals)
  /\ left \subseteq Goals
  /\ runs \in [Goals -> SUBSET Inputs]
  /\ subs \in [Goals -> SUBSET Goals]
  /\ tops \subseteq Goals
  /\ bcfs \subseteq Inputs
  /\ file \in [Inputs -> SUBSET Contents]
  /\ failed \subseteq Goals \X Inputs
  /\ batch \subseteq Goals /\ pending \subseteq Goals /\ good \subseteq Goals
  /\ infs \in [Goals -> SUBSET Inputs]
  /\ work \subseteq Outcomes
  /\ log \subseteq Verdicts /\ links \subseteq Verdicts
  /\ interrupted \in BOOLEAN
  /\ pc \in {"read", "dups", "arch", "up", "pool", "consolidate", "clean",
             "end", "KeyError", "NameError"}

(* Before the first link: only what the compiler and earlier runs left.    *)
Reading == pc \in {"read", "dups", "arch", "KeyError"}
Untouched ==
  Reading => /\ bcfs \subseteq Objects
             /\ good = {} /\ failed = {} /\ log = {}
             /\ \A f \in Inputs : file[f] \subseteq {{f}, {Old}}
             /\ \A f \in bcfs : file[f] = {{f}}
             /\ \A g \in Goals : file[g] \subseteq {{Old}}

(* The hierarchy: the goals of arch, and what each of them waits for.      *)
Linking == pc \in {"up", "pool", "consolidate", "clean"}
Hierarchical ==
  /\ pc \in {"read", "dups", "KeyError"} => left = {}
  /\ left \subseteq Range(order)
  /\ Linking => \A g \in left : subs[g] = runs[g] \intersect left

(* One iteration: its goals wait for nothing, and are linked from what was *)
(* available when it started, which is still so until it is consolidated.  *)
Iterating == pc \in {"pool", "consolidate"}
Iteration ==
  /\ Iterating => /\ batch \subseteq left
                  /\ pending \union good \subseteq batch
                  /\ pending \intersect good = {}
                  /\ \A g \in batch : /\ infs[g] = runs[g] \intersect bcfs
                                      /\ \A r \in runs[g] \ bcfs : <<g, r>> \in failed
  /\ pc = "consolidate" /\ ~interrupted => work = {Results}

(* What is available is linked already, and what was missing never comes.  *)
Availability ==
  /\ pc = "clean" => bcfs \intersect left \subseteq batch
  /\ pc # "clean" => bcfs \intersect left = {}
  /\ \A p \in failed : p[2] \notin bcfs \union left

(* The files: what is available or linked with success is of this run, and *)
(* whole when nothing below it is missing.                                 *)
Whole(f) ==
  (\A h \in Below(f) \intersect Goals : \A r \in Inputs : <<h, r>> \notin failed)
     => file[f] = {Below(f) \intersect Objects}
Fresh(f) == file[f] # {} /\ UNION file[f] \subseteq Below(f)

Filed ==
  /\ \A f \in Inputs : UNION file[f] \subseteq Below(f) \union {Old}
  /\ ~interrupted => \A f \in bcfs \union good : Fresh(f) /\ Whole(f)

(* What the stage reports. *)
Reported ==
  /\ Linked \subseteq bcfs
  /\ \A m \in Goals : <<m, "done">> \in links => pc = "end" /\ file[m] # {}

GroupInv ==
  /\ GroupTypeOK /\ Untouched /\ Hierarchical /\ Iteration
  /\ Availability /\ Filed /\ Reported

------------------------------------------------------------------------------

(* Reachability in the tree of links. *)
LEMMA BelowFacts ==
  ASSUME GroupTypeOK, NEW f \in Inputs
  PROVE  /\ f \in Below(f) /\ Below(f) \subseteq Inputs
         /\ Tree[f] \subseteq Inputs
         /\ \A r \in Tree[f] : Below(r) \subseteq Below(f)
         /\ Below(f) \subseteq {f} \union UNION {Below(r) : r \in Tree[f]}
<1>1. Tree \in [Inputs -> SUBSET Inputs] /\ DOMAIN Tree = Inputs
  BY DEF GroupTypeOK, Tree, Inputs
<1>2. \A h \in Inputs : h \in Below(h) /\ Below(h) \subseteq Inputs
  BY <1>1 DEF Below, Closure
<1>3. ASSUME NEW r \in Tree[f], NEW x \in Below(r)
      PROVE  x \in Below(f)
  <2>1. x \in Inputs /\ r \in Inputs
    BY <1>1, <1>3 DEF Below, Closure
  <2>2. ASSUME NEW T \in SUBSET Inputs, {f} \subseteq T, Closed(T, Tree)
        PROVE  x \in T
    <3>1. {r} \subseteq T
      BY <1>1, <2>1, <2>2 DEF Closed
    <3>. QED
      BY <1>1, <1>3, <2>2, <3>1 DEF Below, Closure
  <2>. QED
    BY <1>1, <2>1, <2>2 DEF Below, Closure
<1>4. Below(f) \subseteq {f} \union UNION {Below(r) : r \in Tree[f]}
  <2>. DEFINE T == {f} \union UNION {Below(r) : r \in Tree[f]}
  <2>1. T \in SUBSET Inputs
    BY <1>1, <1>2
  <2>2. ASSUME NEW v \in T, NEW w \in Tree[v]
        PROVE  w \in T
    <3>1. CASE v = f
      <4>1. w \in Inputs /\ w \in Below(w)
        BY <1>1, <1>2, <3>1
      <4>. QED
        BY <3>1, <4>1
    <3>2. CASE v # f
      <4>1. PICK r \in Tree[f] : v \in Below(r)
        BY <3>2
      <4>2. r \in Inputs /\ v \in Inputs /\ w \in Inputs
        BY <1>1, <2>1, <2>2
      <4>3. ASSUME NEW S \in SUBSET Inputs, {r} \subseteq S, Closed(S, Tree)
            PROVE  w \in S
        <5>1. v \in S
          BY <1>1, <4>1, <4>3 DEF Below, Closure
        <5>. QED
          BY <2>2, <4>3, <5>1 DEF Closed
      <4>4. w \in Below(r)
        BY <1>1, <4>2, <4>3 DEF Below, Closure
      <4>. QED
        BY <4>4
    <3>. QED
      BY <3>1, <3>2
  <2>3. {f} \subseteq T /\ Closed(T, Tree)
    BY <2>2 DEF Closed
  <2>. HIDE DEF T
  <2>4. Below(f) \subseteq T
    BY <1>1, <2>1, <2>3 DEF Below, Closure
  <2>. QED
    BY <2>4 DEF T
<1>. QED
  BY <1>1, <1>2, <1>3, <1>4

(* An object has nothing below it. *)
LEMMA BelowObject ==
  ASSUME GroupTypeOK, NEW o \in Objects
  PROVE  Below(o) = {o}
<1>1. o \in Inputs /\ Tree[o] = {}
  BY NamesDiffer DEF Tree, Inputs
<1>. QED
  BY <1>1, BelowFacts

(* A step that reads no line and drops no goal leaves the tree as it is.   *)
LEMMA TreeStays ==
  ASSUME UNCHANGED runs
  PROVE  UNCHANGED Tree /\ \A f : Below(f)' = Below(f)
BY DEF Tree, Below, Closure, Closed

(* The goals an iteration links are finitely many, and have their results  *)
(* at different indices: the ones that survive are those whose worker      *)
(* returned True.                                                          *)
LEMMA ResultsFacts ==
  ASSUME GroupTypeOK, batch \subseteq Range(order), good \subseteq batch
  PROVE  Results \in Outcomes /\ Survived(Results) = good
<1>1. order \in Seq(Goals) /\ Len(order) \in Nat /\ DOMAIN order = 1..Len(order)
  BY LenProperties DEF GroupTypeOK
<1>. DEFINE Met(i) == {j \in 1..i : order[j] \in batch}
<1>2. ASSUME NEW i \in DOMAIN order
      PROVE  IsFiniteSet(Met(i)) /\ Index(i) = Cardinality(Met(i)) /\ Index(i) \in Nat
  <2>1. IsFiniteSet(1..i)
    BY <1>1, FS_Interval
  <2>2. IsFiniteSet(Met(i))
    BY <2>1, FS_Subset
  <2>. QED
    BY <2>2, FS_CardinalityType DEF Index
<1>3. ASSUME NEW i \in DOMAIN order, NEW j \in DOMAIN order,
             order[j] \in batch, i < j
      PROVE  Index(i) # Index(j)
  <2>1. i \in Nat /\ j \in Nat /\ i < j
    BY <1>1, <1>3
  <2>2. Met(i) \subseteq Met(j) /\ j \in Met(j) /\ j \notin Met(i)
    BY <1>1, <1>3, <2>1
  <2>. QED
    BY <1>2, <2>2, FS_Subset
<1>4. ASSUME NEW i \in DOMAIN order, NEW j \in DOMAIN order,
             order[i] \in batch, order[j] \in batch, Index(i) = Index(j)
      PROVE  i = j
  <2>1. i \in Nat /\ j \in Nat
    BY <1>1
  <2>. QED
    BY <1>3, <1>4, <2>1
<1>5. Cardinality(batch) \in Nat
  <2>1. IsFiniteSet(1..Len(order))
    BY <1>1, FS_Interval
  <2>2. order \in Surjection(1..Len(order), Range(order))
    BY <1>1 DEF Range, Surjection
  <2>3. IsFiniteSet(Range(order))
    BY <2>1, <2>2, FS_Surjection
  <2>. QED
    BY <2>3, FS_Subset, FS_CardinalityType
<1>6. Results \in Outcomes
  BY <1>2, <1>5 DEF Results, Outcomes
<1>7. Results.good = {Index(i) : i \in {j \in DOMAIN order : order[j] \in good}}
  BY DEF Results
<1>8. Survived(Results) \subseteq good
  <2>1. SUFFICES ASSUME NEW j \in DOMAIN order, order[j] \in batch, Index(j) \in Results.good
                 PROVE  order[j] \in good
    BY DEF Survived
  <2>2. PICK i \in DOMAIN order : order[i] \in good /\ Index(i) = Index(j)
    BY <1>7, <2>1
  <2>. QED
    BY <1>4, <2>1, <2>2
<1>9. good \subseteq Survived(Results)
  <2>1. SUFFICES ASSUME NEW g \in good
                 PROVE  g \in Survived(Results)
    OBVIOUS
  <2>2. PICK i \in DOMAIN order : order[i] = g
    BY <2>1 DEF Range
  <2>3. Index(i) \in Results.good
    BY <1>7, <2>1, <2>2
  <2>. QED
    BY <2>1, <2>2, <2>3 DEF Survived
<1>. QED
  BY <1>6, <1>8, <1>9

------------------------------------------------------------------------------

(* Before the first link the files are what the compiler and earlier runs  *)
(* left, whatever the tree of links is by then.                            *)
LEMMA UntouchedIsFiled == GroupTypeOK /\ Untouched /\ Reading => Filed
<1> SUFFICES ASSUME GroupTypeOK, Untouched, Reading
             PROVE  Filed
  OBVIOUS
<1>1. ASSUME NEW f \in Inputs
      PROVE  UNION file[f] \subseteq Below(f) \union {Old}
  <2>1. f \in Below(f) /\ file[f] \subseteq {{f}, {Old}}
    BY BelowFacts DEF Untouched
  <2>. QED
    BY <2>1
<1>2. ASSUME NEW f \in bcfs \union good
      PROVE  Fresh(f) /\ Whole(f)
  <2>1. f \in Objects /\ file[f] = {{f}}
    BY DEF Untouched
  <2>2. Below(f) = {f}
    BY <2>1, BelowObject
  <2>. QED
    BY <2>1, <2>2 DEF Fresh, Whole
<1>. QED
  BY <1>1, <1>2 DEF Filed

LEMMA UntouchedIsFiledNext ==
  GroupTypeOK' /\ Untouched' /\ Reading' => Filed'
BY UntouchedIsFiled, PTL

LEMMA GroupInitKeeps == GroupInit => GroupInv
<1> SUFFICES ASSUME GroupInit
             PROVE  GroupInv
  OBVIOUS
<1>1. PICK made \in Compiles :
        /\ bcfs = made
        /\ file = [f \in Inputs |-> CASE f \in made    -> {{f}}
                                      [] f \in Earlier -> {{Old}}
                                      [] OTHER         -> {}]
  BY DEF GroupInit
<1>2. made \subseteq Objects /\ made \intersect Earlier = {}
  BY NamesDiffer
<1>3. \A f \in Inputs : file[f] = IF f \in made THEN {{f}}
                                  ELSE IF f \in Earlier THEN {{Old}} ELSE {}
  BY <1>1, <1>2
<1>4. GroupTypeOK
  <2>1. file \in [Inputs -> SUBSET Contents]
    <3>1. ASSUME NEW f \in Inputs
          PROVE  file[f] \in SUBSET Contents
      <4>1. {Old} \in Contents /\ (f \in made => {f} \in Contents)
        BY <1>2 DEF Contents
      <4>2. file[f] \in {{{f}}, {{Old}}, {}} /\ (file[f] = {{f}} => f \in made \/ f = Old)
        BY <1>3
      <4>. QED
        BY <4>1, <4>2
    <3>2. DOMAIN file = Inputs /\ file = [f \in DOMAIN file |-> file[f]]
      <4>. DEFINE c(f) == CASE f \in made    -> {{f}}
                            [] f \in Earlier -> {{Old}}
                            [] OTHER         -> {}
      <4>1. file = [f \in Inputs |-> c(f)]
        BY <1>1
      <4>. HIDE DEF c
      <4>. QED
        BY <4>1
    <3>. QED
      BY <3>1, <3>2
  <2>2. lines \in Seq([goal : Goals, srcs : SUBSET Inputs])
    BY NamesDiffer DEF GroupInit
  <2>3. <<>> \in Seq(Goals)
    OBVIOUS
  <2>. QED
    BY <1>1, <1>2, <2>1, <2>2, <2>3 DEF GroupInit, GroupTypeOK, Inputs
<1>5. Untouched
  BY <1>1, <1>2, <1>3, NamesDiffer DEF GroupInit, Untouched, Inputs
<1>6. Reading /\ Filed
  BY <1>4, <1>5, UntouchedIsFiled DEF GroupInit, Reading
<1>. QED
  BY <1>4, <1>5, <1>6
     DEF GroupInit, GroupInv, Hierarchical, Linking, Iteration, Iterating,
         Availability, Reported, Linked

LEMMA GroupTypeStep == GroupTypeOK /\ Hierarchical /\ Iteration /\ [GroupNext]_vars => GroupTypeOK'
<1> SUFFICES ASSUME GroupTypeOK, Hierarchical, Iteration, [GroupNext]_vars
             PROVE  GroupTypeOK'
  OBVIOUS
<1>. USE DEF GroupTypeOK, read, outcome, tree, pool, marks
<1>1. CASE ReadLine
  <2>1. Head(lines) \in [goal : Goals, srcs : SUBSET Inputs]
        /\ Tail(lines) \in Seq([goal : Goals, srcs : SUBSET Inputs])
    BY <1>1, HeadTailProperties DEF ReadLine
  <2>2. Append(dups, Head(lines).goal) \in Seq(Goals)
        /\ Append(order, Head(lines).goal) \in Seq(Goals)
    BY <2>1, AppendProperties
  <2>. QED
    BY <1>1, <2>1, <2>2 DEF ReadLine
<1>2. CASE LogRead
  BY <1>2 DEF LogRead
<1>3. CASE DropDups
  <2>1. Keys \subseteq Goals
    BY RangeOfSeq DEF Keys
  <2>. QED
    BY <1>3, <2>1 DEF DropDups
<1>4. CASE Hierarchy
  BY <1>4 DEF Hierarchy, Subs
<1>5. CASE StartIteration
  BY <1>5 DEF StartIteration, Linkable
<1>6. ASSUME NEW g \in Goals, GroupWorker(g)
      PROVE  GroupTypeOK'
  <2>1. Content(g) \in SUBSET Contents
    BY DEF Content, Contents
  <2>2. PICK ok \in BOOLEAN : /\ Links(g, ok)
                              /\ good' = IF ok THEN good \union {g} ELSE good
    BY <1>6 DEF GroupWorker
  <2>3. file' \in [Inputs -> SUBSET Contents]
    BY <2>1, <2>2 DEF Links
  <2>. QED
    BY <1>6, <2>2, <2>3 DEF GroupWorker
<1>7. CASE PoolDone
  <2>1. batch \subseteq Range(order) /\ good \subseteq batch
    BY <1>7 DEF PoolDone, Hierarchical, Iteration, Iterating
  <2>2. Results \in Outcomes
    BY <2>1, ResultsFacts
  <2>. QED
    BY <1>7, <2>2 DEF PoolDone
<1>8. CASE Interrupt
  BY <1>8 DEF Interrupt
<1>9. CASE Consolidate
  <2>1. \A r : Survived(r) \subseteq batch
    BY DEF Survived
  <2>2. bcfs' \subseteq Inputs /\ log' \subseteq Verdicts
    BY <1>9, <2>1 DEF Consolidate, Inputs, Verdicts
  <2>. QED
    BY <1>9, <2>2 DEF Consolidate
<1>10. CASE CleanUp
  BY <1>10 DEF CleanUp, Waits
<1>11. CASE Report
  BY <1>11 DEF Report, Verdicts
<1>12. CASE UNCHANGED vars
  BY <1>12 DEF vars
<1>. QED
  BY <1>1, <1>2, <1>3, <1>4, <1>5, <1>6, <1>7, <1>8, <1>9, <1>10, <1>11, <1>12
     DEF GroupNext, stopped

(* What the files hold is as it was when no file changes and nothing else  *)
(* is taken for available.                                                 *)
LEMMA FiledFrame ==
  ASSUME Filed, UNCHANGED <<runs, file>>, failed \subseteq failed',
         ~interrupted' => ~interrupted /\ bcfs' \union good' \subseteq bcfs \union good
  PROVE  Filed'
<1>1. \A f : Below(f)' = Below(f)
  BY TreeStays
<1>2. \A f : Fresh(f) => Fresh(f)'
  BY <1>1 DEF Fresh
<1>3. \A f : Whole(f) => Whole(f)'
  BY <1>1 DEF Whole
<1>. QED
  BY <1>1, <1>2, <1>3 DEF Filed

(* A worker links its goal from files of this run.                         *)
LEMMA WorkerKeepsFiled ==
  ASSUME GroupInv, NEW g \in Goals, GroupWorker(g)
  PROVE  Filed'
<1>1. PICK ok \in BOOLEAN : /\ Links(g, ok)
                            /\ good' = IF ok THEN good \union {g} ELSE good
  BY DEF GroupWorker
<1>2. UNCHANGED <<runs, bcfs, failed, interrupted>> /\ pc = "pool" /\ g \in pending
  BY <1>1 DEF GroupWorker, Links, read, outcome, marks
<1>3. CASE ~ok
  BY <1>1, <1>2, <1>3, FiledFrame DEF GroupInv, Links
<1>4. CASE ok
  <2>1. file' = [file EXCEPT ![g] = Content(g)] /\ good' = good \union {g}
        /\ infs[g] # {} /\ \A r \in infs[g] : file[r] # {}
    BY <1>1, <1>4 DEF Links
  <2>2. g \in batch /\ g \in left /\ g \notin good /\ g \notin bcfs
        /\ infs[g] = runs[g] \intersect bcfs
        /\ \A r \in runs[g] \ bcfs : <<g, r>> \in failed
    BY <1>2 DEF GroupInv, Iteration, Iterating, Availability
  <2>3. g \in Inputs /\ file \in [Inputs -> SUBSET Contents] /\ Tree[g] = runs[g]
        /\ bcfs \subseteq Inputs /\ GroupTypeOK
    BY DEF GroupInv, GroupTypeOK, Inputs, Tree
  <2>4. /\ g \in Below(g)
        /\ \A r \in runs[g] : Below(r) \subseteq Below(g)
        /\ Below(g) \subseteq {g} \union UNION {Below(r) : r \in runs[g]}
    BY <2>3, BelowFacts
  <2>5. file'[g] = Content(g) /\ \A f \in Inputs \ {g} : file'[f] = file[f]
    BY <2>1, <2>3
  <2>6. \A f : Below(f)' = Below(f)
    BY <1>2, TreeStays
  <2>7. \A r \in infs[g] : UNION file[r] \subseteq Below(r) \union {Old}
    BY <2>2, <2>3 DEF GroupInv, Filed
  <2>8. UNION Content(g) = UNION {UNION file[r] : r \in infs[g]}
    BY DEF Content
  <2>9. UNION Content(g) \subseteq Below(g) \union {Old}
    BY <2>2, <2>4, <2>7, <2>8
  <2>10. ASSUME ~interrupted
         PROVE  Fresh(g)' /\ Whole(g)'
    <3>1. \A r \in infs[g] : Fresh(r) /\ Whole(r)
      BY <2>2, <2>10 DEF GroupInv, Filed
    <3>2. Fresh(g)'
      <4>1. UNION Content(g) \subseteq Below(g)
        BY <2>2, <2>4, <2>8, <3>1 DEF Fresh
      <4>2. Content(g) # {}
        BY DEF Content
      <4>. QED
        BY <2>5, <2>6, <4>1, <4>2 DEF Fresh
    <3>3. ASSUME \A h \in Below(g) \intersect Goals : \A r \in Inputs : <<h, r>> \notin failed
          PROVE  Content(g) = {Below(g) \intersect Objects}
      <4>1. infs[g] = runs[g]
        <5>1. \A r \in runs[g] : r \in Inputs
          BY DEF GroupInv, GroupTypeOK
        <5>. QED
          BY <2>2, <2>4, <3>3, <5>1
      <4>2. \A r \in runs[g] : file[r] = {Below(r) \intersect Objects}
        BY <2>4, <3>1, <3>3, <4>1 DEF Whole
      <4>3. UNION {UNION file[r] : r \in infs[g]} \subseteq Below(g) \intersect Objects
        BY <2>4, <4>1, <4>2
      <4>4. ASSUME NEW x \in Below(g) \intersect Objects
            PROVE  x \in UNION {UNION file[r] : r \in infs[g]}
        <5>1. x # g
          BY NamesDiffer
        <5>2. PICK r \in runs[g] : x \in Below(r)
          BY <2>4, <5>1
        <5>3. file[r] = {Below(r) \intersect Objects} /\ x \in Below(r) \intersect Objects
          BY <4>2, <4>4, <5>2
        <5>4. x \in UNION file[r]
          BY Zenon, <5>3
        <5>. QED
          BY <4>1, <5>2, <5>4
      <4>5. UNION {UNION file[r] : r \in infs[g]} = Below(g) \intersect Objects
        BY Zenon, <4>3, <4>4
      <4>. QED
        BY <4>5 DEF Content
    <3>. QED
      BY <1>2, <2>5, <2>6, <3>2, <3>3 DEF Whole
  <2>11. ASSUME ~interrupted, NEW f \in bcfs \union good
         PROVE  Fresh(f)' /\ Whole(f)'
    <3>1. Fresh(f) /\ Whole(f)
      BY <2>11 DEF GroupInv, Filed
    <3>2. f \in Inputs \ {g}
      BY <2>2 DEF GroupInv, GroupTypeOK, Inputs
    <3>. QED
      BY <1>2, <2>5, <2>6, <3>1, <3>2 DEF Fresh, Whole
  <2>12. \A f \in Inputs : UNION file'[f] \subseteq Below(f)' \union {Old}
    BY <2>5, <2>6, <2>9 DEF GroupInv, Filed
  <2>. QED
    BY <1>2, <2>1, <2>10, <2>11, <2>12 DEF Filed
<1>. QED
  BY <1>3, <1>4

LEMMA GroupStep == GroupInv /\ [GroupNext]_vars => GroupInv'
<1> SUFFICES ASSUME GroupInv, [GroupNext]_vars
             PROVE  GroupInv'
  OBVIOUS
<1>. USE DEF read, outcome, tree, pool, marks
<1>0. GroupTypeOK'
  BY GroupTypeStep DEF GroupInv
<1>1. CASE ReadLine
  <2>1. Untouched' /\ Reading'
    BY <1>1 DEF GroupInv, ReadLine, Untouched, Reading
  <2>2. Hierarchical'
    BY <1>1 DEF GroupInv, ReadLine, Hierarchical, Linking
  <2>3. Iteration' /\ Availability' /\ Reported'
    BY <1>1 DEF GroupInv, ReadLine, Hierarchical, Iteration, Iterating,
                Availability, Reported, Linked
  <2>. QED
    BY <1>0, <2>1, <2>2, <2>3, UntouchedIsFiledNext DEF GroupInv
<1>2. CASE LogRead
  <2>1. Untouched' /\ Reading'
    BY <1>2 DEF GroupInv, LogRead, Untouched, Reading
  <2>2. Hierarchical'
    BY <1>2 DEF GroupInv, LogRead, Hierarchical, Linking
  <2>3. Iteration' /\ Availability' /\ Reported'
    BY <1>2 DEF GroupInv, LogRead, Iteration, Iterating, Availability, Reported, Linked
  <2>. QED
    BY <1>0, <2>1, <2>2, <2>3, UntouchedIsFiledNext DEF GroupInv
<1>3. CASE DropDups
  <2>1. Untouched' /\ Reading'
    BY <1>3 DEF GroupInv, DropDups, Untouched, Reading
  <2>2. Hierarchical'
    BY <1>3 DEF GroupInv, DropDups, Hierarchical, Linking, Keys
  <2>3. Iteration' /\ Reported'
    BY <1>3 DEF GroupInv, DropDups, Iteration, Iterating, Reported, Linked
  <2>4. Availability'
    <3>1. bcfs' \subseteq Objects /\ left' \subseteq Goals /\ failed' = {}
      BY <1>0, <1>3 DEF GroupInv, GroupTypeOK, DropDups, Untouched, Reading
    <3>2. pc' # "clean"
      BY <1>3 DEF DropDups
    <3>. QED
      BY <3>1, <3>2, NamesDiffer DEF Availability
  <2>. QED
    BY <1>0, <2>1, <2>2, <2>3, <2>4, UntouchedIsFiledNext DEF GroupInv
<1>4. CASE Hierarchy
  <2>1. Untouched'
    BY <1>4 DEF Hierarchy, Untouched, Reading
  <2>2. Hierarchical'
    BY <1>4 DEF GroupInv, GroupTypeOK, Hierarchy, Hierarchical, Linking, Subs
  <2>3. Iteration' /\ Availability' /\ Reported'
    BY <1>4 DEF GroupInv, Hierarchy, Iteration, Iterating, Availability, Reported, Linked
  <2>4. Filed'
    BY <1>4, FiledFrame DEF GroupInv, Hierarchy
  <2>. QED
    BY <1>0, <2>1, <2>2, <2>3, <2>4 DEF GroupInv
<1>5. CASE StartIteration
  <2>1. Untouched' /\ Hierarchical' /\ Reported'
    BY <1>5 DEF GroupInv, StartIteration, Untouched, Reading, Hierarchical, Linking,
                Reported, Linked
  <2>2. /\ \A g \in batch' : g \in left /\ g \in Goals /\ runs[g] \intersect left = {}
        /\ \A g \in batch' : infs'[g] = runs[g] \intersect bcfs
    BY <1>5 DEF GroupInv, GroupTypeOK, StartIteration, IsFree, Linkable,
                Hierarchical, Linking
  <2>3. ASSUME NEW g \in batch', NEW r \in runs[g] \ bcfs
        PROVE  <<g, r>> \in failed'
    <3>1. <<g, r>> \in batch' \X Inputs
      BY <2>2 DEF GroupInv, GroupTypeOK
    <3>2. r \in runs[g] \ infs'[g]
      BY <2>2
    <3>. QED
      BY <1>5, <3>1, <3>2 DEF StartIteration
  <2>4. Iteration'
    BY <1>5, <2>2, <2>3 DEF StartIteration, Iteration, Iterating
  <2>5. Availability'
    <3>1. ASSUME NEW p \in failed'
          PROVE  p[2] \notin bcfs \union left
      <4>1. CASE p \in failed
        BY <4>1 DEF GroupInv, Availability
      <4>2. CASE p \notin failed
        <5>1. p \in batch' \X Inputs /\ p[2] \in runs[p[1]] \ infs'[p[1]]
          BY <1>5, <3>1, <4>2 DEF StartIteration
        <5>. QED
          BY <2>2, <5>1
      <4>. QED
        BY <4>1, <4>2
    <3>. QED
      BY <1>5, <3>1 DEF GroupInv, StartIteration, Availability
  <2>6. Filed'
    BY <1>5, FiledFrame DEF GroupInv, StartIteration
  <2>. QED
    BY <1>0, <2>1, <2>4, <2>5, <2>6 DEF GroupInv
<1>6. ASSUME NEW g \in Goals, GroupWorker(g)
      PROVE  GroupInv'
  <2>1. Untouched' /\ Hierarchical' /\ Availability'
    BY <1>6 DEF GroupInv, GroupWorker, Untouched, Reading, Hierarchical, Linking,
                Availability
  <2>2. Iteration'
    BY <1>6 DEF GroupInv, GroupWorker, Links, Iteration, Iterating
  <2>3. Reported'
    BY <1>6 DEF GroupInv, GroupWorker, Reported, Linked
  <2>. QED
    BY <1>0, <1>6, <2>1, <2>2, <2>3, WorkerKeepsFiled DEF GroupInv
<1>7. CASE PoolDone
  <2>1. Results' = Results
    BY <1>7 DEF PoolDone, Results, Index
  <2>2. Untouched' /\ Hierarchical' /\ Availability' /\ Reported'
    BY <1>7 DEF GroupInv, PoolDone, Untouched, Reading, Hierarchical, Linking,
                Availability, Reported, Linked
  <2>3. Iteration'
    BY <1>7, <2>1 DEF GroupInv, PoolDone, Iteration, Iterating
  <2>4. Filed'
    BY <1>7, FiledFrame DEF GroupInv, PoolDone
  <2>. QED
    BY <1>0, <2>2, <2>3, <2>4 DEF GroupInv
<1>8. CASE Interrupt
  <2>1. Untouched' /\ Hierarchical' /\ Availability' /\ Reported'
    BY <1>8 DEF GroupInv, Interrupt, Untouched, Reading, Hierarchical, Linking,
                Availability, Reported, Linked
  <2>2. Iteration'
    BY <1>8 DEF GroupInv, Interrupt, Iteration, Iterating
  <2>3. Filed'
    BY <1>8, FiledFrame DEF GroupInv, Interrupt
  <2>. QED
    BY <1>0, <2>1, <2>2, <2>3 DEF GroupInv
<1>9. CASE Consolidate
  <2>1. \A r : Survived(r) \subseteq batch
    BY DEF Survived
  <2>2. batch \subseteq left /\ bcfs \intersect left = {}
    BY <1>9 DEF GroupInv, Consolidate, Iteration, Iterating, Availability
  <2>3. bcfs' \subseteq bcfs \union batch /\ (pc' = "NameError" => bcfs' = bcfs)
        /\ pc' \in {"clean", "NameError"}
    BY <1>9, <2>1 DEF Consolidate
  <2>4. Untouched' /\ Hierarchical'
    BY <1>9, <2>3 DEF GroupInv, Consolidate, Untouched, Reading, Hierarchical, Linking
  <2>5. Iteration'
    BY <2>3 DEF Iteration, Iterating
  <2>6. Availability'
    BY <1>9, <2>2, <2>3 DEF GroupInv, Consolidate, Availability
  <2>7. Filed'
    <3>1. ASSUME ~interrupted
          PROVE  bcfs' \subseteq bcfs \union good
      <4>1. work = {Results}
        BY <1>9, <3>1 DEF GroupInv, Consolidate, Iteration
      <4>2. Survived(Results) = good
        BY <1>9, ResultsFacts
           DEF GroupInv, Consolidate, Hierarchical, Iteration, Iterating
      <4>. QED
        BY <1>9, <4>1, <4>2 DEF Consolidate
    <3>. QED
      BY <1>9, <3>1, FiledFrame DEF GroupInv, Consolidate
  <2>8. Reported'
    <3>1. ASSUME NEW g \in Goals, <<g, "done">> \in log'
          PROVE  g \in bcfs'
      <4>1. CASE <<g, "done">> \in log
        BY <1>9, <3>1, <4>1 DEF GroupInv, Consolidate, Reported, Linked
      <4>2. CASE <<g, "done">> \notin log
        <5>1. PICK r \in work :
                /\ <<g, "done">> \in {<<h, IF h \in Survived(r) THEN "done" ELSE "fail">> :
                                         h \in batch}
                /\ bcfs' = bcfs \union Survived(r)
          BY <1>9, <3>1, <4>2 DEF Consolidate
        <5>2. PICK h \in batch :
                <<g, "done">> = <<h, IF h \in Survived(r) THEN "done" ELSE "fail">>
          BY <5>1
        <5>3. g = h /\ g \in Survived(r)
          BY <5>2
        <5>. QED
          BY <5>1, <5>3
      <4>. QED
        BY <4>1, <4>2
    <3>2. \A m \in Goals : <<m, "done">> \notin links'
      BY <1>9 DEF GroupInv, Consolidate, Reported
    <3>. QED
      BY <3>1, <3>2 DEF Reported, Linked
  <2>. QED
    BY <1>0, <2>4, <2>5, <2>6, <2>7, <2>8 DEF GroupInv
<1>10. CASE CleanUp
  <2>1. Untouched' /\ Reported'
    BY <1>10 DEF GroupInv, CleanUp, Untouched, Reading, Reported, Linked
  <2>2. Hierarchical'
    BY <1>10 DEF GroupInv, GroupTypeOK, CleanUp, Waits, Hierarchical, Linking
  <2>3. Iteration' /\ Availability'
    BY <1>10 DEF GroupInv, CleanUp, Iteration, Iterating, Availability
  <2>4. Filed'
    BY <1>10, FiledFrame DEF GroupInv, CleanUp
  <2>. QED
    BY <1>0, <2>1, <2>2, <2>3, <2>4 DEF GroupInv
<1>11. CASE Report
  <2>1. Untouched' /\ Hierarchical' /\ Iteration' /\ Availability'
    BY <1>11 DEF GroupInv, Report, Untouched, Reading, Hierarchical, Linking,
                 Iteration, Iterating, Availability
  <2>2. Reported'
    <3>1. ASSUME NEW m \in Goals, <<m, "done">> \in links'
          PROVE  file'[m] # {}
      <4>1. PICK t \in tops : <<m, "done">> = <<t, IF Exists(t) THEN "done" ELSE "fail">>
        BY <1>11, <3>1 DEF Report
      <4>2. m = t /\ Exists(t)
        BY <4>1
      <4>. QED
        BY <1>11, <4>2 DEF Report, Exists
    <3>. QED
      BY <1>11, <3>1 DEF GroupInv, Report, Reported, Linked
  <2>3. Filed'
    BY <1>11, FiledFrame DEF GroupInv, Report
  <2>. QED
    BY <1>0, <2>1, <2>2, <2>3 DEF GroupInv
<1>12. CASE UNCHANGED vars
  <2>1. Results' = Results
    BY <1>12 DEF vars, Results, Index
  <2>2. Untouched' /\ Hierarchical' /\ Iteration' /\ Availability' /\ Reported'
    BY <1>12, <2>1 DEF GroupInv, vars, Untouched, Reading, Hierarchical, Linking,
                       Iteration, Iterating, Availability, Reported, Linked
  <2>3. Filed'
    BY <1>12, FiledFrame DEF GroupInv, vars
  <2>. QED
    BY <1>0, <2>2, <2>3 DEF GroupInv
<1>. QED
  BY <1>1, <1>2, <1>3, <1>4, <1>5, <1>6, <1>7, <1>8, <1>9, <1>10, <1>11, <1>12
     DEF GroupNext, stopped

LEMMA GroupInvariant == GroupSpec => []GroupInv
<1>1. GroupInit => GroupInv
  BY GroupInitKeeps
<1>2. GroupInv /\ [GroupNext]_vars => GroupInv'
  BY GroupStep
<1>. QED
  BY <1>1, <1>2, PTL DEF GroupSpec

------------------------------------------------------------------------------

(* A goal that is linked with success, and below which no goal is reported *)
(* as linked in part, holds exactly the objects below it (475-545).        *)
THEOREM ModulesCorrect == GroupSpec => []ModulesWhole
<1>1. GroupInv => ModulesWhole
  BY DEF GroupInv, Filed, Reported, Whole, ModulesWhole
<1>. QED
  BY <1>1, GroupInvariant, PTL

(* What a goal is reported to lack never becomes available: no goal is     *)
(* linked before its inputs (475-515).                                     *)
THEOREM PartialCorrect == GroupSpec => []PartialForGood
<1>1. GroupInv => PartialForGood
  BY DEF GroupInv, Availability, PartialForGood
<1>. QED
  BY <1>1, GroupInvariant, PTL

(* What the links take for available is there and of this run, unless the  *)
(* user interrupted the linking (451, 507-545).                            *)
THEOREM FreshCorrect == GroupSpec => []NothingStale
<1>1. GroupInv => NothingStale
  BY DEF GroupInv, Filed, Fresh, NothingStale
<1>. QED
  BY <1>1, GroupInvariant, PTL

(* The modules that are listed for the next stage exist, and hold nothing  *)
(* but what is below them or of an earlier run (574-587).                  *)
THEOREM ListedCorrect == GroupSpec => []ModulesExist
<1>1. GroupInv => ModulesExist
  <2>1. Goals \subseteq Inputs
    BY DEF Inputs
  <2>. QED
    BY <2>1 DEF GroupInv, Filed, Reported, ModulesExist
<1>. QED
  BY <1>1, GroupInvariant, PTL

==============================================================================
