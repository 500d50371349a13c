------------------------ MODULE DailyCheckpointProofs ------------------------
(***************************************************************************)
(* Proofs about DailyCheckpoint for any number of processes, questions and *)
(* faults.                                                                 *)
(*                                                                         *)
(*   CInv   the chain is linear because every writer checks its parent in  *)
(*          the transaction that appends; a run about to freeze a notice   *)
(*          has seen no result up to its parent, and there is nothing      *)
(*          beyond its parent when it appends.  For any schedule.          *)
(*   OInv   once a deliver run is past its wait, nothing prepares its      *)
(*          checkpoint and nothing will.  For any schedule, as long as     *)
(*          prepare runs are units whose state can be determined.          *)
(*   DInv   a run delivers what it found or made of its own checkpoint.    *)
(*   KInv   with timers only, who can run at the same time as whom.        *)
(*   HInv   who holds a claim, and that every claim is too young to be     *)
(*          taken over by a run that can still be admitted.                *)
(***************************************************************************)
EXTENDS DailyCheckpoint, SequenceTheorems, TLAPS

NoResultUpTo(c, n) ==
  \A v \in DOMAIN chain : v <= n => ~(chain[v].cp = c /\ chain[v].kind = "result")

\* The parent a run works on is a version of the chain, or 0.
ParentExists == \A w \in Workers : job[w].parent <= Len(chain)

\* The last look-up before a notice is frozen found no result.
Rechecked ==
  \A w \in Workers :
    (pc[w] = "finalize" /\ job[w].role = "deliver")
      => NoResultUpTo(job[w].cp, job[w].parent)

CInv ==
  /\ TypeOK
  /\ ParentExists
  /\ Rechecked
  /\ ParentIsPredecessor
  /\ NoNoticeAfterResult

-----------------------------------------------------------------------------
(* The operators the steps are built from *)

LEMMA NoJobType == NoJob \in Jobs /\ NoJob.parent = 0 /\ NoJob.role = "ask"
<1>1. (CHOOSE c \in Checkpoints : TRUE) \in Checkpoints
  BY DayAssumption
<1> QED
  BY <1>1 DEF NoJob, Jobs, Roles

LEMMA ChainFacts ==
  ASSUME TypeOK
  PROVE  Len(chain) \in Nat /\ DOMAIN chain = 1..Len(chain)
  BY LenProperties DEF TypeOK

\* A bound key leads to a version of the chain.
LEMMA BoundIsVersion ==
  ASSUME TypeOK, NEW c, NEW kind, IsBound(c, kind)
  PROVE  Bound(c, kind) \in Nat
<1>1. Bound(c, kind) \in DOMAIN chain
  BY DEF IsBound, Bound
<1> QED
  BY <1>1, ChainFacts

\* A move is the work of a process whose locals stay as they are.
LEMMA MoveIsWork ==
  ASSUME TypeOK, NEW w \in Workers, NEW l, Move(w, l)
  PROVE  Work(w, job[w], l)
  BY DEF TypeOK, Move, Work

LEMMA WorkFacts ==
  ASSUME TypeOK, NEW w \in Workers, NEW j \in Jobs, NEW l \in Labels, Work(w, j, l)
  PROVE  /\ pc' \in [Workers -> Labels] /\ job' \in [Workers -> Jobs]
         /\ pc'[w] = l /\ job'[w] = j
         /\ \A x \in Workers : x # w => pc'[x] = pc[x] /\ job'[x] = job[x]
  BY DEF TypeOK, Work, Goto

\* What every step keeps of the types, whatever it does to chain, pc and job.
OtherTypes ==
  /\ now' \in Nat
  /\ claim' \in [Keys -> Nat \union {Free}]
  /\ fired' \in SUBSET ({"prepare", "deliver"} \X Checkpoints)
  /\ faults' \in 0..MaxFaults

-----------------------------------------------------------------------------
(* Steps that do not touch the chain *)

LEMMA QuietStep ==
  ASSUME CInv, NEW w \in Workers, NEW j \in Jobs, NEW l \in Labels, Work(w, j, l),
         OtherTypes, chain' = chain, j.parent <= Len(chain),
         (l = "finalize" /\ j.role = "deliver") => NoResultUpTo(j.cp, j.parent)
  PROVE  CInv'
<1>1. /\ pc' \in [Workers -> Labels] /\ job' \in [Workers -> Jobs]
      /\ pc'[w] = l /\ job'[w] = j
      /\ \A x \in Workers : x # w => pc'[x] = pc[x] /\ job'[x] = job[x]
  BY WorkFacts DEF CInv
<1>2. TypeOK'
  BY <1>1 DEF CInv, TypeOK, OtherTypes
<1>3. ParentExists'
  BY <1>1 DEF CInv, ParentExists
<1>4. Rechecked'
  BY <1>1 DEF CInv, Rechecked, NoResultUpTo
<1>5. ParentIsPredecessor' /\ NoNoticeAfterResult'
  BY DEF CInv, ParentIsPredecessor, NoNoticeAfterResult
<1> QED
  BY <1>2, <1>3, <1>4, <1>5 DEF CInv

LEMMA LeaveStep ==
  ASSUME CInv, NEW w \in Workers, Leave(w), OtherTypes, chain' = chain
  PROVE  CInv'
<1>1. NoJob.parent <= Len(chain)
  BY NoJobType, ChainFacts DEF CInv
<1> QED
  BY <1>1, NoJobType, QuietStep DEF Leave, Labels

\* A move anywhere but to the end of a notice.
LEMMA MoveStep ==
  ASSUME CInv, NEW w \in Workers, NEW l \in Labels, Move(w, l), OtherTypes,
         chain' = chain,
         (l = "finalize" /\ job[w].role = "deliver")
           => NoResultUpTo(job[w].cp, job[w].parent)
  PROVE  CInv'
<1>1. Work(w, job[w], l) /\ job[w] \in Jobs /\ job[w].parent <= Len(chain)
  BY MoveIsWork DEF CInv, TypeOK, ParentExists
<1> QED
  BY <1>1, QuietStep

LEMMA FoundStep ==
  ASSUME CInv, NEW w \in Workers, NEW kind, IsBound(job[w].cp, kind),
         Found(w, kind), OtherTypes, chain' = chain
  PROVE  CInv'
<1>1. CASE job[w].role = "prepare"
  BY <1>1, LeaveStep DEF Found
<1>2. CASE job[w].role # "prepare"
  <2> DEFINE j == [job[w] EXCEPT !.product = Bound(job[w].cp, kind)]
             l == IF job[w].held THEN "release" ELSE "dispatch"
  <2>1. j \in Jobs /\ j.parent = job[w].parent
    BY BoundIsVersion DEF CInv, TypeOK, Jobs
  <2>2. j.parent <= Len(chain)
    BY <2>1 DEF CInv, ParentExists
  <2>3. l \in Labels /\ l # "finalize" /\ Work(w, j, l)
    BY <1>2 DEF Found, Labels
  <2> QED
    BY <2>1, <2>2, <2>3, QuietStep
<1> QED
  BY <1>1, <1>2

LEMMA LookUpStep ==
  ASSUME CInv, NEW w \in Workers, NEW kind, NEW l \in Labels, LookUp(w, kind, l),
         (l = "finalize" /\ ~IsBound(job[w].cp, kind)) => kind = "result"
  PROVE  CInv'
<1>1. OtherTypes /\ chain' = chain
  BY DEF LookUp, OtherTypes, CInv, TypeOK
<1>2. CASE IsBound(job[w].cp, kind)
  BY <1>1, <1>2, FoundStep DEF LookUp
<1>3. CASE ~IsBound(job[w].cp, kind)
  <2>1. l = "finalize" => NoResultUpTo(job[w].cp, job[w].parent)
    BY <1>3 DEF IsBound, NoResultUpTo
  <2> QED
    BY <1>1, <1>3, <2>1, MoveStep DEF LookUp
<1> QED
  BY <1>2, <1>3

-----------------------------------------------------------------------------
(* Steps that write the chain *)

\* Appending a version generated on the latest one keeps the chain linear, and
\* a notice is appended only where no result was.
LEMMA AppendStep ==
  ASSUME CInv, NEW w \in Workers, NEW j \in Jobs, NEW l \in Labels, Work(w, j, l),
         l # "finalize", j.parent <= Len(chain) + 1, OtherTypes,
         NEW c \in Checkpoints, NEW kind \in Kinds, NEW phase \in Phases,
         NEW n \in Nat, IsLatest(n),
         chain' = Append(chain, Version(c, kind, n, phase)),
         kind = "notice" => NoResultUpTo(c, n)
  PROVE  CInv'
<1> DEFINE new == Version(c, kind, n, phase)
<1>1. /\ pc' \in [Workers -> Labels] /\ job' \in [Workers -> Jobs]
      /\ pc'[w] = l /\ job'[w] = j
      /\ \A x \in Workers : x # w => pc'[x] = pc[x] /\ job'[x] = job[x]
  BY WorkFacts DEF CInv
<1>2. new \in Versions /\ new.cp = c /\ new.kind = kind /\ new.parent = n
  BY DEF Version, Versions
<1>3. chain \in Seq(Versions) /\ Len(chain) = n /\ DOMAIN chain = 1..n
  BY ChainFacts DEF CInv, TypeOK, IsLatest
<1>4. /\ chain' \in Seq(Versions) /\ Len(chain') = n + 1
      /\ \A v \in 1..n : chain'[v] = chain[v]
      /\ chain'[n + 1] = new
  BY <1>2, <1>3, AppendProperties
<1>5. DOMAIN chain' = 1..(n + 1)
  BY <1>4, LenProperties
<1>6. TypeOK'
  BY <1>1, <1>4 DEF TypeOK, OtherTypes
<1>7. ParentExists'
  <2> SUFFICES ASSUME NEW x \in Workers PROVE job'[x].parent <= Len(chain')
    BY DEF ParentExists
  <2>1. CASE x = w
    BY <2>1, <1>1, <1>3, <1>4
  <2>2. CASE x # w
    <3>1. job'[x].parent = job[x].parent /\ job[x].parent \in Nat
          /\ job[x].parent <= n
      BY <2>2, <1>1, <1>3 DEF CInv, ParentExists, TypeOK, Jobs
    <3> QED
      BY <3>1, <1>4
  <2> QED
    BY <2>1, <2>2
<1>8. Rechecked'
  <2> SUFFICES ASSUME NEW x \in Workers, pc'[x] = "finalize", job'[x].role = "deliver",
                      NEW v \in DOMAIN chain', v <= job'[x].parent
               PROVE  ~(chain'[v].cp = job'[x].cp /\ chain'[v].kind = "result")
    BY DEF Rechecked, NoResultUpTo
  <2>1. x # w /\ job'[x] = job[x] /\ pc[x] = "finalize"
    BY <1>1
  <2>2. job[x].parent \in Nat /\ job[x].parent <= n
    BY <1>3 DEF CInv, ParentExists, TypeOK, Jobs
  <2>3. v \in 1..n
    BY <2>1, <2>2, <1>5
  <2>4. ~(chain[v].cp = job[x].cp /\ chain[v].kind = "result")
    BY <2>1, <2>3, <1>3 DEF CInv, Rechecked, NoResultUpTo
  <2> QED
    BY <2>1, <2>3, <2>4, <1>4
<1>9. ParentIsPredecessor'
  <2> SUFFICES ASSUME NEW v \in 1..(n + 1) PROVE chain'[v].parent = v - 1
    BY <1>5 DEF ParentIsPredecessor
  <2>1. CASE v = n + 1
    BY <2>1, <1>2, <1>4
  <2>2. CASE v \in 1..n
    BY <2>2, <1>3, <1>4 DEF CInv, ParentIsPredecessor
  <2>3. v = n + 1 \/ v \in 1..n
    OBVIOUS
  <2> QED
    BY <2>1, <2>2, <2>3
<1>10. NoNoticeAfterResult'
  <2> SUFFICES ASSUME NEW u \in 1..(n + 1), NEW v \in 1..(n + 1),
                      chain'[v].kind = "notice", chain'[u].kind = "result",
                      chain'[u].cp = chain'[v].cp
               PROVE  v < u
    BY <1>5 DEF NoNoticeAfterResult
  <2>1. CASE v = n + 1
    <3>1. u \in 1..n
      BY <2>1, <1>2, <1>4
    <3>2. ~(chain[u].cp = c /\ chain[u].kind = "result")
      BY <3>1, <2>1, <1>2, <1>3, <1>4 DEF NoResultUpTo
    <3> QED
      BY <3>1, <3>2, <2>1, <1>2, <1>4
  <2>2. CASE v \in 1..n /\ u \in 1..n
    BY <2>2, <1>3, <1>4 DEF CInv, NoNoticeAfterResult
  <2>3. CASE v \in 1..n /\ u = n + 1
    BY <2>3
  <2> QED
    BY <2>1, <2>2, <2>3
<1> QED
  BY <1>6, <1>7, <1>8, <1>9, <1>10 DEF CInv

\* A dispatch changes how far one delivery got, nothing else of the chain.
LEMMA PhaseStep ==
  ASSUME CInv, NEW w \in Workers, NEW j \in Jobs, NEW l \in Labels, Work(w, j, l),
         l # "finalize", j.parent <= Len(chain), OtherTypes,
         NEW i \in Nat, NEW phase, i \in DOMAIN chain => phase \in Phases,
         chain' = [chain EXCEPT ![i].phase = phase]
  PROVE  CInv'
<1>1. /\ pc' \in [Workers -> Labels] /\ job' \in [Workers -> Jobs]
      /\ pc'[w] = l /\ job'[w] = j
      /\ \A x \in Workers : x # w => pc'[x] = pc[x] /\ job'[x] = job[x]
  BY WorkFacts DEF CInv
<1>2. /\ chain' \in Seq(Versions) /\ Len(chain') = Len(chain)
      /\ DOMAIN chain' = DOMAIN chain
      /\ \A v \in DOMAIN chain : /\ chain'[v].cp = chain[v].cp
                                 /\ chain'[v].kind = chain[v].kind
                                 /\ chain'[v].parent = chain[v].parent
  <2>1. chain \in Seq(Versions) /\ DOMAIN chain = 1..Len(chain)
    BY ChainFacts DEF CInv, TypeOK
  <2>2. CASE i \notin DOMAIN chain
    <3>1. chain' = chain
      BY <2>1, <2>2
    <3> QED
      BY <3>1, <2>1
  <2>3. CASE i \in DOMAIN chain
    <3> DEFINE e == [chain[i] EXCEPT !.phase = phase]
    <3>1. chain[i] \in Versions
      BY <2>1, <2>3
    <3>2. /\ e \in Versions /\ e.cp = chain[i].cp /\ e.kind = chain[i].kind
          /\ e.parent = chain[i].parent
      BY <3>1, <2>3 DEF Versions
    <3>3. chain' = [chain EXCEPT ![i] = e]
      OBVIOUS
    <3> HIDE DEF e
    <3>4. /\ chain' \in Seq(Versions) /\ Len(chain') = Len(chain)
          /\ \A v \in 1..Len(chain) : chain'[v] = IF v = i THEN e ELSE chain[v]
      BY <3>2, <3>3, <2>1, <2>3, ExceptSeq
    <3>5. DOMAIN chain' = 1..Len(chain)
      BY <3>4, LenProperties
    <3> QED
      BY <3>2, <3>4, <3>5, <2>1
  <2> QED
    BY <2>2, <2>3
<1>3. TypeOK'
  BY <1>1, <1>2 DEF TypeOK, OtherTypes
<1>4. ParentExists'
  BY <1>1, <1>2 DEF CInv, ParentExists
<1>5. Rechecked'
  BY <1>1, <1>2 DEF CInv, Rechecked, NoResultUpTo
<1>6. ParentIsPredecessor' /\ NoNoticeAfterResult'
  BY <1>2 DEF CInv, ParentIsPredecessor, NoNoticeAfterResult
<1> QED
  BY <1>3, <1>4, <1>5, <1>6 DEF CInv

-----------------------------------------------------------------------------
(* The actions *)

LEMMA InitCInv == Init => CInv
<1> SUFFICES ASSUME Init PROVE CInv
  OBVIOUS
<1>1. chain \in Seq(Versions) /\ Len(chain) = 0 /\ DOMAIN chain = {}
  BY DEF Init
<1>2. TypeOK
  BY <1>1, NoJobType, DayAssumption DEF Init, TypeOK, Labels
<1>3. ParentExists
  BY <1>1, NoJobType DEF Init, ParentExists
<1>4. Rechecked /\ ParentIsPredecessor /\ NoNoticeAfterResult
  BY <1>1 DEF Init, Rechecked, ParentIsPredecessor, NoNoticeAfterResult
<1> QED
  BY <1>2, <1>3, <1>4 DEF CInv

LEMMA StartStep ==
  ASSUME CInv, NEW w \in Workers, NEW c \in Checkpoints,
         StartPrepare(w, c) \/ StartDeliver(w, c)
  PROVE  CInv'
<1>1. PICK role \in {"prepare", "deliver"} :
        /\ Fires(w, role, c) /\ Work(w, NewJob(role, c), "find")
        /\ UNCHANGED <<now, chain, claim, faults>>
  BY DEF StartPrepare, StartDeliver
<1>2. NewJob(role, c) \in Jobs /\ NewJob(role, c).parent = 0
  BY DEF NewJob, Jobs, Roles, CInv, TypeOK
<1>3. OtherTypes
  BY <1>1 DEF OtherTypes, Fires, CInv, TypeOK
<1>4. NewJob(role, c).parent <= Len(chain)
  BY <1>2, ChainFacts DEF CInv
<1> QED
  BY <1>1, <1>2, <1>3, <1>4, QuietStep DEF Labels

LEMMA ClockFacts ==
  ASSUME CInv, NEW w \in Workers
  PROVE  /\ [job[w] EXCEPT !.clock = ClockOf(w)] \in Jobs
         /\ [job[w] EXCEPT !.clock = ClockOf(w)].parent = job[w].parent
<1>1. job[w] \in Jobs /\ now \in Nat
  BY DEF CInv, TypeOK
<1>2. ClockOf(w) \in Nat
  BY <1>1 DEF ClockOf, Jobs
<1> QED
  BY <1>1, <1>2 DEF Jobs

LEMMA FindStep ==
  ASSUME CInv, NEW w \in Workers, Find(w)
  PROVE  CInv'
<1> DEFINE j == [job[w] EXCEPT !.clock = ClockOf(w)]
           l == IF job[w].role = "prepare" THEN "acquire" ELSE "wait"
<1>1. OtherTypes /\ chain' = chain
  BY DEF Find, OtherTypes, CInv, TypeOK
<1>2. CASE IsBound(job[w].cp, "result")
  BY <1>1, <1>2, FoundStep DEF Find
<1>3. CASE ~IsBound(job[w].cp, "result")
  <2>1. Work(w, j, l) /\ l \in Labels /\ l # "finalize"
    BY <1>3 DEF Find, Labels
  <2>2. j \in Jobs /\ j.parent <= Len(chain)
    BY ClockFacts DEF CInv, ParentExists
  <2> HIDE DEF j, l
  <2> QED
    BY <1>1, <2>1, <2>2, QuietStep
<1> QED
  BY <1>2, <1>3

LEMMA FaultType ==
  ASSUME CInv, Fault \/ faults' = faults
  PROVE  faults' \in 0..MaxFaults
<1>1. faults \in 0..MaxFaults /\ MaxFaults \in Nat
  BY DayAssumption DEF CInv, TypeOK
<1> QED
  BY <1>1 DEF Fault

LEMMA WaitStep ==
  ASSUME CInv, NEW w \in Workers, Waited(w) \/ StateCheckFails(w)
  PROVE  CInv'
<1> DEFINE j == [job[w] EXCEPT !.clock = ClockOf(w)]
<1>1. j \in Jobs /\ j.parent = job[w].parent
  BY ClockFacts
<1>2. Work(w, j, "refind") /\ chain' = chain
  BY DEF Waited, StateCheckFails, AfterWaiting
<1>3. OtherTypes
  <2>1. UNCHANGED <<now, claim, fired>>
    BY DEF Waited, StateCheckFails
  <2>2. faults' \in 0..MaxFaults
    BY FaultType DEF Waited, StateCheckFails
  <2> QED
    BY <2>1, <2>2 DEF OtherTypes, CInv, TypeOK
<1>4. j.parent <= Len(chain)
  BY <1>1 DEF CInv, ParentExists
<1> QED
  BY <1>1, <1>2, <1>3, <1>4, QuietStep DEF Labels

LEMMA AcquireStep ==
  ASSUME CInv, NEW w \in Workers, Acquire(w)
  PROVE  CInv'
<1>1. CASE Acquirable(w)
  <2> DEFINE j == [job[w] EXCEPT !.held = TRUE]
  <2>1. j \in Jobs /\ j.parent = job[w].parent /\ job[w].clock \in Nat
    BY DEF CInv, TypeOK, Jobs
  <2>2. OtherTypes /\ Work(w, j, "read") /\ chain' = chain
    BY <1>1, <2>1 DEF Acquire, OtherTypes, CInv, TypeOK
  <2>3. j.parent <= Len(chain)
    BY <2>1 DEF CInv, ParentExists
  <2> QED
    BY <2>1, <2>2, <2>3, QuietStep DEF Labels
<1>2. CASE ~Acquirable(w)
  <2>1. OtherTypes /\ chain' = chain
    BY <1>2 DEF Acquire, OtherTypes, CInv, TypeOK
  <2> QED
    BY <1>2, <2>1, LeaveStep, MoveStep DEF Acquire, Labels
<1> QED
  BY <1>1, <1>2

LEMMA ReadStep ==
  ASSUME CInv, NEW w \in Workers, ReadParent(w)
  PROVE  CInv'
<1> DEFINE j == [job[w] EXCEPT !.parent = Len(chain)]
           l == IF job[w].role = "prepare" THEN "generate" ELSE "recheck"
<1>1. j \in Jobs /\ j.parent = Len(chain) /\ Len(chain) \in Nat
  BY ChainFacts DEF CInv, TypeOK, Jobs
<1>2. OtherTypes /\ Work(w, j, l) /\ chain' = chain
  BY DEF ReadParent, OtherTypes, CInv, TypeOK
<1>3. l \in Labels /\ l # "finalize"
  BY DEF Labels
<1>4. j.parent <= Len(chain)
  BY <1>1
<1> QED
  BY <1>1, <1>2, <1>3, <1>4, QuietStep

LEMMA GenerateStep ==
  ASSUME CInv, NEW w \in Workers, Generate(w)
  PROVE  CInv'
<1>1. OtherTypes /\ chain' = chain
  BY DEF Generate, Generated, GenerationFails, OtherTypes, CInv, TypeOK
<1> QED
  BY <1>1, MoveStep, LeaveStep DEF Generate, Generated, GenerationFails, Labels

LEMMA FinalizeStep ==
  ASSUME CInv, NEW w \in Workers, Finalize(w)
  PROVE  CInv'
<1> DEFINE c == job[w].cp
           n == job[w].parent
           kind == KindOf(w)
<1>1. /\ job[w] \in Jobs /\ c \in Checkpoints /\ n \in Nat /\ kind \in Kinds
      /\ pc[w] = "finalize" /\ job[w].role # "ask"
  BY DEF CInv, TypeOK, Jobs, KindOf, Kinds, Finalize
<1>2. OtherTypes
  BY DEF Finalize, OtherTypes, CInv, TypeOK
<1>3. CASE IsBound(c, kind)
  BY <1>2, <1>3, FoundStep DEF Finalize
<1>4. CASE ~IsBound(c, kind) /\ ~IsLatest(n)
  <2> DEFINE l == IF job[w].role = "prepare" THEN "release" ELSE "lost"
  <2>1. Move(w, l) /\ chain' = chain
    BY <1>4 DEF Finalize
  <2>2. l \in Labels /\ l # "finalize"
    BY DEF Labels
  <2> QED
    BY <1>2, <2>1, <2>2, MoveStep
<1>5. CASE ~IsBound(c, kind) /\ IsLatest(n)
  <2>1. chain' = Append(chain, Version(c, kind, n, "pending"))
    BY <1>5 DEF Finalize
  <2>2. kind = "notice" => NoResultUpTo(c, n)
    BY <1>1 DEF CInv, Rechecked, KindOf, TypeOK, Jobs, Roles
  <2>3. "pending" \in Phases
    BY DEF Phases
  <2>4. CASE job[w].role = "prepare"
    <3>1. Work(w, NoJob, "idle")
      BY <1>5, <2>4 DEF Finalize, Leave
    <3>2. NoJob.parent <= Len(chain) + 1 /\ NoJob \in Jobs
      BY NoJobType, ChainFacts DEF CInv
    <3> QED
      BY <1>1, <1>2, <1>5, <2>1, <2>2, <2>3, <3>1, <3>2, AppendStep DEF Labels
  <2>5. CASE job[w].role = "deliver"
    <3> DEFINE j == [job[w] EXCEPT !.product = Len(chain) + 1]
    <3>1. Work(w, j, "release")
      BY <1>5, <2>5 DEF Finalize
    <3>2. j \in Jobs /\ j.parent = n /\ Len(chain) \in Nat
      BY <1>1, ChainFacts DEF CInv, Jobs
    <3>3. j.parent <= Len(chain) + 1
      BY <1>1, <1>5, <3>2 DEF IsLatest
    <3> HIDE DEF j
    <3> QED
      BY <1>1, <1>2, <1>5, <2>1, <2>2, <2>3, <3>1, <3>2, <3>3, AppendStep DEF Labels
  <2> QED
    BY <1>1, <2>4, <2>5 DEF Jobs, Roles
<1> QED
  BY <1>3, <1>4, <1>5

LEMMA LostNoticeStep ==
  ASSUME CInv, NEW w \in Workers, LostNotice(w)
  PROVE  CInv'
<1>1. OtherTypes /\ chain' = chain
  BY DEF LostNotice, OtherTypes, CInv, TypeOK
<1> QED
  BY <1>1, FoundStep, MoveStep, LeaveStep DEF LostNotice, Labels

LEMMA ReleaseStep ==
  ASSUME CInv, NEW w \in Workers, Release(w)
  PROVE  CInv'
<1> DEFINE j == [job[w] EXCEPT !.held = FALSE]
<1>1. OtherTypes /\ chain' = chain
  BY DEF Release, OtherTypes, CInv, TypeOK
<1>2. j \in Jobs /\ j.parent = job[w].parent
  BY DEF CInv, TypeOK, Jobs
<1>3. j.parent <= Len(chain)
  BY <1>2 DEF CInv, ParentExists
<1>4. Leave(w) \/ Work(w, j, "dispatch")
  BY DEF Release
<1> HIDE DEF j
<1> QED
  BY <1>1, <1>2, <1>3, <1>4, LeaveStep, QuietStep DEF Labels

LEMMA DispatchStep ==
  ASSUME CInv, NEW w \in Workers, Dispatch(w)
  PROVE  CInv'
<1> DEFINE i == job[w].product
<1>1. PICK p \in DispatchTo(chain[i].phase) :
        /\ chain' = [chain EXCEPT ![i].phase = p]
        /\ Move(w, "retry") \/ Leave(w)
  BY DEF Dispatch
<1>2. OtherTypes
  BY DEF Dispatch, OtherTypes, CInv, TypeOK
<1>3. i \in Nat /\ job[w] \in Jobs /\ job[w].parent <= Len(chain)
  BY DEF CInv, TypeOK, Jobs, ParentExists
<1>4. i \in DOMAIN chain => p \in Phases
  <2> SUFFICES ASSUME i \in DOMAIN chain PROVE p \in Phases
    OBVIOUS
  <2>1. chain[i] \in Versions
    BY ChainFacts DEF CInv, TypeOK
  <2>2. chain[i].phase \in Phases
    BY <2>1 DEF Versions
  <2> QED
    BY <1>1, <2>2 DEF DispatchTo, Phases
<1>5. NoJob \in Jobs /\ NoJob.parent <= Len(chain)
  BY NoJobType, ChainFacts DEF CInv
<1>6. Work(w, job[w], "retry") \/ Work(w, NoJob, "idle")
  BY <1>1, MoveIsWork DEF CInv, Leave
<1> HIDE DEF i
<1>7. CASE Work(w, job[w], "retry")
  BY <1>1, <1>2, <1>3, <1>4, <1>7, PhaseStep DEF Labels
<1>8. CASE Work(w, NoJob, "idle")
  BY <1>1, <1>2, <1>3, <1>4, <1>5, <1>8, PhaseStep DEF Labels
<1> QED
  BY <1>6, <1>7, <1>8

LEMMA RetryStep ==
  ASSUME CInv, NEW w \in Workers, Retry(w)
  PROVE  CInv'
<1> DEFINE j == [job[w] EXCEPT !.retry = TRUE, !.clock = now,
                               !.product = 0, !.parent = 0]
<1>1. OtherTypes /\ chain' = chain
  BY DEF Retry, OtherTypes, CInv, TypeOK
<1>2. j \in Jobs /\ j.parent = 0
  BY DEF CInv, TypeOK, Jobs
<1>3. j.parent <= Len(chain)
  BY <1>2, ChainFacts DEF CInv
<1>4. Leave(w) \/ Work(w, j, "find")
  BY DEF Retry
<1> HIDE DEF j
<1> QED
  BY <1>1, <1>2, <1>3, <1>4, LeaveStep, QuietStep DEF Labels

LEMMA AnswerStep ==
  ASSUME CInv, NEW w \in Workers, Answer(w)
  PROVE  CInv'
<1>1. OtherTypes /\ Leave(w)
  BY DEF Answer, OtherTypes, CInv, TypeOK
<1>2. CASE IsLatest(job[w].parent)
  <2>1. chain' = Append(chain, Version(job[w].cp, "ask", job[w].parent, "none"))
    BY <1>2 DEF Answer
  <2>2. job[w].cp \in Checkpoints /\ job[w].parent \in Nat
    BY DEF CInv, TypeOK, Jobs
  <2>3. "ask" \in Kinds /\ "none" \in Phases /\ "idle" \in Labels
    BY DEF Kinds, Phases, Labels
  <2>4. NoJob \in Jobs /\ NoJob.parent <= Len(chain) + 1
    BY NoJobType, ChainFacts DEF CInv
  <2> QED
    BY <1>1, <1>2, <2>1, <2>2, <2>3, <2>4, AppendStep DEF Leave
<1>3. CASE ~IsLatest(job[w].parent)
  BY <1>1, <1>3, LeaveStep DEF Answer
<1> QED
  BY <1>2, <1>3

LEMMA AskStep ==
  ASSUME CInv, NEW w \in Workers, Ask(w)
  PROVE  CInv'
<1> DEFINE j == [NoJob EXCEPT !.parent = Len(chain), !.since = now]
<1>1. OtherTypes /\ chain' = chain /\ Work(w, j, "generate")
  BY DEF Ask, OtherTypes, CInv, TypeOK
<1>2. j \in Jobs /\ j.parent = Len(chain) /\ Len(chain) \in Nat
  BY NoJobType, ChainFacts DEF CInv, TypeOK, Jobs
<1>3. j.parent <= Len(chain)
  BY <1>2
<1> HIDE DEF j
<1> QED
  BY <1>1, <1>2, <1>3, QuietStep DEF Labels

\* Processes that die or fail, and time.
LEMMA OtherStep ==
  ASSUME CInv, NEW w \in Workers, Killed(w) \/ Crash(w) \/ StoreFails(w)
  PROVE  CInv'
<1>1. OtherTypes /\ chain' = chain
  BY DayAssumption DEF Killed, Crash, StoreFails, Fault, OtherTypes, CInv, TypeOK
<1> QED
  BY <1>1, LeaveStep, MoveStep DEF Killed, Crash, StoreFails, Labels

LEMMA UnchangedStep ==
  ASSUME CInv, UNCHANGED <<chain, claim, fired, pc, job, faults>>, now' \in Nat
  PROVE  CInv'
<1>1. TypeOK'
  BY DEF CInv, TypeOK
<1> QED
  BY <1>1 DEF CInv, ParentExists, Rechecked, NoResultUpTo, ParentIsPredecessor,
              NoNoticeAfterResult

LEMMA LookUpSteps ==
  ASSUME CInv, NEW w \in Workers,
         Refind(w) \/ FindNotice(w) \/ Recheck(w) \/ Lost(w)
  PROVE  CInv'
<1>1. PICK kind \in {"result", "notice"}, l \in Labels :
        LookUp(w, kind, l) /\ (l = "finalize" => kind = "result")
  BY DEF Refind, FindNotice, Recheck, Lost, Labels
<1> QED
  BY <1>1, LookUpStep

LEMMA StepCInv == CInv /\ [Next]_vars => CInv'
<1> SUFFICES ASSUME CInv, [Next]_vars PROVE CInv'
  OBVIOUS
<1>1. CASE UNCHANGED vars
  <2>1. now' \in Nat
    BY <1>1 DEF vars, CInv, TypeOK
  <2> QED
    BY <1>1, <2>1, UnchangedStep DEF vars
<1>2. CASE Tick
  <2>1. now' \in Nat
    BY <1>2 DEF Tick, CInv, TypeOK
  <2> QED
    BY <1>2, <2>1, UnchangedStep DEF Tick
<1>3. ASSUME NEW w \in Workers, NEW c \in Checkpoints,
             StartPrepare(w, c) \/ StartDeliver(w, c)
      PROVE  CInv'
  BY <1>3, StartStep
<1>4. ASSUME NEW w \in Workers, Step(w) PROVE CInv'
  BY <1>4, FindStep, LookUpSteps, WaitStep, AcquireStep, ReadStep, FinalizeStep,
     LostNoticeStep, ReleaseStep, DispatchStep, RetryStep, AnswerStep DEF Step
<1>5. ASSUME NEW w \in Workers, Generate(w) PROVE CInv'
  BY <1>5, GenerateStep
<1>6. ASSUME NEW w \in Workers, Killed(w) \/ Ask(w) \/ FailStep(w) PROVE CInv'
  BY <1>6, OtherStep, AskStep, WaitStep DEF FailStep
<1> QED
  BY <1>1, <1>2, <1>3, <1>4, <1>5, <1>6 DEF Next

-----------------------------------------------------------------------------
(* The theorems *)

\* CInv holds throughout every behaviour of the specification.
THEOREM Inductive == Spec => []CInv
<1>1. Init => CInv
  BY InitCInv
<1>2. CInv /\ [Next]_vars => CInv'
  BY StepCInv
<1> QED
  BY <1>1, <1>2, PTL DEF Spec

\* Chain, claims and the locals of the runs keep their types.
THEOREM Typing == Spec => []TypeOK
<1>1. CInv => TypeOK
  BY DEF CInv
<1> QED
  BY <1>1, Inductive, PTL

\* The day's chain never forks, however prepare, deliver and on-demand runs
\* overlap, fail and are killed (append_daily_workspace_version).
THEOREM ChainIsLinear == Spec => []ParentIsPredecessor
<1>1. CInv => ParentIsPredecessor
  BY DEF CInv
<1> QED
  BY <1>1, Inductive, PTL

\* No failure notice is frozen after the result it stands in for
\* (_freeze_delivery_fallback).
THEOREM NoticeIsHonest == Spec => []NoNoticeAfterResult
<1>1. CInv => NoNoticeAfterResult
  BY DEF CInv
<1> QED
  BY <1>1, Inductive, PTL

-----------------------------------------------------------------------------
(* Constants, locals and versions *)

LEMMA NatConstants ==
  /\ \A c \in Checkpoints : PrepareAt[c] \in Nat /\ TargetAt[c] \in Nat
  /\ Window \in Nat /\ PrepareLimit \in Nat /\ DeliverLimit \in Nat /\ Ttl \in Nat
  BY DayAssumption

LEMMA JobFacts ==
  ASSUME TypeOK, NEW w \in Workers
  PROVE  /\ job[w] \in Jobs /\ job[w].cp \in Checkpoints /\ job[w].clock \in Nat
         /\ job[w].since \in Nat /\ job[w].role \in Roles /\ job[w].held \in BOOLEAN
         /\ job[w].parent \in Nat /\ job[w].product \in Nat
         /\ now \in Nat /\ KindOf(w) \in Kinds /\ KeyOf(w) \in Keys
         /\ KeyOf(w) = <<job[w].cp, KindOf(w)>>
<1>1. job[w] \in Jobs /\ now \in Nat
  BY DEF TypeOK
<1>2. KindOf(w) \in {"result", "notice"} /\ KeyOf(w) = <<job[w].cp, KindOf(w)>>
  BY DEF KindOf, KeyOf
<1> QED
  BY <1>1, <1>2 DEF Jobs, Keys, Kinds

LEMMA VersionFacts ==
  ASSUME TypeOK, NEW v \in DOMAIN chain
  PROVE  /\ chain[v] \in Versions /\ chain[v].cp \in Checkpoints
         /\ chain[v].kind \in Kinds /\ chain[v].phase \in Phases
<1>1. chain[v] \in Versions
  BY ChainFacts DEF TypeOK
<1> QED
  BY <1>1 DEF Versions

\* What a run appends under its key is what the key is bound to.
LEMMA AppendBinds ==
  ASSUME TypeOK, NEW c \in Checkpoints, NEW kind \in Kinds, NEW n \in Nat,
         NEW phase \in Phases, chain' = Append(chain, Version(c, kind, n, phase))
  PROVE  \E v \in DOMAIN chain' : chain'[v].cp = c /\ chain'[v].kind = kind
<1> DEFINE new == Version(c, kind, n, phase)
<1>1. new \in Versions /\ new.cp = c /\ new.kind = kind
  BY DEF Version, Versions
<1>2. chain \in Seq(Versions) /\ Len(chain) \in Nat
  BY ChainFacts DEF TypeOK
<1> HIDE DEF new
<1>3. /\ chain' \in Seq(Versions) /\ Len(chain') = Len(chain) + 1
      /\ chain'[Len(chain) + 1] = new
  BY <1>1, <1>2, AppendProperties DEF new
<1>4. Len(chain) + 1 \in DOMAIN chain'
  BY <1>2, <1>3, LenProperties
<1> QED
  BY <1>1, <1>3, <1>4

-----------------------------------------------------------------------------
(* What a step does to a run *)

\* Steps a deliver run takes only after it waited for the prepare unit, and
\* steps that follow the reading of the parent version.
Waiting == {"refind", "notice", "acquire", "read", "recheck", "finalize"}
Writing == {"recheck", "generate", "finalize"}

\* A version once in the chain keeps everything but the phase of its obligation.
Kept(v) ==
  /\ chain'[v].cp = chain[v].cp /\ chain'[v].kind = chain[v].kind
  /\ chain'[v].parent = chain[v].parent
  /\ chain'[v].phase \in DispatchTo(chain[v].phase)

SameVersions == DOMAIN chain' = DOMAIN chain /\ \A v \in DOMAIN chain : Kept(v)

\* What a run at its last step appends: generated on the latest version, and
\* under a key that was not bound.
Appends(w) ==
  /\ pc[w] = "finalize" /\ pc'[w] \in {"idle", "release"} /\ IsLatest(job[w].parent)
  /\ \E kind \in Kinds, phase \in {"none", "pending"} :
       /\ chain' = Append(chain, Version(job[w].cp, kind, job[w].parent, phase))
       /\ kind = IF job[w].role = "ask" THEN "ask" ELSE KindOf(w)
       /\ phase = IF job[w].role = "ask" THEN "none" ELSE "pending"
       /\ job[w].role # "ask" => ~IsBound(job[w].cp, kind)

\* The product a run has found or made; it has one when it dispatches.
Carries(w, j, l) ==
  /\ \/ j.product \in {0, job[w].product}
     \/ \E kind \in {"result", "notice"} :
          IsBound(job[w].cp, kind) /\ j.product = Bound(job[w].cp, kind)
     \/ Appends(w) /\ job[w].role # "ask" /\ j.product = Len(chain) + 1
  /\ j.product # 0 => j.cp = job[w].cp
  /\ l = "dispatch" => j.product # 0

\* A run goes on with its own role and checkpoint, or ends.
Continues(w, j, l) ==
  /\ Work(w, j, l) /\ now' = now /\ fired' = fired
  /\ l # "idle" => /\ pc[w] # "idle" /\ j.role = job[w].role /\ j.cp = job[w].cp
                   /\ j.since = job[w].since
  /\ (l \in Waiting /\ j.role = "deliver") => pc[w] \in Waiting
  /\ l \in Writing => \/ j.parent = Len(chain)
                      \/ pc[w] \in Writing /\ j.parent = job[w].parent
  /\ j.role = "deliver" => l # "generate"
  /\ Carries(w, j, l)

LEMMA ChainStays ==
  ASSUME chain' = chain
  PROVE  SameVersions
<1>1. \A phase : phase \in DispatchTo(phase)
  BY DEF DispatchTo
<1> QED
  BY <1>1 DEF SameVersions, Kept

LEMMA ContinueLeave ==
  ASSUME NEW w \in Workers, Leave(w), now' = now, fired' = fired
  PROVE  \E j \in Jobs, l \in Labels : Continues(w, j, l)
<1>1. NoJob \in Jobs /\ "idle" \in Labels
  BY NoJobType DEF Labels
<1>2. Continues(w, NoJob, "idle")
  BY NoJobType DEF NoJob, Continues, Carries, Leave, Waiting, Writing
<1> QED
  BY <1>1, <1>2

LEMMA ContinueMove ==
  ASSUME TypeOK, NEW w \in Workers, NEW l \in Labels, Move(w, l), now' = now,
         fired' = fired, pc[w] # "idle",
         (l \in Waiting /\ job[w].role = "deliver") => pc[w] \in Waiting,
         l \in Writing => pc[w] \in Writing, l \notin {"generate", "dispatch"}
  PROVE  \E j \in Jobs, k \in Labels : Continues(w, j, k)
<1>1. Work(w, job[w], l) /\ job[w] \in Jobs
  BY MoveIsWork, JobFacts
<1>2. Continues(w, job[w], l)
  BY <1>1 DEF Continues, Carries
<1> QED
  BY <1>1, <1>2

LEMMA ContinueFound ==
  ASSUME TypeOK, NEW w \in Workers, NEW kind \in {"result", "notice"},
         IsBound(job[w].cp, kind), Found(w, kind), now' = now, fired' = fired, pc[w] # "idle"
  PROVE  \E j \in Jobs, l \in Labels : Continues(w, j, l)
<1>1. CASE job[w].role = "prepare"
  BY <1>1, ContinueLeave DEF Found
<1>2. CASE job[w].role # "prepare"
  <2>1. PICK j : j = [job[w] EXCEPT !.product = Bound(job[w].cp, kind)]
    OBVIOUS
  <2>2. PICK l : l = IF job[w].held THEN "release" ELSE "dispatch"
    OBVIOUS
  <2>3. /\ j \in Jobs /\ j.role = job[w].role /\ j.cp = job[w].cp
        /\ j.since = job[w].since
    BY <2>1, BoundIsVersion, JobFacts DEF Jobs
  <2>4. /\ Work(w, j, l) /\ l \in Labels /\ l \notin Waiting /\ l \notin Writing
        /\ l # "generate"
    BY <1>2, <2>1, <2>2 DEF Found, Labels, Waiting, Writing
  <2>5. Bound(job[w].cp, kind) # 0
    BY BoundIsVersion, ChainFacts DEF IsBound, Bound
  <2>6. Continues(w, j, l)
    BY <2>1, <2>3, <2>4, <2>5 DEF Continues, Carries
  <2> QED
    BY <2>3, <2>4, <2>6
<1> QED
  BY <1>1, <1>2

LEMMA ContinueLookUp ==
  ASSUME TypeOK, NEW w \in Workers, NEW kind \in {"result", "notice"}, NEW l \in Labels, LookUp(w, kind, l),
         pc[w] # "idle",
         (l \in Waiting /\ job[w].role = "deliver") => pc[w] \in Waiting,
         l \in Writing => pc[w] \in Writing, l \notin {"generate", "dispatch"}
  PROVE  \E j \in Jobs, k \in Labels : Continues(w, j, k)
  BY ContinueFound, ContinueMove DEF LookUp

LEMMA ContinueStep ==
  ASSUME CInv, NEW w \in Workers, Step(w), ~Waited(w)
  PROVE  \E j \in Jobs, l \in Labels : Continues(w, j, l)
<1>1. TypeOK /\ job[w] \in Jobs /\ now \in Nat /\ Len(chain) \in Nat
  BY JobFacts, ChainFacts DEF CInv
<1>2. CASE Find(w)
  <2>1. CASE IsBound(job[w].cp, "result")
    BY <1>1, <1>2, <2>1, ContinueFound DEF Find
  <2>2. CASE ~IsBound(job[w].cp, "result")
    <3>1. PICK l : l = IF job[w].role = "prepare" THEN "acquire" ELSE "wait"
      OBVIOUS
    <3>2. PICK j : j = [job[w] EXCEPT !.clock = ClockOf(w)]
      OBVIOUS
    <3>3. /\ j \in Jobs /\ j.role = job[w].role /\ j.cp = job[w].cp
          /\ j.since = job[w].since /\ j.product = job[w].product
      BY <1>1, <3>2, ClockFacts DEF Jobs
    <3>4. /\ Work(w, j, l) /\ l \in Labels /\ l \notin Writing
          /\ l \notin {"generate", "dispatch"}
          /\ l \in Waiting => j.role = "prepare"
      BY <1>2, <2>2, <3>1, <3>2, <3>3 DEF Find, Labels, Waiting, Writing
    <3>5. Continues(w, j, l)
      BY <1>2, <3>3, <3>4 DEF Find, Continues, Carries
    <3> QED
      BY <3>3, <3>4, <3>5
  <2> QED
    BY <2>1, <2>2
<1>3. CASE Refind(w) \/ FindNotice(w) \/ Recheck(w) \/ Lost(w)
  <2>1. PICK kind \in {"result", "notice"}, l \in Labels :
          /\ LookUp(w, kind, l) /\ pc[w] # "idle"
          /\ l \in Waiting => pc[w] \in Waiting
          /\ l \in Writing => pc[w] \in Writing
          /\ l \notin {"generate", "dispatch"}
    BY <1>3 DEF Refind, FindNotice, Recheck, Lost, Labels, Waiting, Writing
  <2> QED
    BY <1>1, <2>1, ContinueLookUp
<1>4. CASE Acquire(w)
  <2>1. CASE Acquirable(w)
    <3>1. PICK j : j = [job[w] EXCEPT !.held = TRUE]
      OBVIOUS
    <3>2. /\ j \in Jobs /\ j.role = job[w].role /\ j.cp = job[w].cp
          /\ j.since = job[w].since /\ j.product = job[w].product
      BY <1>1, <3>1 DEF Jobs
    <3>3. Continues(w, j, "read")
      BY <1>4, <2>1, <3>1, <3>2 DEF Acquire, Continues, Carries, Waiting, Writing
    <3> QED
      BY <3>2, <3>3 DEF Labels
  <2>2. CASE ~Acquirable(w)
    BY <1>1, <1>4, <2>2, ContinueLeave, ContinueMove DEF Acquire, Labels, Waiting, Writing
  <2> QED
    BY <2>1, <2>2
<1>5. CASE ReadParent(w)
  <2>1. PICK j : j = [job[w] EXCEPT !.parent = Len(chain)]
    OBVIOUS
  <2>2. PICK l : l = IF job[w].role = "prepare" THEN "generate" ELSE "recheck"
    OBVIOUS
  <2>3. /\ j \in Jobs /\ j.role = job[w].role /\ j.cp = job[w].cp /\ j.parent = Len(chain)
        /\ j.since = job[w].since /\ j.product = job[w].product
    BY <1>1, <2>1 DEF Jobs
  <2>4. /\ Work(w, j, l) /\ l \in Labels /\ pc[w] = "read" /\ l # "dispatch"
        /\ j.role = "deliver" => l # "generate"
    BY <1>5, <2>1, <2>2, <2>3 DEF ReadParent, Labels
  <2>5. Continues(w, j, l)
    BY <1>5, <2>3, <2>4 DEF ReadParent, Continues, Carries, Waiting
  <2> QED
    BY <2>3, <2>4, <2>5
<1>6. CASE Finalize(w)
  <2>1. pc[w] = "finalize" /\ now' = now /\ fired' = fired
    BY <1>6 DEF Finalize
  <2>2. CASE IsBound(job[w].cp, KindOf(w))
    <3>1. KindOf(w) \in {"result", "notice"}
      BY DEF KindOf
    <3> QED
      BY <1>1, <1>6, <2>1, <2>2, <3>1, ContinueFound DEF Finalize
  <2>3. CASE ~IsBound(job[w].cp, KindOf(w)) /\ ~IsLatest(job[w].parent)
    BY <1>1, <1>6, <2>1, <2>3, ContinueMove DEF Finalize, Labels, Waiting, Writing
  <2>4. CASE ~IsBound(job[w].cp, KindOf(w)) /\ IsLatest(job[w].parent)
    <3>1. CASE Leave(w)
      BY <2>1, <3>1, ContinueLeave
    <3>2. CASE ~Leave(w)
      <4>1. PICK j : j = [job[w] EXCEPT !.product = Len(chain) + 1]
        OBVIOUS
      <4>2. /\ j \in Jobs /\ j.role = job[w].role /\ j.cp = job[w].cp
            /\ j.since = job[w].since /\ j.product = Len(chain) + 1
        BY <1>1, <4>1 DEF Jobs
      <4>3. Work(w, j, "release")
        BY <1>6, <2>4, <3>2, <4>1 DEF Finalize
      <4>4. Appends(w)
        <5>1. pc'[w] = "release" /\ KindOf(w) \in Kinds
          BY <1>1, <4>2, <4>3, WorkFacts, JobFacts DEF Labels
        <5> QED
          BY <1>6, <2>4, <5>1 DEF Finalize, Appends
      <4>5. Continues(w, j, "release")
        BY <1>6, <2>1, <4>2, <4>3, <4>4 DEF Finalize, Continues, Carries, Waiting, Writing
      <4> QED
        BY <4>2, <4>5 DEF Labels
    <3> QED
      BY <3>1, <3>2
  <2> QED
    BY <2>2, <2>3, <2>4
<1>7. CASE LostNotice(w)
  BY <1>1, <1>7, ContinueFound, ContinueMove, ContinueLeave
     DEF LostNotice, Labels, Waiting, Writing
<1>8. CASE Release(w)
  <2>1. CASE Leave(w)
    BY <1>8, <2>1, ContinueLeave DEF Release
  <2>2. CASE ~Leave(w)
    <3>1. PICK j : j = [job[w] EXCEPT !.held = FALSE]
      OBVIOUS
    <3>2. /\ j \in Jobs /\ j.role = job[w].role /\ j.cp = job[w].cp
          /\ j.since = job[w].since /\ j.product = job[w].product
      BY <1>1, <3>1 DEF Jobs
    <3>3. Continues(w, j, "dispatch")
      BY <1>8, <2>2, <3>1, <3>2 DEF Release, Continues, Carries, Waiting, Writing
    <3> QED
      BY <3>2, <3>3 DEF Labels
  <2> QED
    BY <2>1, <2>2
<1>9. CASE Dispatch(w)
  <2>1. Move(w, "retry") \/ Leave(w)
    BY <1>9 DEF Dispatch
  <2> QED
    BY <1>1, <1>9, <2>1, ContinueMove, ContinueLeave DEF Dispatch, Labels, Waiting, Writing
<1>10. CASE Retry(w)
  <2>1. CASE Leave(w)
    BY <1>10, <2>1, ContinueLeave DEF Retry
  <2>2. CASE ~Leave(w)
    <3>1. PICK j : j = [job[w] EXCEPT !.retry = TRUE, !.clock = now,
                                      !.product = 0, !.parent = 0]
      OBVIOUS
    <3>2. /\ j \in Jobs /\ j.role = job[w].role /\ j.cp = job[w].cp
          /\ j.since = job[w].since /\ j.product = 0
      BY <1>1, <3>1 DEF Jobs
    <3>3. Continues(w, j, "find")
      BY <1>10, <2>2, <3>1, <3>2 DEF Retry, Continues, Carries, Waiting, Writing
    <3> QED
      BY <3>2, <3>3 DEF Labels
  <2> QED
    BY <2>1, <2>2
<1>11. CASE Answer(w)
  BY <1>11, ContinueLeave DEF Answer
<1> QED
  BY <1>2, <1>3, <1>4, <1>5, <1>6, <1>7, <1>8, <1>9, <1>10, <1>11 DEF Step

LEMMA ContinueOther ==
  ASSUME CInv, NEW w \in Workers,
         Generate(w) \/ Killed(w) \/ Crash(w) \/ StoreFails(w)
  PROVE  \E j \in Jobs, l \in Labels : Continues(w, j, l)
<1>1. TypeOK /\ now' = now /\ fired' = fired
  BY DEF CInv, Generate, Generated, GenerationFails, Killed, Crash, StoreFails
<1>2. CASE Generate(w)
  BY <1>1, <1>2, ContinueMove, ContinueLeave
     DEF Generate, Generated, GenerationFails, Labels, Waiting, Writing
<1>3. CASE Killed(w) \/ Crash(w)
  BY <1>1, <1>3, ContinueLeave DEF Killed, Crash
<1>4. CASE StoreFails(w)
  BY <1>1, <1>4, ContinueMove DEF StoreFails, Labels, Waiting, Writing
<1> QED
  BY <1>2, <1>3, <1>4

\* Only a run at its last step appends.
LEMMA StepAppends ==
  ASSUME CInv, NEW w \in Workers,
         Step(w) \/ Generate(w) \/ Killed(w) \/ FailStep(w)
  PROVE  SameVersions \/ Appends(w)
<1>1. TypeOK
  BY DEF CInv
<1>2. chain' = chain => SameVersions
  BY ChainStays
<1>3. CASE Dispatch(w)
  <2>1. PICK p \in DispatchTo(chain[job[w].product].phase) :
          chain' = [chain EXCEPT ![job[w].product].phase = p]
    BY <1>3 DEF Dispatch
  <2>2. DOMAIN chain' = DOMAIN chain
    BY <2>1
  <2>3. ASSUME NEW v \in DOMAIN chain
        PROVE  Kept(v)
    <3>1. chain[v] \in Versions
      BY <1>1, ChainFacts DEF TypeOK
    <3>2. \/ chain'[v] = chain[v]
          \/ v = job[w].product /\ chain'[v] = [chain[v] EXCEPT !.phase = p]
      BY <2>1
    <3>3. chain[v].phase \in DispatchTo(chain[v].phase)
      BY DEF DispatchTo
    <3> QED
      BY <2>1, <3>1, <3>2, <3>3 DEF Versions, Kept
  <2> QED
    BY <2>2, <2>3 DEF SameVersions
<1>4. CASE Finalize(w)
  <2>1. KindOf(w) \in Kinds
    BY <1>1, JobFacts
  <2>2. chain' # chain => pc'[w] \in {"idle", "release"}
    BY <1>1, <1>4 DEF Finalize, TypeOK, Leave, Work, Goto
  <2> QED
    BY <1>2, <1>4, <2>1, <2>2 DEF Finalize, Appends
<1>5. CASE Answer(w)
  <2>1. "ask" \in Kinds /\ pc'[w] = "idle"
    BY <1>1, <1>5 DEF Kinds, Answer, Leave, Work, Goto, TypeOK
  <2> QED
    BY <1>2, <1>5, <2>1 DEF Answer, Appends
<1>6. CASE Step(w) /\ ~Dispatch(w) /\ ~Finalize(w) /\ ~Answer(w)
  BY <1>2, <1>6 DEF Step, Find, Waited, Refind, FindNotice, Acquire, ReadParent, Recheck,
                    Lost, LostNotice, Release, Retry, LookUp
<1>7. CASE Generate(w) \/ Killed(w) \/ FailStep(w)
  BY <1>2, <1>7 DEF Generate, Generated, GenerationFails, Killed, FailStep,
                    StateCheckFails, StoreFails, Crash
<1> QED
  BY <1>3, <1>4, <1>5, <1>6, <1>7

\* What a step can be, as far as runs and versions are concerned.
RunStep(w) ==
  /\ \E j \in Jobs, l \in Labels : Continues(w, j, l)
  /\ SameVersions \/ Appends(w)

LEMMA StepShape ==
  ASSUME CInv, [Next]_vars
  PROVE  \/ \E w \in Workers, c \in Checkpoints : StartPrepare(w, c) \/ StartDeliver(w, c)
         \/ \E w \in Workers : Waited(w) \/ StateCheckFails(w) \/ Ask(w) \/ RunStep(w)
         \/ Tick \/ UNCHANGED vars
  BY ContinueStep, ContinueOther, StepAppends DEF Next, FailStep, RunStep

\* The chain after an append.
LEMMA AppendView ==
  ASSUME CInv, NEW w \in Workers, Appends(w)
  PROVE  \E kind \in Kinds :
           /\ kind = IF job[w].role = "ask" THEN "ask" ELSE KindOf(w)
           /\ job[w].role # "ask" => ~IsBound(job[w].cp, kind)
           /\ DOMAIN chain = 1..Len(chain) /\ DOMAIN chain' = 1..(Len(chain) + 1)
           /\ \A v \in DOMAIN chain : chain'[v] = chain[v]
           /\ chain'[Len(chain) + 1].cp = job[w].cp
           /\ chain'[Len(chain) + 1].kind = kind
           /\ chain'[Len(chain) + 1].phase = IF job[w].role = "ask" THEN "none" ELSE "pending"
<1>1. PICK kind \in Kinds, phase \in {"none", "pending"} :
        /\ chain' = Append(chain, Version(job[w].cp, kind, job[w].parent, phase))
        /\ kind = IF job[w].role = "ask" THEN "ask" ELSE KindOf(w)
        /\ phase = IF job[w].role = "ask" THEN "none" ELSE "pending"
        /\ job[w].role # "ask" => ~IsBound(job[w].cp, kind)
  BY DEF Appends
<1>2. PICK new : new = Version(job[w].cp, kind, job[w].parent, phase)
  OBVIOUS
<1>3. new \in Versions /\ new.cp = job[w].cp /\ new.kind = kind /\ new.phase = phase
  BY <1>2, JobFacts DEF Version, Versions, Phases, CInv
<1>4. chain \in Seq(Versions) /\ Len(chain) \in Nat /\ DOMAIN chain = 1..Len(chain)
  BY ChainFacts DEF CInv, TypeOK
<1>5. /\ chain' \in Seq(Versions) /\ Len(chain') = Len(chain) + 1
      /\ \A v \in 1..Len(chain) : chain'[v] = chain[v]
      /\ chain'[Len(chain) + 1] = new
  BY <1>1, <1>2, <1>3, <1>4, AppendProperties
<1>6. DOMAIN chain' = 1..(Len(chain) + 1)
  BY <1>5, LenProperties
<1> QED
  BY <1>1, <1>3, <1>4, <1>5, <1>6

-----------------------------------------------------------------------------
(* One product per checkpoint *)

\* The steps the promise is about: prepare runs are the timer's units, and the
\* state of a unit can be determined.  Deliver runs may be started by hand,
\* questions asked and processes lost.
UnitsAreVisible ==
  \A w \in Workers :
    /\ ~StateCheckFails(w)
    /\ \A c \in Checkpoints : StartPrepare(w, c) => w \in Scheduled

\* A checkpoint has at most one result and at most one notice.
OneOfAKind ==
  \A u, v \in DOMAIN chain :
    (chain[u].cp = chain[v].cp /\ chain[u].kind = chain[v].kind /\ chain[u].kind # "ask")
      => u = v

PreparesAreUnits == \A x \in Workers : Running(x, "prepare") => x \in Scheduled

DeliversAreDue ==
  \A w \in Workers : Running(w, "deliver") => TargetAt[job[w].cp] <= now

\* Once a deliver run is past its wait nothing prepares its checkpoint.
WaitIsOver ==
  \A w, x \in Workers :
    (Running(w, "deliver") /\ pc[w] \in Waiting /\ Running(x, "prepare"))
      => job[x].cp # job[w].cp

\* Where a notice is, no result will be.
NoticeIsFinal ==
  \A v \in DOMAIN chain :
    chain[v].kind = "notice" =>
      /\ TargetAt[chain[v].cp] <= now
      /\ \A x \in Workers : Running(x, "prepare") => job[x].cp # chain[v].cp

OInv ==
  /\ CInv
  /\ OneOfAKind /\ PreparesAreUnits /\ DeliversAreDue /\ WaitIsOver /\ NoticeIsFinal
  /\ OneProductPerCheckpoint

LEMMA InitOInv == Init => OInv
<1> SUFFICES ASSUME Init PROVE OInv
  OBVIOUS
<1>1. CInv
  BY InitCInv
<1>2. \A w \in Workers : pc[w] = "idle"
  BY DEF Init
<1>3. DOMAIN chain = {}
  BY DEF Init
<1> QED
  BY <1>1, <1>2, <1>3 DEF OInv, OneOfAKind, PreparesAreUnits, DeliversAreDue, WaitIsOver,
       NoticeIsFinal, OneProductPerCheckpoint, Running

\* A step that brings no run of a kind or checkpoint that was not there before,
\* and no version.
LEMMA QuietOInv ==
  ASSUME OInv, CInv', SameVersions, now' = now,
         \A x \in Workers, role \in {"prepare", "deliver"} :
           Running(x, role)' => Running(x, role) /\ job'[x].cp = job[x].cp,
         \A x \in Workers :
           (Running(x, "deliver")' /\ pc'[x] \in Waiting) => pc[x] \in Waiting
  PROVE  OInv'
<1>1. OneOfAKind' /\ OneProductPerCheckpoint'
  BY DEF OInv, OneOfAKind, OneProductPerCheckpoint, SameVersions, Kept
<1>2. PreparesAreUnits' /\ DeliversAreDue'
  BY DEF OInv, PreparesAreUnits, DeliversAreDue
<1>3. WaitIsOver'
  BY DEF OInv, WaitIsOver
<1>4. NoticeIsFinal'
  BY DEF OInv, NoticeIsFinal, SameVersions, Kept
<1> QED
  BY <1>1, <1>2, <1>3, <1>4 DEF OInv

\* What a run's own step leaves of the runs there are.
LEMMA ContinueFacts ==
  ASSUME CInv, NEW w \in Workers, NEW j \in Jobs, NEW l \in Labels, Continues(w, j, l)
  PROVE  /\ now' = now /\ fired' = fired
         /\ \A x \in Workers, role \in Roles :
              Running(x, role)' => /\ Running(x, role) /\ job'[x].cp = job[x].cp
                                   /\ job'[x].since = job[x].since
         /\ \A x \in Workers :
              (Running(x, "deliver")' /\ pc'[x] \in Waiting) => pc[x] \in Waiting
         /\ \A x \in Workers :
              pc'[x] \in Writing => \/ job'[x].parent = Len(chain)
                                    \/ pc[x] \in Writing /\ job'[x].parent = job[x].parent
         /\ \A x \in Workers :
              (Running(x, "deliver")' /\ pc'[x] = "generate") => pc[x] = "generate"
<1>1. /\ pc'[w] = l /\ job'[w] = j
      /\ \A x \in Workers : x # w => pc'[x] = pc[x] /\ job'[x] = job[x]
  BY WorkFacts DEF CInv, Continues
<1>2. ASSUME NEW x \in Workers, NEW role \in Roles, Running(x, role)'
      PROVE  /\ Running(x, role) /\ job'[x].cp = job[x].cp
             /\ job'[x].since = job[x].since
  BY <1>1, <1>2 DEF Running, Continues
<1>3. ASSUME NEW x \in Workers, Running(x, "deliver")', pc'[x] \in Waiting
      PROVE  pc[x] \in Waiting
  BY <1>1, <1>3 DEF Running, Continues
<1>4. ASSUME NEW x \in Workers, pc'[x] \in Writing
      PROVE  \/ job'[x].parent = Len(chain)
             \/ pc[x] \in Writing /\ job'[x].parent = job[x].parent
  BY <1>1, <1>4 DEF Continues
<1>5. ASSUME NEW x \in Workers, Running(x, "deliver")', pc'[x] = "generate"
      PROVE  pc[x] = "generate"
  BY <1>1, <1>5 DEF Running, Continues
<1> QED
  BY <1>2, <1>3, <1>4, <1>5 DEF Continues

\* A run that appends.
LEMMA AppendOInv ==
  ASSUME OInv, CInv', NEW w \in Workers, NEW j \in Jobs, NEW l \in Labels,
         Continues(w, j, l), Appends(w)
  PROVE  OInv'
<1> DEFINE n == Len(chain)
<1>1. CInv /\ now' = now /\ n \in Nat
  BY ChainFacts DEF OInv, CInv, Continues
<1>2. PICK kind \in Kinds :
        /\ kind = IF job[w].role = "ask" THEN "ask" ELSE KindOf(w)
        /\ job[w].role # "ask" => ~IsBound(job[w].cp, kind)
        /\ DOMAIN chain = 1..n /\ DOMAIN chain' = 1..(n + 1)
        /\ \A v \in DOMAIN chain : chain'[v] = chain[v]
        /\ chain'[n + 1].cp = job[w].cp
        /\ chain'[n + 1].kind = kind
  BY <1>1, AppendView
<1>3. /\ \A x \in Workers, role \in Roles :
           Running(x, role)' => Running(x, role) /\ job'[x].cp = job[x].cp
      /\ \A x \in Workers :
           (Running(x, "deliver")' /\ pc'[x] \in Waiting) => pc[x] \in Waiting
  BY <1>1, ContinueFacts
<1>4. pc[w] = "finalize" /\ job[w].role \in Roles /\ n = job[w].parent
  BY <1>1, JobFacts DEF CInv, Appends, IsLatest
<1>5. /\ kind = "notice" => Running(w, "deliver") /\ pc[w] \in Waiting
      /\ kind = "result" => Running(w, "prepare")
  BY <1>2, <1>4 DEF KindOf, Running, Waiting, Roles
<1>6. ASSUME NEW v \in DOMAIN chain, chain[v].cp = job[w].cp, kind # "ask",
             chain[v].kind # "ask"
      PROVE  FALSE
  <2>1. chain[v].kind # kind
    BY <1>2, <1>6 DEF IsBound
  <2>2. chain[v].kind \in Kinds
    BY <1>1, VersionFacts DEF CInv
  <2>3. CASE kind = "notice"
    <3>1. NoResultUpTo(job[w].cp, job[w].parent)
      BY <1>1, <1>4, <1>5, <2>3 DEF CInv, Rechecked, Running
    <3>2. v <= n
      BY <1>1, <1>2
    <3> QED
      BY <1>4, <1>6, <2>1, <2>2, <2>3, <3>1, <3>2 DEF NoResultUpTo, Kinds
  <2>4. CASE kind = "result"
    BY <1>5, <1>6, <2>1, <2>2, <2>4 DEF OInv, NoticeIsFinal, Kinds
  <2> QED
    BY <1>6, <2>3, <2>4 DEF Kinds
<1>7. OneOfAKind' /\ OneProductPerCheckpoint'
  <2> SUFFICES ASSUME NEW u \in 1..(n + 1), NEW v \in 1..(n + 1),
                      chain'[u].cp = chain'[v].cp,
                      chain'[u].kind # "ask", chain'[v].kind # "ask"
               PROVE  u = v
    BY <1>2 DEF OneOfAKind, OneProductPerCheckpoint
  <2>1. CASE u \in 1..n /\ v \in 1..n
    BY <1>2, <2>1 DEF OInv, OneProductPerCheckpoint
  <2>2. CASE u = n + 1 /\ v \in 1..n
    BY <1>2, <1>6, <2>2
  <2>3. CASE u \in 1..n /\ v = n + 1
    BY <1>2, <1>6, <2>3
  <2> QED
    BY <1>1, <2>1, <2>2, <2>3
<1>8. PreparesAreUnits' /\ DeliversAreDue'
  BY <1>1, <1>3 DEF OInv, PreparesAreUnits, DeliversAreDue, Roles
<1>9. WaitIsOver'
  BY <1>3 DEF OInv, WaitIsOver, Roles
<1>10. NoticeIsFinal'
  <2> SUFFICES ASSUME NEW v \in 1..(n + 1), chain'[v].kind = "notice"
               PROVE  /\ TargetAt[chain'[v].cp] <= now'
                      /\ \A x \in Workers : Running(x, "prepare")' => job'[x].cp # chain'[v].cp
    BY <1>2 DEF NoticeIsFinal
  <2>1. CASE v \in 1..n
    BY <1>1, <1>2, <1>3, <2>1 DEF OInv, NoticeIsFinal, Roles
  <2>2. CASE v = n + 1
    BY <1>1, <1>2, <1>3, <1>5, <2>2 DEF OInv, DeliversAreDue, WaitIsOver, Roles
  <2> QED
    BY <1>1, <2>1, <2>2
<1> QED
  BY <1>7, <1>8, <1>9, <1>10 DEF OInv

LEMMA StartOInv ==
  ASSUME OInv, CInv', NEW w \in Workers, NEW c \in Checkpoints, UnitsAreVisible,
         StartPrepare(w, c) \/ StartDeliver(w, c)
  PROVE  OInv'
<1>1. TypeOK /\ now' = now /\ SameVersions /\ now \in Nat /\ TargetAt[c] \in Nat
  BY NatConstants, ChainStays DEF OInv, CInv, TypeOK, StartPrepare, StartDeliver
<1>2. PICK role \in {"prepare", "deliver"} :
        /\ Work(w, NewJob(role, c), "find")
        /\ role = "prepare" => now < TargetAt[c] /\ w \in Scheduled
        /\ role = "deliver" => TargetAt[c] <= now
  BY DEF StartPrepare, StartDeliver, InDeliverWindow, UnitsAreVisible
<1>3. PICK j : j = NewJob(role, c)
  OBVIOUS
<1>4. j \in Jobs /\ j.role = role /\ j.cp = c
  BY <1>1, <1>3 DEF NewJob, Jobs, Roles
<1>5. /\ pc'[w] = "find" /\ job'[w] = j
      /\ \A x \in Workers : x # w => pc'[x] = pc[x] /\ job'[x] = job[x]
  BY <1>1, <1>2, <1>3, <1>4, WorkFacts DEF Labels
<1>6. ASSUME NEW x \in Workers, NEW r \in {"prepare", "deliver"}, Running(x, r)'
      PROVE  \/ Running(x, r) /\ job'[x].cp = job[x].cp /\ pc'[x] = pc[x]
             \/ x = w /\ r = role /\ job'[x].cp = c
  BY <1>4, <1>5, <1>6 DEF Running
<1>7. OneOfAKind' /\ OneProductPerCheckpoint'
  BY <1>1 DEF OInv, OneOfAKind, OneProductPerCheckpoint, SameVersions, Kept
<1>8. PreparesAreUnits' /\ DeliversAreDue'
  BY <1>1, <1>2, <1>6 DEF OInv, PreparesAreUnits, DeliversAreDue
<1>9. WaitIsOver'
  <2> SUFFICES ASSUME NEW x \in Workers, NEW y \in Workers, Running(x, "deliver")',
                      pc'[x] \in Waiting, Running(y, "prepare")', job'[y].cp = job'[x].cp
               PROVE  FALSE
    BY DEF WaitIsOver
  <2>1. x # w /\ Running(x, "deliver") /\ job'[x].cp = job[x].cp /\ pc[x] \in Waiting
    BY <1>5, <1>6 DEF Waiting, Running
  <2>2. TargetAt[job[x].cp] <= now
    BY <2>1 DEF OInv, DeliversAreDue
  <2> QED
    BY <1>1, <1>2, <1>6, <2>1, <2>2 DEF OInv, WaitIsOver
<1>10. NoticeIsFinal'
  <2> SUFFICES ASSUME NEW v \in DOMAIN chain, chain[v].kind = "notice"
               PROVE  /\ TargetAt[chain[v].cp] <= now
                      /\ \A x \in Workers : Running(x, "prepare")' => job'[x].cp # chain[v].cp
    BY <1>1 DEF NoticeIsFinal, SameVersions, Kept
  <2>1. /\ TargetAt[chain[v].cp] <= now
        /\ \A x \in Workers : Running(x, "prepare") => job[x].cp # chain[v].cp
    BY DEF OInv, NoticeIsFinal
  <2> QED
    BY <1>1, <1>2, <1>6, <2>1
<1> QED
  BY <1>7, <1>8, <1>9, <1>10 DEF OInv

\* A deliver run goes on when it sees no unit preparing.
LEMMA WaitedOInv ==
  ASSUME OInv, CInv', NEW w \in Workers, Waited(w)
  PROVE  OInv'
<1>1. TypeOK /\ now' = now /\ SameVersions /\ CInv
  BY ChainStays DEF OInv, CInv, Waited
<1>2. PICK j : j = [job[w] EXCEPT !.clock = ClockOf(w)]
  OBVIOUS
<1>3. j \in Jobs /\ j.role = job[w].role /\ j.cp = job[w].cp
  BY <1>1, <1>2, ClockFacts, JobFacts DEF Jobs
<1>4. Work(w, j, "refind") /\ pc[w] = "wait"
  BY <1>2 DEF Waited, AfterWaiting
<1>5. /\ pc'[w] = "refind" /\ job'[w] = j
      /\ \A x \in Workers : x # w => pc'[x] = pc[x] /\ job'[x] = job[x]
  BY <1>1, <1>3, <1>4, WorkFacts DEF Labels
<1>6. \A x \in Workers, role \in {"prepare", "deliver"} :
        Running(x, role)' => Running(x, role) /\ job'[x].cp = job[x].cp
  BY <1>3, <1>4, <1>5 DEF Running
<1>7. OneOfAKind' /\ OneProductPerCheckpoint'
  BY <1>1 DEF OInv, OneOfAKind, OneProductPerCheckpoint, SameVersions, Kept
<1>8. PreparesAreUnits' /\ DeliversAreDue'
  BY <1>1, <1>6 DEF OInv, PreparesAreUnits, DeliversAreDue
<1>9. WaitIsOver'
  <2> SUFFICES ASSUME NEW x \in Workers, NEW y \in Workers, Running(x, "deliver")',
                      pc'[x] \in Waiting, Running(y, "prepare")'
               PROVE  job'[y].cp # job'[x].cp
    BY DEF WaitIsOver
  <2>1. Running(y, "prepare") /\ y \in Scheduled
    BY <1>6 DEF OInv, PreparesAreUnits
  <2>2. CASE x = w
    <3>1. job[y].cp # job[w].cp
      BY <2>1 DEF Waited, UnitPreparing
    <3> QED
      BY <1>6, <2>2, <3>1
  <2>3. CASE x # w
    BY <1>5, <1>6, <2>3 DEF OInv, WaitIsOver
  <2> QED
    BY <2>2, <2>3
<1>10. NoticeIsFinal'
  BY <1>1, <1>6 DEF OInv, NoticeIsFinal, SameVersions, Kept
<1> QED
  BY <1>7, <1>8, <1>9, <1>10 DEF OInv

LEMMA AskOInv ==
  ASSUME OInv, CInv', NEW w \in Workers, Ask(w)
  PROVE  OInv'
<1>1. TypeOK /\ now' = now /\ SameVersions /\ CInv
  BY ChainStays DEF OInv, CInv, Ask
<1>2. PICK j : j = [NoJob EXCEPT !.parent = Len(chain), !.since = now]
  OBVIOUS
<1>3. j \in Jobs /\ j.role = "ask"
  BY <1>1, <1>2, NoJobType, ChainFacts DEF Jobs, TypeOK
<1>4. Work(w, j, "generate")
  BY <1>2 DEF Ask
<1>5. /\ pc'[w] = "generate" /\ job'[w] = j
      /\ \A x \in Workers : x # w => pc'[x] = pc[x] /\ job'[x] = job[x]
  BY <1>1, <1>3, <1>4, WorkFacts DEF Labels
<1>6. /\ \A x \in Workers, role \in {"prepare", "deliver"} :
           Running(x, role)' => Running(x, role) /\ job'[x].cp = job[x].cp
      /\ \A x \in Workers :
           (Running(x, "deliver")' /\ pc'[x] \in Waiting) => pc[x] \in Waiting
  BY <1>3, <1>5 DEF Running, Waiting
<1> QED
  BY <1>1, <1>6, QuietOInv

LEMMA StepOInv == OInv /\ [Next]_vars /\ [UnitsAreVisible]_vars => OInv'
<1> SUFFICES ASSUME OInv, [Next]_vars, [UnitsAreVisible]_vars PROVE OInv'
  OBVIOUS
<1>1. CInv /\ CInv'
  BY StepCInv DEF OInv
<1>2. CASE UNCHANGED vars
  BY <1>1, <1>2, ChainStays, QuietOInv DEF vars, Running
<1>3. CASE Tick
  <2>1. /\ now' = now + 1 /\ now \in Nat /\ UNCHANGED <<chain, pc, job>>
    BY <1>1, <1>3 DEF Tick, CInv, TypeOK
  <2>2. OneOfAKind' /\ OneProductPerCheckpoint' /\ PreparesAreUnits' /\ WaitIsOver'
    BY <2>1 DEF OInv, OneOfAKind, OneProductPerCheckpoint, PreparesAreUnits, WaitIsOver,
                Running
  <2>3. DeliversAreDue'
    BY <1>1, <2>1, NatConstants, JobFacts DEF OInv, CInv, DeliversAreDue, Running
  <2>4. NoticeIsFinal'
    <3>1. \A v \in DOMAIN chain : chain[v].cp \in Checkpoints
      BY <1>1, VersionFacts DEF CInv
    <3> QED
      BY <2>1, <3>1, NatConstants DEF OInv, NoticeIsFinal, Running
  <2> QED
    BY <1>1, <2>2, <2>3, <2>4 DEF OInv
<1>4. CASE ~UNCHANGED vars /\ ~Tick
  <2>1. UnitsAreVisible
    BY <1>4
  <2>2. ASSUME NEW w \in Workers, RunStep(w) PROVE OInv'
    <3>1. PICK j \in Jobs, l \in Labels : Continues(w, j, l)
      BY <2>2 DEF RunStep
    <3>2. CASE SameVersions
      BY <1>1, <3>1, <3>2, ContinueFacts, QuietOInv DEF Roles
    <3>3. CASE Appends(w)
      BY <1>1, <3>1, <3>3, AppendOInv
    <3> QED
      BY <2>2, <3>2, <3>3 DEF RunStep
  <2> QED
    BY <1>1, <1>4, <2>1, <2>2, StepShape, StartOInv, WaitedOInv, AskOInv
       DEF UnitsAreVisible
<1> QED
  BY <1>2, <1>3, <1>4

\* As long as prepare runs are the timer's and systemctl tells their state, a
\* checkpoint has one product, its result or its notice: deliver runs may also
\* be started by hand, questions asked and processes killed at any step, for
\* every schedule (_deliver, _wait_for_prepare_result).
THEOREM OneMessagePerCheckpoint ==
  Spec /\ [][UnitsAreVisible]_vars => []OneProductPerCheckpoint
<1>1. Init => OInv
  BY InitOInv
<1>2. OInv /\ [Next]_vars /\ [UnitsAreVisible]_vars => OInv'
  BY StepOInv
<1>3. OInv => OneProductPerCheckpoint
  BY DEF OInv
<1> QED
  BY <1>1, <1>2, <1>3, PTL DEF Spec

-----------------------------------------------------------------------------
(* What becomes of a version, and what a delivery run dispatches *)

\* Exactly the answers to questions have no obligation.
ObligationsOfRuns ==
  \A v \in DOMAIN chain : chain[v].kind = "ask" <=> chain[v].phase = "none"

OwnProduct ==
  \A w \in Workers :
    job[w].product # 0 =>
      /\ job[w].product \in DOMAIN chain
      /\ chain[job[w].product].cp = job[w].cp
      /\ chain[job[w].product].kind # "ask"

HasProduct == \A w \in Workers : pc[w] = "dispatch" => job[w].product # 0

DInv == CInv /\ ObligationsOfRuns /\ OwnProduct /\ HasProduct

\* A run about to dispatch has a product of its own checkpoint, and one that
\* has an obligation.
DispatchesOwnProduct ==
  \A w \in Workers :
    pc[w] = "dispatch" =>
      /\ job[w].product \in DOMAIN chain
      /\ chain[job[w].product].cp = job[w].cp
      /\ chain[job[w].product].phase # "none"

VersionsStay == \A v \in DOMAIN chain : v \in DOMAIN chain' /\ Kept(v)

LEMMA KeptObligation ==
  ASSUME NEW v, Kept(v)
  PROVE  chain'[v].phase = "none" <=> chain[v].phase = "none"
  BY DEF Kept, DispatchTo

LEMMA AppendKeeps ==
  ASSUME CInv, NEW w \in Workers, Appends(w)
  PROVE  VersionsStay
<1>1. Len(chain) \in Nat
  BY ChainFacts DEF CInv
<1>2. /\ DOMAIN chain = 1..Len(chain) /\ DOMAIN chain' = 1..(Len(chain) + 1)
      /\ \A v \in DOMAIN chain : chain'[v] = chain[v]
  BY AppendView
<1>3. \A phase : phase \in DispatchTo(phase)
  BY DEF DispatchTo
<1> QED
  BY <1>1, <1>2, <1>3 DEF VersionsStay, Kept

LEMMA StepVersionsStay ==
  ASSUME CInv, [Next]_vars
  PROVE  VersionsStay
<1>1. SameVersions => VersionsStay
  BY DEF SameVersions, VersionsStay
<1>2. ASSUME NEW w \in Workers, RunStep(w) PROVE VersionsStay
  BY <1>1, <1>2, AppendKeeps DEF RunStep
<1>3. ASSUME NEW w \in Workers, NEW c \in Checkpoints,
             StartPrepare(w, c) \/ StartDeliver(w, c)
      PROVE  VersionsStay
  BY <1>1, <1>3, ChainStays DEF StartPrepare, StartDeliver
<1>4. ASSUME NEW w \in Workers, Waited(w) \/ StateCheckFails(w) \/ Ask(w)
      PROVE  VersionsStay
  BY <1>1, <1>4, ChainStays DEF Waited, StateCheckFails, Ask
<1>5. Tick \/ UNCHANGED vars => VersionsStay
  BY <1>1, ChainStays DEF Tick, vars
<1> QED
  BY <1>2, <1>3, <1>4, <1>5, StepShape

LEMMA InitDInv == Init => DInv
<1> SUFFICES ASSUME Init PROVE DInv
  OBVIOUS
<1>1. \A w \in Workers : pc[w] = "idle" /\ job[w].product = 0
  BY DEF Init, NoJob
<1>2. DOMAIN chain = {}
  BY DEF Init
<1> QED
  BY <1>1, <1>2, InitCInv DEF DInv, ObligationsOfRuns, OwnProduct, HasProduct

\* A step after which a run has the product it had, or none.
LEMMA QuietDInv ==
  ASSUME DInv, CInv', SameVersions,
         \A x \in Workers :
           /\ \/ job'[x].product = 0
              \/ job'[x].product = job[x].product /\ job'[x].cp = job[x].cp
           /\ pc'[x] = "dispatch" => pc[x] = "dispatch" /\ job'[x] = job[x]
  PROVE  DInv'
<1>1. ObligationsOfRuns'
  BY KeptObligation DEF DInv, ObligationsOfRuns, SameVersions, Kept
<1>2. OwnProduct'
  BY DEF DInv, OwnProduct, SameVersions, Kept
<1>3. HasProduct'
  BY DEF DInv, HasProduct
<1> QED
  BY <1>1, <1>2, <1>3 DEF DInv

LEMMA RunDInv ==
  ASSUME DInv, CInv', NEW w \in Workers, RunStep(w)
  PROVE  DInv'
<1>1. CInv /\ TypeOK /\ Len(chain) \in Nat
  BY ChainFacts DEF DInv, CInv
<1>2. PICK j \in Jobs, l \in Labels : Continues(w, j, l)
  BY DEF RunStep
<1>3. /\ pc'[w] = l /\ job'[w] = j
      /\ \A x \in Workers : x # w => pc'[x] = pc[x] /\ job'[x] = job[x]
  BY <1>1, <1>2, WorkFacts DEF Continues
<1>4. VersionsStay
  BY <1>1, AppendKeeps DEF RunStep, SameVersions, VersionsStay
<1>5. HasProduct'
  BY <1>2, <1>3 DEF DInv, HasProduct, Continues, Carries
<1>6. ASSUME NEW x \in Workers, job[x].product # 0
      PROVE  /\ job[x].product \in DOMAIN chain'
             /\ chain'[job[x].product].cp = job[x].cp
             /\ chain'[job[x].product].kind # "ask"
  BY <1>4, <1>6 DEF DInv, OwnProduct, VersionsStay, Kept
<1>7. ASSUME j.product # 0
      PROVE  /\ j.product \in DOMAIN chain' /\ j.cp = job[w].cp
             /\ chain'[j.product].cp = job[w].cp /\ chain'[j.product].kind # "ask"
  <2>1. j.cp = job[w].cp
    BY <1>2, <1>7 DEF Continues, Carries
  <2>2. CASE j.product = job[w].product
    BY <1>6, <1>7, <2>1, <2>2
  <2>3. ASSUME NEW kind \in {"result", "notice"}, IsBound(job[w].cp, kind),
               j.product = Bound(job[w].cp, kind)
        PROVE  /\ j.product \in DOMAIN chain'
               /\ chain'[j.product].cp = job[w].cp /\ chain'[j.product].kind # "ask"
    <3>1. /\ j.product \in DOMAIN chain /\ chain[j.product].cp = job[w].cp
          /\ chain[j.product].kind = kind
      BY <2>3 DEF IsBound, Bound
    <3> QED
      BY <1>4, <3>1 DEF VersionsStay, Kept
  <2>4. CASE Appends(w) /\ job[w].role # "ask" /\ j.product = Len(chain) + 1
    <3>1. /\ DOMAIN chain' = 1..(Len(chain) + 1)
          /\ chain'[Len(chain) + 1].cp = job[w].cp
          /\ chain'[Len(chain) + 1].kind = KindOf(w)
      BY <1>1, <2>4, AppendView
    <3> QED
      BY <1>1, <2>1, <2>4, <3>1 DEF KindOf
  <2> QED
    BY <1>2, <1>7, <2>1, <2>2, <2>3, <2>4 DEF Continues, Carries
<1>8. OwnProduct'
  BY <1>3, <1>6, <1>7 DEF OwnProduct
<1>9. ObligationsOfRuns'
  <2>1. CASE SameVersions
    BY <2>1, KeptObligation DEF DInv, ObligationsOfRuns, SameVersions, Kept
  <2>2. CASE Appends(w)
    <3>1. PICK kind \in Kinds :
            /\ kind = IF job[w].role = "ask" THEN "ask" ELSE KindOf(w)
            /\ DOMAIN chain = 1..Len(chain) /\ DOMAIN chain' = 1..(Len(chain) + 1)
            /\ \A v \in DOMAIN chain : chain'[v] = chain[v]
            /\ chain'[Len(chain) + 1].kind = kind
            /\ chain'[Len(chain) + 1].phase
                 = IF job[w].role = "ask" THEN "none" ELSE "pending"
      BY <1>1, <2>2, AppendView
    <3>2. KindOf(w) # "ask"
      BY DEF KindOf
    <3> QED
      BY <1>1, <3>1, <3>2 DEF DInv, ObligationsOfRuns
  <2> QED
    BY <2>1, <2>2 DEF RunStep
<1> QED
  BY <1>5, <1>8, <1>9 DEF DInv

LEMMA StepDInv == DInv /\ [Next]_vars => DInv'
<1> SUFFICES ASSUME DInv, [Next]_vars PROVE DInv'
  OBVIOUS
<1>1. CInv /\ CInv' /\ TypeOK
  BY StepCInv DEF DInv, CInv
<1>2. ASSUME NEW w \in Workers, NEW c \in Checkpoints,
             StartPrepare(w, c) \/ StartDeliver(w, c)
      PROVE  DInv'
  <2>1. SameVersions /\ now \in Nat
    BY <1>1, <1>2, ChainStays DEF StartPrepare, StartDeliver, TypeOK
  <2>2. PICK role \in {"prepare", "deliver"} : Work(w, NewJob(role, c), "find")
    BY <1>2 DEF StartPrepare, StartDeliver
  <2>3. PICK j : j = NewJob(role, c)
    OBVIOUS
  <2>4. j \in Jobs /\ j.product = 0
    BY <2>1, <2>3 DEF NewJob, Jobs, Roles
  <2>5. /\ pc'[w] = "find" /\ job'[w] = j
        /\ \A x \in Workers : x # w => pc'[x] = pc[x] /\ job'[x] = job[x]
    BY <1>1, <2>2, <2>3, <2>4, WorkFacts DEF Labels
  <2> QED
    BY <1>1, <2>1, <2>4, <2>5, QuietDInv
<1>3. ASSUME NEW w \in Workers, Waited(w) \/ StateCheckFails(w) PROVE DInv'
  <2>1. SameVersions
    BY <1>3, ChainStays DEF Waited, StateCheckFails
  <2>2. PICK j : j = [job[w] EXCEPT !.clock = ClockOf(w)]
    OBVIOUS
  <2>3. j \in Jobs /\ j.product = job[w].product /\ j.cp = job[w].cp
    BY <1>1, <2>2, ClockFacts, JobFacts DEF Jobs
  <2>4. Work(w, j, "refind")
    BY <1>3, <2>2 DEF Waited, StateCheckFails, AfterWaiting
  <2>5. /\ pc'[w] = "refind" /\ job'[w] = j
        /\ \A x \in Workers : x # w => pc'[x] = pc[x] /\ job'[x] = job[x]
    BY <1>1, <2>3, <2>4, WorkFacts DEF Labels
  <2> QED
    BY <1>1, <2>1, <2>3, <2>5, QuietDInv
<1>4. ASSUME NEW w \in Workers, Ask(w) PROVE DInv'
  <2>1. SameVersions /\ now \in Nat /\ Len(chain) \in Nat
    BY <1>1, <1>4, ChainStays, ChainFacts DEF Ask, TypeOK
  <2>2. PICK j : j = [NoJob EXCEPT !.parent = Len(chain), !.since = now]
    OBVIOUS
  <2>3. NoJob \in Jobs /\ NoJob.product = 0
    BY NoJobType DEF NoJob
  <2>4. j \in Jobs /\ j.product = 0
    BY <2>1, <2>2, <2>3 DEF Jobs
  <2>5. Work(w, j, "generate")
    BY <1>4, <2>2 DEF Ask
  <2>6. /\ pc'[w] = "generate" /\ job'[w] = j
        /\ \A x \in Workers : x # w => pc'[x] = pc[x] /\ job'[x] = job[x]
    BY <1>1, <2>4, <2>5, WorkFacts DEF Labels
  <2> QED
    BY <1>1, <2>1, <2>4, <2>6, QuietDInv
<1>5. CASE Tick \/ UNCHANGED vars
  <2>1. SameVersions /\ pc' = pc /\ job' = job
    BY <1>5, ChainStays DEF Tick, vars
  <2> QED
    BY <1>1, <2>1, QuietDInv
<1> QED
  BY <1>1, <1>2, <1>3, <1>4, <1>5, StepShape, RunDInv

\* What a run dispatches is a product of its own checkpoint with an obligation,
\* whether it found it, waited for it, froze it, lost the race for it or came
\* back to it for a second attempt, for any schedule and any failures
\* (_deliver, _freeze_delivery_fallback).
THEOREM DeliveriesAreTheirOwn == Spec => []DispatchesOwnProduct
<1>1. Init => DInv
  BY InitDInv
<1>2. DInv /\ [Next]_vars => DInv'
  BY StepDInv
<1>3. DInv => DispatchesOwnProduct
  BY DEF DInv, ObligationsOfRuns, OwnProduct, HasProduct, DispatchesOwnProduct
<1> QED
  BY <1>1, <1>2, <1>3, PTL DEF Spec

\* Nothing in the chain is ever lost or rewritten; only the phase of an
\* obligation moves on, and a settled one stays as it is
\* (append_daily_workspace_version, settle_daily_workspace_delivery).
THEOREM ChainOnlyGrows == Spec => [][VersionsStay]_vars
<1>1. CInv /\ [Next]_vars => [VersionsStay]_vars
  BY StepVersionsStay
<1> QED
  BY <1>1, Inductive, PTL DEF Spec

-----------------------------------------------------------------------------
(* The dispatch of the day and the machine of one delivery *)

CONSTANT Copies
VARIABLES delivery, messages

Delivery == INSTANCE AtMostOnceDelivery WITH phase <- delivery, copies <- messages

Deliverable == {"pending", "inDoubt", "acked", "unknown"}

\* What dispatches can leave one after another, one dispatch can.
LEMMA DispatchToIsTransitive ==
  ASSUME NEW p, NEW q \in DispatchTo(p)
  PROVE  DispatchTo(q) \subseteq DispatchTo(p)
  BY DEF DispatchTo

\* Whatever phase p an obligation is in when a dispatch begins, and however many
\* steps of AtMostOnceDelivery the dispatch takes, it ends in a phase that
\* DailyCheckpoint's single step allows (DailyWorkspaceDelivery.dispatch).
THEOREM DispatchIsSound ==
  ASSUME NEW p \in Deliverable
  PROVE  delivery = p /\ [][Delivery!Next]_(Delivery!vars) => [](delivery \in DispatchTo(p))
<1>1. delivery = p => delivery \in DispatchTo(p)
  BY DEF DispatchTo
<1>2. ASSUME delivery \in DispatchTo(p), [Delivery!Next]_(Delivery!vars)
      PROVE  (delivery \in DispatchTo(p))'
  BY <1>2 DEF DispatchTo, Deliverable, Delivery!Next, Delivery!vars, Delivery!Attempt,
              Delivery!Accept, Delivery!NotSent, Delivery!Acknowledge, Delivery!GiveUp
<1> QED
  BY <1>1, <1>2, PTL

-----------------------------------------------------------------------------
(* With timer runs only *)

LEMMA TimersAreVisible ==
  ASSUME TimersOnly, CInv, [Next]_vars
  PROVE  [UnitsAreVisible]_vars
<1>1. \A w \in Workers : ~StateCheckFails(w)
  BY DEF TimersOnly, CInv, TypeOK, StateCheckFails, Fault
<1> QED
  BY <1>1 DEF TimersOnly, UnitsAreVisible

NoQuestions == \A w \in Workers : ~Running(w, "ask")

\* When a timer's run can still be there.
UnitTimes ==
  \A x \in Workers :
    /\ Running(x, "prepare") =>
         /\ PrepareAt[job[x].cp] <= now
         /\ job[x].since < TargetAt[job[x].cp] /\ now <= job[x].since + PrepareLimit
    /\ Running(x, "deliver") =>
         /\ TargetAt[job[x].cp] <= now
         /\ job[x].since <= TargetAt[job[x].cp] + Window
         /\ now <= job[x].since + DeliverLimit
         /\ Prompt => \/ now <= TargetAt[job[x].cp] + Window
                      \/ now < TargetAt[job[x].cp] + PrepareLimit

\* A delivery never generates.
NoGeneration == \A x \in Workers : Running(x, "deliver") => pc[x] # "generate"

HasFired ==
  \A x \in Workers, role \in {"prepare", "deliver"} :
    Running(x, role) => <<role, job[x].cp>> \in fired

OneRunEach ==
  \A x, y \in Workers, role \in {"prepare", "deliver"} :
    (Running(x, role) /\ Running(y, role) /\ job[x].cp = job[y].cp) => x = y

\* Nobody appends between the moments when a run reads its parent and appends.
ParentIsLatest ==
  \A x \in Workers : pc[x] \in Writing => job[x].parent = Len(chain)

KInv ==
  /\ OInv
  /\ NoQuestions /\ UnitTimes /\ NoGeneration /\ HasFired /\ OneRunEach /\ ParentIsLatest

\* Runs that are there at the same time are of the same checkpoint.
LEMMA OneCheckpointAtATime ==
  ASSUME CheckpointsApart, KInv, NEW x \in Workers, NEW y \in Workers,
         NEW r \in {"prepare", "deliver"}, NEW s \in {"prepare", "deliver"},
         Running(x, r), Running(y, s)
  PROVE  job[x].cp = job[y].cp
<1>1. TypeOK
  BY DEF KInv, OInv, CInv
<1>2. now \in Nat
  BY <1>1 DEF TypeOK
<1>3. ASSUME NEW z \in Workers, NEW t \in {"prepare", "deliver"}, Running(z, t)
      PROVE  /\ job[z].cp \in Checkpoints /\ PrepareAt[job[z].cp] <= now
             /\ \/ now < TargetAt[job[z].cp] + PrepareLimit
                \/ /\ now <= TargetAt[job[z].cp] + Window + DeliverLimit
                   /\ Prompt => now <= TargetAt[job[z].cp] + Window
  <2>1. job[z].cp \in Checkpoints /\ job[z].since \in Nat
    BY <1>1, JobFacts
  <2>2. CASE t = "prepare"
    BY <1>2, <1>3, <2>1, <2>2, NatConstants DEF KInv, UnitTimes
  <2>3. CASE t = "deliver"
    BY <1>2, <1>3, <2>1, <2>3, NatConstants DEF KInv, UnitTimes, CheckpointsApart
  <2> QED
    BY <2>2, <2>3
<1>4. PICK c \in Checkpoints, d \in Checkpoints :
        /\ c = job[x].cp /\ d = job[y].cp
        /\ PrepareAt[c] <= now /\ PrepareAt[d] <= now
        /\ \/ now < TargetAt[c] + PrepareLimit
           \/ /\ now <= TargetAt[c] + Window + DeliverLimit
              /\ Prompt => now <= TargetAt[c] + Window
        /\ \/ now < TargetAt[d] + PrepareLimit
           \/ /\ now <= TargetAt[d] + Window + DeliverLimit
              /\ Prompt => now <= TargetAt[d] + Window
  BY <1>3
<1>5. ~IsOverBefore(c, d) /\ ~IsOverBefore(d, c)
  BY <1>2, <1>4, NatConstants DEF IsOverBefore
<1> QED
  BY <1>4, <1>5 DEF CheckpointsApart

LEMMA InitKInv == Init => KInv
<1> SUFFICES ASSUME Init PROVE KInv
  OBVIOUS
<1>1. \A w \in Workers : pc[w] = "idle"
  BY DEF Init
<1> QED
  BY <1>1, InitOInv DEF KInv, NoQuestions, UnitTimes, NoGeneration, HasFired, OneRunEach,
       ParentIsLatest, Running, Writing

\* Runs that go on.
LEMMA QuietKInv ==
  ASSUME KInv, OInv', now' = now, fired' = fired,
         \A x \in Workers, role \in Roles :
           Running(x, role)' => /\ Running(x, role) /\ job'[x].cp = job[x].cp
                                /\ job'[x].since = job[x].since,
         \A x \in Workers :
           /\ pc'[x] \in Writing => job'[x].parent = Len(chain')
           /\ (Running(x, "deliver")' /\ pc'[x] = "generate") => pc[x] = "generate"
  PROVE  KInv'
<1>1. NoQuestions'
  BY DEF KInv, NoQuestions, Roles
<1>2. UnitTimes'
  BY DEF KInv, UnitTimes, Roles
<1>3. HasFired'
  BY DEF KInv, HasFired, Roles
<1>4. OneRunEach'
  BY DEF KInv, OneRunEach, Roles
<1>5. ParentIsLatest' /\ NoGeneration'
  BY DEF KInv, ParentIsLatest, NoGeneration, Roles
<1> QED
  BY <1>1, <1>2, <1>3, <1>4, <1>5 DEF KInv

LEMMA RunKInv ==
  ASSUME CheckpointsApart, KInv, OInv', NEW w \in Workers, RunStep(w)
  PROVE  KInv'
<1>1. CInv /\ CInv'
  BY DEF KInv, OInv
<1>2. PICK j \in Jobs, l \in Labels : Continues(w, j, l)
  BY DEF RunStep
<1>3. /\ now' = now /\ fired' = fired
      /\ \A x \in Workers, role \in Roles :
           Running(x, role)' => /\ Running(x, role) /\ job'[x].cp = job[x].cp
                                /\ job'[x].since = job[x].since
      /\ \A x \in Workers :
           pc'[x] \in Writing => \/ job'[x].parent = Len(chain)
                                 \/ pc[x] \in Writing /\ job'[x].parent = job[x].parent
      /\ \A x \in Workers :
           (Running(x, "deliver")' /\ pc'[x] = "generate") => pc[x] = "generate"
  BY <1>1, <1>2, ContinueFacts
<1>4. \A x \in Workers : pc'[x] \in Writing => job'[x].parent = Len(chain)
  BY <1>3 DEF KInv, ParentIsLatest, Roles
<1>5. CASE SameVersions
  <2>1. Len(chain') = Len(chain)
    <3>1. /\ chain \in Seq(Versions) /\ chain' \in Seq(Versions)
      BY <1>1 DEF CInv, TypeOK
    <3> QED
      BY <1>5, <3>1, LenProperties DEF SameVersions
  <2> QED
    BY <1>3, <1>4, <2>1, QuietKInv
<1>6. CASE Appends(w)
  <2>1. ASSUME NEW x \in Workers, pc'[x] \in Writing
        PROVE  FALSE
    <3>1. x # w
      BY <1>6, <2>1 DEF Appends, Writing
    <3>2. PICK r \in {"prepare", "deliver"} : Running(x, r) /\ (r = "deliver" => pc[x] \in Waiting)
      <4>1. pc[x] = pc'[x] /\ job[x].role \in Roles
        BY <1>1, <1>2, <1>6, <2>1, <3>1, JobFacts, WorkFacts DEF Continues, CInv
      <4> QED
        BY <2>1, <4>1 DEF KInv, NoQuestions, NoGeneration, Running, Roles, Writing, Waiting
    <3>3. PICK s \in {"prepare", "deliver"} : Running(w, s) /\ pc[w] \in Waiting
      BY <1>1, <1>6, JobFacts DEF Appends, KInv, NoQuestions, Running, Roles, CInv, Waiting
    <3>4. job[x].cp = job[w].cp
      BY <3>2, <3>3, OneCheckpointAtATime
    <3>5. CASE r = s
      BY <3>1, <3>2, <3>3, <3>4, <3>5 DEF KInv, OneRunEach
    <3>6. CASE r # s
      BY <3>2, <3>3, <3>4, <3>6 DEF KInv, OInv, WaitIsOver
    <3> QED
      BY <3>5, <3>6
  <2> QED
    BY <1>3, <2>1, QuietKInv
<1> QED
  BY <1>5, <1>6 DEF RunStep

LEMMA WaitedKInv ==
  ASSUME KInv, OInv', NEW w \in Workers, Waited(w)
  PROVE  KInv'
<1>1. TypeOK /\ CInv /\ now' = now /\ fired' = fired /\ chain' = chain
  BY DEF KInv, OInv, CInv, Waited
<1>2. PICK j : j = [job[w] EXCEPT !.clock = ClockOf(w)]
  OBVIOUS
<1>3. j \in Jobs /\ j.role = job[w].role /\ j.cp = job[w].cp /\ j.since = job[w].since
  BY <1>1, <1>2, ClockFacts, JobFacts DEF Jobs
<1>4. Work(w, j, "refind") /\ pc[w] = "wait"
  BY <1>2 DEF Waited, AfterWaiting
<1>5. /\ pc'[w] = "refind" /\ job'[w] = j
      /\ \A x \in Workers : x # w => pc'[x] = pc[x] /\ job'[x] = job[x]
  BY <1>1, <1>3, <1>4, WorkFacts DEF Labels
<1>6. \A x \in Workers, role \in Roles :
        Running(x, role)' => /\ Running(x, role) /\ job'[x].cp = job[x].cp
                             /\ job'[x].since = job[x].since
  BY <1>3, <1>4, <1>5 DEF Running
<1>7. \A x \in Workers :
        /\ pc'[x] \in Writing => job'[x].parent = Len(chain')
        /\ (Running(x, "deliver")' /\ pc'[x] = "generate") => pc[x] = "generate"
  BY <1>1, <1>5 DEF KInv, ParentIsLatest, Running, Writing
<1> QED
  BY <1>1, <1>6, <1>7, QuietKInv

\* A timer's run starts: the first of its role and checkpoint.
LEMMA StartKInv ==
  ASSUME TimersOnly, KInv, OInv', NEW w \in Workers, NEW c \in Checkpoints,
         StartPrepare(w, c) \/ StartDeliver(w, c)
  PROVE  KInv'
<1>1. TypeOK /\ now' = now /\ chain' = chain /\ now \in Nat
  BY DEF KInv, OInv, CInv, TypeOK, StartPrepare, StartDeliver
<1>2. PICK role \in {"prepare", "deliver"} :
        /\ Work(w, NewJob(role, c), "find")
        /\ <<role, c>> \notin fired /\ fired' = fired \union {<<role, c>>}
        /\ role = "prepare" => PrepareAt[c] <= now /\ now < TargetAt[c]
        /\ role = "deliver" => TargetAt[c] <= now /\ now <= TargetAt[c] + Window
  BY DEF StartPrepare, StartDeliver, InDeliverWindow, Admitted, Fires, TimersOnly
<1>3. PICK j : j = NewJob(role, c)
  OBVIOUS
<1>4. j \in Jobs /\ j.role = role /\ j.cp = c /\ j.since = now
  BY <1>1, <1>3 DEF NewJob, Jobs, Roles
<1>5. /\ pc'[w] = "find" /\ job'[w] = j
      /\ \A x \in Workers : x # w => pc'[x] = pc[x] /\ job'[x] = job[x]
  BY <1>1, <1>2, <1>3, <1>4, WorkFacts DEF Labels
<1>6. ASSUME NEW x \in Workers, NEW r \in Roles, Running(x, r)'
      PROVE  \/ /\ x # w /\ Running(x, r) /\ job'[x] = job[x] /\ pc'[x] = pc[x]
             \/ x = w /\ r = role
  BY <1>4, <1>5, <1>6 DEF Running
<1>7. NoQuestions'
  BY <1>6 DEF KInv, NoQuestions, Roles
<1>8. UnitTimes'
  <2> SUFFICES ASSUME NEW x \in Workers
               PROVE  /\ Running(x, "prepare")' =>
                           /\ PrepareAt[job'[x].cp] <= now
                           /\ job'[x].since < TargetAt[job'[x].cp]
                           /\ now <= job'[x].since + PrepareLimit
                      /\ Running(x, "deliver")' =>
                           /\ TargetAt[job'[x].cp] <= now
                           /\ job'[x].since <= TargetAt[job'[x].cp] + Window
                           /\ now <= job'[x].since + DeliverLimit
                           /\ Prompt => \/ now <= TargetAt[job'[x].cp] + Window
                                        \/ now < TargetAt[job'[x].cp] + PrepareLimit
    BY <1>1 DEF UnitTimes
  <2>1. CASE x # w
    BY <1>5, <1>6, <2>1 DEF KInv, UnitTimes, Roles
  <2>2. CASE x = w
    BY <1>1, <1>2, <1>4, <1>5, <1>6, <2>2, NatConstants DEF Roles
  <2> QED
    BY <2>1, <2>2
<1>9. HasFired'
  BY <1>2, <1>4, <1>5, <1>6 DEF KInv, HasFired, Roles
<1>10. OneRunEach'
  <2> SUFFICES ASSUME NEW x \in Workers, NEW y \in Workers,
                      NEW r \in {"prepare", "deliver"},
                      Running(x, r)', Running(y, r)', job'[x].cp = job'[y].cp, x # y
               PROVE  FALSE
    BY DEF OneRunEach
  <2>1. CASE x # w /\ y # w
    BY <1>6, <2>1 DEF KInv, OneRunEach, Roles
  <2>2. ASSUME NEW z \in Workers, z # w, Running(z, r)', job'[z].cp = c, role = r
        PROVE  FALSE
    BY <1>2, <1>6, <2>2 DEF KInv, HasFired, Roles
  <2>3. CASE x = w \/ y = w
    BY <1>4, <1>5, <1>6, <2>2, <2>3 DEF Roles
  <2> QED
    BY <2>1, <2>3
<1>11. ParentIsLatest' /\ NoGeneration'
  BY <1>1, <1>5, <1>6 DEF KInv, ParentIsLatest, NoGeneration, Roles, Writing
<1> QED
  BY <1>7, <1>8, <1>9, <1>10, <1>11 DEF KInv

\* Time passes: no unit outlives its limit.
LEMMA TickKInv ==
  ASSUME TimersOnly, KInv, OInv', Tick
  PROVE  KInv'
<1>1. /\ TypeOK /\ now' = now + 1 /\ now \in Nat /\ UNCHANGED <<chain, fired, pc, job>>
  BY DEF KInv, OInv, CInv, TypeOK, Tick
<1>2. UnitTimes'
  <2> SUFFICES ASSUME NEW x \in Workers
               PROVE  /\ Running(x, "prepare") =>
                           /\ PrepareAt[job[x].cp] <= now + 1
                           /\ job[x].since < TargetAt[job[x].cp]
                           /\ now + 1 <= job[x].since + PrepareLimit
                      /\ Running(x, "deliver") =>
                           /\ TargetAt[job[x].cp] <= now + 1
                           /\ job[x].since <= TargetAt[job[x].cp] + Window
                           /\ now + 1 <= job[x].since + DeliverLimit
                           /\ Prompt => now + 1 < TargetAt[job[x].cp] + PrepareLimit
    BY <1>1 DEF UnitTimes, Running
  <2>1. ~Overdue(x) /\ x \in Scheduled
    BY DEF Tick, TimersOnly
  <2>2. job[x].cp \in Checkpoints /\ job[x].since \in Nat
    BY <1>1, JobFacts
  <2>3. CASE Running(x, "prepare")
    BY <1>1, <2>1, <2>2, <2>3, NatConstants DEF KInv, UnitTimes, Overdue, Limit, Running
  <2>4. CASE Running(x, "deliver")
    <3>1. /\ TargetAt[job[x].cp] <= now + 1
          /\ job[x].since <= TargetAt[job[x].cp] + Window
          /\ now + 1 <= job[x].since + DeliverLimit
      BY <1>1, <2>1, <2>2, <2>4, NatConstants DEF KInv, UnitTimes, Overdue, Limit, Running
    <3>2. ASSUME Prompt PROVE now + 1 < TargetAt[job[x].cp] + PrepareLimit
      <4>1. PICK y \in Scheduled : Running(y, "prepare") /\ job[y].cp = job[x].cp
        BY <2>4, <3>2 DEF Tick, Slow, UnitPreparing, KInv, NoGeneration, Running
      <4>2. y \in Workers /\ ~Overdue(y)
        BY DEF Tick, TimersOnly
      <4>3. job[y].since \in Nat /\ now < job[y].since + PrepareLimit
        BY <1>1, <4>1, <4>2, JobFacts, NatConstants DEF Running, Overdue, Limit
      <4>4. job[y].since < TargetAt[job[x].cp]
        BY <4>1, <4>2 DEF KInv, UnitTimes
      <4> QED
        BY <1>1, <2>2, <4>3, <4>4, NatConstants
    <3> QED
      BY <2>4, <3>1, <3>2 DEF Running
  <2> QED
    BY <2>3, <2>4
<1>3. NoQuestions' /\ HasFired' /\ OneRunEach' /\ ParentIsLatest' /\ NoGeneration'
  BY <1>1 DEF KInv, NoQuestions, NoGeneration, HasFired, OneRunEach, ParentIsLatest, Running
<1> QED
  BY <1>2, <1>3 DEF KInv

LEMMA StepKInv ==
  ASSUME TimersOnly, CheckpointsApart
  PROVE  KInv /\ [Next]_vars => KInv'
<1> SUFFICES ASSUME KInv, [Next]_vars PROVE KInv'
  OBVIOUS
<1>1. CInv /\ OInv
  BY DEF KInv, OInv
<1>2. OInv' /\ \A w \in Workers : ~StateCheckFails(w) \/ UNCHANGED vars
  BY <1>1, TimersAreVisible, StepOInv DEF UnitsAreVisible
<1>3. CASE UNCHANGED vars
  BY <1>2, <1>3 DEF vars, KInv, NoQuestions, UnitTimes, NoGeneration, HasFired, OneRunEach,
                    ParentIsLatest, Running
<1>4. ASSUME NEW w \in Workers, Ask(w) PROVE FALSE
  BY <1>4 DEF TimersOnly, Ask
<1> QED
  BY <1>1, <1>2, <1>3, <1>4, StepShape, StartKInv, WaitedKInv, RunKInv, TickKInv

\* How a run leaves its last step.
LEMMA LeavesFinalize ==
  ASSUME CInv, [Next]_vars, NEW w \in Workers, pc[w] = "finalize", pc'[w] # "finalize"
  PROVE  Finalize(w) \/ Answer(w) \/ Killed(w) \/ FailStep(w)
<1>1. TypeOK
  BY DEF CInv
<1>2. ASSUME NEW x \in Workers, NEW j, NEW l, Work(x, j, l) PROVE x = w
  BY <1>1, <1>2 DEF Work, Goto, TypeOK
<1>3. ASSUME NEW x \in Workers, x # w,
             Step(x) \/ Generate(x) \/ Killed(x) \/ FailStep(x)
      PROVE  FALSE
  <2>1. CASE Waited(x) \/ StateCheckFails(x)
    BY <1>2, <1>3, <2>1 DEF Waited, StateCheckFails, AfterWaiting
  <2>2. CASE ~Waited(x) /\ ~StateCheckFails(x)
    <3>1. PICK j \in Jobs, l \in Labels : Continues(x, j, l)
      BY <1>3, <2>2, ContinueStep, ContinueOther DEF FailStep
    <3> QED
      BY <1>2, <1>3, <3>1 DEF Continues
  <2> QED
    BY <2>1, <2>2
<1>4. ASSUME NEW x \in Workers, NEW c \in Checkpoints,
             StartPrepare(x, c) \/ StartDeliver(x, c) \/ Ask(x)
      PROVE  FALSE
  BY <1>2, <1>4 DEF StartPrepare, StartDeliver, Ask, Admitted
<1>5. ~Generate(w)
  BY DEF Generate, Generated, GenerationFails
<1>6. Step(w) => Finalize(w) \/ Answer(w)
  BY DEF Step, Find, Waited, Refind, FindNotice, Acquire, ReadParent, Recheck, Lost,
         LostNotice, Release, Dispatch, Retry
<1>7. ~Tick /\ ~UNCHANGED vars
  BY DEF Tick, vars
<1>8. Checkpoints # {}
  BY DayAssumption
<1> QED
  BY <1>3, <1>4, <1>5, <1>6, <1>7, <1>8 DEF Next

\* With timer runs only and checkpoints that are apart, what a run brings to its
\* last step is appended: nobody else has appended since it read its parent, so
\* it meets no continuation conflict (finalize_scheduled_checkpoint).
THEOREM NoRaceIsLost ==
  ASSUME TimersOnly, CheckpointsApart
  PROVE  Spec => ProductIsKept
<1> DEFINE Appended ==
      \A w \in Workers :
        (pc[w] = "finalize" /\ pc'[w] # "finalize" /\ ~Overdue(w))
          => \E v \in DOMAIN chain' : chain'[v].cp = job[w].cp /\ chain'[v].kind = KindOf(w)
<1>1. Init => KInv
  BY InitKInv
<1>2. KInv /\ [Next]_vars => KInv'
  BY StepKInv, TimersOnly, CheckpointsApart
<1>3. KInv /\ [Next]_vars => [Appended]_vars
  <2> SUFFICES ASSUME KInv, [Next]_vars, NEW w \in Workers,
                      pc[w] = "finalize", pc'[w] # "finalize", ~Overdue(w)
               PROVE  \E v \in DOMAIN chain' : chain'[v].cp = job[w].cp
                                               /\ chain'[v].kind = KindOf(w)
    OBVIOUS
  <2>1. CInv /\ TypeOK
    BY DEF KInv, OInv, CInv
  <2>2. ~FailStep(w)
    BY <2>1 DEF TimersOnly, TypeOK, FailStep, StateCheckFails, StoreFails, Crash, Fault
  <2>3. Finalize(w)
    BY <2>1, <2>2, LeavesFinalize DEF Answer, Killed, KInv, NoQuestions, Running
  <2>4. IsLatest(job[w].parent)
    BY DEF KInv, ParentIsLatest, Writing, IsLatest
  <2>5. CASE IsBound(job[w].cp, KindOf(w))
    BY <2>1, <2>3, <2>5 DEF Finalize, IsBound
  <2>6. CASE ~IsBound(job[w].cp, KindOf(w))
    <3>1. chain' = Append(chain, Version(job[w].cp, KindOf(w), job[w].parent, "pending"))
      BY <2>1, <2>3, <2>4, <2>6 DEF Finalize
    <3> QED
      BY <2>1, <3>1, AppendBinds, JobFacts DEF Phases
  <2> QED
    BY <2>5, <2>6
<1>4. (Spec => [][Appended]_vars) => (Spec => ProductIsKept)
  BY DEF ProductIsKept
<1> QED
  BY <1>1, <1>2, <1>3, <1>4, PTL DEF Spec

\* The timers alone meet the condition of OneMessagePerCheckpoint, without any
\* condition on the schedule.
THEOREM TimersSendOneMessage ==
  ASSUME TimersOnly
  PROVE  Spec => []OneProductPerCheckpoint
<1>1. CInv /\ [Next]_vars => [UnitsAreVisible]_vars
  BY TimersAreVisible, TimersOnly
<1> QED
  BY <1>1, Inductive, OneMessagePerCheckpoint, PTL DEF Spec

-----------------------------------------------------------------------------
(* Who holds a claim *)

\* Where a run can be, and that whoever may write or release has claimed.
Station(j, l) ==
  /\ j.role = "ask" => l \in {"idle", "generate", "finalize"} /\ ~j.held
  /\ j.role = "prepare" =>
       l \in {"find", "acquire", "read", "generate", "finalize", "release"} /\ j.product = 0
  /\ l = "release" => j.held
  /\ (l \in {"read", "recheck", "generate", "finalize"} /\ j.role # "ask") => j.held

\* The times a prepare run works with, the unit's limit included.
PrepareIsTimely(w, j, l) ==
  (l # "idle" /\ j.role = "prepare") =>
    /\ PrepareAt[j.cp] <= j.clock
    /\ j.since < TargetAt[j.cp]
    /\ w \in Scheduled => now <= j.since + PrepareLimit
    /\ l \in {"find", "acquire"} => j.clock <= now /\ j.clock < TargetAt[j.cp]
    /\ (l = "find" /\ w \notin Scheduled) => now < TargetAt[j.cp]

\* A deliver run is admitted in its window; it claims there, or when the
\* prepare unit it waited for has ended, and a unit before its own limit.
DeliverIsTimely(w, j, l) ==
  (l # "idle" /\ j.role = "deliver") =>
    /\ TargetAt[j.cp] <= j.clock /\ j.clock <= now
    /\ w \in Scheduled =>
         j.since <= TargetAt[j.cp] + Window /\ now <= j.since + DeliverLimit
    /\ (l \in {"find", "wait", "refind", "notice", "acquire"} /\ Prompt) =>
         \/ now <= TargetAt[j.cp] + Window
         \/ now <= TargetAt[j.cp] + PrepareLimit

Timely(w, j, l) == PrepareIsTimely(w, j, l) /\ DeliverIsTimely(w, j, l)

RunsAreTimely ==
  \A w \in Workers : Station(job[w], pc[w]) /\ Timely(w, job[w], pc[w])

\* A claim carries the time of a run that was admitted.
ClaimIsRecent ==
  \A c \in Checkpoints :
    /\ claim[<<c, "result">>] # Free => PrepareAt[c] <= claim[<<c, "result">>]
    /\ claim[<<c, "notice">>] # Free => TargetAt[c] <= claim[<<c, "notice">>]

\* The key of a run in the claimed block is claimed, or bound for good.
HeldIsClaimed ==
  \A w \in Workers :
    job[w].held => claim[KeyOf(w)] # Free \/ IsBound(job[w].cp, KindOf(w))

HInv == CInv /\ RunsAreTimely /\ ClaimIsRecent /\ HeldIsClaimed /\ SoleHolder

\* Nothing that is bound is ever freed.
BoundStays ==
  \A c \in Checkpoints, kind \in Kinds : IsBound(c, kind) => IsBound(c, kind)'

LEMMA SameVersionsStay ==
  ASSUME SameVersions
  PROVE  BoundStays
  BY DEF SameVersions, Kept, BoundStays, IsBound

LEMMA StepKeepsBound ==
  ASSUME CInv, [Next]_vars
  PROVE  BoundStays
<1>1. chain' = chain => BoundStays
  BY ChainStays, SameVersionsStay
<1>2. ASSUME NEW w \in Workers, RunStep(w) PROVE BoundStays
  <2>1. CASE Appends(w)
    <3>1. /\ DOMAIN chain = 1..Len(chain) /\ DOMAIN chain' = 1..(Len(chain) + 1)
          /\ \A v \in DOMAIN chain : chain'[v] = chain[v]
          /\ Len(chain) \in Nat
      BY <2>1, AppendView, ChainFacts DEF CInv
    <3>2. DOMAIN chain \subseteq DOMAIN chain'
      BY <3>1
    <3> QED
      BY <3>1, <3>2 DEF BoundStays, IsBound
  <2> QED
    BY <1>2, <2>1, SameVersionsStay DEF RunStep
<1>3. ASSUME NEW w \in Workers, NEW c \in Checkpoints,
             StartPrepare(w, c) \/ StartDeliver(w, c)
      PROVE  chain' = chain
  BY <1>3 DEF StartPrepare, StartDeliver
<1>4. ASSUME NEW w \in Workers, Waited(w) \/ StateCheckFails(w) \/ Ask(w)
      PROVE  chain' = chain
  BY <1>4 DEF Waited, StateCheckFails, Ask
<1>5. Tick \/ UNCHANGED vars => chain' = chain
  BY DEF Tick, vars
<1> QED
  BY <1>1, <1>2, <1>3, <1>4, <1>5, StepShape

\* Idle processes are nobody's run.
LEMMA IdleIsTimely ==
  ASSUME NEW w \in Workers
  PROVE  Station(NoJob, "idle") /\ Timely(w, NoJob, "idle")
  BY NoJobType DEF NoJob, Station, Timely, PrepareIsTimely, DeliverIsTimely

\* A step of one run that claims nothing keeps what is known of all holders.
LEMMA HoldersKept ==
  ASSUME TypeOK, HeldIsClaimed, SoleHolder, ClaimIsRecent, BoundStays, claim' = claim,
         \A x \in Workers : job'[x].held =>
           job[x].held /\ job'[x].cp = job[x].cp /\ job'[x].role = job[x].role
  PROVE  HeldIsClaimed' /\ SoleHolder' /\ ClaimIsRecent'
<1>1. ASSUME NEW x \in Workers, job'[x].held
      PROVE  /\ job[x].held /\ KeyOf(x)' = KeyOf(x) /\ KindOf(x)' = KindOf(x)
             /\ job'[x].cp = job[x].cp
  BY <1>1 DEF KeyOf, KindOf
<1>2. HeldIsClaimed'
  BY <1>1, JobFacts DEF HeldIsClaimed, BoundStays
<1>3. SoleHolder'
  BY <1>1 DEF SoleHolder
<1> QED
  BY <1>2, <1>3 DEF ClaimIsRecent

\* What one process does leaves the others where they are.
LEMMA OthersTimely ==
  ASSUME TypeOK, RunsAreTimely, NEW w \in Workers, NEW j \in Jobs, NEW l \in Labels,
         Work(w, j, l), now' = now, Station(j, l), Timely(w, j, l)
  PROVE  RunsAreTimely'
<1>1. /\ pc'[w] = l /\ job'[w] = j
      /\ \A x \in Workers : x # w => pc'[x] = pc[x] /\ job'[x] = job[x]
  BY WorkFacts
<1> QED
  BY <1>1 DEF RunsAreTimely, Station, Timely, PrepareIsTimely, DeliverIsTimely

LEMMA QuietHolders ==
  ASSUME HInv, CInv', BoundStays, NEW w \in Workers, NEW j \in Jobs, NEW l \in Labels,
         Work(w, j, l), now' = now, claim' = claim, Station(j, l), Timely(w, j, l),
         j.held => job[w].held /\ j.cp = job[w].cp /\ j.role = job[w].role
  PROVE  HInv'
<1>1. TypeOK
  BY DEF HInv, CInv
<1>2. /\ job'[w] = j
      /\ \A x \in Workers : x # w => job'[x] = job[x]
  BY <1>1, WorkFacts
<1>3. RunsAreTimely'
  BY <1>1, OthersTimely DEF HInv
<1>4. HeldIsClaimed' /\ SoleHolder' /\ ClaimIsRecent'
  BY <1>1, <1>2, HoldersKept DEF HInv
<1> QED
  BY <1>3, <1>4 DEF HInv

LEMMA LeaveHolders ==
  ASSUME HInv, CInv', BoundStays, NEW w \in Workers, Leave(w), now' = now, claim' = claim
  PROVE  HInv'
<1>1. NoJob \in Jobs /\ ~NoJob.held /\ "idle" \in Labels
  BY NoJobType DEF NoJob, Labels
<1> QED
  BY <1>1, IdleIsTimely, QuietHolders DEF Leave

LEMMA MoveHolders ==
  ASSUME HInv, CInv', BoundStays, NEW w \in Workers, NEW l \in Labels, Move(w, l),
         now' = now, claim' = claim, Station(job[w], l), Timely(w, job[w], l)
  PROVE  HInv'
<1>1. Work(w, job[w], l) /\ job[w] \in Jobs
  BY MoveIsWork DEF HInv, CInv, TypeOK
<1> QED
  BY <1>1, QuietHolders

\* A run that has found a product of its checkpoint.
LEMMA FoundHolders ==
  ASSUME HInv, CInv', BoundStays, NEW w \in Workers, NEW kind,
         IsBound(job[w].cp, kind), Found(w, kind), pc[w] # "idle",
         job[w].role # "ask", now' = now, claim' = claim
  PROVE  HInv'
<1>1. CASE job[w].role = "prepare"
  BY <1>1, LeaveHolders DEF Found
<1>2. CASE job[w].role # "prepare"
  <2> DEFINE j == [job[w] EXCEPT !.product = Bound(job[w].cp, kind)]
             l == IF job[w].held THEN "release" ELSE "dispatch"
  <2>1. TypeOK /\ job[w] \in Jobs
    BY DEF HInv, CInv, TypeOK
  <2>2. /\ j \in Jobs /\ j.role = job[w].role /\ j.cp = job[w].cp
        /\ j.held = job[w].held /\ j.clock = job[w].clock /\ j.since = job[w].since
    BY <2>1, BoundIsVersion DEF Jobs
  <2>3. l \in Labels /\ l \in {"release", "dispatch"} /\ Work(w, j, l)
    BY <1>2 DEF Found, Labels
  <2>4. job[w].role = "deliver" /\ Timely(w, job[w], pc[w])
    BY <1>2, <2>1 DEF HInv, RunsAreTimely, Jobs, Roles
  <2>5. Station(j, l)
    BY <2>2, <2>4 DEF Station
  <2>6. Timely(w, j, l)
    BY <2>2, <2>3, <2>4 DEF Timely, PrepareIsTimely, DeliverIsTimely
  <2> HIDE DEF j, l
  <2> QED
    BY <2>2, <2>3, <2>5, <2>6, QuietHolders
<1> QED
  BY <1>1, <1>2

LEMMA LookUpHolders ==
  ASSUME HInv, CInv', BoundStays, NEW w \in Workers, NEW kind, NEW l \in Labels,
         LookUp(w, kind, l), pc[w] # "idle", job[w].role # "ask",
         Station(job[w], l), Timely(w, job[w], l)
  PROVE  HInv'
  BY FoundHolders, MoveHolders DEF LookUp

\* A claim found at "acquire" is too young to be taken over.
LEMMA ClaimIsNotOld ==
  ASSUME ClaimsOutliveRuns, HInv, NEW w \in Workers, pc[w] = "acquire",
         claim[KeyOf(w)] # Free
  PROVE  ~(claim[KeyOf(w)] < job[w].clock - Ttl)
<1>1. /\ TypeOK /\ Station(job[w], pc[w]) /\ Timely(w, job[w], pc[w])
  BY DEF HInv, CInv, RunsAreTimely
<1>2. /\ job[w].cp \in Checkpoints /\ job[w].clock \in Nat /\ now \in Nat
      /\ KeyOf(w) = <<job[w].cp, KindOf(w)>> /\ job[w].role \in {"prepare", "deliver"}
  BY <1>1, JobFacts DEF Station, Roles
<1>3. claim[KeyOf(w)] \in Nat
  BY <1>1, JobFacts DEF TypeOK
<1>4. CASE job[w].role = "prepare"
  <2>1. PrepareAt[job[w].cp] <= claim[KeyOf(w)]
    BY <1>2, <1>4 DEF HInv, ClaimIsRecent, KindOf
  <2>2. job[w].clock < TargetAt[job[w].cp]
    BY <1>1, <1>2, <1>4, NatConstants DEF Timely, PrepareIsTimely
  <2> QED
    BY <1>2, <1>3, <2>1, <2>2, NatConstants DEF ClaimsOutliveRuns
<1>5. CASE job[w].role = "deliver"
  <2>1. TargetAt[job[w].cp] <= claim[KeyOf(w)]
    BY <1>2, <1>5 DEF HInv, ClaimIsRecent, KindOf
  <2>2. \/ job[w].clock <= TargetAt[job[w].cp] + Window
        \/ job[w].clock <= TargetAt[job[w].cp] + PrepareLimit
        \/ job[w].clock <= TargetAt[job[w].cp] + Window + DeliverLimit
    BY <1>1, <1>2, <1>5, JobFacts, NatConstants
       DEF ClaimsOutliveRuns, Timely, DeliverIsTimely
  <2> QED
    BY <1>2, <1>3, <2>1, <2>2, NatConstants DEF ClaimsOutliveRuns
<1> QED
  BY <1>2, <1>4, <1>5

LEMMA AcquireHolders ==
  ASSUME ClaimsOutliveRuns, HInv, CInv', BoundStays, NEW w \in Workers, Acquire(w)
  PROVE  HInv'
<1>1. /\ TypeOK /\ Station(job[w], pc[w]) /\ Timely(w, job[w], pc[w])
      /\ pc[w] = "acquire" /\ now' = now
  BY DEF HInv, CInv, RunsAreTimely, Acquire
<1>2. /\ job[w] \in Jobs /\ job[w].cp \in Checkpoints /\ job[w].clock \in Nat
      /\ KeyOf(w) = <<job[w].cp, KindOf(w)>> /\ KeyOf(w) \in Keys
      /\ job[w].role \in {"prepare", "deliver"}
  BY <1>1, JobFacts DEF Station, Roles
<1>3. CASE ~Acquirable(w)
  <2>1. claim' = claim
    BY <1>3 DEF Acquire
  <2>2. CASE job[w].role = "prepare"
    BY <1>1, <1>3, <2>1, <2>2, LeaveHolders DEF Acquire
  <2>3. CASE job[w].role = "deliver"
    <3>1. Station(job[w], "lost") /\ Timely(w, job[w], "lost")
      BY <1>1, <2>3 DEF Station, Timely, PrepareIsTimely, DeliverIsTimely
    <3> QED
      BY <1>1, <1>3, <2>1, <2>3, <3>1, MoveHolders DEF Acquire, Labels
  <2> QED
    BY <1>2, <2>2, <2>3
<1>4. CASE Acquirable(w)
  <2> DEFINE j == [job[w] EXCEPT !.held = TRUE]
  <2>1. /\ j \in Jobs /\ j.held /\ j.cp = job[w].cp /\ j.role = job[w].role
        /\ j.clock = job[w].clock /\ j.since = job[w].since
        /\ j.product = job[w].product
    BY <1>2 DEF Jobs
  <2>2. Work(w, j, "read") /\ claim' = [claim EXCEPT ![KeyOf(w)] = job[w].clock]
    BY <1>4 DEF Acquire
  <2>3. Station(j, "read") /\ Timely(w, j, "read")
    BY <1>1, <1>2, <2>1 DEF Station, Timely, PrepareIsTimely, DeliverIsTimely
  <2> HIDE DEF j
  <2>4. /\ job'[w] = j
        /\ \A x \in Workers : x # w => job'[x] = job[x]
    BY <1>1, <2>1, <2>2, WorkFacts DEF Labels
  <2>5. RunsAreTimely'
    BY <1>1, <2>1, <2>2, <2>3, OthersTimely DEF HInv, Labels
  <2>6. \A x \in Workers :
          /\ KeyOf(x)' = KeyOf(x) /\ KindOf(x)' = KindOf(x) /\ job'[x].cp = job[x].cp
          /\ x # w => job'[x].held = job[x].held
    BY <2>1, <2>4 DEF KeyOf, KindOf
  <2>7. \A x \in Workers : (job[x].held /\ KeyOf(x) = KeyOf(w)) => x = w
    <3> SUFFICES ASSUME NEW x \in Workers, job[x].held, KeyOf(x) = KeyOf(w), x # w
                 PROVE  FALSE
      OBVIOUS
    <3>1. claim[KeyOf(w)] # Free \/ IsBound(job[x].cp, KindOf(x))
      BY DEF HInv, HeldIsClaimed
    <3>2. job[x].cp = job[w].cp /\ KindOf(x) = KindOf(w)
      BY <1>2 DEF KeyOf
    <3> QED
      BY <1>1, <1>4, <3>1, <3>2, ClaimIsNotOld DEF Acquirable
  <2>8. SoleHolder'
    BY <2>6, <2>7 DEF HInv, SoleHolder
  <2>9. claim'[KeyOf(w)] = job[w].clock /\ \A k \in Keys : k # KeyOf(w) => claim'[k] = claim[k]
    BY <1>1, <1>2, <2>2 DEF TypeOK
  <2>10. HeldIsClaimed'
    <3> SUFFICES ASSUME NEW x \in Workers, job'[x].held
                 PROVE  claim'[KeyOf(x)] # Free \/ IsBound(job[x].cp, KindOf(x))'
      BY <2>6 DEF HeldIsClaimed
    <3>1. CASE KeyOf(x) = KeyOf(w)
      BY <1>2, <2>9, <3>1 DEF Free
    <3>2. CASE KeyOf(x) # KeyOf(w)
      <4>1. KeyOf(x) \in Keys /\ job[x].held /\ job[x].cp \in Checkpoints
            /\ KindOf(x) \in Kinds /\ job'[x].cp = job[x].cp
        BY <1>1, <2>6, <3>2, JobFacts
      <4>2. claim[KeyOf(x)] # Free \/ IsBound(job[x].cp, KindOf(x))
        BY <4>1 DEF HInv, HeldIsClaimed
      <4> QED
        BY <2>6, <2>9, <3>2, <4>1, <4>2 DEF BoundStays
    <3> QED
      BY <3>1, <3>2
  <2>11. ClaimIsRecent'
    <3>1. job[w].role = "prepare" => PrepareAt[job[w].cp] <= job[w].clock
      BY <1>1 DEF Timely, PrepareIsTimely
    <3>2. job[w].role = "deliver" => TargetAt[job[w].cp] <= job[w].clock
      BY <1>1 DEF Timely, DeliverIsTimely
    <3> SUFFICES ASSUME NEW c \in Checkpoints
                 PROVE  /\ claim'[<<c, "result">>] # Free
                             => PrepareAt[c] <= claim'[<<c, "result">>]
                        /\ claim'[<<c, "notice">>] # Free
                             => TargetAt[c] <= claim'[<<c, "notice">>]
      BY DEF ClaimIsRecent
    <3>3. <<c, "result">> \in Keys /\ <<c, "notice">> \in Keys
      BY DEF Keys
    <3>4. KeyOf(w) = <<job[w].cp, IF job[w].role = "prepare" THEN "result" ELSE "notice">>
      BY DEF KeyOf, KindOf
    <3>5. claim[<<c, "result">>] # Free => PrepareAt[c] <= claim[<<c, "result">>]
      BY DEF HInv, ClaimIsRecent
    <3>6. claim[<<c, "notice">>] # Free => TargetAt[c] <= claim[<<c, "notice">>]
      BY DEF HInv, ClaimIsRecent
    <3>7. CASE job[w].role = "prepare"
      BY <2>9, <3>1, <3>3, <3>4, <3>5, <3>6, <3>7
    <3>8. CASE job[w].role = "deliver"
      BY <2>9, <3>2, <3>3, <3>4, <3>5, <3>6, <3>8
    <3> QED
      BY <1>2, <3>7, <3>8
  <2> QED
    BY <2>5, <2>8, <2>10, <2>11 DEF HInv
<1> QED
  BY <1>3, <1>4

\* A run that frees its own key frees no other's, and afterwards either holds
\* nothing or has bound the key.
LEMMA FreeHolders ==
  ASSUME HInv, CInv', BoundStays, NEW w \in Workers, NEW j \in Jobs, NEW l \in Labels,
         Work(w, j, l), now' = now, claim' = [claim EXCEPT ![KeyOf(w)] = Free],
         job[w].held, Station(j, l), Timely(w, j, l),
         j.held => /\ j.cp = job[w].cp /\ j.role = job[w].role
                   /\ IsBound(job[w].cp, KindOf(w))'
  PROVE  HInv'
<1>1. TypeOK
  BY DEF HInv, CInv
<1>2. /\ job'[w] = j
      /\ \A x \in Workers : x # w => job'[x] = job[x]
  BY <1>1, WorkFacts
<1>3. RunsAreTimely'
  BY <1>1, OthersTimely DEF HInv
<1>4. \A x \in Workers : job'[x].held =>
        /\ job[x].held /\ KeyOf(x)' = KeyOf(x) /\ KindOf(x)' = KindOf(x)
        /\ job'[x].cp = job[x].cp
  BY <1>2 DEF KeyOf, KindOf
<1>5. KeyOf(w) \in Keys /\ \A k \in Keys : k # KeyOf(w) => claim'[k] = claim[k]
  BY <1>1, JobFacts DEF TypeOK
<1>6. \A k \in Keys : claim'[k] = Free \/ claim'[k] = claim[k]
  BY <1>1, <1>5 DEF TypeOK
<1>7. SoleHolder'
  BY <1>4 DEF HInv, SoleHolder
<1>8. HeldIsClaimed'
  <2> SUFFICES ASSUME NEW x \in Workers, job'[x].held
               PROVE  claim'[KeyOf(x)] # Free \/ IsBound(job[x].cp, KindOf(x))'
    BY <1>4 DEF HeldIsClaimed
  <2>1. CASE x = w
    BY <1>2, <2>1
  <2>2. CASE x # w
    <3>1. KeyOf(x) \in Keys /\ job[x].cp \in Checkpoints /\ KindOf(x) \in Kinds
      BY <1>1, JobFacts
    <3>2. KeyOf(x) # KeyOf(w)
      BY <1>4, <2>2 DEF HInv, SoleHolder
    <3>3. claim[KeyOf(x)] # Free \/ IsBound(job[x].cp, KindOf(x))
      BY <1>4 DEF HInv, HeldIsClaimed
    <3> QED
      BY <1>4, <1>5, <3>1, <3>2, <3>3 DEF BoundStays
  <2> QED
    BY <2>1, <2>2
<1>9. ClaimIsRecent'
  <2>1. \A c \in Checkpoints : <<c, "result">> \in Keys /\ <<c, "notice">> \in Keys
    BY DEF Keys
  <2> QED
    BY <1>6, <2>1 DEF HInv, ClaimIsRecent
<1> QED
  BY <1>3, <1>7, <1>8, <1>9 DEF HInv

LEMMA InitHolders == Init => HInv
<1> SUFFICES ASSUME Init PROVE HInv
  OBVIOUS
<1>1. CInv
  BY InitCInv
<1>2. \A w \in Workers : pc[w] = "idle" /\ job[w] = NoJob
  BY DEF Init
<1>3. RunsAreTimely
  BY <1>2, IdleIsTimely DEF RunsAreTimely
<1>4. ~NoJob.held
  BY DEF NoJob
<1>5. HeldIsClaimed /\ SoleHolder
  BY <1>2, <1>4 DEF HeldIsClaimed, SoleHolder
<1>6. ClaimIsRecent
  BY DEF Init, ClaimIsRecent, Keys
<1> QED
  BY <1>1, <1>3, <1>5, <1>6 DEF HInv

LEMMA StartHolders ==
  ASSUME HInv, CInv', BoundStays, NEW w \in Workers, NEW c \in Checkpoints,
         StartPrepare(w, c) \/ StartDeliver(w, c)
  PROVE  HInv'
<1>1. now \in Nat
  BY DEF HInv, CInv, TypeOK
<1>2. now' = now /\ claim' = claim
  BY DEF StartPrepare, StartDeliver
<1>3. PICK role \in {"prepare", "deliver"} :
        /\ Work(w, NewJob(role, c), "find")
        /\ role = "prepare" => PrepareAt[c] <= now /\ now < TargetAt[c]
        /\ role = "deliver" => TargetAt[c] <= now /\ now <= TargetAt[c] + Window
  BY DEF StartPrepare, StartDeliver, InDeliverWindow
<1>4. PICK j : j = NewJob(role, c)
  OBVIOUS
<1>5. /\ j \in Jobs /\ j.role = role /\ j.cp = c /\ j.clock = now /\ j.since = now
      /\ ~j.held /\ j.product = 0
  BY <1>1, <1>4 DEF NewJob, Jobs, Roles
<1>6. Station(j, "find")
  BY <1>5 DEF Station
<1>7. Timely(w, j, "find")
  BY <1>1, <1>3, <1>5, NatConstants DEF Timely, PrepareIsTimely, DeliverIsTimely
<1> QED
  BY <1>2, <1>3, <1>4, <1>5, <1>6, <1>7, QuietHolders DEF Labels

\* Reading the clock keeps it between the run's admission and the present.
LEMMA ClockIsTimely ==
  ASSUME HInv, NEW w \in Workers, pc[w] # "idle", job[w].role # "ask",
         PrepareIsTimely(w, job[w], "find") \/ job[w].role = "deliver"
  PROVE  /\ job[w].role = "prepare" =>
              /\ PrepareAt[job[w].cp] <= ClockOf(w) /\ ClockOf(w) <= now
              /\ ClockOf(w) < TargetAt[job[w].cp]
         /\ job[w].role = "deliver" =>
              TargetAt[job[w].cp] <= ClockOf(w) /\ ClockOf(w) <= now
<1>1. /\ TypeOK /\ Timely(w, job[w], pc[w])
  BY DEF HInv, CInv, RunsAreTimely
<1>2. now \in Nat /\ job[w].clock \in Nat /\ job[w].cp \in Checkpoints
  BY <1>1, JobFacts
<1> QED
  BY <1>1, <1>2, NatConstants DEF Timely, PrepareIsTimely, DeliverIsTimely, ClockOf

LEMMA FindHolders ==
  ASSUME HInv, CInv', BoundStays, NEW w \in Workers, Find(w)
  PROVE  HInv'
<1>1. /\ TypeOK /\ Station(job[w], pc[w]) /\ Timely(w, job[w], pc[w])
      /\ pc[w] = "find" /\ now' = now /\ claim' = claim
  BY DEF HInv, CInv, RunsAreTimely, Find
<1>2. /\ job[w] \in Jobs /\ job[w].role \in {"prepare", "deliver"} /\ now \in Nat
      /\ job[w].cp \in Checkpoints
  BY <1>1, JobFacts DEF Station, Roles
<1>3. CASE IsBound(job[w].cp, "result")
  BY <1>1, <1>2, <1>3, FoundHolders DEF Find
<1>4. CASE ~IsBound(job[w].cp, "result")
  <2>1. PICK l : l = IF job[w].role = "prepare" THEN "acquire" ELSE "wait"
    OBVIOUS
  <2>2. PICK j : j = [job[w] EXCEPT !.clock = ClockOf(w)]
    OBVIOUS
  <2>3. /\ j \in Jobs /\ j.role = job[w].role /\ j.cp = job[w].cp
        /\ j.held = job[w].held /\ j.since = job[w].since /\ j.clock = ClockOf(w)
        /\ j.product = job[w].product
    BY <1>2, <2>2, ClockFacts DEF Jobs, HInv
  <2>4. Work(w, j, l) /\ l \in Labels
    BY <1>4, <2>1, <2>2 DEF Find, Labels
  <2>5. Station(j, l)
    BY <1>1, <1>2, <2>1, <2>3 DEF Station
  <2>6. Timely(w, j, l)
    BY <1>1, <1>2, <2>1, <2>3, ClockIsTimely, NatConstants
       DEF Timely, PrepareIsTimely, DeliverIsTimely
  <2> QED
    BY <1>1, <2>3, <2>4, <2>5, <2>6, QuietHolders
<1> QED
  BY <1>3, <1>4

LEMMA WaitHolders ==
  ASSUME HInv, CInv', BoundStays, NEW w \in Workers, Waited(w) \/ StateCheckFails(w)
  PROVE  HInv'
<1>1. /\ TypeOK /\ Station(job[w], pc[w]) /\ Timely(w, job[w], pc[w])
      /\ pc[w] = "wait" /\ now' = now /\ claim' = claim
  BY DEF HInv, CInv, RunsAreTimely, Waited, StateCheckFails
<1>2. /\ job[w] \in Jobs /\ job[w].role = "deliver" /\ now \in Nat
      /\ job[w].cp \in Checkpoints
  BY <1>1, JobFacts DEF Station, Roles
<1>3. PICK j : j = [job[w] EXCEPT !.clock = ClockOf(w)]
  OBVIOUS
<1>4. /\ j \in Jobs /\ j.role = job[w].role /\ j.cp = job[w].cp
      /\ j.held = job[w].held /\ j.since = job[w].since /\ j.clock = ClockOf(w)
        /\ j.product = job[w].product
  BY <1>2, <1>3, ClockFacts DEF Jobs, HInv
<1>5. Work(w, j, "refind")
  BY <1>3 DEF Waited, StateCheckFails, AfterWaiting
<1>6. Station(j, "refind")
  BY <1>1, <1>2, <1>4 DEF Station
<1>7. Timely(w, j, "refind")
  BY <1>1, <1>2, <1>4, ClockIsTimely DEF Timely, PrepareIsTimely, DeliverIsTimely
<1> QED
  BY <1>1, <1>4, <1>5, <1>6, <1>7, QuietHolders DEF Labels

LEMMA LookUpsHolders ==
  ASSUME HInv, CInv', BoundStays, NEW w \in Workers,
         Refind(w) \/ FindNotice(w) \/ Recheck(w) \/ Lost(w)
  PROVE  HInv'
<1>1. /\ TypeOK /\ Station(job[w], pc[w]) /\ Timely(w, job[w], pc[w])
  BY DEF HInv, CInv, RunsAreTimely
<1>2. job[w].role = "deliver" /\ pc[w] # "idle"
  BY <1>1, JobFacts DEF Station, Roles, Refind, FindNotice, Recheck, Lost
<1>3. PICK kind \in {"result", "notice"}, l \in Labels :
        /\ LookUp(w, kind, l)
        /\ \/ pc[w] = "refind" /\ l = "notice"
           \/ pc[w] = "notice" /\ l = "acquire"
           \/ pc[w] = "recheck" /\ l = "finalize"
           \/ pc[w] = "lost" /\ l = "lostNotice"
  BY DEF Refind, FindNotice, Recheck, Lost, Labels
<1>4. Station(job[w], l) /\ Timely(w, job[w], l)
  BY <1>1, <1>2, <1>3 DEF Station, Timely, PrepareIsTimely, DeliverIsTimely
<1> QED
  BY <1>2, <1>3, <1>4, LookUpHolders

LEMMA ReadHolders ==
  ASSUME HInv, CInv', BoundStays, NEW w \in Workers, ReadParent(w)
  PROVE  HInv'
<1>1. /\ TypeOK /\ Station(job[w], pc[w]) /\ Timely(w, job[w], pc[w])
      /\ pc[w] = "read" /\ now' = now /\ claim' = claim
  BY DEF HInv, CInv, RunsAreTimely, ReadParent
<1>2. /\ job[w] \in Jobs /\ job[w].role \in {"prepare", "deliver"} /\ job[w].held
      /\ Len(chain) \in Nat
  BY <1>1, JobFacts, ChainFacts DEF Station, Roles
<1>3. PICK j : j = [job[w] EXCEPT !.parent = Len(chain)]
  OBVIOUS
<1>4. /\ j \in Jobs /\ j.role = job[w].role /\ j.cp = job[w].cp /\ j.held
      /\ j.since = job[w].since /\ j.clock = job[w].clock /\ j.since = job[w].since
        /\ j.product = job[w].product
  BY <1>2, <1>3 DEF Jobs
<1>5. PICK l : l = IF job[w].role = "prepare" THEN "generate" ELSE "recheck"
  OBVIOUS
<1>6. Work(w, j, l) /\ l \in Labels
  BY <1>3, <1>5 DEF ReadParent, Labels
<1>7. Station(j, l) /\ Timely(w, j, l)
  BY <1>1, <1>2, <1>4, <1>5 DEF Station, Timely, PrepareIsTimely, DeliverIsTimely
<1> QED
  BY <1>1, <1>2, <1>4, <1>6, <1>7, QuietHolders

LEMMA GenerateHolders ==
  ASSUME HInv, CInv', BoundStays, NEW w \in Workers, Generate(w)
  PROVE  HInv'
<1>1. /\ TypeOK /\ Station(job[w], pc[w]) /\ Timely(w, job[w], pc[w])
      /\ pc[w] = "generate" /\ now' = now /\ claim' = claim
  BY DEF HInv, CInv, RunsAreTimely, Generate, Generated, GenerationFails
<1>2. job[w].role \in Roles
  BY <1>1, JobFacts
<1>3. CASE Generated(w)
  <2>1. Station(job[w], "finalize") /\ Timely(w, job[w], "finalize")
    BY <1>1, <1>2, <1>3
       DEF Generated, Roles, Station, Timely, PrepareIsTimely, DeliverIsTimely
  <2> QED
    BY <1>1, <1>3, <2>1, MoveHolders DEF Generated, Labels
<1>4. CASE GenerationFails(w)
  <2>1. CASE job[w].held
    <3>1. Station(job[w], "release") /\ Timely(w, job[w], "release")
      BY <1>1, <1>2, <2>1 DEF Roles, Station, Timely, PrepareIsTimely, DeliverIsTimely
    <3> QED
      BY <1>1, <1>4, <2>1, <3>1, MoveHolders DEF GenerationFails, Labels
  <2>2. CASE ~job[w].held
    BY <1>1, <1>4, <2>2, LeaveHolders DEF GenerationFails
  <2> QED
    BY <2>1, <2>2
<1> QED
  BY <1>3, <1>4 DEF Generate

LEMMA ReleaseHolders ==
  ASSUME HInv, CInv', BoundStays, NEW w \in Workers, Release(w)
  PROVE  HInv'
<1>1. /\ TypeOK /\ Station(job[w], pc[w]) /\ Timely(w, job[w], pc[w])
      /\ pc[w] = "release" /\ now' = now
      /\ claim' = [claim EXCEPT ![KeyOf(w)] = Free]
  BY DEF HInv, CInv, RunsAreTimely, Release
<1>2. job[w] \in Jobs /\ job[w].held /\ job[w].role \in {"prepare", "deliver"}
  BY <1>1, JobFacts DEF Station, Roles
<1>3. CASE Leave(w)
  <2>1. NoJob \in Jobs /\ ~NoJob.held
    BY NoJobType DEF NoJob
  <2> QED
    BY <1>1, <1>2, <1>3, <2>1, IdleIsTimely, FreeHolders DEF Leave, Labels
<1>4. CASE ~Leave(w)
  <2>1. PICK j : j = [job[w] EXCEPT !.held = FALSE]
    OBVIOUS
  <2>2. Work(w, j, "dispatch") /\ job[w].product # 0
    BY <1>4, <2>1 DEF Release
  <2>3. /\ j \in Jobs /\ j.role = job[w].role /\ j.cp = job[w].cp /\ ~j.held
        /\ j.clock = job[w].clock /\ j.since = job[w].since
    BY <1>2, <2>1 DEF Jobs
  <2>4. Station(j, "dispatch") /\ Timely(w, j, "dispatch")
    BY <1>1, <1>2, <2>2, <2>3 DEF Station, Timely, PrepareIsTimely, DeliverIsTimely
  <2> QED
    BY <1>1, <1>2, <2>2, <2>3, <2>4, FreeHolders DEF Labels
<1> QED
  BY <1>3, <1>4

LEMMA FinalizeHolders ==
  ASSUME HInv, CInv', BoundStays, NEW w \in Workers, Finalize(w)
  PROVE  HInv'
<1>1. /\ TypeOK /\ Station(job[w], pc[w]) /\ Timely(w, job[w], pc[w])
      /\ pc[w] = "finalize" /\ now' = now
  BY DEF HInv, CInv, RunsAreTimely, Finalize
<1>2. /\ job[w] \in Jobs /\ job[w].held /\ job[w].role \in {"prepare", "deliver"}
      /\ job[w].role # "ask" /\ Len(chain) \in Nat /\ job[w].cp \in Checkpoints
      /\ KindOf(w) \in Kinds
  BY <1>1, JobFacts, ChainFacts DEF Finalize, Station, Roles
<1>3. CASE IsBound(job[w].cp, KindOf(w))
  <2>1. Found(w, KindOf(w)) /\ claim' = claim
    BY <1>3 DEF Finalize
  <2> QED
    BY <1>1, <1>2, <1>3, <2>1, FoundHolders
<1>4. CASE ~IsBound(job[w].cp, KindOf(w)) /\ ~IsLatest(job[w].parent)
  <2>1. PICK l : l = IF job[w].role = "prepare" THEN "release" ELSE "lost"
    OBVIOUS
  <2>2. Move(w, l) /\ l \in Labels /\ claim' = claim
    BY <1>4, <2>1 DEF Finalize, Labels
  <2>3. Station(job[w], l) /\ Timely(w, job[w], l)
    BY <1>1, <1>2, <2>1 DEF Station, Timely, PrepareIsTimely, DeliverIsTimely
  <2> QED
    BY <1>1, <2>2, <2>3, MoveHolders
<1>5. CASE ~IsBound(job[w].cp, KindOf(w)) /\ IsLatest(job[w].parent)
  <2>1. claim' = [claim EXCEPT ![KeyOf(w)] = Free]
    BY <1>5 DEF Finalize
  <2>2. CASE job[w].role = "prepare"
    <3>1. Leave(w)
      BY <1>5, <2>2 DEF Finalize
    <3>2. NoJob \in Jobs /\ ~NoJob.held
      BY NoJobType DEF NoJob
    <3> QED
      BY <1>1, <1>2, <2>1, <3>1, <3>2, IdleIsTimely, FreeHolders DEF Leave, Labels
  <2>3. CASE job[w].role = "deliver"
    <3>1. PICK j : j = [job[w] EXCEPT !.product = Len(chain) + 1]
      OBVIOUS
    <3>2. Work(w, j, "release")
      BY <1>5, <2>3, <3>1 DEF Finalize
    <3>3. /\ j \in Jobs /\ j.role = job[w].role /\ j.cp = job[w].cp /\ j.held
          /\ j.clock = job[w].clock /\ j.since = job[w].since
      BY <1>2, <3>1 DEF Jobs
    <3>4. Station(j, "release") /\ Timely(w, j, "release")
      BY <1>1, <2>3, <3>3 DEF Station, Timely, PrepareIsTimely, DeliverIsTimely
    <3>5. chain' = Append(chain, Version(job[w].cp, KindOf(w), job[w].parent, "pending"))
      BY <1>5 DEF Finalize
    <3>6. \E v \in DOMAIN chain' : chain'[v].cp = job[w].cp /\ chain'[v].kind = KindOf(w)
      BY <1>1, <1>2, <3>5, AppendBinds, JobFacts DEF Phases
    <3>7. job'[w] = j
      BY <1>1, <3>2, <3>3, WorkFacts DEF Labels
    <3>8. IsBound(job[w].cp, KindOf(w))'
      BY <3>3, <3>6, <3>7 DEF IsBound, KindOf
    <3> QED
      BY <1>1, <1>2, <2>1, <3>2, <3>3, <3>4, <3>8, FreeHolders DEF Labels
  <2> QED
    BY <1>2, <2>2, <2>3
<1> QED
  BY <1>3, <1>4, <1>5

LEMMA LostNoticeHolders ==
  ASSUME HInv, CInv', BoundStays, NEW w \in Workers, LostNotice(w)
  PROVE  HInv'
<1>1. /\ TypeOK /\ Station(job[w], pc[w]) /\ Timely(w, job[w], pc[w])
      /\ pc[w] = "lostNotice" /\ now' = now /\ claim' = claim
  BY DEF HInv, CInv, RunsAreTimely, LostNotice
<1>2. job[w].role = "deliver"
  BY <1>1, JobFacts DEF Station, Roles
<1>3. job[w].held => Station(job[w], "release") /\ Timely(w, job[w], "release")
  BY <1>1, <1>2 DEF Station, Timely, PrepareIsTimely, DeliverIsTimely
<1> QED
  BY <1>1, <1>2, <1>3, FoundHolders, MoveHolders, LeaveHolders DEF LostNotice, Labels

LEMMA DispatchHolders ==
  ASSUME HInv, CInv', BoundStays, NEW w \in Workers, Dispatch(w)
  PROVE  HInv'
<1>1. /\ TypeOK /\ Station(job[w], pc[w]) /\ Timely(w, job[w], pc[w])
      /\ pc[w] = "dispatch" /\ now' = now /\ claim' = claim
  BY DEF HInv, CInv, RunsAreTimely, Dispatch
<1>2. Move(w, "retry") \/ Leave(w)
  BY DEF Dispatch
<1>3. job[w].role = "deliver"
  BY <1>1, JobFacts DEF Station, Roles
<1>4. Station(job[w], "retry") /\ Timely(w, job[w], "retry")
  BY <1>1, <1>3 DEF Station, Timely, PrepareIsTimely, DeliverIsTimely
<1> QED
  BY <1>1, <1>2, <1>4, MoveHolders, LeaveHolders DEF Labels

LEMMA RetryHolders ==
  ASSUME HInv, CInv', BoundStays, NEW w \in Workers, Retry(w)
  PROVE  HInv'
<1>1. /\ TypeOK /\ Station(job[w], pc[w]) /\ Timely(w, job[w], pc[w])
      /\ pc[w] = "retry" /\ now' = now /\ claim' = claim
  BY DEF HInv, CInv, RunsAreTimely, Retry
<1>2. job[w] \in Jobs /\ job[w].role = "deliver" /\ now \in Nat /\ job[w].cp \in Checkpoints
  BY <1>1, JobFacts DEF Station, Roles
<1>3. CASE Leave(w)
  BY <1>1, <1>3, LeaveHolders
<1>4. CASE ~Leave(w)
  <2>1. PICK j : j = [job[w] EXCEPT !.retry = TRUE, !.clock = now,
                                    !.product = 0, !.parent = 0]
    OBVIOUS
  <2>2. Work(w, j, "find") /\ InDeliverWindow(job[w].cp)
    BY <1>4, <2>1 DEF Retry
  <2>3. /\ j \in Jobs /\ j.role = job[w].role /\ j.cp = job[w].cp
        /\ j.held = job[w].held /\ j.clock = now /\ j.since = job[w].since
    BY <1>2, <2>1 DEF Jobs
  <2>4. Station(j, "find") /\ Timely(w, j, "find")
    BY <1>1, <1>2, <2>2, <2>3, NatConstants
       DEF InDeliverWindow, Station, Timely, PrepareIsTimely, DeliverIsTimely
  <2> QED
    BY <1>1, <2>2, <2>3, <2>4, QuietHolders DEF Labels
<1> QED
  BY <1>3, <1>4

LEMMA AskHolders ==
  ASSUME HInv, CInv', BoundStays, NEW w \in Workers, Ask(w) \/ Answer(w)
  PROVE  HInv'
<1>1. now' = now /\ claim' = claim
  BY DEF Ask, Answer
<1>2. CASE Answer(w)
  BY <1>1, <1>2, LeaveHolders DEF Answer
<1>3. CASE Ask(w)
  <2>1. PICK j : j = [NoJob EXCEPT !.parent = Len(chain), !.since = now]
    OBVIOUS
  <2>2. Work(w, j, "generate")
    BY <1>3, <2>1 DEF Ask
  <2>3. Len(chain) \in Nat /\ now \in Nat
    BY ChainFacts DEF HInv, CInv, TypeOK
  <2>4. NoJob \in Jobs /\ NoJob.role = "ask" /\ ~NoJob.held
    BY NoJobType DEF NoJob
  <2>5. j \in Jobs /\ j.role = "ask" /\ ~j.held
    BY <2>1, <2>3, <2>4 DEF Jobs
  <2>6. Station(j, "generate") /\ Timely(w, j, "generate")
    BY <2>5 DEF Station, Timely, PrepareIsTimely, DeliverIsTimely
  <2> QED
    BY <1>1, <2>2, <2>5, <2>6, QuietHolders DEF Labels
<1> QED
  BY <1>2, <1>3

\* A process that dies leaves its claim, and holds it no more.
LEMMA FailHolders ==
  ASSUME HInv, CInv', BoundStays, NEW w \in Workers,
         Killed(w) \/ Crash(w) \/ StoreFails(w)
  PROVE  HInv'
<1>1. /\ TypeOK /\ Station(job[w], pc[w]) /\ Timely(w, job[w], pc[w])
      /\ now' = now /\ claim' = claim
  BY DEF HInv, CInv, RunsAreTimely, Killed, Crash, StoreFails
<1>2. CASE Leave(w)
  BY <1>1, <1>2, LeaveHolders
<1>3. CASE StoreFails(w)
  <2>1. Station(job[w], "release") /\ Timely(w, job[w], "release")
    BY <1>1, <1>3, JobFacts
       DEF StoreFails, Station, Timely, PrepareIsTimely, DeliverIsTimely, Roles
  <2> QED
    BY <1>1, <1>3, <2>1, MoveHolders DEF StoreFails, Labels
<1> QED
  BY <1>2, <1>3 DEF Killed, Crash

\* While time passes no unit outlives its limit, and a run that is prompt waits
\* for the prepare unit at most until that unit's limit.
LEMMA TickHolders ==
  ASSUME ClaimsOutliveRuns, HInv, CInv', Tick
  PROVE  HInv'
<1>1. /\ now' = now + 1 /\ now \in Nat /\ TypeOK
      /\ UNCHANGED <<chain, claim, pc, job>>
  BY DEF HInv, CInv, TypeOK, Tick
<1>2. ASSUME NEW w \in Workers
      PROVE  Station(job[w], pc[w])' /\ Timely(w, job[w], pc[w])'
  <2>1. ~Overdue(w) /\ (Prompt => Slow(w)) /\ (Prompt \/ w \in Scheduled)
    BY DEF Tick, ClaimsOutliveRuns
  <2>2. Station(job[w], pc[w]) /\ Timely(w, job[w], pc[w])
    BY DEF HInv, RunsAreTimely
  <2>3. /\ job[w].cp \in Checkpoints /\ job[w].clock \in Nat /\ job[w].since \in Nat
    BY <1>1, JobFacts
  <2>4. PrepareIsTimely(w, job[w], pc[w])'
    BY <1>1, <2>1, <2>2, <2>3, NatConstants
       DEF Timely, PrepareIsTimely, Overdue, Limit, Slow
  <2>5. ASSUME pc[w] = "wait", Prompt
        PROVE  now + 1 <= TargetAt[job[w].cp] + PrepareLimit
    <3>1. PICK x \in Scheduled : Running(x, "prepare") /\ job[x].cp = job[w].cp
      BY <2>1, <2>5 DEF Slow, UnitPreparing
    <3>2. x \in Workers /\ ~Overdue(x)
      BY DayAssumption DEF Tick
    <3>3. /\ pc[x] # "idle" /\ job[x].role = "prepare"
          /\ now < job[x].since + PrepareLimit
      BY <1>1, <3>1, <3>2, JobFacts, NatConstants DEF Running, Overdue, Limit
    <3>4. job[x].since < TargetAt[job[w].cp]
      BY <3>1, <3>2, <3>3 DEF HInv, RunsAreTimely, Timely, PrepareIsTimely
    <3> QED
      BY <1>1, <2>3, <3>2, <3>3, <3>4, JobFacts, NatConstants
  <2>6. DeliverIsTimely(w, job[w], pc[w])'
    <3> SUFFICES ASSUME pc[w] # "idle", job[w].role = "deliver"
                 PROVE  /\ TargetAt[job[w].cp] <= job[w].clock /\ job[w].clock <= now + 1
                        /\ w \in Scheduled =>
                             /\ job[w].since <= TargetAt[job[w].cp] + Window
                             /\ now + 1 <= job[w].since + DeliverLimit
                        /\ Prompt => (pc[w] = "wait" \/ pc[w] = "generate")
      BY <1>1, <2>5 DEF DeliverIsTimely
    <3> QED
      BY <1>1, <2>1, <2>2, <2>3, NatConstants
         DEF Timely, DeliverIsTimely, Overdue, Limit, Slow
  <2> QED
    BY <1>1, <2>2, <2>4, <2>6 DEF Station, Timely
<1>3. RunsAreTimely'
  BY <1>2 DEF RunsAreTimely
<1>4. ClaimIsRecent' /\ HeldIsClaimed' /\ SoleHolder'
  BY <1>1 DEF HInv, ClaimIsRecent, HeldIsClaimed, SoleHolder, KeyOf, KindOf, IsBound
<1> QED
  BY <1>3, <1>4 DEF HInv

LEMMA StepHInv == ClaimsOutliveRuns /\ HInv /\ [Next]_vars => HInv'
<1> SUFFICES ASSUME ClaimsOutliveRuns, HInv, [Next]_vars PROVE HInv'
  OBVIOUS
<1>1. CInv /\ CInv'
  BY StepCInv DEF HInv
<1>2. BoundStays
  BY <1>1, StepKeepsBound
<1>3. CASE UNCHANGED vars
  <2>1. RunsAreTimely'
    BY <1>3 DEF vars, HInv, RunsAreTimely, Station, Timely, PrepareIsTimely, DeliverIsTimely
  <2>2. ClaimIsRecent' /\ HeldIsClaimed' /\ SoleHolder'
    BY <1>3 DEF vars, HInv, ClaimIsRecent, HeldIsClaimed, SoleHolder, KeyOf, KindOf,
                IsBound
  <2> QED
    BY <1>1, <2>1, <2>2 DEF HInv
<1>4. CASE Tick
  BY <1>1, <1>4, TickHolders
<1>5. ASSUME NEW w \in Workers, NEW c \in Checkpoints,
             StartPrepare(w, c) \/ StartDeliver(w, c)
      PROVE  HInv'
  BY <1>1, <1>2, <1>5, StartHolders
<1>6. ASSUME NEW w \in Workers, Step(w) PROVE HInv'
  BY <1>1, <1>2, <1>6, FindHolders, LookUpsHolders, WaitHolders, AcquireHolders,
     ReadHolders, FinalizeHolders, LostNoticeHolders, ReleaseHolders, DispatchHolders,
     RetryHolders, AskHolders DEF Step
<1>7. ASSUME NEW w \in Workers, Generate(w) PROVE HInv'
  BY <1>1, <1>2, <1>7, GenerateHolders
<1>8. ASSUME NEW w \in Workers, Killed(w) \/ Ask(w) \/ FailStep(w) PROVE HInv'
  BY <1>1, <1>2, <1>8, FailHolders, AskHolders, WaitHolders DEF FailStep
<1> QED
  BY <1>3, <1>4, <1>5, <1>6, <1>7, <1>8 DEF Next

\* No two runs are in the block that a claim protects, although a claim names no
\* owner, outlives a killed run and may be taken over when old: with any number
\* of runs, hand-started or the timers', of crashes and of failing look-ups
\* (acquire_daily_workspace_checkpoint, release_daily_workspace_checkpoint).
THEOREM ClaimsAreExclusive ==
  ASSUME ClaimsOutliveRuns
  PROVE  Spec => []SoleHolder
<1>1. Init => HInv
  BY InitHolders
<1>2. HInv /\ [Next]_vars => HInv'
  BY StepHInv, ClaimsOutliveRuns
<1>3. HInv => SoleHolder
  BY DEF HInv
<1> QED
  BY <1>1, <1>2, <1>3, PTL DEF Spec
=============================================================================
