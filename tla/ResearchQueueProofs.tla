------------------------ MODULE ResearchQueueProofs ------------------------
(***************************************************************************)
(* Proofs about ResearchQueue for any number of chains, requests, worker   *)
(* threads and worker names, any lease time and any clock lag.  A claim    *)
(* raises the attempt of the job it takes, so no two threads hold the same *)
(* attempt of a job; and what a chain has not announced is its active job, *)
(* so a coordination never finds two jobs of one chain.                    *)
(***************************************************************************)
EXTENDS ResearchQueue, FiniteSetTheorems, TLAPS

\* What a row of `jobs` says by itself.
RowOK(r) ==
  /\ r \in JobRows
  /\ r.owner # None <=> r.state = "running"
  /\ r.attempt <= r.token
  /\ r.product \in {None, r.attempt}
  /\ r.product # None <=> r.state \in ProductStates
  /\ r.state # "absent" => r.chain \in Chains
  /\ r.state \notin TerminalStates => r.version = None
  /\ r.state = "cancelled" => r.version # None
  /\ r.state = "running" => r.attempt # 0

JobsOK == job \in [Jobs -> JobRows] /\ \A j \in Jobs : RowOK(job[j])

\* Jobs are numbered as they are admitted.
Numbered == \E n \in Nat : Admitted = 1..n

\* A chain that is not open has no active job; the logs stay finite.
ChainsOK ==
  /\ chain \in [Chains -> ChainRows]
  /\ \A c \in Chains : chain[c].status # "active" => chain[c].active = None

LogsOK ==
  /\ log \in [Chains -> SUBSET LogRows] /\ products \in [Chains -> SUBSET ProductRows]
  /\ \A c \in Chains : IsFiniteSet(log[c]) /\ IsFiniteSet(products[c])

\* What threads remember: attempts that were made, each by one thread.
HeldOK ==
  /\ held \in [Threads -> Leases]
  /\ \A w \in Threads : held[w].job # None =>
       /\ job[held[w].job].state # "absent" /\ held[w].attempt # 0
       /\ held[w].attempt <= job[held[w].job].attempt
  /\ \A v, w \in Threads :
       held[v].job = held[w].job /\ held[v].job # None /\ held[v].attempt = held[w].attempt
         => v = w

RestOK == now \in 0..MaxTime /\ bound \in [Keys -> Jobs \union {None}]

QInv ==
  /\ RestOK /\ JobsOK /\ Numbered /\ ChainsOK /\ LogsOK /\ HeldOK /\ ActiveIsUnannounced

-----------------------------------------------------------------------------
(* Rows of jobs *)

LEMMA ConstantFacts ==
  /\ LeaseTime \in Nat /\ Budgets \subseteq Nat /\ Outcomes \subseteq WorkerTerminal
  /\ IdOf \in [Threads -> Nat \ {0}] /\ None \notin Chains
  /\ Lag \in Nat /\ MaxJobs \in Nat /\ MaxAttempts \in Nat /\ MaxTime \in Nat
  /\ Jobs = 1..MaxJobs /\ Jobs \subseteq Nat /\ None \notin Jobs /\ None = 0
  BY QueueAssumption DEF Jobs, None

LEMMA States ==
  /\ TerminalStates = {"succeeded", "partial", "failed", "timed_out", "cancelled"}
  /\ Live = {"queued", "running"} /\ ProductStates = {"succeeded", "partial"}
  /\ WorkerTerminal = {"succeeded", "partial", "failed", "timed_out"}
  BY DEF TerminalStates, Live, ProductStates, WorkerTerminal

LEMMA SmallerIsNat == ASSUME NEW a \in Nat, NEW b \in Nat PROVE Smaller(a, b) \in Nat
  BY DEF Smaller

\* A row with fields of the right types.
LEMMA RowTypes ==
  ASSUME NEW r \in JobRows
  PROVE  /\ r.state \in {"absent"} \union Live \union TerminalStates
         /\ r.chain \in Chains \union {None} /\ r.deadline \in Nat /\ r.expires \in Nat
         /\ r.owner \in Nat /\ r.attempt \in Nat /\ r.token \in Nat /\ r.product \in Nat
         /\ r.version \in Nat
  BY DEF JobRows

LEMMA QueuedRow ==
  ASSUME NEW c \in Chains, NEW d \in Nat
  PROVE  LET r == [NoJob EXCEPT !.state = "queued", !.chain = c, !.deadline = d] IN
         RowOK(r) /\ r.state = "queued" /\ r.chain = c /\ r.version = None /\ r.attempt = 0
<1> DEFINE r == [NoJob EXCEPT !.state = "queued", !.chain = c, !.deadline = d]
<1>1. /\ NoJob \in JobRows /\ NoJob.owner = 0 /\ NoJob.attempt = 0 /\ NoJob.token = 0
      /\ NoJob.product = 0 /\ NoJob.version = 0
  BY States DEF NoJob, JobRows, None
<1>2. r \in JobRows
  BY <1>1, States DEF JobRows
<1>3. /\ r.state = "queued" /\ r.chain = c /\ r.owner = 0 /\ r.attempt = 0 /\ r.token = 0
      /\ r.product = 0 /\ r.version = 0
  BY <1>1, States DEF JobRows
<1> HIDE DEF r
<1>4. RowOK(r)
  BY <1>2, <1>3, States, ConstantFacts DEF RowOK
<1> QED
  BY <1>3, <1>4, ConstantFacts DEF r

LEMMA LeasedRow ==
  ASSUME NEW j \in Jobs, RowOK(job[j]), NEW w \in Threads, NEW t \in Nat,
         job[j].state \in Live
  PROVE  /\ RowOK(Leased(j, w, t)) /\ Leased(j, w, t).state = "running"
         /\ Leased(j, w, t).chain = job[j].chain /\ Leased(j, w, t).version = None
         /\ Leased(j, w, t).attempt = job[j].attempt + 1
<1> DEFINE e == Smaller(t + LeaseTime, job[j].deadline)
           o == IdOf[w]
           a == job[j].attempt + 1
           n == job[j].token + 1
           r == [job[j] EXCEPT !.state = "running", !.owner = o, !.expires = e,
                               !.attempt = a, !.token = n]
<1>1. job[j] \in JobRows /\ job[j].attempt \in Nat /\ job[j].token \in Nat
      /\ job[j].deadline \in Nat /\ job[j].attempt <= job[j].token
      /\ job[j].product = None /\ job[j].version = None /\ job[j].chain \in Chains
  BY RowTypes, States DEF RowOK
<1>2. /\ e \in Nat
      /\ o \in Nat /\ o # None
  <2>1. t + LeaseTime \in Nat
    BY ConstantFacts
  <2>2. e \in Nat
    BY <1>1, <2>1, SmallerIsNat
  <2>3. o \in Nat \ {0}
    BY ConstantFacts
  <2> QED
    BY <2>2, <2>3, ConstantFacts
<1>3. Leased(j, w, t) = r
  BY DEF Leased
<1>4. a \in Nat /\ n \in Nat /\ a <= n /\ a # 0
  BY <1>1
<1> HIDE DEF e, o, a, n
<1>5. /\ r \in JobRows /\ r.state = "running" /\ r.owner = o /\ r.attempt = a /\ r.token = n
      /\ r.product = None /\ r.version = None /\ r.chain = job[j].chain
  BY <1>1, <1>2, <1>4, States DEF JobRows
<1> HIDE DEF r
<1>6. RowOK(r)
  BY <1>1, <1>2, <1>4, <1>5, States DEF RowOK
<1> QED
  BY <1>3, <1>5, <1>6 DEF a

LEMMA TimedOutRow ==
  ASSUME NEW j \in Jobs, RowOK(job[j]), job[j].state \in Live
  PROVE  /\ RowOK(TimedOut(j)) /\ TimedOut(j).state = "timed_out"
         /\ TimedOut(j).chain = job[j].chain /\ TimedOut(j).version = None
         /\ TimedOut(j).attempt = job[j].attempt
<1> DEFINE n == job[j].token + 1
           r == [job[j] EXCEPT !.state = "timed_out", !.token = n, !.owner = None,
                               !.expires = 0]
<1>1. job[j] \in JobRows /\ job[j].attempt \in Nat /\ job[j].token \in Nat
      /\ job[j].attempt <= job[j].token
      /\ job[j].product = None /\ job[j].version = None /\ job[j].chain \in Chains
  BY RowTypes, States DEF RowOK
<1>2. n \in Nat /\ job[j].attempt <= n
  BY <1>1
<1>3. TimedOut(j) = r
  BY DEF TimedOut
<1> HIDE DEF n
<1>4. /\ r \in JobRows /\ r.state = "timed_out" /\ r.owner = None /\ r.token = n
      /\ r.attempt = job[j].attempt
      /\ r.product = None /\ r.version = None /\ r.chain = job[j].chain
  BY <1>1, <1>2, States, ConstantFacts DEF JobRows
<1> HIDE DEF r
<1>5. RowOK(r)
  BY <1>1, <1>2, <1>4, States DEF RowOK
<1> QED
  BY <1>3, <1>4, <1>5

LEMMA CancelledRow ==
  ASSUME NEW j \in Jobs, RowOK(job[j]), job[j].state \in Live, NEW v \in Nat \ {0}
  PROVE  /\ RowOK(Cancelled(j, v)) /\ Cancelled(j, v).state = "cancelled"
         /\ Cancelled(j, v).chain = job[j].chain /\ Cancelled(j, v).version = v
         /\ Cancelled(j, v).attempt = job[j].attempt
<1> DEFINE n == job[j].token + 1
           r == [job[j] EXCEPT !.state = "cancelled", !.token = n, !.owner = None,
                               !.expires = 0, !.version = v]
<1>1. job[j] \in JobRows /\ job[j].attempt \in Nat /\ job[j].token \in Nat
      /\ job[j].attempt <= job[j].token
      /\ job[j].product = None /\ job[j].chain \in Chains
  BY RowTypes, States DEF RowOK
<1>2. n \in Nat /\ job[j].attempt <= n
  BY <1>1
<1>3. Cancelled(j, v) = r
  BY DEF Cancelled
<1> HIDE DEF n
<1>4. /\ r \in JobRows /\ r.state = "cancelled" /\ r.owner = None /\ r.token = n
      /\ r.attempt = job[j].attempt
      /\ r.product = None /\ r.version = v /\ r.chain = job[j].chain
  BY <1>1, <1>2, States, ConstantFacts DEF JobRows
<1> HIDE DEF r
<1>5. v # None
  BY ConstantFacts
<1>6. RowOK(r)
  BY <1>1, <1>2, <1>4, <1>5, States DEF RowOK
<1> QED
  BY <1>3, <1>4, <1>6

LEMMA AnnouncedRow ==
  ASSUME NEW j \in Jobs, RowOK(job[j]), job[j].state \in TerminalStates, NEW n \in Nat \ {0}
  PROVE  LET r == [job[j] EXCEPT !.version = n] IN
         /\ RowOK(r) /\ r.state = job[j].state /\ r.chain = job[j].chain /\ r.version = n
         /\ r.attempt = job[j].attempt
  BY States, ConstantFacts DEF RowOK, JobRows

LEMMA RenewedRow ==
  ASSUME NEW j \in Jobs, RowOK(job[j]), NEW e \in Nat
  PROVE  LET r == [job[j] EXCEPT !.expires = e] IN
         /\ RowOK(r) /\ r.state = job[j].state /\ r.chain = job[j].chain
         /\ r.version = job[j].version /\ r.attempt = job[j].attempt
  BY DEF RowOK, JobRows

LEMMA FinalRow ==
  ASSUME NEW j \in Jobs, RowOK(job[j]), job[j].state = "running",
         NEW state \in Outcomes
  PROVE  LET r == [job[j] EXCEPT !.state = state, !.owner = None, !.expires = 0,
                     !.product = IF state \in ProductStates THEN job[j].attempt ELSE None] IN
         /\ RowOK(r) /\ r.state = state /\ r.chain = job[j].chain
         /\ r.version = None /\ r.attempt = job[j].attempt
  BY States, ConstantFacts DEF RowOK, JobRows

-----------------------------------------------------------------------------
(* What the conjuncts of the invariant need of a step *)

LEMMA JobFacts ==
  ASSUME QInv, NEW j \in Jobs
  PROVE  job[j] \in JobRows /\ RowOK(job[j]) /\ job[j].attempt \in Nat
  BY RowTypes DEF QInv, JobsOK

LEMMA InitQInv == Init => QInv
<1> SUFFICES ASSUME Init PROVE QInv
  OBVIOUS
<1>1. NoJob \in JobRows /\ RowOK(NoJob) /\ NoJob.state = "absent"
  <2>1. /\ NoJob \in JobRows /\ NoJob.owner = 0 /\ NoJob.attempt = 0 /\ NoJob.token = 0
        /\ NoJob.product = 0 /\ NoJob.version = 0 /\ NoJob.state = "absent"
    BY States DEF NoJob, JobRows, None
  <2> QED
    BY <2>1, States, ConstantFacts DEF RowOK
<1>2. NoLease \in Leases /\ NoLease.job = None
  BY DEF NoLease, Leases, None
<1>3. RestOK
  BY ConstantFacts DEF Init, RestOK
<1>4. JobsOK
  BY <1>1 DEF Init, JobsOK
<1>5. Admitted = {}
  BY <1>1 DEF Init, Admitted
<1>6. Numbered
  <2>1. Admitted = 1..0
    BY <1>5
  <2> QED
    BY <2>1 DEF Numbered
<1>7. ChainsOK
  BY DEF Init, ChainsOK, ChainRows
<1>8. LogsOK
  BY FS_EmptySet DEF Init, LogsOK
<1>9. HeldOK
  BY <1>2 DEF Init, HeldOK
<1>10. ActiveIsUnannounced
  BY <1>5 DEF Init, ActiveIsUnannounced
<1> QED
  BY <1>3, <1>4, <1>6, <1>7, <1>8, <1>9, <1>10 DEF QInv

\* The number a new job gets is that of no job before it.
LEMMA NextJobIsNew ==
  ASSUME Numbered
  PROVE  \E n \in Nat : Admitted = 1..n /\ NextJob = n + 1 /\ NextJob \notin Admitted
<1>1. PICK n \in Nat : Admitted = 1..n
  BY DEF Numbered
<1>2. Cardinality(1..n) = n
  BY FS_Interval
<1>3. NextJob = n + 1
  BY <1>1, <1>2 DEF NextJob
<1>4. n + 1 \notin 1..n
  OBVIOUS
<1> QED
  BY <1>1, <1>3, <1>4

\* A step that admits and announces no job.
KeepsJobs ==
  \A j \in Jobs :
    /\ job'[j].state = "absent" <=> job[j].state = "absent"
    /\ job'[j].chain = job[j].chain /\ job'[j].version = job[j].version

LEMMA NothingAnnounced ==
  ASSUME QInv, KeepsJobs, \A c \in Chains : chain'[c].active = chain[c].active
  PROVE  Numbered' /\ ActiveIsUnannounced'
<1>1. Admitted' = Admitted
  BY DEF KeepsJobs, Admitted
<1>2. \A j \in Admitted : j \in Jobs
  BY DEF Admitted
<1> QED
  BY <1>1, <1>2 DEF QInv, KeepsJobs, Numbered, ActiveIsUnannounced

\* What a thread remembers stays true while attempts only grow.
LEMMA HeldKept ==
  ASSUME QInv, \A j \in Jobs : job[j].state # "absent" =>
           job'[j].state # "absent" /\ job'[j].attempt \in Nat
             /\ job'[j].attempt >= job[j].attempt,
         held' \in [Threads -> Leases],
         \A w \in Threads : held'[w] = held[w] \/ held'[w].job = None
  PROVE  HeldOK'
<1>1. ASSUME NEW w \in Threads, held'[w].job # None
      PROVE  /\ held'[w] = held[w] /\ held[w].job \in Jobs
             /\ job'[held'[w].job].state # "absent" /\ held'[w].attempt # 0
             /\ held'[w].attempt <= job'[held'[w].job].attempt
  <2>1. held'[w] = held[w] /\ held[w].job \in Jobs /\ held[w].attempt \in Nat
    BY <1>1 DEF QInv, HeldOK, Leases
  <2>2. /\ job[held[w].job].state # "absent" /\ held[w].attempt # 0
        /\ held[w].attempt <= job[held[w].job].attempt
    BY <1>1, <2>1 DEF QInv, HeldOK
  <2>3. job[held[w].job].attempt \in Nat
    BY <2>1, JobFacts
  <2> QED
    BY <2>1, <2>2, <2>3
<1>2. ASSUME NEW v \in Threads, NEW w \in Threads, held'[v].job = held'[w].job,
             held'[v].job # None, held'[v].attempt = held'[w].attempt
      PROVE  v = w
  BY <1>1, <1>2 DEF QInv, HeldOK
<1> QED
  BY <1>1, <1>2 DEF HeldOK

LEMMA RestKept ==
  ASSUME QInv, UNCHANGED <<now, bound>>
  PROVE  RestOK'
  BY DEF QInv, RestOK

LEMMA LogsKept ==
  ASSUME QInv, UNCHANGED <<log, products>>
  PROVE  LogsOK'
  BY DEF QInv, LogsOK

LEMMA ChainsKept ==
  ASSUME QInv, UNCHANGED chain
  PROVE  ChainsOK'
  BY DEF QInv, ChainsOK

\* A step of a worker changes jobs, and what it holds.
LEMMA WorkerStep ==
  ASSUME QInv, JobsOK', KeepsJobs, HeldOK', UNCHANGED <<now, chain, log, products, bound>>
  PROVE  QInv'
  BY NothingAnnounced, RestKept, LogsKept, ChainsKept DEF QInv

-----------------------------------------------------------------------------
(* The steps of a worker *)

\* One job is changed in its row.
LEMMA OneJobChanged ==
  ASSUME QInv, NEW j \in Jobs, NEW r, job' = [job EXCEPT ![j] = r], RowOK(r),
         r.state = "absent" <=> job[j].state = "absent",
         r.chain = job[j].chain, r.version = job[j].version, r.attempt = job[j].attempt
  PROVE  JobsOK' /\ KeepsJobs /\ \A i \in Jobs : job'[i].attempt = job[i].attempt
<1>1. r \in JobRows /\ job \in [Jobs -> JobRows]
  BY DEF RowOK, QInv, JobsOK
<1>2. \A i \in Jobs : job'[i] = IF i = j THEN r ELSE job[i]
  BY <1>1
<1>3. job' \in [Jobs -> JobRows]
  BY <1>1
<1>4. \A i \in Jobs : RowOK(job'[i])
  BY <1>2, JobFacts
<1>5. JobsOK'
  <2>1. \A i \in Jobs : RowOK(job[i])'
    BY <1>4 DEF RowOK
  <2> QED
    BY <1>3, <2>1 DEF JobsOK
<1> QED
  BY <1>2, <1>5 DEF KeepsJobs

LEMMA LiveLeaseFacts ==
  ASSUME QInv, NEW w \in Threads, NEW t, LiveLease(w, t)
  PROVE  /\ held[w].job \in Jobs /\ job[held[w].job].state = "running"
         /\ held[w].attempt = job[held[w].job].attempt
  BY DEF LiveLease, QInv, HeldOK, Leases

LEMMA HeartbeatStep ==
  ASSUME QInv, NEW w \in Threads, NEW t \in Clocks, Heartbeat(w, t)
  PROVE  QInv'
<1> DEFINE j == held[w].job
           e == Smaller(t + LeaseTime, job[j].deadline)
           r == [job[j] EXCEPT !.expires = e]
<1>1. j \in Jobs /\ job[j].state = "running"
  BY LiveLeaseFacts DEF Heartbeat
<1>2. job[j] \in JobRows /\ RowOK(job[j]) /\ job[j].deadline \in Nat
  BY <1>1, JobFacts, RowTypes
<1>3. e \in Nat
  <2>1. t + LeaseTime \in Nat
    BY ConstantFacts DEF Clocks, QInv, RestOK
  <2> QED
    BY <1>2, <2>1, SmallerIsNat
<1>4. job' = [job EXCEPT ![j] = r]
  BY <1>1 DEF Heartbeat, QInv, JobsOK
<1> HIDE DEF e
<1>5. /\ RowOK(r) /\ r.state = job[j].state /\ r.chain = job[j].chain
      /\ r.version = job[j].version /\ r.attempt = job[j].attempt
  BY <1>1, <1>2, <1>3, RenewedRow
<1> HIDE DEF j, r
<1>6. JobsOK' /\ KeepsJobs /\ \A i \in Jobs : job'[i].attempt = job[i].attempt
  BY <1>1, <1>4, <1>5, OneJobChanged
<1>7. HeldOK'
  <2>1. \A i \in Jobs : job[i].attempt \in Nat
    BY JobFacts
  <2>2. held' = held /\ held \in [Threads -> Leases]
    BY DEF Heartbeat, QInv, HeldOK
  <2> QED
    BY <1>6, <2>1, <2>2, HeldKept DEF KeepsJobs
<1> QED
  BY <1>6, <1>7, WorkerStep DEF Heartbeat

LEMMA FinalizeStep ==
  ASSUME QInv, NEW w \in Threads, NEW t \in Clocks, NEW state \in Outcomes,
         Finalize(w, t, state)
  PROVE  QInv'
<1> DEFINE j == held[w].job
           p == IF state \in ProductStates THEN job[j].attempt ELSE None
           r == [job[j] EXCEPT !.state = state, !.owner = None, !.expires = 0, !.product = p]
<1>1. j \in Jobs /\ job[j].state = "running" /\ held[w].attempt = job[j].attempt
  BY LiveLeaseFacts DEF Finalize
<1>2. job[j] \in JobRows /\ RowOK(job[j])
  BY <1>1, JobFacts
<1>3. job' = [job EXCEPT ![j] = r]
  <2>1. job' = [job EXCEPT ![j].state = state, ![j].owner = None, ![j].expires = 0,
                           ![j].product = p]
    BY <1>1 DEF Finalize
  <2> HIDE DEF p
  <2> QED
    BY <1>1, <2>1 DEF QInv, JobsOK
<1>4. /\ RowOK(r) /\ r.state = state /\ r.chain = job[j].chain
      /\ r.version = None /\ r.attempt = job[j].attempt
  BY <1>1, <1>2, FinalRow
<1>5. job[j].version = None /\ state # "absent"
  BY <1>1, <1>2, States, ConstantFacts DEF RowOK
<1> HIDE DEF j, r
<1>6. JobsOK' /\ KeepsJobs /\ \A i \in Jobs : job'[i].attempt = job[i].attempt
  BY <1>1, <1>3, <1>4, <1>5, OneJobChanged
<1>7. HeldOK'
  <2>1. \A i \in Jobs : job[i].attempt \in Nat
    BY JobFacts
  <2>2. held' = [held EXCEPT ![w] = NoLease] /\ held \in [Threads -> Leases]
    BY DEF Finalize, QInv, HeldOK
  <2>3. NoLease \in Leases /\ NoLease.job = None
    BY DEF NoLease, Leases, None
  <2> QED
    BY <1>6, <2>1, <2>2, <2>3, HeldKept DEF KeepsJobs
<1> QED
  BY <1>6, <1>7, WorkerStep DEF Finalize

LEMMA WorkerDiesStep ==
  ASSUME QInv, NEW w \in Threads, WorkerDies(w)
  PROVE  QInv'
<1>1. JobsOK' /\ KeepsJobs
  BY DEF WorkerDies, QInv, JobsOK, KeepsJobs
<1>2. HeldOK'
  <2>1. \A i \in Jobs : job[i].attempt \in Nat /\ job'[i] = job[i]
    BY JobFacts DEF WorkerDies
  <2>2. held' = [held EXCEPT ![w] = NoLease] /\ held \in [Threads -> Leases]
    BY DEF WorkerDies, QInv, HeldOK
  <2>3. NoLease \in Leases /\ NoLease.job = None
    BY DEF NoLease, Leases, None
  <2> QED
    BY <2>1, <2>2, <2>3, HeldKept
<1> QED
  BY <1>1, <1>2, WorkerStep DEF WorkerDies

\* A claim takes at most one job, which is not one that it times out.
LEMMA ChoiceFacts ==
  ASSUME QInv, NEW t \in Clocks
  PROVE  /\ \A j \in Choice(t) : j \in Jobs /\ job[j].state \in Live /\ j \notin Overdue(t)
         /\ \A i, j \in Choice(t) : i = j
         /\ \A j \in Overdue(t) : j \in Jobs /\ job[j].state \in Live
<1>1. t \in Nat
  BY ConstantFacts DEF Clocks, QInv, RestOK
<1>2. \A j \in Jobs : job[j].deadline \in Nat
  BY JobFacts, RowTypes
<1>3. \A j \in Choice(t) : j \in Claimable("queued", t) \union Claimable("running", t)
  BY DEF Choice
<1>4. \A j \in Choice(t) : j \in Jobs /\ job[j].state \in Live /\ j \notin Overdue(t)
  BY <1>1, <1>2, <1>3, States DEF Claimable, Overdue
<1>5. \A i, j \in Choice(t) : i <= j /\ j <= i
  BY DEF Choice
<1>6. \A i, j \in Choice(t) : i = j
  <2> SUFFICES ASSUME NEW i \in Choice(t), NEW j \in Choice(t) PROVE i = j
    OBVIOUS
  <2>1. i \in Nat /\ j \in Nat
    BY <1>4, ConstantFacts
  <2> QED
    BY <1>5, <2>1
<1> QED
  BY <1>4, <1>6 DEF Overdue

LEMMA ClaimNextStep ==
  ASSUME QInv, NEW w \in Threads, NEW t \in Clocks, ClaimNext(w, t)
  PROVE  QInv'
<1> DEFINE New(j) == IF j \in Overdue(t) THEN TimedOut(j)
                     ELSE IF j \in Choice(t) THEN Leased(j, w, t) ELSE job[j]
<1>1. job' = [j \in Jobs |-> New(j)] /\ UNCHANGED <<now, chain, log, products, bound>>
  BY DEF ClaimNext
<1>2. t \in Nat
  BY ConstantFacts DEF Clocks, QInv, RestOK
<1>3. ASSUME NEW j \in Jobs
      PROVE  /\ RowOK(New(j)) /\ (New(j).state = "absent" <=> job[j].state = "absent")
             /\ New(j).chain = job[j].chain /\ New(j).version = job[j].version
             /\ New(j).attempt = IF j \in Choice(t) THEN job[j].attempt + 1
                                 ELSE job[j].attempt
  <2>1. RowOK(job[j])
    BY JobFacts
  <2>2. job[j].state \in Live => job[j].version = None /\ job[j].state # "absent"
    BY <2>1, States DEF RowOK
  <2>3. CASE j \in Overdue(t)
    <3>1. New(j) = TimedOut(j) /\ job[j].state \in Live /\ j \notin Choice(t)
      BY <2>3, ChoiceFacts
    <3> QED
      BY <2>1, <2>2, <3>1, TimedOutRow
  <2>4. CASE j \in Choice(t)
    <3>1. New(j) = Leased(j, w, t) /\ job[j].state \in Live
      BY <2>4, ChoiceFacts
    <3> QED
      BY <1>2, <2>1, <2>2, <2>4, <3>1, LeasedRow
  <2>5. CASE j \notin Overdue(t) /\ j \notin Choice(t)
    BY <2>1, <2>5
  <2> QED
    BY <2>3, <2>4, <2>5
<1> HIDE DEF New
<1>4. JobsOK' /\ KeepsJobs
  <2>1. \A j \in Jobs : RowOK(job[j])'
    BY <1>1, <1>3 DEF RowOK
  <2>2. job' \in [Jobs -> JobRows]
    BY <1>1, <1>3 DEF RowOK
  <2> QED
    BY <1>1, <1>3, <2>1, <2>2 DEF JobsOK, KeepsJobs
<1>5. \A j \in Jobs : /\ job[j].attempt \in Nat /\ job'[j].attempt \in Nat
                      /\ job'[j].attempt >= job[j].attempt
                      /\ j \in Choice(t) => job'[j].attempt = job[j].attempt + 1
  BY <1>1, <1>3, JobFacts
<1>6. HeldOK'
  <2>1. CASE Choice(t) = {}
    <3>1. held' = [held EXCEPT ![w] = NoLease] /\ held \in [Threads -> Leases]
      BY <2>1 DEF ClaimNext, QInv, HeldOK
    <3>2. NoLease \in Leases /\ NoLease.job = None
      BY DEF NoLease, Leases, None
    <3> QED
      BY <1>4, <1>5, <3>1, <3>2, HeldKept DEF KeepsJobs
  <2>2. CASE Choice(t) # {}
    <3> DEFINE k == CHOOSE j \in Choice(t) : TRUE
               l == [job |-> k, attempt |-> job'[k].attempt, token |-> job'[k].token]
    <3>1. k \in Choice(t) /\ k \in Jobs /\ k # None
      BY <2>2, ChoiceFacts, ConstantFacts
    <3>2. held' = [held EXCEPT ![w] = l] /\ held \in [Threads -> Leases]
      BY <2>2 DEF ClaimNext, QInv, HeldOK
    <3>3. job'[k] \in JobRows
      BY <1>4, <3>1 DEF JobsOK
    <3>4. l \in Leases /\ l.job = k /\ l.attempt = job'[k].attempt
      BY <3>1, <3>3, RowTypes DEF Leases
    <3>5. l.attempt = job[k].attempt + 1 /\ job[k].attempt \in Nat
          /\ job'[k].state # "absent"
      <4>1. job[k].state # "absent"
        BY <3>1, ChoiceFacts, States
      <4> QED
        BY <1>4, <1>5, <3>1, <3>4, <4>1 DEF KeepsJobs
    <3> HIDE DEF k, l
    <3>6. ASSUME NEW v \in Threads, v # w, held[v].job # None
          PROVE  /\ held'[v] = held[v] /\ held[v].job \in Jobs
                 /\ job'[held[v].job].state # "absent" /\ held[v].attempt # 0
                 /\ held[v].attempt \in Nat
                 /\ held[v].attempt <= job[held[v].job].attempt
                 /\ held[v].attempt <= job'[held[v].job].attempt
      <4>1. held'[v] = held[v] /\ held[v].job \in Jobs /\ held[v].attempt \in Nat
        BY <3>2, <3>6 DEF Leases
      <4>2. /\ job[held[v].job].state # "absent" /\ held[v].attempt # 0
            /\ held[v].attempt <= job[held[v].job].attempt
        BY <3>6 DEF QInv, HeldOK
      <4>3. job[held[v].job].attempt \in Nat /\ job'[held[v].job].attempt \in Nat
            /\ job'[held[v].job].attempt >= job[held[v].job].attempt
            /\ job'[held[v].job].state # "absent"
        BY <1>4, <1>5, <4>1, <4>2 DEF KeepsJobs
      <4> QED
        BY <4>1, <4>2, <4>3
    <3>7. held' \in [Threads -> Leases] /\ held'[w] = l
          /\ \A v \in Threads : v # w => held'[v] = held[v]
      BY <3>2, <3>4
    <3>8. \A v \in Threads : held'[v].job # None =>
            /\ job'[held'[v].job].state # "absent" /\ held'[v].attempt # 0
            /\ held'[v].attempt <= job'[held'[v].job].attempt
      <4> SUFFICES ASSUME NEW v \in Threads, held'[v].job # None
                   PROVE  /\ job'[held'[v].job].state # "absent" /\ held'[v].attempt # 0
                          /\ held'[v].attempt <= job'[held'[v].job].attempt
        OBVIOUS
      <4>1. CASE v = w
        <5>1. held'[v].job = k /\ held'[v].attempt = l.attempt
          BY <3>4, <3>7, <4>1
        <5>2. l.attempt \in Nat /\ l.attempt # 0 /\ l.attempt <= job'[k].attempt
          BY <3>4, <3>5
        <5> QED
          BY <3>5, <5>1, <5>2
      <4>2. CASE v # w
        BY <3>6, <3>7, <4>2
      <4> QED
        BY <4>1, <4>2
    <3>9. ASSUME NEW v \in Threads, v # w, held[v].job = k
          PROVE  held[v].attempt # l.attempt
      <4>1. held[v].attempt \in Nat /\ held[v].attempt <= job[k].attempt
        BY <3>1, <3>6, <3>9
      <4> QED
        BY <3>5, <4>1
    <3>10. \A u, v \in Threads :
             held'[u].job = held'[v].job /\ held'[u].job # None
               /\ held'[u].attempt = held'[v].attempt => u = v
      BY <3>4, <3>7, <3>9 DEF QInv, HeldOK
    <3> QED
      BY <3>7, <3>8, <3>10 DEF HeldOK
  <2> QED
    BY <2>1, <2>2
<1> QED
  BY <1>1, <1>4, <1>6, WorkerStep

-----------------------------------------------------------------------------
(* Requests, feedback and time *)

LEMMA CardsAreNat ==
  ASSUME QInv, NEW c \in Chains
  PROVE  /\ IsFiniteSet(log[c]) /\ Cardinality(log[c]) \in Nat /\ log[c] \subseteq LogRows
         /\ IsFiniteSet(products[c]) /\ Cardinality(products[c]) \in Nat
         /\ products[c] \subseteq ProductRows
<1>1. IsFiniteSet(log[c]) /\ IsFiniteSet(products[c])
  BY DEF QInv, LogsOK
<1>2. log[c] \subseteq LogRows /\ products[c] \subseteq ProductRows
  BY DEF QInv, LogsOK
<1> QED
  BY <1>1, <1>2, FS_CardinalityType

\* A row is added to the log of a chain.
LEMMA RowAdded ==
  ASSUME QInv, NEW c \in Chains, NEW j \in Jobs \union {None},
         NEW kind \in {"pending", "terminal", "closed", "feedback"},
         log' = [log EXCEPT ![c] = @ \union {Row(c, kind, j)}], UNCHANGED products
  PROVE  LogsOK'
<1>1. Row(c, kind, j) \in LogRows
  BY CardsAreNat DEF Row, LogRows
<1>2. IsFiniteSet(log[c] \union {Row(c, kind, j)})
  BY CardsAreNat, FS_AddElement
<1> QED
  BY <1>1, <1>2 DEF QInv, LogsOK

LEMMA QueueStep ==
  ASSUME QInv, NEW c \in Chains, NEW k \in Keys, NEW d \in Nat,
         chain[c].active = None, Queue(c, k, d)
  PROVE  QInv'
<1> DEFINE j == NextJob
           r == [NoJob EXCEPT !.state = "queued", !.chain = c, !.deadline = d]
<1>1. /\ j \in Jobs /\ job' = [job EXCEPT ![j] = r]
      /\ chain' = [chain EXCEPT ![c] = [status |-> "active", active |-> j]]
      /\ log' = [log EXCEPT ![c] = @ \union {Row(c, "pending", j)}]
      /\ bound' = [bound EXCEPT ![k] = j]
      /\ UNCHANGED <<now, products, held>>
  BY DEF Queue
<1>2. PICK n \in Nat : Admitted = 1..n /\ j = n + 1 /\ j \notin Admitted
  BY NextJobIsNew DEF QInv
<1>3. RowOK(r) /\ r.state = "queued" /\ r.chain = c /\ r.version = None /\ r.attempt = 0
  BY QueuedRow
<1> HIDE DEF j, r
<1>4. job[j].state = "absent"
  BY <1>1, <1>2 DEF Admitted
<1>5. /\ job' \in [Jobs -> JobRows] /\ job'[j] = r
      /\ \A i \in Jobs : i # j => job'[i] = job[i]
  BY <1>1, <1>3 DEF QInv, JobsOK, RowOK
<1>6. JobsOK'
  <2>1. \A i \in Jobs : RowOK(job'[i])
    BY <1>3, <1>5, JobFacts
  <2>2. \A i \in Jobs : RowOK(job[i])'
    BY <2>1 DEF RowOK
  <2> QED
    BY <1>5, <2>2 DEF JobsOK
<1>7. Admitted' = Admitted \union {j}
  BY <1>1, <1>3, <1>4, <1>5, States DEF Admitted
<1>8. Numbered'
  <2>1. (1..n) \union {j} = 1..(n + 1)
    BY <1>2
  <2>2. Admitted' = 1..(n + 1)
    BY <1>2, <1>7, <2>1
  <2> QED
    BY <2>2 DEF Numbered
<1>9. /\ chain' \in [Chains -> ChainRows] /\ chain'[c] = [status |-> "active", active |-> j]
      /\ \A e \in Chains : e # c => chain'[e] = chain[e]
  BY <1>1 DEF QInv, ChainsOK, ChainRows
<1>10. ChainsOK'
  BY <1>9 DEF QInv, ChainsOK
<1>11. RestOK' /\ LogsOK'
  BY <1>1, RowAdded DEF QInv, RestOK
<1>12. HeldOK'
  <2>1. \A i \in Jobs : job[i].state # "absent" => job'[i] = job[i] /\ job[i].attempt \in Nat
    BY <1>4, <1>5, JobFacts
  <2> QED
    BY <1>1, <2>1, HeldKept DEF QInv, HeldOK
<1>13. ActiveIsUnannounced'
  <2> SUFFICES ASSUME NEW e \in Chains
               PROVE  {i \in Admitted' : job'[i].chain = e /\ job'[i].version = None}
                        = {chain'[e].active} \ {None}
    BY DEF ActiveIsUnannounced
  <2>1. {i \in Admitted : job[i].chain = e /\ job[i].version = None}
          = {chain[e].active} \ {None}
    BY DEF QInv, ActiveIsUnannounced
  <2>2. \A i \in Admitted : i # j /\ job'[i] = job[i]
    BY <1>2, <1>5 DEF Admitted
  <2>3. CASE e = c
    <3>1. {i \in Admitted' : job'[i].chain = e /\ job'[i].version = None} = {j}
      BY <1>3, <1>5, <1>7, <2>1, <2>2, <2>3
    <3>2. chain'[e].active = j /\ j # None
      BY <1>1, <1>9, <2>3, ConstantFacts
    <3> QED
      BY <3>1, <3>2
  <2>4. CASE e # c
    <3>1. {i \in Admitted' : job'[i].chain = e /\ job'[i].version = None}
            = {i \in Admitted : job[i].chain = e /\ job[i].version = None}
      BY <1>3, <1>5, <1>7, <2>2, <2>4
    <3> QED
      BY <1>9, <2>1, <2>4, <3>1
  <2> QED
    BY <2>3, <2>4
<1> QED
  BY <1>6, <1>8, <1>10, <1>11, <1>12, <1>13 DEF QInv

LEMMA RequestStep ==
  ASSUME QInv, NEW c \in Chains, NEW k \in Keys, NEW t \in Clocks, NEW b \in Budgets,
         AdmitResearch(c, k, t, b) \/ ContinueResearch(c, k, t, b)
  PROVE  QInv'
<1>1. chain[c].active = None /\ Queue(c, k, t + b)
  BY DEF AdmitResearch, ContinueResearch, QInv, ChainsOK
<1>2. t + b \in Nat
  BY ConstantFacts DEF Clocks, QInv, RestOK
<1> QED
  BY <1>1, <1>2, QueueStep

\* Steps that leave every job, thread and chain alone.
LEMMA OtherStep ==
  ASSUME QInv, UNCHANGED <<job, held, chain>>, RestOK', LogsOK'
  PROVE  QInv'
<1>1. KeepsJobs /\ JobsOK'
  BY DEF KeepsJobs, QInv, JobsOK
<1>2. HeldOK' /\ ChainsOK'
  BY DEF QInv, HeldOK, ChainsOK
<1>3. Numbered' /\ ActiveIsUnannounced'
  BY <1>1, NothingAnnounced
<1> QED
  BY <1>1, <1>2, <1>3 DEF QInv

LEMMA AppendFeedbackStep ==
  ASSUME QInv, NEW c \in Chains, AppendFeedback(c)
  PROVE  QInv'
<1>1. LogsOK'
  BY RowAdded DEF AppendFeedback
<1> QED
  BY <1>1, OtherStep, RestKept DEF AppendFeedback

LEMMA TickStep == ASSUME QInv, Tick \/ UNCHANGED vars PROVE QInv'
<1>1. UNCHANGED <<job, held, chain, log, products, bound>> /\ now' \in 0..MaxTime
  BY ConstantFacts DEF Tick, vars, QInv, RestOK
<1>2. RestOK'
  BY <1>1 DEF QInv, RestOK
<1> QED
  BY <1>1, <1>2, LogsKept, OtherStep

-----------------------------------------------------------------------------
(* Coordination *)

LEMMA JobsFinite == \A S \in SUBSET Jobs : IsFiniteSet(S) /\ Cardinality(S) \in Nat
<1>1. IsFiniteSet(Jobs)
  BY FS_Interval, ConstantFacts
<1> QED
  BY <1>1, FS_Subset, FS_CardinalityType

\* What is not announced is the active job of its chain.
LEMMA UncoordinatedIsActive ==
  ASSUME QInv, NEW j \in Uncoordinated
  PROVE  /\ j \in Jobs /\ j \in Admitted /\ job[j].chain \in Chains
         /\ chain[job[j].chain].active = j /\ job[j].version = None
<1>1. j \in Jobs /\ job[j].state # "absent" /\ job[j].version = None
  BY States DEF Uncoordinated
<1>2. job[j].chain \in Chains /\ j \in Admitted
  BY <1>1, JobFacts DEF RowOK, Admitted
<1> QED
  BY <1>1, <1>2 DEF QInv, ActiveIsUnannounced

\* Hence the transaction of a coordination finds at most one job of a chain,
\* which gets the next number.
LEMMA RankIsOne ==
  ASSUME QInv, NEW S \in SUBSET Jobs, NEW j \in S,
         \A i \in S : job[i].chain = job[j].chain => i = j
  PROVE  Rank(S, j) = 1
<1>1. j \in Nat /\ j <= j
  BY ConstantFacts
<1>2. {i \in S : job[i].chain = job[j].chain /\ i <= j} = {j}
  BY <1>1
<1> QED
  BY <1>2, FS_Singleton DEF Rank

Made(c, j) ==
  IF job[j].state \in ProductStates
    THEN {[no |-> Cardinality(products[c]) + 1, job |-> j]} ELSE {}

LEMMA NewRows ==
  ASSUME QInv, NEW S \in SUBSET Uncoordinated, NEW c \in Chains
  PROVE  /\ chain[c].active \in S =>
              /\ NewVersions(S, c) = {Row(c, "terminal", chain[c].active)}
              /\ NewProducts(S, c) = Made(c, chain[c].active)
         /\ chain[c].active \notin S => NewVersions(S, c) = {} /\ NewProducts(S, c) = {}
<1> DEFINE j == chain[c].active
           M == {i \in OfChain(S, c) : job[i].state \in ProductStates}
<1>1. \A i \in S : i \in Jobs /\ chain[job[i].chain].active = i
  BY UncoordinatedIsActive
<1>2. \A i \in OfChain(S, c) : i = j
  BY <1>1 DEF OfChain
<1>3. CASE j \notin S
  <2>1. OfChain(S, c) = {}
    BY <1>2, <1>3 DEF OfChain
  <2> QED
    BY <1>3, <2>1 DEF NewVersions, NewProducts
<1>4. CASE j \in S
  <2>1. job[j].chain = c
    <3>1. j \in Admitted /\ j # None
      BY <1>4, UncoordinatedIsActive, ConstantFacts
    <3> QED
      BY <3>1 DEF QInv, ActiveIsUnannounced
  <2>2. OfChain(S, c) = {j} /\ \A i \in S : job[i].chain = job[j].chain => i = j
    BY <1>1, <1>2, <1>4, <2>1 DEF OfChain
  <2>3. S \in SUBSET Jobs
    BY <1>1
  <2>4. Rank(S, j) = 1
    BY <1>4, <2>2, <2>3, RankIsOne
  <2>5. NewVersions(S, c) = {Row(c, "terminal", j)}
    BY <2>2, <2>4 DEF NewVersions, Row
  <2>6. CASE job[j].state \in ProductStates
    <3>1. M = {j}
      BY <2>2, <2>6
    <3>2. M \in SUBSET Jobs /\ j \in M /\ \A i \in M : job[i].chain = job[j].chain => i = j
      BY <1>1, <1>4, <3>1
    <3> HIDE DEF M
    <3>3. Rank(M, j) = 1
      BY <3>2, RankIsOne
    <3>4. NewProducts(S, c) = {[no |-> Cardinality(products[c]) + Rank(M, i), job |-> i] : i \in M}
      BY DEF NewProducts, M
    <3> QED
      BY <1>4, <2>5, <2>6, <3>1, <3>3, <3>4 DEF Made
  <2>7. CASE job[j].state \notin ProductStates
    <3>1. M = {}
      BY <2>2, <2>7
    <3>2. NewProducts(S, c) = {}
      BY <3>1 DEF NewProducts
    <3> QED
      BY <1>4, <2>5, <2>7, <3>2 DEF Made
  <2> QED
    BY <2>6, <2>7
<1> QED
  BY <1>3, <1>4

Announced(j) == [job[j] EXCEPT !.version = Cardinality(log[job[j].chain]) + 1]

LEMMA CoordinatedFacts ==
  ASSUME QInv, NEW S \in SUBSET Uncoordinated, NEW j \in Jobs
  PROVE  /\ Coordinated(S, j) = IF j \in S THEN Announced(j) ELSE job[j]
         /\ RowOK(Coordinated(S, j)) /\ Coordinated(S, j).state = job[j].state
         /\ Coordinated(S, j).chain = job[j].chain
         /\ Coordinated(S, j).attempt = job[j].attempt
         /\ Coordinated(S, j).product = job[j].product
         /\ Coordinated(S, j).version = IF j \in S THEN Cardinality(log[job[j].chain]) + 1
                                        ELSE job[j].version
         /\ j \in S => Coordinated(S, j).version # None
<1>1. CASE j \notin S
  BY <1>1, JobFacts DEF Coordinated
<1>2. CASE j \in S
  <2>1. \A i \in S : i \in Jobs /\ chain[job[i].chain].active = i
    BY UncoordinatedIsActive
  <2>2. Rank(S, j) = 1
    BY <1>2, <2>1, RankIsOne
  <2>3. Coordinated(S, j) = Announced(j)
    BY <1>2, <2>2 DEF Coordinated, Announced
  <2> DEFINE n == Cardinality(log[job[j].chain]) + 1
  <2>4. n \in Nat /\ n # None
    <3>1. job[j].chain \in Chains
      BY <1>2, UncoordinatedIsActive
    <3> QED
      BY <3>1, CardsAreNat, ConstantFacts
  <2>5. RowOK(job[j]) /\ job[j].state \in TerminalStates /\ job[j] \in JobRows
    BY <1>2, JobFacts DEF Uncoordinated
  <2>6. Announced(j) = [job[j] EXCEPT !.version = n]
    BY DEF Announced
  <2> HIDE DEF n
  <2>7. Announced(j).product = job[j].product
    BY <2>5, <2>6 DEF JobRows
  <2>8. /\ RowOK(Announced(j)) /\ Announced(j).state = job[j].state
        /\ Announced(j).chain = job[j].chain /\ Announced(j).version = n
        /\ Announced(j).attempt = job[j].attempt
    BY <2>4, <2>5, <2>6, AnnouncedRow, ConstantFacts
  <2> QED
    BY <1>2, <2>3, <2>4, <2>7, <2>8 DEF n
<1> QED
  BY <1>1, <1>2

\* What is added to the logs leaves them finite sets of rows.
LEMMA LogRowsOK ==
  ASSUME QInv, NEW c \in Chains, NEW j \in Jobs,
         NEW kind \in {"pending", "terminal", "closed", "feedback"}
  PROVE  /\ Row(c, kind, j) \in LogRows /\ Made(c, j) \subseteq ProductRows
         /\ IsFiniteSet(Made(c, j))
<1>1. Cardinality(log[c]) \in Nat /\ Cardinality(products[c]) \in Nat
  BY CardsAreNat
<1>2. Row(c, kind, j) \in LogRows
  BY <1>1 DEF Row, LogRows
<1>3. [no |-> Cardinality(products[c]) + 1, job |-> j] \in ProductRows
  BY <1>1 DEF ProductRows
<1> QED
  BY <1>2, <1>3, FS_EmptySet, FS_Singleton DEF Made

LEMMA NewRowsOK ==
  ASSUME QInv, NEW S \in SUBSET Uncoordinated, NEW c \in Chains
  PROVE  /\ log[c] \union NewVersions(S, c) \subseteq LogRows
         /\ IsFiniteSet(log[c] \union NewVersions(S, c))
         /\ products[c] \union NewProducts(S, c) \subseteq ProductRows
         /\ IsFiniteSet(products[c] \union NewProducts(S, c))
<1> DEFINE j == chain[c].active
<1>1. CASE j \in S
  <2>1. j \in Jobs
    BY <1>1, UncoordinatedIsActive
  <2>2. Row(c, "terminal", j) \in LogRows /\ Made(c, j) \subseteq ProductRows
        /\ IsFiniteSet(Made(c, j))
    BY <2>1, LogRowsOK
  <2>3. NewVersions(S, c) = {Row(c, "terminal", j)} /\ NewProducts(S, c) = Made(c, j)
    BY <1>1, NewRows
  <2>4. IsFiniteSet({Row(c, "terminal", j)})
    BY FS_Singleton
  <2>5. /\ IsFiniteSet(log[c] \union {Row(c, "terminal", j)})
        /\ IsFiniteSet(products[c] \union Made(c, j))
    BY <2>2, <2>4, CardsAreNat, FS_Union
  <2>6. log[c] \subseteq LogRows /\ products[c] \subseteq ProductRows
    BY CardsAreNat
  <2> QED
    BY <2>2, <2>3, <2>5, <2>6
<1>2. CASE j \notin S
  <2>1. log[c] \union NewVersions(S, c) = log[c] /\ products[c] \union NewProducts(S, c) = products[c]
    BY <1>2, NewRows
  <2> QED
    BY <2>1, CardsAreNat
<1> QED
  BY <1>1, <1>2

\* Jobs that are coordinated, and the chains that lose their active job.
LEMMA CoordinationStep ==
  ASSUME QInv, NEW S \in SUBSET Uncoordinated,
         job' \in [Jobs -> JobRows], \A j \in Jobs : RowOK(job'[j]),
         \A j \in Jobs : /\ job'[j].state = "absent" <=> job[j].state = "absent"
                         /\ job'[j].chain = job[j].chain /\ job'[j].attempt = job[j].attempt,
         NEW T \in SUBSET Admitted, S \subseteq T,
         \A j \in T : job'[j].version # None,
         \A j \in Jobs \ T : job'[j].version = job[j].version,
         ChainsOK', LogsOK',
         \A c \in Chains :
           /\ chain[c].active \in T \union {None} => chain'[c].active = None
           /\ chain[c].active \notin T => chain'[c].active = chain[c].active,
         UNCHANGED <<now, bound, held>>
  PROVE  QInv'
<1>1. JobsOK'
  <2>1. \A j \in Jobs : RowOK(job[j])'
    BY DEF RowOK
  <2> QED
    BY <2>1 DEF JobsOK
<1>2. Admitted' = Admitted
  BY DEF Admitted
<1>3. Numbered'
  BY <1>2 DEF QInv, Numbered
<1>4. HeldOK'
  <2>1. \A j \in Jobs : job[j].state # "absent" =>
          job'[j].state # "absent" /\ job'[j].attempt \in Nat
            /\ job'[j].attempt >= job[j].attempt
    BY JobFacts
  <2> QED
    BY <2>1, HeldKept DEF QInv, HeldOK
<1>5. ActiveIsUnannounced'
  <2> SUFFICES ASSUME NEW c \in Chains
               PROVE  {j \in Admitted : job'[j].chain = c /\ job'[j].version = None}
                        = {chain'[c].active} \ {None}
    BY <1>2 DEF ActiveIsUnannounced
  <2>1. {j \in Admitted : job[j].chain = c /\ job[j].version = None}
          = {chain[c].active} \ {None}
    BY DEF QInv, ActiveIsUnannounced
  <2>2. \A j \in Admitted : j \in Jobs
    BY DEF Admitted
  <2>3. {j \in Admitted : job'[j].chain = c /\ job'[j].version = None}
          = {j \in Admitted : job[j].chain = c /\ job[j].version = None} \ T
    BY <2>2
  <2>4. CASE chain[c].active \in T
    BY <2>1, <2>3, <2>4
  <2>5. CASE chain[c].active \notin T
    BY <2>1, <2>3, <2>5
  <2> QED
    BY <2>4, <2>5
<1> QED
  BY <1>1, <1>3, <1>4, <1>5, RestKept DEF QInv

LEMMA CoordinateStep ==
  ASSUME QInv, NEW S \in SUBSET Uncoordinated, Coordinate(S)
  PROVE  QInv'
<1>1. S \subseteq Jobs /\ S \subseteq Admitted /\ None \notin S
  BY UncoordinatedIsActive, ConstantFacts
<1>2. \A j \in Jobs : job'[j] = Coordinated(S, j)
  BY DEF Coordinate
<1>3. /\ \A j \in Jobs : RowOK(job'[j])
      /\ \A j \in Jobs : /\ job'[j].state = "absent" <=> job[j].state = "absent"
                         /\ job'[j].chain = job[j].chain /\ job'[j].attempt = job[j].attempt
      /\ \A j \in S : job'[j].version # None
      /\ \A j \in Jobs \ S : job'[j].version = job[j].version
  BY <1>1, <1>2, CoordinatedFacts
<1>4. job' \in [Jobs -> JobRows]
  <2>1. job' = [j \in Jobs |-> Coordinated(S, j)]
    BY DEF Coordinate
  <2> QED
    BY <1>2, <1>3, <2>1 DEF RowOK
<1>5. /\ chain' = [c \in Chains |-> Freed(S, c)]
      /\ \A c \in Chains : chain[c] \in ChainRows
  BY DEF Coordinate, QInv, ChainsOK
<1>6. \A c \in Chains :
        /\ Freed(S, c) \in ChainRows /\ Freed(S, c).status = chain[c].status
        /\ Freed(S, c).active = IF chain[c].active \in S THEN None ELSE chain[c].active
  BY <1>5 DEF Freed, ChainRows
<1>7. ChainsOK'
  BY <1>5, <1>6 DEF QInv, ChainsOK
<1>8. LogsOK'
  BY NewRowsOK DEF Coordinate, LogsOK
<1>9. \A c \in Chains :
        /\ chain[c].active \in S \union {None} => chain'[c].active = None
        /\ chain[c].active \notin S => chain'[c].active = chain[c].active
  BY <1>5, <1>6
<1>10. UNCHANGED <<now, bound, held>>
  BY DEF Coordinate
<1> QED
  BY <1>1, <1>3, <1>4, <1>7, <1>8, <1>9, <1>10, CoordinationStep

LEMMA ReadStep ==
  ASSUME QInv, NEW c \in Chains, Read(c)
  PROVE  QInv'
  BY CoordinateStep DEF Read

LEMMA ReconcileStep ==
  ASSUME QInv, ReconcileTerminalJobs
  PROVE  QInv'
  BY CoordinateStep DEF ReconcileTerminalJobs

\* What closing a chain does to its jobs and to its log.
LEMMA CloseFacts ==
  ASSUME QInv, NEW c \in Chains, Close(c)
  PROVE  LET j == chain[c].active
             ended == {j} \intersect Uncoordinated
             rows == log[c] \union NewVersions(ended, c)
             no == Cardinality(rows) + 1
         IN /\ ended \in SUBSET Uncoordinated /\ rows \subseteq LogRows /\ IsFiniteSet(rows)
            /\ no \in Nat /\ no # None
            /\ \A i \in Jobs : job'[i] = IF i = j /\ job[i].state \in Live
                                           THEN Cancelled(i, no) ELSE Coordinated(ended, i)
            /\ \A i \in Jobs : i = j => job[i].chain = c /\ i \in Admitted
                                        /\ (job[i].state \in Live \/ i \in Uncoordinated)
<1> DEFINE j == chain[c].active
           ended == {j} \intersect Uncoordinated
           rows == log[c] \union NewVersions(ended, c)
           no == Cardinality(rows) + 1
<1>1. ended \in SUBSET Uncoordinated
  OBVIOUS
<1>2. rows \subseteq LogRows /\ IsFiniteSet(rows)
  BY <1>1, NewRowsOK
<1>3. no \in Nat /\ no # None
  <2>1. Cardinality(rows) \in Nat
    BY <1>2, FS_CardinalityType
  <2> QED
    BY <2>1, ConstantFacts
<1>4. \A i \in Jobs : job'[i] = IF i = j /\ job[i].state \in Live
                                  THEN Cancelled(i, no) ELSE Coordinated(ended, i)
  BY DEF Close
<1>5. ASSUME NEW i \in Jobs, i = j
      PROVE  job[i].chain = c /\ i \in Admitted /\ (job[i].state \in Live \/ i \in Uncoordinated)
  <2>1. i # None
    BY ConstantFacts
  <2>2. i \in Admitted /\ job[i].chain = c /\ job[i].version = None
    BY <1>5, <2>1 DEF QInv, ActiveIsUnannounced
  <2>3. job[i].state \in Live \union TerminalStates
    BY <2>2, JobFacts, RowTypes DEF Admitted
  <2> QED
    BY <2>2, <2>3 DEF Uncoordinated
<1> QED
  BY <1>1, <1>2, <1>3, <1>4, <1>5

LEMMA CloseStep ==
  ASSUME QInv, NEW c \in Chains, Close(c)
  PROVE  QInv'
<1> DEFINE j == chain[c].active
           ended == {j} \intersect Uncoordinated
           rows == log[c] \union NewVersions(ended, c)
           no == Cardinality(rows) + 1
           T == {j} \intersect Jobs
<1>1. /\ ended \in SUBSET Uncoordinated /\ rows \subseteq LogRows /\ IsFiniteSet(rows)
      /\ no \in Nat /\ no # None
      /\ \A i \in Jobs : job'[i] = IF i = j /\ job[i].state \in Live
                                     THEN Cancelled(i, no) ELSE Coordinated(ended, i)
      /\ \A i \in Jobs : i = j => job[i].chain = c /\ i \in Admitted
                                  /\ (job[i].state \in Live \/ i \in Uncoordinated)
  BY CloseFacts
<1>2. T \in SUBSET Admitted /\ ended \subseteq T
  BY <1>1, UncoordinatedIsActive
<1>3. ended = {j} \intersect Uncoordinated
  OBVIOUS
<1>4. chain' = [chain EXCEPT ![c] = [status |-> "closed", active |-> None]]
  BY DEF Close
<1>5. LogsOK'
  <2>1. [no |-> no, kind |-> "closed", job |-> j] \in LogRows
    <3>1. j \in Jobs \union {None}
      BY DEF QInv, ChainsOK, ChainRows
    <3> HIDE DEF no, j
    <3> QED
      BY <1>1, <3>1 DEF LogRows
  <2>2. rows \union {[no |-> no, kind |-> "closed", job |-> j]} \subseteq LogRows
        /\ IsFiniteSet(rows \union {[no |-> no, kind |-> "closed", job |-> j]})
    BY <1>1, <2>1, FS_AddElement
  <2>3. log' = [log EXCEPT ![c] = rows \union {[no |-> no, kind |-> "closed", job |-> j]}]
    BY DEF Close
  <2>4. products' = [products EXCEPT ![c] = @ \union NewProducts(ended, c)]
    BY DEF Close
  <2>5. products[c] \union NewProducts(ended, c) \subseteq ProductRows
        /\ IsFiniteSet(products[c] \union NewProducts(ended, c))
    BY <1>1, NewRowsOK
  <2> HIDE DEF rows, no, ended, j
  <2> QED
    BY <2>2, <2>3, <2>4, <2>5 DEF QInv, LogsOK
<1> HIDE DEF no, rows, ended, j
<1>6. ASSUME NEW i \in Jobs
      PROVE  /\ RowOK(job'[i])
             /\ job'[i].state = "absent" <=> job[i].state = "absent"
             /\ job'[i].chain = job[i].chain /\ job'[i].attempt = job[i].attempt
             /\ i \in T => job'[i].version # None
             /\ i \notin T => job'[i].version = job[i].version
  <2>1. CASE i = j /\ job[i].state \in Live
    <3>1. job'[i] = Cancelled(i, no) /\ RowOK(job[i])
      BY <1>1, <2>1, JobFacts
    <3> QED
      BY <1>1, <2>1, <3>1, CancelledRow, States, ConstantFacts
  <2>2. CASE i # j
    <3>1. job'[i] = Coordinated(ended, i) /\ i \notin ended
      BY <1>1, <1>3, <2>2
    <3> QED
      BY <1>1, <2>2, <3>1, CoordinatedFacts
  <2>3. CASE i = j /\ job[i].state \notin Live
    <3>1. job'[i] = Coordinated(ended, i) /\ i \in ended
      BY <1>1, <1>3, <2>3
    <3> QED
      BY <1>1, <2>3, <3>1, CoordinatedFacts
  <2> QED
    BY <2>1, <2>2, <2>3
<1>7. job' \in [Jobs -> JobRows]
  <2>1. \E f \in [Jobs -> {job'[i] : i \in Jobs}] : job' = f
    BY DEF Close
  <2> QED
    BY <1>6, <2>1 DEF RowOK
<1>8. chain' \in [Chains -> ChainRows] /\ chain'[c] = [status |-> "closed", active |-> None]
      /\ \A e \in Chains : e # c => chain'[e] = chain[e]
  BY <1>4 DEF QInv, ChainsOK, ChainRows
<1>9. ChainsOK'
  BY <1>8 DEF QInv, ChainsOK
<1>10. ASSUME NEW e \in Chains
       PROVE  /\ chain[e].active \in T \union {None} => chain'[e].active = None
              /\ chain[e].active \notin T => chain'[e].active = chain[e].active
  <2>1. CASE e = c
    <3>1. chain'[e].active = None /\ chain[e].active = j
      BY <1>8, <2>1 DEF j
    <3>2. j \in T \union {None}
      BY DEF QInv, ChainsOK, ChainRows, j
    <3> QED
      BY <3>1, <3>2
  <2>2. CASE e # c
    <3>1. chain'[e].active = chain[e].active
      BY <1>8, <2>2
    <3>2. chain[e].active \in T => e = c
      <4>1. ASSUME chain[e].active \in T PROVE e = c
        <5>1. chain[e].active = j /\ j \in Jobs /\ j # None
          BY <4>1, ConstantFacts
        <5>2. j \in Admitted /\ job[j].chain = e
          BY <5>1 DEF QInv, ActiveIsUnannounced
        <5> QED
          BY <1>1, <5>1, <5>2
      <4> QED
        BY <4>1
    <3> QED
      BY <2>2, <3>1, <3>2
  <2> QED
    BY <2>1, <2>2
<1>11. UNCHANGED <<now, bound, held>>
  BY DEF Close
<1> HIDE DEF T
<1> QED
  BY <1>1, <1>2, <1>5, <1>6, <1>7, <1>9, <1>10, <1>11, CoordinationStep DEF T

LEMMA StepQInv == ASSUME QInv, [Next]_vars PROVE QInv'
<1>1. ASSUME NEW c \in Chains, NEW k \in Keys, NEW t \in Clocks, NEW b \in Budgets,
             AdmitResearch(c, k, t, b) \/ ContinueResearch(c, k, t, b)
      PROVE  QInv'
  BY <1>1, RequestStep
<1>2. ASSUME NEW w \in Threads, NEW t \in Clocks,
             \/ ClaimNext(w, t) \/ Heartbeat(w, t)
             \/ \E state \in Outcomes : Finalize(w, t, state)
      PROVE  QInv'
  BY <1>2, ClaimNextStep, HeartbeatStep, FinalizeStep
<1>3. ASSUME NEW c \in Chains, Read(c) \/ Close(c) \/ AppendFeedback(c) PROVE QInv'
  BY <1>3, ReadStep, CloseStep, AppendFeedbackStep
<1>4. ASSUME NEW w \in Threads, WorkerDies(w) PROVE QInv'
  BY <1>4, WorkerDiesStep
<1> QED
  BY <1>1, <1>2, <1>3, <1>4, ReconcileStep, TickStep DEF Next

-----------------------------------------------------------------------------
(* The theorems *)

\* The invariant holds in every state the transactions of the queue reach.
THEOREM Inductive == Spec => []QInv
<1>1. QInv /\ [Next]_vars => QInv'
  BY StepQInv
<1> QED
  BY InitQInv, <1>1, PTL DEF Spec

\* The rows of the queue keep their shape: a job has an owner exactly while it
\* runs, and its fencing token is never behind its attempts.
THEOREM Typing == Spec => []TypeOK
<1>1. QInv => TypeOK
  BY DEF QInv, TypeOK, RestOK, JobsOK, RowOK, ChainsOK, LogsOK, HeldOK
<1> QED
  BY Inductive, <1>1, PTL

\* The product of a job is the work of its latest attempt (claim_next,
\* finalize, _require_live_lease), however many threads share a worker's name.
THEOREM StaleWorkersWriteNothing == Spec => []LatestAttemptDecides
<1>1. QInv => LatestAttemptDecides
  BY DEF QInv, LatestAttemptDecides, JobsOK, RowOK
<1> QED
  BY Inductive, <1>1, PTL

\* A chain's active job is the one job of it that is not announced, so the
\* coordination of terminal jobs never numbers two of one chain.
THEOREM OneOpenJobPerChain == Spec => []ActiveIsUnannounced
<1>1. QInv => ActiveIsUnannounced
  BY DEF QInv
<1> QED
  BY Inductive, <1>1, PTL

\* No two threads hold a lease that finalize would accept, whatever clocks they
\* read, and the lease is on the active job of its chain.
THEOREM OneWorkerFinishes == Spec => []OneLiveWorker
<1>1. QInv => OneLiveWorker
  <2> SUFFICES ASSUME QInv, NEW w \in Threads, NEW t \in Clocks, LiveLease(w, t)
               PROVE  /\ \A v \in Threads \ {w} : held[v].job = held[w].job => ~LiveLease(v, t)
                      /\ chain[job[held[w].job].chain].active = held[w].job
    BY DEF OneLiveWorker
  <2>1. /\ held[w].job \in Jobs /\ job[held[w].job].state = "running"
        /\ held[w].attempt = job[held[w].job].attempt /\ held[w].job # None
    BY LiveLeaseFacts, ConstantFacts
  <2>2. ASSUME NEW v \in Threads \ {w}, held[v].job = held[w].job PROVE ~LiveLease(v, t)
    <3>1. LiveLease(v, t) => held[v].attempt = job[held[v].job].attempt
      BY LiveLeaseFacts
    <3> QED
      BY <2>1, <2>2, <3>1 DEF QInv, HeldOK
  <2>3. chain[job[held[w].job].chain].active = held[w].job
    <3> DEFINE j == held[w].job
    <3>1. job[j].chain \in Chains /\ job[j].version = None /\ j \in Admitted
      BY <2>1, JobFacts, States DEF RowOK, Admitted
    <3> QED
      BY <3>1 DEF QInv, ActiveIsUnannounced
  <2> QED
    BY <2>2, <2>3
<1> QED
  BY Inductive, <1>1, PTL

-----------------------------------------------------------------------------
(* What a step may do to a job *)

\* A result stays what it is, a version stays where it is, a job on its chain;
\* and the jobs of a closed chain do not change at all.
Settled(j) ==
  /\ job[j].state \in TerminalStates =>
       job'[j].state = job[j].state /\ job'[j].product = job[j].product
  /\ job[j].version # None => job'[j].version = job[j].version
  /\ job[j].state # "absent" => job'[j].chain = job[j].chain /\ job'[j].state # "absent"
  /\ job[j].state # "absent" /\ chain[job[j].chain].status = "closed" => job'[j] = job[j]

LEMMA UnchangedIsSettled ==
  ASSUME NEW j \in Jobs, job'[j] = job[j]
  PROVE  Settled(j)
  BY DEF Settled

\* A job that is live, of a chain that is open, may change.
LEMMA LiveIsSettled ==
  ASSUME QInv, NEW j \in Jobs, job[j].state \in Live, chain[job[j].chain].status = "active",
         job'[j].chain = job[j].chain, job'[j].state # "absent"
  PROVE  Settled(j)
<1>1. job[j].version = None /\ job[j].state \notin TerminalStates
  BY JobFacts, States DEF RowOK
<1> QED
  BY <1>1 DEF Settled

LEMMA QueueSettles ==
  ASSUME QInv, NEW c \in Chains, NEW k \in Keys, NEW d \in Nat, Queue(c, k, d), NEW j \in Jobs
  PROVE  Settled(j)
<1>1. NextJob \notin Admitted /\ NextJob \in Jobs
  BY NextJobIsNew DEF QInv, Queue
<1>2. CASE j # NextJob
  <2>1. job'[j] = job[j]
    BY <1>2 DEF Queue, QInv, JobsOK
  <2> QED
    BY <2>1, UnchangedIsSettled
<1>3. CASE j = NextJob
  <2>1. job[j].state = "absent"
    BY <1>1, <1>3 DEF Admitted
  <2>2. job[j].version = None /\ job[j].state \notin TerminalStates
    BY <2>1, JobFacts, States DEF RowOK
  <2> QED
    BY <2>1, <2>2 DEF Settled
<1> QED
  BY <1>2, <1>3

LEMMA ClaimNextSettles ==
  ASSUME QInv, NEW w \in Threads, NEW t \in Clocks, ClaimNext(w, t), NEW j \in Jobs
  PROVE  Settled(j)
<1>1. job'[j] = IF j \in Overdue(t) THEN TimedOut(j)
                ELSE IF j \in Choice(t) THEN Leased(j, w, t) ELSE job[j]
  BY DEF ClaimNext
<1>2. RowOK(job[j]) /\ t \in Nat
  BY JobFacts, ConstantFacts DEF Clocks, QInv, RestOK
<1>3. CASE j \in Overdue(t)
  <2>1. job[j].state \in Live /\ chain[job[j].chain].status = "active"
    BY <1>3 DEF Overdue
  <2>2. job'[j].chain = job[j].chain /\ job'[j].state # "absent"
    BY <1>1, <1>2, <1>3, <2>1, TimedOutRow
  <2> QED
    BY <2>1, <2>2, LiveIsSettled
<1>4. CASE j \in Choice(t)
  <2>1. job[j].state \in Live /\ j \notin Overdue(t) /\ chain[job[j].chain].status = "active"
    <3>1. j \in Claimable("queued", t) \union Claimable("running", t)
      BY <1>4 DEF Choice
    <3> QED
      BY <1>4, <3>1, ChoiceFacts DEF Claimable
  <2>2. job'[j].chain = job[j].chain /\ job'[j].state # "absent"
    BY <1>1, <1>2, <1>4, <2>1, LeasedRow
  <2> QED
    BY <2>1, <2>2, LiveIsSettled
<1>5. CASE j \notin Overdue(t) /\ j \notin Choice(t)
  BY <1>1, <1>5, UnchangedIsSettled
<1> QED
  BY <1>3, <1>4, <1>5

LEMMA LeaseHolderSettles ==
  ASSUME QInv, NEW w \in Threads, NEW t \in Clocks,
         Heartbeat(w, t) \/ \E state \in Outcomes : Finalize(w, t, state), NEW j \in Jobs
  PROVE  Settled(j)
<1>1. LiveLease(w, t)
  BY DEF Heartbeat, Finalize
<1>2. /\ held[w].job \in Jobs /\ job[held[w].job].state = "running"
      /\ chain[job[held[w].job].chain].status = "active"
  BY <1>1, LiveLeaseFacts DEF LiveLease
<1>3. CASE j # held[w].job
  <2>1. job'[j] = job[j]
    BY <1>2, <1>3 DEF Heartbeat, Finalize, QInv, JobsOK
  <2> QED
    BY <2>1, UnchangedIsSettled
<1>4. CASE j = held[w].job
  <2>1. job[j] \in JobRows /\ job \in [Jobs -> JobRows]
    BY DEF QInv, JobsOK
  <2>2. job'[j].chain = job[j].chain /\ job'[j].state # "absent"
    <3>1. CASE Heartbeat(w, t)
      <4>1. job'[j] = [job[j] EXCEPT !.expires = Smaller(t + LeaseTime, job[j].deadline)]
        BY <1>4, <2>1, <3>1 DEF Heartbeat
      <4> QED
        BY <1>2, <1>4, <2>1, <4>1 DEF JobRows
    <3>2. ASSUME NEW state \in Outcomes, Finalize(w, t, state)
          PROVE  job'[j].chain = job[j].chain /\ job'[j].state # "absent"
      <4> DEFINE p == IF state \in ProductStates THEN held[w].attempt ELSE None
      <4>1. job' = [job EXCEPT ![j].state = state, ![j].owner = None, ![j].expires = 0,
                               ![j].product = p]
        BY <1>4, <3>2 DEF Finalize
      <4> HIDE DEF p
      <4>2. job'[j] = [job[j] EXCEPT !.state = state, !.owner = None, !.expires = 0,
                                     !.product = p]
        BY <2>1, <4>1
      <4>3. state # "absent"
        BY ConstantFacts, States
      <4> QED
        BY <2>1, <4>2, <4>3 DEF JobRows
    <3> QED
      BY <3>1, <3>2
  <2>3. job[j].state \in Live /\ chain[job[j].chain].status = "active"
    BY <1>2, <1>4, States
  <2> QED
    BY <2>2, <2>3, LiveIsSettled
<1> QED
  BY <1>3, <1>4

\* A job that is coordinated was not, and its chain is open.
LEMMA CoordinatedIsSettled ==
  ASSUME QInv, NEW S \in SUBSET Uncoordinated, NEW j \in Jobs, job'[j] = Coordinated(S, j)
  PROVE  Settled(j)
<1>1. CASE j \notin S
  BY <1>1, CoordinatedFacts, UnchangedIsSettled
<1>2. CASE j \in S
  <2>1. /\ job'[j].state = job[j].state /\ job'[j].product = job[j].product
        /\ job'[j].chain = job[j].chain
    BY CoordinatedFacts
  <2>2. job[j].version = None /\ chain[job[j].chain].active = j /\ job[j].chain \in Chains
    BY <1>2, UncoordinatedIsActive
  <2>3. chain[job[j].chain].status # "closed"
    BY <2>2, ConstantFacts DEF QInv, ChainsOK
  <2> QED
    BY <2>1, <2>2, <2>3 DEF Settled
<1> QED
  BY <1>1, <1>2

LEMMA CloseSettles ==
  ASSUME QInv, NEW c \in Chains, Close(c), NEW j \in Jobs
  PROVE  Settled(j)
<1> DEFINE a == chain[c].active
           ended == {a} \intersect Uncoordinated
           rows == log[c] \union NewVersions(ended, c)
           no == Cardinality(rows) + 1
<1>1. /\ ended \in SUBSET Uncoordinated /\ no \in Nat /\ no # None
      /\ job'[j] = IF j = a /\ job[j].state \in Live THEN Cancelled(j, no)
                   ELSE Coordinated(ended, j)
      /\ j = a => job[j].chain = c
  BY CloseFacts
<1>2. chain[c].status = "active"
  BY DEF Close
<1> HIDE DEF a, ended, no
<1>3. CASE j = a /\ job[j].state \in Live
  <2>1. job'[j].chain = job[j].chain /\ job'[j].state = "cancelled"
    BY <1>1, <1>3, JobFacts, CancelledRow, ConstantFacts
  <2> QED
    BY <1>1, <1>2, <1>3, <2>1, LiveIsSettled
<1>4. CASE ~(j = a /\ job[j].state \in Live)
  BY <1>1, <1>4, CoordinatedIsSettled
<1> QED
  BY <1>3, <1>4

LEMMA JobsAreSettled ==
  ASSUME QInv, [Next]_vars, NEW j \in Jobs
  PROVE  Settled(j)
<1>1. ASSUME NEW c \in Chains, NEW k \in Keys, NEW t \in Clocks, NEW b \in Budgets,
             AdmitResearch(c, k, t, b) \/ ContinueResearch(c, k, t, b)
      PROVE  Settled(j)
  <2>1. t + b \in Nat
    BY ConstantFacts DEF Clocks, QInv, RestOK
  <2> QED
    BY <1>1, <2>1, QueueSettles DEF AdmitResearch, ContinueResearch
<1>2. ASSUME NEW S \in SUBSET Uncoordinated, Coordinate(S) PROVE Settled(j)
  <2>1. job'[j] = Coordinated(S, j)
    BY <1>2 DEF Coordinate
  <2> QED
    BY <2>1, CoordinatedIsSettled
<1>3. ASSUME NEW c \in Chains, Read(c) \/ Close(c) \/ AppendFeedback(c) PROVE Settled(j)
  BY <1>2, <1>3, CloseSettles, UnchangedIsSettled DEF Read, AppendFeedback
<1>4. ASSUME NEW w \in Threads, WorkerDies(w) PROVE Settled(j)
  BY <1>4, UnchangedIsSettled DEF WorkerDies
<1>5. CASE Tick \/ UNCHANGED vars
  BY <1>5, UnchangedIsSettled DEF Tick, vars
<1>6. CASE ReconcileTerminalJobs
  BY <1>2, <1>6 DEF ReconcileTerminalJobs
<1> QED
  BY <1>1, <1>3, <1>4, <1>5, <1>6, ClaimNextSettles, LeaseHolderSettles DEF Next

\* A step that touches a closed chain adds feedback to it.
Quiet(c) ==
  /\ products'[c] = products[c] /\ chain'[c] = chain[c]
  /\ \A v \in log'[c] \ log[c] : v.kind = "feedback"

LEMMA ClosedIsQuiet ==
  ASSUME QInv, [Next]_vars, NEW c \in Chains, chain[c].status = "closed"
  PROVE  Quiet(c)
<1>1. ASSUME NEW d \in Chains, NEW k \in Keys, NEW t \in Clocks, NEW b \in Budgets,
             AdmitResearch(d, k, t, b) \/ ContinueResearch(d, k, t, b)
      PROVE  Quiet(c)
  <2>1. d # c
    BY <1>1 DEF AdmitResearch, ContinueResearch
  <2> QED
    BY <1>1, <2>1 DEF AdmitResearch, ContinueResearch, Queue, QInv, ChainsOK, LogsOK, Quiet
<1>2. ASSUME NEW S \in SUBSET Uncoordinated, Coordinate(S) PROVE Quiet(c)
  <2>1. chain[c].active = None /\ None \notin S
    BY UncoordinatedIsActive, ConstantFacts DEF QInv, ChainsOK
  <2>2. NewVersions(S, c) = {} /\ NewProducts(S, c) = {}
    BY <2>1, NewRows
  <2> QED
    BY <1>2, <2>1, <2>2 DEF Coordinate, Freed, Quiet
<1>3. ASSUME NEW d \in Chains, Close(d) PROVE Quiet(c)
  <2>1. d # c
    BY <1>3 DEF Close
  <2> QED
    BY <1>3, <2>1 DEF Close, QInv, ChainsOK, LogsOK, Quiet
<1>4. ASSUME NEW d \in Chains, AppendFeedback(d) PROVE Quiet(c)
  <2>1. log' = [log EXCEPT ![d] = @ \union {Row(d, "feedback", None)}]
        /\ UNCHANGED <<products, chain>>
    BY <1>4 DEF AppendFeedback
  <2>2. Row(d, "feedback", None).kind = "feedback"
    BY DEF Row
  <2> QED
    BY <2>1, <2>2 DEF QInv, LogsOK, Quiet
<1>5. ASSUME UNCHANGED <<log, products, chain>> PROVE Quiet(c)
  BY <1>5 DEF Quiet
<1>6. ASSUME NEW d \in Chains, Read(d) PROVE Quiet(c)
  BY <1>2, <1>6 DEF Read
<1>7. CASE ReconcileTerminalJobs
  BY <1>2, <1>7 DEF ReconcileTerminalJobs
<1>8. ASSUME NEW w \in Threads, NEW t \in Clocks,
             \/ ClaimNext(w, t) \/ Heartbeat(w, t)
             \/ \E state \in Outcomes : Finalize(w, t, state)
      PROVE  Quiet(c)
  BY <1>5, <1>8 DEF ClaimNext, Heartbeat, Finalize
<1>9. CASE Tick \/ UNCHANGED vars \/ \E w \in Threads : WorkerDies(w)
  BY <1>5, <1>9 DEF WorkerDies, Tick, vars
<1>10. ASSUME NEW d \in Chains, Read(d) \/ Close(d) \/ AppendFeedback(d) PROVE Quiet(c)
  BY <1>3, <1>4, <1>6, <1>10
<1> QED
  BY <1>1, <1>7, <1>8, <1>9, <1>10 DEF Next

\* After close, nothing but feedback reaches a chain: no late worker, claim or
\* reconciliation changes its jobs, its products or its log (_require_live_lease,
\* claim_next, reconcile_terminal_jobs).
THEOREM NothingAfterClose == Spec => ClosedChainIsQuiet
<1>1. QInv /\ [Next]_vars =>
        \A c \in Chains : chain[c].status = "closed" =>
          /\ products'[c] = products[c] /\ chain'[c] = chain[c]
          /\ \A v \in log'[c] \ log[c] : v.kind = "feedback"
          /\ \A j \in Jobs : job[j].chain = c /\ job[j].state # "absent" => job'[j] = job[j]
  BY ClosedIsQuiet, JobsAreSettled DEF Settled, Quiet
<1> QED
  BY Inductive, <1>1, PTL DEF Spec, ClosedChainIsQuiet

-----------------------------------------------------------------------------
(* The log of a chain *)

\* Rows numbered without gaps.
Dense(X) ==
  /\ \A x \in X : x.no \in 1..Cardinality(X)
  /\ \A n \in 1..Cardinality(X) : \E x \in X : x.no = n
  /\ \A x, y \in X : x.no = y.no => x = y

KindOf(r) == IF r.state = "cancelled" THEN "closed" ELSE "terminal"

\* L and P, the log and the products of chain c, tell what happened to the
\* jobs J: each job that has a version is in the log under that version, and
\* only such jobs are in the log as ended or in the products.
IsAnnounced(r, c) == r.state \in TerminalStates /\ r.chain = c /\ r.version # None

LogOK(L, P, J, c) ==
  /\ Dense(L) /\ Dense(P)
  /\ \A j \in Jobs : J[j].state # "absent" /\ J[j].chain = c /\ J[j].version # None =>
       [no |-> J[j].version, job |-> j, kind |-> KindOf(J[j])] \in L
  /\ \A v \in L : v.kind = "terminal" \/ (v.kind = "closed" /\ v.job # None) =>
       v.job \in Jobs /\ IsAnnounced(J[v.job], c)
  /\ \A v \in L : v.kind = "terminal" =>
       J[v.job].state # "cancelled" /\ J[v.job].version = v.no
  /\ \A v \in L : v.kind = "closed" /\ v.job # None /\ J[v.job].state = "cancelled" =>
       J[v.job].version = v.no
  /\ \A p \in P : p.job \in Jobs /\ IsAnnounced(J[p.job], c)
                  /\ J[p.job].state \in ProductStates
  /\ \A j \in Jobs : IsAnnounced(J[j], c) /\ J[j].state \in ProductStates =>
       \E p \in P : p.job = j
  /\ \A p, q \in P : p.no < q.no => J[p.job].version < J[q.job].version

LEMMA DenseAdd ==
  ASSUME NEW X, IsFiniteSet(X), Dense(X), NEW x, x.no = Cardinality(X) + 1
  PROVE  /\ Dense(X \union {x}) /\ Cardinality(X \union {x}) = Cardinality(X) + 1
         /\ Cardinality(X) \in Nat /\ x \notin X
<1>1. Cardinality(X) \in Nat
  BY FS_CardinalityType
<1>2. x \notin X
  BY <1>1 DEF Dense
<1>3. Cardinality(X \union {x}) = Cardinality(X) + 1
  BY <1>2, FS_AddElement
<1>4. Dense(X \union {x})
  <2> DEFINE n == Cardinality(X)
             Y == X \union {x}
  <2>1. n \in Nat /\ Cardinality(Y) = n + 1 /\ x.no = n + 1
    BY <1>1, <1>3
  <2>2. \A y \in X : y.no \in 1..n
    BY DEF Dense
  <2>3. \A m \in 1..n : \E y \in X : y.no = m
    BY DEF Dense
  <2> HIDE DEF n
  <2>4. \A y \in Y : y.no \in 1..(n + 1)
    BY <2>1, <2>2
  <2>5. \A m \in 1..(n + 1) : \E y \in Y : y.no = m
    <3> SUFFICES ASSUME NEW m \in 1..(n + 1) PROVE \E y \in Y : y.no = m
      OBVIOUS
    <3>1. CASE m = n + 1
      BY <2>1, <3>1
    <3>2. CASE m # n + 1
      <4>1. m \in 1..n
        BY <2>1, <3>2
      <4> QED
        BY <2>3, <4>1
    <3> QED
      BY <3>1, <3>2
  <2>6. \A y, z \in Y : y.no = z.no => y = z
    BY <2>1, <2>2 DEF Dense
  <2> HIDE DEF Y
  <2>7. Dense(Y)
    BY <2>1, <2>4, <2>5, <2>6 DEF Dense
  <2> QED
    BY <2>7 DEF Y
<1> QED
  BY <1>1, <1>2, <1>3, <1>4

\* Jobs that had a version when the jobs were J are the same in J2.
Keeps(J, J2) ==
  \A j \in Jobs : J[j].version # None =>
    J2[j].state = J[j].state /\ J2[j].chain = J[j].chain /\ J2[j].version = J[j].version

\* No job but j has a version of chain c that it did not have.
Brings(J, J2, j, c) ==
  \A i \in Jobs : i # j /\ J2[i].state # "absent" /\ J2[i].chain = c /\ J2[i].version # None =>
    J[i].version # None

LEMMA LogQuiet ==
  ASSUME NEW L, NEW P, NEW J, NEW J2, NEW c, LogOK(L, P, J, c), Keeps(J, J2),
         Brings(J, J2, None, c)
  PROVE  LogOK(L, P, J2, c)
<1>1. \A j \in Jobs : J2[j].state # "absent" /\ J2[j].chain = c /\ J2[j].version # None =>
        /\ J[j].version # None /\ J2[j].state = J[j].state /\ J2[j].chain = J[j].chain
        /\ J2[j].version = J[j].version
  BY ConstantFacts DEF Keeps, Brings
<1>2. \A j \in Jobs : IsAnnounced(J[j], c) =>
        /\ IsAnnounced(J2[j], c) /\ J2[j].state = J[j].state
        /\ J2[j].version = J[j].version
  BY DEF Keeps, IsAnnounced
<1>3. \A j \in Jobs : IsAnnounced(J2[j], c) => IsAnnounced(J[j], c)
  BY <1>1, States DEF IsAnnounced
<1>4. \A j \in Jobs : J2[j].state # "absent" /\ J2[j].chain = c /\ J2[j].version # None =>
        [no |-> J2[j].version, job |-> j, kind |-> KindOf(J2[j])] \in L
  BY <1>1 DEF LogOK, KindOf
<1>5. \A v \in L : v.kind = "terminal" \/ (v.kind = "closed" /\ v.job # None) =>
        v.job \in Jobs /\ IsAnnounced(J[v.job], c)
  BY DEF LogOK
<1>6. \A p \in P : p.job \in Jobs /\ IsAnnounced(J[p.job], c)
                   /\ J[p.job].state \in ProductStates
  BY DEF LogOK
<1>7. \A p, q \in P : p.no < q.no => J2[p.job].version < J2[q.job].version
  BY <1>2, <1>6 DEF LogOK
<1> QED
  BY <1>2, <1>3, <1>4, <1>5, <1>6, <1>7 DEF LogOK

\* A row that announces no job, or repeats one that was announced.
LEMMA LogPlus ==
  ASSUME NEW L, NEW P, NEW J, NEW c, LogOK(L, P, J, c), IsFiniteSet(L), NEW x,
         x.no = Cardinality(L) + 1, x.kind # "terminal",
         x.kind = "closed" /\ x.job # None =>
           x.job \in Jobs /\ IsAnnounced(J[x.job], c) /\ J[x.job].state # "cancelled"
  PROVE  LogOK(L \union {x}, P, J, c)
<1>1. Dense(L \union {x})
  BY DenseAdd DEF LogOK
<1> QED
  BY <1>1 DEF LogOK

\* A job gets its version.
LEMMA LogGrows ==
  ASSUME NEW L, NEW P, NEW J, NEW J2, NEW c, LogOK(L, P, J, c),
         IsFiniteSet(L), IsFiniteSet(P), Keeps(J, J2), NEW j \in Jobs, Brings(J, J2, j, c),
         J[j].version = None, J2[j].chain = c, J2[j].state \in TerminalStates,
         J2[j].version = Cardinality(L) + 1,
         NEW x, x = [no |-> Cardinality(L) + 1, job |-> j, kind |-> KindOf(J2[j])],
         NEW p, p = [no |-> Cardinality(P) + 1, job |-> j],
         NEW P2, P2 = IF J2[j].state \in ProductStates THEN P \union {p} ELSE P
  PROVE  LogOK(L \union {x}, P2, J2, c)
<1>1. /\ Dense(L \union {x}) /\ Dense(P \union {p})
      /\ Cardinality(L) \in Nat /\ Cardinality(P) \in Nat
  BY DenseAdd DEF LogOK
<1>2. \A i \in Jobs : IsAnnounced(J[i], c) =>
        /\ i # j /\ IsAnnounced(J2[i], c) /\ J2[i].state = J[i].state
        /\ J2[i].version = J[i].version
  BY DEF Keeps, IsAnnounced
<1>3. IsAnnounced(J2[j], c) /\ J2[j].state # "absent"
  BY <1>1, States, ConstantFacts DEF IsAnnounced
<1>4. \A i \in Jobs : i # j /\ J2[i].state # "absent" /\ J2[i].chain = c /\ J2[i].version # None =>
        /\ J[i].version # None /\ J2[i].state = J[i].state /\ J2[i].chain = J[i].chain
        /\ J2[i].version = J[i].version
  BY DEF Keeps, Brings
<1>5. \A i \in Jobs : i # j /\ IsAnnounced(J2[i], c) => IsAnnounced(J[i], c)
  BY <1>4, States DEF IsAnnounced
<1>6. \A i \in Jobs : J2[i].state # "absent" /\ J2[i].chain = c /\ J2[i].version # None =>
        [no |-> J2[i].version, job |-> i, kind |-> KindOf(J2[i])] \in L \union {x}
  BY <1>4 DEF LogOK, KindOf
<1>7. x.job = j /\ x.no = J2[j].version /\ x.kind = KindOf(J2[j])
  OBVIOUS
<1>8. \A v \in L : v.kind = "terminal" \/ (v.kind = "closed" /\ v.job # None) =>
        v.job \in Jobs /\ IsAnnounced(J[v.job], c)
  BY DEF LogOK
<1>9. \A v \in L \union {x} : v.kind = "terminal" \/ (v.kind = "closed" /\ v.job # None) =>
        v.job \in Jobs /\ IsAnnounced(J2[v.job], c)
  BY <1>2, <1>3, <1>7, <1>8
<1>10. \A v \in L \union {x} : v.kind = "terminal" =>
         J2[v.job].state # "cancelled" /\ J2[v.job].version = v.no
  BY <1>2, <1>7, <1>8 DEF LogOK, KindOf
<1>11. \A v \in L \union {x} :
         v.kind = "closed" /\ v.job # None /\ J2[v.job].state = "cancelled" =>
           J2[v.job].version = v.no
  BY <1>2, <1>7, <1>8 DEF LogOK
<1>12. \A q \in P : q.job \in Jobs /\ IsAnnounced(J[q.job], c) /\ q.job # j
                    /\ J[q.job].state \in ProductStates
  BY <1>2 DEF LogOK
<1>13. \A q \in P2 : q.job \in Jobs /\ IsAnnounced(J2[q.job], c)
                     /\ J2[q.job].state \in ProductStates
  BY <1>2, <1>3, <1>12
<1>14. \A i \in Jobs : IsAnnounced(J2[i], c) /\ J2[i].state \in ProductStates =>
         \E q \in P2 : q.job = i
  <2> SUFFICES ASSUME NEW i \in Jobs, IsAnnounced(J2[i], c), J2[i].state \in ProductStates
               PROVE  \E q \in P2 : q.job = i
    OBVIOUS
  <2>1. CASE i = j
    BY <2>1
  <2>2. CASE i # j
    <3>1. IsAnnounced(J[i], c) /\ J[i].state \in ProductStates
      BY <1>2, <1>5, <2>2
    <3> QED
      BY <3>1 DEF LogOK
  <2> QED
    BY <2>1, <2>2
<1>15. Dense(P2)
  BY <1>1 DEF LogOK
<1>16. \A q \in P : J2[q.job].version = J[q.job].version
                    /\ J[q.job].version \in 1..Cardinality(L) /\ q.no \in 1..Cardinality(P)
  <2> SUFFICES ASSUME NEW q \in P
               PROVE  J2[q.job].version = J[q.job].version
                    /\ J[q.job].version \in 1..Cardinality(L) /\ q.no \in 1..Cardinality(P)
    OBVIOUS
  <2>1. q.job \in Jobs /\ IsAnnounced(J[q.job], c)
    BY <1>12
  <2>2. [no |-> J[q.job].version, job |-> q.job, kind |-> KindOf(J[q.job])] \in L
    BY <2>1, States DEF LogOK, IsAnnounced
  <2>3. J[q.job].version \in 1..Cardinality(L)
    BY <2>2 DEF LogOK, Dense
  <2> QED
    BY <1>2, <2>1, <2>3 DEF LogOK, Dense
<1>17. \A q, r \in P2 : q.no < r.no => J2[q.job].version < J2[r.job].version
  <2> SUFFICES ASSUME NEW q \in P2, NEW r \in P2, q.no < r.no
               PROVE  J2[q.job].version < J2[r.job].version
    OBVIOUS
  <2>1. CASE q \in P /\ r \in P
    BY <1>16, <2>1 DEF LogOK
  <2>2. CASE q \in P /\ r = p
    BY <1>1, <1>16, <2>2
  <2>3. CASE q = p
    <3>1. r = p \/ r \in P
      OBVIOUS
    <3>2. r.no <= Cardinality(P) + 1 /\ r.no \in Nat
      BY <1>1, <1>16, <3>1
    <3> QED
      BY <1>1, <2>3, <3>2
  <2> QED
    BY <2>1, <2>2, <2>3
<1> QED
  BY <1>1, <1>6, <1>9, <1>10, <1>11, <1>13, <1>14, <1>15, <1>17 DEF LogOK

ChainLogOK(c) == LogOK(log[c], products[c], job, c)

LInv == QInv /\ \A c \in Chains : ChainLogOK(c)

LEMMA InitLInv == Init => LInv
<1> SUFFICES ASSUME Init PROVE \A c \in Chains : ChainLogOK(c)
  BY InitQInv DEF LInv
<1> TAKE c \in Chains
<1>1. log[c] = {} /\ products[c] = {} /\ \A j \in Jobs : job[j].state = "absent"
  BY DEF Init, NoJob
<1>2. Dense({})
  BY FS_EmptySet DEF Dense
<1> QED
  BY <1>1, <1>2, States DEF ChainLogOK, LogOK, IsAnnounced

LEMMA StepKeeps ==
  ASSUME QInv, [Next]_vars
  PROVE  Keeps(job, job')
<1>1. \A j \in Jobs : RowOK(job[j]) /\ Settled(j)
  BY JobFacts, JobsAreSettled
<1>2. \A j \in Jobs : job[j].version # None =>
        job[j].state \in TerminalStates /\ job[j].state # "absent"
  BY <1>1, States DEF RowOK
<1> QED
  BY <1>1, <1>2 DEF Settled, Keeps

\* A step that gives no version and touches no log.
LEMMA QuietStep ==
  ASSUME LInv, [Next]_vars, NEW c \in Chains, log'[c] = log[c], products'[c] = products[c],
         \A j \in Jobs : job'[j].chain = c /\ job'[j].version # None => job[j].version # None
  PROVE  ChainLogOK(c)'
<1>1. Keeps(job, job') /\ Brings(job, job', None, c)
  BY StepKeeps DEF LInv, Brings
<1> QED
  BY <1>1, LogQuiet DEF LInv, ChainLogOK

\* A step that adds a row which announces no job.
LEMMA PlusStep ==
  ASSUME LInv, [Next]_vars, NEW c \in Chains, NEW kind \in {"pending", "feedback"}, NEW j,
         log'[c] = log[c] \union {Row(c, kind, j)}, products'[c] = products[c],
         \A i \in Jobs : job'[i].chain = c /\ job'[i].version # None => job[i].version # None
  PROVE  ChainLogOK(c)'
<1>1. Keeps(job, job') /\ Brings(job, job', None, c)
  BY StepKeeps DEF LInv, Brings
<1>2. LogOK(log[c], products[c], job', c)
  BY <1>1, LogQuiet DEF LInv, ChainLogOK
<1>3. IsFiniteSet(log[c])
  BY CardsAreNat DEF LInv
<1>4. LogOK(log[c] \union {Row(c, kind, j)}, products[c], job', c)
  <2> DEFINE x == Row(c, kind, j)
  <2>1. x.no = Cardinality(log[c]) + 1 /\ x.kind # "terminal" /\ x.kind # "closed"
    BY DEF Row
  <2> HIDE DEF x
  <2>2. LogOK(log[c] \union {x}, products[c], job', c)
    BY <1>2, <1>3, <2>1, LogPlus
  <2> QED
    BY <2>2 DEF x
<1> QED
  BY <1>4 DEF ChainLogOK

LEMMA WorkerVersions ==
  ASSUME QInv, NEW w \in Threads, NEW t \in Clocks,
         \/ ClaimNext(w, t) \/ Heartbeat(w, t)
         \/ \E state \in Outcomes : Finalize(w, t, state),
         NEW j \in Jobs
  PROVE  job'[j].version = job[j].version
<1>1. job \in [Jobs -> JobRows] /\ RowOK(job[j])
  BY JobFacts DEF QInv, JobsOK
<1>2. CASE ClaimNext(w, t)
  <2>1. job'[j] = IF j \in Overdue(t) THEN TimedOut(j)
                  ELSE IF j \in Choice(t) THEN Leased(j, w, t) ELSE job[j]
    BY <1>2 DEF ClaimNext
  <2>2. j \in Overdue(t) \union Choice(t) => job[j].state \in Live
    BY ChoiceFacts
  <2>3. job[j].state \in Live => job[j].version = None
    BY <1>1, States DEF RowOK
  <2>4. t \in Nat
    BY ConstantFacts DEF Clocks, QInv, RestOK
  <2> QED
    BY <1>1, <2>1, <2>2, <2>3, <2>4, TimedOutRow, LeasedRow
<1>3. CASE Heartbeat(w, t)
  <2>1. job' = [job EXCEPT ![held[w].job].expires =
                  Smaller(t + LeaseTime, job[held[w].job].deadline)]
    BY <1>3 DEF Heartbeat
  <2> QED
    BY <1>1, <2>1 DEF JobRows
<1>4. ASSUME NEW state \in Outcomes, Finalize(w, t, state)
      PROVE  job'[j].version = job[j].version
  <2> DEFINE p == IF state \in ProductStates THEN held[w].attempt ELSE None
  <2>1. job' = [job EXCEPT ![held[w].job].state = state, ![held[w].job].owner = None,
                           ![held[w].job].expires = 0, ![held[w].job].product = p]
    BY <1>4 DEF Finalize
  <2> HIDE DEF p
  <2>2. job'[j] = IF j = held[w].job
                    THEN [job[j] EXCEPT !.state = state, !.owner = None, !.expires = 0,
                                        !.product = p]
                    ELSE job[j]
    BY <1>1, <2>1
  <2> QED
    BY <1>1, <2>2 DEF JobRows
<1> QED
  BY <1>2, <1>3, <1>4

LEMMA WorkerLogs ==
  ASSUME LInv, [Next]_vars, NEW w \in Threads, NEW t \in Clocks,
         \/ ClaimNext(w, t) \/ Heartbeat(w, t)
         \/ \E state \in Outcomes : Finalize(w, t, state),
         NEW c \in Chains
  PROVE  ChainLogOK(c)'
<1>1. \A j \in Jobs : job'[j].version = job[j].version
  BY WorkerVersions DEF LInv
<1>2. UNCHANGED <<log, products>>
  BY DEF ClaimNext, Heartbeat, Finalize
<1> QED
  BY <1>1, <1>2, QuietStep

LEMMA RequestLogs ==
  ASSUME LInv, [Next]_vars, NEW d \in Chains, NEW k \in Keys, NEW e \in Nat, Queue(d, k, e),
         NEW c \in Chains
  PROVE  ChainLogOK(c)'
<1> DEFINE r == [NoJob EXCEPT !.state = "queued", !.chain = d, !.deadline = e]
           j == NextJob
<1>1. r.version = None
  BY QueuedRow
<1>2. /\ j \in Jobs /\ job' = [job EXCEPT ![j] = r] /\ UNCHANGED products
      /\ log' = [log EXCEPT ![d] = @ \union {Row(d, "pending", j)}]
  BY DEF Queue
<1> HIDE DEF r, j
<1>3. \A i \in Jobs : job'[i].version # None => job[i].version # None
  BY <1>1, <1>2 DEF LInv, QInv, JobsOK
<1>4. CASE c = d
  <2>1. log'[c] = log[c] \union {Row(c, "pending", j)}
    BY <1>2, <1>4 DEF LInv, QInv, LogsOK
  <2> QED
    BY <1>2, <1>3, <2>1, PlusStep
<1>5. CASE c # d
  <2>1. log'[c] = log[c]
    BY <1>2, <1>5 DEF LInv, QInv, LogsOK
  <2> QED
    BY <1>2, <1>3, <2>1, QuietStep
<1> QED
  BY <1>4, <1>5

LEMMA FeedbackLogs ==
  ASSUME LInv, [Next]_vars, NEW d \in Chains, AppendFeedback(d), NEW c \in Chains
  PROVE  ChainLogOK(c)'
<1>1. /\ log' = [log EXCEPT ![d] = @ \union {Row(d, "feedback", None)}]
      /\ UNCHANGED <<products, job>>
  BY DEF AppendFeedback
<1>2. CASE c = d
  <2>1. log'[c] = log[c] \union {Row(c, "feedback", None)}
    BY <1>1, <1>2 DEF LInv, QInv, LogsOK
  <2> QED
    BY <1>1, <2>1, PlusStep
<1>3. CASE c # d
  <2>1. log'[c] = log[c]
    BY <1>1, <1>3 DEF LInv, QInv, LogsOK
  <2> QED
    BY <1>1, <2>1, QuietStep
<1> QED
  BY <1>2, <1>3

\* A coordination that finds the active job of a chain.
LEMMA CoordinatedLog ==
  ASSUME LInv, NEW S \in SUBSET Uncoordinated, NEW c \in Chains, chain[c].active \in S,
         NEW J2, Keeps(job, J2), \A i \in Jobs : J2[i] = Coordinated(S, i)
  PROVE  LogOK(log[c] \union NewVersions(S, c), products[c] \union NewProducts(S, c), J2, c)
<1> DEFINE j == chain[c].active
           x == [no |-> Cardinality(log[c]) + 1, job |-> j, kind |-> KindOf(J2[j])]
           p == [no |-> Cardinality(products[c]) + 1, job |-> j]
           P2 == IF J2[j].state \in ProductStates THEN products[c] \union {p} ELSE products[c]
<1>1. /\ j \in Jobs /\ j \in Admitted /\ job[j].version = None /\ job[j].state \in TerminalStates
      /\ j # None
  BY UncoordinatedIsActive, ConstantFacts DEF LInv, Uncoordinated
<1>2. job[j].chain = c
  BY <1>1 DEF LInv, QInv, ActiveIsUnannounced
<1>3. /\ J2[j].chain = c /\ J2[j].state = job[j].state
      /\ J2[j].version = Cardinality(log[c]) + 1
  BY <1>1, <1>2, CoordinatedFacts DEF LInv
<1>4. Brings(job, J2, j, c)
  <2> SUFFICES ASSUME NEW i \in Jobs, i # j, J2[i].chain = c, J2[i].version # None
               PROVE  job[i].version # None
    BY DEF Brings
  <2>1. job[i].chain = c
    BY CoordinatedFacts DEF LInv
  <2>2. i \notin S
    BY <2>1, UncoordinatedIsActive DEF LInv
  <2> QED
    BY <2>2, CoordinatedFacts DEF LInv
<1>5. job[j].state # "cancelled"
  BY <1>1, JobFacts DEF LInv, RowOK
<1>6. NewVersions(S, c) = {x}
  <2>1. NewVersions(S, c) = {Row(c, "terminal", j)}
    BY NewRows DEF LInv
  <2>2. KindOf(J2[j]) = "terminal"
    BY <1>3, <1>5 DEF KindOf
  <2> QED
    BY <2>1, <2>2 DEF Row
<1>7. products[c] \union NewProducts(S, c) = P2
  <2>1. NewProducts(S, c) = Made(c, j)
    BY NewRows DEF LInv
  <2> QED
    BY <1>3, <2>1 DEF Made
<1>8. IsFiniteSet(log[c]) /\ IsFiniteSet(products[c]) /\ LogOK(log[c], products[c], job, c)
  BY CardsAreNat DEF LInv, ChainLogOK
<1>9. x = [no |-> Cardinality(log[c]) + 1, job |-> j, kind |-> KindOf(J2[j])]
      /\ p = [no |-> Cardinality(products[c]) + 1, job |-> j]
      /\ P2 = IF J2[j].state \in ProductStates THEN products[c] \union {p} ELSE products[c]
  OBVIOUS
<1> HIDE DEF x, p, P2, j
<1>10. LogOK(log[c] \union {x}, P2, J2, c)
  BY <1>1, <1>3, <1>4, <1>8, <1>9, LogGrows
<1> QED
  BY <1>6, <1>7, <1>10

LEMMA CoordinateLogs ==
  ASSUME LInv, [Next]_vars, NEW S \in SUBSET Uncoordinated, Coordinate(S), NEW c \in Chains
  PROVE  ChainLogOK(c)'
<1>1. /\ log'[c] = log[c] \union NewVersions(S, c)
      /\ products'[c] = products[c] \union NewProducts(S, c)
      /\ \A i \in Jobs : job'[i] = Coordinated(S, i)
  BY DEF Coordinate
<1>2. CASE chain[c].active \in S
  <2>1. Keeps(job, job')
    BY StepKeeps DEF LInv
  <2> QED
    BY <1>1, <1>2, <2>1, CoordinatedLog DEF ChainLogOK
<1>3. CASE chain[c].active \notin S
  <2>1. log'[c] = log[c] /\ products'[c] = products[c]
    BY <1>1, <1>3, NewRows DEF LInv
  <2>2. ASSUME NEW i \in Jobs, job'[i].chain = c, job'[i].version # None
        PROVE  job[i].version # None
    <3>1. job[i].chain = c
      BY <1>1, <2>2, CoordinatedFacts DEF LInv
    <3>2. i \notin S
      BY <1>3, <3>1, UncoordinatedIsActive DEF LInv
    <3> QED
      BY <1>1, <2>2, <3>2, CoordinatedFacts DEF LInv
  <2> QED
    BY <2>1, <2>2, QuietStep
<1> QED
  BY <1>2, <1>3

LEMMA CloseLogs ==
  ASSUME LInv, [Next]_vars, NEW d \in Chains, Close(d), NEW c \in Chains
  PROVE  ChainLogOK(c)'
<1> DEFINE j == chain[d].active
           ended == {j} \intersect Uncoordinated
           rows == log[d] \union NewVersions(ended, d)
           no == Cardinality(rows) + 1
           last == [no |-> no, kind |-> "closed", job |-> j]
<1>1. /\ ended \in SUBSET Uncoordinated /\ IsFiniteSet(rows)
      /\ no \in Nat /\ no # None
      /\ \A i \in Jobs : job'[i] = IF i = j /\ job[i].state \in Live
                                     THEN Cancelled(i, no) ELSE Coordinated(ended, i)
      /\ \A i \in Jobs : i = j => job[i].chain = d /\ i \in Admitted
                                  /\ (job[i].state \in Live \/ i \in Uncoordinated)
  BY CloseFacts DEF LInv
<1>2. /\ log' = [log EXCEPT ![d] = rows \union {last}]
      /\ products' = [products EXCEPT ![d] = @ \union NewProducts(ended, d)]
  BY DEF Close
<1>3. Keeps(job, job')
  BY StepKeeps DEF LInv
<1>4. ended = {j} \intersect Uncoordinated /\ rows = log[d] \union NewVersions(ended, d)
      /\ no = Cardinality(rows) + 1 /\ last = [no |-> no, kind |-> "closed", job |-> j]
      /\ j = chain[d].active
  OBVIOUS
<1>5. j \in Jobs \union {None}
  BY DEF LInv, QInv, ChainsOK, ChainRows
<1> HIDE DEF j, ended, rows, no, last
<1>6. last.no = no /\ last.kind = "closed" /\ last.job = j
  BY <1>4
<1>7. IsFiniteSet(log[d]) /\ IsFiniteSet(products[d]) /\ LogOK(log[d], products[d], job, d)
  BY CardsAreNat DEF LInv, ChainLogOK
<1>8. CASE c # d
  <2>1. log'[c] = log[c] /\ products'[c] = products[c]
    BY <1>2, <1>8 DEF LInv, QInv, LogsOK
  <2>2. ASSUME NEW i \in Jobs, job'[i].chain = c, job'[i].version # None
        PROVE  job[i].version # None
    <3>1. Settled(i)
      BY JobsAreSettled DEF LInv
    <3>2. CASE i = j
      <4>1. job[i].state # "absent" /\ job[i].chain = d
        BY <1>1, <3>2 DEF Admitted
      <4> QED
        BY <1>8, <2>2, <3>1, <4>1 DEF Settled
    <3>3. CASE i # j
      <4>1. i \notin ended /\ job'[i] = Coordinated(ended, i)
        BY <1>1, <1>4, <3>3
      <4> QED
        BY <1>1, <2>2, <4>1, CoordinatedFacts DEF LInv
    <3> QED
      BY <3>2, <3>3
  <2> QED
    BY <2>1, <2>2, QuietStep
<1>9. CASE c = d
  <2>1. log'[c] = rows \union {last} /\ products'[c] = products[d] \union NewProducts(ended, d)
    BY <1>2, <1>9 DEF LInv, QInv, LogsOK
  <2>2. CASE j \in ended
    <3>1. j \in Jobs /\ job[j].state \in TerminalStates /\ job[j].state \notin Live
      BY <1>1, <2>2, States, UncoordinatedIsActive DEF LInv, Uncoordinated
    <3>2. \A i \in Jobs : job'[i] = Coordinated(ended, i)
      BY <1>1, <3>1
    <3>3. LogOK(rows, products[d] \union NewProducts(ended, d), job', d)
      BY <1>1, <1>3, <1>4, <2>2, <3>2, CoordinatedLog
    <3>4. IsAnnounced(job'[j], d) /\ job'[j].state # "cancelled"
      <4>1. job[j].state # "cancelled"
        BY <2>2, <3>1, JobFacts, UncoordinatedIsActive, <1>1 DEF LInv, RowOK
      <4>2. job[j].chain = d
        BY <1>1, <3>1
      <4> QED
        BY <1>1, <2>2, <3>1, <3>2, <4>1, <4>2, CoordinatedFacts DEF LInv, IsAnnounced
    <3>5. LogOK(rows \union {last}, products[d] \union NewProducts(ended, d), job', d)
      BY <1>1, <1>4, <1>6, <3>1, <3>3, <3>4, LogPlus
    <3> QED
      BY <1>9, <2>1, <3>5 DEF ChainLogOK
  <2>3. CASE j \notin ended
    <3>1. chain[d].active \notin ended
      BY <1>4, <2>3
    <3>2. NewVersions(ended, d) = {} /\ NewProducts(ended, d) = {}
      BY <1>1, <3>1, NewRows DEF LInv
    <3>3. rows = log[d] /\ products[d] \union NewProducts(ended, d) = products[d]
          /\ ended = {}
      BY <1>4, <2>3, <3>2
    <3>4. \A i \in Jobs : i # j => job'[i].version = job[i].version
      BY <1>1, <3>3, CoordinatedFacts DEF LInv
    <3>5. CASE j = None
      <4>1. Brings(job, job', None, d)
        BY <3>4, <3>5 DEF Brings
      <4>2. LogOK(log[d], products[d], job', d)
        BY <1>3, <1>7, <4>1, LogQuiet
      <4>3. LogOK(log[d] \union {last}, products[d], job', d)
        BY <1>4, <1>6, <1>7, <3>3, <3>5, <4>2, LogPlus
      <4> QED
        BY <1>9, <2>1, <3>3, <4>3 DEF ChainLogOK
    <3>6. CASE j # None
      <4>1. j \in Jobs /\ job[j].state \in Live
        BY <1>1, <1>4, <1>5, <2>3, <3>6
      <4>2. job'[j] = Cancelled(j, no) /\ job[j].chain = d
        BY <1>1, <4>1
      <4>3. /\ job'[j].state = "cancelled" /\ job'[j].chain = d /\ job'[j].version = no
        <5>1. RowOK(job[j]) /\ no \in Nat \ {0}
          BY <1>1, <4>1, JobFacts, ConstantFacts DEF LInv
        <5> QED
          BY <4>1, <4>2, <5>1, CancelledRow
      <4>4. Brings(job, job', j, d)
        BY <3>4 DEF Brings
      <4>5. job[j].version = None
        BY <4>1, JobFacts, States DEF LInv, RowOK
      <4> DEFINE p == [no |-> Cardinality(products[d]) + 1, job |-> j]
      <4>6. /\ job'[j].state \in TerminalStates /\ job'[j].state \notin ProductStates
            /\ job'[j].version = Cardinality(log[d]) + 1
            /\ last = [no |-> Cardinality(log[d]) + 1, job |-> j, kind |-> KindOf(job'[j])]
            /\ p = [no |-> Cardinality(products[d]) + 1, job |-> j]
        BY <1>4, <3>3, <4>3, States DEF KindOf
      <4> HIDE DEF p
      <4>7. products[d] = IF job'[j].state \in ProductStates THEN products[d] \union {p}
                          ELSE products[d]
        BY <4>6
      <4>8. LogOK(log[d] \union {last}, products[d], job', d)
        BY <1>3, <1>7, <4>1, <4>3, <4>4, <4>5, <4>6, <4>7, LogGrows
      <4> QED
        BY <1>9, <2>1, <3>3, <4>8 DEF ChainLogOK
    <3> QED
      BY <3>5, <3>6
  <2> QED
    BY <2>2, <2>3
<1> QED
  BY <1>8, <1>9

LEMMA StepLInv == ASSUME LInv, [Next]_vars PROVE LInv'
<1>1. QInv'
  BY StepQInv DEF LInv
<1>2. ASSUME NEW c \in Chains PROVE ChainLogOK(c)'
  <2>1. ASSUME NEW d \in Chains, NEW k \in Keys, NEW t \in Clocks, NEW b \in Budgets,
               AdmitResearch(d, k, t, b) \/ ContinueResearch(d, k, t, b)
        PROVE  ChainLogOK(c)'
    <3>1. t + b \in Nat
      BY ConstantFacts DEF Clocks, LInv, QInv, RestOK
    <3> QED
      BY <2>1, <3>1, RequestLogs DEF AdmitResearch, ContinueResearch
  <2>2. ASSUME NEW w \in Threads, NEW t \in Clocks,
               \/ ClaimNext(w, t) \/ Heartbeat(w, t)
               \/ \E state \in Outcomes : Finalize(w, t, state)
        PROVE  ChainLogOK(c)'
    BY <2>2, WorkerLogs
  <2>3. ASSUME NEW d \in Chains, Read(d) \/ Close(d) \/ AppendFeedback(d)
        PROVE  ChainLogOK(c)'
    BY <2>3, CoordinateLogs, CloseLogs, FeedbackLogs DEF Read
  <2>4. CASE ReconcileTerminalJobs
    BY <2>4, CoordinateLogs DEF ReconcileTerminalJobs
  <2>5. CASE Tick \/ UNCHANGED vars \/ \E w \in Threads : WorkerDies(w)
    BY <2>5, QuietStep DEF Tick, vars, WorkerDies
  <2> QED
    BY <2>1, <2>2, <2>3, <2>4, <2>5 DEF Next
<1> QED
  BY <1>1, <1>2 DEF LInv

\* The log tells the whole story in every reachable state.
THEOREM LogInductive == Spec => []LInv
<1>1. LInv /\ [Next]_vars => LInv'
  BY StepLInv
<1> QED
  BY InitLInv, <1>1, PTL DEF Spec

\* Versions and products of a chain have no gaps, and say of each job of it
\* what its row says (_append_version, _coordinate_terminal, close).
THEOREM ChainsAreLogged == Spec => []LogIsComplete
<1>1. LInv => LogIsComplete
  <2> SUFFICES ASSUME LInv, NEW c \in Chains
               PROVE  /\ {v.no : v \in log[c]} = 1..Cardinality(log[c])
                      /\ {p.no : p \in products[c]} = 1..Cardinality(products[c])
                      /\ {p.job : p \in products[c]} =
                           {v.job : v \in {v \in log[c] : /\ v.kind = "terminal"
                                                    /\ job[v.job].state \in ProductStates}}
                      /\ \A p, q \in products[c] : p.no < q.no =>
                           job[p.job].version < job[q.job].version
                      /\ \A j \in Admitted : job[j].chain = c /\ job[j].version # None =>
                           [no |-> job[j].version, job |-> j,
                            kind |-> IF job[j].state = "cancelled" THEN "closed"
                                     ELSE "terminal"] \in log[c]
    BY DEF LogIsComplete
  <2>1. LogOK(log[c], products[c], job, c)
    BY DEF LInv, ChainLogOK
  <2>2. /\ {v.no : v \in log[c]} = 1..Cardinality(log[c])
        /\ {p.no : p \in products[c]} = 1..Cardinality(products[c])
    BY <2>1 DEF LogOK, Dense
  <2>3. \A j \in Admitted : job[j].chain = c /\ job[j].version # None =>
          [no |-> job[j].version, job |-> j, kind |-> KindOf(job[j])] \in log[c]
    BY <2>1 DEF LogOK, Admitted
  <2>4. \A p \in products[c] : \E v \in log[c] :
          v.kind = "terminal" /\ v.job = p.job /\ job[v.job].state \in ProductStates
    <3> SUFFICES ASSUME NEW p \in products[c]
                 PROVE  \E v \in log[c] :
                   v.kind = "terminal" /\ v.job = p.job /\ job[v.job].state \in ProductStates
      OBVIOUS
    <3>1. /\ p.job \in Jobs /\ IsAnnounced(job[p.job], c)
          /\ job[p.job].state \in ProductStates
      BY <2>1 DEF LogOK
    <3>2. /\ KindOf(job[p.job]) = "terminal"
          /\ [no |-> job[p.job].version, job |-> p.job, kind |-> KindOf(job[p.job])] \in log[c]
      BY <2>1, <3>1, States DEF LogOK, IsAnnounced, KindOf
    <3> QED
      BY <3>1, <3>2
  <2>5. \A v \in log[c] : v.kind = "terminal" /\ job[v.job].state \in ProductStates =>
          \E p \in products[c] : p.job = v.job
    BY <2>1 DEF LogOK
  <2>6. \A p, q \in products[c] : p.no < q.no => job[p.job].version < job[q.job].version
    BY <2>1 DEF LogOK
  <2> QED
    BY <2>2, <2>3, <2>4, <2>5, <2>6 DEF KindOf
<1> QED
  BY LogInductive, <1>1, PTL

\* A job is announced by one row, once it has a version.
LEMMA AnnouncedOnce ==
  ASSUME LInv, NEW j \in Jobs
  PROVE  Cardinality(Announcements(j)) = IF job[j].version = None THEN 0 ELSE 1
<1> DEFINE c == job[j].chain
           row == [no |-> job[j].version, job |-> j, kind |-> KindOf(job[j])]
<1>1. RowOK(job[j]) /\ c \in Chains \union {None} /\ j # None
  BY JobFacts, RowTypes, ConstantFacts DEF LInv
<1>2. \A v \in Announcements(j) :
        /\ c \in Chains /\ v \in log[c] /\ v.job = j
        /\ v.kind = "terminal" \/ (v.kind = "closed" /\ job[j].state = "cancelled")
  BY <1>1 DEF Announcements
<1>3. c \in Chains => LogOK(log[c], products[c], job, c)
  BY DEF LInv, ChainLogOK
<1>4. CASE job[j].version = None
  <2>1. ASSUME NEW v \in Announcements(j) PROVE FALSE
    <3>1. IsAnnounced(job[v.job], c) /\ v.job = j
      BY <1>1, <1>2, <1>3 DEF LogOK
    <3> QED
      BY <1>4, <3>1 DEF IsAnnounced
  <2>2. Announcements(j) = {}
    BY <2>1
  <2> QED
    BY <1>4, <2>2, FS_EmptySet
<1>5. CASE job[j].version # None
  <2>1. job[j].state \in TerminalStates /\ job[j].state # "absent" /\ c \in Chains /\ c # None
    BY <1>1, <1>5, States, ConstantFacts DEF RowOK
  <2>2. row \in log[c]
    BY <1>3, <1>5, <2>1 DEF LogOK
  <2>3. row.job = j /\ row.no = job[j].version /\ row.kind = KindOf(job[j])
    OBVIOUS
  <2> HIDE DEF row
  <2>4. row \in Announcements(j)
    BY <2>1, <2>2, <2>3 DEF Announcements, KindOf
  <2>5. ASSUME NEW v \in Announcements(j) PROVE v = row
    <3>1. v.no = job[j].version
      BY <1>1, <1>2, <1>3 DEF LogOK
    <3>2. v \in log[c] /\ v.no = row.no
      BY <1>2, <2>3, <3>1
    <3> QED
      BY <1>3, <2>1, <2>2, <3>2 DEF LogOK, Dense
  <2>6. Announcements(j) = {row}
    BY <2>4, <2>5
  <2> QED
    BY <1>5, <2>6, FS_Singleton
<1> QED
  BY <1>4, <1>5

\* The queue implements DecidedOnce: whatever workers, reconciliations, reads
\* and closings do, a job gets one result and one announcement, in this order.
THEOREM EachJobIsDecidedOnce == Spec => DecidesOnce
<1> DEFINE Decided(j) == IF job[j].state \in TerminalStates THEN {ResultOf(j)} ELSE {}
           Count(j) == Cardinality(Announcements(j))
<1>1. Init => Promise!Init
  <2> SUFFICES ASSUME Init PROVE Promise!Init
    OBVIOUS
  <2>1. LInv
    BY InitLInv
  <2>2. \A j \in Jobs : job[j].state = "absent" /\ job[j].version = None
    BY DEF Init, NoJob
  <2>3. \A j \in Jobs : Decided(j) = {} /\ Count(j) = 0
    BY <2>1, <2>2, AnnouncedOnce, States
  <2> QED
    BY <2>3 DEF Promise!Init
<1>2. LInv /\ LInv' /\ [Next]_vars => Promise!Next
  <2> SUFFICES ASSUME LInv, LInv', [Next]_vars, NEW j \in Jobs
               PROVE  /\ \/ /\ Decided(j) = {}
                            /\ \E r \in Decided(j)' \intersect (TerminalStates \X Nat) :
                                 Decided(j)' = {r}
                         \/ Decided(j)' = Decided(j)
                      /\ \/ (Count(j) = 0 /\ Count(j)' = 1 /\ Decided(j)' # {})
                         \/ Count(j)' = Count(j)
    BY DEF Promise!Next, Promise!Decide, Promise!Announce
  <2>1. Settled(j) /\ RowOK(job[j]) /\ RowOK(job'[j]) /\ job'[j] \in JobRows
    <3>1. RowOK(job[j])'
      BY DEF LInv, QInv, JobsOK
    <3>2. RowOK(job'[j])
      BY <3>1 DEF RowOK
    <3> QED
      BY <3>2, JobsAreSettled, JobFacts DEF LInv, RowOK
  <2>2. Count(j) = (IF job[j].version = None THEN 0 ELSE 1)
        /\ Count(j)' = (IF job'[j].version = None THEN 0 ELSE 1)
    <3>1. Count(j) = (IF job[j].version = None THEN 0 ELSE 1)
      BY AnnouncedOnce
    <3>2. (LInv => Count(j) = (IF job[j].version = None THEN 0 ELSE 1))'
      BY AnnouncedOnce, PTL
    <3> QED
      BY <3>1, <3>2
  <2>3. \/ /\ Decided(j) = {}
           /\ \E r \in Decided(j)' \intersect (TerminalStates \X Nat) : Decided(j)' = {r}
        \/ Decided(j)' = Decided(j)
    <3>1. CASE job[j].state \in TerminalStates
      BY <2>1, <3>1 DEF Settled, ResultOf
    <3>2. CASE job[j].state \notin TerminalStates /\ job'[j].state \notin TerminalStates
      BY <3>2
    <3>3. CASE job[j].state \notin TerminalStates /\ job'[j].state \in TerminalStates
      <4>1. ResultOf(j)' \in TerminalStates \X Nat
        BY <2>1, <3>3, RowTypes DEF ResultOf
      <4> QED
        BY <3>3, <4>1
    <3> QED
      BY <3>1, <3>2, <3>3
  <2>4. \/ (Count(j) = 0 /\ Count(j)' = 1 /\ Decided(j)' # {})
        \/ Count(j)' = Count(j)
    <3>1. CASE job[j].version # None
      BY <2>1, <2>2, <3>1 DEF Settled
    <3>2. CASE job'[j].version = None
      BY <2>1, <2>2, <3>2 DEF Settled
    <3>3. CASE job[j].version = None /\ job'[j].version # None
      <4>1. job'[j].state \in TerminalStates
        BY <2>1, <3>3 DEF RowOK
      <4> QED
        BY <2>2, <3>3, <4>1
    <3> QED
      BY <3>1, <3>2, <3>3
  <2> QED
    BY <2>3, <2>4
<1> QED
  BY LogInductive, <1>1, <1>2, PTL DEF Spec, DecidesOnce, Promise!Spec
=============================================================================
