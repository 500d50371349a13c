--------------------------- MODULE ResearchQueue ---------------------------
(***************************************************************************)
(* The queue of background research: chains (conversations), the jobs      *)
(* admitted on them, and the workers that lease, renew and finish jobs.    *)
(* Every public method of the repository is one transaction and one action *)
(* here.  A caller reads its clock before the transaction gets the write   *)
(* lock, so an action works with a time that may be up to Lag ticks old.   *)
(*                                                                         *)
(*   chain     rows of `chains` and `continuations`                        *)
(*   log       rows of `chain_versions`, numbered by `version_no`          *)
(*   products  rows of `products`, numbered by `product_version`           *)
(*   job       rows of `jobs`, numbered by `seq`                           *)
(*   bound     rows of `idempotency`: the job a request key was bound to   *)
(*   held      the lease each worker thread holds in memory                *)
(*                                                                         *)
(* Answers, which append to the same chains, are modelled in AnswerTurns.  *)
(***************************************************************************)
EXTENDS Integers, FiniteSets

CONSTANTS
  Chains,      \* conversations
  Keys,        \* idempotency keys of requests
  Threads,     \* worker threads
  IdOf,        \* the worker_id a thread passes; two threads may share it
  LeaseTime,   \* lease_seconds
  Outcomes,    \* how a worker may end a job
  Budgets,     \* how far in the future a request may put its deadline
  Lag,         \* bound: how old a caller's clock reading may be
  MaxJobs, MaxAttempts, MaxTime, MaxFeedback   \* bounds

ProductStates  == {"succeeded", "partial"}
WorkerTerminal == {"succeeded", "partial", "failed", "timed_out"}

ASSUME QueueAssumption ==
  /\ 0 \notin Chains
  /\ {LeaseTime} \union Budgets \subseteq Nat \ {0}
  /\ Outcomes \subseteq WorkerTerminal
  /\ IdOf \in [Threads -> Nat \ {0}]
  /\ {Lag, MaxJobs, MaxAttempts, MaxTime, MaxFeedback} \subseteq Nat

VARIABLES now, chain, log, products, job, bound, held

vars == <<now, chain, log, products, job, bound, held>>

Jobs == 1..MaxJobs
None == 0        \* no chain, job, owner, attempt or version

TerminalStates == WorkerTerminal \union {"cancelled"}
Live           == {"queued", "running"}

ChainRows == [status : {"absent", "active", "closed"}, active : Jobs \union {None}]

\* product is the attempt whose work the row carries (None: no product);
\* version is coordinated_version_no.
JobRows ==
  [state : {"absent"} \union Live \union TerminalStates,
   chain : Chains \union {None}, deadline : Nat, expires : Nat,
   owner : Nat,
   attempt : Nat, token : Nat, product : Nat, version : Nat]

LogRows == [no : Nat, kind : {"pending", "terminal", "closed", "feedback"},
            job : Jobs \union {None}]

ProductRows == [no : Nat, job : Jobs]

Leases == [job : Jobs \union {None}, attempt : Nat, token : Nat]
NoLease == [job |-> None, attempt |-> 0, token |-> 0]

NoJob == [state |-> "absent", chain |-> None,
          deadline |-> 0, expires |-> 0, owner |-> None, attempt |-> 0,
          token |-> 0, product |-> None, version |-> None]

TypeOK ==
  /\ now \in 0..MaxTime
  /\ chain \in [Chains -> ChainRows]
  /\ log \in [Chains -> SUBSET LogRows]
  /\ products \in [Chains -> SUBSET ProductRows]
  /\ job \in [Jobs -> JobRows]
  /\ bound \in [Keys -> Jobs \union {None}]
  /\ held \in [Threads -> Leases]
  /\ \A j \in Jobs : /\ job[j].owner # None <=> job[j].state = "running"
                    /\ job[j].attempt <= job[j].token

Init ==
  /\ now = 0
  /\ chain = [c \in Chains |-> [status |-> "absent", active |-> None]]
  /\ log = [c \in Chains |-> {}]
  /\ products = [c \in Chains |-> {}]
  /\ job = [j \in Jobs |-> NoJob]
  /\ bound = [k \in Keys |-> None]
  /\ held = [t \in Threads |-> NoLease]

\* The times a caller may have read.
Clocks == {t \in 0..now : now <= t + Lag}

\* Rows are never deleted: COALESCE(MAX(version_no), 0) is their number.
\* _append_version
Row(c, kind, j) == [no |-> Cardinality(log[c]) + 1, kind |-> kind, job |-> j]

Admitted == {j \in Jobs : job[j].state # "absent"}
NextJob  == Cardinality(Admitted) + 1

-----------------------------------------------------------------------------
(* Requests *)

\* _insert_job with the pending version, the active job of the chain and the
\* binding of the request's key.
Queue(c, k, deadline) ==
  /\ NextJob \in Jobs /\ deadline <= MaxTime
  /\ job' = [job EXCEPT ![NextJob] =
               [NoJob EXCEPT !.state = "queued", !.chain = c, !.deadline = deadline]]
  /\ chain' = [chain EXCEPT ![c] = [status |-> "active", active |-> NextJob]]
  /\ log' = [log EXCEPT ![c] = @ \union {Row(c, "pending", NextJob)}]
  /\ bound' = [bound EXCEPT ![k] = NextJob]
  /\ UNCHANGED <<now, products, held>>

\* A bound key only returns the job it is bound to: no step.
AdmitResearch(c, k, t, budget) ==
  /\ bound[k] = None /\ chain[c].status = "absent"
  /\ Queue(c, k, t + budget)

ContinueResearch(c, k, t, budget) ==
  /\ bound[k] = None /\ chain[c].status = "active" /\ chain[c].active = None
  /\ Queue(c, k, t + budget)

-----------------------------------------------------------------------------
(* Workers *)

Smaller(a, b) == IF a <= b THEN a ELSE b

\* Defect: a claim times out only the jobs nobody works on.
OverdueQueued(t) ==
  {j \in Jobs : job[j].state = "queued" /\ job[j].deadline <= t
                /\ chain[job[j].chain].status = "active"}

\* The jobs a claim times out, and those it may take: of a chain that is open.
Overdue(t) ==
  {j \in Jobs : job[j].state \in Live /\ job[j].deadline <= t
                /\ chain[job[j].chain].status = "active"}

Claimable(state, t) ==
  {j \in Jobs : /\ job[j].state = state /\ job[j].deadline > t
                /\ state = "running" => job[j].expires <= t
                /\ chain[job[j].chain].status = "active"}

\* Queued jobs first, then those whose lease has run out, each by age.
Choice(t) ==
  LET open == IF Claimable("queued", t) # {} THEN Claimable("queued", t)
              ELSE Claimable("running", t)
  IN {j \in open : \A i \in open : j <= i}

\* Defect: a timed-out job keeps its lease columns.
TimedOutLeased(j) == [job[j] EXCEPT !.state = "timed_out", !.token = @ + 1]

TimedOut(j) ==
  [job[j] EXCEPT !.state = "timed_out", !.token = @ + 1, !.owner = None,
                 !.expires = 0]

Leased(j, w, t) ==
  [job[j] EXCEPT !.state = "running", !.owner = IdOf[w],
                 !.expires = Smaller(t + LeaseTime, job[j].deadline),
                 !.attempt = @ + 1, !.token = @ + 1]

\* The overdue jobs end whether or not there is a job to claim.  A thread may
\* claim again without having finished what it held.
ClaimNext(w, t) ==
  /\ Overdue(t) \union Choice(t) # {}
  /\ \A j \in Choice(t) : job[j].attempt < MaxAttempts
  /\ job' = [j \in Jobs |-> IF j \in Overdue(t) THEN TimedOut(j)
                            ELSE IF j \in Choice(t) THEN Leased(j, w, t)
                            ELSE job[j]]
  /\ held' = [held EXCEPT ![w] =
               IF Choice(t) = {} THEN NoLease
               ELSE LET j == CHOOSE j \in Choice(t) : TRUE
                    IN [job |-> j, attempt |-> job'[j].attempt,
                        token |-> job'[j].token]]
  /\ UNCHANGED <<now, chain, log, products, bound>>

\* Defect: the lease is recognised by the worker's name.
LiveLeaseByName(w, t) ==
  LET j == held[w].job IN
  /\ j # None
  /\ job[j].state = "running" /\ chain[job[j].chain].status = "active"
  /\ job[j].owner = IdOf[w]
  /\ job[j].expires > t /\ job[j].deadline > t

\* _require_live_lease
LiveLease(w, t) ==
  LET j == held[w].job IN
  /\ j # None
  /\ job[j].state = "running" /\ chain[job[j].chain].status = "active"
  /\ job[j].owner = IdOf[w]
  /\ job[j].attempt = held[w].attempt /\ job[j].token = held[w].token
  /\ job[j].expires > t /\ job[j].deadline > t

Heartbeat(w, t) ==
  /\ LiveLease(w, t)
  /\ LET j == held[w].job IN
     job' = [job EXCEPT ![j].expires = Smaller(t + LeaseTime, job[j].deadline)]
  /\ UNCHANGED <<now, chain, log, products, bound, held>>

\* The outcome is a candidate: nothing is announced here.
Finalize(w, t, state) ==
  /\ LiveLease(w, t)
  /\ LET j == held[w].job IN
     job' = [job EXCEPT ![j].state = state, ![j].owner = None, ![j].expires = 0,
                        ![j].product = IF state \in ProductStates
                                         THEN held[w].attempt ELSE None]
  /\ held' = [held EXCEPT ![w] = NoLease]
  /\ UNCHANGED <<now, chain, log, products, bound>>

-----------------------------------------------------------------------------
(* Coordination: a terminal job becomes a product and a version of its chain *)

Uncoordinated == {j \in Jobs : job[j].state \in TerminalStates
                               /\ job[j].version = None}

\* The place of j among the jobs of S that are on its chain, by seq.
Rank(S, j) == Cardinality({i \in S : job[i].chain = job[j].chain /\ i <= j})

OfChain(S, c) == {j \in S : job[j].chain = c}

\* _coordinate_terminal for each job of S, the rows it adds to chain c: the
\* product, and the version that announces it.
NewProducts(S, c) ==
  LET made == {j \in OfChain(S, c) : job[j].state \in ProductStates}
  IN {[no |-> Cardinality(products[c]) + Rank(made, j), job |-> j] : j \in made}

NewVersions(S, c) ==
  {[no |-> Cardinality(log[c]) + Rank(S, j), kind |-> "terminal", job |-> j] :
     j \in OfChain(S, c)}

\* ... and what it changes in the job and in the chain.
Coordinated(S, j) ==
  IF j \in S
    THEN [job[j] EXCEPT !.version = Cardinality(log[job[j].chain]) + Rank(S, j)]
    ELSE job[j]

Freed(S, c) == IF chain[c].active \in S THEN [chain[c] EXCEPT !.active = None]
               ELSE chain[c]

Coordinate(S) ==
  /\ products' = [c \in Chains |-> products[c] \union NewProducts(S, c)]
  /\ log' = [c \in Chains |-> log[c] \union NewVersions(S, c)]
  /\ job' = [j \in Jobs |-> Coordinated(S, j)]
  /\ chain' = [c \in Chains |-> Freed(S, c)]
  /\ UNCHANGED <<now, bound, held>>

\* Defect: read announces the result of a job that was announced before.
ReadAgain(c) ==
  /\ chain[c].status = "active"
  /\ \E j \in Jobs : /\ job[j].chain = c /\ job[j].state \in TerminalStates
                     /\ Coordinate({j})

\* read coordinates the active job of an open chain.
Read(c) ==
  /\ chain[c].status = "active" /\ chain[c].active \in Uncoordinated
  /\ Coordinate({chain[c].active})

ReconcileTerminalJobs == Uncoordinated # {} /\ Coordinate(Uncoordinated)

-----------------------------------------------------------------------------
(* Closing, and feedback *)

\* The active job when its chain is closed: a live one is cancelled, and the
\* version that closes the chain announces it; one that has ended is
\* coordinated first and keeps that version.
Cancelled(j, version) ==
  [job[j] EXCEPT !.state = "cancelled", !.token = @ + 1, !.owner = None,
                 !.expires = 0, !.version = version]

\* Defect: closing a chain leaves its job to the worker that runs it.
CloseLeavingJob(c) ==
  /\ chain[c].status = "active"
  /\ chain' = [chain EXCEPT ![c] = [status |-> "closed", active |-> None]]
  /\ log' = [log EXCEPT ![c] = @ \union {Row(c, "closed", chain[c].active)}]
  /\ UNCHANGED <<now, products, job, bound, held>>

\* Defect: a job that has ended is closed away without its result.
CloseUncoordinated(c) ==
  LET j == chain[c].active
      row == Row(c, "closed", j) IN
  /\ chain[c].status = "active"
  /\ chain' = [chain EXCEPT ![c] = [status |-> "closed", active |-> None]]
  /\ log' = [log EXCEPT ![c] = @ \union {row}]
  /\ job' = [i \in Jobs |-> IF i # j THEN job[i]
       ELSE IF job[i].state \in Live THEN Cancelled(i, row.no)
       ELSE [job[i] EXCEPT !.version = row.no]]
  /\ UNCHANGED <<now, products, bound, held>>

Close(c) ==
  LET j     == chain[c].active
      ended == {j} \intersect Uncoordinated
      rows  == log[c] \union NewVersions(ended, c)
      no    == Cardinality(rows) + 1
  IN
  /\ chain[c].status = "active"
  /\ chain' = [chain EXCEPT ![c] = [status |-> "closed", active |-> None]]
  /\ products' = [products EXCEPT ![c] = @ \union NewProducts(ended, c)]
  /\ log' = [log EXCEPT ![c] =
               rows \union {[no |-> no, kind |-> "closed", job |-> j]}]
  /\ job' = [i \in Jobs |-> IF i = j /\ job[i].state \in Live THEN Cancelled(i, no)
                            ELSE Coordinated(ended, i)]
  /\ UNCHANGED <<now, bound, held>>

\* Feedback on a product, also of a closed chain.
AppendFeedback(c) ==
  /\ products[c] # {}
  /\ Cardinality({v \in log[c] : v.kind = "feedback"}) < MaxFeedback
  /\ log' = [log EXCEPT ![c] = @ \union {Row(c, "feedback", None)}]
  /\ UNCHANGED <<now, chain, products, job, bound, held>>

-----------------------------------------------------------------------------
(* Environment *)

\* A worker process is killed: what its thread held is forgotten, its row
\* stays as it is.
WorkerDies(w) ==
  /\ held[w] # NoLease
  /\ held' = [held EXCEPT ![w] = NoLease]
  /\ UNCHANGED <<now, chain, log, products, job, bound>>

Tick ==
  /\ now < MaxTime /\ now' = now + 1
  /\ UNCHANGED <<chain, log, products, job, bound, held>>

Next ==
  \/ \E c \in Chains, k \in Keys, t \in Clocks, b \in Budgets :
       AdmitResearch(c, k, t, b) \/ ContinueResearch(c, k, t, b)
  \/ \E w \in Threads, t \in Clocks :
       \/ ClaimNext(w, t) \/ Heartbeat(w, t)
       \/ \E state \in Outcomes : Finalize(w, t, state)
  \/ \E c \in Chains : Read(c) \/ Close(c) \/ AppendFeedback(c)
  \/ ReconcileTerminalJobs
  \/ \E w \in Threads : WorkerDies(w)
  \/ Tick

Spec == Init /\ [][Next]_vars

\* Time passes, some worker keeps asking for work, and terminal jobs are
\* reconciled.  Nothing is assumed of those who hold a lease.
FairSpec ==
  /\ Spec /\ WF_vars(Tick) /\ WF_vars(ReconcileTerminalJobs)
  /\ WF_vars(\E w \in Threads, t \in Clocks : ClaimNext(w, t))

-----------------------------------------------------------------------------
(* Properties *)

\* The product a job carries is the work of its latest attempt: a worker that
\* lost its lease, even to a thread that goes by the same name, writes nothing
\* (claim_next, heartbeat, finalize, _require_live_lease).
LatestAttemptDecides ==
  \A j \in Jobs :
    /\ job[j].product \in {None, job[j].attempt}
    /\ job[j].product # None <=> job[j].state \in ProductStates

\* At most one thread holds a lease that finalize would accept, and it holds
\* it on a job of an open chain that nothing has announced yet.
OneLiveWorker ==
  \A w \in Threads, t \in Clocks : LiveLease(w, t) =>
    /\ \A v \in Threads \ {w} : held[v].job = held[w].job => ~LiveLease(v, t)
    /\ chain[job[held[w].job].chain].active = held[w].job

\* A chain's active job is exactly the job of that chain that has not been
\* announced, so there is never a second one, whatever the order in which jobs
\* are queued, time out, end, are read, reconciled and closed.
ActiveIsUnannounced ==
  \A c \in Chains :
    {j \in Admitted : job[j].chain = c /\ job[j].version = None}
      = {chain[c].active} \ {None}

\* Version and product numbers of a chain have no gaps; its products are the
\* results that its terminal versions announce, numbered in the same order,
\* and a job carries the number of the version that announces it.
LogIsComplete ==
  \A c \in Chains :
    /\ {v.no : v \in log[c]} = 1..Cardinality(log[c])
    /\ {p.no : p \in products[c]} = 1..Cardinality(products[c])
    /\ {p.job : p \in products[c]} =
         {v.job : v \in {v \in log[c] : /\ v.kind = "terminal"
                                        /\ job[v.job].state \in ProductStates}}
    /\ \A p, q \in products[c] : p.no < q.no =>
         job[p.job].version < job[q.job].version
    /\ \A j \in Admitted : job[j].chain = c /\ job[j].version # None =>
         [no |-> job[j].version, job |-> j,
          kind |-> IF job[j].state = "cancelled" THEN "closed" ELSE "terminal"]
           \in log[c]

\* After a chain is closed only feedback is added to it.
ClosedChainIsQuiet ==
  [][\A c \in Chains : chain[c].status = "closed" =>
       /\ products'[c] = products[c] /\ chain'[c] = chain[c]
       /\ \A v \in log'[c] \ log[c] : v.kind = "feedback"
       /\ \A j \in Jobs : job[j].chain = c /\ job[j].state # "absent"
            => job'[j] = job[j]]_vars

\* The queue implements DecidedOnce: a job's result is what its row says once
\* it is terminal; it is announced by its terminal version, or by the version
\* that closed its chain when it was cancelled.
ResultOf(j) == <<job[j].state, job[j].product>>

Announcements(j) ==
  {v \in UNION {log[c] : c \in {job[j].chain} \ {None}} :
     v.job = j /\ v.kind \in {"terminal"} \union
                  (IF job[j].state = "cancelled" THEN {"closed"} ELSE {})}

Promise == INSTANCE DecidedOnce WITH
  Results <- TerminalStates \X Nat,
  decided <- [j \in Jobs |-> IF job[j].state \in TerminalStates
                               THEN {ResultOf(j)} ELSE {}],
  announced <- [j \in Jobs |-> Cardinality(Announcements(j))]

DecidesOnce == Promise!Spec

\* A job that was admitted comes to an end that its chain shows.
EveryJobIsAnnounced ==
  \A j \in Jobs : job[j].state # "absent" ~> job[j].version # None

=============================================================================
