--------------------------- MODULE DailyCheckpoint ---------------------------
(***************************************************************************)
(* One trading day of the Daily Workspace chain.  For every checkpoint a   *)
(* prepare run generates a product before the target time and a deliver    *)
(* run, from the target time on, waits for it, dispatches it, or freezes   *)
(* and dispatches a failure notice in its place.  Runs are started by      *)
(* systemd timers (once per day, killed at a time limit) or by hand, and   *)
(* on-demand questions append versions to the same chain.                  *)
(*                                                                         *)
(*   chain    products of the day's chain with their delivery obligations  *)
(*   claim    unbound rows of `idempotency`: since when a key is claimed   *)
(*                                                                         *)
(* A product and its obligation are written by one transaction.  Dispatch  *)
(* of one product is the subject of DailyDelivery; here it is one step of  *)
(* the machine AtMostOnceDelivery describes.                               *)
(***************************************************************************)
EXTENDS Integers, Sequences, FiniteSets

CONSTANTS
  Checkpoints,   \* the day's checkpoints
  Workers,       \* processes
  Scheduled,     \* those started by a systemd timer unit
  PrepareAt, TargetAt,  \* per checkpoint, the times its two timers fire
  Window,        \* how long after the target a delivery is still admitted
  PrepareLimit, DeliverLimit,  \* TimeoutStartSec of the two units
  Ttl,           \* age at which an unbound claim may be taken over
  MaxTime,       \* bound: the last tick modelled
  MaxAsks,       \* bound on on-demand versions
  MaxFaults,     \* bound on crashes and store failures in a behaviour
  Prompt         \* whether time stands still while a store step is due

ASSUME DayAssumption ==
  /\ Checkpoints # {} /\ Scheduled \subseteq Workers
  /\ PrepareAt \in [Checkpoints -> Nat] /\ TargetAt \in [Checkpoints -> Nat]
  /\ {Window, PrepareLimit, DeliverLimit, Ttl, MaxTime, MaxAsks, MaxFaults}
       \subseteq Nat
  /\ Prompt \in BOOLEAN

VARIABLES now, chain, claim, fired, pc, job, faults

vars == <<now, chain, claim, fired, pc, job, faults>>

Roles == {"prepare", "deliver", "ask"}
Kinds == {"result", "notice", "ask"}     \* canonical key, fallback key, none
Keys  == Checkpoints \X {"result", "notice"}
Free  == -1                              \* no unbound row for the key

Phases == {"none", "pending", "inDoubt", "acked", "unknown"}

\* Every product of the chain: for whom, generated on which parent version,
\* and how far its delivery obligation got ("none": it has no obligation).
Versions == [cp : Checkpoints, kind : Kinds, parent : Nat, phase : Phases]

\* The locals of one run; product is the version it found or froze (0: none),
\* clock the time it works with, held says that it is in the block that
\* releases its claim.
Jobs == [role : Roles, cp : Checkpoints, since : Nat, clock : Nat, parent : Nat,
         product : Nat, held : BOOLEAN, retry : BOOLEAN]

NewJob(role, c) == [role |-> role, cp |-> c, since |-> now, clock |-> now,
                    parent |-> 0, product |-> 0, held |-> FALSE, retry |-> FALSE]

NoJob == [role |-> "ask", cp |-> CHOOSE c \in Checkpoints : TRUE, since |-> 0,
          clock |-> 0, parent |-> 0, product |-> 0, held |-> FALSE,
          retry |-> FALSE]

Labels == {"idle", "find", "wait", "refind", "notice", "acquire", "lost",
           "lostNotice", "read", "recheck", "generate", "finalize", "release",
           "dispatch", "retry"}

TypeOK ==
  /\ now \in Nat
  /\ chain \in Seq(Versions)
  /\ claim \in [Keys -> Nat \union {Free}]
  /\ fired \in SUBSET ({"prepare", "deliver"} \X Checkpoints)
  /\ pc \in [Workers -> Labels]
  /\ job \in [Workers -> Jobs]
  /\ faults \in 0..MaxFaults

Init ==
  /\ now = 0 /\ chain = << >> /\ faults = 0 /\ fired = {}
  /\ claim = [k \in Keys |-> Free]
  /\ pc = [w \in Workers |-> "idle"]
  /\ job = [w \in Workers |-> NoJob]

-----------------------------------------------------------------------------

Goto(w, label) == pc' = [pc EXCEPT ![w] = label]

Work(w, j, label) == job' = [job EXCEPT ![w] = j] /\ Goto(w, label)

Move(w, label) == Goto(w, label) /\ UNCHANGED job

Leave(w) == Work(w, NoJob, "idle")

Fault == faults < MaxFaults /\ faults' = faults + 1

Running(w, role) == pc[w] # "idle" /\ job[w].role = role

\* find_daily_workspace_version_by_key: the version bound to a key.
IsBound(c, kind) == \E v \in DOMAIN chain : chain[v].cp = c /\ chain[v].kind = kind
Bound(c, kind) == CHOOSE v \in DOMAIN chain : chain[v].cp = c /\ chain[v].kind = kind

\* The idempotency key a run claims.
KindOf(w) == IF job[w].role = "prepare" THEN "result" ELSE "notice"
KeyOf(w)  == <<job[w].cp, KindOf(w)>>

-----------------------------------------------------------------------------
(* Starting a run *)

\* A timer fires once, and its service is never started by hand.
Admitted(w, role, c) ==
  pc[w] = "idle" /\ (w \in Scheduled => <<role, c>> \notin fired)

Fires(w, role, c) ==
  fired' = IF w \in Scheduled THEN fired \union {<<role, c>>} ELSE fired

\* Defect: a prepare run is admitted after its target time as well.
StartPrepareLate(w, c) ==
  /\ Admitted(w, "prepare", c) /\ PrepareAt[c] <= now
  /\ Fires(w, "prepare", c) /\ Work(w, NewJob("prepare", c), "find")
  /\ UNCHANGED <<now, chain, claim, faults>>

StartPrepare(w, c) ==
  /\ Admitted(w, "prepare", c) /\ PrepareAt[c] <= now /\ now < TargetAt[c]
  /\ Fires(w, "prepare", c) /\ Work(w, NewJob("prepare", c), "find")
  /\ UNCHANGED <<now, chain, claim, faults>>

InDeliverWindow(c) == TargetAt[c] <= now /\ now <= TargetAt[c] + Window

StartDeliver(w, c) ==
  /\ Admitted(w, "deliver", c) /\ InDeliverWindow(c)
  /\ Fires(w, "deliver", c) /\ Work(w, NewJob("deliver", c), "find")
  /\ UNCHANGED <<now, chain, claim, faults>>

-----------------------------------------------------------------------------
(* Finding what there is.  A product once found is what the run returns: a   *)
(* prepare run ends, a deliver run dispatches it.                            *)

Found(w, kind) ==
  IF job[w].role = "prepare"
    THEN Leave(w)
    ELSE Work(w, [job[w] EXCEPT !.product = Bound(job[w].cp, kind)],
              IF job[w].held THEN "release" ELSE "dispatch")

\* Look the key up: a hit ends the search, a miss continues at `label`.
LookUp(w, kind, label) ==
  /\ IF IsBound(job[w].cp, kind) THEN Found(w, kind) ELSE Move(w, label)
  /\ UNCHANGED <<now, chain, claim, fired, faults>>

\* A timer's prepare run and a second attempt work with the time they were
\* started at, every other run reads the clock anew.
ClockOf(w) ==
  IF w \in Scheduled /\ (job[w].role = "prepare" \/ job[w].retry)
    THEN job[w].clock ELSE now

Find(w) ==
  /\ pc[w] = "find"
  /\ IF IsBound(job[w].cp, "result")
       THEN Found(w, "result")
       ELSE Work(w, [job[w] EXCEPT !.clock = ClockOf(w)],
                 IF job[w].role = "prepare" THEN "acquire" ELSE "wait")
  /\ UNCHANGED <<now, chain, claim, fired, faults>>

\* Defect: `systemctl is-active` does not count a oneshot that is activating.
UnitPreparingIsActive(c) == FALSE

UnitPreparing(c) == \E x \in Scheduled : Running(x, "prepare") /\ job[x].cp = c

\* The clock is read again, and the result looked up again.
AfterWaiting(w) == Work(w, [job[w] EXCEPT !.clock = ClockOf(w)], "refind")

\* _wait_for_prepare_result polls the systemd unit; a run started by hand is
\* not part of it.
Waited(w) ==
  /\ pc[w] = "wait" /\ ~UnitPreparing(job[w].cp) /\ AfterWaiting(w)
  /\ UNCHANGED <<now, chain, claim, fired, faults>>

\* A state that cannot be determined counts as "not running".
StateCheckFails(w) ==
  /\ pc[w] = "wait" /\ Fault /\ AfterWaiting(w)
  /\ UNCHANGED <<now, chain, claim, fired>>

Refind(w) == pc[w] = "refind" /\ LookUp(w, "result", "notice")

FindNotice(w) == pc[w] = "notice" /\ LookUp(w, "notice", "acquire")

-----------------------------------------------------------------------------
(* The right to write under a key *)

\* acquire_daily_workspace_checkpoint inserts the key's row, or takes over an
\* unbound one that is old enough; a bound row is never given away.
Acquirable(w) ==
  /\ ~IsBound(job[w].cp, KindOf(w))
  /\ claim[KeyOf(w)] = Free \/ claim[KeyOf(w)] < job[w].clock - Ttl

\* The loser of a prepare reports generation_in_progress, the loser of a
\* notice looks for what the winner froze.
Acquire(w) ==
  /\ pc[w] = "acquire"
  /\ IF Acquirable(w)
       THEN /\ claim' = [claim EXCEPT ![KeyOf(w)] = job[w].clock]
            /\ Work(w, [job[w] EXCEPT !.held = TRUE], "read")
       ELSE /\ UNCHANGED claim
            /\ IF job[w].role = "prepare" THEN Leave(w) ELSE Move(w, "lost")
  /\ UNCHANGED <<now, chain, fired, faults>>

\* The parent version the product will be generated on.
ReadParent(w) ==
  /\ pc[w] = "read"
  /\ Work(w, [job[w] EXCEPT !.parent = Len(chain)],
          IF job[w].role = "prepare" THEN "generate" ELSE "recheck")
  /\ UNCHANGED <<now, chain, claim, fired, faults>>

\* Defect: the look-up before the claim is trusted.
RecheckSkipped(w) ==
  /\ pc[w] = "recheck" /\ Move(w, "finalize")
  /\ UNCHANGED <<now, chain, claim, fired, faults>>

\* Only after the parent is known is the result looked up a last time.
Recheck(w) == pc[w] = "recheck" /\ LookUp(w, "result", "finalize")

\* A deliver run is composed with a generator that refuses to generate.
Generated(w) ==
  /\ pc[w] = "generate" /\ job[w].role # "deliver" /\ Move(w, "finalize")
  /\ UNCHANGED <<now, chain, claim, fired, faults>>

GenerationFails(w) ==
  /\ pc[w] = "generate"
  /\ IF job[w].held THEN Move(w, "release") ELSE Leave(w)
  /\ UNCHANGED <<now, chain, claim, fired, faults>>

-----------------------------------------------------------------------------
(* Appending a version *)

\* Defect: the parent is not compared inside the transaction.
IsLatestUnchecked(parent) == parent \in Nat

\* The transaction refuses a parent that is no longer the latest version.
IsLatest(parent) == Len(chain) = parent

Version(c, kind, parent, phase) ==
  [cp |-> c, kind |-> kind, parent |-> parent, phase |-> phase]

\* finalize_scheduled_checkpoint: the replay of a key that is bound already,
\* a continuation_conflict, or the product with its obligation and the key
\* bound to it.  A notice that lost the race looks for the winner.
Finalize(w) ==
  /\ pc[w] = "finalize" /\ job[w].role # "ask"
  /\ LET j == job[w]
         replay   == IsBound(j.cp, KindOf(w))
         appended == ~replay /\ IsLatest(j.parent)
     IN /\ chain' = IF appended
                      THEN Append(chain, Version(j.cp, KindOf(w), j.parent, "pending"))
                      ELSE chain
        /\ claim' = IF appended THEN [claim EXCEPT ![KeyOf(w)] = Free] ELSE claim
        /\ \/ replay /\ Found(w, KindOf(w))
           \/ appended /\ j.role = "prepare" /\ Leave(w)
           \/ /\ appended /\ j.role = "deliver"
              /\ Work(w, [j EXCEPT !.product = Len(chain) + 1], "release")
           \/ /\ ~replay /\ ~appended
              /\ Move(w, IF j.role = "prepare" THEN "release" ELSE "lost")
  /\ UNCHANGED <<now, fired, faults>>

\* After a lost race: the result, else the notice another run froze, else an
\* error, from inside or outside of the block that releases the claim.
Lost(w) == pc[w] = "lost" /\ LookUp(w, "result", "lostNotice")

LostNotice(w) ==
  /\ pc[w] = "lostNotice"
  /\ IF IsBound(job[w].cp, "notice") THEN Found(w, "notice")
     ELSE IF job[w].held THEN Move(w, "release") ELSE Leave(w)
  /\ UNCHANGED <<now, chain, claim, fired, faults>>

\* release_daily_workspace_checkpoint deletes the unbound row of the key.
Release(w) ==
  /\ pc[w] = "release"
  /\ claim' = [claim EXCEPT ![KeyOf(w)] = Free]
  /\ IF job[w].product = 0
       THEN Leave(w)
       ELSE Work(w, [job[w] EXCEPT !.held = FALSE], "dispatch")
  /\ UNCHANGED <<now, chain, fired, faults>>

-----------------------------------------------------------------------------
(* Delivery *)

\* Defect: a refused send is recorded in the obligation instead of reset.
DispatchToNotSent(phase) ==
  IF phase \in {"pending", "inDoubt"}
    THEN {"notSent", "inDoubt", "acked", "unknown"} ELSE {phase}

\* What a dispatch can find and leave (AtMostOnceDelivery).
DispatchTo(phase) ==
  IF phase \in {"pending", "inDoubt"}
    THEN {"pending", "inDoubt", "acked", "unknown"} ELSE {phase}

\* A timer's run whose send was refused tries once more; one that failed
\* before it could send ends.
Dispatch(w) ==
  /\ pc[w] = "dispatch"
  /\ \E p \in DispatchTo(chain[job[w].product].phase) :
       /\ chain' = [chain EXCEPT ![job[w].product].phase = p]
       /\ \/ p = "pending" /\ w \in Scheduled /\ ~job[w].retry /\ Move(w, "retry")
          \/ Leave(w)
  /\ UNCHANGED <<now, claim, fired, faults>>

\* The second attempt is a new run in every respect but the time limit, and
\* is refused when the window has passed meanwhile.
Retry(w) ==
  /\ pc[w] = "retry"
  /\ IF InDeliverWindow(job[w].cp)
       THEN Work(w, [job[w] EXCEPT !.retry = TRUE, !.clock = now,
                                   !.product = 0, !.parent = 0], "find")
       ELSE Leave(w)
  /\ UNCHANGED <<now, chain, claim, fired, faults>>

-----------------------------------------------------------------------------
(* On-demand questions *)

Asked == {v \in DOMAIN chain : chain[v].kind = "ask"}

\* DailyWorkspaceService.ask reads the latest version as its parent ...
Ask(w) ==
  /\ pc[w] = "idle" /\ w \notin Scheduled /\ chain # << >>
  /\ Cardinality(Asked) < MaxAsks
  /\ Work(w, [NoJob EXCEPT !.parent = Len(chain), !.since = now], "generate")
  /\ UNCHANGED <<now, chain, claim, fired, faults>>

\* ... and appends without a claim and without an obligation.
Answer(w) ==
  /\ pc[w] = "finalize" /\ job[w].role = "ask" /\ Leave(w)
  /\ chain' = IF IsLatest(job[w].parent)
                THEN Append(chain, Version(job[w].cp, "ask", job[w].parent, "none"))
                ELSE chain
  /\ UNCHANGED <<now, claim, fired, faults>>

-----------------------------------------------------------------------------
(* Time, time limits and failures *)

\* Defect: the prepare unit has no TimeoutStartSec.
LimitOfDeliveryOnly(w) ==
  IF job[w].role = "prepare" THEN MaxTime + 1 ELSE DeliverLimit

Limit(w) == IF job[w].role = "prepare" THEN PrepareLimit ELSE DeliverLimit

Overdue(w) == w \in Scheduled /\ pc[w] # "idle" /\ now >= job[w].since + Limit(w)

\* systemd kills the process; no handler runs, so its claim stays.
Killed(w) ==
  /\ Overdue(w) /\ Leave(w)
  /\ UNCHANGED <<now, chain, claim, fired, faults>>

\* What takes minutes rather than moments.
Slow(w) == pc[w] \in {"idle", "generate"} \/ (pc[w] = "wait" /\ UnitPreparing(job[w].cp))

Tick ==
  /\ now < MaxTime /\ now' = now + 1
  /\ \A w \in Workers : ~Overdue(w) /\ (Prompt => Slow(w))
  /\ UNCHANGED <<chain, claim, fired, pc, job, faults>>

Crash(w) ==
  /\ pc[w] # "idle" /\ Fault /\ Leave(w)
  /\ UNCHANGED <<now, chain, claim, fired>>

\* A store error in the block that releases the claim.
StoreFails(w) ==
  /\ job[w].held /\ pc[w] \in {"read", "recheck", "finalize", "lost", "lostNotice"}
  /\ Fault /\ Move(w, "release")
  /\ UNCHANGED <<now, chain, claim, fired>>

-----------------------------------------------------------------------------

\* The steps of a run that take a moment each and cannot fail by themselves.
Step(w) ==
  \/ Find(w) \/ Waited(w) \/ Refind(w) \/ FindNotice(w) \/ Acquire(w)
  \/ ReadParent(w) \/ Recheck(w) \/ Finalize(w) \/ Lost(w) \/ LostNotice(w)
  \/ Release(w) \/ Dispatch(w) \/ Retry(w) \/ Answer(w)

\* Generation ends well, badly, or not at all.
Generate(w) == Generated(w) \/ GenerationFails(w)

FailStep(w) == StateCheckFails(w) \/ StoreFails(w) \/ Crash(w)

Next ==
  \/ \E w \in Workers :
       \/ \E c \in Checkpoints : StartPrepare(w, c) \/ StartDeliver(w, c)
       \/ Step(w) \/ Generate(w) \/ Killed(w) \/ Ask(w) \/ FailStep(w)
  \/ Tick

Spec == Init /\ [][Next]_vars

\* Runs make progress, time passes and systemd keeps its time limits; nothing
\* is assumed of generation, which may hang.
FairSpec == Spec /\ WF_vars(Tick)
                 /\ \A w \in Workers : WF_vars(Step(w)) /\ WF_vars(Killed(w))

\* In addition a prepare run is started whenever one is admitted, and every
\* generation ends.
RerunSpec ==
  /\ FairSpec
  /\ \A w \in Workers : WF_vars(Generate(w))
  /\ \A w \in Workers, c \in Checkpoints : WF_vars(StartPrepare(w, c))

-----------------------------------------------------------------------------
(* Schedules: what some of the properties need of the constants *)

\* No run is admitted late enough to take over a claim that a living run may
\* hold: six hours against a lead of minutes, a window of 15 minutes and limits
\* of 35 and 40.  A run started by hand has no limit, and is then taken to read
\* its clock in the minute it is admitted.
ClaimsOutliveRuns ==
  /\ Prompt \/ Workers = Scheduled
  /\ Window + DeliverLimit <= Ttl /\ PrepareLimit <= Ttl
  /\ \A c \in Checkpoints : TargetAt[c] <= PrepareAt[c] + Ttl

\* Nothing is started by hand, nobody asks, and nothing fails but generation.
TimersOnly == Workers = Scheduled /\ MaxFaults = 0

\* The runs of c are over before those of d begin: by the units' limits, or
\* because a delivery takes moments once it need not wait.
IsOverBefore(c, d) ==
  /\ TargetAt[c] + PrepareLimit <= PrepareAt[d]
  /\ \/ TargetAt[c] + Window + DeliverLimit < PrepareAt[d]
     \/ Prompt /\ TargetAt[c] + Window < PrepareAt[d]

CheckpointsApart ==
  \A c, d \in Checkpoints :
    /\ PrepareAt[c] <= TargetAt[c]
    /\ c # d => IsOverBefore(c, d) \/ IsOverBefore(d, c)

-----------------------------------------------------------------------------
(* Safety *)

\* Every version was generated on its immediate predecessor: concurrent runs
\* and on-demand questions neither fork the chain nor overwrite what another
\* has appended unseen (append_daily_workspace_version).
ParentIsPredecessor == \A v \in DOMAIN chain : chain[v].parent = v - 1

\* A failure notice is never frozen for a checkpoint whose result is in the
\* chain already, although the two have different idempotency keys
\* (_freeze_delivery_fallback).
NoNoticeAfterResult ==
  \A u, v \in DOMAIN chain :
    (chain[v].kind = "notice" /\ chain[u].kind = "result" /\ chain[u].cp = chain[v].cp)
      => v < u

\* At most one run at a time is in the block a claim protects, although claims
\* carry no owner, leak, and may be taken over when old: no admitted run is late
\* enough to take over a claim whose run is alive, so that none releases the
\* claim of another (acquire_daily_workspace_checkpoint).
SoleHolder ==
  \A w, x \in Workers :
    (job[w].held /\ job[x].held /\ KeyOf(w) = KeyOf(x)) => w = x

\* With timer runs only, a checkpoint has one product: its result or its
\* notice, and so one obligation and one message (_wait_for_prepare_result).
OneProductPerCheckpoint ==
  \A u, v \in DOMAIN chain :
    (chain[u].cp = chain[v].cp /\ "ask" \notin {chain[u].kind, chain[v].kind}) => u = v

\* With timer runs only, no race is lost: what a run brings to its last step is
\* appended, the result of a prepare run that is late as well as the notice of
\* a delivery, which would be silent otherwise (finalize_scheduled_checkpoint).
ProductIsKept ==
  [][\A w \in Workers :
       (pc[w] = "finalize" /\ pc'[w] # "finalize" /\ ~Overdue(w))
         => \E v \in DOMAIN chain' :
              chain'[v].cp = job[w].cp /\ chain'[v].kind = KindOf(w)]_vars

-----------------------------------------------------------------------------
(* Liveness *)

\* A deliver run ends, and when it ends there is a product for its checkpoint,
\* whatever became of the prepare run: slow, failed, hung or killed.
DeliverHasProduct ==
  \A w \in Workers, c \in Checkpoints :
    (Running(w, "deliver") /\ job[w].cp = c)
      ~> (pc[w] = "idle" /\ (IsBound(c, "result") \/ IsBound(c, "notice")))

\* semantic_state.py: the claim a killed prepare run leaves behind is taken over
\* by a later run of the same trading day, when there is one late enough.
LeakedClaimTakenOver ==
  \A c \in Checkpoints :
    (/\ claim[<<c, "result">>] # Free /\ \A w \in Workers : ~job[w].held
     /\ \E d \in Checkpoints : PrepareAt[d] > claim[<<c, "result">>] + Ttl)
      ~> claim[<<c, "result">>] = Free
=============================================================================
