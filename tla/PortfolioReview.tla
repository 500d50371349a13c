--------------------------- MODULE PortfolioReview ---------------------------
(***************************************************************************)
(* The owner's confirmed portfolio: a preview made in one turn of a        *)
(* conversation is frozen as the pending review of its principal, a later  *)
(* turn of the same session confirms it, and an operator publishes files   *)
(* from the command line.  All of them replace one snapshot file.          *)
(*                                                                         *)
(* Turns serialise on the lock file of their principal, whoever publishes  *)
(* also on the directory of the snapshot.  Locks are flock's: they end     *)
(* with their process.  Revisions are hashes of the bytes, and the bytes   *)
(* of a preview contain the time it was made, so that it is always new; an *)
(* operator's file may be an old one.                                      *)
(***************************************************************************)
EXTENDS Naturals, FiniteSets

CONSTANTS
  Turns,         \* turns of conversations
  Operators,     \* runs of manage_actual_advisory_portfolio.py
  SessionOf,     \* the session of a turn
  PrincipalOf,   \* the principal of a turn
  Revisions,     \* their number bounds the previews and new files
  None,          \* no snapshot, no review
  Nobody,        \* a free lock
  Ttl,           \* lifetime of a review
  MaxTime, MaxFaults   \* bounds on time and on crashes and failed writes

Processes  == Turns \union Operators
Principals == {PrincipalOf[t] : t \in Turns}

ASSUME ReviewAssumption ==
  /\ None \notin Revisions \union Turns /\ Nobody \notin Processes
  /\ Turns \intersect Operators = {}
  /\ DOMAIN SessionOf = Turns /\ DOMAIN PrincipalOf = Turns
  /\ \A t, u \in Turns : SessionOf[t] = SessionOf[u] => PrincipalOf[t] = PrincipalOf[u]
  /\ Ttl \in Nat /\ MaxTime \in Nat /\ MaxFaults \in Nat

VARIABLES
  target,     \* revision of the snapshot file
  was,        \* revisions the file has had
  returned,   \* an operator has brought one of them back
  made,       \* revisions of all candidates so far
  review,     \* pending review file per principal
  holder,     \* lock of each principal
  directory,  \* lock of the snapshot's directory
  now, pc, job, faults

locks == <<holder, directory>>
file  == <<target, was, returned>>
vars  == <<file, made, review, locks, now, pc, job, faults>>

Ids == Revisions \union {None}

Reviews  == [cand : Ids, base : Ids, turn : Turns \union {None},
             issued : Nat, consumed : BOOLEAN]
NoReview == [cand |-> None, base |-> None, turn |-> None,
             issued |-> 0, consumed |-> FALSE]

Jobs  == [cand : Ids, base : Ids, since : Nat]
NoJob == [cand |-> None, base |-> None, since |-> 0]

PublishLabels == {"idle", "check", "publishing", "recheck", "write"}
Labels == PublishLabels \union {"saving", "clear", "save", "load", "consume"}

TypeOK ==
  /\ target \in Ids /\ was \in SUBSET Revisions /\ returned \in BOOLEAN
  /\ made \in SUBSET Revisions
  /\ review \in [Principals -> Reviews]
  /\ holder \in [Principals -> Turns \union {Nobody}]
  /\ directory \in Processes \union {Nobody}
  /\ now \in 0..MaxTime /\ faults \in 0..MaxFaults
  /\ pc \in [Processes -> Labels]
  /\ \A o \in Operators : pc[o] \in PublishLabels
  /\ job \in [Processes -> Jobs]

Init ==
  /\ target = None /\ was = {} /\ returned = FALSE /\ made = {}
  /\ review = [p \in Principals |-> NoReview]
  /\ holder = [p \in Principals |-> Nobody] /\ directory = Nobody
  /\ now = 0 /\ faults = 0
  /\ pc = [x \in Processes |-> "idle"] /\ job = [x \in Processes |-> NoJob]

-----------------------------------------------------------------------------
Goto(x, label) == pc' = [pc EXCEPT ![x] = label]

Work(x, j, label) == job' = [job EXCEPT ![x] = j] /\ Goto(x, label)

\* The call returns, or its process ends: its locks are free again.
Leave(x) ==
  /\ Work(x, NoJob, "idle")
  /\ holder' = [p \in Principals |-> IF holder[p] = x THEN Nobody ELSE holder[p]]
  /\ directory' = IF directory = x THEN Nobody ELSE directory

Fault == faults < MaxFaults /\ faults' = faults + 1

TakeLock(t, label) ==
  /\ holder[PrincipalOf[t]] = Nobody
  /\ holder' = [holder EXCEPT ![PrincipalOf[t]] = t] /\ Goto(t, label)
  /\ UNCHANGED <<file, made, review, directory, now, job, faults>>

Expired(r) == now > r.issued + Ttl

-----------------------------------------------------------------------------
(* review_full_replacement: preview and save *)

\* The candidate is built and compared with the snapshot, without a lock.
Inspect(t) ==
  /\ pc[t] = "idle"
  /\ \E c \in Revisions \ made :
       /\ made' = made \union {c}
       /\ Work(t, [cand |-> c, base |-> target, since |-> now], "saving")
  /\ UNCHANGED <<file, review, locks, now, faults>>

\* Defect: a preview is saved without the principal's lock.
LockForSaveUnlocked(t) ==
  /\ pc[t] = "saving" /\ Goto(t, "clear")
  /\ UNCHANGED <<file, made, review, locks, now, job, faults>>

LockForSave(t) == pc[t] = "saving" /\ TakeLock(t, "clear")

\* clear_expired: what load would not return, or has expired, is removed.
ClearExpired(t) ==
  LET p == PrincipalOf[t] IN
    /\ pc[t] = "clear" /\ Goto(t, "save")
    /\ review' = IF review[p].consumed \/ Expired(review[p])
                   THEN [review EXCEPT ![p] = NoReview] ELSE review
    /\ UNCHANGED <<file, made, locks, now, job, faults>>

\* issued_at was read some time after the comparison.
Save(t) ==
  /\ pc[t] = "save"
  /\ \E at \in job[t].since..now :
       review' = [review EXCEPT ![PrincipalOf[t]] =
                    [cand |-> job[t].cand, base |-> job[t].base, turn |-> t,
                     issued |-> at, consumed |-> FALSE]]
  /\ Leave(t)
  /\ UNCHANGED <<file, made, now, faults>>

-----------------------------------------------------------------------------
(* confirm_latest_review: load and check under the principal's lock *)

LockForConfirm(t) == pc[t] = "idle" /\ TakeLock(t, "load")

\* The review is live, was shown in this session, and in an earlier call of it.
Confirmable(t, r) ==
  /\ r.cand # None /\ ~r.consumed /\ ~Expired(r)
  /\ r.turn # t /\ SessionOf[r.turn] = SessionOf[t]

\* Defect: the review is published over whatever snapshot there is now.
LoadRebased(t) ==
  LET r == review[PrincipalOf[t]] IN
    /\ pc[t] = "load"
    /\ IF Confirmable(t, r)
         THEN /\ Work(t, [cand |-> r.cand, base |-> target, since |-> now], "check")
              /\ UNCHANGED locks
         ELSE Leave(t)
    /\ UNCHANGED <<file, made, review, now, faults>>

\* NO_PENDING_REVIEW or REVIEW_EXPIRED, or on to the publication.
Load(t) ==
  LET r == review[PrincipalOf[t]] IN
    /\ pc[t] = "load"
    /\ IF Confirmable(t, r)
         THEN /\ Work(t, [cand |-> r.cand, base |-> r.base, since |-> now], "check")
              /\ UNCHANGED locks
         ELSE Leave(t)
    /\ UNCHANGED <<file, made, review, now, faults>>

-----------------------------------------------------------------------------
(* publish of the owner-only snapshot file, for turns and operators *)

\* The operator previews a file, new or published before, and publishes it
\* against the revision the preview showed.
OperatorPreview(o) ==
  /\ pc[o] = "idle"
  /\ \E c \in was \union (Revisions \ made) :
       /\ made' = made \union {c}
       /\ Work(o, [cand |-> c, base |-> target, since |-> now], "check")
  /\ UNCHANGED <<file, review, locks, now, faults>>

\* First comparison, before the directory is locked: CURRENT_CHANGED.
Check(x) ==
  /\ pc[x] = "check"
  /\ IF target = job[x].base THEN Goto(x, "publishing") /\ UNCHANGED <<locks, job>>
                             ELSE Leave(x)
  /\ UNCHANGED <<file, made, review, now, faults>>

LockDirectory(x) ==
  /\ pc[x] = "publishing" /\ directory = Nobody
  /\ directory' = x /\ Goto(x, "recheck")
  /\ UNCHANGED <<file, made, review, holder, now, job, faults>>

\* Defect: every publication consumes a review, an operator's too.
PublishedByAny(x) ==
  Goto(x, "consume") /\ directory' = Nobody /\ UNCHANGED <<holder, job>>

\* A publication is over: a turn goes on to consume its review.
Published(x) ==
  IF x \in Turns
    THEN /\ Goto(x, "consume") /\ directory' = Nobody /\ UNCHANGED <<holder, job>>
    ELSE Leave(x)

\* Defect: the comparison made before the lock is not repeated under it.
RecheckReplayOnly(x) ==
  /\ pc[x] = "recheck"
  /\ \/ target = job[x].cand /\ Published(x)
     \/ target # job[x].cand /\ Goto(x, "write") /\ UNCHANGED <<locks, job>>
  /\ UNCHANGED <<file, made, review, now, faults>>

\* Second comparison, under the lock.  EXACT_REPLAY writes nothing.
Recheck(x) ==
  /\ pc[x] = "recheck"
  /\ \/ target # job[x].base /\ Leave(x)
     \/ target = job[x].base /\ target = job[x].cand /\ Published(x)
     \/ /\ target = job[x].base /\ target # job[x].cand
        /\ Goto(x, "write") /\ UNCHANGED <<locks, job>>
  /\ UNCHANGED <<file, made, review, now, faults>>

Replace(x) ==
  /\ target' = job[x].cand /\ was' = was \union {job[x].cand}
  /\ returned' = (returned \/ (x \in Operators /\ job[x].cand \in was))

Write(x) ==
  /\ pc[x] = "write" /\ Replace(x) /\ Published(x)
  /\ UNCHANGED <<made, review, now, faults>>

\* An error before or after the file is replaced: UNAVAILABLE either way, and
\* the review stays pending.
WriteFails(x) ==
  /\ pc[x] = "write" /\ Fault /\ Leave(x)
  /\ Replace(x) \/ UNCHANGED file
  /\ UNCHANGED <<made, review, now>>

-----------------------------------------------------------------------------
(* consume, still under the principal's lock *)

Consume(t) ==
  /\ pc[t] = "consume" /\ Leave(t)
  /\ review' = [review EXCEPT ![PrincipalOf[t]].consumed = TRUE]
  /\ UNCHANGED <<file, made, now, faults>>

\* OUTCOME_UNKNOWN: published, but the review stays pending.
ConsumeFails(t) ==
  /\ pc[t] = "consume" /\ Fault /\ Leave(t)
  /\ UNCHANGED <<file, made, review, now>>

Crash(x) ==
  /\ pc[x] # "idle" /\ Fault /\ Leave(x)
  /\ UNCHANGED <<file, made, review, now>>

Tick ==
  /\ now < MaxTime /\ now' = now + 1
  /\ UNCHANGED <<file, made, review, locks, pc, job, faults>>

TurnStep(t) ==
  \/ Inspect(t) \/ LockForSave(t) \/ ClearExpired(t) \/ Save(t)
  \/ LockForConfirm(t) \/ Load(t) \/ Consume(t) \/ ConsumeFails(t)

PublishStep(x) ==
  \/ Check(x) \/ LockDirectory(x) \/ Recheck(x) \/ Write(x) \/ WriteFails(x)
  \/ Crash(x)

Next ==
  \/ \E t \in Turns : TurnStep(t)
  \/ \E o \in Operators : OperatorPreview(o)
  \/ \E x \in Processes : PublishStep(x)
  \/ Tick

Spec == Init /\ [][Next]_vars

-----------------------------------------------------------------------------
(* Properties *)

Publishes(x) == target' # target /\ pc[x] = "write" /\ pc'[x] # "write"

\* What a confirmation publishes is the principal's latest preview, still
\* unconsumed and shown in another turn of the same session; a preview saved
\* while the confirmation runs cannot slip in between ("Confirm the latest
\* pending review and publish", portfolio_review.py:653).
PublishesLatestPreview ==
  [][\A t \in Turns : Publishes(t) =>
       LET r == review[PrincipalOf[t]] IN
         /\ r.cand = target' /\ ~r.consumed
         /\ r.turn # t /\ SessionOf[r.turn] = SessionOf[t]]_vars

\* Nobody overwrites a snapshot he has not seen: every replacement is made by
\* somebody who compared his candidate with exactly the snapshot it replaces,
\* though minutes and other publications may lie between comparison and write.
NoLostUpdate ==
  [][target' # target =>
       \E x \in Processes : Publishes(x) /\ job[x].base = target]_vars

\* A confirmed review takes effect once: after a crash between publication and
\* consumption, a lost receipt or an error after the write, confirming it again
\* does not bring back a snapshot that was replaced since, unless an operator
\* has brought back an old file.
PublishedOnce == [][target' # target /\ ~returned' => target' \notin was]_vars
=============================================================================
