-------------------------- MODULE AdjudicationInbox --------------------------
(***************************************************************************)
(* The inbox of things the owner has to decide.  Producers look at a truth *)
(* outside the inbox (records to review, batches to annotate) and then     *)
(* reconcile their item with it; the owner adds items by hand and closes   *)
(* them; digests of the open items are pushed by a daily timer and on      *)
(* demand.  A digest is sent once a day, and again only if it differs from *)
(* those of the day and something was submitted or reopened since.         *)
(*                                                                         *)
(* Times are those of the current day; 0 stands for any earlier day.  An   *)
(* item is told by the count in its title; a count of 0 means that nothing *)
(* is pending.  A process that dies outside of a send leaves nothing       *)
(* behind, as if it had not been started.                                  *)
(***************************************************************************)
EXTENDS Naturals

CONSTANTS
  Scanned,      \* items kept by producers
  Manual,       \* items the owner adds
  Counts,       \* counts of open items
  Writers,      \* ingests and commands that reconcile items
  Pushers,      \* processes that push digests
  Timer,        \* the pusher started by the daily timer
  Lag,          \* age of a clock reading when its transaction starts
  MaxTime       \* instants of a day

Items == Scanned \union Manual

ASSUME InboxAssumption ==
  /\ Scanned \intersect Manual = {} /\ Counts \subseteq Nat \ {0} /\ 1 \in Counts
  /\ Timer \in Pushers
  /\ Lag \in Nat /\ MaxTime \in Nat \ {0}

VARIABLES
  truth,        \* what a producer would find
  open,         \* title of each open item, 0 if it is resolved or absent
  transition,   \* time of the latest submit or reopen event
  sent,         \* fingerprints of the digests recorded today
  lastSent,     \* time of the latest of these records, 0 if there is none
  now, fired,   \* the clock; the timer has fired today
  task,         \* what a writer is about to reconcile
  pc, job,      \* where a pusher is, and its locals
  told,         \* items the owner was shown today
  old           \* items open since before today

inbox  == <<open, transition, old>>
ledger == <<sent, lastSent>>
clock  == <<now, fired>>
push   == <<pc, job>>
vars   == <<truth, inbox, ledger, clock, task, push, told>>

Titles == Counts \union {0}
Times  == 0..MaxTime
Lists  == [Items -> Titles]
Empty  == [i \in Items |-> 0]

Tasks == [item : Items, title : Titles]
Idle  == [title |-> 0]

Jobs  == [list : Lists, today : BOOLEAN, since : Times]
NoJob == [list |-> Empty, today |-> FALSE, since |-> 0]

Labels == {"idle", "compare", "lastsent", "debounce", "send", "record"}

TypeOK ==
  /\ truth \in [Scanned -> Titles] /\ open \in Lists
  /\ transition \in 0..now /\ lastSent \in 0..now /\ now \in 1..MaxTime
  /\ sent \subseteq Lists \ {Empty}
  /\ (sent = {}) = (lastSent = 0)
  /\ fired \in BOOLEAN
  /\ task \in [Writers -> Tasks \union {Idle}]
  /\ pc \in [Pushers -> Labels] /\ job \in [Pushers -> Jobs]
  /\ told \subseteq Items /\ old \subseteq {i \in Items : open[i] # 0}

Init ==
  /\ truth = [i \in Scanned |-> 0] /\ open = Empty /\ transition = 0
  /\ sent = {} /\ lastSent = 0
  /\ now = 1 /\ fired = FALSE
  /\ task = [w \in Writers |-> Idle]
  /\ pc = [p \in Pushers |-> "idle"] /\ job = [p \in Pushers |-> NoJob]
  /\ told = {} /\ old = {}

Later(s, t) == IF s < t THEN t ELSE s

-----------------------------------------------------------------------------
(* Producers and owner *)

TruthChanges(i) ==
  /\ \E n \in Titles : truth' = [truth EXCEPT ![i] = n]
  /\ UNCHANGED <<inbox, ledger, clock, task, push, told>>

Begin(w, i, n) ==
  /\ task[w] = Idle
  /\ task' = [task EXCEPT ![w] = [item |-> i, title |-> n]]
  /\ UNCHANGED <<truth, inbox, ledger, clock, push, told>>

\* A producer looks at the truth; its transaction follows later.
Scan(w, i) == Begin(w, i, truth[i])

\* The owner adds an item; its id is made from its title.
Add(w, i) == Begin(w, i, 1)

Readings == {t \in Times : t <= now /\ now <= t + Lag}

\* An opening is an event, a new title of an open item is none.
Reconcile(w) ==
  LET i == task[w].item  n == task[w].title IN
    /\ task[w] # Idle /\ task' = [task EXCEPT ![w] = Idle]
    /\ open' = [open EXCEPT ![i] = n]
    /\ old' = IF n = 0 THEN old \ {i} ELSE old
    /\ IF open[i] = 0 /\ n # 0
         THEN \E at \in Readings : transition' = Later(transition, at)
         ELSE UNCHANGED transition
    /\ UNCHANGED <<truth, ledger, clock, push, told>>

\* The owner closes an open item, which he has seen.
Resolve(i) ==
  /\ open[i] # 0 /\ open' = [open EXCEPT ![i] = 0]
  /\ old' = old \ {i} /\ told' = told \union {i}
  /\ UNCHANGED <<truth, transition, ledger, clock, task, push>>

-----------------------------------------------------------------------------
(* push *)

Goto(p, label) == pc' = [pc EXCEPT ![p] = label]

Return(p) == Goto(p, "idle") /\ job' = [job EXCEPT ![p] = NoJob]

\* Defect: a digest of nothing is sent, too.
ListEmpty(p) ==
  /\ pc[p] = "idle" /\ Goto(p, "compare")
  /\ job' = [job EXCEPT ![p] = [list |-> open, today |-> TRUE, since |-> 0]]
  /\ UNCHANGED <<truth, inbox, ledger, now, task, told>>

\* The day is read, then the list.  NO_OPEN_ITEMS.
List(p) ==
  /\ pc[p] = "idle"
  /\ IF open = Empty
       THEN UNCHANGED push
       ELSE /\ Goto(p, "compare")
            /\ job' = [job EXCEPT ![p] = [list |-> open, today |-> TRUE, since |-> 0]]
  /\ UNCHANGED <<truth, inbox, ledger, now, task, told>>

Fire      == ~fired /\ fired' = TRUE /\ List(Timer)
OnDemand(p) == p # Timer /\ List(p) /\ UNCHANGED fired

\* ALREADY_SENT, or the first digest of the day, or a changed one.
Compare(p) ==
  /\ pc[p] = "compare"
  /\ \/ job[p].list \in sent /\ Return(p)
     \/ sent = {} /\ Goto(p, "send") /\ UNCHANGED job
     \/ job[p].list \notin sent /\ sent # {} /\ Goto(p, "lastsent") /\ UNCHANGED job
  /\ UNCHANGED <<truth, inbox, ledger, clock, task, told>>

LastSent(p) ==
  /\ pc[p] = "lastsent" /\ Goto(p, "debounce")
  /\ job' = [job EXCEPT ![p].since = lastSent]
  /\ UNCHANGED <<truth, inbox, ledger, clock, task, told>>

TransitionSince(t) == transition >= t

\* DEBOUNCED unless something was opened since.
Debounce(p) ==
  /\ pc[p] = "debounce"
  /\ \/ /\ TransitionSince(job[p].since) /\ Goto(p, "send")
        /\ job' = [job EXCEPT ![p].since = 0]
     \/ ~TransitionSince(job[p].since) /\ Return(p)
  /\ UNCHANGED <<truth, inbox, ledger, clock, task, told>>

Shown(p) == told \union {i \in Items : job[p].list[i] # 0}

\* The sender returns a message id; the record follows.
SendAcked(p) ==
  /\ pc[p] = "send" /\ Goto(p, "record")
  /\ told' = Shown(p)
  /\ UNCHANGED <<truth, inbox, ledger, clock, task, job>>

\* An error, a timeout, no message id, a crash, or a record that fails: the
\* digest may have been accepted, and nothing is recorded.
SendUnknown(p) ==
  /\ pc[p] = "send" /\ Return(p) /\ told' \in {told, Shown(p)}
  /\ UNCHANGED <<truth, inbox, ledger, clock, task>>

\* Defect: the record is made under the day on which it is written.
RecordToday(p) ==
  /\ pc[p] = "record" /\ Return(p)
  /\ sent' = sent \union {job[p].list} /\ lastSent' = now
  /\ UNCHANGED <<truth, inbox, clock, task, told>>

\* record_sent under the day the push began on, once per fingerprint.
Record(p) ==
  /\ pc[p] = "record" /\ Return(p)
  /\ IF job[p].today /\ job[p].list \notin sent
       THEN \E at \in Readings \ {0} :
              /\ sent' = sent \union {job[p].list} /\ lastSent' = Later(lastSent, at)
       ELSE UNCHANGED ledger
  /\ UNCHANGED <<truth, inbox, clock, task, told>>

-----------------------------------------------------------------------------
Tick ==
  /\ now < MaxTime /\ now' = now + 1
  /\ UNCHANGED <<truth, inbox, ledger, fired, task, push, told>>

\* Defect: digests are recorded without their day.
NextDayKeepingLedger ==
  /\ \A p \in Pushers : pc[p] \in {"idle", "send", "record"}
  /\ pc[Timer] = "idle"
  /\ now' = 1 /\ fired' = FALSE /\ transition' = 0 /\ told' = {}
  /\ old' = {i \in Items : open[i] # 0}
  /\ lastSent' = IF sent = {} THEN 0 ELSE 1
  /\ UNCHANGED <<truth, open, sent, task, push>>

\* Midnight, or the end of a weekend.  The look-ups of a push take a moment, a
\* send may last beyond the end of the day; the timer's push, in the morning,
\* does not.
NextDay ==
  /\ \A p \in Pushers : pc[p] \in {"idle", "send", "record"}
  /\ pc[Timer] = "idle"
  /\ now' = 1 /\ fired' = FALSE /\ transition' = 0 /\ told' = {}
  /\ old' = {i \in Items : open[i] # 0}
  /\ sent' = {} /\ lastSent' = 0
  /\ job' = [p \in Pushers |-> [job[p] EXCEPT !.today = FALSE]]
  /\ UNCHANGED <<truth, open, task, pc>>

WriterStep(w) ==
  \/ \E i \in Scanned : Scan(w, i)
  \/ \E i \in Manual : Add(w, i)
  \/ Reconcile(w)

Work(p) == Compare(p) \/ LastSent(p) \/ Debounce(p) \/ SendAcked(p)
             \/ SendUnknown(p) \/ Record(p)

Next ==
  \/ \E i \in Scanned : TruthChanges(i)
  \/ \E i \in Items : Resolve(i)
  \/ \E w \in Writers : WriterStep(w)
  \/ Fire
  \/ \E p \in Pushers : OnDemand(p) \/ Work(p)
  \/ Tick \/ NextDay

Spec == Init /\ [][Next]_vars

\* Producers run again and again and finish; so do days and the pushes of the
\* timer; a push that is tried day after day succeeds some day.
FairSpec ==
  /\ Spec
  /\ \A w \in Writers : WF_vars(Reconcile(w)) /\ \A i \in Scanned : SF_vars(Scan(w, i))
  /\ SF_vars(Fire) /\ SF_vars(NextDay)
  /\ \A p \in Pushers : WF_vars(Work(p))
  /\ SF_vars(SendAcked(Timer))

-----------------------------------------------------------------------------
(* Properties *)

\* The push returns without a digest although items are listed.
Silent(p) == pc[p] \in {"compare", "debounce"} /\ pc'[p] = "idle"

\* A push that sends nothing withholds nothing that was open when the day
\* began: the owner has been shown each of these items today, whatever pushes
\* ran at once, failed, died, or outlasted the day before.
OldItemsAreTold ==
  [][\A p \in Pushers : Silent(p) =>
       \A i \in old : job[p].list[i] # 0 => i \in told]_vars

\* What is pending is shown to the owner, again every day, until it is no
\* longer pending: a producer that read an older truth may close the item, an
\* owner may close it by mistake, a digest may get lost, but not for ever.
PendingIsTold ==
  \A i \in Scanned : truth[i] # 0 ~> truth[i] = 0 \/ i \in told

\* "Transitions before the [latest] send are already contained in the previous
\* digest" (push.py:120-121): a debounced push withholds nothing unseen.
\* The code does not achieve this.
DebouncedWasShown ==
  [][\A p \in Pushers : Silent(p) /\ pc[p] = "debounce" =>
       \A i \in Items : job[p].list[i] # 0 => i \in told]_vars
=============================================================================
