----------------------- MODULE AdjudicationInboxProofs -----------------------
(***************************************************************************)
(* Proofs about AdjudicationInbox for any number of items, writers and     *)
(* pushers.  What was open when the day began can only be resolved during  *)
(* the day, so every list taken today contains what is left of it, and a   *)
(* record under today's date stands for an accepted list of today.         *)
(***************************************************************************)
EXTENDS AdjudicationInbox, TLAPS

\* A push at work carries a list of something, and comparing pushes are of
\* today.
PushesAreOfToday ==
  \A p \in Pushers :
    /\ pc[p] # "idle" => job[p].list # Empty
    /\ pc[p] \in {"compare", "lastsent", "debounce"} => job[p].today
    /\ pc[p] \in {"lastsent", "debounce"} => sent # {}
    /\ pc[p] = "idle" => ~job[p].today

\* A list of today has everything that was open before today and still is.
ListsHaveOld ==
  \A p \in Pushers : job[p].today => \A i \in old : job[p].list[i] # 0

\* What is recorded today, or about to be, was accepted.
RecordsAreTold ==
  /\ sent # {} => old \subseteq told
  /\ \A p \in Pushers : pc[p] = "record" /\ job[p].today => old \subseteq told

IInv == TypeOK /\ PushesAreOfToday /\ ListsHaveOld /\ RecordsAreTold

-----------------------------------------------------------------------------
LEMMA Timings == 0 \in Times /\ 1 \in Times /\ 0 \in Titles /\ 1 \in Titles /\ Empty \in Lists
  BY InboxAssumption DEF InboxAssumption, Times, Titles, Empty, Lists

\* The later of two times of a day is one of them.
LEMMA LaterOfTwo ==
  ASSUME NEW s \in Nat, NEW t \in Nat
  PROVE  Later(s, t) \in {s, t} /\ s <= Later(s, t) /\ t <= Later(s, t)
  BY DEF Later

LEMMA InitInvariant == Init => IInv
<1> SUFFICES ASSUME Init PROVE IInv
  OBVIOUS
<1>a. NoJob \in Jobs
  BY Timings DEF NoJob, Jobs
<1>1. TypeOK
  <2>1. truth \in [Scanned -> Titles] /\ open \in Lists
    BY Timings DEF Init
  <2>2. transition \in 0..now /\ lastSent \in 0..now /\ now \in 1..MaxTime
    BY InboxAssumption DEF Init, InboxAssumption
  <2>3. /\ task \in [Writers -> Tasks \union {Idle}]
        /\ pc \in [Pushers -> Labels] /\ job \in [Pushers -> Jobs]
    BY <1>a DEF Init, Labels
  <2>4. /\ sent \subseteq Lists \ {Empty} /\ (sent = {}) = (lastSent = 0) /\ fired \in BOOLEAN
        /\ told \subseteq Items /\ old \subseteq {i \in Items : open[i] # 0}
    BY DEF Init
  <2> QED BY <2>1, <2>2, <2>3, <2>4 DEF TypeOK
<1>2. PushesAreOfToday /\ ListsHaveOld /\ RecordsAreTold
  BY DEF Init, PushesAreOfToday, ListsHaveOld, RecordsAreTold, NoJob
<1> QED BY <1>1, <1>2 DEF IInv

-----------------------------------------------------------------------------
(* Steps of producers and owner *)

LEMMA TruthStep ==
  ASSUME IInv, NEW i \in Scanned, TruthChanges(i) PROVE IInv'
  BY DEF IInv, TypeOK, PushesAreOfToday, ListsHaveOld, RecordsAreTold, TruthChanges,
         inbox, ledger, clock, push

LEMMA ResolveStep ==
  ASSUME IInv, NEW i \in Items, Resolve(i) PROVE IInv'
<1> USE DEF IInv, Resolve, ledger, clock, push
<1>1. TypeOK'
  BY Timings DEF TypeOK, Lists
<1>2. PushesAreOfToday' /\ ListsHaveOld' /\ RecordsAreTold'
  BY DEF PushesAreOfToday, ListsHaveOld, RecordsAreTold
<1> QED BY <1>1, <1>2

LEMMA BeginStep ==
  ASSUME IInv, NEW w \in Writers, NEW i \in Items, NEW n \in Titles, Begin(w, i, n)
  PROVE  IInv'
<1> USE DEF IInv, Begin, inbox, ledger, clock, push
<1>1. TypeOK'
  BY DEF TypeOK, Tasks
<1>2. PushesAreOfToday' /\ ListsHaveOld' /\ RecordsAreTold'
  BY DEF PushesAreOfToday, ListsHaveOld, RecordsAreTold
<1> QED BY <1>1, <1>2

LEMMA ReconcileStep ==
  ASSUME IInv, NEW w \in Writers, Reconcile(w) PROVE IInv'
<1> USE DEF IInv, Reconcile, ledger, clock, push
<1>1. task[w].item \in Items /\ task[w].title \in Titles
  BY DEF TypeOK, Tasks
<1>2. transition' \in 0..now
  <2>1. CASE UNCHANGED transition
    BY <2>1 DEF TypeOK
  <2>2. CASE \E at \in Readings : transition' = Later(transition, at)
    <3>1. PICK at \in Readings : transition' = Later(transition, at)
      BY <2>2
    <3> QED BY <3>1, LaterOfTwo DEF TypeOK, Readings, Times
  <2> QED BY <2>1, <2>2
<1>3. open' \in Lists /\ old' \subseteq {i \in Items : open'[i] # 0}
  BY <1>1 DEF TypeOK, Lists
<1>4. TypeOK'
  BY <1>2, <1>3 DEF TypeOK
<1>5. old' \subseteq old
  OBVIOUS
<1>6. PushesAreOfToday' /\ ListsHaveOld' /\ RecordsAreTold'
  BY <1>5 DEF PushesAreOfToday, ListsHaveOld, RecordsAreTold
<1> QED BY <1>4, <1>6

-----------------------------------------------------------------------------
(* Steps of a push *)

LEMMA ListStep ==
  ASSUME IInv, NEW p \in Pushers, List(p), fired' \in BOOLEAN PROVE IInv'
<1> USE DEF IInv, List, inbox, ledger
<1>1. CASE open = Empty
  BY <1>1 DEF TypeOK, PushesAreOfToday, ListsHaveOld, RecordsAreTold, push
<1>2. CASE open # Empty
  <2>1. /\ pc' = [pc EXCEPT ![p] = "compare"]
        /\ job' = [job EXCEPT ![p] = [list |-> open, today |-> TRUE, since |-> 0]]
    BY <1>2 DEF Goto
  <2>2. TypeOK'
    BY <2>1, Timings DEF TypeOK, Jobs, Labels
  <2>3. PushesAreOfToday'
    BY <1>2, <2>1 DEF PushesAreOfToday, TypeOK
  <2>4. ListsHaveOld'
    BY <2>1 DEF ListsHaveOld, TypeOK
  <2>5. RecordsAreTold'
    BY <2>1 DEF RecordsAreTold, TypeOK
  <2> QED BY <2>2, <2>3, <2>4, <2>5
<1> QED BY <1>1, <1>2

\* Whatever else a returning push did, it leaves no claim behind.
LEMMA ReturnStep ==
  ASSUME IInv, NEW p \in Pushers, Return(p),
         UNCHANGED <<truth, inbox, ledger, clock, task>>,
         told \subseteq told', told' \subseteq Items
  PROVE  IInv'
<1> USE DEF IInv, Return, Goto, inbox, ledger, clock
<1>1. TypeOK'
  BY Timings DEF TypeOK, Jobs, NoJob, Labels
<1>2. PushesAreOfToday' /\ ListsHaveOld'
  BY DEF PushesAreOfToday, ListsHaveOld, NoJob, TypeOK
<1>3. RecordsAreTold'
  BY DEF RecordsAreTold, TypeOK
<1> QED BY <1>1, <1>2, <1>3

LEMMA CompareStep ==
  ASSUME IInv, NEW p \in Pushers, Compare(p) PROVE IInv'
<1>1. CASE Return(p)
  BY <1>1, ReturnStep DEF Compare, IInv, TypeOK
<1>2. CASE sent = {} /\ Goto(p, "send") /\ UNCHANGED job
  BY <1>2 DEF Compare, IInv, TypeOK, Labels, PushesAreOfToday, ListsHaveOld, RecordsAreTold,
              Goto, inbox, ledger, clock
<1>3. CASE job[p].list \notin sent /\ sent # {} /\ Goto(p, "lastsent") /\ UNCHANGED job
  BY <1>3 DEF Compare, IInv, TypeOK, Labels, PushesAreOfToday, ListsHaveOld, RecordsAreTold,
              Goto, inbox, ledger, clock
<1> QED BY <1>1, <1>2, <1>3 DEF Compare

LEMMA LastSentStep ==
  ASSUME IInv, NEW p \in Pushers, LastSent(p) PROVE IInv'
<1> USE DEF IInv, LastSent, Goto, inbox, ledger, clock
<1>1. lastSent \in Times
  BY InboxAssumption DEF TypeOK, Times, InboxAssumption
<1>2. TypeOK'
  BY <1>1 DEF TypeOK, Jobs, Labels
<1>3. \A q \in Pushers : job'[q].list = job[q].list /\ job'[q].today = job[q].today
  BY DEF TypeOK, Jobs
<1>4. PushesAreOfToday' /\ ListsHaveOld' /\ RecordsAreTold'
  BY <1>3 DEF PushesAreOfToday, ListsHaveOld, RecordsAreTold, TypeOK
<1> QED BY <1>2, <1>4

LEMMA DebounceStep ==
  ASSUME IInv, NEW p \in Pushers, Debounce(p) PROVE IInv'
<1>1. CASE Return(p)
  BY <1>1, ReturnStep DEF Debounce, IInv, TypeOK
<1>2. CASE Goto(p, "send") /\ job' = [job EXCEPT ![p].since = 0]
  <2> USE <1>2 DEF IInv, Debounce, Goto, inbox, ledger, clock
  <2>1. TypeOK'
    BY Timings DEF TypeOK, Jobs, Labels
  <2>2. \A q \in Pushers : job'[q].list = job[q].list /\ job'[q].today = job[q].today
    BY DEF TypeOK, Jobs
  <2>3. PushesAreOfToday' /\ ListsHaveOld' /\ RecordsAreTold'
    BY <2>2 DEF PushesAreOfToday, ListsHaveOld, RecordsAreTold, TypeOK
  <2> QED BY <2>1, <2>3
<1> QED BY <1>1, <1>2 DEF Debounce

LEMMA ShownIsOfItems ==
  ASSUME TypeOK, NEW p \in Pushers
  PROVE  told \subseteq Shown(p) /\ Shown(p) \subseteq Items
  BY DEF TypeOK, Shown

LEMMA SendAckedStep ==
  ASSUME IInv, NEW p \in Pushers, SendAcked(p) PROVE IInv'
<1> USE DEF IInv, SendAcked, Goto, inbox, ledger, clock
<1>1. TypeOK'
  BY ShownIsOfItems DEF TypeOK, Labels
<1>2. PushesAreOfToday' /\ ListsHaveOld'
  BY DEF PushesAreOfToday, ListsHaveOld, TypeOK
<1>3. job[p].today => old \subseteq told'
  BY DEF ListsHaveOld, Shown, TypeOK
<1>4. RecordsAreTold'
  BY <1>3, ShownIsOfItems DEF RecordsAreTold, TypeOK
<1> QED BY <1>1, <1>2, <1>4

LEMMA SendUnknownStep ==
  ASSUME IInv, NEW p \in Pushers, SendUnknown(p) PROVE IInv'
  BY ReturnStep, ShownIsOfItems DEF SendUnknown, IInv, TypeOK

LEMMA RecordStep ==
  ASSUME IInv, NEW p \in Pushers, Record(p) PROVE IInv'
<1>1. CASE UNCHANGED ledger
  BY <1>1, ReturnStep DEF Record, IInv, TypeOK
<1>2. CASE job[p].today /\ job[p].list \notin sent
  <2> USE <1>2 DEF IInv, Record, Return, Goto, inbox, clock
  <2>1. PICK at \in Readings \ {0} :
          sent' = sent \union {job[p].list} /\ lastSent' = Later(lastSent, at)
    OBVIOUS
  <2>2. lastSent' \in 0..now /\ lastSent' # 0
    BY <2>1, LaterOfTwo DEF TypeOK, Readings, Times
  <2>3. job[p].list \in Lists \ {Empty}
    BY DEF TypeOK, Jobs, PushesAreOfToday
  <2>4. TypeOK'
    BY <2>1, <2>2, <2>3, Timings DEF TypeOK, Jobs, NoJob, Labels
  <2>5. PushesAreOfToday' /\ ListsHaveOld'
    BY <2>1 DEF PushesAreOfToday, ListsHaveOld, NoJob, TypeOK
  <2>6. RecordsAreTold'
    BY DEF RecordsAreTold, TypeOK
  <2> QED BY <2>4, <2>5, <2>6
<1> QED BY <1>1, <1>2 DEF Record

-----------------------------------------------------------------------------
(* Steps of the clock *)

LEMMA TickStep ==
  ASSUME IInv, Tick PROVE IInv'
  BY InboxAssumption DEF IInv, Tick, TypeOK, PushesAreOfToday, ListsHaveOld, RecordsAreTold,
     InboxAssumption, inbox, ledger, push

LEMMA NextDayStep ==
  ASSUME IInv, NextDay PROVE IInv'
<1> USE DEF IInv, NextDay
<1>1. \A p \in Pushers : job'[p] \in Jobs /\ ~job'[p].today /\ job'[p].list = job[p].list
  BY DEF TypeOK, Jobs
<1>2. job' \in [Pushers -> Jobs]
  BY <1>1
<1>3. TypeOK'
  <2>1. transition' \in 0..now' /\ lastSent' \in 0..now' /\ now' \in 1..MaxTime
    BY InboxAssumption DEF InboxAssumption
  <2>2. /\ truth' \in [Scanned -> Titles] /\ open' \in Lists
        /\ task' \in [Writers -> Tasks \union {Idle}] /\ pc' \in [Pushers -> Labels]
        /\ told' \subseteq Items /\ old' \subseteq {i \in Items : open'[i] # 0}
    BY DEF TypeOK
  <2>3. sent' \subseteq Lists \ {Empty} /\ (sent' = {}) = (lastSent' = 0) /\ fired' \in BOOLEAN
    OBVIOUS
  <2> QED BY <1>2, <2>1, <2>2, <2>3 DEF TypeOK
<1>4. PushesAreOfToday' /\ ListsHaveOld' /\ RecordsAreTold'
  BY <1>1 DEF PushesAreOfToday, ListsHaveOld, RecordsAreTold
<1> QED BY <1>3, <1>4

LEMMA Inductive == IInv /\ [Next]_vars => IInv'
<1> SUFFICES ASSUME IInv, [Next]_vars PROVE IInv'
  OBVIOUS
<1>1. CASE \E i \in Scanned : TruthChanges(i)
  BY <1>1, TruthStep
<1>2. CASE \E i \in Items : Resolve(i)
  BY <1>2, ResolveStep
<1>3. CASE \E w \in Writers : WriterStep(w)
  <2>1. PICK w \in Writers : WriterStep(w)
    BY <1>3
  <2>2. ASSUME NEW i \in Scanned, Scan(w, i) PROVE IInv'
    <3>1. i \in Items /\ truth[i] \in Titles /\ Begin(w, i, truth[i])
      BY <2>2 DEF Items, IInv, TypeOK, Scan
    <3> QED BY <3>1, BeginStep
  <2>3. ASSUME NEW i \in Manual, Add(w, i) PROVE IInv'
    <3>1. i \in Items /\ Begin(w, i, 1)
      BY <2>3 DEF Items, Add
    <3> QED BY <3>1, BeginStep, Timings
  <2> QED BY <2>1, <2>2, <2>3, ReconcileStep DEF WriterStep
<1>4. CASE Fire
  BY <1>4, ListStep, InboxAssumption DEF Fire, InboxAssumption
<1>5. CASE \E p \in Pushers : OnDemand(p)
  BY <1>5, ListStep DEF OnDemand, IInv, TypeOK
<1>6. CASE \E p \in Pushers : Work(p)
  BY <1>6, CompareStep, LastSentStep, DebounceStep, SendAckedStep, SendUnknownStep, RecordStep
     DEF Work
<1>7. CASE Tick \/ NextDay
  BY <1>7, TickStep, NextDayStep
<1>8. CASE UNCHANGED vars
  BY <1>8 DEF vars, inbox, ledger, clock, push, IInv, TypeOK, PushesAreOfToday,
              ListsHaveOld, RecordsAreTold
<1> QED BY <1>1, <1>2, <1>3, <1>4, <1>5, <1>6, <1>7, <1>8 DEF Next

LEMMA Invariance == Spec => []IInv
  BY InitInvariant, Inductive, PTL DEF Spec

-----------------------------------------------------------------------------
(* Theorems *)

\* Every state of the inbox and of the pushes is well-formed: a recorded digest
\* is not empty, and there is one if and only if there is a time of the last.
THEOREM Typing == Spec => []TypeOK
<1>1. IInv => TypeOK
  BY DEF IInv
<1> QED BY <1>1, Invariance, PTL

\* A push that sends nothing withholds nothing that was open when the day began.
THEOREM SilenceIsInformed == Spec => OldItemsAreTold
<1> DEFINE A == \A p \in Pushers : Silent(p) =>
                  \A i \in old : job[p].list[i] # 0 => i \in told
<1>1. IInv /\ [Next]_vars => [A]_vars
  <2> SUFFICES ASSUME IInv, Next,
                      NEW p \in Pushers, Silent(p), NEW i \in old
               PROVE  i \in told
    BY DEF vars
  <2>1. sent # {}
    <3> USE DEF Silent, IInv, TypeOK
    <3>1. CASE pc[p] = "debounce"
      BY <3>1 DEF PushesAreOfToday
    <3>2. CASE pc[p] = "compare"
      <4>1. \A q \in Pushers : ~List(q) \/ q # p
        BY <3>2 DEF List
      <4>2. PICK q \in Pushers : Work(q) /\ pc' # pc
        BY <3>2, <4>1, InboxAssumption
           DEF Next, Fire, OnDemand, List, TruthChanges, Resolve, WriterStep, Scan, Add, Begin,
               Reconcile, Tick, NextDay, push, Goto, InboxAssumption
      <4>3. q = p
        BY <3>2, <4>2 DEF Work, Compare, LastSent, Debounce, SendAcked, SendUnknown, Record,
                      Return, Goto
      <4>4. Compare(p)
        BY <3>2, <4>2, <4>3 DEF Work, LastSent, Debounce, SendAcked, SendUnknown, Record
      <4> QED BY <3>2, <4>4 DEF Compare, Goto
    <3> QED BY <3>1, <3>2
  <2> QED BY <2>1 DEF IInv, RecordsAreTold
<1> QED BY <1>1, Invariance, PTL DEF Spec, OldItemsAreTold
=============================================================================
