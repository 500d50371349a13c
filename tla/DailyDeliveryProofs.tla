------------------------- MODULE DailyDeliveryProofs -------------------------
(***************************************************************************)
(* Proofs about DailyDelivery for any number of processes, claims and      *)
(* faults.  The inductive invariant IInv says, beyond the properties       *)
(* themselves, who may hold which claim token:                             *)
(*   - a token nobody issued is nowhere;                                   *)
(*   - a process that has claimed and not yet heard from the send command  *)
(*     is the only one working on its token, and nobody can pick it up     *)
(*     from the outbox, for its row records no settlement;                 *)
(*   - whoever carries EXPLICIT_NOT_SENT for a token, a process or the     *)
(*     row, carries it for a send that is not and will not be accepted;    *)
(*   - whoever carries POSITIVE_ACK carries it for an accepted one.        *)
(* Agreement adds what the stores say of one another; the last section is  *)
(* about the claims that a dead sender leaves behind.                      *)
(***************************************************************************)
EXTENDS DailyDelivery, TLAPS

-----------------------------------------------------------------------------
(* The inductive invariant *)

\* Tokens in use were issued, and a send is in flight or accepted, not both.
KnownTokens ==
  /\ net \union accepted \subseteq issued
  /\ net \intersect accepted = {}
  /\ obl.token \in issued \union {None}
  /\ row.token \in issued \union {None}
  /\ \A w \in Workers : job[w].token \in issued \union {None}

Sending(w) == pc[w] \in {"stage", "send", "await"}

\* From claim to answer the token is the process's own.
SenderAlone ==
  \A w \in Workers : Sending(w) =>
    /\ job[w].token \in Tokens /\ job[w].stl = "null"
    /\ HoldsClaim(job[w].token)
    /\ row.token = job[w].token => row.stl = "null"
    /\ \A v \in Workers : v # w => job[v].token # job[w].token

\* Before the send the token is not at the platform.
NotYetSent ==
  \A w \in Workers :
    pc[w] \in {"stage", "send"} => job[w].token \notin net \union accepted

Refused(stl, t)      == stl = "EXPLICIT_NOT_SENT" => t \notin net \union accepted
Acknowledged(stl, t) == stl = "POSITIVE_ACK" => t \in accepted

\* Where a process is about to write the settlement it carries.
Recording(label) == label \in {"intent", "ledger", "replace", "outcome", "settle"}

\* What processes and stores say of a send is true of it.
TruthfulSettlements ==
  /\ Refused(row.stl, row.token) /\ Acknowledged(row.stl, row.token)
  /\ Acknowledged(obl.settlement, obl.token)
  /\ \A w \in Workers : /\ Refused(job[w].stl, job[w].token)
                        /\ Acknowledged(job[w].stl, job[w].token)
                        /\ pc[w] = "persist" => job[w].token \in accepted
                        /\ Recording(pc[w]) => job[w].stl # "null"

IInv ==
  /\ TypeOK
  /\ KnownTokens
  /\ NothingOutstandingWhenPending
  /\ SenderAlone
  /\ NotYetSent
  /\ TruthfulSettlements

-----------------------------------------------------------------------------
(* What a process's move does to pc and job *)

LEMMA WorkFacts ==
  ASSUME TypeOK, NEW w \in Workers, NEW l \in Labels, NEW j \in Jobs,
         Work(w, j, l)
  PROVE  /\ pc' \in [Workers -> Labels] /\ job' \in [Workers -> Jobs]
         /\ pc'[w] = l /\ job'[w] = j
         /\ \A v \in Workers : v # w => pc'[v] = pc[v] /\ job'[v] = job[v]
  BY DEF TypeOK, Work, Goto

LEMMA GotoFacts ==
  ASSUME TypeOK, NEW w \in Workers, NEW l \in Labels, Goto(w, l)
  PROVE  /\ pc' \in [Workers -> Labels] /\ pc'[w] = l
         /\ \A v \in Workers : v # w => pc'[v] = pc[v]
  BY DEF TypeOK, Goto

LEMMA NoJobIsJob == NoJob \in Jobs /\ NoJob.token = None /\ NoJob.stl = "null"
  BY DEF NoJob, Jobs, Ids

\* A process that leaves dispatch gives nothing to anybody.
LEMMA LeaveStep ==
  ASSUME IInv, NEW w \in Workers, Leave(w), faults' \in 0..MaxFaults,
         UNCHANGED <<stores, issued, platform>>
  PROVE  IInv'
<1>1. /\ pc' \in [Workers -> Labels] /\ job' \in [Workers -> Jobs]
      /\ pc'[w] = "idle" /\ job'[w] = NoJob
      /\ \A v \in Workers : v # w => pc'[v] = pc[v] /\ job'[v] = job[v]
  BY WorkFacts, NoJobIsJob DEF IInv, Leave, Labels
<1> USE <1>1, NoJobIsJob DEF IInv, stores, platform
<1>2. TypeOK'
  BY DEF TypeOK
<1>3. KnownTokens'
  BY DEF KnownTokens
<1>4. NothingOutstandingWhenPending'
  BY DEF NothingOutstandingWhenPending
<1>5. SenderAlone'
  BY ConstantsAssumption DEF SenderAlone, Sending, HoldsClaim
<1>6. NotYetSent'
  BY DEF NotYetSent
<1>7. TruthfulSettlements'
  BY DEF TruthfulSettlements, Refused, Acknowledged, Recording
<1> QED
  BY <1>2, <1>3, <1>4, <1>5, <1>6, <1>7

\* A process not sending, or leaving the send, changes only where it is and
\* what it carries: the invariant asks that it carries the truth, that its
\* token is known and not some sender's, and that it does not start to send.
LEMMA MoveStep ==
  ASSUME IInv, NEW w \in Workers, NEW l \in Labels, NEW j \in Jobs,
         Work(w, j, l), l \notin {"stage", "send", "await"},
         faults' \in 0..MaxFaults,
         UNCHANGED <<stores, issued, platform>>,
         j.token \in issued \union {None},
         \A v \in Workers : v # w /\ Sending(v) => job[v].token # j.token,
         Refused(j.stl, j.token), Acknowledged(j.stl, j.token),
         l = "persist" => j.token \in accepted,
         Recording(l) => j.stl # "null"
  PROVE  IInv'
<1>1. /\ pc' \in [Workers -> Labels] /\ job' \in [Workers -> Jobs]
      /\ pc'[w] = l /\ job'[w] = j
      /\ \A v \in Workers : v # w => pc'[v] = pc[v] /\ job'[v] = job[v]
  BY WorkFacts DEF IInv
<1> USE <1>1 DEF IInv, stores, platform
<1>2. TypeOK'
  BY DEF TypeOK
<1>3. KnownTokens'
  BY DEF KnownTokens
<1>4. NothingOutstandingWhenPending'
  BY DEF NothingOutstandingWhenPending
<1>5. SenderAlone'
  BY DEF SenderAlone, Sending, HoldsClaim
<1>6. NotYetSent'
  BY DEF NotYetSent
<1>7. TruthfulSettlements'
  BY DEF TruthfulSettlements, Refused, Acknowledged, Recording
<1> QED
  BY <1>2, <1>3, <1>4, <1>5, <1>6, <1>7

\* The same when the process writes the row of its own attempt on the way.
LEMMA WriteStep ==
  ASSUME IInv, NEW w \in Workers, NEW l \in Labels, NEW j \in Jobs,
         Work(w, j, l), l \notin {"stage", "send", "await", "persist"},
         ~Sending(w), row' \in Rows,
         row'.token = row.token, row.token = job[w].token,
         Refused(row'.stl, row.token), Acknowledged(row'.stl, row.token),
         UNCHANGED <<obl, ledger, issued, platform, faults>>,
         j.token = job[w].token,
         Refused(j.stl, j.token), Acknowledged(j.stl, j.token),
         Recording(l) => j.stl # "null"
  PROVE  IInv'
<1>1. /\ pc' \in [Workers -> Labels] /\ job' \in [Workers -> Jobs]
      /\ pc'[w] = l /\ job'[w] = j
      /\ \A v \in Workers : v # w => pc'[v] = pc[v] /\ job'[v] = job[v]
  BY WorkFacts DEF IInv
<1> USE <1>1 DEF IInv, stores, platform
<1>2. TypeOK'
  BY DEF TypeOK
<1>3. KnownTokens'
  BY DEF KnownTokens
<1>4. NothingOutstandingWhenPending'
  BY DEF NothingOutstandingWhenPending
<1>5. SenderAlone'
  BY DEF SenderAlone, Sending, HoldsClaim
<1>6. NotYetSent'
  BY DEF NotYetSent
<1>7. TruthfulSettlements'
  BY DEF TruthfulSettlements, Refused, Acknowledged, Recording
<1> QED
  BY <1>2, <1>3, <1>4, <1>5, <1>6, <1>7

-----------------------------------------------------------------------------
(* The invariant holds initially and every action preserves it *)

LEMMA InitIInv == Init => IInv
<1> SUFFICES ASSUME Init PROVE IInv
  OBVIOUS
<1>1. TypeOK
  BY NoJobIsJob, ConstantsAssumption DEF Init, TypeOK, Pending, NoRow, NoEvent,
     Obligations, Rows, Events, Ids, Labels
<1>2. KnownTokens /\ NothingOutstandingWhenPending
  BY NoJobIsJob DEF Init, KnownTokens, NothingOutstandingWhenPending, Pending, NoRow
<1>3. SenderAlone /\ NotYetSent
  BY DEF Init, SenderAlone, NotYetSent, Sending
<1>4. TruthfulSettlements
  BY NoJobIsJob DEF Init, TruthfulSettlements, Refused, Acknowledged, Recording, Pending, NoRow
<1> QED
  BY <1>1, <1>2, <1>3, <1>4 DEF IInv

LEMMA RecoverStep ==
  ASSUME IInv, NEW w \in Workers, Recover(w) PROVE IInv'
<1>1. CASE row.state # "DISPATCHING" /\ Goto(w, "claim") /\ UNCHANGED job
  <2>1. Work(w, job[w], "claim")
    BY <1>1 DEF Work, IInv, TypeOK
  <2> QED
    BY <1>1, <2>1, MoveStep DEF Recover, IInv, TypeOK, Labels, KnownTokens, SenderAlone,
       TruthfulSettlements, Recording
<1>2. CASE row.state = "DISPATCHING" /\ ~Recoverable /\ Leave(w)
  BY <1>2, LeaveStep DEF Recover, IInv, TypeOK
<1>3. CASE row.state = "DISPATCHING" /\ Recoverable
  <2> DEFINE j == [token |-> row.token, msg |-> row.msg,
                   acc |-> OutcomeOf(row.stl), stl |-> row.stl,
                   then |-> AfterSettling(row.stl),
                   tolerant |-> /\ row.stl = "EXPLICIT_NOT_SENT"
                                /\ row.acc # "null"]
             l == IF row.acc = "null" THEN "intent" ELSE "settle"
  <2>1. Work(w, j, l) /\ UNCHANGED <<stores, issued, platform, faults>>
    BY <1>3 DEF Recover
  <2>2. j \in Jobs
    BY DEF IInv, TypeOK, Rows, Jobs, OutcomeOf, AfterSettling, Outcomes
  <2>3. \A v \in Workers : v # w /\ Sending(v) => job[v].token # j.token
    BY <1>3 DEF IInv, SenderAlone, Recoverable
  <2>4. /\ j.token \in issued \union {None}
        /\ Refused(j.stl, j.token) /\ Acknowledged(j.stl, j.token)
        /\ j.stl # "null"
    BY <1>3 DEF IInv, KnownTokens, TruthfulSettlements, Recoverable
  <2>5. l \in Labels /\ l \notin {"stage", "send", "await", "persist"}
    BY DEF Labels
  <2>6. faults' \in 0..MaxFaults
    BY <2>1 DEF IInv, TypeOK
  <2> HIDE DEF j, l
  <2> QED
    BY <2>1, <2>2, <2>3, <2>4, <2>5, <2>6, MoveStep
<1> QED
  BY <1>1, <1>2, <1>3 DEF Recover

LEMMA LookupStep ==
  ASSUME IInv, NEW w \in Workers, Start(w) \/ Lookup(w) PROVE IInv'
<1>1. ASSUME NEW l \in {"lookup", "recover"}, Goto(w, l), ~Sending(w),
             UNCHANGED <<stores, issued, platform, job, faults>>
      PROVE  IInv'
  <2>1. Work(w, job[w], l)
    BY <1>1 DEF Work, IInv, TypeOK
  <2> QED
    BY <1>1, <2>1, MoveStep DEF IInv, TypeOK, Labels, KnownTokens, SenderAlone,
       TruthfulSettlements, Recording
<1>2. CASE Leave(w) /\ UNCHANGED <<stores, issued, platform, faults>>
  BY <1>2, LeaveStep DEF IInv, TypeOK
<1> QED
  BY <1>1, <1>2 DEF Start, Lookup, Sending

\* The fresh token: at the platform, in a store or with a process nowhere.
LEMMA ClaimStep ==
  ASSUME IInv, NEW w \in Workers, Claim(w) PROVE IInv'
<1>1. PICK t \in Tokens \ issued :
        /\ obl' = [state |-> "CLAIMED", token |-> t, settlement |-> "null"]
        /\ issued' = issued \union {t}
        /\ Work(w, [NoJob EXCEPT !.token = t], "stage")
  BY DEF Claim
<1> DEFINE j == [NoJob EXCEPT !.token = t]
<1>2. j \in Jobs /\ j.token = t /\ j.stl = "null"
  BY NoJobIsJob DEF Jobs, NoJob, Ids
<1> HIDE DEF j
<1>3. /\ pc' \in [Workers -> Labels] /\ job' \in [Workers -> Jobs]
      /\ pc'[w] = "stage" /\ job'[w] = j
      /\ \A v \in Workers : v # w => pc'[v] = pc[v] /\ job'[v] = job[v]
  BY <1>1, <1>2, WorkFacts DEF IInv, Labels, j
<1>4. net \union accepted = {} /\ UNCHANGED <<row, ledger, platform, faults>>
  BY DEF Claim, IInv, NothingOutstandingWhenPending
<1>5. \A v \in Workers : ~Sending(v)
  BY DEF Claim, IInv, SenderAlone, HoldsClaim
<1>6. t # None
  BY ConstantsAssumption
<1> USE <1>1, <1>2, <1>3, <1>4, <1>5, <1>6 DEF IInv, stores, platform
<1>7. TypeOK'
  BY DEF TypeOK, Obligations, Ids
<1>8. KnownTokens' /\ NothingOutstandingWhenPending'
  BY DEF KnownTokens, NothingOutstandingWhenPending
<1>9. SenderAlone'
  BY DEF SenderAlone, Sending, HoldsClaim, KnownTokens
<1>10. NotYetSent' /\ TruthfulSettlements'
  BY DEF NotYetSent, TruthfulSettlements, Refused, Acknowledged, Recording, Sending
<1> QED
  BY <1>7, <1>8, <1>9, <1>10

LEMMA AbandonStep ==
  ASSUME IInv, NEW w \in Workers, NEW stl \in Settlements, Abandon(w, stl),
         pc[w] # "idle", stl # "POSITIVE_ACK",
         stl = "EXPLICIT_NOT_SENT" => pc[w] = "stage",
         pc[w] \in {"stage", "persist"},
         faults' \in 0..MaxFaults,
         UNCHANGED <<stores, issued, platform>>
  PROVE  IInv'
<1> DEFINE j == [job[w] EXCEPT !.stl = stl, !.then = "raise"]
<1>1. j \in Jobs /\ j.token = job[w].token /\ j.stl = stl
  BY DEF IInv, TypeOK, Jobs
<1>2. Work(w, j, "settle")
  BY DEF Abandon
<1> HIDE DEF j
<1>3. Refused(stl, j.token) /\ Acknowledged(stl, j.token)
  BY <1>1 DEF Refused, Acknowledged, IInv, NotYetSent
<1> QED
  BY <1>1, <1>2, <1>3, MoveStep DEF IInv, Labels, KnownTokens, SenderAlone,
     Settlements

LEMMA StageStep ==
  ASSUME IInv, NEW w \in Workers, Stage(w) PROVE IInv'
<1>1. CASE row.state = "DELIVERED"
  BY <1>1, LeaveStep DEF Stage, IInv, TypeOK, stores
<1>2. CASE row.state # "DELIVERED"
  <2>1. /\ row' = [NoRow EXCEPT !.state = "DISPATCHING", !.token = job[w].token]
        /\ Goto(w, "send")
        /\ UNCHANGED <<obl, ledger, issued, platform, job, faults>>
        /\ pc[w] = "stage"
    BY <1>2 DEF Stage
  <2>2. job[w].token \in Tokens
    BY <2>1 DEF IInv, SenderAlone, Sending
  <2>3. row' \in Rows /\ row'.token = job[w].token /\ row'.stl = "null"
    BY <2>1, <2>2 DEF NoRow, Rows, Ids
  <2>4. /\ pc' \in [Workers -> Labels] /\ pc'[w] = "send"
        /\ \A v \in Workers : v # w => pc'[v] = pc[v]
    BY <2>1, GotoFacts DEF IInv, Labels
  <2> USE <2>1, <2>2, <2>3, <2>4 DEF IInv, platform
  <2>5. TypeOK'
    BY DEF TypeOK
  <2>6. KnownTokens' /\ NothingOutstandingWhenPending'
    BY DEF KnownTokens, NothingOutstandingWhenPending
  <2>7. SenderAlone' /\ NotYetSent'
    BY DEF SenderAlone, NotYetSent, Sending, HoldsClaim
  <2>8. TruthfulSettlements'
    BY DEF TruthfulSettlements, Refused, Acknowledged, Recording
  <2> QED
    BY <2>5, <2>6, <2>7, <2>8
<1> QED
  BY <1>1, <1>2

LEMMA SendStep ==
  ASSUME IInv, NEW w \in Workers, Send(w) PROVE IInv'
<1>1. /\ pc[w] = "send" /\ net' = net \union {job[w].token}
      /\ UNCHANGED <<stores, issued, accepted, job, faults>>
      /\ pc' \in [Workers -> Labels] /\ pc'[w] = "await"
      /\ \A v \in Workers : v # w => pc'[v] = pc[v]
  BY GotoFacts DEF Send, IInv, Labels
<1>2. /\ job[w].token \in Tokens /\ job[w].stl = "null"
      /\ HoldsClaim(job[w].token)
      /\ job[w].token \notin net \union accepted
      /\ row.token = job[w].token => row.stl = "null"
      /\ \A v \in Workers : v # w => job[v].token # job[w].token
  BY <1>1 DEF IInv, SenderAlone, NotYetSent, Sending
<1> USE <1>1, <1>2 DEF IInv, stores
<1>3. TypeOK'
  BY DEF TypeOK
<1>4. KnownTokens' /\ NothingOutstandingWhenPending'
  BY ConstantsAssumption DEF KnownTokens, NothingOutstandingWhenPending, HoldsClaim
<1>5. SenderAlone'
  BY DEF SenderAlone, Sending, HoldsClaim
<1>6. NotYetSent'
  BY DEF NotYetSent
<1>7. TruthfulSettlements'
  BY DEF TruthfulSettlements, Refused, Acknowledged, Recording
<1> QED
  BY <1>3, <1>4, <1>5, <1>6, <1>7

LEMMA PlatformStep ==
  ASSUME IInv, NEW t \in Tokens, PlatformAccepts(t) PROVE IInv'
<1> USE DEF PlatformAccepts, IInv, stores
<1>1. TypeOK'
  BY DEF TypeOK
<1>2. KnownTokens' /\ NothingOutstandingWhenPending'
  BY DEF KnownTokens, NothingOutstandingWhenPending
<1>3. SenderAlone' /\ NotYetSent'
  BY DEF SenderAlone, NotYetSent, Sending, HoldsClaim
<1>4. TruthfulSettlements'
  BY DEF TruthfulSettlements, Refused, Acknowledged, Recording
<1> QED
  BY <1>1, <1>2, <1>3, <1>4

LEMMA AnswerStep ==
  ASSUME IInv, NEW w \in Workers,
         SendAcked(w) \/ SendAckedWithoutId(w) \/ SendUnknown(w)
  PROVE  IInv'
<1>1. ASSUME NEW j \in Jobs, NEW l \in {"persist", "intent"}, Work(w, j, l),
             j.token = job[w].token, j.stl \in {"null", "OUTCOME_UNKNOWN"},
             l = "persist" => job[w].token \in accepted, pc[w] = "await",
             l = "intent" => j.stl # "null",
             UNCHANGED <<stores, issued, platform, faults>>
      PROVE  IInv'
  BY <1>1, MoveStep DEF IInv, TypeOK, Labels, KnownTokens, SenderAlone, Sending,
     Refused, Acknowledged, Recording
<1>2. job[w] \in Jobs
  BY DEF IInv, TypeOK
<1>3. CASE SendAcked(w)
  <2>1. job[w].token \in Tokens /\ job[w].stl = "null"
    BY <1>3 DEF SendAcked, IInv, SenderAlone, Sending
  <2> DEFINE j == [job[w] EXCEPT !.msg = job[w].token]
  <2>2. j \in Jobs /\ j.token = job[w].token /\ j.stl = "null"
    BY <1>2, <2>1 DEF Jobs, Ids
  <2> QED
    BY <1>1, <1>3, <2>2 DEF SendAcked
<1>4. CASE SendAckedWithoutId(w)
  <2> DEFINE j == [job[w] EXCEPT !.acc = "OUTCOME_UNKNOWN", !.stl = "OUTCOME_UNKNOWN"]
  <2>2. j \in Jobs /\ j.token = job[w].token /\ j.stl = "OUTCOME_UNKNOWN"
    BY <1>2 DEF Jobs, Outcomes, Settlements
  <2> QED
    BY <1>1, <1>4, <2>2 DEF SendAckedWithoutId
<1>5. CASE SendUnknown(w)
  <2> DEFINE j == [job[w] EXCEPT !.stl = "OUTCOME_UNKNOWN"]
  <2>2. j \in Jobs /\ j.token = job[w].token /\ j.stl = "OUTCOME_UNKNOWN"
    BY <1>2 DEF Jobs, Settlements
  <2> QED
    BY <1>1, <1>5, <2>2 DEF SendUnknown
<1> QED
  BY <1>3, <1>4, <1>5

\* After a refusal the token is at the platform no more, for good.
LEMMA SendRefusedStep ==
  ASSUME IInv, NEW w \in Workers, SendRefused(w) PROVE IInv'
<1> DEFINE j == [job[w] EXCEPT !.acc = "OUTCOME_UNKNOWN",
                               !.stl = "EXPLICIT_NOT_SENT", !.then = "mark"]
<1>1. j \in Jobs /\ j.token = job[w].token /\ j.stl = "EXPLICIT_NOT_SENT"
  BY DEF IInv, TypeOK, Jobs, Outcomes, Settlements
<1>2. Work(w, j, "intent")
  BY DEF SendRefused
<1> HIDE DEF j
<1>3. /\ pc' \in [Workers -> Labels] /\ job' \in [Workers -> Jobs]
      /\ pc'[w] = "intent" /\ job'[w] = j
      /\ \A v \in Workers : v # w => pc'[v] = pc[v] /\ job'[v] = job[v]
  BY <1>1, <1>2, WorkFacts DEF IInv, Labels
<1>4. /\ pc[w] = "await" /\ job[w].token \in net
      /\ net' = net \ {job[w].token}
      /\ UNCHANGED <<stores, issued, accepted, faults>>
  BY DEF SendRefused
<1> USE <1>1, <1>3, <1>4 DEF IInv, stores
<1>5. TypeOK'
  BY DEF TypeOK
<1>6. KnownTokens' /\ NothingOutstandingWhenPending'
  BY DEF KnownTokens, NothingOutstandingWhenPending
<1>7. SenderAlone' /\ NotYetSent'
  BY DEF SenderAlone, NotYetSent, Sending, HoldsClaim
<1>8. TruthfulSettlements'
  BY DEF TruthfulSettlements, Refused, Acknowledged, Recording, KnownTokens
<1> QED
  BY <1>5, <1>6, <1>7, <1>8

LEMMA PersistStep ==
  ASSUME IInv, NEW w \in Workers, Persist(w) \/ PersistFails(w) PROVE IInv'
<1>1. pc[w] = "persist" /\ job[w] \in Jobs /\ job[w].token \in accepted
  BY DEF Persist, PersistFails, IInv, TypeOK, TruthfulSettlements
<1>2. CASE Persist(w) /\ CanPersist(w)
  <2> DEFINE j == [job[w] EXCEPT !.acc = "succeeded", !.stl = "POSITIVE_ACK",
                                 !.then = "finalize"]
  <2>1. j \in Jobs /\ j.token = job[w].token /\ j.stl = "POSITIVE_ACK"
    BY <1>1 DEF Jobs, Outcomes, Settlements
  <2>2. /\ Work(w, j, "intent") /\ row.token = job[w].token
        /\ row' = [row EXCEPT !.msg = job[w].msg, !.stl = "POSITIVE_ACK"]
        /\ UNCHANGED <<obl, ledger, issued, platform, faults>>
    BY <1>2 DEF Persist, CanPersist
  <2>3. row' \in Rows /\ row'.token = row.token /\ row'.stl = "POSITIVE_ACK"
    BY <1>1, <2>2 DEF IInv, TypeOK, Rows, Jobs, Settlements
  <2> HIDE DEF j
  <2> QED
    BY <1>1, <2>1, <2>2, <2>3, WriteStep DEF Labels, Refused, Acknowledged, Sending
<1>3. CASE Abandon(w, "OUTCOME_UNKNOWN") /\ faults' \in 0..MaxFaults
           /\ UNCHANGED <<stores, issued, platform>>
  BY <1>1, <1>3, AbandonStep DEF Settlements
<1>4. PersistFails(w) => faults' \in 0..MaxFaults
  BY ConstantsAssumption DEF PersistFails, Fault, IInv, TypeOK
<1> QED
  BY <1>2, <1>3, <1>4 DEF Persist, PersistFails, IInv, TypeOK, stores

LEMMA IntentStep ==
  ASSUME IInv, NEW w \in Workers, Intent(w) PROVE IInv'
<1>1. CASE Leave(w) /\ UNCHANGED row
  BY <1>1, LeaveStep DEF Intent, IInv, TypeOK, stores
<1>2. CASE Mine(w) /\ ~(Leave(w) /\ UNCHANGED row)
  <2> DEFINE l == IF job[w].acc = "null" THEN "settle" ELSE "ledger"
  <2>1. /\ Work(w, job[w], l) /\ row' = [row EXCEPT !.stl = job[w].stl]
        /\ row.token = job[w].token /\ ~Sending(w) /\ pc[w] = "intent"
        /\ UNCHANGED <<obl, ledger, issued, platform, faults>>
    BY <1>2 DEF Intent, Mine, Work, Sending, IInv, TypeOK
  <2>2. /\ job[w] \in Jobs /\ row' \in Rows
        /\ row'.token = row.token /\ row'.stl = job[w].stl
    BY <2>1 DEF IInv, TypeOK, Rows, Jobs
  <2> QED
    BY <2>1, <2>2, WriteStep DEF IInv, TruthfulSettlements, Recording, Labels
<1> QED
  BY <1>1, <1>2 DEF Intent

LEMMA AcceptanceStep ==
  ASSUME IInv, NEW w \in Workers,
         \/ RecordAcceptance(w) \/ RecordAcceptanceConflicts(w)
         \/ RecordAcceptanceFails(w)
  PROVE  IInv'
<1> DEFINE l == IF RecordAcceptance(w) THEN "outcome" ELSE "replace"
<1>1. /\ pc[w] = "ledger" /\ Goto(w, l)
      /\ UNCHANGED <<obl, row, issued, platform, job>> /\ l \in Labels
      /\ l \in {"outcome", "replace"}
  BY DEF RecordAcceptance, RecordAcceptanceConflicts, RecordAcceptanceFails, stores,
     Labels
<1>2. faults' \in 0..MaxFaults
  BY ConstantsAssumption DEF RecordAcceptance, RecordAcceptanceConflicts,
     RecordAcceptanceFails, Fault, IInv, TypeOK
<1>3. ledger' \in [Tokens -> Events]
  BY DEF RecordAcceptance, RecordAcceptanceConflicts, RecordAcceptanceFails, Event,
     Events, Jobs, stores, IInv, TypeOK
<1>4. /\ pc' \in [Workers -> Labels] /\ pc'[w] = l
      /\ \A v \in Workers : v # w => pc'[v] = pc[v]
  BY <1>1, GotoFacts DEF IInv
<1> HIDE DEF l
<1> USE <1>1, <1>2, <1>3, <1>4 DEF IInv, platform
<1>5. TypeOK'
  BY DEF TypeOK
<1>6. KnownTokens' /\ NothingOutstandingWhenPending'
  BY DEF KnownTokens, NothingOutstandingWhenPending
<1>7. SenderAlone' /\ NotYetSent'
  BY DEF SenderAlone, NotYetSent, Sending, HoldsClaim
<1>8. TruthfulSettlements'
  BY DEF TruthfulSettlements, Refused, Acknowledged, Recording
<1> QED
  BY <1>5, <1>6, <1>7, <1>8

LEMMA ReplaceStep ==
  ASSUME IInv, NEW w \in Workers, Replace(w) PROVE IInv'
<1>1. CASE Leave(w) /\ UNCHANGED row
  BY <1>1, LeaveStep DEF Replace, IInv, TypeOK, stores
<1>2. CASE Mine(w) /\ ~(Leave(w) /\ UNCHANGED row)
  <2> DEFINE j == [job[w] EXCEPT !.acc = "OUTCOME_UNKNOWN",
                                 !.stl = "OUTCOME_UNKNOWN", !.then = "raise"]
  <2>1. /\ Work(w, j, "outcome") /\ row' = [row EXCEPT !.stl = "OUTCOME_UNKNOWN"]
        /\ row.token = job[w].token /\ ~Sending(w)
        /\ UNCHANGED <<obl, ledger, issued, platform, faults>>
    BY <1>2 DEF Replace, Mine, Sending
  <2>2. j \in Jobs /\ j.token = job[w].token /\ j.stl = "OUTCOME_UNKNOWN"
    BY DEF IInv, TypeOK, Jobs, Outcomes, Settlements
  <2>3. row' \in Rows /\ row'.token = row.token /\ row'.stl = "OUTCOME_UNKNOWN"
    BY <2>1 DEF IInv, TypeOK, Rows, Settlements
  <2> HIDE DEF j
  <2> QED
    BY <2>1, <2>2, <2>3, WriteStep DEF Refused, Acknowledged, Labels
<1> QED
  BY <1>1, <1>2 DEF Replace

LEMMA OutcomeStep ==
  ASSUME IInv, NEW w \in Workers, RecordOutcome(w) PROVE IInv'
<1>1. job[w] \in Jobs /\ ~Sending(w) /\ pc[w] = "outcome"
  BY DEF RecordOutcome, Sending, IInv, TypeOK
<1>2. CASE Leave(w) /\ UNCHANGED row
  BY <1>2, LeaveStep DEF RecordOutcome, IInv, TypeOK, stores
<1>3. CASE /\ Mine(w) /\ row' = [row EXCEPT !.acc = job[w].acc]
           /\ Goto(w, "settle") /\ UNCHANGED job
  <2>1. /\ Work(w, job[w], "settle") /\ row.token = job[w].token
        /\ UNCHANGED <<obl, ledger, issued, platform, faults>>
    BY <1>3 DEF RecordOutcome, Mine, Work, IInv, TypeOK
  <2>2. row' \in Rows /\ row'.token = row.token /\ row'.stl = row.stl
    BY <1>1, <1>3 DEF IInv, TypeOK, Rows, Jobs
  <2> QED
    BY <1>1, <2>1, <2>2, WriteStep DEF IInv, TruthfulSettlements, Recording, Labels
<1>4. CASE Goto(w, "settle") /\ UNCHANGED <<row, job>>
  <2>1. /\ Work(w, job[w], "settle")
        /\ UNCHANGED <<stores, issued, platform, faults>>
    BY <1>4 DEF RecordOutcome, Work, stores, IInv, TypeOK
  <2> QED
    BY <1>1, <2>1, MoveStep DEF IInv, TypeOK, TruthfulSettlements, Labels, KnownTokens,
       SenderAlone, Recording
<1> QED
  BY <1>2, <1>3, <1>4 DEF RecordOutcome

\* Settling: the settled token is nobody's but the process's own send, and a
\* release frees the obligation only when nothing is outstanding.
LEMMA SettleStep ==
  ASSUME IInv, NEW w \in Workers, Settle(w) PROVE IInv'
<1>1. /\ pc[w] = "settle" /\ job[w] \in Jobs /\ ~Sending(w)
      /\ UNCHANGED <<row, ledger, issued, platform, faults>>
  BY DEF Settle, Sending, IInv, TypeOK
<1> DEFINE next == IF job[w].then = "raise"
                     THEN Leave(w) ELSE Goto(w, job[w].then) /\ UNCHANGED job
           j == IF job[w].then = "raise" THEN NoJob ELSE job[w]
           l == IF job[w].then = "raise" THEN "idle" ELSE job[w].then
<1>2. /\ j \in Jobs /\ l \in {"idle", "finalize", "mark"} /\ l \in Labels
      /\ j.token \in {job[w].token, None}
      /\ j.stl = "null" \/ (j.stl = job[w].stl /\ j.token = job[w].token)
  BY <1>1, NoJobIsJob DEF Jobs, Labels
<1>3. next => Work(w, j, l)
  BY <1>1 DEF Work, Leave, IInv, TypeOK
<1>4. CASE HoldsClaim(job[w].token) /\ obl' = Settled(job[w].token, job[w].stl) /\ next
  <2>1. /\ pc' \in [Workers -> Labels] /\ job' \in [Workers -> Jobs]
        /\ pc'[w] = l /\ job'[w] = j
        /\ \A v \in Workers : v # w => pc'[v] = pc[v] /\ job'[v] = job[v]
    BY <1>2, <1>3, <1>4, WorkFacts DEF IInv
  <2>2. \A v \in Workers : ~Sending(v)
    BY <1>1, <1>4 DEF IInv, SenderAlone, HoldsClaim
  <2>3. /\ Refused(job[w].stl, job[w].token)
        /\ Acknowledged(job[w].stl, job[w].token)
        /\ job[w].token = obl.token /\ job[w].stl \in Settlements
    BY <1>1, <1>4 DEF IInv, TruthfulSettlements, HoldsClaim, Recording, Jobs
  <2>4. /\ obl' \in Obligations
        /\ obl'.settlement = "POSITIVE_ACK" => job[w].stl = "POSITIVE_ACK"
        /\ \/ obl'.state = "SETTLED" /\ obl'.token = job[w].token
           \/ /\ obl'.token = None /\ obl'.settlement = "null"
              /\ job[w].stl = "EXPLICIT_NOT_SENT"
    BY <1>1, <1>4, <2>3 DEF Settled, Pending, Obligations, Jobs, Ids, Settlements
  <2>5. (net \union accepted) \subseteq {obl.token}
    BY DEF IInv, NothingOutstandingWhenPending
  <2> HIDE DEF next, j, l
  <2> USE <1>1, <1>2, <2>1, <2>2, <2>3, <2>4, <2>5 DEF IInv, platform
  <2>6. TypeOK'
    BY DEF TypeOK
  <2>7. KnownTokens'
    BY DEF KnownTokens
  <2>8. NothingOutstandingWhenPending'
    BY DEF NothingOutstandingWhenPending, Refused
  <2>9. SenderAlone' /\ NotYetSent'
    BY DEF SenderAlone, NotYetSent, Sending
  <2>10. TruthfulSettlements'
    BY DEF TruthfulSettlements, Refused, Acknowledged, Recording
  <2> QED
    BY <2>6, <2>7, <2>8, <2>9, <2>10
<1>5. CASE next /\ UNCHANGED obl
  <2>1. /\ \A v \in Workers : v # w /\ Sending(v) => job[v].token # j.token
        /\ j.token \in issued \union {None}
        /\ Refused(j.stl, j.token) /\ Acknowledged(j.stl, j.token)
    BY <1>1, <1>2, ConstantsAssumption DEF IInv, SenderAlone, KnownTokens,
       TruthfulSettlements, Refused, Acknowledged
  <2>2. faults' \in 0..MaxFaults /\ UNCHANGED <<stores, issued, platform>>
    BY <1>1, <1>5 DEF IInv, TypeOK, stores
  <2> HIDE DEF next, j, l
  <2> QED
    BY <1>2, <1>3, <1>5, <2>1, <2>2, MoveStep DEF Recording
<1>6. CASE Leave(w) /\ UNCHANGED obl
  BY <1>1, <1>6, LeaveStep DEF IInv, TypeOK, stores
<1> QED
  BY <1>4, <1>5, <1>6 DEF Settle

LEMMA FinishStep ==
  ASSUME IInv, NEW w \in Workers, Finalize(w) \/ Mark(w) PROVE IInv'
<1>1. CASE UNCHANGED row
  BY <1>1, LeaveStep DEF Finalize, Mark, IInv, TypeOK, stores
<1>2. CASE row' # row
  <2>1. /\ Work(w, NoJob, "idle") /\ ~Sending(w) /\ row.token = job[w].token
        /\ row' \in Rows /\ row'.token = row.token /\ row'.stl = row.stl
        /\ UNCHANGED <<obl, ledger, issued, platform, faults>>
    BY <1>2 DEF Finalize, Mark, Mine, Leave, Sending, IInv, TypeOK, Rows
  <2>2. /\ pc' \in [Workers -> Labels] /\ job' \in [Workers -> Jobs]
        /\ pc'[w] = "idle" /\ job'[w] = NoJob
        /\ \A v \in Workers : v # w => pc'[v] = pc[v] /\ job'[v] = job[v]
    BY <2>1, WorkFacts, NoJobIsJob DEF IInv, Labels
  <2> USE <2>1, <2>2, NoJobIsJob DEF IInv, platform
  <2>3. TypeOK'
    BY DEF TypeOK
  <2>4. KnownTokens' /\ NothingOutstandingWhenPending'
    BY DEF KnownTokens, NothingOutstandingWhenPending
  <2>5. SenderAlone' /\ NotYetSent'
    BY ConstantsAssumption DEF SenderAlone, NotYetSent, Sending, HoldsClaim
  <2>6. TruthfulSettlements'
    BY DEF TruthfulSettlements, Refused, Acknowledged, Recording
  <2> QED
    BY <2>3, <2>4, <2>5, <2>6
<1> QED
  BY <1>1, <1>2

LEMMA StepIInv == IInv /\ [Next]_vars => IInv'
<1> SUFFICES ASSUME IInv, [Next]_vars PROVE IInv'
  OBVIOUS
<1>1. ASSUME NEW w \in Workers, Step(w) PROVE IInv'
  <2>1. CASE ClaimRefused(w)
    BY <2>1, LeaveStep DEF ClaimRefused, IInv, TypeOK
  <2>2. CASE StageConflict(w)
    BY <2>2, AbandonStep DEF StageConflict, Settlements, IInv, TypeOK
  <2> QED
    BY <1>1, <2>1, <2>2, LookupStep, RecoverStep, ClaimStep, StageStep, SendStep,
       AnswerStep, SendRefusedStep, PersistStep, IntentStep, AcceptanceStep,
       ReplaceStep, OutcomeStep, SettleStep, FinishStep DEF Step
<1>2. ASSUME NEW w \in Workers, FailStep(w) PROVE IInv'
  <2>1. Fault => faults' \in 0..MaxFaults
    BY ConstantsAssumption DEF Fault, IInv, TypeOK
  <2>2. CASE StageFails(w)
    BY <2>1, <2>2, AbandonStep DEF StageFails, Settlements
  <2>3. CASE Abort(w)
    BY <2>1, <2>3, LeaveStep DEF Abort
  <2> QED
    BY <1>2, <2>2, <2>3, PersistStep, AcceptanceStep DEF FailStep
<1>3. CASE UNCHANGED vars
  BY <1>3 DEF vars, stores, platform, IInv, TypeOK, KnownTokens,
     NothingOutstandingWhenPending, SenderAlone, NotYetSent, TruthfulSettlements,
     Refused, Acknowledged, Recording, Sending, HoldsClaim
<1> QED
  BY <1>1, <1>2, <1>3, LookupStep, PlatformStep DEF Next

-----------------------------------------------------------------------------
(* The theorems *)

\* The inductive invariant holds in every reachable state.
THEOREM Inductive == Spec => []IInv
  BY InitIInv, StepIInv, PTL DEF Spec

\* Every store, process and counter keeps its type (TypeOK).
THEOREM Typing == Spec => []TypeOK
<1>1. IInv => TypeOK
  BY DEF IInv
<1> QED
  BY <1>1, Inductive, PTL

\* A retry is possible only when nothing was sent that counts, and what was
\* sent was sent under the obligation's token (claim_delivery, settle_delivery).
THEOREM RetryIsSafe == Spec => []NothingOutstandingWhenPending
<1>1. IInv => NothingOutstandingWhenPending
  BY DEF IInv
<1> QED
  BY <1>1, Inductive, PTL

\* The platform never accepts two copies of one product (dispatch).
THEOREM DeliveredAtMostOnce == Spec => []AtMostOnce
<1>1. IInv => AtMostOnce
  BY DEF IInv, NothingOutstandingWhenPending, AtMostOnce
<1> QED
  BY <1>1, Inductive, PTL

\* No recovery takes the claim of a process that is about to send or sending
\* (_recover_known_dispatch, settle_delivery).
THEOREM SenderKeepsClaim == Spec => []SenderHoldsClaim
<1>1. IInv => SenderHoldsClaim
  BY DEF IInv, SenderAlone, Sending, SenderHoldsClaim
<1> QED
  BY <1>1, Inductive, PTL

-----------------------------------------------------------------------------
(* What the stores say of one another *)

Acked(t) == [status |-> "succeeded", msg |-> t]

\* The row binds the message of an accepted send.
Bound(t) ==
  /\ row.state \in {"DISPATCHING", "DELIVERED"} /\ row.token = t /\ row.msg = t
  /\ row.acc = "succeeded" /\ row.stl = "POSITIVE_ACK" /\ t # None

\* What a process at `l` carries is consistent: an acknowledgement comes with
\* the message id of its send, and nothing is known before the answer.
Fits(l, j) ==
  /\ j.msg \in {None, j.token}
  /\ (j.acc = "succeeded") = (j.stl = "POSITIVE_ACK")
  /\ j.stl = "POSITIVE_ACK" => j.msg # None
  /\ j.then = "finalize" => j.stl = "POSITIVE_ACK"
  /\ j.tolerant => j.stl = "EXPLICIT_NOT_SENT" /\ l \in {"settle", "mark"}
  /\ l \in {"stage", "send", "await", "persist"} => j.acc = "null" /\ j.then = "raise"
  /\ l \in {"stage", "send", "await"} => j.msg = None
  /\ l = "persist" => j.msg # None

\* A process that records an acknowledgement has recorded it in the stores
\* that come first.
Backed(l, j) ==
  /\ l = "outcome" /\ j.stl = "POSITIVE_ACK" => ledger[j.token] = Acked(j.token)
  /\ l = "settle" /\ j.stl = "POSITIVE_ACK" => Bound(j.token)
  /\ l = "finalize" => SameTerminal(j.token, "POSITIVE_ACK")

\* So is the row; what it says of an acceptance is in the ledger.
RowFits ==
  /\ row.msg \in {None, row.token}
  /\ row.stl = "POSITIVE_ACK" => row.msg # None
  /\ row.acc = "succeeded" =>
       /\ row.stl = "POSITIVE_ACK" /\ row.state \in {"DISPATCHING", "DELIVERED"}
       /\ ledger[row.token] = Acked(row.token)
  /\ row.state = "DELIVERED" =>
       row.acc = "succeeded" /\ SameTerminal(row.token, "POSITIVE_ACK")

AckIsBacked ==
  obl.state = "SETTLED" /\ obl.settlement = "POSITIVE_ACK" => Bound(obl.token)

Agreement ==
  /\ RowFits /\ AckIsBacked /\ LedgerIsTruthful
  /\ \A w \in Workers : Fits(pc[w], job[w]) /\ Backed(pc[w], job[w])

LEMMA InitAgreement == Init => Agreement
<1> SUFFICES ASSUME Init PROVE Agreement
  OBVIOUS
<1>1. RowFits /\ AckIsBacked /\ LedgerIsTruthful
  BY DEF Init, RowFits, AckIsBacked, LedgerIsTruthful, NoRow, Pending, NoEvent
<1>2. \A w \in Workers : Fits(pc[w], job[w]) /\ Backed(pc[w], job[w])
  BY DEF Init, Fits, Backed, NoJob
<1> QED BY <1>1, <1>2 DEF Agreement

LEMMA NoJobFits == Fits("idle", NoJob) /\ Backed("idle", NoJob) /\ Backed("idle", NoJob)'
  BY DEF Fits, Backed, NoJob

\* A process moves, and the stores stay.
LEMMA MoveAgrees ==
  ASSUME IInv, Agreement, NEW w \in Workers, NEW l \in Labels, NEW j \in Jobs, Work(w, j, l),
         UNCHANGED <<obl, row, ledger>>, accepted' = accepted, Fits(l, j), Backed(l, j)
  PROVE  Agreement'
<1>1. /\ pc'[w] = l /\ job'[w] = j
      /\ \A v \in Workers : v # w => pc'[v] = pc[v] /\ job'[v] = job[v]
  BY WorkFacts DEF IInv
<1>2. RowFits' /\ AckIsBacked' /\ LedgerIsTruthful'
  BY DEF Agreement, RowFits, AckIsBacked, LedgerIsTruthful, Bound, SameTerminal
<1>3. \A v \in Workers : Fits(pc'[v], job'[v]) /\ Backed(pc'[v], job'[v])
  BY <1>1 DEF Agreement
<1>4. \A v \in Workers : Backed(pc'[v], job'[v]) => Backed(pc[v], job[v])'
  BY DEF Backed, Bound, SameTerminal
<1> QED BY <1>2, <1>3, <1>4 DEF Agreement, Fits

\* A process writes the row.  No acknowledgement of an accepted send is lost.
LEMMA WriteAgrees ==
  ASSUME IInv, Agreement, NEW w \in Workers, NEW l \in Labels, NEW j \in Jobs, Work(w, j, l),
         UNCHANGED <<obl, ledger>>, accepted' = accepted, RowFits',
         \A t \in accepted : Bound(t) => Bound(t)',
         Fits(l, j), Backed(l, j)'
  PROVE  Agreement'
<1>1. /\ pc'[w] = l /\ job'[w] = j
      /\ \A v \in Workers : v # w => pc'[v] = pc[v] /\ job'[v] = job[v]
  BY WorkFacts DEF IInv
<1>2. AckIsBacked'
  BY DEF Agreement, AckIsBacked, IInv, TruthfulSettlements, Acknowledged
<1>3. LedgerIsTruthful'
  BY DEF Agreement, LedgerIsTruthful
<1>4. \A v \in Workers : Fits(pc'[v], job'[v])
  BY <1>1 DEF Agreement
<1>5. ASSUME NEW v \in Workers, v # w PROVE Backed(pc[v], job[v])'
  <2>1. Backed(pc[v], job[v]) /\ pc'[v] = pc[v] /\ job'[v] = job[v]
    BY <1>1, <1>5 DEF Agreement
  <2>2. job[v].stl = "POSITIVE_ACK" => job[v].token \in accepted
    BY DEF IInv, TruthfulSettlements, Acknowledged
  <2> QED BY <2>1, <2>2 DEF Backed, SameTerminal
<1>6. Backed(pc[w], job[w])'
  BY <1>1
<1> QED BY <1>2, <1>3, <1>4, <1>5, <1>6 DEF Agreement, Fits

LEMMA LeaveAgrees ==
  ASSUME IInv, Agreement, NEW w \in Workers, Leave(w), UNCHANGED <<obl, row, ledger>>,
         accepted' = accepted
  PROVE  Agreement'
  BY MoveAgrees, NoJobIsJob, NoJobFits DEF Leave, Labels

LEMMA QuietAgrees ==
  ASSUME IInv, Agreement, NEW w \in Workers,
         \/ Start(w) \/ Lookup(w) \/ ClaimRefused(w) \/ Send(w) \/ Abort(w)
         \/ RecordAcceptanceConflicts(w) \/ RecordAcceptanceFails(w)
  PROVE  Agreement'
<1>1. CASE Leave(w) /\ UNCHANGED <<obl, row, ledger, accepted>>
  BY <1>1, LeaveAgrees
<1>2. ASSUME NEW l \in {"lookup", "recover", "await", "replace"}, Goto(w, l),
             l = "await" => pc[w] = "send", ~(pc[w] \in {"settle", "mark"}),
             UNCHANGED <<obl, row, ledger, accepted, job>>
      PROVE  Agreement'
  <2>1. Work(w, job[w], l) /\ l \in Labels /\ job[w] \in Jobs
    BY <1>2 DEF Work, IInv, TypeOK, Labels
  <2>2. Fits(l, job[w]) /\ Backed(l, job[w])
    BY <1>2 DEF Agreement, Fits, Backed
  <2> QED BY <1>2, <2>1, <2>2, MoveAgrees
<1> QED BY <1>1, <1>2 DEF Start, Lookup, ClaimRefused, Send, Abort, RecordAcceptanceConflicts,
                       RecordAcceptanceFails, stores, platform

LEMMA RecoverAgrees ==
  ASSUME IInv, Agreement, NEW w \in Workers, Recover(w) PROVE Agreement'
<1> USE DEF Recover, stores, platform
<1>1. CASE row.state # "DISPATCHING" /\ Goto(w, "claim") /\ UNCHANGED job
  <2>1. Work(w, job[w], "claim") /\ "claim" \in Labels /\ job[w] \in Jobs
    BY <1>1 DEF Work, IInv, TypeOK, Labels
  <2>2. Fits("claim", job[w]) /\ Backed("claim", job[w])
    BY DEF Agreement, Fits, Backed
  <2> QED BY <2>1, <2>2, MoveAgrees
<1>2. CASE Leave(w)
  BY <1>2, LeaveAgrees
<1>3. CASE row.state = "DISPATCHING" /\ Recoverable /\ ~Leave(w)
  <2>1. PICK j : j = [token |-> row.token, msg |-> row.msg,
                      acc |-> OutcomeOf(row.stl), stl |-> row.stl,
                      then |-> AfterSettling(row.stl),
                      tolerant |-> /\ row.stl = "EXPLICIT_NOT_SENT"
                                   /\ row.acc # "null"]
    OBVIOUS
  <2>2. PICK l : l = IF row.acc = "null" THEN "intent" ELSE "settle"
    OBVIOUS
  <2>3. Work(w, j, l) /\ l \in Labels
    BY <1>3, <2>1, <2>2 DEF Labels
  <2>4. j \in Jobs
    BY <1>3, <2>1 DEF IInv, TypeOK, Rows, Jobs, OutcomeOf, AfterSettling, Outcomes
  <2>5. Fits(l, j)
    BY <1>3, <2>1, <2>2
       DEF Fits, Agreement, RowFits, Recoverable, OutcomeOf, AfterSettling
  <2>6. Backed(l, j)
    BY <1>3, <2>1, <2>2 DEF Backed, Bound, Agreement, RowFits, Recoverable, OutcomeOf
  <2> QED BY <2>3, <2>4, <2>5, <2>6, MoveAgrees
<1> QED BY <1>1, <1>2, <1>3

LEMMA ClaimAgrees ==
  ASSUME IInv, Agreement, NEW w \in Workers, Claim(w) PROVE Agreement'
<1>1. PICK t \in Tokens \ issued :
        /\ obl' = [state |-> "CLAIMED", token |-> t, settlement |-> "null"]
        /\ Work(w, [NoJob EXCEPT !.token = t], "stage")
  BY DEF Claim
<1>2. PICK j : j = [NoJob EXCEPT !.token = t]
  OBVIOUS
<1>3. j \in Jobs /\ Fits("stage", j) /\ Backed("stage", j)'
  BY <1>2 DEF Jobs, NoJob, Ids, Fits, Backed
<1>4. /\ pc'[w] = "stage" /\ job'[w] = j
      /\ \A v \in Workers : v # w => pc'[v] = pc[v] /\ job'[v] = job[v]
  BY <1>1, <1>2, <1>3, WorkFacts DEF IInv, Labels
<1>5. obl.state = "PENDING" /\ UNCHANGED <<row, ledger, platform>>
  BY DEF Claim
<1>6. RowFits' /\ AckIsBacked' /\ LedgerIsTruthful'
  BY <1>1, <1>5 DEF Agreement, RowFits, AckIsBacked, LedgerIsTruthful, SameTerminal, platform
<1>7. ASSUME NEW v \in Workers, v # w PROVE Backed(pc[v], job[v])' /\ Fits(pc'[v], job'[v])
  BY <1>4, <1>5, <1>7 DEF Agreement, Backed, SameTerminal, Bound
<1> QED BY <1>3, <1>4, <1>6, <1>7 DEF Agreement, Fits

\* A settlement given up is not an acknowledgement.
LEMMA AbandonAgrees ==
  ASSUME IInv, Agreement, NEW w \in Workers, NEW stl \in Settlements, Abandon(w, stl),
         pc[w] \in {"stage", "persist"}, stl # "POSITIVE_ACK",
         UNCHANGED <<obl, row, ledger>>, accepted' = accepted
  PROVE  Agreement'
<1>1. PICK j : j = [job[w] EXCEPT !.stl = stl, !.then = "raise"]
  OBVIOUS
<1>2. j \in Jobs /\ Work(w, j, "settle") /\ "settle" \in Labels
  BY <1>1 DEF IInv, TypeOK, Jobs, Abandon, Labels
<1>3. Fits(pc[w], job[w]) /\ job[w] \in Jobs
  BY DEF Agreement, IInv, TypeOK
<1>4. Fits("settle", j) /\ Backed("settle", j)
  BY <1>1, <1>3 DEF Fits, Backed, Jobs
<1> QED BY <1>2, <1>4, MoveAgrees

LEMMA StageAgrees ==
  ASSUME IInv, Agreement, NEW w \in Workers, Stage(w) PROVE Agreement'
<1>1. CASE Leave(w) /\ UNCHANGED row
  BY <1>1, LeaveAgrees DEF Stage, platform
<1>2. CASE /\ row' = [NoRow EXCEPT !.state = "DISPATCHING", !.token = job[w].token]
           /\ Goto(w, "send") /\ UNCHANGED job
  <2>1. PICK j : j = job[w]
    OBVIOUS
  <2>2. Work(w, j, "send") /\ "send" \in Labels /\ j \in Jobs /\ pc[w] = "stage"
    BY <1>2, <2>1 DEF Work, IInv, TypeOK, Labels, Stage
  <2>3. Fits("send", j) /\ Backed("send", j)'
    BY <2>1, <2>2 DEF Agreement, Fits, Backed
  <2>4. accepted = {}
    BY <2>2 DEF IInv, SenderAlone, NotYetSent, Sending, HoldsClaim, NothingOutstandingWhenPending
  <2>5. RowFits'
    BY <1>2 DEF RowFits, NoRow
  <2> QED BY <2>2, <2>3, <2>4, <2>5, WriteAgrees DEF Stage, platform
<1> QED BY <1>1, <1>2 DEF Stage

LEMMA AnswerAgrees ==
  ASSUME IInv, Agreement, NEW w \in Workers,
         SendAcked(w) \/ SendAckedWithoutId(w) \/ SendUnknown(w) \/ SendRefused(w)
  PROVE  Agreement'
<1>1. /\ pc[w] = "await" /\ UNCHANGED <<obl, row, ledger, accepted>>
      /\ job[w].token \in Tokens /\ job[w].stl = "null"
  BY DEF SendAcked, SendAckedWithoutId, SendUnknown, SendRefused, stores, platform,
         IInv, SenderAlone, Sending
<1>2. Fits("await", job[w]) /\ job[w] \in Jobs
  BY <1>1 DEF Agreement, IInv, TypeOK
<1>3. PICK a : a = [job[w] EXCEPT !.msg = job[w].token]
  OBVIOUS
<1>4. PICK b : b = [job[w] EXCEPT !.acc = "OUTCOME_UNKNOWN", !.stl = "OUTCOME_UNKNOWN"]
  OBVIOUS
<1>5. PICK c : c = [job[w] EXCEPT !.stl = "OUTCOME_UNKNOWN"]
  OBVIOUS
<1>6. PICK d : d = [job[w] EXCEPT !.acc = "OUTCOME_UNKNOWN",
                                  !.stl = "EXPLICIT_NOT_SENT", !.then = "mark"]
  OBVIOUS
<1>7. {a, b, c, d} \subseteq Jobs
  BY <1>1, <1>2, <1>3, <1>4, <1>5, <1>6 DEF Jobs, Ids, Outcomes, Settlements
<1>8. Fits("persist", a) /\ Backed("persist", a)
  BY <1>1, <1>2, <1>3, ConstantsAssumption DEF Fits, Backed, Jobs
<1>9. \A j \in {b, c, d} : Fits("intent", j) /\ Backed("intent", j)
  BY <1>1, <1>2, <1>4, <1>5, <1>6 DEF Fits, Backed, Jobs
<1>10. \/ Work(w, a, "persist")
       \/ \E j \in {b, c, d} : Work(w, j, "intent")
  BY <1>3, <1>4, <1>5, <1>6 DEF SendAcked, SendAckedWithoutId, SendUnknown, SendRefused
<1> QED BY <1>1, <1>7, <1>8, <1>9, <1>10, MoveAgrees DEF Labels

LEMMA PersistAgrees ==
  ASSUME IInv, Agreement, NEW w \in Workers, Persist(w) \/ PersistFails(w) PROVE Agreement'
<1>1. pc[w] = "persist" /\ job[w] \in Jobs /\ Fits("persist", job[w])
  BY DEF Persist, PersistFails, IInv, TypeOK, Agreement
<1>2. CASE Persist(w) /\ CanPersist(w)
  <2>1. PICK j : j = [job[w] EXCEPT !.acc = "succeeded", !.stl = "POSITIVE_ACK",
                                    !.then = "finalize"]
    OBVIOUS
  <2>2. /\ Work(w, j, "intent") /\ "intent" \in Labels /\ j \in Jobs
        /\ row' = [row EXCEPT !.msg = job[w].msg, !.stl = "POSITIVE_ACK"]
        /\ UNCHANGED <<obl, ledger>> /\ accepted' = accepted
    BY <1>1, <1>2, <2>1 DEF Persist, Jobs, Outcomes, Settlements, Labels, platform
  <2>3. Fits("intent", j) /\ Backed("intent", j)'
    BY <1>1, <2>1 DEF Fits, Backed, Jobs
  <2>4. RowFits'
    BY <1>1, <1>2, <2>2 DEF Agreement, RowFits, CanPersist, Fits, IInv, TypeOK, Rows
  <2>5. \A t \in accepted : ~Bound(t)
    BY <1>2 DEF Bound, CanPersist
  <2> QED BY <2>2, <2>3, <2>4, <2>5, WriteAgrees
<1>3. CASE Abandon(w, "OUTCOME_UNKNOWN") /\ UNCHANGED <<obl, row, ledger, accepted>>
  BY <1>1, <1>3, AbandonAgrees DEF Settlements
<1> QED BY <1>2, <1>3 DEF Persist, PersistFails, stores, platform

LEMMA IntentAgrees ==
  ASSUME IInv, Agreement, NEW w \in Workers, Intent(w) PROVE Agreement'
<1>1. CASE Leave(w) /\ UNCHANGED row
  BY <1>1, LeaveAgrees DEF Intent, platform
<1>2. CASE Mine(w) /\ row.stl \in {"null", job[w].stl} /\ ~(Leave(w) /\ UNCHANGED row)
  <2>1. PICK j : j = job[w]
    OBVIOUS
  <2>2. PICK l : l = IF job[w].acc = "null" THEN "settle" ELSE "ledger"
    OBVIOUS
  <2>3. /\ Work(w, j, l) /\ l \in Labels /\ j \in Jobs /\ pc[w] = "intent"
        /\ row' = [row EXCEPT !.stl = job[w].stl]
        /\ UNCHANGED <<obl, ledger>> /\ accepted' = accepted
    BY <1>2, <2>1, <2>2 DEF Intent, Work, IInv, TypeOK, Labels, platform
  <2>4. Fits("intent", j)
    BY <2>1, <2>3 DEF Agreement
  <2>5. Fits(l, j) /\ Backed(l, j)'
    BY <2>1, <2>2, <2>4 DEF Fits, Backed
  <2>6. RowFits'
    BY <1>2, <2>1, <2>3, <2>4 DEF Agreement, RowFits, Mine, Fits, IInv, TypeOK, Rows
  <2>7. \A t \in accepted : Bound(t) => Bound(t)'
    BY <1>2, <2>3 DEF Bound, IInv, TypeOK, Rows
  <2> QED BY <2>3, <2>5, <2>6, <2>7, WriteAgrees
<1> QED BY <1>1, <1>2 DEF Intent

LEMMA AcceptanceAgrees ==
  ASSUME IInv, Agreement, NEW w \in Workers, RecordAcceptance(w) PROVE Agreement'
<1>1. PICK j : j = job[w]
  OBVIOUS
<1>2. /\ Work(w, j, "outcome") /\ j \in Jobs /\ pc[w] = "ledger" /\ Fits("ledger", j)
      /\ ledger' = [ledger EXCEPT ![j.token] = [status |-> j.acc, msg |-> j.msg]]
      /\ ledger[j.token] \in {NoEvent, [status |-> j.acc, msg |-> j.msg]}
      /\ UNCHANGED <<obl, row>> /\ accepted' = accepted
  BY <1>1 DEF RecordAcceptance, LedgerAgrees, Event, Work, IInv, TypeOK, Agreement, platform
<1>3. /\ pc'[w] = "outcome" /\ job'[w] = j
      /\ \A v \in Workers : v # w => pc'[v] = pc[v] /\ job'[v] = job[v]
  BY <1>2, WorkFacts DEF IInv, Labels
<1>4. ledger \in [Tokens -> Events]
  BY DEF IInv, TypeOK
<1>5. j.stl = "POSITIVE_ACK" =>
        /\ j.token \in accepted /\ j.token \in Tokens
        /\ j.acc = "succeeded" /\ j.msg = j.token
  BY <1>1, <1>2 DEF Fits, IInv, TypeOK, TruthfulSettlements, Acknowledged
<1>6. \A t \in Tokens : ledger[t] = Acked(t) => ledger'[t] = Acked(t)
  BY <1>2, <1>4 DEF Acked, NoEvent
<1>7. LedgerIsTruthful'
  BY <1>2, <1>4, <1>5 DEF Agreement, LedgerIsTruthful, Fits
<1>8. row.acc = "succeeded" => row.token \in Tokens
  BY DEF Agreement, RowFits, IInv, TypeOK, TruthfulSettlements, Acknowledged
<1>9. RowFits' /\ AckIsBacked'
  BY <1>2, <1>6, <1>8 DEF Agreement, RowFits, AckIsBacked, Bound, SameTerminal
<1>10. Fits("outcome", j) /\ Backed("outcome", j)'
  BY <1>2, <1>4, <1>5 DEF Fits, Backed, Acked
<1>11. ASSUME NEW v \in Workers, v # w PROVE Fits(pc[v], job[v])' /\ Backed(pc[v], job[v])'
  <2>1. /\ Fits(pc[v], job[v]) /\ Backed(pc[v], job[v]) /\ pc'[v] = pc[v] /\ job'[v] = job[v]
        /\ (job[v].stl = "POSITIVE_ACK" => job[v].token \in Tokens)
    BY <1>3, <1>11 DEF Agreement, IInv, TypeOK, TruthfulSettlements, Acknowledged
  <2>2. Fits(pc[v], job[v])'
    BY <2>1 DEF Fits
  <2>3. Backed(pc[v], job[v])'
    BY <1>2, <1>6, <2>1 DEF Backed, Bound, SameTerminal
  <2> QED BY <2>2, <2>3
<1>12. Fits(pc[w], job[w])' /\ Backed(pc[w], job[w])'
  BY <1>3, <1>10 DEF Fits, Backed
<1> QED BY <1>7, <1>9, <1>11, <1>12 DEF Agreement

LEMMA ReplaceAgrees ==
  ASSUME IInv, Agreement, NEW w \in Workers, Replace(w) PROVE Agreement'
<1>1. CASE Leave(w) /\ UNCHANGED row
  BY <1>1, LeaveAgrees DEF Replace, platform
<1>2. CASE /\ Mine(w) /\ row.stl = job[w].stl /\ row.acc = "null"
           /\ ~(Leave(w) /\ UNCHANGED row)
  <2>1. PICK j : j = [job[w] EXCEPT !.acc = "OUTCOME_UNKNOWN",
                                    !.stl = "OUTCOME_UNKNOWN", !.then = "raise"]
    OBVIOUS
  <2>2. /\ Work(w, j, "outcome") /\ "outcome" \in Labels /\ pc[w] = "replace"
        /\ row' = [row EXCEPT !.stl = "OUTCOME_UNKNOWN"]
        /\ UNCHANGED <<obl, ledger>> /\ accepted' = accepted
    BY <1>2, <2>1 DEF Replace, Labels, platform
  <2>3. Fits("replace", job[w]) /\ job[w] \in Jobs
    BY <2>2 DEF Agreement, IInv, TypeOK
  <2>4. j \in Jobs /\ Fits("outcome", j) /\ Backed("outcome", j)'
    BY <2>1, <2>3 DEF Fits, Backed, Jobs, Outcomes, Settlements
  <2>5. RowFits'
    BY <1>2, <2>2 DEF Agreement, RowFits, Mine, IInv, TypeOK, Rows
  <2>6. \A t \in accepted : ~Bound(t)
    BY <1>2 DEF Bound
  <2> QED BY <2>2, <2>4, <2>5, <2>6, WriteAgrees
<1> QED BY <1>1, <1>2 DEF Replace

LEMMA OutcomeAgrees ==
  ASSUME IInv, Agreement, NEW w \in Workers, RecordOutcome(w) PROVE Agreement'
<1>1. CASE Leave(w) /\ UNCHANGED row
  BY <1>1, LeaveAgrees DEF RecordOutcome, platform
<1>2. PICK j : j = job[w]
  OBVIOUS
<1>3. /\ j \in Jobs /\ pc[w] = "outcome" /\ Fits("outcome", j) /\ Backed("outcome", j)
      /\ UNCHANGED <<obl, ledger>> /\ accepted' = accepted /\ "settle" \in Labels
  BY <1>2 DEF RecordOutcome, IInv, TypeOK, Agreement, Labels, platform
<1>4. Fits("settle", j)
  BY <1>3 DEF Fits
<1>5. j.stl = "POSITIVE_ACK" => j.acc = "succeeded" /\ j.msg = j.token /\ j.token # None
  BY <1>3 DEF Fits
<1>6. CASE /\ Mine(w) /\ row.stl = job[w].stl /\ row.acc \in {"null", job[w].acc}
           /\ row' = [row EXCEPT !.acc = job[w].acc]
           /\ Goto(w, "settle") /\ UNCHANGED job
  <2>1. Work(w, j, "settle")
    BY <1>2, <1>6 DEF Work, IInv, TypeOK
  <2>2. Backed("settle", j)'
    BY <1>2, <1>5, <1>6 DEF Backed, Bound, Mine, IInv, TypeOK, Rows
  <2>3. RowFits'
    BY <1>2, <1>3, <1>5, <1>6
       DEF Agreement, RowFits, Mine, Fits, Backed, IInv, TypeOK, Rows, SameTerminal
  <2>4. \A t \in accepted : Bound(t) => Bound(t)'
    BY <1>6 DEF Bound, Mine, IInv, TypeOK, Rows
  <2> QED BY <1>3, <1>4, <2>1, <2>2, <2>3, <2>4, WriteAgrees
<1>7. CASE Finished(w, "DELIVERED") /\ Goto(w, "settle") /\ UNCHANGED <<row, job>>
  <2>1. Work(w, j, "settle")
    BY <1>2, <1>7 DEF Work, IInv, TypeOK
  <2>2. Backed("settle", j)
    BY <1>2, <1>5, <1>7 DEF Backed, Bound, Finished
  <2> QED BY <1>3, <1>4, <1>7, <2>1, <2>2, MoveAgrees
<1> QED BY <1>1, <1>6, <1>7 DEF RecordOutcome

\* What is settled stays; an acknowledgement is settled on a bound row.
LEMMA SettleAgrees ==
  ASSUME IInv, Agreement, NEW w \in Workers, Settle(w) PROVE Agreement'
<1>1. /\ pc[w] = "settle" /\ job[w] \in Jobs /\ Fits("settle", job[w]) /\ Backed("settle", job[w])
      /\ UNCHANGED <<row, ledger>> /\ accepted' = accepted
  BY DEF Settle, IInv, TypeOK, Agreement, platform
<1>2. CASE Leave(w) /\ UNCHANGED obl
  BY <1>1, <1>2, LeaveAgrees
<1>3. PICK j : j = IF job[w].then = "raise" THEN NoJob ELSE job[w]
  OBVIOUS
<1>4. PICK l : l = IF job[w].then = "raise" THEN "idle" ELSE job[w].then
  OBVIOUS
<1>5. j \in Jobs /\ l \in Labels /\ l \in {"idle", "finalize", "mark"}
  BY <1>1, <1>3, <1>4, NoJobIsJob DEF Jobs, Labels
<1>6. (IF job[w].then = "raise" THEN Leave(w) ELSE Goto(w, job[w].then) /\ UNCHANGED job)
        => Work(w, j, l)
  BY <1>3, <1>4 DEF Work, Leave, IInv, TypeOK
<1>7. Fits(l, j) /\ (l = "finalize" => j = job[w] /\ job[w].stl = "POSITIVE_ACK")
  BY <1>1, <1>3, <1>4 DEF Fits, NoJob, Jobs
<1>8. CASE /\ SameTerminal(job[w].token, job[w].stl)
             \/ (job[w].tolerant /\ obl.state = "PENDING")
           /\ Work(w, j, l) /\ UNCHANGED obl
  <2>1. Backed(l, j)
    BY <1>1, <1>5, <1>7, <1>8 DEF Backed, Fits
  <2> QED BY <1>1, <1>5, <1>7, <1>8, <2>1, MoveAgrees
<1>9. CASE HoldsClaim(job[w].token) /\ obl' = Settled(job[w].token, job[w].stl) /\ Work(w, j, l)
  <2>1. /\ pc'[w] = l /\ job'[w] = j
        /\ \A v \in Workers : v # w => pc'[v] = pc[v] /\ job'[v] = job[v]
    BY <1>5, <1>9, WorkFacts DEF IInv
  <2>2. obl.state = "CLAIMED"
    BY <1>9 DEF HoldsClaim
  <2>3. RowFits' /\ LedgerIsTruthful'
    BY <1>1, <2>2 DEF Agreement, RowFits, LedgerIsTruthful, SameTerminal
  <2>4. AckIsBacked'
    BY <1>1, <1>9 DEF AckIsBacked, Settled, Pending, Backed, Bound
  <2>5. Backed(l, j)'
    BY <1>5, <1>7, <1>9 DEF Backed, Settled, SameTerminal
  <2>6. ASSUME NEW v \in Workers, v # w PROVE Fits(pc'[v], job'[v]) /\ Backed(pc[v], job[v])'
    BY <1>1, <2>1, <2>2, <2>6 DEF Agreement, Backed, Bound, SameTerminal
  <2> QED BY <1>7, <2>1, <2>3, <2>4, <2>5, <2>6 DEF Agreement, Fits
<1> QED BY <1>2, <1>6, <1>8, <1>9 DEF Settle

LEMMA FinishAgrees ==
  ASSUME IInv, Agreement, NEW w \in Workers, Finalize(w) \/ Mark(w) PROVE Agreement'
<1>1. CASE UNCHANGED row
  BY <1>1, LeaveAgrees DEF Finalize, Mark, platform
<1>2. CASE row' # row
  <2>1. /\ Work(w, NoJob, "idle") /\ "idle" \in Labels /\ UNCHANGED <<obl, ledger>>
        /\ accepted' = accepted
    BY DEF Finalize, Mark, Leave, Labels, platform
  <2>2. RowFits'
    <3>1. CASE Mark(w)
      BY <1>2, <3>1 DEF Mark, Mine, Agreement, RowFits, IInv, TypeOK, Rows
    <3>2. CASE Finalize(w)
      BY <1>2, <3>2 DEF Finalize, Mine, Agreement, RowFits, Backed, SameTerminal,
         IInv, TypeOK, Rows
    <3> QED BY <3>1, <3>2
  <2>3. \A t \in accepted : Bound(t) => Bound(t)'
    BY <1>2 DEF Finalize, Mark, Bound, IInv, TypeOK, Rows
  <2> QED BY <2>1, <2>2, <2>3, WriteAgrees, NoJobIsJob, NoJobFits
<1> QED BY <1>1, <1>2

LEMMA StepAgreement == IInv /\ Agreement /\ [Next]_vars => Agreement'
<1> SUFFICES ASSUME IInv, Agreement, [Next]_vars PROVE Agreement'
  OBVIOUS
<1>1. ASSUME NEW w \in Workers, Start(w) \/ Step(w) \/ FailStep(w) PROVE Agreement'
  <2>1. CASE StageConflict(w) \/ StageFails(w)
    BY <2>1, AbandonAgrees DEF StageConflict, StageFails, Settlements, stores, platform
  <2> QED
    BY <1>1, <2>1, QuietAgrees, RecoverAgrees, ClaimAgrees, StageAgrees, AnswerAgrees,
       PersistAgrees, IntentAgrees, AcceptanceAgrees, ReplaceAgrees, OutcomeAgrees,
       SettleAgrees, FinishAgrees DEF Step, FailStep
<1>2. ASSUME UNCHANGED <<obl, row, ledger, pc, job>>, accepted \subseteq accepted'
      PROVE  Agreement'
  BY <1>2 DEF Agreement, RowFits, AckIsBacked, LedgerIsTruthful, Fits, Backed, Bound, SameTerminal
<1> QED BY <1>1, <1>2 DEF Next, PlatformAccepts, vars, stores, platform

\* Although no transaction spans two of them, the stores agree: a DELIVERED row
\* is backed by obligation, ledger and platform, a positively settled obligation
\* keeps the row that binds its message, the ledger reports no acceptance the
\* platform did not make (StoresAgree).
THEOREM StoresStayConsistent == Spec => []StoresAgree
<1>1. IInv /\ Agreement => StoresAgree
  <2> SUFFICES ASSUME IInv, Agreement PROVE StoresAgree
    OBVIOUS
  <2>1. DeliveredIsBacked
    BY DEF Agreement, RowFits, DeliveredIsBacked, SameTerminal, Acked, IInv,
       TruthfulSettlements, Acknowledged
  <2>2. AckKeepsBinding
    BY DEF Agreement, AckIsBacked, AckKeepsBinding, Bound
  <2> QED BY <2>1, <2>2 DEF StoresAgree, Agreement
<1> QED
  BY <1>1, InitAgreement, StepAgreement, Inductive, PTL DEF Spec

\* Only three kinds of steps touch what the abstract specification sees.
LEMMA QuietSteps ==
  ASSUME NEW w \in Workers, Start(w) \/ Step(w) \/ FailStep(w)
  PROVE  Claim(w) \/ Settle(w) \/ UNCHANGED <<obl, accepted>>
  BY DEF Start, Step, FailStep, Lookup, Recover, ClaimRefused, Stage, StageConflict,
     StageFails, Send, SendAcked, SendAckedWithoutId, SendRefused, SendUnknown,
     Persist, PersistFails, Intent, RecordAcceptance, RecordAcceptanceConflicts,
     RecordAcceptanceFails, Replace, RecordOutcome, Finalize, Mark, Abort,
     stores, platform

\* The processes over four stores implement AtMostOnceDelivery: a claim is an
\* attempt, and it is acknowledged, given up or taken back only as that
\* specification allows (ImplementsAtMostOnce).
THEOREM Implementation == Spec => ImplementsAtMostOnce
<1>1. Init => Abstract!Init
  BY DEF Init, Abstract!Init, Phase, Pending
<1>2. IInv /\ [Next]_vars => [Abstract!Next]_(Abstract!vars)
  <2> SUFFICES ASSUME IInv, [Next]_vars PROVE [Abstract!Next]_(Abstract!vars)
    OBVIOUS
  <2> USE DEF Phase
  <2>1. CASE UNCHANGED <<obl, accepted>>
    BY <2>1 DEF Abstract!vars
  <2>2. ASSUME NEW w \in Workers, Claim(w) PROVE Abstract!Attempt
    BY <2>2 DEF Claim, Abstract!Attempt, platform
  <2>3. ASSUME NEW t \in Tokens, PlatformAccepts(t) PROVE Abstract!Accept
    <3>1. obl.state # "PENDING" /\ accepted = {} /\ accepted' = {t}
      BY <2>3 DEF PlatformAccepts, IInv, NothingOutstandingWhenPending, KnownTokens
    <3>2. obl.settlement # "POSITIVE_ACK"
      BY <3>1 DEF IInv, TruthfulSettlements, Acknowledged
    <3>3. obl.state \in {"CLAIMED", "SETTLED"} /\ obl' = obl
      BY <2>3, <3>1 DEF PlatformAccepts, stores, IInv, TypeOK, Obligations
    <3> QED
      BY <3>1, <3>2, <3>3 DEF Abstract!Accept
  <2>4. ASSUME NEW w \in Workers, Settle(w), obl' # obl
        PROVE  Abstract!NotSent \/ Abstract!Acknowledge \/ Abstract!GiveUp
    <3>1. /\ HoldsClaim(job[w].token) /\ obl' = Settled(job[w].token, job[w].stl)
          /\ pc[w] = "settle" /\ accepted' = accepted
      BY <2>4 DEF Settle, platform
    <3>2. /\ job[w].stl \in Settlements
          /\ Refused(job[w].stl, job[w].token)
          /\ Acknowledged(job[w].stl, job[w].token)
      BY <3>1 DEF IInv, TypeOK, Jobs, TruthfulSettlements, Recording
    <3>3. obl.state = "CLAIMED" /\ accepted \subseteq {job[w].token}
      BY <3>1 DEF HoldsClaim, IInv, NothingOutstandingWhenPending
    <3>4. CASE job[w].stl = "EXPLICIT_NOT_SENT"
      BY <3>1, <3>2, <3>3, <3>4 DEF Abstract!NotSent, Settled, Pending, Refused
    <3>5. CASE job[w].stl = "POSITIVE_ACK"
      BY <3>1, <3>2, <3>3, <3>5 DEF Abstract!Acknowledge, Settled, Acknowledged
    <3>6. CASE job[w].stl = "OUTCOME_UNKNOWN"
      BY <3>1, <3>2, <3>3, <3>6 DEF Abstract!GiveUp, Settled
    <3> QED
      BY <3>2, <3>4, <3>5, <3>6 DEF Settlements
  <2>5. \A w \in Workers : Settle(w) => accepted' = accepted
    BY DEF Settle, platform
  <2> QED
    BY <2>1, <2>2, <2>3, <2>4, <2>5, QuietSteps DEF Next, Abstract!Next, vars, stores, platform
<1> QED
  BY <1>1, <1>2, Inductive, PTL DEF Spec, ImplementsAtMostOnce, Abstract!Spec

\* Staging is the only step that gives the row to another claim, and it does
\* so only over a send that never counted (EvidenceKept).
THEOREM StagingKeepsEvidence == Spec => EvidenceKept
<1>1. IInv /\ [Next]_vars =>
        [row'.token # row.token => row.token \notin net' \union accepted']_vars
  <2> SUFFICES ASSUME IInv, Next, row'.token # row.token
               PROVE  row.token \notin net' \union accepted'
    BY DEF vars, stores
  <2>1. PICK w \in Workers : Stage(w) /\ row' # row
    BY DEF Next, Start, Step, FailStep, Lookup, Recover, Claim, ClaimRefused, Stage,
       StageConflict, StageFails, Send, SendAcked, SendAckedWithoutId, SendRefused,
       SendUnknown, Persist, PersistFails, Intent, RecordAcceptance,
       RecordAcceptanceConflicts, RecordAcceptanceFails, Replace, RecordOutcome,
       Settle, Finalize, Mark, Abort, PlatformAccepts, stores, IInv, TypeOK, Rows
  <2>2. net \union accepted = {}
    BY <2>1 DEF Stage, IInv, SenderAlone, NotYetSent, Sending, HoldsClaim,
       NothingOutstandingWhenPending
  <2> QED
    BY <2>1, <2>2 DEF Stage, platform
<1> QED
  BY <1>1, Inductive, PTL DEF Spec, EvidenceKept

-----------------------------------------------------------------------------
(* The claim of a sender that stopped *)

\* A claim nobody works on and nobody can pick up: the row, if it is of this
\* claim at all, records no settlement.
Orphaned(t) ==
  /\ HoldsClaim(t)
  /\ \A w \in Workers : job[w].token # t
  /\ row.token = t => row.stl = "null"

\* ... and that was neither sent nor can still be accepted.
OrphanedUnsent(t) == Orphaned(t) /\ t \notin net \union accepted

\* Whatever a step gives a process to work on, it is not an orphaned claim.
LEMMA NobodyTakesUpAnOrphan ==
  ASSUME IInv, Next, NEW t \in Tokens, Orphaned(t), NEW v \in Workers
  PROVE  job'[v].token # t
<1>1. ASSUME NEW w \in Workers, NEW j, NEW l, Work(w, j, l), j.token # t
      PROVE  job'[v].token # t
  BY <1>1 DEF Work, Orphaned, IInv, TypeOK
<1>2. NoJob.token # t
  BY NoJobIsJob, ConstantsAssumption
<1>3. ASSUME NEW w \in Workers, Leave(w) PROVE job'[v].token # t
  BY <1>1, <1>2, <1>3 DEF Leave
<1>4. ASSUME NEW w \in Workers, NEW stl, Abandon(w, stl) PROVE job'[v].token # t
  <2> DEFINE j == [job[w] EXCEPT !.stl = stl, !.then = "raise"]
  <2>1. j.token # t
    BY DEF Orphaned, IInv, TypeOK, Jobs
  <2>2. Work(w, j, "settle")
    BY <1>4 DEF Abandon
  <2> HIDE DEF j
  <2> QED
    BY <1>1, <2>1, <2>2
<1>5. ASSUME NEW w \in Workers, Recover(w) PROVE job'[v].token # t
  <2>1. Recoverable => row.token # t
    BY DEF Recoverable, Orphaned
  <2> QED
    BY <1>1, <1>3, <1>5, <2>1 DEF Recover, Orphaned
<1>6. ASSUME NEW w \in Workers PROVE ~Claim(w)
  BY DEF Claim, Orphaned, HoldsClaim
<1>7. UNCHANGED job => job'[v].token # t
  BY DEF Orphaned
<1>8. ASSUME NEW w \in Workers,
             SendAcked(w) \/ SendAckedWithoutId(w) \/ SendRefused(w)
               \/ SendUnknown(w) \/ Persist(w) \/ Replace(w)
      PROVE  job'[v].token # t
  <2>1. CASE SendAcked(w)
    <3> DEFINE j == [job[w] EXCEPT !.msg = job[w].token]
    <3>1. j.token # t
      BY DEF Orphaned, IInv, TypeOK, Jobs
    <3>2. Work(w, j, "persist")
      BY <2>1 DEF SendAcked
    <3> HIDE DEF j
    <3> QED
      BY <1>1, <3>1, <3>2
  <2>2. CASE SendAckedWithoutId(w)
    <3> DEFINE j == [job[w] EXCEPT !.acc = "OUTCOME_UNKNOWN", !.stl = "OUTCOME_UNKNOWN"]
    <3>1. j.token # t
      BY DEF Orphaned, IInv, TypeOK, Jobs
    <3>2. Work(w, j, "intent")
      BY <2>2 DEF SendAckedWithoutId
    <3> HIDE DEF j
    <3> QED
      BY <1>1, <3>1, <3>2
  <2>3. CASE SendRefused(w)
    <3> DEFINE j == [job[w] EXCEPT !.acc = "OUTCOME_UNKNOWN", !.stl = "EXPLICIT_NOT_SENT",
                                 !.then = "mark"]
    <3>1. j.token # t
      BY DEF Orphaned, IInv, TypeOK, Jobs
    <3>2. Work(w, j, "intent")
      BY <2>3 DEF SendRefused
    <3> HIDE DEF j
    <3> QED
      BY <1>1, <3>1, <3>2
  <2>4. CASE SendUnknown(w)
    <3> DEFINE j == [job[w] EXCEPT !.stl = "OUTCOME_UNKNOWN"]
    <3>1. j.token # t
      BY DEF Orphaned, IInv, TypeOK, Jobs
    <3>2. Work(w, j, "intent")
      BY <2>4 DEF SendUnknown
    <3> HIDE DEF j
    <3> QED
      BY <1>1, <3>1, <3>2
  <2>5. CASE Persist(w) /\ CanPersist(w)
    <3> DEFINE j == [job[w] EXCEPT !.acc = "succeeded", !.stl = "POSITIVE_ACK",
                                 !.then = "finalize"]
    <3>1. j.token # t
      BY DEF Orphaned, IInv, TypeOK, Jobs
    <3>2. Work(w, j, "intent")
      BY <2>5 DEF Persist
    <3> HIDE DEF j
    <3> QED
      BY <1>1, <3>1, <3>2
  <2>6. CASE Persist(w) /\ ~CanPersist(w)
    BY <1>4, <2>6 DEF Persist
  <2>7. CASE Replace(w) /\ ~Leave(w)
    <3> DEFINE j == [job[w] EXCEPT !.acc = "OUTCOME_UNKNOWN", !.stl = "OUTCOME_UNKNOWN",
                                 !.then = "raise"]
    <3>1. j.token # t
      BY DEF Orphaned, IInv, TypeOK, Jobs
    <3>2. Work(w, j, "outcome")
      BY <2>7 DEF Replace
    <3> HIDE DEF j
    <3> QED
      BY <1>1, <3>1, <3>2
  <2> QED
    BY <1>3, <1>8, <2>1, <2>2, <2>3, <2>4, <2>5, <2>6, <2>7
<1>9. ASSUME NEW w \in Workers, Start(w) \/ Step(w) \/ FailStep(w)
      PROVE  job'[v].token # t
  <2>1. CASE Settle(w)
    BY <1>3, <1>7, <2>1 DEF Settle
  <2> QED
    BY <1>3, <1>4, <1>5, <1>6, <1>7, <1>8, <1>9, <2>1 DEF Start, Step, FailStep, Lookup,
       ClaimRefused, Stage, StageConflict, StageFails, Send, PersistFails, Intent,
       RecordAcceptance, RecordAcceptanceConflicts, RecordAcceptanceFails,
       RecordOutcome, Finalize, Mark, Abort
<1> QED
  BY <1>7, <1>9 DEF Next, PlatformAccepts

\* Only a process working on a claim settles it, and writes a row for it.
LEMMA OrphanStep ==
  ASSUME IInv, [Next]_vars, NEW t \in Tokens, Orphaned(t)
  PROVE  Orphaned(t)'
<1>1. CASE UNCHANGED vars
  BY <1>1 DEF vars, stores, Orphaned, HoldsClaim
<1>2. CASE Next
  <2>1. obl' = obl
    <3>1. ASSUME NEW w \in Workers, Settle(w) PROVE obl' = obl
      BY <3>1 DEF Settle, Orphaned, HoldsClaim
    <3>2. ASSUME NEW w \in Workers PROVE ~Claim(w)
      BY DEF Claim, Orphaned, HoldsClaim
    <3> QED
      BY <1>2, <3>1, <3>2, QuietSteps DEF Next, PlatformAccepts, stores
  <2>2. row'.token = t => row' = row
    <3>1. ASSUME NEW w \in Workers, Stage(w) PROVE row' = row \/ row'.token # t
      BY <3>1 DEF Stage, NoRow, Orphaned
    <3>2. ASSUME NEW w \in Workers, ~Stage(w), Start(w) \/ Step(w) \/ FailStep(w),
                 row' # row
          PROVE  row.token = job[w].token /\ row'.token = row.token
      BY <3>2 DEF Start, Step, FailStep, Lookup, Recover, Claim, ClaimRefused,
         StageConflict, StageFails, Send, SendAcked, SendAckedWithoutId, SendRefused,
         SendUnknown, Persist, PersistFails, CanPersist, Intent, RecordAcceptance,
         RecordAcceptanceConflicts, RecordAcceptanceFails, Replace, RecordOutcome,
         Settle, Finalize, Mark, Abort, Mine, stores, IInv, TypeOK, Rows
    <3> QED
      BY <1>2, <3>1, <3>2 DEF Next, PlatformAccepts, stores, Orphaned
  <2>3. \A v \in Workers : job'[v].token # t
    BY <1>2, NobodyTakesUpAnOrphan
  <2> QED
    BY <2>1, <2>2, <2>3 DEF Orphaned, HoldsClaim
<1> QED
  BY <1>1, <1>2

\* A process that dies between its claim and the answer of the send command
\* orphans the claim (dispatch, from claim_delivery to _persist_message_id).
THEOREM DeadSenderOrphansItsClaim ==
  Spec => [][\A w \in Workers, t \in Tokens :
               Sending(w) /\ job[w].token = t /\ Abort(w) => Orphaned(t)']_vars
<1>1. IInv => \A w \in Workers, t \in Tokens :
                Sending(w) /\ job[w].token = t /\ Abort(w) => Orphaned(t)'
  <2> SUFFICES ASSUME IInv, NEW w \in Workers, NEW t \in Tokens,
                      Sending(w), job[w].token = t, Abort(w)
               PROVE  Orphaned(t)'
    OBVIOUS
  <2>1. /\ job'[w] = NoJob /\ UNCHANGED stores
        /\ \A v \in Workers : v # w => job'[v] = job[v]
    BY WorkFacts, NoJobIsJob DEF Abort, Leave, IInv, Labels
  <2>2. /\ HoldsClaim(t) /\ (row.token = t => row.stl = "null")
        /\ \A v \in Workers : v # w => job[v].token # t
    BY DEF IInv, SenderAlone
  <2>3. NoJob.token # t
    BY NoJobIsJob, ConstantsAssumption
  <2> QED
    BY <2>1, <2>2, <2>3 DEF Orphaned, HoldsClaim, stores
<1> QED
  BY <1>1, Inductive, PTL

\* No dispatch, recovery or retry ever settles or releases an orphaned claim:
\* the obligation stays CLAIMED (_recover_known_dispatch, claim_delivery).
THEOREM OrphanedClaimIsNeverSettled ==
  \A t \in Tokens : Spec => [](Orphaned(t) => []Orphaned(t))
<1> TAKE t \in Tokens
<1>1. IInv /\ [Next]_vars /\ Orphaned(t) => Orphaned(t)'
  BY OrphanStep
<1> QED
  BY <1>1, Inductive, PTL DEF Spec

\* If the process died before the send command started, nothing is ever sent
\* for the product: the crash loses it, it does not double it (dispatch).
THEOREM OrphanedClaimIsNeverSent ==
  \A t \in Tokens :
    Spec => [](OrphanedUnsent(t) => [](OrphanedUnsent(t) /\ net \union accepted = {}))
<1> TAKE t \in Tokens
<1>1. ASSUME IInv, [Next]_vars, OrphanedUnsent(t) PROVE OrphanedUnsent(t)'
  <2>1. Orphaned(t)'
    BY <1>1, OrphanStep DEF OrphanedUnsent
  <2>2. ASSUME NEW w \in Workers, Start(w) \/ Step(w) \/ FailStep(w)
        PROVE  /\ net' \subseteq net \union {job[w].token}
               /\ accepted' = accepted
    BY <2>2 DEF Start, Step, FailStep, Lookup, Recover, Claim, ClaimRefused, Stage,
       StageConflict, StageFails, Send, SendAcked, SendAckedWithoutId, SendRefused,
       SendUnknown, Persist, PersistFails, Intent, RecordAcceptance,
       RecordAcceptanceConflicts, RecordAcceptanceFails, Replace, RecordOutcome,
       Settle, Finalize, Mark, Abort, platform
  <2>3. t \notin net' \union accepted'
    BY <1>1, <2>2 DEF Next, PlatformAccepts, vars, platform, OrphanedUnsent, Orphaned
  <2> QED
    BY <2>1, <2>3 DEF OrphanedUnsent
<1>2. IInv /\ OrphanedUnsent(t) => net \union accepted = {}
  BY DEF IInv, NothingOutstandingWhenPending, OrphanedUnsent, Orphaned, HoldsClaim
<1> QED
  BY <1>1, <1>2, Inductive, PTL DEF Spec
=============================================================================
