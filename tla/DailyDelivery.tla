---------------------------- MODULE DailyDelivery ----------------------------
(***************************************************************************)
(* Delivery of one Daily Workspace product: the outbox's `dispatch` run by *)
(* any number of processes at once, over the four stores it touches.  No   *)
(* transaction spans two stores, and a process may stop between any two of *)
(* its steps; every step below is one transaction or one external call.    *)
(*                                                                         *)
(*   obl       row of daily_workspace_obligations (semantic state)         *)
(*   row       row of daily_workspace_delivery_outbox                      *)
(*   ledger    "dispatched" event per claim token (public-entry ledger)    *)
(*   net, accepted   what the messaging platform holds of each send        *)
(*                                                                         *)
(* One send is made under one claim token, so the token also stands for    *)
(* the message id the platform returns for that send.                      *)
(***************************************************************************)
EXTENDS Naturals, FiniteSets

CONSTANTS
  Workers,       \* processes that may run dispatch (scheduled, retry, manual)
  Tokens,        \* claim tokens; their number bounds the claims of a run
  None,          \* SQL NULL in a token or message id column
  MaxFaults      \* bound on crashes and store failures in a behaviour

ASSUME ConstantsAssumption == None \notin Tokens /\ MaxFaults \in Nat

VARIABLES obl, row, ledger, issued, net, accepted, pc, job, faults

stores   == <<obl, row, ledger>>
platform == <<net, accepted>>
vars     == <<stores, issued, platform, pc, job, faults>>

Settlements == {"POSITIVE_ACK", "OUTCOME_UNKNOWN", "EXPLICIT_NOT_SENT"}
Outcomes    == {"succeeded", "OUTCOME_UNKNOWN"}
Ids         == Tokens \union {None}

Labels == {"idle", "lookup", "recover", "claim", "stage", "send", "await",
           "persist", "intent", "ledger", "replace", "outcome", "settle",
           "finalize", "mark"}

Pending  == [state |-> "PENDING", token |-> None, settlement |-> "null"]
NoRow    == [state |-> "NONE", token |-> None, msg |-> None,
             acc |-> "null", stl |-> "null"]
NoEvent  == [status |-> "null", msg |-> None]

\* The locals of one dispatch: the claim token and message id it works on,
\* the acceptance outcome and settlement it is recording, what follows the
\* settlement, and allow_recovered_explicit_not_sent.
NoJob    == [token |-> None, msg |-> None, acc |-> "null", stl |-> "null",
             then |-> "raise", tolerant |-> FALSE]

Obligations == [state : {"PENDING", "CLAIMED", "SETTLED"}, token : Ids,
                settlement : {"null", "POSITIVE_ACK", "OUTCOME_UNKNOWN"}]
Rows   == [state : {"NONE", "DISPATCHING", "DELIVERED", "FAILED"}, token : Ids,
           msg : Ids, acc : Outcomes \union {"null"},
           stl : Settlements \union {"null"}]
Events == [status : Outcomes \union {"null"}, msg : Ids]
Jobs   == [token : Ids, msg : Ids, acc : Outcomes \union {"null"},
           stl : Settlements \union {"null"},
           then : {"raise", "finalize", "mark"}, tolerant : BOOLEAN]

TypeOK ==
  /\ obl \in Obligations
  /\ row \in Rows
  /\ ledger \in [Tokens -> Events]
  /\ issued \in SUBSET Tokens
  /\ net \in SUBSET Tokens
  /\ accepted \in SUBSET Tokens
  /\ pc \in [Workers -> Labels]
  /\ job \in [Workers -> Jobs]
  /\ faults \in 0..MaxFaults

Init ==
  /\ obl = Pending          \* created with the product, in one transaction
  /\ row = NoRow
  /\ ledger = [t \in Tokens |-> NoEvent]
  /\ issued = {} /\ net = {} /\ accepted = {}
  /\ pc = [w \in Workers |-> "idle"]
  /\ job = [w \in Workers |-> NoJob]
  /\ faults = 0

-----------------------------------------------------------------------------
(* Moving a process through dispatch *)

Goto(w, label) == pc' = [pc EXCEPT ![w] = label]

Work(w, j, label) == job' = [job EXCEPT ![w] = j] /\ Goto(w, label)

\* dispatch returns a receipt or raises; its locals are gone either way.
Leave(w) == Work(w, NoJob, "idle")

\* The named step fails, or the process dies before it.
Fault == faults < MaxFaults /\ faults' = faults + 1

Start(w) ==
  /\ pc[w] = "idle" /\ Goto(w, "lookup")
  /\ UNCHANGED <<stores, issued, platform, job, faults>>

-----------------------------------------------------------------------------
(* Before the send *)

\* A DELIVERED row is replayed as an already-delivered receipt.
Lookup(w) ==
  /\ pc[w] = "lookup"
  /\ IF row.state = "DELIVERED" THEN Leave(w)
                                ELSE Goto(w, "recover") /\ UNCHANGED job
  /\ UNCHANGED <<stores, issued, platform, faults>>

\* Defect: a recovery reports every recorded send as accepted.
OutcomeOfAny(stl) == IF stl = "null" THEN "OUTCOME_UNKNOWN" ELSE "succeeded"

\* The acceptance outcome that belongs to a settlement.
OutcomeOf(stl) == IF stl = "POSITIVE_ACK" THEN "succeeded" ELSE "OUTCOME_UNKNOWN"

\* Defect: after settling an acknowledgement the recovery is done.
AfterSettlingAck(stl) == IF stl = "EXPLICIT_NOT_SENT" THEN "mark" ELSE "raise"

\* What follows a settlement when nothing goes wrong.
AfterSettling(stl) ==
  CASE stl = "POSITIVE_ACK"      -> "finalize"
    [] stl = "EXPLICIT_NOT_SENT" -> "mark"
    [] OTHER                     -> "raise"

\* Defect: only a row whose acceptance is recorded too can be recovered.
RecoverableAccepted ==
  /\ row.token # None /\ row.stl # "null"
  /\ row.stl = "POSITIVE_ACK" => row.msg # None
  /\ row.acc = OutcomeOf(row.stl)

\* A DISPATCHING row that records a settlement and nothing inconsistent.
Recoverable ==
  /\ row.token # None /\ row.stl # "null"
  /\ row.stl = "POSITIVE_ACK" => row.msg # None
  /\ row.acc \in {"null", OutcomeOf(row.stl)}

\* _recover_known_dispatch: read the row, and finish what it records from the
\* first stage that is not durable.  A row without a settlement may belong to
\* a live sender, and is left alone.
Recover(w) ==
  /\ pc[w] = "recover"
  /\ \/ row.state # "DISPATCHING" /\ Goto(w, "claim") /\ UNCHANGED job
     \/ row.state = "DISPATCHING" /\ ~Recoverable /\ Leave(w)
     \/ /\ row.state = "DISPATCHING" /\ Recoverable
        /\ Work(w, [token |-> row.token, msg |-> row.msg,
                    acc |-> OutcomeOf(row.stl), stl |-> row.stl,
                    then |-> AfterSettling(row.stl),
                    tolerant |-> /\ row.stl = "EXPLICIT_NOT_SENT"
                                 /\ row.acc # "null"],
                IF row.acc = "null" THEN "intent" ELSE "settle")
  /\ UNCHANGED <<stores, issued, platform, faults>>

\* Defect: a settled obligation can be claimed again.
ClaimSettled(w) ==
  /\ pc[w] = "claim" /\ obl.state # "CLAIMED"
  /\ \E t \in Tokens \ issued :
       /\ obl' = [state |-> "CLAIMED", token |-> t, settlement |-> "null"]
       /\ issued' = issued \union {t}
       /\ Work(w, [NoJob EXCEPT !.token = t], "stage")
  /\ UNCHANGED <<row, ledger, platform, faults>>

\* claim_delivery: PENDING -> CLAIMED under a token nobody has seen before.
Claim(w) ==
  /\ pc[w] = "claim" /\ obl.state = "PENDING"
  /\ \E t \in Tokens \ issued :
       /\ obl' = [state |-> "CLAIMED", token |-> t, settlement |-> "null"]
       /\ issued' = issued \union {t}
       /\ Work(w, [NoJob EXCEPT !.token = t], "stage")
  /\ UNCHANGED <<row, ledger, platform, faults>>

\* The obligation is not pending, or its store cannot be reached.
ClaimRefused(w) ==
  /\ pc[w] = "claim" /\ Leave(w)
  /\ UNCHANGED <<stores, issued, platform, faults>>

\* Settle the claim under `stl` and raise: no later stage follows.
Abandon(w, stl) == Work(w, [job[w] EXCEPT !.stl = stl, !.then = "raise"], "settle")

\* The outbox row is (re)written for this claim and nothing of an earlier
\* attempt is kept; if it was delivered meanwhile, a receipt is returned and
\* the claim stays as it is.
Stage(w) ==
  /\ pc[w] = "stage"
  /\ IF row.state = "DELIVERED"
       THEN Leave(w) /\ UNCHANGED row
       ELSE /\ row' = [NoRow EXCEPT !.state = "DISPATCHING",
                                   !.token = job[w].token]
            /\ Goto(w, "send") /\ UNCHANGED job
  /\ UNCHANGED <<obl, ledger, issued, platform, faults>>

\* The stored message is not the one rendered now (another renderer release).
StageConflict(w) ==
  /\ pc[w] = "stage" /\ row.state # "NONE" /\ Abandon(w, "EXPLICIT_NOT_SENT")
  /\ UNCHANGED <<stores, issued, platform, faults>>

StageFails(w) ==
  /\ pc[w] = "stage" /\ Fault /\ Abandon(w, "EXPLICIT_NOT_SENT")
  /\ UNCHANGED <<stores, issued, platform>>

-----------------------------------------------------------------------------
(* The send.  The platform may accept at any time after the command started, *)
(* also after the command timed out or its process died.                     *)

Send(w) ==
  /\ pc[w] = "send"
  /\ net' = net \union {job[w].token}
  /\ Goto(w, "await")
  /\ UNCHANGED <<stores, issued, accepted, job, faults>>

PlatformAccepts(t) ==
  /\ t \in net
  /\ net' = net \ {t}
  /\ accepted' = accepted \union {t}
  /\ UNCHANGED <<stores, issued, pc, job, faults>>

\* Success with a message id.
SendAcked(w) ==
  /\ pc[w] = "await" /\ job[w].token \in accepted
  /\ Work(w, [job[w] EXCEPT !.msg = job[w].token], "persist")
  /\ UNCHANGED <<stores, issued, platform, faults>>

\* Success without a message id.
SendAckedWithoutId(w) ==
  /\ pc[w] = "await" /\ job[w].token \in accepted
  /\ Work(w, [job[w] EXCEPT !.acc = "OUTCOME_UNKNOWN",
                            !.stl = "OUTCOME_UNKNOWN"], "intent")
  /\ UNCHANGED <<stores, issued, platform, faults>>

\* Return code 2: the platform did not and will not accept this send.
SendRefused(w) ==
  /\ pc[w] = "await" /\ job[w].token \in net
  /\ net' = net \ {job[w].token}
  /\ Work(w, [job[w] EXCEPT !.acc = "OUTCOME_UNKNOWN",
                            !.stl = "EXPLICIT_NOT_SENT", !.then = "mark"], "intent")
  /\ UNCHANGED <<stores, issued, accepted, faults>>

\* Defect: a send that timed out counts as not sent.
SendUnknownNotSent(w) ==
  /\ pc[w] = "await"
  /\ Work(w, [job[w] EXCEPT !.stl = "EXPLICIT_NOT_SENT"], "intent")
  /\ UNCHANGED <<stores, issued, platform, faults>>

\* Timeout, other return codes, unreadable output: nothing is known.  No
\* acceptance is recorded on this path (acc stays null).
SendUnknown(w) ==
  /\ pc[w] = "await"
  /\ Work(w, [job[w] EXCEPT !.stl = "OUTCOME_UNKNOWN"], "intent")
  /\ UNCHANGED <<stores, issued, platform, faults>>

-----------------------------------------------------------------------------
(* After the send: one store at a time *)

\* The row still belongs to the attempt this process works on.
Mine(w) ==
  row.state = "DISPATCHING" /\ row.token = job[w].token /\ row.msg = job[w].msg

CanPersist(w) ==
  /\ row.state = "DISPATCHING" /\ row.token = job[w].token
  /\ row.msg = None /\ row.acc = "null" /\ row.stl = "null"

\* _persist_message_id: message id and POSITIVE_ACK intent in one update.  A
\* failure fences the obligation as unknown, never to be sent again.
Persist(w) ==
  /\ pc[w] = "persist"
  /\ IF CanPersist(w)
       THEN /\ row' = [row EXCEPT !.msg = job[w].msg, !.stl = "POSITIVE_ACK"]
            /\ Work(w, [job[w] EXCEPT !.acc = "succeeded", !.stl = "POSITIVE_ACK",
                                      !.then = "finalize"], "intent")
       ELSE Abandon(w, "OUTCOME_UNKNOWN") /\ UNCHANGED row
  /\ UNCHANGED <<obl, ledger, issued, platform, faults>>

\* Defect: a failed store after the send is handled like one before it.
PersistFailsNotSent(w) ==
  /\ pc[w] = "persist" /\ Fault /\ Abandon(w, "EXPLICIT_NOT_SENT")
  /\ UNCHANGED <<stores, issued, platform>>

PersistFails(w) ==
  /\ pc[w] = "persist" /\ Fault /\ Abandon(w, "OUTCOME_UNKNOWN")
  /\ UNCHANGED <<stores, issued, platform>>

\* _record_settlement_intent.  The send that raised (acc null) settles next,
\* every other path records the platform's answer in the ledger first.
Intent(w) ==
  /\ pc[w] = "intent"
  /\ IF Mine(w) /\ row.stl \in {"null", job[w].stl}
       THEN /\ row' = [row EXCEPT !.stl = job[w].stl]
            /\ Goto(w, IF job[w].acc = "null" THEN "settle" ELSE "ledger")
            /\ UNCHANGED job
       ELSE Leave(w) /\ UNCHANGED row
  /\ UNCHANGED <<obl, ledger, issued, platform, faults>>

Event(w) == [status |-> job[w].acc, msg |-> job[w].msg]

\* The event id is derived from the claim token: the same fact may be
\* recorded again, another one conflicts.
LedgerAgrees(w) == ledger[job[w].token] \in {NoEvent, Event(w)}

RecordAcceptance(w) ==
  /\ pc[w] = "ledger" /\ LedgerAgrees(w)
  /\ ledger' = [ledger EXCEPT ![job[w].token] = Event(w)]
  /\ Goto(w, "outcome")
  /\ UNCHANGED <<obl, row, issued, platform, job, faults>>

RecordAcceptanceConflicts(w) ==
  /\ pc[w] = "ledger" /\ ~LedgerAgrees(w) /\ Goto(w, "replace")
  /\ UNCHANGED <<stores, issued, platform, job, faults>>

RecordAcceptanceFails(w) ==
  /\ pc[w] = "ledger" /\ Fault /\ Goto(w, "replace")
  /\ UNCHANGED <<stores, issued, platform, job>>

\* _replace_settlement_with_unknown, after the ledger could not be written.
Replace(w) ==
  /\ pc[w] = "replace"
  /\ IF Mine(w) /\ row.stl = job[w].stl /\ row.acc = "null"
       THEN /\ row' = [row EXCEPT !.stl = "OUTCOME_UNKNOWN"]
            /\ Work(w, [job[w] EXCEPT !.acc = "OUTCOME_UNKNOWN",
                                      !.stl = "OUTCOME_UNKNOWN",
                                      !.then = "raise"], "outcome")
       ELSE Leave(w) /\ UNCHANGED row
  /\ UNCHANGED <<obl, ledger, issued, platform, faults>>

\* The row as another process left it after finishing this same attempt.
Finished(w, state) ==
  row = [state |-> state, token |-> job[w].token, msg |-> job[w].msg,
         acc |-> job[w].acc, stl |-> job[w].stl]

\* _record_acceptance_outcome.
RecordOutcome(w) ==
  /\ pc[w] = "outcome"
  /\ \/ /\ Mine(w) /\ row.stl = job[w].stl /\ row.acc \in {"null", job[w].acc}
        /\ row' = [row EXCEPT !.acc = job[w].acc]
        /\ Goto(w, "settle") /\ UNCHANGED job
     \/ Finished(w, "DELIVERED") /\ Goto(w, "settle") /\ UNCHANGED <<row, job>>
     \/ /\ ~(Mine(w) /\ row.stl = job[w].stl /\ row.acc \in {"null", job[w].acc})
        /\ ~Finished(w, "DELIVERED")
        /\ Leave(w) /\ UNCHANGED row
  /\ UNCHANGED <<obl, ledger, issued, platform, faults>>

\* Defect: the reset for a retry keeps the settlement column.
SettledKept(t, stl) ==
  IF stl = "EXPLICIT_NOT_SENT"
    THEN [Pending EXCEPT !.settlement = stl]
    ELSE [state |-> "SETTLED", token |-> t, settlement |-> stl]

\* settle_delivery as the obligation store decides it.
Settled(t, stl) ==
  IF stl = "EXPLICIT_NOT_SENT"
    THEN Pending
    ELSE [state |-> "SETTLED", token |-> t, settlement |-> stl]

HoldsClaim(t)  == obl.state = "CLAIMED" /\ obl.token = t
SameTerminal(t, stl) ==
  obl = [state |-> "SETTLED", token |-> t, settlement |-> stl]

\* _settle: a settlement by the holder of the claim, the replay of the same
\* terminal settlement, or the one recovery where the claim is already gone.
Settle(w) ==
  /\ pc[w] = "settle"
  /\ LET t == job[w].token
         stl == job[w].stl
         next == IF job[w].then = "raise"
                   THEN Leave(w) ELSE Goto(w, job[w].then) /\ UNCHANGED job
     IN \/ HoldsClaim(t) /\ obl' = Settled(t, stl) /\ next
        \/ /\ SameTerminal(t, stl) \/ (job[w].tolerant /\ obl.state = "PENDING")
           /\ next /\ UNCHANGED obl
        \/ /\ ~HoldsClaim(t) /\ ~SameTerminal(t, stl)
           /\ ~(job[w].tolerant /\ obl.state = "PENDING")
           /\ Leave(w) /\ UNCHANGED obl
  /\ UNCHANGED <<row, ledger, issued, platform, faults>>

\* _finalize_positive_ack_binding.  A row another process finalized is as good.
Finalize(w) ==
  /\ pc[w] = "finalize"
  /\ row' = IF Mine(w) /\ row.acc = "succeeded" /\ row.stl = "POSITIVE_ACK"
              THEN [row EXCEPT !.state = "DELIVERED"] ELSE row
  /\ Leave(w)
  /\ UNCHANGED <<obl, ledger, issued, platform, faults>>

\* _mark_explicit_send_failure.
Mark(w) ==
  /\ pc[w] = "mark"
  /\ row' = IF /\ Mine(w) /\ row.acc = "OUTCOME_UNKNOWN"
               /\ row.stl = "EXPLICIT_NOT_SENT"
              THEN [row EXCEPT !.state = "FAILED"] ELSE row
  /\ Leave(w)
  /\ UNCHANGED <<obl, ledger, issued, platform, faults>>

-----------------------------------------------------------------------------

\* A process dies, or a store error reaches the top of dispatch.
Abort(w) ==
  /\ pc[w] # "idle" /\ Fault /\ Leave(w)
  /\ UNCHANGED <<stores, issued, platform>>

\* What a running dispatch does when nothing outside it fails.
Step(w) ==
  \/ Lookup(w) \/ Recover(w) \/ Claim(w) \/ ClaimRefused(w)
  \/ Stage(w) \/ StageConflict(w)
  \/ Send(w) \/ SendAcked(w) \/ SendAckedWithoutId(w)
  \/ SendRefused(w) \/ SendUnknown(w)
  \/ Persist(w) \/ Intent(w) \/ RecordAcceptance(w)
  \/ RecordAcceptanceConflicts(w) \/ Replace(w) \/ RecordOutcome(w)
  \/ Settle(w) \/ Finalize(w) \/ Mark(w)

\* Steps in which something outside dispatch fails.
FailStep(w) ==
  StageFails(w) \/ PersistFails(w) \/ RecordAcceptanceFails(w) \/ Abort(w)

Next ==
  \/ \E w \in Workers : Start(w) \/ Step(w) \/ FailStep(w)
  \/ \E t \in Tokens : PlatformAccepts(t)

Spec == Init /\ [][Next]_vars

\* A dispatch that runs keeps running, and the send command has a timeout.
\* Nothing is assumed of the platform, of faults, or of new dispatches.
FairSpec == Spec /\ \A w \in Workers : WF_vars(Step(w))

\* In addition some process dispatches this product again whenever it may.
RetrySpec == FairSpec /\ \A w \in Workers : WF_vars(Start(w))

-----------------------------------------------------------------------------
(* Safety *)

\* The platform never accepts two copies of one product, however many
\* processes dispatch it, crash, retry and recover (dispatch, _settle).
AtMostOnce == \A s, t \in accepted : s = t

\* While the obligation is PENDING, so that a retry may send again, no earlier
\* send was accepted or can still be accepted; otherwise the only send that
\* can have been is the one made under the obligation's own claim token.
NothingOutstandingWhenPending ==
  /\ obl.state = "PENDING" => net \union accepted = {}
  /\ net \union accepted \subseteq {obl.token}

\* From the claim to the answer of the send command the sender's claim is its
\* own: no recovery in another process settles or releases it
\* (_recover_known_dispatch leaves rows without a settlement alone).
SenderHoldsClaim ==
  \A w \in Workers : pc[w] \in {"stage", "send", "await"} => HoldsClaim(job[w].token)

\* A DELIVERED row, which a reply in the chat is resolved against, is backed by
\* all the other stores: the obligation is settled positively under the same
\* token, the ledger holds the platform's acceptance, and it was accepted.
DeliveredIsBacked ==
  row.state = "DELIVERED" =>
    /\ obl = [state |-> "SETTLED", token |-> row.token, settlement |-> "POSITIVE_ACK"]
    /\ ledger[row.token] = [status |-> "succeeded", msg |-> row.msg]
    /\ row.msg \in accepted

\* A positively settled obligation always keeps the row that binds its message
\* id, so that a crash before DELIVERED can still be finished by a recovery.
AckKeepsBinding ==
  (obl.state = "SETTLED" /\ obl.settlement = "POSITIVE_ACK") =>
    /\ row.state \in {"DISPATCHING", "DELIVERED"} /\ row.token = obl.token
    /\ row.msg # None /\ row.stl = "POSITIVE_ACK" /\ row.acc = "succeeded"

\* The ledger never reports an acceptance the platform did not make.
LedgerIsTruthful ==
  \A t \in Tokens : ledger[t].status = "succeeded" => t \in accepted

\* What the stores say of one another, though no transaction spans two of them.
StoresAgree == DeliveredIsBacked /\ AckKeepsBinding /\ LedgerIsTruthful

\* Re-staging overwrites the row of an earlier attempt only when that attempt
\* provably was not and will not be accepted: no evidence of a possible send
\* is lost (the UPDATE of the staging transaction).
EvidenceKept ==
  [][row'.token # row.token => row.token \notin net' \union accepted']_vars

-----------------------------------------------------------------------------
(* Liveness *)

\* With finitely many crashes and store failures and repeated dispatches, an
\* outcome recorded in the outbox reaches the obligation.
RecordedOutcomeSettles ==
  \A t \in Tokens :
    (row.state = "DISPATCHING" /\ row.token = t /\ row.stl # "null" /\ HoldsClaim(t))
      ~> ~HoldsClaim(t)

\* ... and a positive acknowledgement becomes a DELIVERED row, from which the
\* chat message can be resolved to its workspace.
AckIsBound ==
  (obl.state = "SETTLED" /\ obl.settlement = "POSITIVE_ACK") ~> row.state = "DELIVERED"

\* docs/design/daily-delivery.md: after a crash between the send and the
\* settlement, row and obligation are durable and the recovery aligns them.
CrashAfterSendRecovered ==
  \A t \in Tokens :
    (row.state = "DISPATCHING" /\ row.token = t /\ HoldsClaim(t) /\ t \in accepted)
      ~> ~HoldsClaim(t)

-----------------------------------------------------------------------------
(* Implementation of AtMostOnceDelivery *)

Phase ==
  IF obl.state = "PENDING" THEN "pending"
  ELSE IF obl.state = "CLAIMED" THEN "inDoubt"
  ELSE IF obl.settlement = "POSITIVE_ACK" THEN "acked" ELSE "unknown"

Abstract == INSTANCE AtMostOnceDelivery
              WITH Copies <- Tokens, phase <- Phase, copies <- accepted

\* The four stores and the processes together implement at-most-once delivery.
ImplementsAtMostOnce == Abstract!Spec
=============================================================================
