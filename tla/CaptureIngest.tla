---------------------------- MODULE CaptureIngest ---------------------------
(***************************************************************************)
(* Importing a capture artifact, and the publication of the working set.   *)
(* An ingest stages the artifact, claims it in the ledger, replays it into *)
(* the knowledge base under the run lease, freezes a publication plan,     *)
(* publishes the manifest, records the completion, and archives; it may    *)
(* stop anywhere and is started again until the stage is gone.  Live runs  *)
(* collect and publish too.  Those that hold the scheduler's handoff lock  *)
(* never run beside an ingest; the lock does not stop outsiders.           *)
(*                                                                         *)
(*   kb        the state of the sources the working set is made from       *)
(*   manifest  manifest.v1.json: when it was evaluated, of which sources   *)
(*   capture   rows of `capture_ingests`                                   *)
(*   stage     the artifact in staged/; archive: the files in consumed/    *)
(*             or rejected/                                                *)
(*   lease     whose run holds the lease (see CaptureLease)                *)
(*   ingest    the ingest process; live: processes of live runs            *)
(*                                                                         *)
(* A capture that failed on its own side is refused before it is staged,   *)
(* and is left out.                                                        *)
(***************************************************************************)
EXTENDS Integers, FiniteSets

CONSTANTS
  Artifacts, NoArtifact,
  Live, Outsiders,   \* live runs; those that do not take the handoff lock
  Ingest, Nobody, Dead,   \* other values of lease
  MaxLiveRuns, MaxSources, MaxTime, MaxFaults   \* bounds

ASSUME IngestAssumption ==
  /\ Outsiders \subseteq Live /\ NoArtifact \notin Artifacts
  /\ {Ingest, Nobody, Dead} \intersect Live = {}
  /\ {MaxLiveRuns, MaxSources, MaxFaults} \subseteq Nat /\ MaxTime \in Nat \ {0}

VARIABLES now, kb, manifest, capture, stage, archive, lease, ingest, live, faults

files  == <<stage, archive>>
vars   == <<now, kb, manifest, capture, files, lease, ingest, live, faults>>

Manifests  == [at : Nat, sources : Nat]
NoManifest == [at |-> 0, sources |-> 0]

\* A plan: publication_at, prior_manifest_identity, and what it expects to
\* publish.  A raw manifest is the only one of its time and sources.
Plans  == [at : Nat, prior : Manifests, sources : Nat]
NoPlan == [at |-> 0, prior |-> NoManifest, sources |-> 0]

Frozen(plan) == [at |-> plan.at, sources |-> plan.sources]

\* The phase of a row, in order; ended and run are the run of business_json,
\* runs counts those that were started, stored tells whether the replay is in
\* the knowledge base.
Phases == {"none", "CLAIMED", "BUSINESS_TERMINAL", "PUBLICATION_PREPARED", "COMPLETE"}
Ends   == {"none", "succeeded", "no_change", "failed"}

Captures == [phase : Phases, ended : Ends, runs : Nat, stored : BOOLEAN,
             plan : Plans, published : BOOLEAN]
NoCapture == [phase |-> "none", ended |-> "none", runs |-> 0, stored |-> FALSE,
              plan |-> NoPlan, published |-> FALSE]

IngestRows == [pc : {"idle", "claim", "business", "replay", "finish", "clock", "plan",
                     "publish", "complete", "raw", "marker", "remove"},
               art : Artifacts \union {NoArtifact}, at : Nat, published : BOOLEAN]
Stopped == [pc |-> "idle", art |-> NoArtifact, at |-> 0, published |-> FALSE]

LiveRows == [pc : {"idle", "collect", "clock", "plan", "publish"}, plan : Plans,
             runs : 0..MaxLiveRuns]
NotRun == [pc |-> "idle", plan |-> NoPlan, runs |-> 0]

Successful(a) == capture[a].ended \in {"succeeded", "no_change"}

\* A row has a business run exactly from its terminal on, and a plan exactly
\* when that run was successful and its publication was prepared.
TypeOK ==
  /\ now \in 1..MaxTime /\ kb \in Nat /\ faults \in 0..MaxFaults
  /\ manifest \in Manifests
  /\ capture \in [Artifacts -> Captures]
  /\ stage \in Artifacts \union {NoArtifact}
  /\ archive \in [Artifacts -> SUBSET {"artifact", "marker"}]
  /\ lease \in Live \union {Ingest, Nobody, Dead}
  /\ ingest \in IngestRows /\ live \in [Live -> LiveRows]
  /\ \A a \in Artifacts :
       /\ capture[a].ended = "none" <=> capture[a].phase \in {"none", "CLAIMED"}
       /\ capture[a].plan # NoPlan <=>
            \/ capture[a].phase = "PUBLICATION_PREPARED"
            \/ capture[a].phase = "COMPLETE" /\ Successful(a)

Init ==
  /\ now = 1 /\ kb = 1 /\ faults = 0
  /\ manifest = NoManifest
  /\ capture = [a \in Artifacts |-> NoCapture]
  /\ stage = NoArtifact /\ archive = [a \in Artifacts |-> {}]
  /\ lease = Nobody
  /\ ingest = Stopped /\ live = [l \in Live |-> NotRun]

-----------------------------------------------------------------------------
(* Publication: compare_and_publish, one writer at a time under its flock *)

\* Defect: the prior manifest alone is compared.
InOrderByPrior(plan) == kb = plan.sources /\ manifest = plan.prior

\* No newer manifest, no drift of the sources, no other manifest than the one
\* the plan was made against.
InOrder(plan) ==
  manifest.at <= plan.at /\ kb = plan.sources /\ manifest = plan.prior

Already(plan) == manifest = Frozen(plan) /\ kb = plan.sources

Publishable(plan) == InOrder(plan) \/ Already(plan)

\* prepare_publication reads its clock, then the manifest, then the sources.
Prepared(t) == [at |-> t, prior |-> manifest, sources |-> kb]

-----------------------------------------------------------------------------
(* The ingest *)

Goto(label) == ingest' = [ingest EXCEPT !.pc = label]
Stop        == ingest' = Stopped

Row == capture[ingest.art]
SetRow(row) == capture' = [capture EXCEPT ![ingest.art] = row]

\* main takes the handoff lock alone; a stage that is left is taken up before
\* a new artifact is staged (_discover_staged_artifact,
\* _stage_validated_artifact).
Start(a) ==
  /\ ingest.pc = "idle"
  /\ \A l \in Live \ Outsiders : live[l].pc = "idle"
  /\ stage \in {NoArtifact, a} /\ stage' = a
  /\ ingest' = [Stopped EXCEPT !.pc = "claim", !.art = a]
  /\ UNCHANGED <<now, kb, manifest, capture, archive, lease, live, faults>>

\* Only a run that succeeded, with or without a change, is published.
AfterBusiness(end) == IF end = "failed" THEN "complete" ELSE "clock"

\* Defect: only a completed row is taken up where it stands.
NextStepRunAgain(row) ==
  IF row.phase = "COMPLETE" THEN "raw" ELSE "business"

\* Where an invocation goes on with a row.
NextStep(row) ==
  CASE row.phase \in {"none", "CLAIMED"} -> "business"
    [] row.phase = "BUSINESS_TERMINAL" -> AfterBusiness(row.ended)
    [] row.phase = "PUBLICATION_PREPARED" -> "publish"
    [] row.phase = "COMPLETE" -> "raw"

\* claim_capture_ingest creates the row or reads it.
Claim ==
  /\ ingest.pc = "claim"
  /\ SetRow(IF Row.phase = "none" THEN [Row EXCEPT !.phase = "CLAIMED"] ELSE Row)
  /\ Goto(NextStep(Row))
  /\ UNCHANGED <<now, kb, manifest, files, lease, live, faults>>

\* _run_capture: under another's lease the ingest returns coalesced.
StartRun ==
  /\ ingest.pc = "business"
  /\ \/ /\ lease = Nobody /\ lease' = Ingest /\ Goto("replay")
        /\ SetRow([Row EXCEPT !.runs = @ + 1])
     \/ /\ lease # Nobody /\ Stop /\ UNCHANGED <<lease, capture>>
  /\ UNCHANGED <<now, kb, manifest, files, live, faults>>

\* The replay writes what the knowledge base does not have yet.
Replay ==
  /\ ingest.pc = "replay" /\ Goto("finish")
  /\ kb' = IF Row.stored THEN kb ELSE kb + 1
  /\ SetRow([Row EXCEPT !.stored = TRUE])
  /\ UNCHANGED <<now, manifest, files, lease, live, faults>>

\* finish_capture_business: the run and the row end in one transaction, unless
\* the lease was lost; a replay that raised ends as failed.
FinishBusiness(end) ==
  /\ ingest.pc \in {"replay", "finish"}
  /\ ingest.pc = "replay" => end = "failed"
  /\ IF lease = Ingest
       THEN /\ lease' = Nobody
            /\ SetRow([Row EXCEPT !.phase = "BUSINESS_TERMINAL", !.ended = end])
            /\ Goto(AfterBusiness(end))
       ELSE Stop /\ UNCHANGED <<lease, capture>>
  /\ UNCHANGED <<now, kb, manifest, files, live, faults>>

ReadClock ==
  /\ ingest.pc = "clock"
  /\ ingest' = [ingest EXCEPT !.pc = "plan", !.at = now]
  /\ UNCHANGED <<now, kb, manifest, capture, files, lease, live, faults>>

\* prepare_publication and prepare_capture_publication: the plan is frozen in
\* the ledger before anything is published.
PreparePublication ==
  /\ ingest.pc = "plan" /\ Goto("publish")
  /\ SetRow([Row EXCEPT !.phase = "PUBLICATION_PREPARED", !.plan = Prepared(ingest.at)])
  /\ UNCHANGED <<now, kb, manifest, files, lease, live, faults>>

\* A plan that is refused is not published; the ingest goes on all the same.
Publish ==
  /\ ingest.pc = "publish"
  /\ manifest' = IF Publishable(Row.plan) THEN Frozen(Row.plan) ELSE manifest
  /\ ingest' = [ingest EXCEPT !.pc = "complete", !.published = Publishable(Row.plan)]
  /\ UNCHANGED <<now, kb, capture, files, lease, live, faults>>

\* The publication raises, before or after the new manifest is in place: it
\* is reported as not published.
PublishRaises ==
  /\ ingest.pc = "publish" /\ faults < MaxFaults /\ faults' = faults + 1
  /\ \/ UNCHANGED manifest
     \/ InOrder(Row.plan) /\ manifest' = Frozen(Row.plan)
  /\ ingest' = [ingest EXCEPT !.pc = "complete", !.published = FALSE]
  /\ UNCHANGED <<now, kb, capture, files, lease, live>>

\* Defect: a completion needs a plan.
CompletePrepared ==
  /\ ingest.pc = "complete"
  /\ IF /\ Row.phase = "PUBLICATION_PREPARED"
        /\ ingest.published => manifest = Frozen(Row.plan)
       THEN /\ SetRow([Row EXCEPT !.phase = "COMPLETE", !.published = ingest.published])
            /\ Goto("raw")
       ELSE Stop /\ UNCHANGED capture
  /\ UNCHANGED <<now, kb, manifest, files, lease, live, faults>>

\* complete_capture_ingest: a receipt that says published must still be true
\* of the manifest (_validate_capture_g_publication_owner); otherwise this
\* invocation ends in an error and a later one finds the plan refused.
Complete ==
  /\ ingest.pc = "complete"
  /\ IF ingest.published => manifest = Frozen(Row.plan)
       THEN /\ SetRow([Row EXCEPT !.phase = "COMPLETE", !.published = ingest.published])
            /\ Goto("raw")
       ELSE Stop /\ UNCHANGED capture
  /\ UNCHANGED <<now, kb, manifest, files, lease, live, faults>>

Archive(file, next) ==
  /\ archive' = [archive EXCEPT ![ingest.art] = @ \union {file}] /\ Goto(next)
  /\ UNCHANGED <<now, kb, manifest, capture, stage, lease, live, faults>>

\* Defect: the stage is removed once the artifact is archived.
ArchiveRawLast ==
  /\ ingest.pc = "raw" /\ Goto("marker") /\ stage' = NoArtifact
  /\ archive' = [archive EXCEPT ![ingest.art] = @ \union {"artifact"}]
  /\ UNCHANGED <<now, kb, manifest, capture, lease, live, faults>>

\* _publish_completion_archive: the artifact, its marker, and when both are
\* exact the stage goes.
ArchiveRaw    == ingest.pc = "raw" /\ Archive("artifact", "marker")
ArchiveMarker == ingest.pc = "marker" /\ Archive("marker", "remove")

RemoveStage ==
  /\ ingest.pc = "remove" /\ Stop /\ stage' = NoArtifact
  /\ UNCHANGED <<now, kb, manifest, capture, archive, lease, live, faults>>

\* The ingest dies, or an error ends it; a lease it held is left behind.
Crash ==
  /\ ingest.pc # "idle" /\ faults < MaxFaults /\ faults' = faults + 1 /\ Stop
  /\ lease' = IF lease = Ingest THEN Dead ELSE lease
  /\ UNCHANGED <<now, kb, manifest, capture, files, live>>

-----------------------------------------------------------------------------
(* Live runs: _run_once_with_adapter *)

SetLive(l, pc, plan) == live' = [live EXCEPT ![l].pc = pc, ![l].plan = plan]

\* A run under the shared handoff lock waits for no ingest: it gives up.
LiveStart(l) ==
  /\ live[l].pc = "idle" /\ (l \in Outsiders \/ ingest.pc = "idle")
  /\ lease = Nobody /\ lease' = l
  /\ live[l].runs < MaxLiveRuns
  /\ live' = [live EXCEPT ![l] = [NotRun EXCEPT !.pc = "collect", !.runs = live[l].runs + 1]]
  /\ UNCHANGED <<now, kb, manifest, capture, files, ingest, faults>>

\* A run that collected goes on to publish, also without a change; one that
\* failed, or lost its lease, does not.
LiveCollect(l, changed, ok) ==
  /\ live[l].pc = "collect"
  /\ kb' = IF changed THEN kb + 1 ELSE kb
  /\ kb' + Cardinality({a \in Artifacts : ~capture[a].stored}) <= MaxSources
  /\ lease' = IF lease = l THEN Nobody ELSE lease
  /\ SetLive(l, IF ok /\ lease = l THEN "clock" ELSE "idle", NoPlan)
  /\ UNCHANGED <<now, manifest, capture, files, ingest, faults>>

LiveReadClock(l) ==
  /\ live[l].pc = "clock"
  /\ SetLive(l, "plan", [NoPlan EXCEPT !.at = now])
  /\ UNCHANGED <<now, kb, manifest, capture, files, lease, ingest, faults>>

LivePlan(l) ==
  /\ live[l].pc = "plan"
  /\ SetLive(l, "publish", Prepared(live[l].plan.at))
  /\ UNCHANGED <<now, kb, manifest, capture, files, lease, ingest, faults>>

LivePublish(l) ==
  /\ live[l].pc = "publish" /\ SetLive(l, "idle", NoPlan)
  /\ manifest' = IF Publishable(live[l].plan) THEN Frozen(live[l].plan) ELSE manifest
  /\ UNCHANGED <<now, kb, capture, files, lease, ingest, faults>>

LiveCrash(l) ==
  /\ live[l].pc # "idle" /\ faults < MaxFaults /\ faults' = faults + 1
  /\ SetLive(l, "idle", NoPlan) /\ lease' = IF lease = l THEN Dead ELSE lease
  /\ UNCHANGED <<now, kb, manifest, capture, files, ingest>>

-----------------------------------------------------------------------------

\* The lease of a dead run is taken over by whoever comes after it is stale.
LeaseExpires ==
  /\ lease = Dead /\ lease' = Nobody
  /\ UNCHANGED <<now, kb, manifest, capture, files, ingest, live, faults>>

\* A run that did not renew its lease loses it to a probe.
LeaseIsTaken ==
  /\ lease \in Live \union {Ingest} /\ lease' = Nobody
  /\ faults < MaxFaults /\ faults' = faults + 1
  /\ UNCHANGED <<now, kb, manifest, capture, files, ingest, live>>

Tick == /\ now < MaxTime /\ now' = now + 1
        /\ UNCHANGED <<kb, manifest, capture, files, lease, ingest, live, faults>>

IngestStep ==
  \/ \E a \in Artifacts : Start(a)
  \/ Claim \/ StartRun \/ Replay \/ ReadClock \/ PreparePublication
  \/ \E end \in Ends \ {"none"} : FinishBusiness(end)
  \/ Publish \/ Complete \/ ArchiveRaw \/ ArchiveMarker \/ RemoveStage

LiveStep(l) ==
  \/ \E changed, ok \in BOOLEAN : LiveCollect(l, changed, ok)
  \/ LiveReadClock(l) \/ LivePlan(l) \/ LivePublish(l)

Next ==
  \/ IngestStep \/ PublishRaises \/ Crash
  \/ \E l \in Live : LiveStart(l) \/ LiveStep(l) \/ LiveCrash(l)
  \/ LeaseExpires \/ LeaseIsTaken \/ Tick

Spec == Init /\ [][Next]_vars

\* The ingest is started again until the stage is gone, live runs end, and a
\* dead lease is taken over once it is stale.
FairSpec ==
  /\ Spec /\ WF_vars(IngestStep) /\ WF_vars(LeaseExpires)
  /\ \A l \in Live : WF_vars(LiveStep(l))

-----------------------------------------------------------------------------
(* Properties *)

\* The manifest never goes back, neither in time nor to sources that were
\* already replaced, although every publisher reads its clock, the manifest
\* and the sources before it gets the lock (compare_and_publish).
ManifestMovesForward ==
  [][manifest' # manifest =>
       manifest'.at >= manifest.at /\ manifest'.sources >= manifest.sources]_vars

\* A capture has one business run that counts: once that is terminal, no crash
\* or restart starts another, the plan made for it stays what it is, and its
\* completion is never rewritten.
BusinessIsSettled ==
  [][\A a \in Artifacts :
       /\ capture[a].ended # "none" =>
            capture'[a].ended = capture[a].ended /\ capture'[a].runs = capture[a].runs
       /\ capture[a].plan # NoPlan => capture'[a].plan = capture[a].plan
       /\ capture[a].phase = "COMPLETE" => capture'[a] = capture[a]]_vars

\* A capture that was claimed is staged until its completion is recorded and
\* its archive is whole: wherever an ingest stops, the next one can go on; and
\* nothing is archived before the ledger says how it ended.
NothingIsLost ==
  \A a \in Artifacts :
    /\ capture[a].phase # "none" =>
         stage = a \/ archive[a] = {"artifact", "marker"}
    /\ archive[a] # {} => capture[a].phase = "COMPLETE"

\* A capture that was claimed is completed and archived in the end.
EveryCaptureEnds ==
  \A a \in Artifacts :
    capture[a].phase # "none" ~> /\ capture[a].phase = "COMPLETE"
                                 /\ archive[a] = {"artifact", "marker"}
                                 /\ stage # a

=============================================================================
