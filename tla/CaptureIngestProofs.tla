------------------------- MODULE CaptureIngestProofs ------------------------
(***************************************************************************)
(* Proofs about CaptureIngest for any number of artifacts, live runs,      *)
(* faults and restarts.  The invariant ties the ingest process to the row  *)
(* it works on: each label is reached only in the phase that allows its    *)
(* step, whether the invocation got there step by step or took up a row    *)
(* that an earlier one left behind.                                        *)
(***************************************************************************)
EXTENDS CaptureIngest, TLAPS

\* The row and the files each label of an ingest is reached with.
Fits(i, row, archived) ==
  /\ i.pc \in {"business", "replay", "finish"} => row.phase = "CLAIMED"
  /\ i.pc \in {"clock", "plan"} =>
       row.phase = "BUSINESS_TERMINAL" /\ row.ended \in {"succeeded", "no_change"}
  /\ i.pc = "plan" => i.at > 0
  /\ i.pc = "publish" => row.phase = "PUBLICATION_PREPARED"
  /\ i.pc = "complete" =>
       \/ row.phase = "BUSINESS_TERMINAL" /\ row.ended = "failed"
       \/ row.phase = "PUBLICATION_PREPARED"
  /\ i.pc \in {"raw", "marker", "remove"} => row.phase = "COMPLETE"
  /\ i.pc \in {"marker", "remove"} => "artifact" \in archived
  /\ i.pc = "remove" => "marker" \in archived

PcFitsPhase ==
  ingest.pc # "idle" =>
    /\ ingest.art \in Artifacts /\ stage = ingest.art
    /\ Fits(ingest, Row, archive[ingest.art])

\* What TypeOK says of one row.
Wellformed(row) ==
  /\ row.ended = "none" <=> row.phase \in {"none", "CLAIMED"}
  /\ row.plan # NoPlan <=>
       \/ row.phase = "PUBLICATION_PREPARED"
       \/ row.phase = "COMPLETE" /\ row.ended \in {"succeeded", "no_change"}

\* Only runs that succeeded are published.
PlannedIsSuccess(row) ==
  row.phase = "PUBLICATION_PREPARED" => row.ended \in {"succeeded", "no_change"}
PlansAreOfSuccess == \A a \in Artifacts : PlannedIsSuccess(capture[a])

ManifestIsOld == manifest.sources <= kb

IInv ==
  TypeOK /\ PcFitsPhase /\ PlansAreOfSuccess /\ ManifestIsOld /\ NothingIsLost

-----------------------------------------------------------------------------
(* What the steps are built from *)

LEMMA ConstantFacts ==
  /\ MaxLiveRuns \in Nat /\ MaxSources \in Nat /\ MaxTime \in Nat \ {0}
  /\ MaxFaults \in Nat /\ NoArtifact \notin Artifacts
  BY IngestAssumption

LEMMA InitIInv == Init => IInv
<1> SUFFICES ASSUME Init PROVE IInv
  OBVIOUS
<1>1. TypeOK
  BY ConstantFacts DEF Init, TypeOK, Manifests, NoManifest, Captures, NoCapture, Phases,
     Ends, Plans, NoPlan, IngestRows, Stopped, LiveRows, NotRun, Successful
<1> QED
  BY <1>1, ConstantFacts DEF Init, IInv, PcFitsPhase, PlansAreOfSuccess, PlannedIsSuccess, ManifestIsOld,
     NothingIsLost, NoManifest, NoCapture, Stopped

LEMMA PreparedType ==
  ASSUME TypeOK, NEW t \in Nat
  PROVE  Prepared(t) \in Plans /\ (t > 0 => Prepared(t) # NoPlan)
  BY DEF TypeOK, Prepared, Plans, NoPlan

LEMMA FrozenType ==
  ASSUME NEW plan \in Plans
  PROVE  Frozen(plan) \in Manifests /\ Frozen(plan).sources = plan.sources
           /\ Frozen(plan).at = plan.at
  BY DEF Frozen, Plans, Manifests

\* What a publisher leaves of the manifest, whatever its plan.
LEMMA PublishedFacts ==
  ASSUME TypeOK, ManifestIsOld, NEW plan \in Plans, Publishable(plan),
         manifest' = Frozen(plan)
  PROVE  /\ manifest' \in Manifests /\ manifest'.sources <= kb
         /\ manifest'.at >= manifest.at /\ manifest'.sources >= manifest.sources
<1>1. manifest' \in Manifests /\ manifest'.sources = plan.sources /\ manifest'.at = plan.at
  BY FrozenType
<1>2. manifest.at \in Nat /\ manifest.sources \in Nat /\ kb \in Nat
  BY DEF TypeOK, Manifests
<1>3. CASE InOrder(plan)
  BY <1>1, <1>2, <1>3 DEF InOrder, ManifestIsOld
<1>4. CASE Already(plan)
  BY <1>1, <1>2, <1>4 DEF Already
<1> QED
  BY <1>3, <1>4 DEF Publishable

\* The manifest and the knowledge base after a step.
Published ==
  /\ manifest' \in Manifests /\ kb' \in Nat /\ manifest'.sources <= kb'

LEMMA UntouchedManifest ==
  ASSUME IInv, kb' \in {kb, kb + 1}, manifest' = manifest
  PROVE  Published
<1>1. manifest \in Manifests /\ manifest.sources \in Nat /\ kb \in Nat
  BY DEF IInv, TypeOK, Manifests
<1> QED
  BY <1>1 DEF Published, IInv, ManifestIsOld

\* What a step keeps that is not about the ingest and its row.
OtherTypes ==
  /\ now' \in 1..MaxTime /\ faults' \in 0..MaxFaults
  /\ lease' \in Live \union {Ingest, Nobody, Dead}
  /\ live' \in [Live -> LiveRows]
  /\ Published

\* A step of something else than the ingest.
LEMMA ElsewhereStep ==
  ASSUME IInv, OtherTypes, UNCHANGED <<capture, files, ingest>>
  PROVE  IInv'
<1>1. TypeOK'
  BY DEF IInv, TypeOK, OtherTypes, Published, files, Successful
<1> QED
  BY <1>1 DEF IInv, PcFitsPhase, PlansAreOfSuccess, ManifestIsOld, NothingIsLost,
     OtherTypes, Published, files, Row, Successful

\* The invocation ends, and leaves the row and the files as they are.
LEMMA StopStep ==
  ASSUME IInv, OtherTypes, Stop, UNCHANGED <<capture, files>>
  PROVE  IInv'
<1>1. Stopped \in IngestRows
  BY DEF Stopped, IngestRows
<1>2. TypeOK'
  BY <1>1 DEF IInv, TypeOK, OtherTypes, Published, files, Stop, Successful
<1> QED
  BY <1>2 DEF IInv, PcFitsPhase, PlansAreOfSuccess, ManifestIsOld, NothingIsLost,
     OtherTypes, Published, files, Stop, Stopped, Successful

LEMMA WorkFacts ==
  ASSUME IInv, ingest.pc # "idle"
  PROVE  /\ ingest \in IngestRows /\ ingest.art \in Artifacts /\ stage = ingest.art
         /\ Row = capture[ingest.art] /\ Row \in Captures
         /\ Wellformed(Row) /\ PlannedIsSuccess(Row)
         /\ Fits(ingest, Row, archive[ingest.art])
  BY DEF IInv, TypeOK, PcFitsPhase, Row, Wellformed, Successful, PlansAreOfSuccess

LEMMA GotoFacts ==
  ASSUME IInv, NEW l \in {"idle", "claim", "business", "replay", "finish", "clock",
                         "plan", "publish", "complete", "raw", "marker", "remove"},
         Goto(l)
  PROVE  ingest' \in IngestRows /\ ingest'.pc = l /\ ingest'.art = ingest.art
  BY DEF IInv, TypeOK, Goto, IngestRows

LEMMA StopFacts ==
  ASSUME Stop
  PROVE  ingest' \in IngestRows /\ ingest'.pc = "idle"
  BY DEF Stop, Stopped, IngestRows

\* A step of the ingest that writes its row, or writes it as it is.
LEMMA RowStep ==
  ASSUME IInv, ingest.pc # "idle", OtherTypes, UNCHANGED files,
         NEW row \in Captures, SetRow(row), Wellformed(row), PlannedIsSuccess(row),
         Row.phase = "COMPLETE" => row.phase = "COMPLETE",
         ingest' \in IngestRows,
         ingest'.pc # "idle" =>
           ingest'.art = ingest.art /\ Fits(ingest', row, archive[ingest.art])
  PROVE  IInv'
<1> DEFINE a == ingest.art
<1>1. /\ a \in Artifacts /\ stage = a /\ Row = capture[a]
      /\ capture \in [Artifacts -> Captures]
  BY WorkFacts DEF IInv, TypeOK
<1>2. /\ capture' \in [Artifacts -> Captures] /\ capture'[a] = row
      /\ \A b \in Artifacts : b # a => capture'[b] = capture[b]
  BY <1>1 DEF SetRow
<1>3. TypeOK'
  BY <1>2 DEF IInv, TypeOK, OtherTypes, Published, files, Successful, Wellformed
<1>4. PcFitsPhase'
  BY <1>1, <1>2 DEF PcFitsPhase, Row, files
<1>5. PlansAreOfSuccess'
  BY <1>2 DEF IInv, PlansAreOfSuccess
<1>6. NothingIsLost'
  BY <1>1, <1>2 DEF IInv, NothingIsLost, files
<1> QED
  BY <1>3, <1>4, <1>5, <1>6 DEF IInv, OtherTypes, Published, ManifestIsOld

\* A step of the ingest that leaves the row alone.
LEMMA MoveStep ==
  ASSUME IInv, ingest.pc # "idle", OtherTypes, UNCHANGED <<capture, files>>,
         ingest' \in IngestRows,
         ingest'.pc # "idle" =>
           ingest'.art = ingest.art /\ Fits(ingest', Row, archive[ingest.art])
  PROVE  IInv'
<1>1. SetRow(Row)
  BY WorkFacts DEF SetRow, IInv, TypeOK
<1> QED
  BY <1>1, WorkFacts, RowStep

-----------------------------------------------------------------------------
(* The steps of the ingest *)

\* Where an invocation takes up a row, the row allows the step.
LEMMA NextStepFits ==
  ASSUME NEW row \in Captures, Wellformed(row), PlannedIsSuccess(row)
  PROVE  /\ NextStep(row) \in {"business", "clock", "complete", "publish", "raw"}
         /\ NextStep(row) = "business" => row.phase \in {"none", "CLAIMED"}
         /\ NextStep(row) = "clock" =>
              row.phase = "BUSINESS_TERMINAL" /\ row.ended \in {"succeeded", "no_change"}
         /\ NextStep(row) = "complete" =>
              row.phase = "BUSINESS_TERMINAL" /\ row.ended = "failed"
         /\ NextStep(row) = "publish" => row.phase = "PUBLICATION_PREPARED"
         /\ NextStep(row) = "raw" => row.phase = "COMPLETE"
<1>1. row.phase \in Phases /\ row.ended \in Ends
  BY DEF Captures
<1>2. row.phase = "BUSINESS_TERMINAL" => row.ended # "none"
  BY DEF Wellformed
<1> QED
  BY <1>1, <1>2 DEF NextStep, AfterBusiness, Phases, Ends

LEMMA ClaimStep ==
  ASSUME IInv, Claim
  PROVE  IInv'
<1> DEFINE row == IF Row.phase = "none" THEN [Row EXCEPT !.phase = "CLAIMED"] ELSE Row
<1>1. ingest.pc # "idle" /\ OtherTypes /\ UNCHANGED files /\ SetRow(row)
        /\ Goto(NextStep(Row))
  BY UntouchedManifest DEF Claim, OtherTypes, IInv, TypeOK
<1>2. /\ row \in Captures /\ Wellformed(row) /\ PlannedIsSuccess(row)
      /\ Row.phase = "none" => row.phase = "CLAIMED"
      /\ Row.phase # "none" => row = Row
  BY <1>1, WorkFacts DEF Captures, Phases, Wellformed, PlannedIsSuccess
<1> HIDE DEF row
<1>3. ingest' \in IngestRows /\ ingest'.pc = NextStep(Row) /\ ingest'.art = ingest.art
  BY <1>1, GotoFacts, NextStepFits, WorkFacts
<1>4. Fits(ingest', row, archive[ingest.art])
  BY <1>1, <1>2, <1>3, NextStepFits, WorkFacts DEF Fits
<1> QED
  BY <1>1, <1>2, <1>3, <1>4, RowStep

LEMMA StartStep ==
  ASSUME IInv, NEW a \in Artifacts, Start(a)
  PROVE  IInv'
<1>1. OtherTypes /\ UNCHANGED <<capture, archive>> /\ stage' = a
  BY UntouchedManifest DEF Start, OtherTypes, IInv, TypeOK
<1>2. ingest' \in IngestRows /\ ingest'.pc = "claim" /\ ingest'.art = a
  BY DEF Start, Stopped, IngestRows
<1>3. TypeOK'
  BY <1>1, <1>2 DEF IInv, TypeOK, OtherTypes, Published, Successful
<1>4. PcFitsPhase'
  BY <1>1, <1>2 DEF PcFitsPhase, Fits
<1>5. NothingIsLost'
  BY <1>1, ConstantFacts DEF Start, IInv, NothingIsLost
<1> QED
  BY <1>1, <1>3, <1>4, <1>5 DEF IInv, OtherTypes, Published, ManifestIsOld, PlansAreOfSuccess

LEMMA StartRunStep ==
  ASSUME IInv, StartRun
  PROVE  IInv'
<1>1. ingest.pc = "business" /\ OtherTypes /\ UNCHANGED files
  BY UntouchedManifest DEF StartRun, OtherTypes, IInv, TypeOK
<1>2. CASE Goto("replay") /\ SetRow([Row EXCEPT !.runs = @ + 1])
  <2> DEFINE row == [Row EXCEPT !.runs = @ + 1]
  <2>1. row \in Captures /\ Wellformed(row) /\ PlannedIsSuccess(row) /\ row.phase = Row.phase
    BY <1>1, WorkFacts DEF Captures, Wellformed, PlannedIsSuccess
  <2>2. SetRow(row)
    BY <1>2
  <2> HIDE DEF row
  <2>3. Fits(ingest', row, archive[ingest.art])
    BY <1>1, <1>2, <2>1, GotoFacts, WorkFacts DEF Fits
  <2> QED
    BY <1>1, <1>2, <2>1, <2>2, <2>3, GotoFacts, RowStep
<1>3. CASE Stop /\ UNCHANGED capture
  BY <1>1, <1>3, StopStep
<1> QED
  BY <1>2, <1>3 DEF StartRun

LEMMA ReplayStep ==
  ASSUME IInv, Replay
  PROVE  IInv'
<1> DEFINE row == [Row EXCEPT !.stored = TRUE]
<1>1. ingest.pc = "replay" /\ OtherTypes /\ UNCHANGED files /\ SetRow(row) /\ Goto("finish")
  BY UntouchedManifest DEF Replay, OtherTypes, IInv, TypeOK
<1>2. row \in Captures /\ Wellformed(row) /\ PlannedIsSuccess(row) /\ row.phase = Row.phase
  BY <1>1, WorkFacts DEF Captures, Wellformed, PlannedIsSuccess
<1> HIDE DEF row
<1>3. Fits(ingest', row, archive[ingest.art])
  BY <1>1, <1>2, GotoFacts, WorkFacts DEF Fits
<1> QED
  BY <1>1, <1>2, <1>3, GotoFacts, RowStep

LEMMA FinishStep ==
  ASSUME IInv, NEW end \in Ends \ {"none"}, FinishBusiness(end)
  PROVE  IInv'
<1>1. ingest.pc \in {"replay", "finish"} /\ OtherTypes /\ UNCHANGED files
  BY UntouchedManifest DEF FinishBusiness, OtherTypes, IInv, TypeOK
<1>2. CASE lease = Ingest
  <2> DEFINE row == [Row EXCEPT !.phase = "BUSINESS_TERMINAL", !.ended = end]
  <2>1. SetRow(row) /\ Goto(AfterBusiness(end))
    BY <1>2 DEF FinishBusiness
  <2>2. /\ row \in Captures /\ Wellformed(row) /\ PlannedIsSuccess(row)
        /\ row.phase = "BUSINESS_TERMINAL" /\ row.ended = end /\ Row.phase = "CLAIMED"
    BY <1>1, WorkFacts DEF Captures, Phases, Ends, Wellformed, PlannedIsSuccess, Fits
  <2> HIDE DEF row
  <2>3. Fits(ingest', row, archive[ingest.art])
    BY <2>1, <2>2, GotoFacts DEF Fits, AfterBusiness, Ends
  <2> QED
    BY <1>1, <2>1, <2>2, <2>3, GotoFacts, RowStep DEF AfterBusiness
<1>3. CASE lease # Ingest
  BY <1>1, <1>3, StopStep DEF FinishBusiness
<1> QED
  BY <1>2, <1>3

LEMMA ReadClockStep ==
  ASSUME IInv, ReadClock
  PROVE  IInv'
<1>1. ingest.pc = "clock" /\ OtherTypes /\ UNCHANGED <<capture, files>>
  BY UntouchedManifest DEF ReadClock, OtherTypes, IInv, TypeOK
<1>2. ingest' \in IngestRows /\ ingest'.pc = "plan" /\ ingest'.art = ingest.art /\ ingest'.at > 0
  <2>1. ingest \in IngestRows /\ now \in Nat /\ now > 0
    BY ConstantFacts DEF IInv, TypeOK
  <2> QED
    BY <2>1 DEF ReadClock, IngestRows
<1> QED
  BY <1>1, <1>2, WorkFacts, MoveStep DEF Fits

LEMMA PreparePublicationStep ==
  ASSUME IInv, PreparePublication
  PROVE  IInv'
<1> DEFINE row == [Row EXCEPT !.phase = "PUBLICATION_PREPARED", !.plan = Prepared(ingest.at)]
<1>1. ingest.pc = "plan" /\ OtherTypes /\ UNCHANGED files /\ SetRow(row) /\ Goto("publish")
  BY UntouchedManifest DEF PreparePublication, OtherTypes, IInv, TypeOK
<1>2. Prepared(ingest.at) \in Plans \ {NoPlan}
  BY <1>1, WorkFacts, PreparedType DEF Fits, IngestRows, IInv
<1>3. /\ row \in Captures /\ Wellformed(row) /\ PlannedIsSuccess(row)
      /\ row.phase = "PUBLICATION_PREPARED" /\ Row.phase = "BUSINESS_TERMINAL"
  BY <1>1, <1>2, WorkFacts DEF Captures, Phases, Wellformed, PlannedIsSuccess, Fits
<1> HIDE DEF row
<1>4. Fits(ingest', row, archive[ingest.art])
  BY <1>1, <1>3, GotoFacts DEF Fits
<1> QED
  BY <1>1, <1>3, <1>4, GotoFacts, RowStep

LEMMA PublishStep ==
  ASSUME IInv, Publish \/ PublishRaises
  PROVE  IInv'
<1>1. /\ ingest.pc = "publish" /\ Row.plan \in Plans
      /\ UNCHANGED <<now, kb, capture, files, lease, live>> /\ faults' \in 0..MaxFaults
  BY WorkFacts, ConstantFacts DEF Publish, PublishRaises, IInv, TypeOK, Captures
<1>2. \/ manifest' = manifest
      \/ Publishable(Row.plan) /\ manifest' = Frozen(Row.plan)
  BY DEF Publish, PublishRaises, Publishable
<1>3. Published
  BY <1>1, <1>2, PublishedFacts, UntouchedManifest DEF IInv, Published, TypeOK
<1>4. OtherTypes
  BY <1>1, <1>3 DEF OtherTypes, IInv, TypeOK
<1>5. ingest' \in IngestRows /\ ingest'.pc = "complete" /\ ingest'.art = ingest.art
  <2>1. ingest \in IngestRows /\ Publishable(Row.plan) \in BOOLEAN
    BY DEF IInv, TypeOK, Publishable, InOrder, Already
  <2>2. CASE Publish
    BY <2>1, <2>2 DEF Publish, IngestRows
  <2>3. CASE PublishRaises
    BY <2>1, <2>3 DEF PublishRaises, IngestRows
  <2> QED
    BY <2>2, <2>3
<1> QED
  BY <1>1, <1>4, <1>5, WorkFacts, MoveStep DEF Fits

LEMMA CompleteStep ==
  ASSUME IInv, Complete
  PROVE  IInv'
<1>1. ingest.pc = "complete" /\ OtherTypes /\ UNCHANGED files
  BY UntouchedManifest DEF Complete, OtherTypes, IInv, TypeOK
<1> DEFINE row == [Row EXCEPT !.phase = "COMPLETE", !.published = ingest.published]
<1>2. CASE SetRow(row) /\ Goto("raw")
  <2>1. /\ row \in Captures /\ Wellformed(row) /\ PlannedIsSuccess(row)
        /\ row.phase = "COMPLETE"
    BY <1>1, WorkFacts
       DEF Captures, Phases, Wellformed, PlannedIsSuccess, Fits, IngestRows
  <2> HIDE DEF row
  <2>2. Fits(ingest', row, archive[ingest.art])
    BY <1>2, <2>1, GotoFacts DEF Fits
  <2> QED
    BY <1>1, <1>2, <2>1, <2>2, GotoFacts, RowStep
<1>3. CASE Stop /\ UNCHANGED capture
  BY <1>1, <1>3, StopStep
<1> QED
  BY <1>2, <1>3 DEF Complete

LEMMA ArchiveStep ==
  ASSUME IInv, ArchiveRaw \/ ArchiveMarker
  PROVE  IInv'
<1> DEFINE a == ingest.art
<1>1. /\ ingest.pc \in {"raw", "marker"} /\ OtherTypes /\ UNCHANGED <<capture, stage>>
  BY UntouchedManifest DEF ArchiveRaw, ArchiveMarker, Archive, OtherTypes, IInv, TypeOK
<1>2. /\ a \in Artifacts /\ stage = a /\ Row = capture[a] /\ capture[a].phase = "COMPLETE"
      /\ archive \in [Artifacts -> SUBSET {"artifact", "marker"}]
      /\ ingest.pc = "marker" => "artifact" \in archive[a]
  BY <1>1, WorkFacts DEF Fits, IInv, TypeOK
<1>3. PICK f \in {"artifact", "marker"}, l \in {"marker", "remove"} :
        /\ archive' = [archive EXCEPT ![a] = @ \union {f}] /\ Goto(l)
        /\ <<f, l>> = IF ingest.pc = "raw" THEN <<"artifact", "marker">>
                                           ELSE <<"marker", "remove">>
  BY DEF ArchiveRaw, ArchiveMarker, Archive
<1>4. /\ archive' \in [Artifacts -> SUBSET {"artifact", "marker"}]
      /\ archive'[a] = archive[a] \union {f}
      /\ \A b \in Artifacts : b # a => archive'[b] = archive[b]
  BY <1>2, <1>3
<1>5. TypeOK'
  BY <1>1, <1>3, <1>4, GotoFacts DEF IInv, TypeOK, OtherTypes, Published, Successful
<1>6. PcFitsPhase'
  BY <1>1, <1>2, <1>3, <1>4, GotoFacts DEF PcFitsPhase, Fits, Row
<1>7. NothingIsLost'
  BY <1>1, <1>2, <1>4 DEF IInv, NothingIsLost
<1> QED
  BY <1>1, <1>5, <1>6, <1>7 DEF IInv, OtherTypes, Published, ManifestIsOld, PlansAreOfSuccess

LEMMA RemoveStageStep ==
  ASSUME IInv, RemoveStage
  PROVE  IInv'
<1> DEFINE a == ingest.art
<1>1. OtherTypes /\ UNCHANGED <<capture, archive>> /\ stage' = NoArtifact /\ Stop
  BY UntouchedManifest DEF RemoveStage, OtherTypes, IInv, TypeOK
<1>2. /\ a \in Artifacts /\ stage = a /\ archive[a] = {"artifact", "marker"}
  BY WorkFacts DEF RemoveStage, Fits, IInv, TypeOK
<1>3. TypeOK'
  BY <1>1, StopFacts DEF IInv, TypeOK, OtherTypes, Published, Successful
<1>4. PcFitsPhase'
  BY <1>1, StopFacts DEF PcFitsPhase
<1>5. NothingIsLost'
  BY <1>1, <1>2 DEF IInv, NothingIsLost
<1> QED
  BY <1>1, <1>3, <1>4, <1>5 DEF IInv, OtherTypes, Published, ManifestIsOld, PlansAreOfSuccess

LEMMA CrashStep ==
  ASSUME IInv, Crash
  PROVE  IInv'
<1>1. OtherTypes
  BY UntouchedManifest, ConstantFacts DEF Crash, OtherTypes, IInv, TypeOK
<1> QED
  BY <1>1, StopStep DEF Crash

LEMMA IngestSteps ==
  ASSUME IInv, IngestStep \/ PublishRaises \/ Crash
  PROVE  IInv'
<1>1. ASSUME NEW a \in Artifacts, Start(a) PROVE IInv'
  BY <1>1, StartStep
<1>2. ASSUME NEW end \in Ends \ {"none"}, FinishBusiness(end) PROVE IInv'
  BY <1>2, FinishStep
<1> QED
  BY <1>1, <1>2, ClaimStep, StartRunStep, ReplayStep, ReadClockStep, PreparePublicationStep,
     PublishStep, CompleteStep, ArchiveStep, RemoveStageStep, CrashStep DEF IngestStep

-----------------------------------------------------------------------------
(* Live runs and the lease *)

LEMMA LiveTypes ==
  ASSUME IInv, NEW l \in Live, NEW pc \in {"idle", "clock", "plan", "publish"},
         NEW plan \in Plans, SetLive(l, pc, plan)
  PROVE  live' \in [Live -> LiveRows]
  BY DEF IInv, TypeOK, SetLive, LiveRows

LEMMA LiveSteps ==
  ASSUME IInv, NEW l \in Live, LiveStart(l) \/ LiveStep(l) \/ LiveCrash(l)
  PROVE  IInv'
<1>1. NoPlan \in Plans /\ live[l] \in LiveRows /\ live[l].plan \in Plans /\ live[l].plan.at \in Nat
        /\ now \in Nat /\ live \in [Live -> LiveRows]
  BY ConstantFacts DEF NoPlan, Plans, NoManifest, Manifests, IInv, TypeOK, LiveRows
<1>2. CASE LiveStart(l)
  <2>1. live' \in [Live -> LiveRows]
    <3>1. live[l].runs + 1 \in 0..MaxLiveRuns
      BY <1>1, <1>2, ConstantFacts DEF LiveStart, LiveRows
    <3>2. [NotRun EXCEPT !.pc = "collect", !.runs = live[l].runs + 1] \in LiveRows
      BY <1>1, <3>1 DEF LiveRows, NotRun
    <3> QED
      BY <1>1, <1>2, <3>2 DEF LiveStart
  <2> QED
    BY <1>2, <2>1, UntouchedManifest, ElsewhereStep DEF LiveStart, OtherTypes, IInv, TypeOK
<1>3. ASSUME NEW changed \in BOOLEAN, NEW ok \in BOOLEAN, LiveCollect(l, changed, ok)
      PROVE  IInv'
  <2>1. live' \in [Live -> LiveRows]
    BY <1>1, <1>3, LiveTypes DEF LiveCollect
  <2> QED
    BY <1>3, <2>1, UntouchedManifest, ElsewhereStep DEF LiveCollect, OtherTypes, IInv, TypeOK
<1>4. CASE LiveReadClock(l)
  <2>1. [NoPlan EXCEPT !.at = now] \in Plans
    BY <1>1 DEF Plans
  <2>2. live' \in [Live -> LiveRows]
    BY <1>4, <2>1, LiveTypes DEF LiveReadClock
  <2> QED
    BY <1>4, <2>2, UntouchedManifest, ElsewhereStep DEF LiveReadClock, OtherTypes, IInv, TypeOK
<1>5. CASE LivePlan(l)
  <2>1. live' \in [Live -> LiveRows]
    BY <1>1, <1>5, PreparedType, LiveTypes DEF LivePlan, IInv
  <2> QED
    BY <1>5, <2>1, UntouchedManifest, ElsewhereStep DEF LivePlan, OtherTypes, IInv, TypeOK
<1>6. CASE LivePublish(l)
  <2>1. live' \in [Live -> LiveRows]
    BY <1>1, <1>6, LiveTypes DEF LivePublish
  <2>2. Published
    BY <1>1, <1>6, PublishedFacts, UntouchedManifest
       DEF LivePublish, IInv, Published, TypeOK
  <2> QED
    BY <1>6, <2>1, <2>2, ElsewhereStep DEF LivePublish, OtherTypes, IInv, TypeOK
<1>7. CASE LiveCrash(l)
  <2>1. live' \in [Live -> LiveRows] /\ faults' \in 0..MaxFaults
    BY <1>1, <1>7, LiveTypes, ConstantFacts DEF LiveCrash, IInv, TypeOK
  <2> QED
    BY <1>7, <2>1, UntouchedManifest, ElsewhereStep DEF LiveCrash, OtherTypes, IInv, TypeOK
<1> QED
  BY <1>2, <1>3, <1>4, <1>5, <1>6, <1>7 DEF LiveStep

LEMMA LeaseSteps ==
  ASSUME IInv, LeaseExpires \/ LeaseIsTaken \/ Tick \/ UNCHANGED vars
  PROVE  IInv'
<1>1. OtherTypes
  BY UntouchedManifest, ConstantFacts
     DEF LeaseExpires, LeaseIsTaken, Tick, vars, OtherTypes, IInv, TypeOK
<1> QED
  BY <1>1, ElsewhereStep DEF LeaseExpires, LeaseIsTaken, Tick, vars

LEMMA StepIInv == IInv /\ [Next]_vars => IInv'
  BY IngestSteps, LiveSteps, LeaseSteps DEF Next

-----------------------------------------------------------------------------
(* The theorems *)

\* IInv holds throughout every behaviour of the specification.
THEOREM Inductive == Spec => []IInv
<1>1. Init => IInv
  BY InitIInv
<1>2. IInv /\ [Next]_vars => IInv'
  BY StepIInv
<1> QED
  BY <1>1, <1>2, PTL DEF Spec

\* Rows, files, lease and processes keep their types, and a row has a plan
\* exactly when its business run succeeded and was prepared.
THEOREM Typing == Spec => []TypeOK
<1>1. IInv => TypeOK
  BY DEF IInv
<1> QED
  BY <1>1, Inductive, PTL

\* Wherever an ingest stops, the artifact is staged or its archive is whole
\* (_run_ingest_with_recovery, _publish_completion_archive).
THEOREM CapturesAreSafe == Spec => []NothingIsLost
<1>1. IInv => NothingIsLost
  BY DEF IInv
<1> QED
  BY <1>1, Inductive, PTL

\* No publisher, in whatever order it read its clock, the manifest and the
\* sources, takes the manifest back (compare_and_publish).
THEOREM NoManifestIsTakenBack == Spec => ManifestMovesForward
<1>1. IInv /\ [Next]_vars =>
        [manifest' # manifest =>
           manifest'.at >= manifest.at /\ manifest'.sources >= manifest.sources]_vars
  <2> SUFFICES ASSUME IInv, Next, manifest' # manifest
               PROVE  manifest'.at >= manifest.at /\ manifest'.sources >= manifest.sources
    BY DEF vars
  <2>1. PICK plan \in Plans : Publishable(plan) /\ manifest' = Frozen(plan)
    <3>1. CASE Publish \/ PublishRaises
      <4>1. Row.plan \in Plans
        BY <3>1, WorkFacts DEF Publish, PublishRaises, Captures
      <4> QED
        BY <3>1, <4>1 DEF Publish, PublishRaises, Publishable
    <3>2. ASSUME NEW l \in Live, LivePublish(l)
          PROVE  \E plan \in Plans : Publishable(plan) /\ manifest' = Frozen(plan)
      <4>1. live[l].plan \in Plans
        BY DEF IInv, TypeOK, LiveRows
      <4> QED
        BY <3>2, <4>1 DEF LivePublish
    <3> QED
      BY <3>1, <3>2 DEF Next, IngestStep, LiveStep, Start, Claim, StartRun, Replay, ReadClock,
         PreparePublication, FinishBusiness, Complete, ArchiveRaw, ArchiveMarker, Archive,
         RemoveStage, Crash, LiveStart, LiveCollect, LiveReadClock, LivePlan, LiveCrash,
         LeaseExpires, LeaseIsTaken, Tick
  <2> QED
    BY <2>1, PublishedFacts DEF IInv
<1> QED
  BY <1>1, Inductive, PTL DEF Spec, ManifestMovesForward

\* What a step may do to one row.
SettledRow(old, new) ==
  /\ old.ended # "none" => new.ended = old.ended /\ new.runs = old.runs
  /\ old.plan # NoPlan => new.plan = old.plan
  /\ old.phase = "COMPLETE" => new = old

LEMMA RowsAreSettled ==
  ASSUME IInv, Next, capture' # capture
  PROVE  \A a \in Artifacts : SettledRow(capture[a], capture'[a])
<1>1. ingest.pc # "idle" /\ \E row : SetRow(row) /\ SettledRow(Row, row)
  <2>1. CASE Claim
    <3>1. /\ SettledRow(Row, IF Row.phase = "none" THEN [Row EXCEPT !.phase = "CLAIMED"] ELSE Row)
          /\ ingest.pc # "idle"
      BY <2>1, WorkFacts DEF Claim, SettledRow, Captures
    <3> QED
      BY <2>1, <3>1 DEF Claim
  <2>2. CASE StartRun
    <3>1. SettledRow(Row, [Row EXCEPT !.runs = @ + 1]) /\ ingest.pc # "idle"
      BY <2>2, WorkFacts DEF StartRun, SettledRow, Captures, Wellformed, Fits
    <3> QED
      BY <2>2, <3>1 DEF StartRun
  <2>3. CASE Replay
    <3>1. SettledRow(Row, [Row EXCEPT !.stored = TRUE]) /\ ingest.pc # "idle"
      BY <2>3, WorkFacts DEF Replay, SettledRow, Captures, Wellformed, Fits
    <3> QED
      BY <2>3, <3>1 DEF Replay
  <2>4. ASSUME NEW end \in Ends \ {"none"}, FinishBusiness(end)
        PROVE  ingest.pc # "idle" /\ \E row : SetRow(row) /\ SettledRow(Row, row)
    <3>1. /\ SettledRow(Row, [Row EXCEPT !.phase = "BUSINESS_TERMINAL", !.ended = end])
          /\ ingest.pc # "idle"
      BY <2>4, WorkFacts DEF FinishBusiness, SettledRow, Captures, Wellformed, Fits
    <3> QED
      BY <2>4, <3>1 DEF FinishBusiness
  <2>5. CASE PreparePublication
    <3>1. /\ SettledRow(Row, [Row EXCEPT !.phase = "PUBLICATION_PREPARED",
                                        !.plan = Prepared(ingest.at)])
          /\ ingest.pc # "idle"
      BY <2>5, WorkFacts DEF PreparePublication, SettledRow, Captures, Wellformed, Fits
    <3> QED
      BY <2>5, <3>1 DEF PreparePublication
  <2>6. CASE Complete
    <3>1. /\ SettledRow(Row, [Row EXCEPT !.phase = "COMPLETE", !.published = ingest.published])
          /\ ingest.pc # "idle"
      BY <2>6, WorkFacts DEF Complete, SettledRow, Captures, Wellformed, Fits
    <3> QED
      BY <2>6, <3>1 DEF Complete
  <2> QED
    BY <2>1, <2>2, <2>3, <2>4, <2>5, <2>6
       DEF Next, IngestStep, LiveStep, Start, ReadClock, Publish, PublishRaises, ArchiveRaw,
       ArchiveMarker, Archive, RemoveStage, Crash, LiveStart, LiveCollect, LiveReadClock,
       LivePlan, LivePublish, LiveCrash, LeaseExpires, LeaseIsTaken, Tick
<1>2. PICK row : SetRow(row) /\ SettledRow(Row, row)
  BY <1>1
<1>3. \A a \in Artifacts : a # ingest.art => capture'[a] = capture[a]
  BY <1>2 DEF SetRow, IInv, TypeOK
<1>4. capture'[ingest.art] = row
  BY <1>1, <1>2, WorkFacts DEF SetRow, IInv, TypeOK
<1> QED
  BY <1>2, <1>3, <1>4 DEF SettledRow, Row

\* No crash and no restart gives a capture a second business run, another
\* plan or another completion (claim_capture_ingest, finish_capture_business,
\* prepare_capture_publication, complete_capture_ingest).
THEOREM CapturesSettleOnce == Spec => BusinessIsSettled
<1>1. IInv /\ [Next]_vars =>
        [\A a \in Artifacts :
           /\ capture[a].ended # "none" =>
                capture'[a].ended = capture[a].ended /\ capture'[a].runs = capture[a].runs
           /\ capture[a].plan # NoPlan => capture'[a].plan = capture[a].plan
           /\ capture[a].phase = "COMPLETE" => capture'[a] = capture[a]]_vars
  BY RowsAreSettled DEF SettledRow
<1> QED
  BY <1>1, Inductive, PTL DEF Spec, BusinessIsSettled
=============================================================================
