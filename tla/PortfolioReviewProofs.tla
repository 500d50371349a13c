------------------------ MODULE PortfolioReviewProofs ------------------------
(***************************************************************************)
(* Proofs about PortfolioReview for any number of turns, operators,        *)
(* principals and revisions.  A review does not change while its principal *)
(* is locked, the snapshot does not change while its directory is; and a   *)
(* candidate is compared with one snapshot only, which is gone for good    *)
(* once the candidate has replaced it.                                     *)
(***************************************************************************)
EXTENDS PortfolioReview, TLAPS

Publication == {"check", "publishing", "recheck", "write", "consume"}

\* Locks are held by those who work under them.
LocksAreHeld ==
  /\ \A t \in Turns : pc[t] \in Publication \union {"clear", "save", "load"} =>
       holder[PrincipalOf[t]] = t
  /\ \A x \in Processes : pc[x] \in {"recheck", "write"} => directory = x

\* Who publishes has a candidate, and who is about to write has compared it with
\* the snapshot that is still there.
WritersAreCurrent ==
  \A x \in Processes :
    /\ pc[x] \in {"check", "publishing", "recheck", "write"} => job[x].cand # None
    /\ pc[x] = "write" => job[x].base = target /\ job[x].cand # target

\* A confirming turn works on the review that is pending.
ConfirmsPending ==
  \A t \in Turns : pc[t] \in Publication =>
    LET r == review[PrincipalOf[t]] IN
      /\ r.cand = job[t].cand /\ r.base = job[t].base /\ ~r.consumed
      /\ r.turn # t /\ SessionOf[r.turn] = SessionOf[t]

\* Candidates at large, each with the snapshot it was compared with.
OfTurns     == {<<job[t].cand, job[t].base>> : t \in Turns}
                 \union {<<review[p].cand, review[p].base>> : p \in Principals}
OfOperators == {<<job[o].cand, job[o].base>> : o \in Operators}
Candidates  == OfTurns \union OfOperators

\* They are known, and compared with a snapshot that was there.
CandidatesAreMade ==
  /\ was \subseteq made /\ target \in was \union {None}
  /\ \A h \in Candidates : h[1] \in made \union {None} /\ h[2] \in was \union {None}

\* Until it is published, a candidate is compared with one snapshot only.
ComparedOnce ==
  \A h, k \in Candidates : h[1] = k[1] /\ h[1] # None /\ h[1] \notin was => h[2] = k[2]

\* What a turn or a review keeps of a published candidate is out of date.
ReplacedIsGone ==
  ~returned => \A h \in OfTurns : h[1] \in was => h[2] # target

Lineage == CandidatesAreMade /\ ComparedOnce /\ ReplacedIsGone

IInv == TypeOK /\ LocksAreHeld /\ WritersAreCurrent /\ ConfirmsPending /\ Lineage

-----------------------------------------------------------------------------
LEMMA ConstantFacts ==
  /\ None \notin Revisions /\ None \notin Turns /\ Nobody \notin Processes
  /\ Turns \subseteq Processes /\ Operators \subseteq Processes
  /\ Turns \intersect Operators = {}
  /\ \A t \in Turns : PrincipalOf[t] \in Principals
  /\ MaxTime \in Nat /\ MaxFaults \in Nat
  /\ NoJob \in Jobs /\ NoReview \in Reviews
  BY ReviewAssumption DEF ReviewAssumption, Processes, Principals, NoJob, Jobs, NoReview, Reviews, Ids

LEMMA InitInvariant == Init => IInv
<1> SUFFICES ASSUME Init PROVE IInv
  OBVIOUS
<1>1. TypeOK
  <2>1. /\ target \in Ids /\ was \in SUBSET Revisions /\ returned \in BOOLEAN
        /\ made \in SUBSET Revisions
    BY DEF Init, Ids
  <2>4. now \in 0..MaxTime /\ faults \in 0..MaxFaults
    BY ConstantFacts DEF Init
  <2>2. /\ review \in [Principals -> Reviews]
        /\ holder \in [Principals -> Turns \union {Nobody}]
        /\ directory \in Processes \union {Nobody}
    BY ConstantFacts DEF Init
  <2>3. /\ pc \in [Processes -> Labels] /\ \A o \in Operators : pc[o] \in PublishLabels
        /\ job \in [Processes -> Jobs]
    BY ConstantFacts DEF Init, Labels, PublishLabels
  <2> QED BY <2>1, <2>2, <2>3, <2>4 DEF TypeOK
<1>2. LocksAreHeld /\ WritersAreCurrent /\ ConfirmsPending
  BY ConstantFacts DEF Init, LocksAreHeld, WritersAreCurrent, ConfirmsPending, Publication
<1>3. \A h \in Candidates : h = <<None, None>>
  BY ConstantFacts DEF Init, Candidates, OfTurns, OfOperators, NoJob, NoReview
<1>4. Lineage
  BY <1>3 DEF Init, Lineage, CandidatesAreMade, ComparedOnce, ReplacedIsGone
<1> QED BY <1>1, <1>2, <1>4 DEF IInv

-----------------------------------------------------------------------------
(* Candidates *)

\* Candidates may be dropped or handed over.
LEMMA SameCandidates ==
  ASSUME Lineage, UNCHANGED <<file, made>>,
         OfTurns' \subseteq OfTurns \union {<<None, None>>},
         OfOperators' \subseteq OfOperators \union {<<None, None>>}, None \notin was
  PROVE  Lineage'
<1>1. CandidatesAreMade'
  BY DEF Lineage, CandidatesAreMade, Candidates, file
<1>2. ComparedOnce'
  BY DEF Lineage, ComparedOnce, Candidates, file
<1>3. ReplacedIsGone'
  BY DEF Lineage, ReplacedIsGone, file
<1> QED BY <1>1, <1>2, <1>3 DEF Lineage

\* A new candidate is compared with the present snapshot.
LEMMA NewCandidate ==
  ASSUME Lineage, UNCHANGED file, NEW c \in Revisions \ made, made' = made \union {c},
         OfTurns' \subseteq OfTurns \union {<<c, target>>},
         OfOperators' \subseteq OfOperators \union {<<c, target>>}, None \notin Revisions
  PROVE  Lineage'
<1>1. CandidatesAreMade'
  BY DEF Lineage, CandidatesAreMade, Candidates, file
<1>2. \A h \in Candidates : h[1] # c
  BY DEF Lineage, CandidatesAreMade
<1>3. ComparedOnce'
  BY <1>2 DEF Lineage, ComparedOnce, Candidates, file
<1>4. c \notin was
  BY DEF Lineage, CandidatesAreMade
<1>5. ReplacedIsGone'
  BY <1>4 DEF Lineage, ReplacedIsGone, file
<1> QED BY <1>1, <1>3, <1>5 DEF Lineage

\* An operator may bring back an old one.
LEMMA OldCandidate ==
  ASSUME Lineage, UNCHANGED <<file, made>>, NEW c \in was,
         OfTurns' \subseteq OfTurns, OfOperators' \subseteq OfOperators \union {<<c, target>>}
  PROVE  Lineage'
<1>1. CandidatesAreMade'
  BY DEF Lineage, CandidatesAreMade, Candidates, file
<1>2. ComparedOnce'
  BY DEF Lineage, ComparedOnce, Candidates, file
<1>3. ReplacedIsGone'
  BY DEF Lineage, ReplacedIsGone, file
<1> QED BY <1>1, <1>2, <1>3 DEF Lineage

\* A candidate becomes the snapshot.
LEMMA ReplacedCandidate ==
  ASSUME Lineage, UNCHANGED made, NEW c \in Revisions, c # target, None \notin Revisions,
         <<c, target>> \in Candidates, target' = c, was' = was \union {c},
         c \in was /\ ~returned' => <<c, target>> \in OfTurns, ~returned' => ~returned,
         OfTurns' \subseteq OfTurns \union {<<None, None>>},
         OfOperators' \subseteq OfOperators \union {<<None, None>>}
  PROVE  Lineage'
<1>1. CandidatesAreMade'
  BY DEF Lineage, CandidatesAreMade, Candidates
<1>2. ComparedOnce'
  BY DEF Lineage, ComparedOnce, CandidatesAreMade, Candidates
<1>3. ASSUME ~returned', NEW h \in OfTurns', h[1] \in was' PROVE h[2] # target'
  <2>1. c \notin was
    BY <1>3 DEF Lineage, ReplacedIsGone
  <2>2. CASE h = <<None, None>>
    BY <2>2
  <2>3. CASE h \in OfTurns
    <3>1. CASE h[1] = c
      BY <2>1, <2>3, <3>1 DEF Lineage, ComparedOnce, Candidates
    <3>2. CASE h[1] \in was
      BY <2>1, <2>3, <3>2 DEF Lineage, CandidatesAreMade, Candidates
    <3> QED BY <1>3, <3>1, <3>2
  <2> QED BY <1>3, <2>2, <2>3
<1>4. ReplacedIsGone'
  BY <1>3 DEF ReplacedIsGone
<1> QED BY <1>1, <1>2, <1>4 DEF Lineage

\* Nobody's candidate is new if the reviews stay and no job gets one.
LEMMA NothingNew ==
  ASSUME \A p \in Principals : review'[p].cand = review[p].cand /\ review'[p].base = review[p].base,
         \A x \in Processes : \/ job'[x].cand = job[x].cand /\ job'[x].base = job[x].base
                              \/ job'[x].cand = None /\ job'[x].base = None
  PROVE  /\ OfTurns' \subseteq OfTurns \union {<<None, None>>}
         /\ OfOperators' \subseteq OfOperators \union {<<None, None>>}
  BY ConstantFacts DEF OfTurns, OfOperators
-----------------------------------------------------------------------------
(* Steps *)

LEMMA LineageOfJobs ==
  ASSUME IInv, UNCHANGED <<file, made>>,
         \A p \in Principals : review'[p].cand = review[p].cand /\ review'[p].base = review[p].base,
         \A x \in Processes : \/ job'[x].cand = job[x].cand /\ job'[x].base = job[x].base
                              \/ job'[x].cand = None /\ job'[x].base = None
  PROVE  Lineage'
<1>1. None \notin was
  BY ConstantFacts DEF IInv, TypeOK
<1> QED BY <1>1, NothingNew, SameCandidates DEF IInv

LEMMA LeaveStep ==
  ASSUME IInv, NEW x \in Processes, Leave(x), UNCHANGED <<file, made, review, now>>,
         faults' \in 0..MaxFaults
  PROVE  IInv'
<1> USE DEF Leave, Work, Goto, file
<1>1. \A y \in Processes : y # x => pc'[y] = pc[y] /\ job'[y] = job[y]
  BY DEF IInv, TypeOK
<1>2. pc'[x] = "idle" /\ job'[x] = NoJob
  BY DEF IInv, TypeOK
<1>3. TypeOK'
  BY ConstantFacts DEF IInv, TypeOK, Labels, PublishLabels
<1>4. LocksAreHeld'
  BY <1>1, <1>2, ConstantFacts DEF IInv, TypeOK, LocksAreHeld, Publication
<1>5. WritersAreCurrent' /\ ConfirmsPending'
  BY <1>1, <1>2, ConstantFacts DEF IInv, WritersAreCurrent, ConfirmsPending, Publication
<1>6. Lineage'
  BY <1>1, <1>2, LineageOfJobs DEF NoJob
<1> QED BY <1>3, <1>4, <1>5, <1>6 DEF IInv

LEMMA InspectStep ==
  ASSUME IInv, NEW t \in Turns, Inspect(t) PROVE IInv'
<1> USE DEF Work, Goto, file, locks
<1>0. PICK c \in Revisions \ made :
        /\ made' = made \union {c}
        /\ Work(t, [cand |-> c, base |-> target, since |-> now], "saving")
  BY DEF Inspect
<1>1. \A y \in Processes : y # t => pc'[y] = pc[y] /\ job'[y] = job[y]
  BY <1>0 DEF IInv, TypeOK
<1>2. pc'[t] = "saving" /\ job'[t] = [cand |-> c, base |-> target, since |-> now]
  BY <1>0, ConstantFacts DEF IInv, TypeOK
<1>3. [cand |-> c, base |-> target, since |-> now] \in Jobs
  BY ConstantFacts DEF IInv, TypeOK, Jobs, Ids
<1>4. TypeOK'
  BY <1>0, <1>3, ConstantFacts DEF IInv, TypeOK, Labels, Inspect
<1>5. LocksAreHeld' /\ WritersAreCurrent' /\ ConfirmsPending'
  BY <1>1, <1>2, ConstantFacts DEF IInv, LocksAreHeld, WritersAreCurrent, ConfirmsPending,
       Publication, Inspect
<1>6. OfTurns' \subseteq OfTurns \union {<<c, target>>} /\ OfOperators' \subseteq OfOperators
  BY <1>1, <1>2, ConstantFacts DEF OfTurns, OfOperators, Inspect
<1>7. Lineage'
  BY <1>0, <1>6, NewCandidate, ConstantFacts DEF IInv, Inspect
<1> QED BY <1>4, <1>5, <1>7 DEF IInv

LEMMA TakeLockStep ==
  ASSUME IInv, NEW t \in Turns, NEW label \in {"clear", "load"}, TakeLock(t, label)
  PROVE  IInv'
<1> USE DEF TakeLock, Goto, file
<1>1. \A y \in Processes : y # t => pc'[y] = pc[y]
  BY DEF IInv, TypeOK
<1>2. pc'[t] = label
  BY ConstantFacts DEF IInv, TypeOK
<1>3. TypeOK'
  BY ConstantFacts DEF IInv, TypeOK, Labels
<1>4. LocksAreHeld'
  <2>1. ASSUME NEW u \in Turns, pc'[u] \in Publication \union {"clear", "save", "load"}
        PROVE  holder'[PrincipalOf[u]] = u
    <3>1. CASE u = t
      BY <3>1, ConstantFacts DEF IInv, TypeOK
    <3>2. CASE u # t
      BY <1>1, <2>1, <3>2, ConstantFacts DEF IInv, TypeOK, LocksAreHeld
    <3> QED BY <3>1, <3>2
  <2>2. \A x \in Processes : pc'[x] \in {"recheck", "write"} => directory' = x
    BY <1>1, <1>2 DEF IInv, LocksAreHeld
  <2> QED BY <2>1, <2>2 DEF LocksAreHeld
<1>5. WritersAreCurrent' /\ ConfirmsPending'
  BY <1>1, <1>2, ConstantFacts DEF IInv, WritersAreCurrent, ConfirmsPending, Publication
<1>6. Lineage'
  BY LineageOfJobs
<1> QED BY <1>3, <1>4, <1>5, <1>6 DEF IInv

LEMMA ClearExpiredStep ==
  ASSUME IInv, NEW t \in Turns, ClearExpired(t) PROVE IInv'
<1> USE DEF ClearExpired, Goto, file, locks
<1>1. \A y \in Processes : y # t => pc'[y] = pc[y]
  BY DEF IInv, TypeOK
<1>2. pc'[t] = "save"
  BY ConstantFacts DEF IInv, TypeOK
<1>3. \A p \in Principals : review'[p] \in {review[p], NoReview}
                            /\ (p # PrincipalOf[t] => review'[p] = review[p])
  BY DEF IInv, TypeOK
<1>4. TypeOK'
  BY ConstantFacts DEF IInv, TypeOK, Labels
<1>5. LocksAreHeld'
  BY <1>1, <1>2, ConstantFacts DEF IInv, LocksAreHeld, Publication
<1>6. WritersAreCurrent'
  BY <1>1, <1>2 DEF IInv, WritersAreCurrent
<1>7. ConfirmsPending'
  <2>1. ASSUME NEW u \in Turns, pc'[u] \in Publication
        PROVE  review'[PrincipalOf[u]] = review[PrincipalOf[u]] /\ pc[u] \in Publication
    BY <1>1, <1>2, <1>3, <2>1, ConstantFacts DEF IInv, LocksAreHeld, Publication
  <2> QED BY <2>1 DEF IInv, ConfirmsPending
<1>8. /\ OfTurns' \subseteq OfTurns \union {<<None, None>>}
      /\ OfOperators' = OfOperators
  BY <1>3 DEF OfTurns, OfOperators, NoReview
<1>9. Lineage'
  BY <1>8, SameCandidates, ConstantFacts DEF IInv, TypeOK
<1> QED BY <1>4, <1>5, <1>6, <1>7, <1>9 DEF IInv

LEMMA SaveStep ==
  ASSUME IInv, NEW t \in Turns, Save(t) PROVE IInv'
<1> USE DEF Save, Leave, Work, Goto, file
<1>0. PICK at \in job[t].since..now :
        review' = [review EXCEPT ![PrincipalOf[t]] =
                     [cand |-> job[t].cand, base |-> job[t].base, turn |-> t,
                      issued |-> at, consumed |-> FALSE]]
  OBVIOUS
<1>1. \A y \in Processes : y # t => pc'[y] = pc[y] /\ job'[y] = job[y]
  BY DEF IInv, TypeOK
<1>2. pc'[t] = "idle" /\ job'[t] = NoJob
  BY ConstantFacts DEF IInv, TypeOK
<1>3. [cand |-> job[t].cand, base |-> job[t].base, turn |-> t,
       issued |-> at, consumed |-> FALSE] \in Reviews
  <2>1. job[t] \in Jobs /\ now \in Nat
    BY ConstantFacts DEF IInv, TypeOK
  <2> QED BY <1>0, <2>1 DEF Jobs, Reviews
<1>4. TypeOK'
  BY <1>0, <1>3, ConstantFacts DEF IInv, TypeOK, Labels, PublishLabels
<1>5. LocksAreHeld'
  BY <1>1, <1>2, ConstantFacts DEF IInv, TypeOK, LocksAreHeld, Publication
<1>6. WritersAreCurrent'
  BY <1>1, <1>2, ConstantFacts DEF IInv, WritersAreCurrent
<1>7. ConfirmsPending'
  <2>1. ASSUME NEW u \in Turns, pc'[u] \in Publication
        PROVE  /\ review'[PrincipalOf[u]] = review[PrincipalOf[u]]
               /\ pc[u] \in Publication /\ job'[u] = job[u]
    BY <1>0, <1>1, <1>2, <2>1, ConstantFacts DEF IInv, LocksAreHeld, Publication
  <2> QED BY <2>1 DEF IInv, ConfirmsPending
<1>8. /\ OfTurns' \subseteq OfTurns \union {<<None, None>>}
      /\ OfOperators' \subseteq OfOperators \union {<<None, None>>}
  <2>1. \A p \in Principals : \/ review'[p] = review[p]
                              \/ /\ review'[p].cand = job[t].cand
                                 /\ review'[p].base = job[t].base
    BY <1>0 DEF IInv, TypeOK
  <2> QED BY <1>1, <1>2, <2>1, ConstantFacts DEF OfTurns, OfOperators, NoJob
<1>9. Lineage'
  BY <1>8, SameCandidates, ConstantFacts DEF IInv, TypeOK
<1> QED BY <1>4, <1>5, <1>6, <1>7, <1>9 DEF IInv

LEMMA LoadStep ==
  ASSUME IInv, NEW t \in Turns, Load(t) PROVE IInv'
<1> DEFINE r == review[PrincipalOf[t]]
           j == [cand |-> r.cand, base |-> r.base, since |-> now]
<1>1. CASE ~Confirmable(t, r)
  BY <1>1, LeaveStep, ConstantFacts DEF Load, IInv, TypeOK
<1>2. CASE Confirmable(t, r)
  <2>0. /\ Work(t, j, "check") /\ pc[t] = "load"
        /\ UNCHANGED <<locks, file, made, review, now, faults>>
    BY <1>2 DEF Load
  <2>1. \A y \in Processes : y # t => pc'[y] = pc[y] /\ job'[y] = job[y]
    BY <2>0 DEF IInv, TypeOK, Work, Goto
  <2>2. pc'[t] = "check" /\ job'[t] = j
    BY <2>0, ConstantFacts DEF IInv, TypeOK, Work, Goto
  <2>3. j \in Jobs
    BY ConstantFacts DEF IInv, TypeOK, Jobs, Reviews
  <2>4. TypeOK'
    <3>1. job' \in [Processes -> Jobs] /\ pc' \in [Processes -> Labels]
      BY <2>0, <2>3, ConstantFacts DEF IInv, TypeOK, Labels, PublishLabels, Work, Goto
    <3>2. \A o \in Operators : pc'[o] \in PublishLabels
      BY <2>1, ConstantFacts DEF IInv, TypeOK
    <3> QED BY <2>0, <3>1, <3>2 DEF IInv, TypeOK, locks, file
  <2>5. LocksAreHeld' /\ WritersAreCurrent'
    BY <1>2, <2>0, <2>1, <2>2, ConstantFacts
       DEF IInv, LocksAreHeld, WritersAreCurrent, Publication, locks, file, Confirmable
  <2>6. ConfirmsPending'
    BY <1>2, <2>0, <2>1, <2>2, ConstantFacts DEF IInv, ConfirmsPending, Confirmable, Publication
  <2>7. \A u \in Turns : <<job'[u].cand, job'[u].base>> \in OfTurns
    <3>1. PrincipalOf[t] \in Principals
      BY ConstantFacts
    <3>2. <<job'[t].cand, job'[t].base>> \in OfTurns
      BY <2>2, <3>1 DEF OfTurns
    <3>3. \A u \in Turns : u # t => job'[u] = job[u]
      BY <2>1, ConstantFacts
    <3> QED BY <3>2, <3>3 DEF OfTurns
  <2>8. OfTurns' \subseteq OfTurns
    BY <2>0, <2>7 DEF OfTurns
  <2>9. OfOperators' = OfOperators
    BY <2>1, ConstantFacts DEF OfOperators
  <2>10. Lineage'
    BY <2>0, <2>8, <2>9, SameCandidates, ConstantFacts DEF IInv, TypeOK
  <2> QED BY <2>4, <2>5, <2>6, <2>10 DEF IInv
<1> QED BY <1>1, <1>2

LEMMA OperatorPreviewStep ==
  ASSUME IInv, NEW o \in Operators, OperatorPreview(o) PROVE IInv'
<1> USE DEF Work, Goto, file, locks
<1>0. PICK c \in was \union (Revisions \ made) :
        /\ made' = made \union {c}
        /\ Work(o, [cand |-> c, base |-> target, since |-> now], "check")
  BY DEF OperatorPreview
<1>1. \A y \in Processes : y # o => pc'[y] = pc[y] /\ job'[y] = job[y]
  BY <1>0 DEF IInv, TypeOK
<1>2. pc'[o] = "check" /\ job'[o] = [cand |-> c, base |-> target, since |-> now]
  BY <1>0, ConstantFacts DEF IInv, TypeOK
<1>3. [cand |-> c, base |-> target, since |-> now] \in Jobs /\ c \in Revisions
  BY ConstantFacts DEF IInv, TypeOK, Jobs, Ids
<1>4. TypeOK'
  BY <1>0, <1>3, ConstantFacts DEF IInv, TypeOK, Labels, PublishLabels, OperatorPreview
<1>5. LocksAreHeld' /\ WritersAreCurrent' /\ ConfirmsPending'
  BY <1>1, <1>2, <1>3, ConstantFacts DEF IInv, LocksAreHeld, WritersAreCurrent, ConfirmsPending,
       OperatorPreview
<1>6. OfTurns' = OfTurns /\ OfOperators' \subseteq OfOperators \union {<<c, target>>}
  BY <1>1, <1>2, ConstantFacts DEF OfTurns, OfOperators, OperatorPreview
<1>7. CASE c \in was
  <2>1. made' = made
    BY <1>0, <1>7 DEF IInv, Lineage, CandidatesAreMade
  <2> QED BY <1>4, <1>5, <1>6, <1>7, <2>1, OldCandidate DEF IInv, OperatorPreview
<1>8. CASE c \in Revisions \ made
  BY <1>0, <1>4, <1>5, <1>6, <1>8, NewCandidate, ConstantFacts DEF IInv, OperatorPreview
<1> QED BY <1>7, <1>8

LEMMA CheckStep ==
  ASSUME IInv, NEW x \in Processes, Check(x) PROVE IInv'
<1>1. CASE Leave(x)
  BY <1>1, LeaveStep DEF Check, IInv, TypeOK
<1>2. CASE Goto(x, "publishing") /\ UNCHANGED <<locks, job>>
  <2> USE <1>2 DEF Check, Goto, file, locks
  <2>1. TypeOK'
    BY ConstantFacts DEF IInv, TypeOK, Labels, PublishLabels
  <2>2. LocksAreHeld' /\ WritersAreCurrent' /\ ConfirmsPending'
    BY ConstantFacts
       DEF IInv, TypeOK, LocksAreHeld, WritersAreCurrent, ConfirmsPending, Publication
  <2>3. Lineage'
    BY LineageOfJobs
  <2> QED BY <2>1, <2>2, <2>3 DEF IInv
<1> QED BY <1>1, <1>2 DEF Check

LEMMA LockDirectoryStep ==
  ASSUME IInv, NEW x \in Processes, LockDirectory(x) PROVE IInv'
<1> USE DEF LockDirectory, Goto, file
<1>1. TypeOK'
  BY ConstantFacts DEF IInv, TypeOK, Labels, PublishLabels
<1>2. LocksAreHeld' /\ WritersAreCurrent' /\ ConfirmsPending'
  BY ConstantFacts
     DEF IInv, TypeOK, LocksAreHeld, WritersAreCurrent, ConfirmsPending, Publication
<1>3. Lineage'
  BY LineageOfJobs
<1> QED BY <1>1, <1>2, <1>3 DEF IInv

\* What follows a publication, whether it replaced the snapshot or not.
LEMMA PublishedStep ==
  ASSUME IInv, NEW x \in Processes, pc[x] \in {"recheck", "write"}, Published(x),
         UNCHANGED <<made, review, now, faults>>
  PROVE  /\ pc' \in [Processes -> Labels] /\ \A o \in Operators : pc'[o] \in PublishLabels
         /\ job' \in [Processes -> Jobs] /\ holder' \in [Principals -> Turns \union {Nobody}]
         /\ directory' \in Processes \union {Nobody}
         /\ LocksAreHeld' /\ ConfirmsPending'
         /\ \A y \in Processes :
              /\ pc'[y] \notin {"recheck", "write"}
              /\ pc'[y] \in {"check", "publishing"} => pc[y] = pc'[y] /\ job'[y] = job[y]
         /\ \A y \in Processes : \/ job'[y].cand = job[y].cand /\ job'[y].base = job[y].base
                                 \/ job'[y].cand = None /\ job'[y].base = None
<1>1. CASE x \in Turns
  <2> USE <1>1 DEF Published, Goto
  <2>1. \A y \in Processes :
          /\ pc'[y] \notin {"recheck", "write"}
          /\ pc'[y] \in {"check", "publishing"} => pc[y] = pc'[y] /\ job'[y] = job[y]
    BY ConstantFacts DEF IInv, TypeOK, LocksAreHeld
  <2>2. LocksAreHeld'
    BY <2>1, ConstantFacts DEF IInv, TypeOK, LocksAreHeld, Publication
  <2>3. ConfirmsPending'
    BY ConstantFacts DEF IInv, TypeOK, ConfirmsPending, Publication
  <2> QED BY <2>1, <2>2, <2>3, ConstantFacts DEF IInv, TypeOK, Labels
<1>2. CASE x \notin Turns
  <2> USE <1>2 DEF Published, Leave, Work, Goto
  <2>1. \A y \in Processes :
          /\ pc'[y] \notin {"recheck", "write"}
          /\ pc'[y] \in {"check", "publishing"} => pc[y] = pc'[y] /\ job'[y] = job[y]
    BY ConstantFacts DEF IInv, TypeOK, LocksAreHeld
  <2>2. LocksAreHeld'
    BY <2>1, ConstantFacts DEF IInv, TypeOK, LocksAreHeld, Publication
  <2>3. ConfirmsPending'
    BY ConstantFacts DEF IInv, TypeOK, ConfirmsPending, Publication
  <2>4. \A y \in Processes : \/ job'[y].cand = job[y].cand /\ job'[y].base = job[y].base
                             \/ job'[y].cand = None /\ job'[y].base = None
    BY DEF IInv, TypeOK, NoJob
  <2>5. /\ pc' \in [Processes -> Labels] /\ \A o \in Operators : pc'[o] \in PublishLabels
        /\ job' \in [Processes -> Jobs]
    BY ConstantFacts DEF IInv, TypeOK, Labels, PublishLabels
  <2>6. holder' \in [Principals -> Turns \union {Nobody}] /\ directory' \in Processes \union {Nobody}
    BY DEF IInv, TypeOK
  <2> QED BY <2>1, <2>2, <2>3, <2>4, <2>5, <2>6
<1> QED BY <1>1, <1>2

LEMMA RecheckStep ==
  ASSUME IInv, NEW x \in Processes, Recheck(x) PROVE IInv'
<1>1. CASE Leave(x)
  BY <1>1, LeaveStep DEF Recheck, IInv, TypeOK
<1>2. CASE Published(x)
  <2>1. UNCHANGED <<file, made, review, now, faults>> /\ pc[x] = "recheck"
    BY DEF Recheck
  <2>2. Lineage'
    BY <1>2, <2>1, PublishedStep, LineageOfJobs
  <2>3. TypeOK'
    BY <1>2, <2>1, PublishedStep DEF IInv, TypeOK, file
  <2>4. LocksAreHeld' /\ WritersAreCurrent' /\ ConfirmsPending'
    BY <1>2, <2>1, PublishedStep DEF IInv, WritersAreCurrent
  <2> QED BY <2>2, <2>3, <2>4 DEF IInv
<1>3. CASE /\ target = job[x].base /\ target # job[x].cand
           /\ Goto(x, "write") /\ UNCHANGED <<locks, job>>
  <2> USE <1>3 DEF Recheck, Goto, file, locks
  <2>1. TypeOK'
    BY ConstantFacts DEF IInv, TypeOK, Labels, PublishLabels
  <2>2. LocksAreHeld' /\ WritersAreCurrent' /\ ConfirmsPending'
    BY ConstantFacts
       DEF IInv, TypeOK, LocksAreHeld, WritersAreCurrent, ConfirmsPending, Publication
  <2>3. Lineage'
    BY LineageOfJobs
  <2> QED BY <2>1, <2>2, <2>3 DEF IInv
<1> QED BY <1>1, <1>2, <1>3 DEF Recheck

LEMMA ReplaceStep ==
  ASSUME IInv, NEW x \in Processes, pc[x] = "write", Replace(x),
         UNCHANGED <<made, review, now>>,
         \A y \in Processes : \/ job'[y].cand = job[y].cand /\ job'[y].base = job[y].base
                              \/ job'[y].cand = None /\ job'[y].base = None
  PROVE  /\ target' \in Ids /\ was' \in SUBSET Revisions /\ returned' \in BOOLEAN
         /\ Lineage'
<1> DEFINE c == job[x].cand
<1>1. job[x].base = target /\ c # target
  BY DEF IInv, WritersAreCurrent
<1>2. <<c, target>> \in Candidates /\ (x \in Turns => <<c, target>> \in OfTurns)
  BY <1>1 DEF Candidates, OfTurns, OfOperators, Processes
<1>3. c \in Revisions
  BY DEF IInv, TypeOK, Jobs, Ids, WritersAreCurrent
<1>4. c \in was /\ ~returned' => <<c, target>> \in OfTurns
  BY <1>2 DEF Replace, Processes
<1>5. /\ OfTurns' \subseteq OfTurns \union {<<None, None>>}
      /\ OfOperators' \subseteq OfOperators \union {<<None, None>>}
  BY NothingNew
<1>6. ~returned' => ~returned
  BY DEF Replace
<1>7. target' = c /\ was' = was \union {c}
  BY DEF Replace
<1>8. Lineage'
  <2> HIDE DEF c
  <2> QED BY <1>1, <1>2, <1>3, <1>4, <1>5, <1>6, <1>7, ReplacedCandidate, ConstantFacts DEF IInv
<1>9. returned' \in BOOLEAN
  BY DEF IInv, TypeOK, Replace
<1> QED BY <1>3, <1>7, <1>8, <1>9 DEF IInv, TypeOK, Ids

LEMMA WriteStep ==
  ASSUME IInv, NEW x \in Processes, Write(x) PROVE IInv'
<1>1. /\ target' \in Ids /\ was' \in SUBSET Revisions /\ returned' \in BOOLEAN
      /\ Lineage'
  BY PublishedStep, ReplaceStep DEF Write
<1>2. TypeOK'
  BY <1>1, PublishedStep DEF Write, IInv, TypeOK
<1>3. LocksAreHeld' /\ WritersAreCurrent' /\ ConfirmsPending'
  BY PublishedStep DEF Write, IInv, WritersAreCurrent
<1> QED BY <1>1, <1>2, <1>3 DEF IInv

LEMMA WriteFailsStep ==
  ASSUME IInv, NEW x \in Processes, WriteFails(x) PROVE IInv'
<1>1. faults' \in 0..MaxFaults
  BY ConstantFacts DEF WriteFails, Fault, IInv, TypeOK
<1>2. CASE UNCHANGED file
  BY <1>1, <1>2, LeaveStep DEF WriteFails
<1>3. CASE Replace(x)
  <2> USE DEF WriteFails, Leave, Work, Goto
  <2>1. \A y \in Processes : y # x => pc'[y] = pc[y] /\ job'[y] = job[y]
    BY DEF IInv, TypeOK
  <2>2. pc'[x] = "idle" /\ job'[x] = NoJob
    BY DEF IInv, TypeOK
  <2>3. /\ target' \in Ids /\ was' \in SUBSET Revisions /\ returned' \in BOOLEAN
        /\ Lineage'
    BY <1>3, <2>1, <2>2, ReplaceStep DEF NoJob
  <2>4. TypeOK'
    BY <1>1, <2>3, ConstantFacts DEF IInv, TypeOK, Labels, PublishLabels
  <2>5. LocksAreHeld'
    BY <2>1, <2>2, ConstantFacts DEF IInv, TypeOK, LocksAreHeld, Publication
  <2>6. WritersAreCurrent'
    BY <2>1, <2>2 DEF IInv, WritersAreCurrent, LocksAreHeld
  <2>7. ConfirmsPending'
    BY <2>1, <2>2, ConstantFacts DEF IInv, ConfirmsPending, Publication
  <2> QED BY <2>3, <2>4, <2>5, <2>6, <2>7 DEF IInv
<1> QED BY <1>2, <1>3 DEF WriteFails

LEMMA ConsumeStep ==
  ASSUME IInv, NEW t \in Turns, Consume(t) PROVE IInv'
<1> USE DEF Consume, Leave, Work, Goto, file
<1>1. \A y \in Processes : y # t => pc'[y] = pc[y] /\ job'[y] = job[y]
  BY DEF IInv, TypeOK
<1>2. pc'[t] = "idle" /\ job'[t] = NoJob
  BY ConstantFacts DEF IInv, TypeOK
<1>3. /\ review' \in [Principals -> Reviews]
      /\ \A p \in Principals :
           /\ review'[p].cand = review[p].cand /\ review'[p].base = review[p].base
           /\ p # PrincipalOf[t] => review'[p] = review[p]
  BY DEF IInv, TypeOK, Reviews
<1>4. TypeOK'
  BY <1>3, ConstantFacts DEF IInv, TypeOK, Labels, PublishLabels
<1>5. LocksAreHeld'
  BY <1>1, <1>2, ConstantFacts DEF IInv, TypeOK, LocksAreHeld, Publication
<1>6. WritersAreCurrent'
  BY <1>1, <1>2, ConstantFacts DEF IInv, WritersAreCurrent
<1>7. ConfirmsPending'
  <2>1. ASSUME NEW u \in Turns, pc'[u] \in Publication
        PROVE  /\ review'[PrincipalOf[u]] = review[PrincipalOf[u]]
               /\ pc[u] \in Publication /\ job'[u] = job[u]
    BY <1>1, <1>2, <1>3, <2>1, ConstantFacts DEF IInv, LocksAreHeld, Publication
  <2> HIDE DEF Consume, Leave, Work, Goto, file
  <2> QED BY <2>1 DEF IInv, ConfirmsPending
<1>8. Lineage'
  BY <1>1, <1>2, <1>3, LineageOfJobs DEF NoJob
<1> QED BY <1>4, <1>5, <1>6, <1>7, <1>8 DEF IInv

LEMMA Inductive == IInv /\ [Next]_vars => IInv'
<1> SUFFICES ASSUME IInv, [Next]_vars PROVE IInv'
  OBVIOUS
<1>1. CASE \E t \in Turns : TurnStep(t)
  <2>1. PICK t \in Turns : TurnStep(t)
    BY <1>1
  <2>2. CASE LockForSave(t) \/ LockForConfirm(t)
    BY <2>2, TakeLockStep DEF LockForSave, LockForConfirm
  <2>3. CASE ConsumeFails(t)
    BY <2>3, LeaveStep, ConstantFacts DEF ConsumeFails, Fault, IInv, TypeOK
  <2> QED BY <2>1, <2>2, <2>3, InspectStep, ClearExpiredStep, SaveStep, LoadStep, ConsumeStep
          DEF TurnStep
<1>2. CASE \E o \in Operators : OperatorPreview(o)
  BY <1>2, OperatorPreviewStep
<1>3. CASE \E x \in Processes : PublishStep(x)
  <2>1. PICK x \in Processes : PublishStep(x)
    BY <1>3
  <2>2. CASE Crash(x)
    BY <2>2, LeaveStep, ConstantFacts DEF Crash, Fault, IInv, TypeOK
  <2> QED BY <2>1, <2>2, CheckStep, LockDirectoryStep, RecheckStep, WriteStep, WriteFailsStep
          DEF PublishStep
<1>4. CASE Tick
  <2>1. now' \in 0..MaxTime
    BY <1>4, ConstantFacts DEF Tick, IInv, TypeOK
  <2>2. Lineage'
    BY <1>4, LineageOfJobs DEF Tick
  <2> QED BY <1>4, <2>1, <2>2 DEF Tick, IInv, TypeOK, LocksAreHeld, WritersAreCurrent,
                           ConfirmsPending, file, locks
<1>5. CASE UNCHANGED vars
  <2>1. Lineage'
    BY <1>5, LineageOfJobs DEF vars
  <2> QED BY <1>5, <2>1 DEF vars, IInv, TypeOK, LocksAreHeld, WritersAreCurrent,
                      ConfirmsPending, file, locks
<1> QED BY <1>1, <1>2, <1>3, <1>4, <1>5 DEF Next

LEMMA Invariance == Spec => []IInv
  BY InitInvariant, Inductive, PTL DEF Spec

-----------------------------------------------------------------------------
(* Theorems *)

\* Snapshot, reviews, locks and processes are well-formed.
THEOREM Typing == Spec => []TypeOK
<1>1. IInv => TypeOK
  BY DEF IInv
<1> QED BY <1>1, Invariance, PTL

\* The snapshot is only replaced by somebody at the write.
LEMMA OnlyWritersReplace ==
  ASSUME IInv, [Next]_vars, target' # target
  PROVE  \E x \in Processes :
           /\ pc[x] = "write" /\ target' = job[x].cand /\ Replace(x) /\ pc'[x] # "write"
           /\ \A y \in Processes : y # x => pc'[y] = pc[y]
<1>1. PICK x \in Processes : Write(x) \/ WriteFails(x)
  BY DEF Next, vars, file, TurnStep, PublishStep, Inspect, LockForSave, LockForConfirm, TakeLock,
         ClearExpired, Save, Load, Consume, ConsumeFails, OperatorPreview, Check,
         LockDirectory, Recheck, Crash, Tick
<1>2. pc[x] = "write" /\ Replace(x)
  BY <1>1 DEF Write, WriteFails, file
<1>3. pc'[x] # "write" /\ \A y \in Processes : y # x => pc'[y] = pc[y]
  BY <1>1 DEF Write, WriteFails, Published, Leave, Work, Goto, IInv, TypeOK
<1> QED BY <1>2, <1>3 DEF Replace

\* Nobody overwrites a snapshot he has not compared his candidate with.
THEOREM NothingIsLost == Spec => NoLostUpdate
<1> DEFINE A == target' # target => \E x \in Processes : Publishes(x) /\ job[x].base = target
<1>1. IInv /\ [Next]_vars => [A]_vars
  BY OnlyWritersReplace DEF IInv, WritersAreCurrent, Publishes
<1> QED BY <1>1, Invariance, PTL DEF Spec, NoLostUpdate

\* A confirmation publishes the review that is pending then, from another turn
\* of its session.
THEOREM ConfirmsWhatIsPending == Spec => PublishesLatestPreview
<1> DEFINE A == \A t \in Turns : Publishes(t) =>
                  LET r == review[PrincipalOf[t]] IN
                    /\ r.cand = target' /\ ~r.consumed
                    /\ r.turn # t /\ SessionOf[r.turn] = SessionOf[t]
<1>1. IInv /\ [Next]_vars => [A]_vars
  <2> SUFFICES ASSUME IInv, [Next]_vars, NEW t \in Turns, Publishes(t)
               PROVE  LET r == review[PrincipalOf[t]] IN
                        /\ r.cand = target' /\ ~r.consumed
                        /\ r.turn # t /\ SessionOf[r.turn] = SessionOf[t]
    OBVIOUS
  <2>1. target' = job[t].cand /\ pc[t] = "write"
    BY OnlyWritersReplace, ConstantFacts DEF Publishes
  <2> QED BY <2>1 DEF IInv, ConfirmsPending, Publication
<1> QED BY <1>1, Invariance, PTL DEF Spec, PublishesLatestPreview

\* A confirmed review takes effect once, as long as no operator brings an old
\* file back.
THEOREM TakesEffectOnce == Spec => PublishedOnce
<1> DEFINE A == target' # target /\ ~returned' => target' \notin was
<1>1. IInv /\ [Next]_vars => [A]_vars
  <2> SUFFICES ASSUME IInv, [Next]_vars, target' # target, ~returned' PROVE target' \notin was
    OBVIOUS
  <2>1. PICK x \in Processes : pc[x] = "write" /\ target' = job[x].cand /\ Replace(x)
    BY OnlyWritersReplace
  <2>2. ~returned /\ job[x].base = target
    BY <2>1 DEF Replace, IInv, WritersAreCurrent
  <2>3. CASE x \in Turns
    <3>1. <<job[x].cand, target>> \in OfTurns
      BY <2>2, <2>3 DEF OfTurns
    <3> QED BY <2>1, <2>2, <3>1 DEF IInv, Lineage, ReplacedIsGone
  <2>4. CASE x \in Operators
    BY <2>1, <2>4 DEF Replace
  <2> QED BY <2>3, <2>4 DEF Processes
<1> QED BY <1>1, Invariance, PTL DEF Spec, PublishedOnce
=============================================================================
