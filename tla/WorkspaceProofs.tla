--------------------------- MODULE WorkspaceProofs ---------------------------
(***************************************************************************)
(* What holds of a workspace, of everything stored for it and of its end,  *)
(* for any number of uploads, records, attempts, stalls and exits.         *)
(*                                                                         *)
(* The invariant is what IntakeReservation keeps (IntakeInv), and what the *)
(* end of the workspace comes to (Ended): no job of it is left, what may   *)
(* still be stored after the quiesce time was being written when it ended, *)
(* and the objects are only removed then.                                  *)
(*                                                                         *)
(* Two more rest on it.  Read: an upload only reports an answer that some  *)
(* record bears out.  ExportInv: how far a build has got is on record, and *)
(* a sweep is only at work when nobody wants the archive any more; it      *)
(* needs that no build overlaps another (stalls = 0), since a second build *)
(* that finds the export ready discards the archive of the first.          *)
(***************************************************************************)
EXTENDS Workspace, IntakeReservationProofs

Work == WorkTypeOK(Steps, {0})

\* The objects are removed, which is on record or about to be.
Purged == request.purged \/ \E h \in handlers : h.at = "purged"

\* What is left of a workspace that was deleted.
Ended ==
  /\ workspace = "gone" => \A j \in TeamJobs : outcome[j] = "absent"
  /\ quiet => workspace = "gone" /\ UnderWay \subseteq unfinished
  /\ Purged => quiet /\ objects \subseteq unfinished

Inv == WorkspaceTypeOK /\ IntakeInv /\ Ended

-----------------------------------------------------------------------------
(* Jobs and handlers.                                                        *)

LEMMA JobsOfWorkspace ==
  /\ Jobs = WorkspaceJobs /\ MailJob \in Jobs /\ ExportJob \in Jobs
  /\ FirstPurge \in PurgeJobs /\ WaitingPurge \in PurgeJobs
  /\ PurgeJobs \subseteq Jobs /\ MailJob # ExportJob
  /\ MailJob \notin PurgeJobs /\ ExportJob \notin PurgeJobs
  /\ TeamJobs \subseteq Jobs
BY WorkspaceAssumption
   DEF WorkspaceJobs, TeamJobs, MailJob, ExportJob, PurgeJobs, FirstPurge, WaitingPurge

LEMMA HandlerFacts ==
  ASSUME Inv, NEW h \in handlers
  PROVE  /\ Work /\ h.job \in WorkspaceJobs /\ MailUploader(h) \in Uploaders
         /\ MailUploader(h)[1] = "mail"
<1>1. Work /\ h.job \in Jobs /\ h.slot \in 0 .. MaxStalls
  BY DEF Inv, WorkspaceTypeOK, Work, WorkTypeOK, Handler
<1> QED BY <1>1, WorkspaceAssumption DEF MailUploader

\* A handler that goes on has the same job.
LEMMA GoesSameJob ==
  ASSUME Inv, NEW h \in handlers, NEW at, Goes(h, at)
  PROVE  \A t \in handlers' : \E g \in handlers : t.job = g.job
<1>1. h \in Handler(Steps, {0})
  BY DEF Inv, WorkspaceTypeOK, WorkTypeOK
<1>2. [h EXCEPT !.at = at].job = h.job
  BY <1>1 DEF Handler
<1> QED BY <1>2 DEF Goes, Becomes

\* The runner does not bring back a job that is gone.
LEMMA RunnerKeepsAbsent ==
  ASSUME Inv, NEW j \in Jobs, outcome[j] = "absent",
         \/ \E k \in Jobs : Reap(k) \/ \E at, seen : Begin(k, at, seen)
         \/ \E h \in handlers : SettleJob(h) \/ Vanish(h)
         \/ UNCHANGED jobVars
  PROVE  outcome'[j] = "absent"
<1>1. DOMAIN outcome = Jobs
  BY DEF Inv, WorkspaceTypeOK, WorkTypeOK
<1>2. ASSUME NEW k \in Jobs, Reap(k) PROVE outcome'[j] = "absent"
  BY <1>2 DEF Reap, Queue!GiveUp
<1>3. ASSUME NEW k \in Jobs, NEW at, NEW seen, Begin(k, at, seen)
      PROVE  outcome'[j] = "absent"
  BY <1>3 DEF Begin, Queue!GiveUp
<1>4. ASSUME NEW h \in handlers, SettleJob(h) \/ Vanish(h) PROVE outcome'[j] = "absent"
  BY <1>1, <1>4 DEF SettleJob, Vanish, Queue!Succeed, Queue!Fail, Queue!HandBack, jobVars
<1> QED BY <1>2, <1>3, <1>4 DEF jobVars

-----------------------------------------------------------------------------
(* Documents.                                                                *)

LEMMA ElsewhereKeepsIntake ==
  ASSUME IntakeInv, UNCHANGED <<intakeVars, storageVars>> PROVE IntakeInv'
BY OthersStored DEF IntakeInv, IntakeTyped, StorageTypeOK, storageVars

LEMMA ArchiveIsNoDocument ==
  /\ Archive \in Paths /\ \A r \in Records : Archive # Document(r)
BY WorkspaceAssumption DEF Archive, Document

LEMMA ArchiveKeepsIntake ==
  ASSUME IntakeInv, UNCHANGED <<intakeVars, workspace, late>>,
         objects' \in {objects, objects \cup {Archive}, objects \ {Archive}}
  PROVE  IntakeInv'
<1>1. objects' \in SUBSET Paths
  BY ArchiveIsNoDocument DEF IntakeInv, IntakeTyped, StorageTypeOK
<1>2. \A r \in Records : Document(r) \in objects' <=> Document(r) \in objects
  BY ArchiveIsNoDocument
<1> QED BY <1>1, <1>2, OthersStored

\* Without the workspace no record is left.
LEMMA NoRecordsLeft ==
  ASSUME IntakeInv, IntakeTyped', workspace' = "gone", attempts' = attempts,
         removals' = removals, \A r \in Records : records'[r].state = "gone"
  PROVE  IntakeInv'
<1>1. ASSUME NEW u \in Uploaders PROVE Knows(u)'
  <2>1. Knows(u)
    BY DEF IntakeInv
  <2> QED BY <2>1 DEF Knows, Records, Document
<1>2. \A c \in removals : c[2] \in Records
  BY DEF IntakeInv, IntakeTyped, IntakeTypeOK
<1> QED BY <1>1, <1>2 DEF IntakeInv, AcceptedStored, Records

LEMMA DeletionKeepsIntake ==
  ASSUME IntakeInv, DeleteWorkspace PROVE IntakeInv'
<1>1. [NoRecord EXCEPT !.state = "gone"] \in Record
      /\ [NoRecord EXCEPT !.state = "gone"].state = "gone"
  BY DEF NoRecord, Record
<1>2. records' \in [Records -> Record] /\ \A r \in Records : records'[r].state = "gone"
  BY <1>1 DEF DeleteWorkspace, Records
<1>3. IntakeTyped'
  BY <1>2 DEF DeleteWorkspace, IntakeInv, IntakeTyped, IntakeTypeOK, StorageTypeOK
<1> QED BY <1>2, <1>3, NoRecordsLeft DEF DeleteWorkspace

LEMMA PurgeKeepsIntake ==
  ASSUME Inv, NEW h \in handlers, PurgeStep(h), UNCHANGED intakeVars PROVE IntakeInv'
<1>1. CASE objects' = {} /\ PurgeDue /\ UNCHANGED <<workspace, late>>
  <2>1. workspace = "gone" /\ \A r \in Records : records[r].state = "gone"
    BY <1>1 DEF Inv, Ended, PurgeDue, WorkspaceTypeOK
  <2>2. IntakeTyped'
    BY <1>1 DEF Inv, IntakeInv, IntakeTyped, IntakeTypeOK, StorageTypeOK, intakeVars
  <2> QED BY <1>1, <2>1, <2>2, NoRecordsLeft DEF Inv, intakeVars
<1>2. CASE UNCHANGED storageVars
  BY <1>2, ElsewhereKeepsIntake DEF Inv
<1> QED BY <1>1, <1>2
        DEF PurgeStep, BeginPurge, Revoke, Purge, RecordPurge, Complete, GiveUpPurge,
            storageVars

LEMMA BuildKeepsIntake ==
  ASSUME IntakeInv, NEW h \in handlers, BuildStep(h), UNCHANGED intakeVars
  PROVE  IntakeInv'
<1>1. /\ UNCHANGED <<workspace, late>>
      /\ objects' \in {objects, objects \cup {Archive}, objects \ {Archive}}
  BY DEF BuildStep, BeginBuild, RecordArchive, StoreArchive, Publish, GiveUpBuild,
         storageVars
<1> QED BY <1>1, ArchiveKeepsIntake

LEMMA MailKeepsIntake ==
  ASSUME Inv, NEW h \in handlers, MailStep(h) PROVE IntakeInv'
<1>1. \/ UNCHANGED <<intakeVars, storageVars>>
      \/ /\ Upload(MailUploader(h)) \/ Forget(MailUploader(h))
         /\ UNCHANGED <<records, removals, storageVars>>
  BY DEF MailStep, LoadMail, TakeMail, SettleMail, intakeVars
<1>2. MailUploader(h) \in Uploaders
  BY HandlerFacts
<1> QED BY <1>1, <1>2, ElsewhereKeepsIntake, IdleKeeps DEF Inv

LEMMA HandlersKeepIntake ==
  ASSUME Inv, NEW h \in handlers, HandlerStep(h) \/ Vanished(h) PROVE IntakeInv'
<1>1. CASE MailStep(h)
  BY <1>1, MailKeepsIntake
<1>2. CASE BuildStep(h) /\ UNCHANGED intakeVars
  BY <1>2, BuildKeepsIntake DEF Inv
<1>3. CASE PurgeStep(h) /\ UNCHANGED intakeVars
  BY <1>3, PurgeKeepsIntake
<1>4. CASE Settled(h)
  BY <1>4, ElsewhereKeepsIntake DEF Inv, Settled
<1>5. CASE Vanished(h)
  <2>1. CASE h.at = "take"
    <3>1. MailUploader(h) \in Uploaders
      BY HandlerFacts
    <3> QED BY <1>5, <2>1, <3>1, CutShortKeeps DEF Inv, Vanished, Abandon
  <2>2. CASE h.at # "take"
    BY <1>5, <2>2, ElsewhereKeepsIntake DEF Inv, Vanished, intakeVars, storageVars
  <2> QED BY <2>1, <2>2
<1> QED BY <1>1, <1>2, <1>3, <1>4, <1>5 DEF HandlerStep

LEMMA RequestsKeepIntake ==
  ASSUME Inv, Asked \/ OwnerActs \/ Reconcile PROVE IntakeInv'
<1>1. ASSUME NEW u \in Uploaders, Uploading(u) PROVE IntakeInv'
  BY <1>1, IdleKeeps DEF Inv, Uploading
<1>2. ASSUME NEW r \in Records, Delete(r) \/ ClaimStale(r) PROVE IntakeInv'
  BY <1>2, DeleteKeeps, ClaimKeeps DEF Inv, ClaimStale
<1>3. CASE DeleteWorkspace
  BY <1>3, DeletionKeepsIntake DEF Inv
<1>4. CASE UNCHANGED <<intakeVars, storageVars>>
  BY <1>4, ElsewhereKeepsIntake DEF Inv
<1>5. Reopen \/ Reconcile => UNCHANGED <<intakeVars, storageVars>>
  BY DEF Reopen, Reconcile, ListMail, FailListedMail, FailStalledExport
<1>6. OwnerActs => DeleteWorkspace \/ UNCHANGED <<intakeVars, storageVars>>
  BY DEF OwnerActs, RequestExport, Resume
<1> QED BY <1>1, <1>2, <1>3, <1>4, <1>5, <1>6 DEF Asked

LEMMA BackgroundKeepsIntake ==
  ASSUME Inv, Background, \A h \in handlers : ~Vanished(h) PROVE IntakeInv'
<1>1. CASE CleanUp
  BY <1>1, CleanUpKeeps DEF Inv
<1>2. ASSUME NEW path \in Paths, Land(path), UNCHANGED intakeVars PROVE IntakeInv'
  BY <1>2, LandKeeps DEF Inv
<1>3. CASE DropSource \/ QuiesceEnds
  BY <1>3, ElsewhereKeepsIntake DEF Inv, DropSource, QuiesceEnds
<1>4. CASE ExportSweep /\ UNCHANGED intakeVars
  <2>1. /\ UNCHANGED <<workspace, late>>
        /\ objects' \in {objects, objects \cup {Archive}, objects \ {Archive}}
    BY <1>4 DEF ExportSweep, ListExpired, RemoveArchive, MarkExpired, ExpiryPasses,
                storageVars
  <2> QED BY <1>4, <2>1, ArchiveKeepsIntake DEF Inv
<1>5. CASE Disturbed
  BY <1>5, CutShortKeeps, LeaseEndsKeeps DEF Inv, Disturbed, Abandon
<1> QED BY <1>1, <1>2, <1>3, <1>4, <1>5 DEF Background

LEMMA NextKeepsIntake ==
  ASSUME Inv, [Next]_vars PROVE IntakeInv'
<1>1. ASSUME NEW j \in WorkspaceJobs, Started(j) \/ Reaped(j) PROVE IntakeInv'
  BY <1>1, ElsewhereKeepsIntake DEF Inv, Started, Reaped
<1>2. ASSUME NEW u \in Uploaders, AttemptGoesOn(u) PROVE IntakeInv'
  BY <1>2, AttemptKeeps DEF Inv, AttemptGoesOn
<1>3. CASE UNCHANGED vars
  BY <1>3, ElsewhereKeepsIntake DEF Inv, vars
<1> QED BY <1>1, <1>2, <1>3, HandlersKeepIntake, RequestsKeepIntake, BackgroundKeepsIntake
        DEF Next

\* A workspace ends by its deletion alone.
LEMMA WorkspaceEndsOnce ==
  ASSUME [Next]_vars, workspace' # workspace PROVE DeleteWorkspace
BY DEF Next, Asked, OwnerActs, Background, Reconcile, Started, Reaped, HandlerStep,
       Settled, AttemptGoesOn, Vanished, Disturbed, QuiesceEnds, vars, storageVars,
       Uploading, Delete, ClaimStale, Claim, Reopen, RequestExport, Resume, CleanUp,
       ClaimPending, Settle, Expire, LeaseEnds, RemoveObject, Clear, Land, DropSource,
       ExportSweep, ListExpired, RemoveArchive, MarkExpired, ExpiryPasses, ListMail,
       FailListedMail, FailStalledExport, MailStep, LoadMail, TakeMail, SettleMail,
       BuildStep, BeginBuild, RecordArchive, StoreArchive, Publish, GiveUpBuild,
       PurgeStep, BeginPurge, Revoke, Purge, RecordPurge, Complete, GiveUpPurge, AttemptStep,
       Find,
       Reserve, Lease, StoreBytes, RecordIntent, Accept

-----------------------------------------------------------------------------
(* The end of a workspace.                                                   *)

\* An upload or a build that is about to store something.
WritingUpload(u) == At(u, "store")
WritingBuild(h) == h.job = ExportJob /\ h.at \in {"record", "store"}

LEMMA WritesAreUnderWay ==
  ASSUME Inv
  PROVE  /\ late \subseteq UnderWay
         /\ \A u \in Uploaders :
              WritingUpload(u) => Document(attempts[u].of) \in UnderWay
         /\ \A h \in handlers : WritingBuild(h) => Archive \in UnderWay
<1>1. late \subseteq Paths /\ \A u \in Uploaders : Knows(u)
  BY DEF Inv, IntakeInv, IntakeTyped, StorageTypeOK
<1>2. \A u \in Uploaders : WritingUpload(u) => Document(attempts[u].of) \in Paths
  BY <1>1, IntakeAssumption DEF Knows, WritingUpload, At
<1> QED BY <1>1, <1>2, ArchiveIsNoDocument
        DEF UnderWay, WritingUpload, WritingBuild, HandlersOf

\* Nothing new is written if nobody starts to write.
LEMMA NoNewWrites ==
  ASSUME Inv, late' \subseteq UnderWay,
         \A u \in Uploaders :
           WritingUpload(u)' => WritingUpload(u) /\ attempts'[u] = attempts[u],
         \A h \in handlers' :
           WritingBuild(h) => \E g \in handlers : WritingBuild(g)
  PROVE  UnderWay' \subseteq UnderWay
<1> SUFFICES ASSUME NEW path \in UnderWay' PROVE path \in UnderWay
  OBVIOUS
<1>1. CASE path \in late'
  BY <1>1
<1>2. CASE \E u \in Uploaders : At(u, "store")' /\ path = Document(attempts'[u].of)
  BY <1>2, WritesAreUnderWay DEF WritingUpload
<1>3. CASE path = Archive /\ \E h \in handlers' : WritingBuild(h)
  BY <1>3, WritesAreUnderWay
<1> QED BY <1>1, <1>2, <1>3 DEF UnderWay, WritingBuild, HandlersOf

\* An upload that is forgotten, or begun again, writes nothing.
LEMMA IdleWritesNothing ==
  ASSUME Inv, NEW u \in Uploaders, Forget(u) \/ Upload(u)
  PROVE  \A v \in Uploaders :
           WritingUpload(v)' => WritingUpload(v) /\ attempts'[v] = attempts[v]
<1>1. attempts \in [Uploaders -> Attempt] /\ Idle.at = "idle" /\ Begun.at = "find"
  BY DEF Inv, IntakeInv, IntakeTyped, IntakeTypeOK, Idle, Begun
<1> QED BY <1>1 DEF Forget, Upload, WritingUpload, At

LEMMA AbandonedWrites ==
  ASSUME Inv, NEW u \in Uploaders, Abandon(u)
  PROVE  /\ late' \subseteq UnderWay /\ objects' = objects
         /\ \A v \in Uploaders :
              WritingUpload(v)' => WritingUpload(v) /\ attempts'[v] = attempts[v]
BY WritesAreUnderWay, IdleWritesNothing DEF Abandon, GiveUpStoring, WritingUpload

\* A step of an attempt when no record is left to take a lease on.
LEMMA AttemptWritesNothingNew ==
  ASSUME Inv, workspace = "gone", NEW u \in Uploaders, AttemptStep(u)
  PROVE  /\ late' \subseteq UnderWay /\ objects' \subseteq objects \cup UnderWay
         /\ \A v \in Uploaders :
              WritingUpload(v)' => WritingUpload(v) /\ attempts'[v] = attempts[v]
<1>0. /\ attempts \in [Uploaders -> Attempt] /\ Knows(u) /\ Idle.at = "idle"
      /\ \A r \in Records : records[r].state = "gone"
  BY DEF Inv, WorkspaceTypeOK, IntakeInv, IntakeTyped, IntakeTypeOK, Idle
<1>1. \A v \in Uploaders \ {u} : attempts'[v] = attempts[v]
  BY <1>0 DEF AttemptStep, Find, Reserve, Lease, StoreBytes, RecordIntent, Accept, Goto,
              Result, Forget
<1>2. attempts'[u].at # "store"
  <2>1. CASE Lease(u)
    <3>1. Of(u).state # "reserved"
      BY <1>0, <2>1 DEF Lease, Of, At, Knows
    <3> QED BY <1>0, <2>1, <3>1 DEF Lease, Result, Forget, Attempt
  <2>2. CASE Find(u) \/ Reserve(u)
    BY <1>0, <2>2 DEF Find, Reserve, Goto, Result, Forget, Attempt
  <2>3. CASE StoreBytes(u) \/ RecordIntent(u) \/ Accept(u)
    BY <1>0, <2>3 DEF StoreBytes, RecordIntent, Accept, Goto, Result, Forget, Attempt
  <2> QED BY <2>1, <2>2, <2>3 DEF AttemptStep
<1>3. late' \subseteq UnderWay /\ objects' \subseteq objects \cup UnderWay
  <2>1. CASE StoreBytes(u)
    BY <2>1, WritesAreUnderWay DEF StoreBytes, Store, GiveUpStoring, WritingUpload
  <2>2. CASE UNCHANGED <<objects, late>>
    BY <2>2, WritesAreUnderWay
  <2> QED BY <2>1, <2>2
          DEF AttemptStep, Find, Reserve, Lease, RecordIntent, Accept, storageVars
<1> QED BY <1>1, <1>2, <1>3 DEF WritingUpload, At

\* A step of a handler other than of a build does not make it one that writes.
LEMMA OtherHandlersWriteNothing ==
  ASSUME Inv, NEW h \in handlers, h.job # ExportJob, NEW at, Goes(h, at)
  PROVE  \A t \in handlers' : WritingBuild(t) => \E g \in handlers : WritingBuild(g)
<1>1. h \in Handler(Steps, {0})
  BY DEF Inv, WorkspaceTypeOK, WorkTypeOK
<1>2. [h EXCEPT !.at = at].job = h.job
  BY <1>1 DEF Handler
<1> QED BY <1>2 DEF Goes, Becomes, WritingBuild

\* A build only goes on to store what it has begun while the request was there.
LEMMA BuildWritesNothingNew ==
  ASSUME Inv, workspace = "gone", NEW h \in handlers, h.job = ExportJob, BuildStep(h)
  PROVE  /\ late' = late /\ objects' \subseteq objects \cup UnderWay
         /\ \A t \in handlers' : WritingBuild(t) => \E g \in handlers : WritingBuild(g)
<1>1. h \in Handler(Steps, {0}) /\ ~Active
  BY DEF Inv, WorkspaceTypeOK, WorkTypeOK, Active
<1>2. \A at : [h EXCEPT !.at = at].at = at
  BY <1>1 DEF Handler
<1>3. CASE WritingBuild(h)
  <2>1. Archive \in UnderWay
    BY <1>3, WritesAreUnderWay
  <2> QED BY <1>3, <2>1 DEF BuildStep, BeginBuild, RecordArchive, StoreArchive, Publish,
                            GiveUpBuild, storageVars
<1>4. CASE ~WritingBuild(h)
  <2>1. ~RecordArchive(h) /\ ~StoreArchive(h)
    BY <1>4 DEF WritingBuild, RecordArchive, StoreArchive
  <2>2. PICK at \in (Steps \cup Ends) \ {"record", "store"} : Goes(h, at)
    BY <1>1, <2>1 DEF BuildStep, BeginBuild, Publish, GiveUpBuild, BuildFails, Steps, Ends
  <2>3. \A t \in handlers' : WritingBuild(t) => \E g \in handlers : WritingBuild(g)
    BY <1>2, <2>2 DEF Goes, Becomes, WritingBuild
  <2> QED BY <2>1, <2>3 DEF BuildStep, BeginBuild, Publish, GiveUpBuild, storageVars
<1> QED BY <1>3, <1>4

\* No step after the deletion starts a write, and what comes to be stored was
\* being written already.
LEMMA WritesDwindle ==
  ASSUME Inv, workspace = "gone", [Next]_vars
  PROVE  UnderWay' \subseteq UnderWay /\ objects' \subseteq objects \cup UnderWay
<1>0. /\ \A j \in TeamJobs : outcome[j] = "absent"
      /\ late \subseteq UnderWay
  BY WritesAreUnderWay DEF Inv, Ended
<1>1. CASE UNCHANGED <<attempts, handlers, late>> /\ objects' \subseteq objects
  BY <1>0, <1>1, NoNewWrites DEF WritingUpload, At
<1>2. CASE Asked
  <2>1. ~Reopen /\ \A u \in Uploaders : ~Uploading(u)
    BY <1>0 DEF Reopen, Uploading, TeamJobs
  <2> QED BY <1>1, <1>2, <2>1
          DEF Asked, Delete, ClaimStale, Claim, workVars, storageVars
<1>3. CASE OwnerActs
  <2>1. ~RequestExport /\ ~DeleteWorkspace
    BY DEF RequestExport, DeleteWorkspace
  <2> QED BY <1>1, <1>3, <2>1 DEF OwnerActs, Resume, intakeVars, storageVars
<1>4. CASE Reconcile
  BY <1>1, <1>4 DEF Reconcile, ListMail, FailListedMail, FailStalledExport, workVars,
                    intakeVars, storageVars
<1>5. CASE Background /\ \A h \in handlers : ~Vanished(h)
  <2>1. CASE CleanUp /\ UNCHANGED workVars
    BY <1>1, <2>1 DEF CleanUp, ClaimPending, Claim, Settle, Expire, LeaseEnds,
                      RemoveObject, Clear, Remove, workVars, storageVars
  <2>2. ASSUME NEW path \in Paths, Land(path), UNCHANGED <<intakeVars, workVars>>
        PROVE  UnderWay' \subseteq UnderWay /\ objects' \subseteq objects \cup UnderWay
    <3>1. late' \subseteq UnderWay /\ objects' \subseteq objects \cup UnderWay
      BY <1>0, <2>2 DEF Land
    <3> QED BY <2>2, <3>1, NoNewWrites DEF WritingUpload, At, intakeVars, workVars
  <2>3. CASE DropSource \/ QuiesceEnds \/ (ExportSweep /\ UNCHANGED intakeVars)
    BY <1>1, <2>3 DEF DropSource, QuiesceEnds, ExportSweep, ListExpired, RemoveArchive,
                      MarkExpired, ExpiryPasses, workVars, intakeVars, storageVars
  <2>4. CASE Disturbed
    <3>1. CASE \E u \in Uploaders : Abandon(u)
      BY <2>4, <3>1, AbandonedWrites, NoNewWrites DEF Disturbed
    <3>2. CASE \E r \in Records : LeaseEnds(r)
      BY <1>1, <2>4, <3>2 DEF Disturbed, LeaseEnds, storageVars
    <3> QED BY <2>4, <3>1, <3>2 DEF Disturbed
  <2> QED BY <1>5, <2>1, <2>2, <2>3, <2>4 DEF Background
<1>6. ASSUME NEW h \in handlers, Vanished(h)
      PROVE  UnderWay' \subseteq UnderWay /\ objects' \subseteq objects \cup UnderWay
  <2>1. handlers' \subseteq handlers
    BY <1>6 DEF Vanished, Vanish
  <2>2. CASE h.at = "take"
    BY <1>6, <2>1, <2>2, HandlerFacts, AbandonedWrites, NoNewWrites DEF Vanished
  <2>3. CASE h.at # "take"
    BY <1>0, <1>6, <2>1, <2>3, NoNewWrites DEF Vanished, WritingUpload, At
  <2> QED BY <2>2, <2>3
<1>7. ASSUME NEW j \in WorkspaceJobs, Started(j) \/ Reaped(j)
      PROVE  UnderWay' \subseteq UnderWay /\ objects' \subseteq objects \cup UnderWay
  <2>1. UNCHANGED <<attempts, late, objects>>
    BY <1>7 DEF Started, Reaped, storageVars, intakeVars
  <2>2. \A h \in handlers' : h \in handlers \/ h.at = "load"
    BY <1>7 DEF Started, Reaped, Begin, Reap
  <2> QED BY <1>0, <2>1, <2>2, NoNewWrites DEF WritingUpload, WritingBuild, At
<1>8. ASSUME NEW h \in handlers, HandlerStep(h)
      PROVE  UnderWay' \subseteq UnderWay /\ objects' \subseteq objects \cup UnderWay
  <2>1. CASE h.job = MailJob /\ MailStep(h)
    <3>1. /\ UNCHANGED <<objects, late>>
          /\ attempts' = attempts \/ Upload(MailUploader(h)) \/ Forget(MailUploader(h))
      BY <2>1 DEF MailStep, LoadMail, TakeMail, SettleMail, intakeVars, storageVars
    <3>2. \A u \in Uploaders :
            WritingUpload(u)' => WritingUpload(u) /\ attempts'[u] = attempts[u]
      BY <3>1, HandlerFacts, IdleWritesNothing DEF WritingUpload, At
    <3>3. \E at : Goes(h, at)
      BY <2>1 DEF MailStep, LoadMail, TakeMail, SettleMail, MailFails
    <3> QED BY <1>0, <2>1, <3>1, <3>2, <3>3, JobsOfWorkspace, OtherHandlersWriteNothing,
               NoNewWrites
  <2>2. CASE h.job = ExportJob /\ BuildStep(h) /\ UNCHANGED intakeVars
    BY <1>0, <2>2, BuildWritesNothingNew, NoNewWrites DEF WritingUpload, At, intakeVars
  <2>3. CASE h.job \in PurgeJobs /\ PurgeStep(h) /\ UNCHANGED intakeVars
    <3>1. late' = late /\ objects' \subseteq objects
      BY <2>3 DEF PurgeStep, BeginPurge, Revoke, Purge, RecordPurge, Complete, GiveUpPurge,
                  storageVars
    <3>2. \E at : Goes(h, at)
      BY <2>3 DEF PurgeStep, BeginPurge, Revoke, Purge, RecordPurge, Complete, GiveUpPurge,
                  PurgeFails
    <3> QED BY <1>0, <2>3, <3>1, <3>2, JobsOfWorkspace, OtherHandlersWriteNothing,
               NoNewWrites DEF WritingUpload, At, intakeVars
  <2>4. CASE Settled(h)
    <3>1. handlers' \subseteq handlers /\ UNCHANGED <<attempts, late, objects>>
      BY <2>4 DEF Settled, SettleJob, storageVars, intakeVars
    <3> QED BY <1>0, <3>1, NoNewWrites DEF WritingUpload, At
  <2> QED BY <1>8, <2>1, <2>2, <2>3, <2>4 DEF HandlerStep
<1>9. ASSUME NEW u \in Uploaders, AttemptGoesOn(u)
      PROVE  UnderWay' \subseteq UnderWay /\ objects' \subseteq objects \cup UnderWay
  BY <1>9, AttemptWritesNothingNew, NoNewWrites DEF AttemptGoesOn, workVars
<1>10. CASE UNCHANGED vars
  BY <1>1, <1>10 DEF vars, workVars, storageVars, intakeVars
<1> QED BY <1>2, <1>3, <1>4, <1>5, <1>6, <1>7, <1>8, <1>9, <1>10 DEF Next

\* Only the purge's own jobs are recorded once the workspace is gone.
LEMMA TeamJobsStayAbsent ==
  ASSUME Inv, workspace = "gone", [Next]_vars, NEW j \in TeamJobs
  PROVE  outcome'[j] = "absent"
<1>0. /\ outcome[j] = "absent" /\ outcome[MailJob] = "absent" /\ j \in Jobs
      /\ j \notin PurgeJobs /\ DOMAIN outcome = Jobs
  BY JobsOfWorkspace DEF Inv, Ended, TeamJobs, WorkspaceTypeOK, WorkTypeOK
<1>1. CASE Asked
  BY <1>0, <1>1 DEF Asked, Uploading, Reopen, workVars
<1>2. CASE OwnerActs
  <2>1. PICK n \in 3 .. (MaxResumes + 2) : Resume(n)
    BY <1>2 DEF OwnerActs, RequestExport, DeleteWorkspace
  <2>2. <<"purge", n>> # j
    BY <1>0, WorkspaceAssumption DEF PurgeJobs
  <2> QED BY <1>0, <2>1, <2>2 DEF Resume, Queue!Record
<1>3. CASE Reconcile
  BY <1>0, <1>3 DEF Reconcile, ListMail, FailListedMail, FailStalledExport, workVars
<1>4. CASE Background /\ \A h \in handlers : ~Vanished(h)
  BY <1>0, <1>4 DEF Background, DropSource, ExportSweep, ListExpired, RemoveArchive,
                    MarkExpired, ExpiryPasses, QuiesceEnds, Disturbed, jobVars, workVars
<1>5. ASSUME NEW h \in handlers, Vanished(h) PROVE outcome'[j] = "absent"
  BY <1>0, <1>5, RunnerKeepsAbsent DEF Vanished, jobVars
<1>6. ASSUME NEW k \in WorkspaceJobs, Started(k) \/ Reaped(k) PROVE outcome'[j] = "absent"
  BY <1>0, <1>6, RunnerKeepsAbsent, JobsOfWorkspace DEF Started, Reaped
<1>7. ASSUME NEW h \in handlers, HandlerStep(h) PROVE outcome'[j] = "absent"
  <2>1. CASE UNCHANGED jobVars
    BY <1>0, <2>1 DEF jobVars
  <2>2. CASE PurgeStep(h)
    <3>1. UNCHANGED jobVars \/ Enqueue(WaitingPurge)
      BY <2>2 DEF PurgeStep, BeginPurge, Revoke, Purge, RecordPurge, Complete, GiveUpPurge
    <3>2. j # WaitingPurge
      BY <1>0, JobsOfWorkspace
    <3> QED BY <1>0, <2>1, <3>1, <3>2 DEF Enqueue, Queue!Record
  <2>3. CASE Settled(h)
    BY <1>0, <2>1, <2>3, RunnerKeepsAbsent DEF Settled
  <2> QED BY <1>7, <2>1, <2>2, <2>3 DEF HandlerStep
<1>8. ASSUME NEW u \in Uploaders, AttemptGoesOn(u) PROVE outcome'[j] = "absent"
  BY <1>0, <1>8 DEF AttemptGoesOn, workVars
<1>9. CASE UNCHANGED vars
  BY <1>0, <1>9 DEF vars, workVars
<1> QED BY <1>1, <1>2, <1>3, <1>4, <1>5, <1>6, <1>7, <1>8, <1>9 DEF Next

\* The quiesce time ends once.
LEMMA QuiesceStep ==
  ASSUME [Next]_vars PROVE QuiesceEnds \/ UNCHANGED waitVars
BY DEF Next, Asked, OwnerActs, Background, Reconcile, Started, Reaped, HandlerStep,
       Settled, AttemptGoesOn, Vanished, Disturbed, DeleteWorkspace, Resume, PurgeStep,
       BeginPurge, Revoke, Purge, RecordPurge, Complete, GiveUpPurge, vars,
       offboardingVars, waitVars

LEMMA SameHandlersPurge ==
  ASSUME handlers' \subseteq handlers, Purged', ~Purged PROVE request' # request
BY DEF Purged

LEMMA GoesPurging ==
  ASSUME Inv, NEW h \in handlers, NEW at, Goes(h, at), at # "purged", Purged', ~Purged
  PROVE  request'.purged /\ ~request.purged
<1>1. h \in Handler(Steps, {0})
  BY DEF Inv, WorkspaceTypeOK, WorkTypeOK
<1>2. [h EXCEPT !.at = at].at = at
  BY <1>1 DEF Handler
<1> QED BY <1>2 DEF Goes, Becomes, Purged

\* The objects are called purged from the step on that removed the last of them.
LEMMA PurgedStep ==
  ASSUME Inv, [Next]_vars, Purged', ~Purged PROVE quiet /\ objects' = {}
<1>1. request \in Request /\ ~Requested.purged
  BY DEF Inv, WorkspaceTypeOK, OffboardingTypeOK, Requested
<1>2. CASE \E h \in handlers : PurgeStep(h)
  <2>1. PICK h \in handlers : PurgeStep(h)
    BY <1>2
  <2>2. ~RecordPurge(h)
    BY DEF RecordPurge, Purged
  <2>3. request'.purged = request.purged
    BY <1>1, <2>1, <2>2 DEF PurgeStep, BeginPurge, Revoke, Purge, Complete, GiveUpPurge,
                            Request, offboardingVars
  <2>4. CASE \E at : at # "purged" /\ Goes(h, at)
    BY <2>3, <2>4, GoesPurging
  <2>5. CASE PurgeDue /\ objects' = {}
    BY <2>5 DEF PurgeDue
  <2>6. (\E at : at # "purged" /\ Goes(h, at)) \/ (PurgeDue /\ objects' = {})
    BY <2>1, <2>2 DEF PurgeStep, BeginPurge, Revoke, Purge, Complete, GiveUpPurge,
                      PurgeFails
  <2> QED BY <2>4, <2>5, <2>6
<1>3. CASE DeleteWorkspace
  BY <1>1, <1>3 DEF DeleteWorkspace, Purged
<1>4. ASSUME NEW n \in 3 .. (MaxResumes + 2), Resume(n) PROVE FALSE
  BY <1>1, <1>4 DEF Resume, Request, Purged
<1>5. ASSUME NEW h \in handlers, HandlerStep(h), ~PurgeStep(h) PROVE FALSE
  <2>1. request' = request
    BY <1>5 DEF HandlerStep, Settled, offboardingVars
  <2>2. CASE Settled(h)
    BY <2>1, <2>2, SameHandlersPurge DEF Settled, SettleJob
  <2>3. CASE MailStep(h) \/ BuildStep(h)
    <3>1. PICK at : at # "purged" /\ Goes(h, at)
      BY <2>3 DEF MailStep, LoadMail, TakeMail, SettleMail, MailFails, BuildStep, BeginBuild,
                  RecordArchive, StoreArchive, Publish, GiveUpBuild, BuildFails
    <3> QED BY <2>1, <3>1, GoesPurging
  <2> QED BY <1>5, <2>2, <2>3 DEF HandlerStep
<1>6. ASSUME NEW j \in WorkspaceJobs, Started(j) \/ Reaped(j) PROVE FALSE
  <2>1. request' = request /\ \A h \in handlers' : h \in handlers \/ h.at = "load"
    BY <1>6 DEF Started, Reaped, Begin, Reap, offboardingVars
  <2> QED BY <2>1 DEF Purged
<1>7. CASE handlers' \subseteq handlers /\ request' = request
  BY <1>7, SameHandlersPurge
<1>8. Asked \/ Reconcile \/ Background \/ UNCHANGED vars
        => handlers' \subseteq handlers /\ request' = request
  BY DEF Asked, Uploading, Reopen, Reconcile, ListMail, FailListedMail, FailStalledExport,
         Background, DropSource, ExportSweep, ListExpired, RemoveArchive, MarkExpired,
         ExpiryPasses, QuiesceEnds, Disturbed, Vanished, Vanish, vars, workVars,
         offboardingVars
<1>9. (\E u \in Uploaders : AttemptGoesOn(u))
        => handlers' \subseteq handlers /\ request' = request
  BY DEF AttemptGoesOn, workVars, offboardingVars
<1>10. CASE RequestExport /\ UNCHANGED offboardingVars
  <2>1. handlers' \subseteq handlers /\ request' = request
    BY <1>10 DEF RequestExport, offboardingVars
  <2> QED BY <2>1, SameHandlersPurge
<1> QED BY <1>2, <1>3, <1>4, <1>5, <1>6, <1>7, <1>8, <1>9, <1>10 DEF Next, OwnerActs

LEMMA NextKeepsEnded ==
  ASSUME Inv, [Next]_vars PROVE Ended'
<1>0. Ended
  BY DEF Inv
<1>1. CASE DeleteWorkspace
  <2>1. \A j \in TeamJobs : outcome'[j] = "absent"
    BY <1>1, JobsOfWorkspace DEF DeleteWorkspace, TeamJobs
  <2>2. ~quiet' /\ ~Purged'
    BY <1>0, <1>1 DEF DeleteWorkspace, Requested, Ended, waitVars, Purged
  <2> QED BY <2>1, <2>2 DEF Ended
<1>2. CASE ~DeleteWorkspace
  <2>0. workspace' = workspace
    BY <1>2, WorkspaceEndsOnce
  <2>1. workspace' = "gone" => \A j \in TeamJobs : outcome'[j] = "absent"
    BY <2>0, TeamJobsStayAbsent
  <2>2. CASE quiet
    <3>1. workspace = "gone" /\ UNCHANGED waitVars
      BY <1>0, <2>2, QuiesceStep DEF Ended, QuiesceEnds
    <3>2. UnderWay' \subseteq UnderWay /\ objects' \subseteq objects \cup UnderWay
      BY <3>1, WritesDwindle
    <3>3. Purged' => objects' \subseteq unfinished
      BY <1>0, <2>2, <3>2, PurgedStep DEF Ended
    <3> QED BY <1>0, <2>0, <2>1, <2>2, <3>1, <3>2, <3>3 DEF Ended, waitVars
  <2>3. CASE ~quiet
    <3>1. ~Purged'
      BY <1>0, <2>3, PurgedStep DEF Ended
    <3>2. CASE QuiesceEnds
      <4>1. UnderWay' = UnderWay
        BY <3>2 DEF QuiesceEnds, UnderWay, At, HandlersOf, workVars, storageVars, intakeVars
      <4> QED BY <2>0, <2>1, <3>1, <3>2, <4>1 DEF QuiesceEnds, Ended
    <3>3. CASE UNCHANGED waitVars
      BY <2>1, <2>3, <3>1, <3>3 DEF Ended, waitVars
    <3> QED BY <3>2, <3>3, QuiesceStep
  <2> QED BY <2>2, <2>3
<1> QED BY <1>1, <1>2

-----------------------------------------------------------------------------
(* Types.                                                                    *)

LEMMA PurgeKeepsWork ==
  ASSUME Inv, NEW h \in handlers, PurgeStep(h), UNCHANGED <<stalls, exits>> PROVE Work'
<1>0. Work /\ h \in Handler(Steps, {0})
  BY DEF Inv, WorkspaceTypeOK, Work, WorkTypeOK
<1>1. PICK at \in Steps \cup Ends : Goes(h, at)
  BY DEF PurgeStep, BeginPurge, Revoke, Purge, RecordPurge, Complete, GiveUpPurge, PurgeFails,
         Steps, Ends
<1>2. CASE UNCHANGED jobVars
  BY <1>0, <1>1, <1>2, GoesTyped DEF Work
<1>3. CASE Enqueue(WaitingPurge)
  <2>1. /\ outcome' \in [Jobs -> {"absent", "pending", "succeeded", "failed"}]
        /\ tries' \in [Jobs -> 0 .. MaxAttempts]
    BY <1>0, <1>3, HandlersAssumption, JobsOfWorkspace
       DEF Work, WorkTypeOK, Enqueue, Queue!Record, jobVars
  <2>2. [h EXCEPT !.at = at] \in Handler(Steps, {0})
    BY <1>0 DEF Handler
  <2> QED BY <1>0, <1>1, <2>1, <2>2 DEF Work, WorkTypeOK, Goes, Becomes
<1> QED BY <1>2, <1>3 DEF PurgeStep, BeginPurge, Revoke, Purge, RecordPurge, Complete,
                          GiveUpPurge

LEMMA HandlersKeepWork ==
  ASSUME Inv, NEW h \in handlers, HandlerStep(h) \/ Vanished(h) PROVE Work'
<1>0. Work
  BY DEF Inv, WorkspaceTypeOK, Work
<1>1. CASE MailStep(h) /\ UNCHANGED <<jobVars, stalls, exits>>
  <2>1. PICK at \in Steps \cup Ends : Goes(h, at)
    BY <1>1 DEF MailStep, LoadMail, TakeMail, SettleMail, MailFails, Steps, Ends
  <2> QED BY <1>0, <1>1, <2>1, GoesTyped DEF Work
<1>2. CASE BuildStep(h) /\ UNCHANGED <<jobVars, stalls, exits>>
  <2>1. PICK at \in Steps \cup Ends : Goes(h, at)
    BY <1>2 DEF BuildStep, BeginBuild, RecordArchive, StoreArchive, Publish, GiveUpBuild,
                BuildFails, Steps, Ends
  <2> QED BY <1>0, <1>2, <2>1, GoesTyped DEF Work
<1>3. CASE PurgeStep(h) /\ UNCHANGED <<stalls, exits>>
  BY <1>3, PurgeKeepsWork
<1>4. CASE SettleJob(h)
  BY <1>0, <1>4, SettleTyped DEF Work
<1>5. CASE Vanish(h)
  BY <1>0, <1>5, VanishTyped DEF Work
<1>6. CASE /\ handlers' = handlers \ {h} /\ UNCHANGED <<jobVars, stalls>>
           /\ exits' = exits \/ (exits < MaxExits /\ exits' = exits + 1)
  BY <1>0, <1>6, HandlersAssumption DEF Work, WorkTypeOK, jobVars
<1> QED BY <1>1, <1>2, <1>3, <1>4, <1>5, <1>6 DEF HandlerStep, Settled, Vanished

LEMMA NextKeepsWork ==
  ASSUME Inv, [Next]_vars PROVE Work'
<1>0. Work
  BY DEF Inv, WorkspaceTypeOK, Work
<1>1. CASE UNCHANGED workVars
  BY <1>0, <1>1 DEF Work, WorkTypeOK, Handler, workVars
<1>2. CASE Reopen
  BY <1>0, <1>2, RequeueTyped, JobsOfWorkspace DEF Reopen, RequeueOrEnqueue, Work
<1>3. CASE RequestExport
  <2>1. Queue!Record(ExportJob) \/ UNCHANGED jobVars
    BY <1>3 DEF RequestExport, Enqueue
  <2>2. UNCHANGED <<handlers, stalls, exits>>
    BY <1>3 DEF RequestExport
  <2> QED BY <1>0, <1>1, <2>1, <2>2, RequeueTyped, JobsOfWorkspace
         DEF Work, jobVars, workVars
<1>4. CASE DeleteWorkspace
  BY <1>0, <1>4, HandlersAssumption DEF DeleteWorkspace, Work, WorkTypeOK
<1>5. ASSUME NEW n \in 3 .. (MaxResumes + 2), Resume(n) PROVE Work'
  <2>1. <<"purge", n>> \in Jobs
    BY JobsOfWorkspace, WorkspaceAssumption DEF PurgeJobs
  <2> QED BY <1>0, <1>5, <2>1, RequeueTyped DEF Resume, Work
<1>6. CASE Disturbed
  BY <1>0, <1>6, HandlersAssumption DEF Disturbed, Work, WorkTypeOK, jobVars
<1>7. ASSUME NEW j \in WorkspaceJobs, Started(j) PROVE Work'
  BY <1>0, <1>7, BeginTyped, JobsOfWorkspace DEF Started, Steps, Work
<1>8. ASSUME NEW j \in WorkspaceJobs, Reaped(j) PROVE Work'
  BY <1>0, <1>8, ReapTyped, JobsOfWorkspace DEF Reaped, Work
<1>9. CASE Asked
  BY <1>1, <1>2, <1>9 DEF Asked, Uploading
<1>10. CASE OwnerActs
  BY <1>3, <1>4, <1>5, <1>10 DEF OwnerActs
<1>11. CASE Background
  <2>1. DropSource \/ ExportSweep \/ QuiesceEnds => UNCHANGED workVars
    BY DEF DropSource, ExportSweep, ListExpired, RemoveArchive, MarkExpired, ExpiryPasses,
           QuiesceEnds
  <2> QED BY <1>1, <1>6, <1>11, <2>1, HandlersKeepWork DEF Background
<1>12. Reconcile \/ (\E u \in Uploaders : AttemptGoesOn(u)) \/ UNCHANGED vars
         => UNCHANGED workVars
  BY DEF Reconcile, ListMail, FailListedMail, FailStalledExport, AttemptGoesOn, vars
<1> QED BY <1>1, <1>7, <1>8, <1>9, <1>10, <1>11, <1>12, HandlersKeepWork DEF Next

\* The rows of the workspace.
RowsTyped ==
  /\ MailTypeOK /\ ExportTypeOK /\ OffboardingTypeOK
  /\ load \in Loads /\ asks \in 0 .. MaxAsks
  /\ workspace = "gone" => mail.status = "gone" /\ export.status = "gone"

LEMMA MailRowsTyped ==
  ASSUME Inv, workspace' = workspace, UNCHANGED <<exportVars, offboardingVars, load>>,
         asks' \in 0 .. MaxAsks,
         \/ UNCHANGED mailVars
         \/ Reopen \/ DropSource \/ ListMail \/ FailListedMail
         \/ \E h \in handlers : MailStep(h)
  PROVE  RowsTyped'
<1>0. mail \in Mail /\ listedMail \in BOOLEAN
  BY DEF Inv, WorkspaceTypeOK, MailTypeOK
<1>1. ASSUME NEW status \in {"processed", "failed"}
      PROVE  /\ MailSettled(status) \in Mail
             /\ mail.status = "gone" => MailSettled(status).status = "gone"
  BY <1>0 DEF MailSettled, Mail
<1>2. /\ mail' \in Mail /\ listedMail' \in BOOLEAN
      /\ mail.status = "gone" => mail'.status = "gone"
  <2>1. CASE Reopen \/ DropSource
    BY <1>0, <2>1 DEF Reopen, DropSource, Mail
  <2>2. CASE UNCHANGED mailVars \/ ListMail \/ FailListedMail
    BY <1>0, <1>1, <2>2 DEF ListMail, FailListedMail, mailVars
  <2>3. ASSUME NEW h \in handlers, MailStep(h)
        PROVE  /\ mail' \in {mail, MailSettled("processed"), MailSettled("failed")}
               /\ listedMail' = listedMail
    BY <2>3 DEF MailStep, LoadMail, TakeMail, SettleMail, mailVars
  <2> QED BY <1>0, <1>1, <2>1, <2>2, <2>3
<1> QED BY <1>2 DEF Inv, WorkspaceTypeOK, RowsTyped, MailTypeOK, ExportTypeOK,
                    OffboardingTypeOK, exportVars, offboardingVars

LEMMA BuildRowsTyped ==
  ASSUME Inv, workspace' = workspace, UNCHANGED <<mailVars, offboardingVars, loadVars>>,
         \/ RequestExport \/ FailStalledExport \/ ExportSweep
         \/ \E h \in handlers : BuildStep(h)
  PROVE  RowsTyped'
<1>0. export \in Export /\ sweeping \in {"no", "listed", "removed"}
      /\ (workspace = "gone" => export.status = "gone")
  BY DEF Inv, WorkspaceTypeOK, ExportTypeOK
<1>1. /\ export' \in Export /\ sweeping' \in {"no", "listed", "removed"}
      /\ workspace = "gone" => export'.status = "gone"
  <2>1. CASE RequestExport \/ FailStalledExport
    BY <1>0, <2>1 DEF RequestExport, FailStalledExport, BuildStalled, Active, Export
  <2>2. CASE ExportSweep
    BY <1>0, <2>2 DEF ExportSweep, ListExpired, RemoveArchive, MarkExpired, ExpiryPasses,
                      Export
  <2>3. ASSUME NEW h \in handlers, BuildStep(h)
        PROVE  /\ export' \in Export /\ sweeping' = sweeping
               /\ workspace = "gone" => export'.status = "gone"
    BY <1>0, <2>3 DEF BuildStep, BeginBuild, RecordArchive, StoreArchive, Publish,
                      GiveUpBuild, PathRecorded, ExportFailed, Active, Export, exportVars
  <2> QED BY <1>0, <2>1, <2>2, <2>3
<1> QED BY <1>1 DEF Inv, WorkspaceTypeOK, RowsTyped, MailTypeOK, ExportTypeOK,
                    OffboardingTypeOK, mailVars, offboardingVars, loadVars

LEMMA PurgeRowsTyped ==
  ASSUME Inv, workspace' = workspace, UNCHANGED <<mailVars, exportVars, loadVars>>,
         \/ \E n \in 3 .. (MaxResumes + 2) : Resume(n)
         \/ \E h \in handlers : PurgeStep(h)
  PROVE  RowsTyped'
<1>0. request \in Request /\ quiet \in BOOLEAN /\ unfinished \in SUBSET Paths
  BY DEF Inv, WorkspaceTypeOK, OffboardingTypeOK
<1>1. request' \in Request /\ quiet' \in BOOLEAN /\ unfinished' \in SUBSET Paths
  BY <1>0 DEF Resume, PurgeStep, BeginPurge, Revoke, Purge, RecordPurge, Complete,
              GiveUpPurge, Request,
              offboardingVars, waitVars
<1> QED BY <1>1 DEF Inv, WorkspaceTypeOK, RowsTyped, MailTypeOK, ExportTypeOK,
                    OffboardingTypeOK, mailVars, exportVars, loadVars

LEMMA DeletionRowsTyped ==
  ASSUME Inv, DeleteWorkspace, UNCHANGED loadVars PROVE RowsTyped'
<1>1. /\ [status |-> "gone", raw |-> FALSE] \in Mail
      /\ [status |-> "gone", path |-> FALSE, due |-> FALSE] \in Export
      /\ Requested \in Request
  BY DEF Mail, Export, Requested, Request
<1> QED BY <1>1 DEF Inv, WorkspaceTypeOK, RowsTyped, MailTypeOK, ExportTypeOK,
                    OffboardingTypeOK, DeleteWorkspace, loadVars, waitVars

LEMMA SameRowsTyped ==
  ASSUME Inv, workspace' = workspace, UNCHANGED <<mailVars, exportVars, load>>,
         asks' \in 0 .. MaxAsks, request' = request, quiet' \in BOOLEAN,
         unfinished' \in SUBSET Paths
  PROVE  RowsTyped'
BY DEF Inv, WorkspaceTypeOK, RowsTyped, MailTypeOK, ExportTypeOK, OffboardingTypeOK,
       mailVars, exportVars

LEMMA RequestRowsTyped ==
  ASSUME Inv, Asked \/ OwnerActs \/ Reconcile PROVE RowsTyped'
<1>0. asks \in 0 .. MaxAsks /\ quiet \in BOOLEAN /\ unfinished \in SUBSET Paths
  BY DEF Inv, WorkspaceTypeOK, OffboardingTypeOK
<1>1. CASE Asked
  <2>1. asks' \in 0 .. MaxAsks /\ UNCHANGED <<exportVars, offboardingVars, load>>
    BY <1>0, <1>1, WorkspaceAssumption DEF Asked
  <2>2. workspace' = workspace /\ (UNCHANGED mailVars \/ Reopen)
    BY <1>1 DEF Asked, Uploading, Delete, ClaimStale, Claim, Reopen, storageVars
  <2> QED BY <2>1, <2>2, MailRowsTyped
<1>2. CASE OwnerActs
  <2>1. CASE RequestExport /\ UNCHANGED <<mailVars, offboardingVars, loadVars>>
    BY <2>1, BuildRowsTyped DEF RequestExport, storageVars
  <2>2. CASE DeleteWorkspace /\ UNCHANGED loadVars
    BY <2>2, DeletionRowsTyped
  <2>3. ASSUME NEW n \in 3 .. (MaxResumes + 2), Resume(n),
               UNCHANGED <<mailVars, exportVars, loadVars>>
        PROVE  RowsTyped'
    BY <2>3, PurgeRowsTyped DEF Resume, storageVars
  <2> QED BY <1>2, <2>1, <2>2, <2>3 DEF OwnerActs
<1>3. CASE Reconcile
  <2>1. CASE (ListMail \/ FailListedMail) /\ UNCHANGED exportVars
    BY <1>0, <1>3, <2>1, MailRowsTyped
       DEF Reconcile, ListMail, FailListedMail, storageVars, loadVars
  <2>2. CASE FailStalledExport /\ UNCHANGED mailVars
    BY <1>3, <2>2, BuildRowsTyped DEF Reconcile, FailStalledExport, storageVars
  <2> QED BY <1>3, <2>1, <2>2 DEF Reconcile
<1> QED BY <1>1, <1>2, <1>3

LEMMA BackgroundRowsTyped ==
  ASSUME Inv, Background PROVE RowsTyped'
<1>0. asks' \in 0 .. MaxAsks /\ UNCHANGED loadVars
      /\ quiet \in BOOLEAN /\ unfinished \in SUBSET Paths
  BY DEF Inv, WorkspaceTypeOK, OffboardingTypeOK, Background, loadVars
<1>1. CASE /\ CleanUp \/ \E path \in Paths : Land(path)
           /\ UNCHANGED <<mailVars, exportVars, offboardingVars>>
  <2>1. workspace' = workspace
    BY <1>1 DEF CleanUp, ClaimPending, Claim, Settle, Expire, LeaseEnds,
                RemoveObject, Clear,
                Land, storageVars
  <2> QED BY <1>0, <1>1, <2>1, SameRowsTyped DEF loadVars, offboardingVars
<1>2. CASE DropSource /\ UNCHANGED <<exportVars, offboardingVars>>
  BY <1>0, <1>2, MailRowsTyped DEF DropSource, storageVars, loadVars
<1>3. CASE ExportSweep /\ UNCHANGED <<mailVars, offboardingVars>>
  <2>1. workspace' = workspace
    BY <1>3 DEF ExportSweep, ListExpired, RemoveArchive, MarkExpired, ExpiryPasses,
                storageVars
  <2> QED BY <1>0, <1>3, <2>1, BuildRowsTyped
<1>4. CASE QuiesceEnds
  BY <1>0, <1>4, SameRowsTyped DEF QuiesceEnds, UnderWay, storageVars, loadVars
<1>5. CASE Disturbed \/ \E h \in handlers : Vanished(h)
  <2>1. workspace' = workspace /\ UNCHANGED <<mailVars, exportVars, offboardingVars>>
    BY <1>5 DEF Disturbed, Vanished, LeaseEnds, storageVars
  <2> QED BY <1>0, <2>1, SameRowsTyped DEF loadVars, offboardingVars
<1> QED BY <1>1, <1>2, <1>3, <1>4, <1>5 DEF Background

LEMMA NextKeepsRows ==
  ASSUME Inv, [Next]_vars PROVE RowsTyped'
<1>0. asks \in 0 .. MaxAsks /\ quiet \in BOOLEAN /\ unfinished \in SUBSET Paths
  BY DEF Inv, WorkspaceTypeOK, OffboardingTypeOK
<1>1. ASSUME NEW h \in handlers, HandlerStep(h) PROVE RowsTyped'
  <2>0. UNCHANGED loadVars
    BY <1>1 DEF HandlerStep
  <2>1. CASE MailStep(h) /\ UNCHANGED <<exportVars, offboardingVars>>
    <3>1. workspace' = workspace
      BY <2>1 DEF MailStep, LoadMail, TakeMail, SettleMail, storageVars
    <3> QED BY <1>0, <2>0, <2>1, <3>1, MailRowsTyped DEF loadVars
  <2>2. CASE BuildStep(h) /\ UNCHANGED <<mailVars, offboardingVars>>
    <3>1. workspace' = workspace
      BY <2>2 DEF BuildStep, BeginBuild, RecordArchive, StoreArchive, Publish, GiveUpBuild,
                  storageVars
    <3> QED BY <2>0, <2>2, <3>1, BuildRowsTyped
  <2>3. CASE PurgeStep(h) /\ UNCHANGED <<mailVars, exportVars>>
    <3>1. workspace' = workspace
      BY <2>3 DEF PurgeStep, BeginPurge, Revoke, Purge, RecordPurge, Complete, GiveUpPurge,
                  storageVars
    <3> QED BY <2>0, <2>3, <3>1, PurgeRowsTyped
  <2>4. CASE Settled(h)
    BY <1>0, <2>0, <2>4, SameRowsTyped DEF Settled, storageVars, offboardingVars, loadVars
  <2> QED BY <1>1, <2>1, <2>2, <2>3, <2>4 DEF HandlerStep
<1>2. ASSUME NEW j \in WorkspaceJobs, Started(j) \/ Reaped(j) PROVE RowsTyped'
  BY <1>0, <1>2, SameRowsTyped DEF Started, Reaped, storageVars, offboardingVars, loadVars
<1>3. ASSUME NEW u \in Uploaders, AttemptGoesOn(u) PROVE RowsTyped'
  <2>1. workspace' = workspace
    BY <1>3 DEF AttemptGoesOn, AttemptStep, Find, Reserve, Lease, StoreBytes, RecordIntent,
                Accept, storageVars
  <2> QED BY <1>0, <1>3, <2>1, SameRowsTyped DEF AttemptGoesOn, offboardingVars, loadVars
<1>4. CASE UNCHANGED vars
  BY <1>0, <1>4, SameRowsTyped DEF vars, storageVars, offboardingVars, loadVars
<1> QED BY <1>1, <1>2, <1>3, <1>4, RequestRowsTyped, BackgroundRowsTyped DEF Next

-----------------------------------------------------------------------------
(* What becomes of a record.                                                 *)

\* What a record was it does not cease to have been, unless it goes.
Evolves(d, e) ==
  /\ d.once => e.once \/ e.state = "gone"
  /\ d.state # "none" => e.state # "none"
  /\ d.state \in {"cancelled", "gone"} => e.state \in {"cancelled", "gone"}
  /\ d.state = "gone" => e.state = "gone"

LEMMA WritesEvolve ==
  ASSUME Inv, NEW r \in Records
  PROVE  /\ Evolves(records[r], records[r])
         /\ \A q \in Records :
              /\ Evolves(records[r], Intended(q)[r])
              /\ Evolves(records[r], [records EXCEPT ![q] = Accepted(q)][r])
              /\ Evolves(records[r], [records EXCEPT ![q] = Cleared(q)][r])
              /\ Evolves(records[r], [records EXCEPT ![q].leased = TRUE][r])
<1>1. records \in [Records -> Record]
  BY DEF Inv, IntakeInv, IntakeTyped, IntakeTypeOK
<1> QED BY <1>1 DEF Evolves, Intended, Accepted, Cleared, Record

LEMMA AttemptEvolves ==
  ASSUME Inv, NEW u \in Uploaders, AttemptStep(u), NEW r \in Records
  PROVE  Evolves(records[r], records'[r])
<1>0. records \in [Records -> Record]
  BY DEF Inv, IntakeInv, IntakeTyped, IntakeTypeOK
<1>1. CASE RecordIntent(u) \/ Accept(u) \/ Lease(u)
  <2>1. attempts[u].of \in Records
    BY <1>1 DEF RecordIntent, Accept, Lease, At, Inv, IntakeInv, Knows
  <2>2. records' \in {records, Intended(attempts[u].of),
                      [records EXCEPT ![attempts[u].of] = Accepted(attempts[u].of)],
                      [records EXCEPT ![attempts[u].of].leased = TRUE]}
    BY <1>1 DEF RecordIntent, Accept, Lease
  <2>3. PICK q \in Records : q = attempts[u].of
    BY <2>1
  <2> QED BY <2>2, <2>3, WritesEvolve
<1>2. CASE Reserve(u)
  <2>1. CASE UNCHANGED records
    BY <2>1, WritesEvolve
  <2>2. ASSUME NEW q \in Records, records[q].state = "none",
               records' = [records EXCEPT ![q].state = "reserved",
                                           ![q].mailed = (u[1] = "mail")]
        PROVE  Evolves(records[r], records'[r])
    BY <1>0, <2>2 DEF Evolves, Record
  <2> QED BY <1>2, <2>1, <2>2 DEF Reserve, NewRecord
<1>3. CASE Find(u) \/ StoreBytes(u)
  BY <1>3, WritesEvolve DEF Find, StoreBytes
<1> QED BY <1>1, <1>2, <1>3 DEF AttemptStep

LEMMA RemovalEvolves ==
  ASSUME Inv, NEW r \in Records,
         CleanUp \/ \E q \in Records : Delete(q) \/ ClaimStale(q) \/ LeaseEnds(q)
  PROVE  Evolves(records[r], records'[r])
<1>0. records \in [Records -> Record]
  BY DEF Inv, IntakeInv, IntakeTyped, IntakeTypeOK
<1>1. ASSUME NEW q \in Records, ClaimPending(q) \/ ClaimStale(q)
      PROVE  Evolves(records[r], records'[r])
  <2>1. Discarded(q).state = "cancelled" /\ Discarded(q).once = records[q].once
    BY <1>0 DEF Discarded, Record
  <2>2. records' = [records EXCEPT ![q] = Discarded(q)] /\ records[q].state # "gone"
    BY <1>1 DEF ClaimPending, ClaimStale, Claim
  <2> QED BY <1>0, <2>1, <2>2 DEF Evolves
<1>2. ASSUME NEW q \in Records, Delete(q) PROVE Evolves(records[r], records'[r])
  BY <1>0, <1>2 DEF Evolves, Delete, Live, Record
<1>3. ASSUME NEW q \in Records, Settle(q) \/ Expire(q)
      PROVE  Evolves(records[r], records'[r])
  BY <1>0, <1>3 DEF Evolves, Settle, Expire, Record
<1>4. ASSUME NEW q \in Records, LeaseEnds(q) PROVE Evolves(records[r], records'[r])
  BY <1>0, <1>4 DEF Evolves, LeaseEnds, Record
<1>5. ASSUME NEW c \in removals, RemoveObject(c) \/ Clear(c)
      PROVE  Evolves(records[r], records'[r])
  <2>1. PICK q \in Records : q = c[2]
    BY DEF Inv, IntakeInv, IntakeTyped, IntakeTypeOK
  <2>2. records' \in {records, [records EXCEPT ![q] = Cleared(q)]}
    BY <1>5, <2>1 DEF RemoveObject, Clear
  <2> QED BY <2>2, WritesEvolve
<1> QED BY <1>1, <1>2, <1>3, <1>4, <1>5 DEF CleanUp

LEMMA RecordsEvolve ==
  ASSUME Inv, [Next]_vars, NEW r \in Records
  PROVE  Evolves(records[r], records'[r])
<1>1. CASE UNCHANGED records
  BY <1>1, WritesEvolve
<1>2. CASE DeleteWorkspace
  BY <1>2 DEF DeleteWorkspace, NoRecord, Evolves
<1>3. ASSUME NEW u \in Uploaders, AttemptGoesOn(u) PROVE Evolves(records[r], records'[r])
  BY <1>3, AttemptEvolves DEF AttemptGoesOn
<1>4. CASE Asked
  BY <1>1, <1>4, RemovalEvolves DEF Asked, Uploading, Reopen, intakeVars
<1>5. CASE OwnerActs \/ Reconcile \/ UNCHANGED vars
  BY <1>1, <1>2, <1>5 DEF OwnerActs, RequestExport, Resume, Reconcile, ListMail,
                          FailListedMail, FailStalledExport, intakeVars, vars
<1>6. CASE Background
  <2>1. Disturbed => UNCHANGED records \/ \E q \in Records : LeaseEnds(q)
    BY DEF Disturbed
  <2>2. DropSource \/ QuiesceEnds \/ (\E h \in handlers : Vanished(h)) => UNCHANGED records
    BY DEF DropSource, QuiesceEnds, Vanished, intakeVars
  <2>3. UNCHANGED intakeVars => UNCHANGED records
    BY DEF intakeVars
  <2> QED BY <1>1, <1>6, <2>1, <2>2, <2>3, RemovalEvolves DEF Background
<1>7. ASSUME NEW h \in handlers, HandlerStep(h) PROVE UNCHANGED records
  BY <1>7 DEF HandlerStep, MailStep, LoadMail, TakeMail, SettleMail, Settled, intakeVars
<1>8. ASSUME NEW j \in WorkspaceJobs, Started(j) \/ Reaped(j) PROVE UNCHANGED records
  BY <1>8 DEF Started, Reaped, intakeVars
<1> QED BY <1>1, <1>3, <1>4, <1>5, <1>6, <1>7, <1>8 DEF Next

\* The records go with the workspace, and none is made for one that is gone.
LEMMA NextKeepsRecordsGone ==
  ASSUME Inv, [Next]_vars, workspace' = "gone", NEW r \in Records
  PROVE  records'[r].state = "gone"
<1>1. CASE workspace # "gone"
  <2>1. DeleteWorkspace
    BY <1>1, WorkspaceEndsOnce
  <2> QED BY <2>1 DEF DeleteWorkspace, NoRecord
<1>2. CASE workspace = "gone"
  <2>1. records[r].state = "gone"
    BY <1>2 DEF Inv, WorkspaceTypeOK
  <2> QED BY <2>1, RecordsEvolve DEF Evolves
<1> QED BY <1>1, <1>2

-----------------------------------------------------------------------------

LEMMA InitIsInv ==
  ASSUME Init PROVE Inv
<1>1. NoRecord \in Record /\ Begun \in Attempt /\ Idle \in Attempt
  BY IdleTyped DEF NoRecord, Record
<1>2. IntakeTyped
  BY <1>1, WorkspaceAssumption
     DEF Init, IntakeTyped, StorageTypeOK, StorageInit, IntakeTypeOK, IntakeInit
<1>3. ASSUME NEW u \in Uploaders
      PROVE  attempts[u].at \in {"idle", "find"} /\ attempts[u].of = 0
  BY DEF Init, Begun, Idle
<1>4. ASSUME NEW u \in Uploaders PROVE Knows(u)
  BY <1>3, IntakeAssumption DEF Knows, Records
<1>5. ASSUME NEW r \in Records PROVE Kept(r) /\ AcceptedStored(r)
  BY DEF Init, IntakeInit, StorageInit, NoRecord, Kept, Unmade, Discardable, AcceptedStored
<1>6. IntakeInv
  BY <1>2, <1>4, <1>5 DEF IntakeInv, Init, IntakeInit
<1>7. Work
  BY HandlersAssumption DEF Init, WorkInit, Work, WorkTypeOK
<1>8. WorkspaceTypeOK
  <2>1. MailTypeOK
    BY DEF Init, MailTypeOK, Mail, Received
  <2>2. ExportTypeOK
    BY DEF Init, ExportInit, ExportTypeOK, Export
  <2>3. OffboardingTypeOK
    BY DEF Init, OffboardingInit, OffboardingTypeOK, Request
  <2>4. load \in Loads /\ asks \in 0 .. MaxAsks /\ workspace # "gone"
    BY WorkspaceAssumption DEF Init, StorageInit
  <2> QED BY <1>2, <1>7, <2>1, <2>2, <2>3, <2>4 DEF WorkspaceTypeOK, Work, IntakeTyped
<1>9. Ended
  BY DEF Init, Ended, Purged, StorageInit, OffboardingInit, WorkInit
<1> QED BY <1>6, <1>8, <1>9 DEF Inv

LEMMA NextKeepsInv ==
  ASSUME Inv, [Next]_vars PROVE Inv'
<1>1. Work' /\ RowsTyped' /\ IntakeInv' /\ Ended'
  BY NextKeepsWork, NextKeepsRows, NextKeepsIntake, NextKeepsEnded
<1>2. workspace' = "gone" => \A r \in Records : records'[r].state = "gone"
  BY NextKeepsRecordsGone
<1>3. WorkspaceTypeOK'
  BY <1>1, <1>2 DEF Work, RowsTyped, IntakeInv, IntakeTyped, WorkspaceTypeOK, Records
<1> QED BY <1>1, <1>3 DEF Inv

LEMMA InvHolds == Spec => []Inv
<1>1. Init => Inv
  BY InitIsInv
<1>2. Inv /\ [Next]_vars => Inv'
  BY NextKeepsInv
<1> QED BY <1>1, <1>2, PTL DEF Spec

\* Every write of every handler, member, operator and clean-up leaves the rows as
\* the schema has them, and the rows of a deleted workspace stay deleted.
THEOREM WorkspaceIsTyped == Spec => []WorkspaceTypeOK
<1>1. Inv => WorkspaceTypeOK
  BY DEF Inv
<1> QED BY <1>1, InvHolds, PTL

\* However many uploads of the same content, deletions, clean-ups, crashes and late
\* writes interleave, a document that was accepted has its bytes.
THEOREM AcceptedHasObjectHolds == Spec => []AcceptedHasObject
<1>1. Inv => AcceptedHasObject
  BY BytesRemembered DEF Inv
<1> QED BY <1>1, InvHolds, PTL

\* However late the bytes of a document that was not accepted arrive, its record is
\* there and flagged, so the clean-up comes back to them.
THEOREM BytesAreRememberedHolds == Spec => []BytesAreRemembered
<1>1. Inv => BytesAreRemembered
  BY BytesRemembered DEF Inv
<1> QED BY <1>1, InvHolds, PTL

\* Once the objects of a deleted workspace are recorded as purged, what is stored
\* was still being written when the quiesce time ended, and nothing is where the
\* wait outlasted the writes: whatever was under way at the deletion, wherever
\* handlers vanish and however often an operator resumes it.
THEOREM OnlyUnfinishedWritesReturnHolds == Spec => []OnlyUnfinishedWritesReturn
<1>1. Inv => OnlyUnfinishedWritesReturn
  BY DEF Inv, Ended, Purged, OnlyUnfinishedWritesReturn
<1> QED BY <1>1, InvHolds, PTL

-----------------------------------------------------------------------------
(* A message that is called processed was read.                              *)

Taken == \E r \in Records : records[r].once \/ records[r].state \in {"cancelled", "gone"}

\* What an attempt knows of the records: some record was there when it looks again,
\* and an answer that is final was given for one that was accepted or discarded.
Answered(u) ==
  /\ attempts[u].at = "refind" => \E r \in Records : records[r].state # "none"
  /\ attempts[u].at = "through" => attempts[u].result = "unavailable" \/ Taken

Read ==
  /\ \A u \in Uploaders : Answered(u)
  /\ \A h \in handlers : h.at = "processed" => Taken
  /\ mail.status = "processed" => Taken

LEMMA TakenStays ==
  ASSUME Inv, [Next]_vars, Taken PROVE Taken'
<1>1. PICK r \in Records : records[r].once \/ records[r].state \in {"cancelled", "gone"}
  BY DEF Taken
<1>2. Evolves(records[r], records'[r])
  BY RecordsEvolve
<1> QED BY <1>1, <1>2 DEF Taken, Evolves, Records

LEMMA AnsweredStays ==
  ASSUME Inv, [Next]_vars, NEW u \in Uploaders, Answered(u), attempts'[u] = attempts[u]
  PROVE  Answered(u)'
<1>1. Taken => Taken'
  BY TakenStays
<1>2. ASSUME NEW r \in Records, records[r].state # "none" PROVE records'[r].state # "none"
  BY <1>2, RecordsEvolve DEF Evolves
<1> QED BY <1>1, <1>2 DEF Answered, Records

\* A record that is neither unmade nor live was accepted or discarded.
LEMMA NotLiveIsTaken ==
  ASSUME Inv, NEW r \in Records, records[r].state \notin {"none", "reserved"}
  PROVE  Taken
<1>1. records[r].state \in {"none", "reserved", "accepted", "cancelled", "gone"}
      /\ AcceptedStored(r)
  BY DEF Inv, IntakeInv, IntakeTyped, IntakeTypeOK, Record
<1> QED BY <1>1 DEF Taken, AcceptedStored

LEMMA ResultAnswered ==
  ASSUME Inv, NEW u \in Uploaders,
         NEW result \in {"none", "accepted", "superseded", "conflict", "unavailable"},
         Result(u, result), result = "unavailable" \/ Taken'
  PROVE  Answered(u)'
<1>1. attempts \in [Uploaders -> Attempt]
  BY DEF Inv, IntakeInv, IntakeTyped, IntakeTypeOK
<1>2. CASE u[1] = "member"
  <2>1. attempts'[u] = Idle
    BY <1>1, <1>2 DEF Result, Forget
  <2> QED BY <2>1 DEF Answered, Idle
<1>3. CASE u[1] # "member"
  <2>1. attempts'[u].at = "through" /\ attempts'[u].result = result
    BY <1>1, <1>3 DEF Result, Attempt
  <2> QED BY <2>1 DEF Answered
<1> QED BY <1>2, <1>3

LEMMA AttemptAnswered ==
  ASSUME Inv, Read, [Next]_vars, NEW u \in Uploaders, AttemptStep(u)
  PROVE  Answered(u)'
<1>0. /\ attempts \in [Uploaders -> Attempt] /\ records \in [Records -> Record]
      /\ Answered(u) /\ (Taken => Taken')
  BY TakenStays DEF Inv, IntakeInv, IntakeTyped, IntakeTypeOK, Read
<1>1. CASE Find(u)
  <2>1. ASSUME NEW r \in Records, records[r].state = "accepted", Result(u, "accepted")
        PROVE  Answered(u)'
    BY <1>0, <2>1, NotLiveIsTaken, ResultAnswered
  <2>2. CASE ~At(u, "find") /\ (\A r \in Records : ~Live(r)) /\ Result(u, "conflict")
    <3>1. PICK r \in Records : records[r].state # "none"
      BY <1>0, <1>1, <2>2 DEF Find, At, Answered
    <3>2. Taken
      BY <2>2, <3>1, NotLiveIsTaken DEF Live
    <3> QED BY <1>0, <2>2, <3>2, ResultAnswered
  <2>3. CASE Goto(u, "reserve") \/ \E r \in Records :
               attempts' = [attempts EXCEPT ![u].at = "lease", ![u].of = r]
    <3>1. attempts'[u].at \in {"reserve", "lease"}
      BY <1>0, <2>3 DEF Goto, Attempt
    <3> QED BY <3>1 DEF Answered
  <2> QED BY <1>1, <2>1, <2>2, <2>3 DEF Find
<1>2. CASE Reserve(u)
  <2>1. CASE Result(u, "unavailable")
    BY <2>1, ResultAnswered
  <2>2. CASE Conflicts(u) /\ Goto(u, "refind") /\ UNCHANGED records
    <3>1. \E r \in Records : records[r].state # "none"
      BY <2>2 DEF Conflicts, Live
    <3>2. attempts'[u].at = "refind"
      BY <1>0, <2>2 DEF Goto, Attempt
    <3> QED BY <2>2, <3>1, <3>2 DEF Answered, Records
  <2>3. ASSUME NEW r \in Records,
               attempts' = [attempts EXCEPT ![u].at = "lease", ![u].of = r]
        PROVE  Answered(u)'
    <3>1. attempts'[u].at = "lease"
      BY <1>0, <2>3 DEF Attempt
    <3> QED BY <3>1 DEF Answered
  <2> QED BY <1>2, <2>1, <2>2, <2>3 DEF Reserve
<1>3. CASE Lease(u)
  <2>1. attempts[u].of \in Records /\ records[attempts[u].of].state # "none"
    BY <1>3 DEF Lease, At, Inv, IntakeInv, Knows
  <2>2. CASE Of(u).state = "reserved"
    <3>1. attempts'[u].at = "store"
      BY <1>0, <1>3, <2>2 DEF Lease, Goto, Attempt
    <3> QED BY <3>1 DEF Answered
  <2>3. CASE Of(u).state # "reserved"
    <3>1. Taken
      BY <2>1, <2>3, NotLiveIsTaken DEF Of
    <3> QED BY <1>0, <1>3, <2>3, <3>1, ResultAnswered DEF Lease
  <2> QED BY <2>2, <2>3
<1>4. CASE StoreBytes(u)
  <2>1. attempts'[u].at \in {"accept", "intent"}
    BY <1>0, <1>4 DEF StoreBytes, Goto, Attempt
  <2> QED BY <2>1 DEF Answered
<1>5. CASE RecordIntent(u)
  BY <1>5, ResultAnswered DEF RecordIntent
<1>6. CASE Accept(u)
  <2>0. attempts[u].of \in Records /\ records[attempts[u].of].state # "none"
    BY <1>6 DEF Accept, At, Inv, IntakeInv, Knows
  <2>1. CASE Goto(u, "intent")
    <3>1. attempts'[u].at = "intent"
      BY <1>0, <2>1 DEF Goto, Attempt
    <3> QED BY <3>1 DEF Answered
  <2>2. PICK r \in Records : r = attempts[u].of
    BY <2>0
  <2>3. CASE records[r].state # "reserved" /\ \E result \in {"accepted", "superseded"} :
               Result(u, result)
    <3>1. Taken
      BY <2>0, <2>2, <2>3, NotLiveIsTaken
    <3> QED BY <1>0, <2>3, <3>1, ResultAnswered
  <2>4. CASE /\ records[r].state = "reserved" /\ Result(u, "accepted")
             /\ records' = [records EXCEPT ![r] = Accepted(r)]
    <3>1. records'[r].once
      BY <1>0, <2>4 DEF Accepted, Record
    <3>2. Taken'
      BY <3>1 DEF Taken, Records
    <3> QED BY <2>4, <3>2, ResultAnswered
  <2>5. records[r].state = "reserved"
            => [records EXCEPT ![r] = Accepted(r)][r].state = "accepted"
    BY <1>0 DEF Accepted, Record
  <2> QED BY <1>6, <2>1, <2>2, <2>3, <2>4, <2>5 DEF Accept
<1> QED BY <1>1, <1>2, <1>3, <1>4, <1>5, <1>6 DEF AttemptStep

LEMMA NextKeepsAnswered ==
  ASSUME Inv, Read, [Next]_vars, NEW v \in Uploaders PROVE Answered(v)'
<1>0. attempts \in [Uploaders -> Attempt] /\ Answered(v)
  BY DEF Inv, IntakeInv, IntakeTyped, IntakeTypeOK, Read
<1>1. CASE attempts'[v] = attempts[v]
  BY <1>0, <1>1, AnsweredStays
<1>2. ASSUME NEW u \in Uploaders, Upload(u) \/ Forget(u) PROVE Answered(v)'
  <2>1. attempts'[v] = attempts[v] \/ attempts'[v].at \in {"idle", "find"}
    BY <1>0, <1>2 DEF Upload, Forget, Begun, Idle
  <2> QED BY <1>1, <2>1 DEF Answered
<1>3. ASSUME NEW u \in Uploaders, AttemptStep(u) PROVE Answered(v)'
  <2>1. CASE u = v
    BY <1>3, <2>1, AttemptAnswered
  <2>2. CASE u # v
    <3>1. attempts'[v] = attempts[v]
      BY <1>0, <1>3, <2>2 DEF AttemptStep, Find, Reserve, Lease, StoreBytes, RecordIntent,
                              Accept, Goto, Result, Forget
    <3> QED BY <1>1, <3>1
  <2> QED BY <2>1, <2>2
<1>4. CASE Asked
  BY <1>1, <1>2, <1>4 DEF Asked, Uploading, Delete, ClaimStale, Claim, Reopen, intakeVars
<1>5. CASE OwnerActs \/ Reconcile \/ UNCHANGED vars
  BY <1>1, <1>5 DEF OwnerActs, RequestExport, DeleteWorkspace, Resume, Reconcile, ListMail,
                    FailListedMail, FailStalledExport, intakeVars, vars
<1>6. ASSUME NEW h \in handlers, HandlerStep(h) \/ Vanished(h) PROVE Answered(v)'
  <2>1. MailUploader(h) \in Uploaders
    BY HandlerFacts
  <2>2. \/ attempts' = attempts
        \/ Upload(MailUploader(h)) \/ Forget(MailUploader(h))
    BY <1>6 DEF HandlerStep, MailStep, LoadMail, TakeMail, SettleMail, Settled, Vanished,
                Abandon, intakeVars
  <2> QED BY <1>1, <1>2, <2>1, <2>2
<1>7. CASE Background
  <2>1. CASE CleanUp \/ DropSource \/ QuiesceEnds \/ UNCHANGED intakeVars
    BY <1>1, <2>1 DEF CleanUp, ClaimPending, Claim, Settle, Expire, LeaseEnds, RemoveObject,
                      Clear, DropSource, QuiesceEnds, intakeVars
  <2>2. CASE Disturbed
    BY <1>1, <1>2, <2>2 DEF Disturbed, Abandon, LeaseEnds
  <2> QED BY <1>6, <1>7, <2>1, <2>2 DEF Background
<1>8. ASSUME NEW j \in WorkspaceJobs, Started(j) \/ Reaped(j) PROVE attempts' = attempts
  BY <1>8 DEF Started, Reaped, intakeVars
<1> QED BY <1>1, <1>3, <1>4, <1>5, <1>6, <1>7, <1>8 DEF Next, AttemptGoesOn

\* A handler is about to call the message processed only after a final answer.
LEMMA NextTakesFirst ==
  ASSUME Inv, Read, [Next]_vars, NEW t \in handlers', t.at = "processed" PROVE Taken
<1>0. /\ handlers \subseteq Handler(Steps, {0})
      /\ \A u \in Uploaders : Answered(u)
      /\ t \in handlers => Taken
  BY DEF Inv, WorkspaceTypeOK, WorkTypeOK, Read
<1>1. SUFFICES ASSUME t \notin handlers PROVE Taken
  BY <1>0
<1>2. ASSUME NEW h \in handlers, NEW at, Goes(h, at), at # "processed" PROVE FALSE
  <2>1. t = [h EXCEPT !.at = at]
    BY <1>1, <1>2 DEF Goes, Becomes
  <2>2. [h EXCEPT !.at = at].at = at
    BY <1>0 DEF Handler
  <2> QED BY <1>2, <2>1, <2>2
<1>3. ASSUME NEW h \in handlers, HandlerStep(h) PROVE Taken
  <2>1. CASE TakeMail(h)
    <3>1. MailUploader(h) \in Uploaders
      BY HandlerFacts
    <3>2. attempts[MailUploader(h)].at = "through"
      BY <2>1 DEF TakeMail, At
    <3>3. CASE Transient(attempts[MailUploader(h)].result)
      <4>1. \E at \in {"refuse", "retrying"} : Goes(h, at)
        BY <2>1, <3>3 DEF TakeMail
      <4> QED BY <1>2, <4>1
    <3>4. CASE ~Transient(attempts[MailUploader(h)].result)
      BY <1>0, <3>1, <3>2, <3>4 DEF Answered, Transient
    <3> QED BY <3>3, <3>4
  <2>2. CASE LoadMail(h) \/ SettleMail(h)
    <3>1. \E at \in {"take", "refuse", "completing", "giveup", "retrying", "failing"} :
            Goes(h, at)
      BY <2>2 DEF LoadMail, SettleMail, MailFails
    <3> QED BY <1>2, <3>1
  <2>3. CASE BuildStep(h)
    <3>1. \E at \in {"record", "store", "publish", "discard", "completing", "giveup",
                     "retrying", "failing"} : Goes(h, at)
      BY <2>3 DEF BuildStep, BeginBuild, RecordArchive, StoreArchive, Publish, GiveUpBuild,
                  BuildFails
    <3> QED BY <1>2, <3>1
  <2>4. CASE PurgeStep(h)
    <3>1. \E at \in {"revoke", "purge", "purged", "complete", "completing", "giveup",
                     "retrying", "failing"} : Goes(h, at)
      BY <2>4 DEF PurgeStep, BeginPurge, Revoke, Purge, RecordPurge, Complete, GiveUpPurge,
                  PurgeFails
    <3> QED BY <1>2, <3>1
  <2>5. CASE Settled(h)
    BY <1>1, <2>5 DEF Settled, SettleJob
  <2> QED BY <1>3, <2>1, <2>2, <2>3, <2>4, <2>5 DEF HandlerStep, MailStep
<1>4. ASSUME NEW j \in WorkspaceJobs, Started(j) PROVE FALSE
  BY <1>1, <1>4 DEF Started, Begin
<1>5. ASSUME NEW h \in handlers, Vanished(h) PROVE FALSE
  BY <1>1, <1>5 DEF Vanished, Vanish
<1>6. handlers' # handlers
  BY <1>1
<1> QED BY <1>3, <1>4, <1>5, <1>6
        DEF Next, Asked, OwnerActs, Background, Reconcile, Reaped, Reap, AttemptGoesOn,
            Uploading, Reopen, RequestExport, DeleteWorkspace, Resume, Disturbed,
            QuiesceEnds,
            DropSource, ExportSweep, ListExpired, RemoveArchive, MarkExpired, ExpiryPasses,
            ListMail, FailListedMail, FailStalledExport, workVars, vars

LEMMA NextSettlesRead ==
  ASSUME Inv, Read, [Next]_vars, mail'.status = "processed" PROVE Taken
<1>0. mail.status = "processed" => Taken
  BY DEF Read
<1>1. SUFFICES ASSUME mail.status # "processed" PROVE Taken
  BY <1>0
<1>2. mail' # mail /\ mail' # MailSettled("failed")
  BY <1>1 DEF MailSettled
<1>3. mail \in Mail
  BY DEF Inv, WorkspaceTypeOK, MailTypeOK
<1>4. ~DeleteWorkspace /\ ~Reopen /\ ~DropSource
  BY <1>1, <1>3 DEF DeleteWorkspace, Reopen, DropSource, Mail
<1>5. PICK h \in handlers : SettleMail(h)
  BY <1>2, <1>4
     DEF Next, Asked, OwnerActs, Background, Reconcile, Started, Reaped, HandlerStep,
         Settled,
         AttemptGoesOn, Vanished, Disturbed, QuiesceEnds, ListMail, FailListedMail,
         MailStep,
         LoadMail, TakeMail, Uploading, mailVars, vars
<1>6. h.at = "processed"
  BY <1>2, <1>5 DEF SettleMail
<1> QED BY <1>6 DEF Read

LEMMA NextKeepsRead ==
  ASSUME Inv, Read, [Next]_vars PROVE Read'
<1>1. \A u \in Uploaders : Answered(u)'
  BY NextKeepsAnswered
<1>2. \A t \in handlers' : t.at = "processed" => Taken'
  BY NextTakesFirst, TakenStays
<1>3. mail'.status = "processed" => Taken'
  BY NextSettlesRead, TakenStays
<1> QED BY <1>1, <1>2, <1>3 DEF Read

\* However often a message's job is repeated, overlaps itself, loses its workspace or
\* is reopened, the message is called processed only after its document was accepted
\* or somebody discarded it.
THEOREM ProcessedMailWasReadHolds == Spec => []ProcessedMailWasRead
<1>1. Init => Read
  BY DEF Init, Read, Answered, Begun, Idle, WorkInit, Received
<1>2. Inv /\ Read /\ [Next]_vars => Read'
  BY NextKeepsRead
<1>3. Read => ProcessedMailWasRead
  BY DEF Read, Taken, ProcessedMailWasRead
<1> QED BY <1>1, <1>2, <1>3, InvHolds, PTL DEF Spec

-----------------------------------------------------------------------------
(* The archive of an export.                                                 *)

\* The handlers that build the archive.
Building == HandlersOf(ExportJob)

\* One at most, whose job is pending.
BuildsAlone ==
  /\ \A h, g \in Building : h = g
  /\ \A h \in Building : outcome[ExportJob] = "pending"

\* How far a build has got is on record.
BuildTold ==
  \A h \in Building :
    /\ h.at \in {"record", "store", "publish"} => export.status = "running"
    /\ h.at \in {"store", "publish"} => export.path
    /\ h.at = "publish" => Archive \in objects
    /\ h.at # "discard"

ArchiveTold ==
  /\ export.status = "ready" /\ ~export.due => Archive \in objects
  /\ Archive \in objects => export.path

\* The sweep is only at work when nobody wants the archive any more.
SweepTold ==
  /\ sweeping # "no" =>
       \/ export.status = "ready" /\ export.due
       \/ export.status \in {"failed", "expired"}
  /\ sweeping = "removed" => Archive \notin objects

ExportTold == BuildTold /\ ArchiveTold /\ SweepTold

\* As long as no build overlaps another and the workspace is there.
ExportInv ==
  Archive \notin late /\ (stalls = 0 /\ workspace = "live" => BuildsAlone /\ ExportTold)

\* A step of the build itself.
LEMMA BuildKeepsTold ==
  ASSUME Inv, BuildsAlone, ExportTold, workspace = "live",
         NEW h \in handlers, h.job = ExportJob, BuildStep(h), UNCHANGED jobVars
  PROVE  (BuildsAlone /\ ExportTold)'
<1>0. /\ h \in Handler(Steps, {0}) /\ h \in Building /\ Building = {h}
      /\ handlers \subseteq Handler(Steps, {0})
      /\ export \in Export /\ outcome[ExportJob] = "pending"
  BY DEF Inv, WorkspaceTypeOK, WorkTypeOK, ExportTypeOK, Building, HandlersOf, BuildsAlone
<1>1. ASSUME NEW at, Goes(h, at)
      PROVE  \E t : t.at = at /\ Building' = {t}
  <2>1. [h EXCEPT !.at = at].job = ExportJob /\ [h EXCEPT !.at = at].at = at
    BY <1>0 DEF Handler
  <2>2. PICK t : t = [h EXCEPT !.at = at]
    OBVIOUS
  <2>3. handlers' = (handlers \ {h}) \cup {t}
    BY <1>1, <2>2 DEF Goes, Becomes
  <2>4. Building' = {t}
    BY <1>0, <2>1, <2>2, <2>3 DEF Building, HandlersOf
  <2> QED BY <2>1, <2>2, <2>4
<1>2. BuildsAlone'
  <2>1. \E at : Goes(h, at)
    BY DEF BuildStep, BeginBuild, RecordArchive, StoreArchive, Publish, GiveUpBuild, BuildFails
  <2>2. \E t : Building' = {t}
    BY <1>1, <2>1
  <2>3. outcome'[ExportJob] = "pending"
    BY <1>0 DEF jobVars
  <2> QED BY <2>2, <2>3 DEF BuildsAlone
<1>3. ASSUME NEW at, Goes(h, at), at \notin {"record", "store", "publish", "discard"}
      PROVE  BuildTold'
  BY <1>1, <1>3 DEF BuildTold
<1>4. ASSUME NEW retryable, BuildFails(h, retryable) PROVE BuildTold'
  BY <1>3, <1>4 DEF BuildFails
<1>5. CASE BeginBuild(h)
  <2>1. UNCHANGED <<sweeping, objects>>
    BY <1>5 DEF BeginBuild, storageVars
  <2>2. CASE Active /\ export' = [export EXCEPT !.status = "running"] /\ Goes(h, "record")
    <3>1. /\ export'.status = "running" /\ export'.path = export.path
          /\ export.status \in {"queued", "running"}
      BY <1>0, <2>2 DEF Export, Active
    <3>2. PICK t : t.at = "record" /\ Building' = {t}
      BY <1>1, <2>2
    <3> QED BY <1>2, <2>1, <3>1, <3>2 DEF ExportTold, BuildTold, ArchiveTold, SweepTold
  <2>3. CASE export' = export /\ Goes(h, "completing")
    <3>1. BuildTold'
      BY <1>3, <2>3
    <3> QED BY <1>2, <2>1, <2>3, <3>1 DEF ExportTold, ArchiveTold, SweepTold
  <2> QED BY <1>5, <2>2, <2>3 DEF BeginBuild
<1>6. CASE RecordArchive(h)
  <2>1. UNCHANGED <<sweeping, objects>> /\ h.at = "record"
    BY <1>6 DEF RecordArchive, storageVars
  <2>2. CASE export' = PathRecorded /\ Goes(h, "store")
    <3>1. export.status = "running"
      BY <1>0, <2>1 DEF ExportTold, BuildTold
    <3>2. export'.status = "running" /\ export'.path
      BY <1>0, <2>2, <3>1 DEF Export, PathRecorded
    <3>3. PICK t : t.at = "store" /\ Building' = {t}
      BY <1>1, <2>2
    <3> QED BY <1>2, <2>1, <3>1, <3>2, <3>3 DEF ExportTold, BuildTold, ArchiveTold, SweepTold
  <2>3. CASE export' = export /\ \E retryable \in BOOLEAN : BuildFails(h, retryable)
    BY <1>2, <1>4, <2>1, <2>3 DEF ExportTold, ArchiveTold, SweepTold
  <2> QED BY <1>6, <2>2, <2>3 DEF RecordArchive
<1>7. CASE StoreArchive(h)
  <2>1. /\ UNCHANGED <<export, sweeping>> /\ export.status = "running" /\ export.path
        /\ objects' \in {objects, objects \cup {Archive}}
    BY <1>0, <1>7 DEF StoreArchive, exportVars, ExportTold, BuildTold
  <2>2. (ArchiveTold /\ SweepTold)'
    BY <2>1 DEF ExportTold, ArchiveTold, SweepTold
  <2>3. CASE objects' = objects \cup {Archive} /\ Goes(h, "publish")
    <3>1. PICK t : t.at = "publish" /\ Building' = {t}
      BY <1>1, <2>3
    <3>2. BuildTold'
      BY <2>1, <2>3, <3>1 DEF BuildTold
    <3> QED BY <1>2, <2>2, <3>2 DEF ExportTold
  <2> QED BY <1>2, <1>4, <1>7, <2>2, <2>3 DEF StoreArchive, ExportTold
<1>8. CASE Publish(h)
  <2>1. h.at = "publish" /\ export.status = "running" /\ export.path /\ Archive \in objects
    BY <1>0, <1>8 DEF Publish, ExportTold, BuildTold
  <2>2. UNCHANGED <<sweeping, objects>>
    BY <1>8, <2>1 DEF Publish
  <2>3. CASE /\ export' = [export EXCEPT !.status = "ready", !.path = TRUE]
             /\ Goes(h, "completing")
    <3>1. export'.status = "ready" /\ export'.path
      BY <1>0, <2>3 DEF Export
    <3>2. BuildTold'
      BY <1>3, <2>3
    <3> QED BY <1>2, <2>1, <2>2, <3>1, <3>2 DEF ExportTold, ArchiveTold, SweepTold
  <2>4. CASE export' = export /\ BuildFails(h, TRUE)
    BY <1>2, <1>4, <2>2, <2>4 DEF ExportTold, ArchiveTold, SweepTold
  <2> QED BY <1>8, <2>1, <2>3, <2>4 DEF Publish
<1>9. CASE GiveUpBuild(h)
  <2>1. UNCHANGED <<sweeping, objects>> /\ export' \in {ExportFailed, export}
    BY <1>9 DEF GiveUpBuild, storageVars
  <2>2. BuildTold'
    BY <1>3, <1>9 DEF GiveUpBuild
  <2>3. export' = export \/ (export'.status = "failed" /\ export'.path = export.path)
    BY <1>0, <2>1 DEF ExportFailed, Export
  <2> QED BY <1>2, <2>1, <2>2, <2>3 DEF ExportTold, ArchiveTold, SweepTold
<1> QED BY <1>5, <1>6, <1>7, <1>8, <1>9 DEF BuildStep

\* Builds of the step are builds of before, and an end of the job leaves none.
FewerBuilds ==
  Building' \subseteq Building /\ (Building' = {} \/ outcome'[ExportJob] = outcome[ExportJob])

\* Whether the archive is stored does not change, and nothing will.
ArchiveStands == (Archive \in objects' <=> Archive \in objects) /\ Archive \notin late'

LEMMA OthersKeepTold ==
  ASSUME BuildsAlone, ExportTold, FewerBuilds, ArchiveStands, UNCHANGED exportVars
  PROVE  (BuildsAlone /\ ExportTold)'
<1>1. BuildsAlone'
  BY DEF BuildsAlone, FewerBuilds
<1>2. BuildTold' /\ ArchiveTold' /\ SweepTold'
  BY DEF ExportTold, BuildTold, ArchiveTold, SweepTold, FewerBuilds, ArchiveStands, exportVars
<1> QED BY <1>1, <1>2 DEF ExportTold

\* What is sent, stored and removed for documents is not the archive.
LEMMA AttemptsLeaveArchive ==
  ASSUME Inv, Archive \notin late, NEW u \in Uploaders, AttemptStep(u) \/ Abandon(u)
  PROVE  ArchiveStands
<1>1. At(u, "store") => Archive # Document(attempts[u].of)
  <2>1. At(u, "store") => attempts[u].of \in Records
    BY DEF Inv, IntakeInv, Knows, At
  <2> QED BY <2>1, ArchiveIsNoDocument
<1> QED BY <1>1 DEF ArchiveStands, AttemptStep, Find, Reserve, Lease, StoreBytes, RecordIntent,
                    Accept, Abandon, GiveUpStoring, Store, storageVars

LEMMA CleanUpLeavesArchive ==
  ASSUME Inv, Archive \notin late, CleanUp \/ \E path \in Paths : Land(path)
  PROVE  ArchiveStands
<1>1. ASSUME NEW c \in removals, RemoveObject(c) PROVE ArchiveStands
  <2>1. c[2] \in Records
    BY DEF Inv, IntakeInv, IntakeTyped, IntakeTypeOK
  <2> QED BY <1>1, <2>1, ArchiveIsNoDocument DEF RemoveObject, Remove, ArchiveStands
<1>2. ASSUME NEW path \in Paths, Land(path) PROVE ArchiveStands
  BY <1>2 DEF Land, ArchiveStands
<1>3. CASE UNCHANGED storageVars
  BY <1>3 DEF ArchiveStands, storageVars
<1>4. \/ UNCHANGED storageVars \/ (\E c \in removals : RemoveObject(c))
      \/ \E path \in Paths : Land(path)
  BY DEF CleanUp, ClaimPending, Claim, Settle, Expire, LeaseEnds, Clear
<1> QED BY <1>1, <1>2, <1>3, <1>4

\* The writes on the request by the others.
LEMMA RequestKeepsTold ==
  ASSUME Inv, BuildsAlone, ExportTold, RequestExport
  PROVE  (BuildsAlone /\ ExportTold)'
<1>0. export \in Export /\ ExportJob \in DOMAIN outcome
  BY JobsOfWorkspace DEF Inv, WorkspaceTypeOK, WorkTypeOK, ExportTypeOK
<1>1. /\ export.status = "none" /\ export'.status = "queued" /\ export'.path = export.path
      /\ Building' = Building /\ UNCHANGED <<sweeping, objects>>
  BY <1>0 DEF RequestExport, Export, Building, HandlersOf, storageVars
<1>2. outcome'[ExportJob] \in {"pending", outcome[ExportJob]}
  BY <1>0 DEF RequestExport, Enqueue, Queue!Record, jobVars
<1> QED BY <1>1, <1>2 DEF BuildsAlone, ExportTold, BuildTold, ArchiveTold, SweepTold

LEMMA SweepKeepsTold ==
  ASSUME Inv, BuildsAlone, ExportTold, ExportSweep \/ FailStalledExport
  PROVE  (BuildsAlone /\ ExportTold)'
<1>0. export \in Export
  BY DEF Inv, WorkspaceTypeOK, ExportTypeOK
<1>1. UNCHANGED <<Building, outcome>>
  BY DEF ExportSweep, ListExpired, RemoveArchive, MarkExpired, ExpiryPasses,
         FailStalledExport, workVars, Building, HandlersOf
<1>2. BuildsAlone'
  BY <1>1 DEF BuildsAlone
<1>3. CASE ListExpired
  BY <1>1, <1>2, <1>3 DEF ListExpired, ExportTold, BuildTold, ArchiveTold, SweepTold,
                          storageVars
<1>4. CASE RemoveArchive
  <2>1. /\ UNCHANGED export /\ export.status # "running"
        /\ ~(export.status = "ready" /\ ~export.due)
        /\ objects' \subseteq objects /\ (sweeping' = "removed" => Archive \notin objects')
        /\ (export.status = "ready" /\ export.due) \/ export.status \in {"failed", "expired"}
    BY <1>4 DEF RemoveArchive, ExportTold, SweepTold
  <2> QED BY <1>1, <1>2, <2>1 DEF ExportTold, BuildTold, ArchiveTold, SweepTold
<1>5. CASE MarkExpired
  <2>1. /\ objects' = objects /\ sweeping' = "no" /\ Archive \notin objects
        /\ export.status # "running" /\ ~(export.status = "ready" /\ ~export.due)
    BY <1>5 DEF MarkExpired, ExportTold, SweepTold, storageVars
  <2>2. export' = export \/ (export'.status # "ready")
    BY <1>0, <1>5 DEF MarkExpired, Export
  <2> QED BY <1>1, <1>2, <2>1, <2>2 DEF ExportTold, BuildTold, ArchiveTold, SweepTold
<1>6. CASE ExpiryPasses
  <2>1. /\ UNCHANGED <<objects, sweeping>> /\ export.status = "ready"
        /\ export'.status = "ready" /\ export'.due /\ export'.path = export.path
    BY <1>0, <1>6 DEF ExpiryPasses, Export, storageVars
  <2> QED BY <1>1, <1>2, <2>1 DEF ExportTold, BuildTold, ArchiveTold, SweepTold
<1>7. CASE FailStalledExport
  <2>1. /\ UNCHANGED <<objects, sweeping>> /\ Building = {}
        /\ export'.status = "failed" /\ export'.path = export.path
    BY <1>0, <1>7 DEF FailStalledExport, BuildStalled, Export, storageVars, BuildsAlone
  <2> QED BY <1>1, <1>2, <2>1 DEF ExportTold, BuildTold, ArchiveTold, SweepTold
<1> QED BY <1>3, <1>4, <1>5, <1>6, <1>7 DEF ExportSweep

\* A build starts, when none is under way.
LEMMA StartKeepsTold ==
  ASSUME Inv, BuildsAlone, ExportTold, Started(ExportJob), stalls' = 0, Archive \notin late
  PROVE  (BuildsAlone /\ ExportTold)'
<1>0. stalls \in Nat /\ ExportJob \in Jobs
  BY JobsOfWorkspace, HandlersAssumption DEF Inv, WorkspaceTypeOK, WorkTypeOK
<1>1. Building = {}
  BY <1>0 DEF Started, Begin, Building
<1>2. /\ [job |-> ExportJob, slot |-> stalls', attempt |-> tries[ExportJob] + 1,
          at |-> "load", seen |-> 0].at = "load"
      /\ \E t : t = [job |-> ExportJob, slot |-> stalls', attempt |-> tries[ExportJob] + 1,
                     at |-> "load", seen |-> 0]
  OBVIOUS
<1>3. PICK t : t.at = "load" /\ handlers' = handlers \cup {t}
  BY <1>2 DEF Started, Begin
<1>4. Building' \subseteq {t}
  BY <1>1, <1>3 DEF Building, HandlersOf
<1>5. outcome'[ExportJob] = outcome[ExportJob] /\ outcome[ExportJob] = "pending"
  BY <1>0 DEF Started, Begin, Queue!GiveUp, Queue!Try
<1>6. UNCHANGED <<export, sweeping, objects>>
  BY DEF Started, exportVars, storageVars
<1> QED BY <1>3, <1>4, <1>5, <1>6
        DEF BuildsAlone, ExportTold, BuildTold, ArchiveTold, SweepTold

\* The handler of another job goes on.
LEMMA OtherHandlersLeaveBuilds ==
  ASSUME Inv, NEW h \in handlers, h.job # ExportJob, handlers' = handlers \ {h}
              \/ \E at : Goes(h, at)
  PROVE  Building' = Building
<1>1. CASE handlers' = handlers \ {h}
  BY <1>1 DEF Building, HandlersOf
<1>2. ASSUME NEW at, Goes(h, at) PROVE Building' = Building
  <2>1. h \in Handler(Steps, {0})
    BY DEF Inv, WorkspaceTypeOK, WorkTypeOK
  <2>2. [h EXCEPT !.at = at].job # ExportJob
    BY <2>1 DEF Handler
  <2> QED BY <1>2, <2>2 DEF Goes, Becomes, Building, HandlersOf
<1> QED BY <1>1, <1>2

\* A handler that ends or vanishes leaves one build less, or the others.
LEMMA LeaversLeaveBuilds ==
  ASSUME Inv, BuildsAlone, NEW h \in handlers, handlers' = handlers \ {h},
         UNCHANGED jobVars \/ Queue!Succeed(h.job) \/ Queue!Fail(h.job)
           \/ Queue!HandBack(h.job)
  PROVE  FewerBuilds
<1>0. outcome \in [Jobs -> {"absent", "pending", "succeeded", "failed"}]
      /\ ExportJob \in Jobs
  BY JobsOfWorkspace DEF Inv, WorkspaceTypeOK, WorkTypeOK
<1>1. Building' \subseteq Building
  BY DEF Building, HandlersOf
<1>2. h.job = ExportJob => Building' = {}
  BY DEF Building, HandlersOf, BuildsAlone
<1>3. h.job # ExportJob => outcome'[ExportJob] = outcome[ExportJob]
  BY <1>0 DEF Queue!Succeed, Queue!Fail, Queue!HandBack, jobVars
<1> QED BY <1>1, <1>2, <1>3 DEF FewerBuilds

LEMMA HandlersKeepTold ==
  ASSUME Inv, BuildsAlone, ExportTold, workspace = "live", Archive \notin late,
         NEW h \in handlers, HandlerStep(h) \/ Vanished(h)
  PROVE  (BuildsAlone /\ ExportTold)' /\ Archive \notin late'
<1>1. CASE h.job = MailJob /\ MailStep(h) /\ UNCHANGED <<jobVars, exportVars>>
  <2>1. \E at : Goes(h, at)
    BY <1>1 DEF MailStep, LoadMail, TakeMail, SettleMail, MailFails
  <2>2. FewerBuilds
    BY <1>1, <2>1, OtherHandlersLeaveBuilds, JobsOfWorkspace DEF FewerBuilds, jobVars
  <2>3. ArchiveStands
    BY <1>1 DEF MailStep, LoadMail, TakeMail, SettleMail, storageVars, ArchiveStands
  <2> QED BY <1>1, <2>2, <2>3, OthersKeepTold DEF ArchiveStands
<1>2. CASE h.job = ExportJob /\ BuildStep(h) /\ UNCHANGED jobVars
  <2>1. late' = late
    BY <1>2 DEF BuildStep, BeginBuild, RecordArchive, StoreArchive, Publish, GiveUpBuild,
                storageVars
  <2> QED BY <1>2, <2>1, BuildKeepsTold
<1>3. CASE h.job \in PurgeJobs /\ PurgeStep(h) /\ UNCHANGED exportVars
  <2>1. \E at : Goes(h, at)
    BY <1>3 DEF PurgeStep, BeginPurge, Revoke, Purge, RecordPurge, Complete, GiveUpPurge,
                PurgeFails
  <2>2. outcome'[ExportJob] = outcome[ExportJob]
    <3>1. outcome \in [Jobs -> {"absent", "pending", "succeeded", "failed"}]
          /\ ExportJob \in Jobs /\ ExportJob # WaitingPurge
      BY JobsOfWorkspace DEF Inv, WorkspaceTypeOK, WorkTypeOK
    <3> QED BY <1>3, <3>1 DEF PurgeStep, BeginPurge, Revoke, Purge, RecordPurge, Complete,
                              GiveUpPurge,
                              Enqueue, Queue!Record, jobVars
  <2>3. FewerBuilds
    BY <1>3, <2>1, <2>2, OtherHandlersLeaveBuilds, JobsOfWorkspace DEF FewerBuilds
  <2>4. ~quiet
    BY DEF Inv, Ended
  <2>5. ArchiveStands
    BY <1>3, <2>4 DEF PurgeStep, BeginPurge, Revoke, Purge, RecordPurge, Complete,
                      GiveUpPurge, PurgeDue,
                      storageVars, ArchiveStands
  <2> QED BY <1>3, <2>3, <2>5, OthersKeepTold DEF ArchiveStands
<1>4. CASE Settled(h)
  <2>1. handlers' = handlers \ {h} /\ UNCHANGED <<exportVars, storageVars>>
    BY <1>4 DEF Settled, SettleJob
  <2>2. UNCHANGED jobVars \/ Queue!Succeed(h.job) \/ Queue!Fail(h.job)
    BY <1>4 DEF Settled, SettleJob
  <2>3. FewerBuilds /\ ArchiveStands
    BY <2>1, <2>2, LeaversLeaveBuilds DEF ArchiveStands, storageVars
  <2> QED BY <2>1, <2>3, OthersKeepTold DEF ArchiveStands
<1>5. CASE Vanished(h)
  <2>1. handlers' = handlers \ {h} /\ UNCHANGED exportVars
    BY <1>5 DEF Vanished, Vanish
  <2>2. UNCHANGED jobVars \/ Queue!HandBack(h.job)
    BY <1>5 DEF Vanished, Vanish
  <2>3. Abandon(MailUploader(h)) \/ UNCHANGED <<objects, late>>
    BY <1>5 DEF Vanished
  <2>4. ArchiveStands
    BY <2>3, HandlerFacts, AttemptsLeaveArchive DEF ArchiveStands
  <2> QED BY <2>1, <2>2, <2>4, LeaversLeaveBuilds, OthersKeepTold DEF ArchiveStands
<1> QED BY <1>1, <1>2, <1>3, <1>4, <1>5 DEF HandlerStep

\* The others touch neither the builds, nor the request, nor its archive.
LEMMA OthersLeaveBuilds ==
  ASSUME Inv, Archive \notin late,
         \/ Asked
         \/ \E n \in 3 .. (MaxResumes + 2) : Resume(n) /\ UNCHANGED exportVars
         \/ (CleanUp \/ \E path \in Paths : Land(path)) /\ UNCHANGED <<workVars, exportVars>>
         \/ DropSource /\ UNCHANGED exportVars
         \/ (ListMail \/ FailListedMail) /\ UNCHANGED exportVars
         \/ QuiesceEnds \/ Disturbed
         \/ \E u \in Uploaders : AttemptGoesOn(u)
         \/ UNCHANGED vars
  PROVE  FewerBuilds /\ ArchiveStands /\ UNCHANGED exportVars
<1>0. outcome \in [Jobs -> {"absent", "pending", "succeeded", "failed"}]
      /\ ExportJob \in Jobs /\ ExportJob # MailJob /\ \A n : <<"purge", n>> # ExportJob
  BY JobsOfWorkspace DEF Inv, WorkspaceTypeOK, WorkTypeOK, ExportJob
<1>1. CASE Asked
  <2>1. UNCHANGED <<handlers, exportVars, storageVars>>
    BY <1>1 DEF Asked, Uploading, Delete, ClaimStale, Claim, Reopen, workVars
  <2>2. outcome'[ExportJob] = outcome[ExportJob]
    BY <1>0, <1>1 DEF Asked, Uploading, Reopen, Queue!Restart, workVars
  <2> QED BY <2>1, <2>2 DEF FewerBuilds, ArchiveStands, Building, HandlersOf, storageVars
<1>2. ASSUME NEW n \in 3 .. (MaxResumes + 2), Resume(n), UNCHANGED exportVars
      PROVE  FewerBuilds /\ ArchiveStands
  BY <1>0, <1>2 DEF Resume, Queue!Record, FewerBuilds, ArchiveStands, Building, HandlersOf,
                    storageVars
<1>3. UNCHANGED workVars => FewerBuilds
  BY DEF workVars, FewerBuilds, Building, HandlersOf
<1>4. CASE (CleanUp \/ \E path \in Paths : Land(path)) /\ UNCHANGED <<workVars, exportVars>>
  BY <1>3, <1>4, CleanUpLeavesArchive
<1>5. CASE \/ (DropSource \/ ListMail \/ FailListedMail) /\ UNCHANGED exportVars
           \/ QuiesceEnds \/ UNCHANGED vars
  <2>1. UNCHANGED <<workVars, storageVars, exportVars>>
    BY <1>5 DEF DropSource, ListMail, FailListedMail, QuiesceEnds, vars
  <2> QED BY <1>3, <2>1 DEF ArchiveStands, storageVars
<1>6. CASE Disturbed
  <2>1. UNCHANGED <<jobVars, handlers, exportVars>>
    BY <1>6 DEF Disturbed
  <2>2. ArchiveStands
    BY <1>6, AttemptsLeaveArchive DEF Disturbed, LeaseEnds, ArchiveStands, storageVars
  <2> QED BY <2>1, <2>2 DEF FewerBuilds, Building, HandlersOf, jobVars
<1>7. ASSUME NEW u \in Uploaders, AttemptGoesOn(u)
      PROVE  FewerBuilds /\ ArchiveStands /\ UNCHANGED exportVars
  BY <1>3, <1>7, AttemptsLeaveArchive DEF AttemptGoesOn
<1> QED BY <1>1, <1>2, <1>4, <1>5, <1>6, <1>7

\* Handlers only come to overlap, and a write sent late is of a document.
LEMMA NextLate ==
  ASSUME Inv, Archive \notin late, [Next]_vars
  PROVE  Archive \notin late' /\ (stalls' = 0 => stalls = 0)
<1>0. stalls \in Nat
  BY HandlersAssumption DEF Inv, WorkspaceTypeOK, WorkTypeOK
<1>1. ASSUME NEW u \in Uploaders, AttemptGoesOn(u)
      PROVE  Archive \notin late' /\ stalls' = stalls
  BY <1>1, AttemptsLeaveArchive DEF AttemptGoesOn, ArchiveStands, workVars
<1>2. ASSUME NEW h \in handlers, Vanished(h)
      PROVE  Archive \notin late' /\ stalls' = stalls
  BY <1>2, AttemptsLeaveArchive, HandlerFacts DEF Vanished, Vanish, ArchiveStands
<1>3. CASE Disturbed
  <2>1. stalls' = stalls
    BY <1>3 DEF Disturbed
  <2> QED BY <1>3, <2>1, AttemptsLeaveArchive
          DEF Disturbed, LeaseEnds, storageVars, ArchiveStands
<1>4. ASSUME NEW j \in WorkspaceJobs, Started(j) \/ Reaped(j)
      PROVE  late' = late /\ (stalls' = 0 => stalls = 0)
  <2>1. late' = late
    BY <1>4 DEF Started, Reaped, storageVars
  <2>2. stalls' \in {stalls, stalls + 1}
    BY <1>4 DEF Started, Begin, Reaped, Reap
  <2> QED BY <1>0, <2>1, <2>2
<1>5. ASSUME NEW h \in handlers, HandlerStep(h) PROVE late' = late /\ stalls' = stalls
  <2>1. MailStep(h) \/ BuildStep(h) \/ PurgeStep(h) => late' = late
    BY DEF MailStep, LoadMail, TakeMail, SettleMail, BuildStep, BeginBuild, RecordArchive,
           StoreArchive, Publish, GiveUpBuild, PurgeStep, BeginPurge, Revoke, Purge,
           RecordPurge, Complete, GiveUpPurge, storageVars
  <2> QED BY <1>5, <2>1 DEF HandlerStep, Settled, SettleJob, storageVars
<1>6. CASE Background /\ ~Disturbed /\ \A h \in handlers : ~Vanished(h)
  <2>1. CASE CleanUp \/ \E path \in Paths : Land(path)
    <3>1. stalls' = stalls
      BY <1>6 DEF Background, DropSource, ExportSweep, ListExpired, RemoveArchive,
                  MarkExpired, ExpiryPasses, QuiesceEnds, workVars
    <3> QED BY <2>1, <3>1, CleanUpLeavesArchive DEF ArchiveStands
  <2>2. CASE DropSource \/ ExportSweep \/ QuiesceEnds
    BY <2>2 DEF DropSource, ExportSweep, ListExpired, RemoveArchive, MarkExpired,
                ExpiryPasses, QuiesceEnds, storageVars, workVars
  <2> QED BY <1>6, <2>1, <2>2 DEF Background
<1>7. Asked \/ OwnerActs \/ Reconcile \/ UNCHANGED vars => UNCHANGED <<late, stalls>>
  BY DEF Asked, Uploading, Delete, ClaimStale, Claim, Reopen, OwnerActs, RequestExport,
         DeleteWorkspace, Resume, Reconcile, ListMail, FailListedMail, FailStalledExport,
         storageVars, workVars, vars
<1> QED BY <1>1, <1>2, <1>3, <1>4, <1>5, <1>6, <1>7 DEF Next

LEMMA NextKeepsExport ==
  ASSUME Inv, ExportInv, [Next]_vars PROVE ExportInv'
<1>1. Archive \notin late /\ Archive \notin late' /\ (stalls' = 0 => stalls = 0)
  BY NextLate DEF ExportInv
<1>2. SUFFICES ASSUME stalls' = 0, workspace' = "live" PROVE (BuildsAlone /\ ExportTold)'
  BY <1>1 DEF ExportInv
<1>3. stalls = 0 /\ workspace = "live" /\ ~DeleteWorkspace
  BY <1>1, <1>2, WorkspaceEndsOnce DEF DeleteWorkspace
<1>4. BuildsAlone /\ ExportTold
  BY <1>3 DEF ExportInv
<1>5. ASSUME NEW h \in handlers, HandlerStep(h) \/ Vanished(h)
      PROVE  (BuildsAlone /\ ExportTold)'
  BY <1>1, <1>3, <1>4, <1>5, HandlersKeepTold
<1>6. CASE RequestExport
  BY <1>4, <1>6, RequestKeepsTold
<1>7. CASE ExportSweep \/ FailStalledExport
  BY <1>4, <1>7, SweepKeepsTold
<1>8. ASSUME NEW j \in WorkspaceJobs, Started(j) PROVE (BuildsAlone /\ ExportTold)'
  <2>1. CASE j = ExportJob
    BY <1>1, <1>2, <1>4, <1>8, <2>1, StartKeepsTold
  <2>2. CASE j # ExportJob
    <3>1. [job |-> j, slot |-> stalls', attempt |-> tries[j] + 1, at |-> "load",
           seen |-> 0].job = j
      OBVIOUS
    <3>2. Building' = Building
      BY <1>8, <2>2, <3>1 DEF Started, Begin, Building, HandlersOf
    <3>3. outcome'[ExportJob] = outcome[ExportJob]
      BY <1>8, JobsOfWorkspace DEF Started, Begin, Queue!GiveUp
    <3> QED BY <1>1, <1>4, <1>8, <3>2, <3>3, OthersKeepTold
            DEF FewerBuilds, Started, ArchiveStands, storageVars
  <2> QED BY <2>1, <2>2
<1>9. ASSUME NEW j \in WorkspaceJobs, Reaped(j) PROVE (BuildsAlone /\ ExportTold)'
  <2>1. Building' = Building /\ (j = ExportJob => Building = {})
    BY <1>3, <1>9 DEF Reaped, Reap, Building, HandlersOf
  <2>2. j # ExportJob => outcome'[ExportJob] = outcome[ExportJob]
    BY <1>9, JobsOfWorkspace DEF Reaped, Reap, Queue!GiveUp
  <2> QED BY <1>1, <1>4, <1>9, <2>1, <2>2, OthersKeepTold
          DEF FewerBuilds, Reaped, ArchiveStands, storageVars
<1>10. CASE FewerBuilds /\ ArchiveStands /\ UNCHANGED exportVars
  BY <1>4, <1>10, OthersKeepTold
<1>11. CASE Asked \/ \E u \in Uploaders : AttemptGoesOn(u)
  BY <1>1, <1>10, <1>11, OthersLeaveBuilds
<1>12. CASE OwnerActs
  BY <1>1, <1>3, <1>6, <1>10, <1>12, OthersLeaveBuilds DEF OwnerActs
<1>13. CASE Background
  BY <1>1, <1>5, <1>7, <1>10, <1>13, OthersLeaveBuilds DEF Background
<1>14. CASE Reconcile \/ UNCHANGED vars
  BY <1>1, <1>7, <1>10, <1>14, OthersLeaveBuilds DEF Reconcile
<1> QED BY <1>5, <1>8, <1>9, <1>11, <1>12, <1>13, <1>14 DEF Next

\* As long as no build overlaps another, an export that can be downloaded has its
\* archive until it expires, and no archive is stored that the request does not name,
\* whichever step of the build, of the sweep or of the reconciler is the last one,
\* wherever a build is cut short and however often it is tried again.
THEOREM ArchiveMatchesRequestHolds == Spec => [](stalls = 0 => ArchiveMatchesRequest)
<1>1. Init => ExportInv
  BY DEF Init, ExportInv, WorkInit, ExportInit, StorageInit, BuildsAlone, ExportTold,
         BuildTold, ArchiveTold, SweepTold, Building, HandlersOf
<1>2. Inv /\ ExportInv /\ [Next]_vars => ExportInv'
  BY NextKeepsExport
<1>3. Inv /\ ExportInv => (stalls = 0 => ArchiveMatchesRequest)
  BY DEF Inv, WorkspaceTypeOK, StorageTypeOK, ExportInv, ExportTold, ArchiveTold,
         ArchiveMatchesRequest
<1> QED BY <1>1, <1>2, <1>3, InvHolds, PTL DEF Spec
=============================================================================
