----------------------------- MODULE Workspace -----------------------------
(***************************************************************************)
(* One workspace and what is stored for it: uploads and mail (InboundEmail *)
(* on IntakeReservation), an export (DataExport), and its end              *)
(* (Offboarding).  The components share the private objects, the jobs of   *)
(* the workflow queue and the workspace's row, with which every other row  *)
(* goes at once.                                                           *)
(***************************************************************************)
EXTENDS InboundEmail, DataExport, Offboarding

CONSTANTS
  Loads,    \* what may be going on: sets of "mail", "upload", "export", "end", "crash"
  MaxAsks   \* bound: more uploads, documents deleted or discarded, reopenings

VARIABLES
  load,     \* what is going on in this workspace
  asks

loadVars == <<load, asks>>
vars == <<workVars, storageVars, intakeVars, mailVars, exportVars,
          offboardingVars, loadVars>>

TeamJobs == {MailJob, ExportJob}
WorkspaceJobs == TeamJobs \cup PurgeJobs

ASSUME WorkspaceAssumption ==
  /\ Jobs = WorkspaceJobs
  /\ Paths = {Document(r) : r \in Records} \cup {Archive}
  /\ {"mail"} \X (0 .. MaxStalls) \subseteq Uploaders
  /\ {MaxAsks, MaxResumes} \subseteq Nat

Steps ==
  {"load", "take", "processed", "refuse", "record", "store", "publish",
   "discard", "revoke", "purge", "purged", "complete", "giveup"}

\* The rows of a workspace go with it and are not written again.
WorkspaceTypeOK ==
  /\ WorkTypeOK(Steps, {0}) /\ StorageTypeOK /\ IntakeTypeOK /\ MailTypeOK
  /\ ExportTypeOK /\ OffboardingTypeOK
  /\ load \in Loads /\ asks \in 0 .. MaxAsks
  /\ workspace = "gone" =>
       /\ mail.status = "gone" /\ export.status = "gone"
       /\ \A r \in Records : records[r].state = "gone"

\* A message that was answered is committed with its job; a member may be
\* uploading the same document.
Init ==
  /\ load \in Loads
  /\ attempts = [u \in Uploaders |->
       IF "upload" \in load /\ u[1] = "member" THEN Begun ELSE Idle]
  /\ StorageInit /\ IntakeInit /\ ExportInit /\ OffboardingInit
  /\ WorkInit(IF "mail" \in load THEN {MailJob} ELSE {})
  /\ mail = IF "mail" \in load THEN Received ELSE [status |-> "none", raw |-> FALSE]
  /\ listedMail = FALSE /\ asks = 0

-----------------------------------------------------------------------------

\* deleteTeam: the rows cascade, jobs included; the request and its job commit
\* with the deletion.
DeleteWorkspace ==
  /\ workspace = "live" /\ workspace' = "gone"
  /\ records' = [r \in Records |-> [NoRecord EXCEPT !.state = "gone"]]
  /\ mail' = [status |-> "gone", raw |-> FALSE]
  /\ export' = [status |-> "gone", path |-> FALSE, due |-> FALSE]
  /\ outcome' = [j \in Jobs |-> IF j = FirstPurge THEN "pending" ELSE "absent"]
  /\ tries' = [j \in Jobs |-> 0]
  /\ request' = Requested
  /\ UNCHANGED <<handlers, stalls, exits, objects, late, attempts, removals,
                 listedMail, sweeping, waitVars>>

\* What may still come to be stored by an upload, a build or a write given up.
UnderWay ==
  {path \in Paths :
     \/ path \in late
     \/ \E u \in Uploaders : At(u, "store") /\ path = Document(attempts[u].of)
     \/ /\ path = Archive
        /\ \E h \in HandlersOf(ExportJob) : h.at \in {"record", "store"}}

\* quiesceUntil passes: ten minutes and the leases of the deletion are over, who
\* is still at work or not.
QuiesceEnds ==
  /\ workspace = "gone" /\ ~quiet /\ quiet' = TRUE
  /\ unfinished' = UnderWay
  /\ UNCHANGED <<workVars, storageVars, intakeVars, mailVars, exportVars, request>>

Started(j) ==
  /\ j = WaitingPurge => quiet
  /\ Begin(j, "load", 0)
  /\ UNCHANGED <<storageVars, intakeVars, mailVars, exportVars, offboardingVars,
                 loadVars>>

\* The handler of a job that is gone has nothing to write.
Settled(h) ==
  /\ \/ SettleJob(h)
     \/ /\ h.at \in Ends /\ outcome[h.job] = "absent" /\ handlers' = handlers \ {h}
        /\ UNCHANGED <<jobVars, stalls, exits>>
  /\ UNCHANGED <<storageVars, intakeVars, mailVars, exportVars, offboardingVars>>

\* A write that was under way when its process died may land.
Abandon(u) ==
  /\ Forget(u)
  /\ IF At(u, "store") THEN GiveUpStoring(Document(attempts[u].of))
     ELSE UNCHANGED <<objects, late>>

\* A handler vanishes, and the upload it was making with it.
Vanished(h) ==
  /\ "crash" \in load
  /\ IF outcome[h.job] = "absent"
     THEN /\ exits < MaxExits /\ exits' = exits + 1
          /\ handlers' = handlers \ {h} /\ UNCHANGED <<jobVars, stalls>>
     ELSE Vanish(h)
  /\ IF h.at = "take" THEN Abandon(MailUploader(h))
     ELSE UNCHANGED <<attempts, objects, late>>
  /\ UNCHANGED <<workspace, records, removals, mailVars, exportVars,
                 offboardingVars>>

Reaped(j) ==
  /\ Reap(j)
  /\ UNCHANGED <<storageVars, intakeVars, mailVars, exportVars, offboardingVars,
                 loadVars>>

HandlerStep(h) ==
  /\ \/ /\ h.job = MailJob /\ MailStep(h)
        /\ UNCHANGED <<jobVars, stalls, exits, exportVars, offboardingVars>>
     \/ /\ h.job = ExportJob /\ BuildStep(h)
        /\ UNCHANGED <<jobVars, stalls, exits, intakeVars, mailVars, offboardingVars>>
     \/ /\ h.job \in PurgeJobs /\ PurgeStep(h)
        /\ UNCHANGED <<stalls, exits, intakeVars, mailVars, exportVars>>
     \/ Settled(h)
  /\ UNCHANGED loadVars

AttemptGoesOn(u) ==
  /\ AttemptStep(u)
  /\ UNCHANGED <<workVars, mailVars, exportVars, offboardingVars, loadVars>>

\* The periodic reconciler.
Reconcile ==
  /\ \/ (ListMail \/ FailListedMail) /\ UNCHANGED exportVars
     \/ FailStalledExport /\ UNCHANGED <<intakeVars, mailVars>>
  /\ UNCHANGED <<offboardingVars, loadVars>>

\* What cuts an upload short, or lets it outlive its lease.
Disturbed ==
  /\ "crash" \in load /\ exits < MaxExits /\ exits' = exits + 1
  /\ \/ \E u \in Uploaders : u[1] = "member" /\ ~At(u, "idle") /\ Abandon(u)
        /\ UNCHANGED <<workspace, records, removals>>
     \/ \E r \in Records : WriterLeft(r) /\ LeaseEnds(r)
  /\ UNCHANGED <<jobVars, handlers, stalls, mailVars, exportVars, offboardingVars>>

Uploading(u) ==
  /\ "upload" \in load /\ workspace = "live" /\ u[1] = "member" /\ At(u, "idle")
  /\ Upload(u)
  /\ UNCHANGED <<workVars, storageVars, records, removals, mailVars>>

\* Bounded by MaxAsks.
Asked ==
  /\ \/ \E u \in Uploaders : Uploading(u)
     \/ /\ \E r \in Records : Delete(r) \/ ClaimStale(r)
        /\ UNCHANGED <<workVars, mailVars>>
     \/ Reopen
  /\ asks < MaxAsks /\ asks' = asks + 1
  /\ UNCHANGED <<exportVars, offboardingVars, load>>

\* Once each, except that an operator resumes a deletion MaxResumes times.
OwnerActs ==
  /\ \/ /\ "export" \in load /\ RequestExport
        /\ UNCHANGED <<intakeVars, mailVars, offboardingVars>>
     \/ "end" \in load /\ DeleteWorkspace
     \/ /\ \E n \in 3 .. (MaxResumes + 2) : Resume(n)
        /\ UNCHANGED <<intakeVars, mailVars, exportVars>>
  /\ UNCHANGED loadVars

Background ==
  /\ \/ /\ CleanUp \/ \E path \in Paths : Land(path) /\ UNCHANGED intakeVars
        /\ UNCHANGED <<workVars, mailVars, exportVars, offboardingVars>>
     \/ DropSource /\ UNCHANGED <<exportVars, offboardingVars>>
     \/ ExportSweep /\ UNCHANGED <<intakeVars, mailVars, offboardingVars>>
     \/ QuiesceEnds
     \/ Disturbed \/ \E h \in handlers : Vanished(h)
  /\ UNCHANGED loadVars

Next ==
  \/ Asked \/ OwnerActs \/ Background \/ Reconcile
  \/ \E j \in WorkspaceJobs : Started(j) \/ Reaped(j)
  \/ \E h \in handlers : HandlerStep(h)
  \/ \E u \in Uploaders : AttemptGoesOn(u)

Spec == Init /\ [][Next]_vars

\* A job is claimed, carried on, by its upload too, or given up when nobody is
\* left to.
GoesOn(j) ==
  \/ Started(j) \/ (NoHandlerLeft(j) /\ Reaped(j))
  \/ \E h \in HandlersOf(j) :
       HandlerStep(h) \/ (j = MailJob /\ AttemptGoesOn(MailUploader(h)))

\* The runner and the reconciler come by for ever, and what a handler waits for
\* returns.  The storage calls of an upload have a deadline; those of a build have
\* none, so that they return is assumed.  Nothing is assumed of a member's upload.
Fairness ==
  /\ \A j \in TeamJobs : WF_vars(GoesOn(j))
  /\ WF_vars(Reconcile)

FairSpec == Spec /\ Fairness

-----------------------------------------------------------------------------
(* Properties.                                                               *)

\* A message is settled and an export is ready or failed, unless its workspace
\* goes: neither stays in progress for ever.
RequestsSettle ==
  /\ mail.status = "received" ~> mail.status # "received"
  /\ Active ~> ~Active
=============================================================================
