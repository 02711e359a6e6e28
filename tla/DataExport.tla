----------------------------- MODULE DataExport -----------------------------
(***************************************************************************)
(* An export of the workspace (packages/jobs/src/data-export.ts, its       *)
(* queries, the archive step of retention.ts): a job builds an archive,    *)
(* records where it will be stored, stores it and publishes it; retention  *)
(* removes it when it expires or the build failed.                         *)
(***************************************************************************)
EXTENDS JobHandlers, Storage

VARIABLES
  export,     \* the request
  sweeping    \* the retention sweep: "no", "listed" or "removed"

exportVars == <<export, sweeping>>

ExportJob == <<"export", 1>>
Archive == <<"archive", 1>>   \* one path for all attempts

Export ==
  [status : {"none", "queued", "running", "ready", "failed", "expired", "gone"},
   path   : BOOLEAN,   \* file_path is recorded
   due    : BOOLEAN]   \* expires_at has passed

ExportTypeOK == export \in Export /\ sweeping \in {"no", "listed", "removed"}

ExportInit == export = [status |-> "none", path |-> FALSE, due |-> FALSE] /\ sweeping = "no"

Active == export.status \in {"queued", "running"}

\* createDataExport: the request and its job.
RequestExport ==
  /\ workspace = "live" /\ export.status = "none"
  /\ export' = [export EXCEPT !.status = "queued"]
  /\ Enqueue(ExportJob)
  /\ UNCHANGED <<handlers, stalls, exits, sweeping, storageVars>>

-----------------------------------------------------------------------------
(* buildDataExport.                                                          *)

BuildFails(h, retryable) ==
  Goes(h, IF LastWord(h, retryable) THEN "giveup" ELSE "retrying")

\* beginDataExport
BeginBuild(h) ==
  /\ h.at = "load"
  /\ IF Active
     THEN export' = [export EXCEPT !.status = "running"] /\ Goes(h, "record")
     ELSE export' = export /\ Goes(h, "completing")
  /\ UNCHANGED <<sweeping, storageVars>>

\* Mutant of PathRecorded: the path is left to the publication.
PathRecordedLater == export

\* recordDataExportObject, before anything is stored.
PathRecorded ==
  IF export.status = "running" THEN [export EXCEPT !.path = TRUE] ELSE export

\* The archive is complete, or reading the workspace's data failed, or the
\* workspace is gone.
RecordArchive(h) ==
  /\ h.at = "record"
  /\ \/ export' = PathRecorded /\ Goes(h, "store")
     \/ export' = export /\ \E retryable \in BOOLEAN : BuildFails(h, retryable)
     \/ workspace = "gone" /\ export' = export /\ Goes(h, "completing")
  /\ UNCHANGED <<sweeping, storageVars>>

StoreArchive(h) ==
  /\ h.at = "store"
  /\ \/ objects' = objects \cup {Archive} /\ (Goes(h, "publish") \/ BuildFails(h, TRUE))
     \/ objects' = objects /\ BuildFails(h, TRUE)
  /\ UNCHANGED <<exportVars, workspace, late>>

\* completeDataExport: what is no longer wanted is removed again.
Publish(h) ==
  /\ \/ /\ h.at = "publish" /\ export.status = "running"
        /\ export' = [export EXCEPT !.status = "ready", !.path = TRUE]
        /\ Goes(h, "completing") /\ UNCHANGED objects
     \/ /\ h.at = "publish" /\ export' = export
        /\ IF export.status = "running" THEN BuildFails(h, TRUE) ELSE Goes(h, "discard")
        /\ UNCHANGED objects
     \/ /\ h.at = "discard" /\ export' = export
        /\ Goes(h, "completing") /\ objects' \in {objects \ {Archive}, objects}
  /\ UNCHANGED <<sweeping, workspace, late>>

ExportFailed == IF Active THEN [export EXCEPT !.status = "failed"] ELSE export

\* recordDataExportFailure, whose own failure is ignored.
GiveUpBuild(h) ==
  /\ h.at = "giveup" /\ export' \in {ExportFailed, export} /\ Goes(h, "failing")
  /\ UNCHANGED <<sweeping, storageVars>>

BuildStep(h) ==
  BeginBuild(h) \/ RecordArchive(h) \/ StoreArchive(h) \/ Publish(h) \/ GiveUpBuild(h)

-----------------------------------------------------------------------------

BuildStalled == Active /\ outcome[ExportJob] # "pending"

\* failStalledDataExports
FailStalledExport ==
  /\ BuildStalled /\ export' = [export EXCEPT !.status = "failed"]
  /\ UNCHANGED <<workVars, sweeping, storageVars>>

\* listExpiredDataExports: an archive past its time, or of a request that failed.
ListExpired ==
  /\ sweeping = "no"
  /\ \/ export.status = "ready" /\ export.due
     \/ export.status \in {"failed", "expired"} /\ export.path
  /\ sweeping' = "listed"
  /\ UNCHANGED <<workVars, export, storageVars>>

\* The removal may fail, or the sweep be cut short.
RemoveArchive ==
  /\ sweeping = "listed"
  /\ \/ objects' = objects \ {Archive} /\ sweeping' = "removed"
     \/ objects' = objects /\ sweeping' = "no"
  /\ UNCHANGED <<workVars, export, workspace, late>>

\* markDataExportExpired, unless the sweep is cut short.
MarkExpired ==
  /\ sweeping = "removed" /\ sweeping' = "no"
  /\ \/ export' = export
     \/ /\ export.path
        /\ export' = [export EXCEPT !.path = FALSE,
                        !.status = IF @ = "ready" THEN "expired" ELSE @]
  /\ UNCHANGED <<workVars, storageVars>>

ExpiryPasses ==
  /\ export.status = "ready" /\ ~export.due
  /\ export' = [export EXCEPT !.due = TRUE]
  /\ UNCHANGED <<workVars, sweeping, storageVars>>

ExportSweep == ListExpired \/ RemoveArchive \/ MarkExpired \/ ExpiryPasses

-----------------------------------------------------------------------------
(* Properties.                                                               *)

\* An export that can be downloaded has its archive until its expiry, and no
\* archive is stored that the request does not name, whichever step of which
\* build or sweep was the last to happen.
ArchiveMatchesRequest ==
  /\ export.status = "ready" /\ ~export.due => Archive \in objects
  /\ workspace = "live" /\ Archive \in objects => export.path
=============================================================================
