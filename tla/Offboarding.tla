---------------------------- MODULE Offboarding ----------------------------
(***************************************************************************)
(* What is left to do when a workspace was deleted                         *)
(* (packages/jobs/src/deletion.ts, queries/deletion-requests.ts): a job    *)
(* revokes the connection the request captured, waits for the quiesce time *)
(* to end, removes the workspace's objects and completes the request.      *)
(* Nothing waits for those who are still writing objects of the workspace. *)
(***************************************************************************)
EXTENDS JobHandlers, Storage

CONSTANT MaxResumes   \* bound: how often an operator resumes the request

VARIABLES
  request,     \* deletion_requests
  quiet,       \* quiesce_until lies behind
  unfinished   \* history: what was still being written when quiesce_until came

waitVars == <<quiet, unfinished>>
offboardingVars == <<request, quiet, unfinished>>

\* The first job, the one that waits for the quiesce time, and resumed ones.
PurgeJobs == {"purge"} \X (1 .. (MaxResumes + 2))
FirstPurge == <<"purge", 1>>
WaitingPurge == <<"purge", 2>>

Request ==
  [status  : {"none", "pending", "failed", "completed"},
   revoked : BOOLEAN,
   purged  : BOOLEAN]

OffboardingTypeOK ==
  request \in Request /\ quiet \in BOOLEAN /\ unfinished \in SUBSET Paths

OffboardingInit ==
  /\ request = [status |-> "none", revoked |-> FALSE, purged |-> FALSE]
  /\ quiet = FALSE /\ unfinished = {}

Requested == [status |-> "pending", revoked |-> FALSE, purged |-> FALSE]

-----------------------------------------------------------------------------
(* runDeletionCleanup.                                                       *)

PurgeFails(h, retryable) ==
  Goes(h, IF LastWord(h, retryable) THEN "giveup" ELSE "retrying")

\* beginDeletionAttempt: what is recorded as done is not done again.
BeginPurge(h) ==
  /\ h.at = "load"
  /\ Goes(h, IF request.status = "completed" THEN "completing"
             ELSE IF ~request.revoked THEN "revoke"
             ELSE IF ~request.purged THEN "purge" ELSE "complete")
  /\ UNCHANGED <<jobVars, offboardingVars, storageVars>>

\* The connection is revoked and that is recorded, or the provider refuses.
Revoke(h) ==
  /\ h.at = "revoke"
  /\ \/ /\ request' = [request EXCEPT !.revoked = TRUE]
        /\ Goes(h, IF request.purged THEN "complete" ELSE "purge")
     \/ request' = request /\ \E retryable \in BOOLEAN : PurgeFails(h, retryable)
  /\ UNCHANGED <<jobVars, waitVars, storageVars>>

\* Mutant of PurgeDue: the objects are removed with the first run.
PurgeNow == TRUE

PurgeDue == quiet

\* removePrefix, and a later job when it is too early.
Purge(h) ==
  /\ h.at = "purge"
  /\ \/ /\ ~PurgeDue /\ Enqueue(WaitingPurge) /\ Goes(h, "completing")
        /\ UNCHANGED objects
     \/ PurgeDue /\ objects' = {} /\ Goes(h, "purged") /\ UNCHANGED jobVars
     \/ PurgeFails(h, TRUE) /\ UNCHANGED <<objects, jobVars>>
  /\ UNCHANGED <<offboardingVars, workspace, late>>

\* recordDeletionProgress
RecordPurge(h) ==
  /\ h.at = "purged"
  /\ \/ request' = [request EXCEPT !.purged = TRUE] /\ Goes(h, "complete")
     \/ request' = request /\ PurgeFails(h, TRUE)
  /\ UNCHANGED <<jobVars, waitVars, storageVars>>

\* completeDeletionRequest
Complete(h) ==
  /\ h.at = "complete"
  /\ \/ request' = [request EXCEPT !.status = "completed"] /\ Goes(h, "completing")
     \/ request' = request /\ PurgeFails(h, TRUE)
  /\ UNCHANGED <<jobVars, waitVars, storageVars>>

\* recordDeletionFailure, whose own failure is only logged.
GiveUpPurge(h) ==
  /\ h.at = "giveup" /\ Goes(h, "failing")
  /\ \/ request.status = "pending" /\ request' = [request EXCEPT !.status = "failed"]
     \/ request' = request
  /\ UNCHANGED <<jobVars, waitVars, storageVars>>

PurgeStep(h) ==
  \/ BeginPurge(h) \/ Revoke(h) \/ Purge(h) \/ RecordPurge(h) \/ Complete(h)
  \/ GiveUpPurge(h)

\* resumeDeletionRequests: an unfinished request without a live job.
Resume(n) ==
  /\ request.status \in {"pending", "failed"}
  /\ \A j \in PurgeJobs : outcome[j] # "pending"
  /\ request' = [request EXCEPT !.status = "pending"]
  /\ outcome[<<"purge", n>>] = "absent" /\ Queue!Record(<<"purge", n>>)
  /\ \A m \in 3 .. (n - 1) : outcome[<<"purge", m>>] # "absent"
  /\ UNCHANGED <<handlers, stalls, exits, waitVars, storageVars>>

-----------------------------------------------------------------------------
(* Properties.                                                               *)

\* Once the objects of a deleted workspace are recorded as purged, all that is
\* stored for it are objects that were still being written when the quiesce time
\* ended: nothing of before is left, no upload, mail or build starts to store
\* anything, and where the wait outlasted the writes the storage stays empty,
\* whichever attempts of the purge failed, overlapped or were resumed.
OnlyUnfinishedWritesReturn == request.purged => objects \subseteq unfinished
=============================================================================
