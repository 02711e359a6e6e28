------------------------- MODULE IntakeReservation -------------------------
(***************************************************************************)
(* Uploads of one document (packages/jobs/src/intake.ts and the intake     *)
(* queries of packages/db/src/queries/inbox.ts).  An attempt finds or      *)
(* makes the record of the content, takes a publication lease, stores the  *)
(* bytes with no transaction open, and accepts the record in a transaction *)
(* that queues its processing.  A clean-up discards records nobody         *)
(* finished; a member may delete the document at any time.                 *)
(*                                                                         *)
(* All uploads have the same, valid content.  What is mailed also carries  *)
(* a reference, the same at every attempt.                                 *)
(***************************************************************************)
EXTENDS JobHandlers, Storage

CONSTANTS
  Uploaders,   \* who may be uploading at a time: <<"member" or "mail", n>>
  MaxRecords   \* records of the content, one after the other

VARIABLES
  records,     \* inbox rows, as far as intake is concerned
  attempts,    \* the attempt each uploader makes
  removals     \* removals under way: <<"member" or "sweep", record, step>>

intakeVars == <<records, attempts, removals>>

Records == 1 .. MaxRecords
Document(r) == <<"document", r>>

ASSUME IntakeAssumption ==
  MaxRecords \in Nat /\ {Document(r) : r \in Records} \subseteq Paths

Record ==
  [state     : {"none", "reserved", "accepted", "cancelled", "gone"},
   mailed    : BOOLEAN,   \* has the reference of the message
   leased    : BOOLEAN,   \* intake_publishing_until lies ahead
   pending   : BOOLEAN,   \* object_removal_pending
   ambiguous : BOOLEAN,   \* object_removal_ambiguous
   once      : BOOLEAN]   \* was accepted

NoRecord == [state |-> "none", mailed |-> FALSE, leased |-> FALSE,
             pending |-> FALSE, ambiguous |-> FALSE, once |-> FALSE]

Attempt ==
  [at     : {"idle", "find", "reserve", "refind", "lease", "store", "accept",
             "intent", "through"},
   of     : 0 .. MaxRecords,
   result : {"none", "accepted", "superseded", "conflict", "unavailable"}]

Idle == [at |-> "idle", of |-> 0, result |-> "none"]

IntakeTypeOK ==
  /\ records \in [Records -> Record]
  /\ attempts \in [Uploaders -> Attempt]
  /\ removals \in SUBSET ({"member", "sweep"} \X Records \X {"remove", "clear"})

IntakeInit ==
  /\ records = [r \in Records |-> NoRecord]
  /\ removals = {}

-----------------------------------------------------------------------------
(* An attempt (acceptIntake).                                                *)

At(u, at) == attempts[u].at = at
Of(u) == records[attempts[u].of]

Begun == [Idle EXCEPT !.at = "find"]
Upload(u) == attempts' = [attempts EXCEPT ![u] = Begun]
Forget(u) == attempts' = [attempts EXCEPT ![u] = Idle]
Goto(u, at) == attempts' = [attempts EXCEPT ![u].at = at]

\* A member is answered; the handler of a message looks at the answer next.
Result(u, result) ==
  IF u[1] = "member" THEN Forget(u)
  ELSE attempts' = [attempts EXCEPT ![u].at = "through", ![u].result = result]

Live(r) == records[r].state \in {"reserved", "accepted"}

\* findInboxIntakeByContentHash: an accepted document answers, a reservation is
\* resumed.
Find(u) ==
  /\ At(u, "find") \/ At(u, "refind")
  /\ \/ \E r \in Records :
          \/ records[r].state = "accepted" /\ Result(u, "accepted")
          \/ /\ records[r].state = "reserved"
             /\ attempts' = [attempts EXCEPT ![u].at = "lease", ![u].of = r]
     \/ /\ \A r \in Records : ~Live(r)
        /\ IF At(u, "find") THEN Goto(u, "reserve") ELSE Result(u, "conflict")
  /\ UNCHANGED <<records, removals, storageVars>>

\* A record is made of the next id, of which there are MaxRecords.
NewRecord(r) ==
  records[r].state = "none" /\ \A q \in 1 .. (r - 1) : records[q].state # "none"

\* Another live record of the content, or any row with the same reference.
Conflicts(u) ==
  \E r \in Records :
    \/ Live(r)
    \/ u[1] = "mail" /\ records[r].mailed /\ records[r].state = "cancelled"

\* reserveInboxIntake: fails without its workspace.
Reserve(u) ==
  /\ At(u, "reserve")
  /\ \/ workspace = "gone" /\ Result(u, "unavailable") /\ UNCHANGED records
     \/ workspace = "live" /\ Conflicts(u) /\ Goto(u, "refind") /\ UNCHANGED records
     \/ /\ workspace = "live" /\ ~Conflicts(u)
        /\ \E r \in Records :
             /\ NewRecord(r)
             /\ records' = [records EXCEPT ![r].state = "reserved",
                                            ![r].mailed = (u[1] = "mail")]
             /\ attempts' = [attempts EXCEPT ![u].at = "lease", ![u].of = r]
  /\ UNCHANGED <<removals, storageVars>>

\* beginInboxIntakePublication
Lease(u) ==
  /\ At(u, "lease")
  /\ IF Of(u).state = "reserved"
     THEN /\ records' = [records EXCEPT ![attempts[u].of].leased = TRUE]
          /\ Goto(u, "store")
     ELSE /\ UNCHANGED records
          /\ Result(u, IF Of(u).state = "accepted" THEN "accepted" ELSE "superseded")
  /\ UNCHANGED <<removals, storageVars>>

\* publishReservedObject: stored and verified, stored but not verified, or not
\* known to be stored.
StoreBytes(u) ==
  LET path == Document(attempts[u].of)
  IN /\ At(u, "store")
     /\ \/ Store(path) /\ (Goto(u, "accept") \/ Goto(u, "intent"))
        \/ GiveUpStoring(path) /\ Goto(u, "intent")
     /\ UNCHANGED <<records, removals, workspace>>

\* recordInboxIntakeRemovalIntent
Intended(r) ==
  IF records[r].state \in {"reserved", "cancelled"}
  THEN [records EXCEPT ![r].pending = TRUE, ![r].ambiguous = TRUE] ELSE records

\* The write of the intent may fail; its error is swallowed.
RecordIntent(u) ==
  /\ At(u, "intent")
  /\ records' \in {Intended(attempts[u].of), records}
  /\ Result(u, "unavailable")
  /\ UNCHANGED <<removals, storageVars>>

\* Mutant of Accepted: whatever has become of the record.
AcceptedAnyway(r) ==
  [records[r] EXCEPT !.state = "accepted", !.once = TRUE, !.leased = FALSE,
                     !.pending = FALSE, !.ambiguous = FALSE]

\* acceptInboxIntake: only a reservation; what an earlier attempt intended to
\* remove is not removed any more.
Accepted(r) ==
  IF records[r].state # "reserved" THEN records[r]
  ELSE [records[r] EXCEPT !.state = "accepted", !.once = TRUE, !.leased = FALSE,
                          !.pending = FALSE, !.ambiguous = FALSE]

\* The transaction that accepts the record under its lock, or aborts.
Accept(u) ==
  LET r == attempts[u].of
      accepted == [records EXCEPT ![r] = Accepted(r)]
  IN /\ At(u, "accept")
     /\ \/ /\ accepted[r].state = "accepted"
           /\ records' = accepted /\ Result(u, "accepted")
        \/ /\ accepted[r].state # "accepted"
           /\ records' = Intended(r) /\ Result(u, "superseded")
        \/ UNCHANGED records /\ Goto(u, "intent")
     /\ UNCHANGED <<removals, storageVars>>

AttemptStep(u) ==
  Find(u) \/ Reserve(u) \/ Lease(u) \/ StoreBytes(u) \/ RecordIntent(u) \/ Accept(u)

\* An attempt is through before its lease ends, unless its process was paused.
WriterLeft(r) ==
  \E u \in Uploaders :
    attempts[u].of = r /\ attempts[u].at \in {"store", "accept", "intent"}

LeaseEnds(r) ==
  /\ records[r].leased /\ records' = [records EXCEPT ![r].leased = FALSE]
  /\ UNCHANGED <<attempts, removals, storageVars>>

-----------------------------------------------------------------------------
(* The clean-up (discardStaleReservations), one row after the other: the row *)
(* is cancelled first, its object removed then.                              *)

\* claimReservedIntakeForDiscard, claimAmbiguousObjectRemovalForDiscard and
\* claimSettledObjectRemovalForDiscard: what may have an unfinished write stays
\* ambiguous.
Discarded(r) ==
  [records[r] EXCEPT !.state = "cancelled", !.pending = TRUE,
                     !.ambiguous = @ \/ (records[r].state = "reserved"
                                         /\ ~records[r].pending)]

\* What is still to be removed, or a reservation old enough, if no lease
\* protects it.
Claim(r) ==
  /\ \A c \in removals : c[1] # "sweep"
  /\ ~records[r].leased
  /\ records' = [records EXCEPT ![r] = Discarded(r)]
  /\ removals' = removals \cup {<<"sweep", r, "remove">>}
  /\ UNCHANGED <<attempts, storageVars>>

ClaimPending(r) == records[r].state = "cancelled" /\ records[r].pending /\ Claim(r)

ClaimStale(r) == records[r].state = "reserved" /\ Claim(r)

\* deleteInbox: the intent to remove the object is recorded with the deletion.
Delete(r) ==
  /\ Live(r) /\ \A c \in removals : c[1] # "member"
  /\ records' = [records EXCEPT ![r].state = "cancelled", ![r].pending = TRUE,
                   ![r].ambiguous = @ \/ records[r].state = "reserved"]
  /\ removals' = removals \cup {<<"member", r, "remove">>}
  /\ UNCHANGED <<attempts, storageVars>>

\* The object goes, or its removal fails or is cut short.  The sweep leaves what
\* is ambiguous flagged.
RemoveObject(c) ==
  /\ c[3] = "remove"
  /\ \/ /\ Remove(Document(c[2]))
        /\ removals' = (removals \ {c}) \cup
             IF c[1] = "sweep" /\ records[c[2]].ambiguous THEN {}
             ELSE {<<c[1], c[2], "clear">>}
     \/ UNCHANGED <<objects, late>> /\ removals' = removals \ {c}
  /\ UNCHANGED <<records, attempts, workspace>>

\* Mutant of Cleared: the flag goes with the object.
ClearedAnyway(r) == [records[r] EXCEPT !.pending = FALSE]

\* clearObjectRemovalPending: what is ambiguous stays flagged.
Cleared(r) ==
  IF records[r].ambiguous THEN records[r] ELSE [records[r] EXCEPT !.pending = FALSE]

Clear(c) ==
  /\ c[3] = "clear" /\ removals' = removals \ {c}
  /\ records' \in {[records EXCEPT ![c[2]] = Cleared(c[2])], records}
  /\ UNCHANGED <<attempts, storageVars>>

\* settleAmbiguousObjectRemoval by an operator, who knows that no write is left.
Settle(r) ==
  /\ records[r].state = "cancelled" /\ records[r].pending /\ records[r].ambiguous
  /\ Document(r) \notin objects \cup late
  /\ \A u \in Uploaders : attempts[u].of = r => attempts[u].at = "through"
  /\ records' = [records EXCEPT ![r].pending = FALSE, ![r].ambiguous = FALSE]
  /\ UNCHANGED <<attempts, removals, storageVars>>

\* deleteExpiredCancelledIntake, long after whoever uploaded it is through.
Expire(r) ==
  /\ records[r].state = "cancelled" /\ ~records[r].pending /\ ~records[r].ambiguous
  /\ \A u \in Uploaders : attempts[u].at \in {"idle", "through"}
  /\ records' = [records EXCEPT ![r].state = "gone", ![r].leased = FALSE]
  /\ UNCHANGED <<attempts, removals, storageVars>>

CleanUp ==
  \/ \E r \in Records : ClaimPending(r) \/ Settle(r) \/ Expire(r)
                         \/ (~WriterLeft(r) /\ LeaseEnds(r))
  \/ \E c \in removals : RemoveObject(c) \/ Clear(c)

-----------------------------------------------------------------------------
(* Properties.                                                               *)

\* An accepted document has its bytes, whatever clean-up, deletion and other
\* uploads of the same content were under way when it was accepted.
AcceptedHasObject ==
  \A r \in Records : records[r].state = "accepted" => Document(r) \in objects

\* Bytes that never became a document are not forgotten: the record is there
\* and the clean-up looks at it again, however late the bytes arrived.
BytesAreRemembered ==
  workspace = "live" =>
    \A r \in Records :
      Document(r) \in objects /\ ~records[r].once
        => records[r].state = "reserved" \/ records[r].pending
=============================================================================
