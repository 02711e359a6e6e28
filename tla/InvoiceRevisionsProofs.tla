----------------------- MODULE InvoiceRevisionsProofs -----------------------
(***************************************************************************)
(* What InvoiceRevisions guarantees for any number of readings, revisions, *)
(* handlers and disturbances, under any delivery rules.                    *)
(*                                                                         *)
(* Base, below, carries everything.  Updates need two invariants more.     *)
(* Carried: while the values of the newest update are not the invoice's,   *)
(* it is neither queued nor can be retried.  UpdatesInTurn: what is on its *)
(* way to the provider or back is an update as it is queued, and the       *)
(* provider has what the newest update it saw asked for; that needs that   *)
(* no handler outlived its lease (stalls = 0) and that a job is listed by  *)
(* one reconciler at a time.                                               *)
(***************************************************************************)
EXTENDS InvoiceRevisions, DeliveryPolicyProofs, JobHandlersProofs, FiniteSetTheorems

Steps == {"load", "commit", "drop", "cancel", "updated", "send", "giveup"}
Work == WorkTypeOK(Steps, 0 .. MaxEvents)

-----------------------------------------------------------------------------
(* The invariant: revisions are made one after the other, each is decided,   *)
(* and everything else names one that was made.                              *)

RevisionsInOrder ==
  /\ \A r \in Revisions : decisions[r] # NoDecision <=> r <= invoice.revision
  /\ invoice.revision > 0 => invoice.content \in Content
  /\ post.status # "none" => invoice.revision > 0
  /\ \A r \in Revisions : updates[r].status # "none" => 1 < r /\ r <= invoice.revision
  /\ \A a \in asked : a.revision <= invoice.revision
  /\ sending # 0 => invoice.revision > 0
  /\ \A j \in listed : j[1] \in {"rerun", "update"}

\* What people do is counted, and so are the attempts of an update.
Counted ==
  /\ asks + stalls + exits <= MaxEvents
  /\ \A r \in Revisions : updates[r].attempt <= asks

IsLastCorrection(r) ==
  /\ r = 0 \/ updates[r].status # "none"
  /\ \A q \in (r + 1) .. MaxRevision : updates[q].status = "none"

HasLastCorrection == \E r \in 0 .. MaxRevision : IsLastCorrection(r)

Update ==
  [status : {"none", "kept", "queued", "updated", "failed", "cancelled",
             "superseded"},
   attempt : 0 .. MaxEvents]

Base == RevisionTypeOK /\ RevisionsInOrder /\ Counted /\ HasLastCorrection

LEMMA BoundsAreNumbers ==
  /\ MaxEvents \in Nat /\ MaxRevision \in Nat \ {0} /\ MaxReads \in Nat \ {0}
  /\ MaxStalls \in Nat /\ MaxExits \in Nat
  /\ Revisions = 1 .. MaxRevision /\ MaxRevision = MaxEvents + 1
BY RevisionsAssumption, HandlersAssumption DEF Revisions, MaxRevision

\* The newest correction is found, and there is only one.
LEMMA LastCorrectionFound ==
  ASSUME HasLastCorrection
  PROVE  LastCorrection \in 0 .. MaxRevision /\ IsLastCorrection(LastCorrection)
BY DEF HasLastCorrection, IsLastCorrection, LastCorrection

LEMMA LastCorrectionUnique ==
  ASSUME NEW r \in 0 .. MaxRevision, NEW q \in 0 .. MaxRevision,
         IsLastCorrection(r), IsLastCorrection(q)
  PROVE  r = q
<1>1. CASE r < q
  BY <1>1, BoundsAreNumbers DEF IsLastCorrection
<1>2. CASE q < r
  BY <1>2, BoundsAreNumbers DEF IsLastCorrection
<1> QED BY <1>1, <1>2, BoundsAreNumbers

-----------------------------------------------------------------------------
(* A new revision.                                                           *)

LEMMA QueuedTyped ==
  ASSUME NEW p \in Post, NEW r \in 0 .. MaxRevision
  PROVE  /\ Queued(p, r, FALSE) \in Post /\ Queued(p, r, TRUE) \in Post
         /\ Queued(p, r, FALSE).status = "queued"
         /\ Queued(p, r, TRUE).status = "queued"
<1>1. \A e \in BOOLEAN :
        /\ [p EXCEPT !.status = "queued", !.revision = r, !.retryable = FALSE,
                     !.explicit = e] \in Post
        /\ [p EXCEPT !.status = "queued", !.revision = r, !.retryable = FALSE,
                     !.explicit = e].status = "queued"
  BY DEF Post
<1>2. TRUE \in BOOLEAN /\ FALSE \in BOOLEAN
  OBVIOUS
<1> QED BY <1>1, <1>2, Zenon DEF Queued

\* What the rows look like after a new revision.
Revised(content) ==
  /\ invoice' \in InvoiceRow
  /\ invoice'.revision = invoice.revision + 1 /\ invoice'.revision \in Revisions
  /\ invoice'.status = "read" /\ invoice'.content = content
  /\ origins' \in [Revisions -> {"none", "read", "rerun", "admin", "member"}]
  /\ decisions' \in [Revisions -> Decision \cup {NoDecision}]
  /\ \A r \in Revisions : decisions'[r] # NoDecision <=> r <= invoice'.revision
  /\ events' \in SUBSET Revisions
  /\ post' \in Post

LEMMA ReviseTyped ==
  ASSUME Base, NEW content \in Content,
         NEW origin \in {"read", "rerun", "admin", "member"}, NEW p \in Post,
         NEW approval \in BOOLEAN, NEW mayPost,
         Revise(content, origin, p, approval, mayPost)
  PROVE  Revised(content)
<1> DEFINE r == invoice.revision + 1
           d == Decide(policy, content.reading, approval, mayPost, p.known, connection)
<1>1. r \in Revisions
  BY DEF Revise
<1>2. d \in Decision
  BY DecisionsAreTyped, RevisionsAssumption DEF Base, RevisionTypeOK, Content
<1>3. invoice \in InvoiceRow /\ invoice.revision \in 0 .. MaxRevision
  BY DEF Base, RevisionTypeOK, InvoiceRow
<1>4. invoice' = [invoice EXCEPT !.status = "read", !.revision = r,
                    !.content = content, !.rerun = "none", !.rerunOf = 0]
  BY DEF Revise
<1>5. /\ invoice' \in InvoiceRow /\ invoice'.revision = r
      /\ invoice'.status = "read" /\ invoice'.content = content
  <2>1. invoice' = [status |-> "read", failed |-> invoice.failed, revision |-> r,
                    content |-> content, rerun |-> "none", rerunOf |-> 0]
    BY <1>3, <1>4 DEF InvoiceRow
  <2>2. r \in 0 .. MaxRevision /\ 0 \in 0 .. MaxRevision
    BY <1>1, BoundsAreNumbers
  <2>3. invoice.failed \in BOOLEAN
    BY <1>3 DEF InvoiceRow
  <2>4. invoice' \in InvoiceRow
    BY <2>1, <2>2, <2>3 DEF InvoiceRow
  <2> QED BY <2>1, <2>4
<1>6. origins' \in [Revisions -> {"none", "read", "rerun", "admin", "member"}]
  BY <1>1 DEF Revise, Base, RevisionTypeOK
<1>7. decisions' = [decisions EXCEPT ![r] = d]
  BY DEF Revise
<1>8. decisions' \in [Revisions -> Decision \cup {NoDecision}]
  BY <1>1, <1>2, <1>7 DEF Base, RevisionTypeOK
<1>9. \A k \in Revisions : decisions'[k] # NoDecision <=> k <= r
  <2> TAKE k \in Revisions
  <2>1. decisions[k] # NoDecision <=> k <= invoice.revision
    BY DEF Base, RevisionsInOrder
  <2>2. CASE k = r
    BY <2>2, <1>1, <1>2, <1>7, RevisionsAssumption, BoundsAreNumbers
      DEF Base, RevisionTypeOK
  <2>3. CASE k # r
    <3>1. decisions'[k] = decisions[k]
      BY <2>3, <1>7 DEF Base, RevisionTypeOK
    <3> QED BY <3>1, <2>1, <2>3, <1>3, BoundsAreNumbers
  <2> QED BY <2>2, <2>3
<1>10. events' \in SUBSET Revisions
  BY <1>1 DEF Revise, Base, RevisionTypeOK
<1>11. post' \in Post
  <2>1. Queued(p, r, FALSE) \in Post
    <3>1. r \in 0 .. MaxRevision
      BY <1>1, BoundsAreNumbers
    <3> HIDE DEF r
    <3> QED BY <3>1, QueuedTyped
  <2>2. post' = p \/ post' = Queued(p, r, FALSE)
    BY DEF Revise
  <2> QED BY <2>1, <2>2
<1> QED BY <1>1, <1>5, <1>6, <1>8, <1>9, <1>10, <1>11 DEF Revised

-----------------------------------------------------------------------------
(* What a step has to leave in order, group by group of the variables.       *)

RowsFine ==
  /\ invoice' \in InvoiceRow
  /\ invoice'.revision = invoice.revision /\ invoice'.content = invoice.content
  /\ origins' = origins
  /\ decisions' \in [Revisions -> Decision \cup {NoDecision}]
  /\ \A r \in Revisions : decisions'[r] # NoDecision <=> decisions[r] # NoDecision

SentFine ==
  /\ events' \in SUBSET Revisions
  /\ post' \in Post /\ (post'.status # "none" => invoice.revision > 0)
  /\ sending' \in 0 .. MaxRevision /\ (sending' # 0 => invoice.revision > 0)
  /\ bill' \in 0 .. MaxRevision
  /\ applied' \in SUBSET (Revisions \X (0 .. MaxEvents))

UpdatesFine ==
  /\ updates' \in [Revisions -> Update]
  /\ \A r \in Revisions :
       /\ updates'[r].status # "none" <=> updates[r].status # "none"
       /\ updates'[r].attempt <= asks'

Retries == [status : {"failed", "cancelled"}, of : Revisions, revision : Revisions]

SettingsFine == policy' \in Policies /\ connection' \in {"auto", "manual", "none"}

RestFine ==
  /\ SettingsFine
  /\ listed' \in SUBSET RevisionJobs
  /\ \A j \in listed' : j[1] \in {"rerun", "update"}
  /\ asked' \in SUBSET Retries
  /\ \A a \in asked' : a.revision <= invoice.revision

AsksFine ==
  /\ asks' \in 0 .. MaxEvents /\ asks <= asks'
  /\ asks' + stalls' + exits' <= MaxEvents

LEMMA UnchangedIsFine ==
  ASSUME Base
  PROVE  /\ UNCHANGED rowVars => RowsFine
         /\ UNCHANGED <<events, post, sending, bill, applied>> => SentFine
         /\ UNCHANGED <<updates, asks>> => UpdatesFine
         /\ UNCHANGED updates /\ asks' = asks + 1 => UpdatesFine
         /\ UNCHANGED settingVars => SettingsFine
         /\ UNCHANGED <<settingVars, listed, asked>> => RestFine
         /\ UNCHANGED <<stalls, exits, asks>> => AsksFine
<1>1. UNCHANGED rowVars => RowsFine
  BY DEF Base, RevisionTypeOK, RowsFine, rowVars
<1>2. UNCHANGED <<events, post, sending, bill, applied>> => SentFine
  BY DEF Base, RevisionTypeOK, RevisionsInOrder, SentFine
<1>3. /\ updates \in [Revisions -> Update]
      /\ \A r \in Revisions : updates[r].attempt <= asks
      /\ \A r \in Revisions : updates[r].attempt \in Nat
      /\ asks \in Nat
  BY BoundsAreNumbers DEF Base, RevisionTypeOK, Counted, Update
<1>4. UNCHANGED <<updates, asks>> => UpdatesFine
  BY <1>3 DEF UpdatesFine
<1>5. UNCHANGED updates /\ asks' = asks + 1 => UpdatesFine
  BY <1>3 DEF UpdatesFine
<1>6. UNCHANGED settingVars => SettingsFine
  BY DEF Base, RevisionTypeOK, SettingsFine, settingVars
<1>7. UNCHANGED <<settingVars, listed, asked>> => RestFine
  BY <1>6 DEF Base, RevisionTypeOK, RevisionsInOrder, RestFine, Retries
<1>8. UNCHANGED <<stalls, exits, asks>> => AsksFine
  BY BoundsAreNumbers DEF Base, RevisionTypeOK, Counted, AsksFine
<1> QED BY <1>1, <1>2, <1>4, <1>5, <1>6, <1>7, <1>8

\* The newest correction stays the newest.
LEMMA UpdatesFineKeepsLast ==
  ASSUME HasLastCorrection, UpdatesFine
  PROVE  HasLastCorrection'
<1>1. PICK r \in 0 .. MaxRevision : IsLastCorrection(r)
  BY DEF HasLastCorrection
<1>2. IsLastCorrection(r)'
  BY <1>1, BoundsAreNumbers DEF IsLastCorrection, UpdatesFine
<1> QED BY <1>2 DEF HasLastCorrection

LEMMA FineKeepsBase ==
  ASSUME Base, Work', RowsFine, SentFine, UpdatesFine, RestFine, AsksFine
  PROVE  Base'
<1>1. RevisionTypeOK'
  BY DEF Base, RevisionTypeOK, Work, Steps, RowsFine, SentFine, UpdatesFine, Update,
         RestFine, SettingsFine, Retries, AsksFine
<1>2. RevisionsInOrder'
  BY DEF Base, RevisionsInOrder, RowsFine, SentFine, UpdatesFine, RestFine
<1>3. Counted'
  BY DEF Counted, UpdatesFine, AsksFine
<1>4. HasLastCorrection'
  BY UpdatesFineKeepsLast DEF Base
<1> QED BY <1>1, <1>2, <1>3, <1>4 DEF Base

\* A new revision leaves all in order, if the updates are.
LEMMA RevisedKeepsBase ==
  ASSUME Base, Work', NEW content \in Content, Revised(content),
         updates' \in [Revisions -> Update],
         \A r \in Revisions :
           /\ updates'[r].attempt = updates[r].attempt
           /\ updates'[r].status # "none" => 1 < r /\ r <= invoice'.revision,
         HasLastCorrection', RestFine, AsksFine,
         UNCHANGED <<sending, bill, applied>>
  PROVE  Base'
<1>1. /\ invoice.revision \in 0 .. MaxRevision
      /\ invoice'.revision > 0 /\ invoice'.revision > invoice.revision
  BY BoundsAreNumbers DEF Base, RevisionTypeOK, InvoiceRow, Revised
<1>2. RevisionTypeOK'
  BY DEF Base, RevisionTypeOK, Work, Steps, Revised, Update, RestFine, SettingsFine,
         Retries, AsksFine
<1>3. RevisionsInOrder'
  <2>1. \A a \in asked' : a.revision <= invoice'.revision
    <3> TAKE a \in asked'
    <3>1. a.revision \in Nat /\ a.revision <= invoice.revision
      BY BoundsAreNumbers DEF RestFine, Retries
    <3> QED BY <1>1, <3>1, BoundsAreNumbers DEF Revised
  <2> QED BY <1>1, <2>1 DEF Revised, RevisionsInOrder, RestFine
<1>4. Counted'
  <2>1. \A r \in Revisions : updates'[r].attempt <= asks'
    BY BoundsAreNumbers DEF Base, Counted, RevisionTypeOK, AsksFine
  <2> QED BY <2>1 DEF Counted, AsksFine
<1> QED BY <1>2, <1>3, <1>4 DEF Base

\* Updates keep their place when a reading supersedes those that failed.
LEMMA SupersededIsFine ==
  ASSUME Base, updates' = updates \/ updates' = Superseded, UNCHANGED asks
  PROVE  UpdatesFine /\ \A r \in Revisions : updates'[r].attempt = updates[r].attempt
<1>1. updates \in [Revisions -> Update]
  BY DEF Base, RevisionTypeOK, Update
<1>2. \A u \in Update :
        /\ [u EXCEPT !.status = "superseded"] \in Update
        /\ [u EXCEPT !.status = "superseded"].status # "none"
        /\ [u EXCEPT !.status = "superseded"].attempt = u.attempt
  BY DEF Update
<1>3. \A r \in Revisions :
        /\ updates'[r] \in Update
        /\ updates'[r].status # "none" <=> updates[r].status # "none"
        /\ updates'[r].attempt = updates[r].attempt
  BY <1>1, <1>2 DEF Superseded
<1>4. updates' \in [Revisions -> Update]
  BY <1>1, <1>2 DEF Superseded
<1> QED BY <1>3, <1>4 DEF Base, Counted, UpdatesFine

-----------------------------------------------------------------------------
(* The steps that make a revision.                                           *)

LEMMA HandlerFacts ==
  ASSUME Base, NEW h \in handlers
  PROVE  /\ Work
         /\ h.job \in RevisionJobs /\ h.seen \in 0 .. MaxEvents
         /\ h.job[1] = "rerun" => h.job[2] \in Revisions
         /\ h.job[1] = "update" => h.job[2] \in 2 .. MaxRevision
BY JobsAssumption
   DEF Base, RevisionTypeOK, Work, Steps, WorkTypeOK, Handler, RevisionJobs

LEMMA CommitReadKeepsBase ==
  ASSUME Base, NEW h \in handlers, CommitRead(h)
  PROVE  Base'
<1>1. Work'
  BY HandlerFacts, GoesTyped DEF CommitRead, Work, Steps, Ends
<1>2. UpdatesFine /\ \A r \in Revisions : updates'[r].attempt = updates[r].attempt
  BY SupersededIsFine DEF CommitRead
<1>3. RestFine /\ AsksFine
  BY UnchangedIsFine DEF CommitRead
<1>4. CASE Completable
  <2>1. PICK reading \in Readings :
          Revise([reading |-> reading, values |-> invoice.revision + 1],
                 "read", post, FALSE, TRUE)
    BY <1>4 DEF CommitRead
  <2> DEFINE content == [reading |-> reading, values |-> invoice.revision + 1]
  <2>2. content \in Content
    BY <2>1 DEF Revise, Content
  <2>3. post \in Post
    BY DEF Base, RevisionTypeOK
  <2>4. Revised(content)
    BY <2>1, <2>2, <2>3, ReviseTyped
  <2> HIDE DEF content
  <2>5. \A r \in Revisions :
          updates'[r].status # "none" => 1 < r /\ r <= invoice'.revision
    BY <1>2, <2>4, BoundsAreNumbers
       DEF UpdatesFine, Base, RevisionsInOrder, Revised, RevisionTypeOK, InvoiceRow
  <2> QED BY <1>1, <1>2, <1>3, <2>2, <2>4, <2>5, UpdatesFineKeepsLast, RevisedKeepsBase
          DEF UpdatesFine, CommitRead, Base
<1>5. CASE ~Completable
  <2>1. RowsFine /\ SentFine
    BY <1>5, UnchangedIsFine DEF CommitRead
  <2> QED BY <1>1, <1>2, <1>3, <2>1, FineKeepsBase
<1> QED BY <1>4, <1>5

\* Whatever else is written on the row, its revision and content stay.
SameContent(row) ==
  /\ row \in InvoiceRow
  /\ row.revision = invoice.revision /\ row.content = invoice.content

LEMMA RowEdits ==
  ASSUME invoice \in InvoiceRow
  PROVE  /\ SameContent(invoice)
         /\ SameContent([invoice EXCEPT !.rerun = "none", !.rerunOf = 0])
         /\ SameContent([invoice EXCEPT !.rerun = "failed"])
         /\ SameContent([invoice EXCEPT !.rerun = "queued",
                                        !.rerunOf = invoice.revision])
         /\ SameContent([invoice EXCEPT !.status = "read", !.failed = TRUE,
                                        !.rerun = "none", !.rerunOf = 0])
         /\ SameContent([invoice EXCEPT !.status = "processing", !.failed = FALSE])
         /\ SameContent([invoice EXCEPT !.status = "deleted"])
<1> 0 \in 0 .. MaxRevision
  BY BoundsAreNumbers
<1>1. SameContent(invoice)
  BY DEF SameContent
<1>2. SameContent([invoice EXCEPT !.rerun = "none", !.rerunOf = 0])
  BY DEF SameContent, InvoiceRow
<1>3. SameContent([invoice EXCEPT !.rerun = "failed"])
  BY DEF SameContent, InvoiceRow
<1>4. SameContent([invoice EXCEPT !.rerun = "queued", !.rerunOf = invoice.revision])
  BY DEF SameContent, InvoiceRow
<1>5. SameContent([invoice EXCEPT !.status = "read", !.failed = TRUE,
                                  !.rerun = "none", !.rerunOf = 0])
  BY DEF SameContent, InvoiceRow
<1>6. SameContent([invoice EXCEPT !.status = "processing", !.failed = FALSE])
  BY DEF SameContent, InvoiceRow
<1>7. SameContent([invoice EXCEPT !.status = "deleted"])
  BY DEF SameContent, InvoiceRow
<1> QED BY <1>1, <1>2, <1>3, <1>4, <1>5, <1>6, <1>7

LEMMA RowEditIsFine ==
  ASSUME Base, SameContent(invoice'), UNCHANGED <<origins, decisions>>
  PROVE  RowsFine
BY DEF Base, RevisionTypeOK, RowsFine, SameContent

LEMMA CommitRerunKeepsBase ==
  ASSUME Base, NEW h \in handlers, h.job[1] = "rerun", CommitRerun(h)
  PROVE  Base'
<1> DEFINE r == h.job[2]
<1>1. Work'
  BY HandlerFacts, GoesTyped DEF CommitRerun, Work, Steps, Ends
<1>2. UpdatesFine /\ \A k \in Revisions : updates'[k].attempt = updates[k].attempt
  BY SupersededIsFine DEF CommitRerun
<1>3. RestFine /\ AsksFine
  BY UnchangedIsFine DEF CommitRerun
<1>4. r \in Revisions
  BY HandlerFacts
<1>5. CASE invoice.revision = r /\ RerunWanted(r) /\ invoice.status = "read"
  <2>1. PICK reading \in Readings :
          Revise([invoice.content EXCEPT !.reading = reading], "rerun", post,
                 CarriesApproval(Current), RerunMayPost(Current))
    BY <1>5 DEF CommitRerun
  <2> DEFINE content == [invoice.content EXCEPT !.reading = reading]
  <2>2. content \in Content
    BY <1>4, <1>5, BoundsAreNumbers DEF Base, RevisionsInOrder, Content
  <2>3. post \in Post /\ CarriesApproval(Current) \in BOOLEAN
    BY DEF Base, RevisionTypeOK, CarriesApproval
  <2>4. Revised(content)
    BY <2>1, <2>2, <2>3, ReviseTyped
  <2> HIDE DEF content
  <2>5. \A k \in Revisions :
          updates'[k].status # "none" => 1 < k /\ k <= invoice'.revision
    BY <1>2, <2>4, BoundsAreNumbers
       DEF UpdatesFine, Base, RevisionsInOrder, Revised, RevisionTypeOK, InvoiceRow
  <2> QED BY <1>1, <1>2, <1>3, <2>2, <2>4, <2>5, UpdatesFineKeepsLast, RevisedKeepsBase
          DEF UpdatesFine, CommitRerun, Base
<1>6. CASE ~(invoice.revision = r /\ RerunWanted(r) /\ invoice.status = "read")
  <2>1. invoice' = RerunCleared(r) /\ UNCHANGED <<origins, decisions, events, post>>
    BY <1>6 DEF CommitRerun
  <2>2. RowsFine
    BY <2>1, RowEdits, RowEditIsFine DEF RerunCleared, Base, RevisionTypeOK
  <2>3. SentFine
    BY <2>1, UnchangedIsFine DEF CommitRerun
  <2> QED BY <1>1, <1>2, <1>3, <2>2, <2>3, FineKeepsBase
<1> QED BY <1>5, <1>6

\* Somebody acts, within the bound.
Acted == asks' = asks + 1 /\ asks' + stalls + exits <= MaxEvents

LEMMA ActedIsFine ==
  ASSUME Base, Acted, UNCHANGED <<stalls, exits>>
  PROVE  AsksFine
BY BoundsAreNumbers DEF Acted, AsksFine, Base, RevisionTypeOK, WorkTypeOK

LEMMA CorrectKeepsBase ==
  ASSUME Base, Acted, NEW role \in Roles, NEW reading \in Readings,
         NEW renumbers \in BOOLEAN, Correct(role, reading, renumbers)
  PROVE  Base'
<1> DEFINE r == invoice.revision + 1
           renewed == IF renumbers /\ ~post.known THEN [post EXCEPT !.keyed = FALSE]
                      ELSE post
           repost == post.status # "none" /\ role # "admin"
           content == [reading |-> reading, values |-> r]
<1>1. PICK choice \in BillOutcomes(role, reading) :
        /\ Revise(content, role, renewed, NeedsApproval(role),
                  choice = "not_posted" /\ ~repost)
        /\ updates' = [updates EXCEPT ![r].status =
                         IF choice = "update_bill" THEN "queued" ELSE "kept"]
        /\ IF choice = "update_bill" THEN Queue!Record(<<"update", r>>)
           ELSE UNCHANGED jobVars
  BY DEF Correct
<1>2. r \in Revisions /\ invoice.revision \in 1 .. MaxRevision
  BY <1>1, BoundsAreNumbers DEF Correct, Actionable, Revise, Base, RevisionTypeOK,
                                InvoiceRow
<1>3. content \in Content
  BY <1>2 DEF Content
<1>4. renewed \in Post
  BY DEF Base, RevisionTypeOK, Post
<1>5. role \in {"read", "rerun", "admin", "member"} /\ NeedsApproval(role) \in BOOLEAN
  BY RevisionsAssumption DEF NeedsApproval
<1>6. Revised(content)
  BY <1>1, <1>3, <1>4, <1>5, ReviseTyped
<1>7. Work'
  <2>1. CASE choice = "update_bill"
    <3>1. <<"update", r>> \in Jobs
      BY <1>2, JobsAssumption, BoundsAreNumbers DEF RevisionJobs
    <3>2. Queue!Record(<<"update", r>>) /\ UNCHANGED <<handlers, stalls, exits>>
      BY <1>1, <2>1 DEF Correct
    <3> QED BY <3>1, <3>2, RequeueTyped DEF Base, RevisionTypeOK, Work, Steps
  <2>2. CASE choice # "update_bill"
    BY <1>1, <2>2 DEF Correct, Base, RevisionTypeOK, Work, Steps, WorkTypeOK, jobVars
  <2> QED BY <2>1, <2>2
<1>8. \A k \in Revisions :
        /\ updates'[k].attempt = updates[k].attempt
        /\ updates'[k].status # "none" <=> updates[k].status # "none" \/ k = r
  BY <1>1, <1>2 DEF Base, RevisionTypeOK
<1>9. updates' \in [Revisions -> Update]
  <2>1. updates \in [Revisions -> Update]
    BY DEF Base, RevisionTypeOK, Update
  <2>2. \A u \in Update : /\ [u EXCEPT !.status = "queued"] \in Update
                          /\ [u EXCEPT !.status = "kept"] \in Update
    BY DEF Update
  <2> QED BY <1>1, <2>1, <2>2
<1>10. \A k \in Revisions :
         updates'[k].status # "none" => 1 < k /\ k <= invoice'.revision
  BY <1>2, <1>6, <1>8, BoundsAreNumbers DEF Base, RevisionsInOrder, Revised
<1>11. HasLastCorrection'
  <2>1. \A k \in (r + 1) .. MaxRevision : updates'[k].status = "none"
    BY <1>2, <1>8, BoundsAreNumbers DEF Base, RevisionsInOrder
  <2>2. updates'[r].status # "none"
    BY <1>2, <1>8
  <2> QED BY <1>2, <2>1, <2>2, BoundsAreNumbers DEF HasLastCorrection, IsLastCorrection
<1>12. RestFine /\ AsksFine /\ UNCHANGED <<sending, bill, applied>>
  BY ActedIsFine, UnchangedIsFine DEF Correct
<1> HIDE DEF content
<1> QED BY <1>3, <1>6, <1>7, <1>8, <1>9, <1>10, <1>11, <1>12, RevisedKeepsBase

-----------------------------------------------------------------------------
(* The other steps of handlers.                                              *)

\* Steps that only move a handler.
LEMMA MovesKeepBase ==
  ASSUME Base, Work', AsksFine, UNCHANGED asks,
         UNCHANGED <<rowVars, sentVars, settingVars, listed, asked>>
  PROVE  Base'
<1>1. RowsFine /\ SentFine /\ UpdatesFine /\ RestFine
  BY UnchangedIsFine DEF sentVars
<1> QED BY <1>1, FineKeepsBase

LEMMA ReadStepKeepsBase ==
  ASSUME Base, NEW h \in handlers, Read(h) \/ LoadRerun(h)
  PROVE  Base'
<1>1. PICK at \in {"commit", "drop", "giveup"} \cup Ends : Goes(h, at)
  BY DEF Read, LoadRerun, Ends
<1>2. /\ UNCHANGED <<jobVars, stalls, exits>>
      /\ UNCHANGED <<rowVars, sentVars, settingVars, listed, asked, asks>>
  BY DEF Read, LoadRerun
<1>3. Work'
  BY <1>1, <1>2, HandlerFacts, GoesTyped DEF Work, Steps
<1> QED BY <1>2, <1>3, UnchangedIsFine, MovesKeepBase

LEMMA RowStepKeepsBase ==
  ASSUME Base, NEW h \in handlers, GiveUpRead(h) \/ DropRerun(h) \/ GiveUpRerun(h)
  PROVE  Base'
<1>1. PICK at \in Ends : Goes(h, at)
  BY DEF GiveUpRead, DropRerun, GiveUpRerun, Ends
<1>2. /\ UNCHANGED <<jobVars, stalls, exits>>
      /\ UNCHANGED <<origins, decisions, sentVars, settingVars, listed, asked, asks>>
  BY DEF GiveUpRead, DropRerun, GiveUpRerun
<1>3. Work'
  BY <1>1, <1>2, HandlerFacts, GoesTyped DEF Work
<1>4. SameContent(invoice')
  BY RowEdits DEF GiveUpRead, DropRerun, GiveUpRerun, FailedReading, RerunCleared,
                  RerunFailed, Base, RevisionTypeOK
<1> QED BY <1>2, <1>3, <1>4, RowEditIsFine, UnchangedIsFine, FineKeepsBase DEF sentVars

LEMMA LoadUpdateKeepsBase ==
  ASSUME Base, NEW h \in handlers, h.job[1] = "update", LoadUpdate(h)
  PROVE  Base'
<1> DEFINE r == h.job[2]
<1>1. /\ UNCHANGED <<jobVars, stalls, exits>>
      /\ UNCHANGED <<rowVars, sentVars, settingVars, listed, asked, asks>>
  BY DEF LoadUpdate
<1>2. updates[r].attempt \in 0 .. MaxEvents
  <2>1. r \in Revisions
    BY HandlerFacts, BoundsAreNumbers
  <2>2. \A q \in Revisions : updates[q].attempt \in 0 .. MaxEvents
    BY DEF Base, RevisionTypeOK
  <2> QED BY <2>1, <2>2
<1>3. CASE Goes(h, "completing") \/ Goes(h, "cancel")
  <2>1. Work'
    BY <1>1, <1>3, HandlerFacts, GoesTyped DEF Work, Steps, Ends
  <2> QED BY <1>1, <2>1, UnchangedIsFine, MovesKeepBase
<1>4. CASE Becomes(h, [h EXCEPT !.at = "send", !.seen = updates[r].attempt])
  <2>1. Work'
    BY <1>1, <1>2, <1>4, HandlerFacts, BecomesTyped DEF Work, Steps
  <2> QED BY <1>1, <2>1, UnchangedIsFine, MovesKeepBase
<1> QED BY <1>3, <1>4 DEF LoadUpdate

LEMMA SendUpdateKeepsBase ==
  ASSUME Base, NEW h \in handlers, h.job[1] = "update", SendUpdate(h)
  PROVE  Base'
<1>1. PICK at \in {"updated", "giveup", "retrying"} : Goes(h, at)
  BY DEF SendUpdate
<1>2. /\ UNCHANGED <<jobVars, stalls, exits>>
      /\ UNCHANGED <<rowVars, events, post, sending, updates, settingVars, listed,
                     asked, asks>>
  BY DEF SendUpdate
<1>3. Work'
  BY <1>1, <1>2, HandlerFacts, GoesTyped DEF Work, Steps, Ends
<1>4. h.job[2] \in Revisions /\ h.seen \in 0 .. MaxEvents
  BY HandlerFacts, BoundsAreNumbers
<1>5. /\ bill' \in 0 .. MaxRevision
      /\ applied' \in SUBSET (Revisions \X (0 .. MaxEvents))
  <2> DEFINE r == h.job[2]
  <2>1. /\ bill \in 0 .. MaxRevision
        /\ applied \in SUBSET (Revisions \X (0 .. MaxEvents))
    BY DEF Base, RevisionTypeOK
  <2>2. bill' = UpdatedBill(r, h.seen) \/ bill' = bill
    BY DEF SendUpdate
  <2>3. applied' = applied \cup {<<r, h.seen>>} \/ applied' = applied
    BY DEF SendUpdate
  <2>4. r \in 0 .. MaxRevision
    BY <1>4, BoundsAreNumbers
  <2>5. <<r, h.seen>> \in Revisions \X (0 .. MaxEvents)
    BY <1>4
  <2>6. bill' \in 0 .. MaxRevision
    BY <2>1, <2>2, <2>4 DEF UpdatedBill
  <2> HIDE DEF r
  <2> QED BY <2>1, <2>3, <2>5, <2>6
<1>6. SentFine
  BY <1>2, <1>5 DEF SentFine, Base, RevisionTypeOK, RevisionsInOrder
<1> QED BY <1>2, <1>3, <1>6, UnchangedIsFine, FineKeepsBase

\* An update that was there is settled.
LEMMA SettledIsFine ==
  ASSUME Base, NEW r \in Revisions, NEW status \in {"updated", "failed", "cancelled"},
         updates' = Settled(r, status), UNCHANGED asks
  PROVE  UpdatesFine
<1>1. updates \in [Revisions -> Update]
  BY DEF Base, RevisionTypeOK, Update
<1>2. \A u \in Update : /\ [u EXCEPT !.status = status] \in Update
                        /\ [u EXCEPT !.status = status].status = status
                        /\ [u EXCEPT !.status = status].attempt = u.attempt
  BY DEF Update
<1>3. CASE updates[r].status = "queued"
  <2>1. updates' = [updates EXCEPT ![r] = [updates[r] EXCEPT !.status = status]]
    BY <1>1, <1>3 DEF Settled
  <2> QED BY <1>1, <1>2, <1>3, <2>1 DEF UpdatesFine, Base, Counted
<1>4. CASE updates[r].status # "queued"
  BY <1>1, <1>4 DEF Settled, UpdatesFine, Base, Counted
<1> QED BY <1>3, <1>4

LEMMA SettleUpdateKeepsBase ==
  ASSUME Base, NEW h \in handlers, h.job[1] = "update", SettleUpdate(h)
  PROVE  Base'
<1>1. PICK at \in Ends : Goes(h, at)
  BY DEF SettleUpdate, Ends
<1>2. /\ UNCHANGED <<jobVars, stalls, exits>>
      /\ UNCHANGED <<rowVars, events, post, sending, bill, applied, settingVars,
                     listed, asked, asks>>
  BY DEF SettleUpdate
<1>3. Work'
  BY <1>1, <1>2, HandlerFacts, GoesTyped DEF Work
<1>4. h.job[2] \in Revisions
  BY HandlerFacts, BoundsAreNumbers
<1>5. UpdatesFine
  BY <1>2, <1>4, SettledIsFine DEF SettleUpdate
<1> QED BY <1>2, <1>3, <1>5, UnchangedIsFine, FineKeepsBase

LEMMA SettleJobKeepsBase ==
  ASSUME Base, NEW h \in handlers, SettleJob(h),
         UNCHANGED <<rowVars, sentVars, settingVars, listed, asked, asks>>
  PROVE  Base'
<1>1. Work'
  BY HandlerFacts, SettleTyped DEF Work
<1>2. AsksFine
  BY UnchangedIsFine DEF SettleJob
<1> QED BY <1>1, <1>2, MovesKeepBase

LEMMA HandlerStepKeepsBase ==
  ASSUME Base, NEW h \in handlers, HandlerStep(h)
  PROVE  Base'
BY ReadStepKeepsBase, CommitReadKeepsBase, RowStepKeepsBase, CommitRerunKeepsBase,
   LoadUpdateKeepsBase, SendUpdateKeepsBase, SettleUpdateKeepsBase,
   SettleJobKeepsBase
   DEF HandlerStep

\* A handler begins or vanishes, or the reaper comes by.
LEMMA JobStepKeepsBase ==
  ASSUME Base, NEW j \in RevisionJobs, Started(j) \/ JobEnds(j)
  PROVE  Base'
<1>1. asks \in 0 .. MaxEvents /\ stalls \in Nat /\ exits \in Nat /\ Work
  BY BoundsAreNumbers DEF Base, RevisionTypeOK, Work, Steps, WorkTypeOK
<1>2. UNCHANGED <<rowVars, sentVars, settingVars, listed, asked, asks>>
  BY DEF Started, JobEnds
<1>3. CASE Started(j)
  <2>1. Work'
    <3>1. j \in Jobs /\ "load" \in Steps /\ 0 \in 0 .. MaxEvents /\ Begin(j, "load", 0)
      BY <1>3, JobsAssumption, BoundsAreNumbers DEF Started, Steps
    <3> QED BY <1>1, <3>1, BeginTyped DEF Work
  <2>2. AsksFine
    BY <1>1, <1>2, <1>3, BoundsAreNumbers DEF Started, Begin, AsksFine
  <2> QED BY <1>2, <2>1, <2>2, MovesKeepBase
<1>4. CASE JobEnds(j)
  <2>1. Work'
    <3>1. j \in Jobs /\ (Reap(j) \/ \E h \in handlers : Vanish(h))
      BY <1>4, JobsAssumption DEF JobEnds, HandlersOf
    <3> QED BY <1>1, <3>1, ReapTyped, VanishTyped DEF Work
  <2>2. AsksFine
    BY <1>1, <1>2, <1>4, BoundsAreNumbers DEF JobEnds, Reap, Vanish, AsksFine
  <2> QED BY <1>2, <2>1, <2>2, MovesKeepBase
<1> QED BY <1>3, <1>4

-----------------------------------------------------------------------------
(* What people do.                                                           *)

LEMMA RequestReadKeepsBase ==
  ASSUME Base, Acted, NEW n \in 1 .. MaxReads, RequestRead(n)
  PROVE  Base'
<1>1. <<"read", n>> \in Jobs
  BY JobsAssumption DEF RevisionJobs
<1>2. Work'
  BY <1>1, RequeueTyped DEF RequestRead, Base, RevisionTypeOK, Work, Steps
<1>3. RowsFine
  BY RowEdits, RowEditIsFine DEF RequestRead, Base, RevisionTypeOK
<1>4. SentFine /\ UpdatesFine /\ RestFine
  BY UnchangedIsFine DEF RequestRead, sentVars, Acted
<1> QED BY <1>2, <1>3, <1>4, ActedIsFine, FineKeepsBase DEF RequestRead

LEMMA RequestRerunKeepsBase ==
  ASSUME Base, Acted, RequestRerun
  PROVE  Base'
<1>1. <<"rerun", invoice.revision>> \in Jobs
  BY JobsAssumption, BoundsAreNumbers
     DEF RevisionJobs, RequestRerun, Actionable, Base, RevisionTypeOK, InvoiceRow
<1>2. Work'
  BY <1>1, RequeueTyped DEF RequestRerun, Base, RevisionTypeOK, Work, Steps
<1>3. RowsFine
  BY RowEdits, RowEditIsFine DEF RequestRerun, Base, RevisionTypeOK
<1>4. SentFine /\ UpdatesFine /\ RestFine
  BY UnchangedIsFine DEF RequestRerun, sentVars, Acted
<1> QED BY <1>2, <1>3, <1>4, ActedIsFine, FineKeepsBase DEF RequestRerun

\* A hold is resolved on the decision of the current revision.
LEMMA ResolveIsFine ==
  ASSUME Base, NEW resolution \in {"released", "dismissed"}, Resolve(resolution),
         UNCHANGED <<invoice, origins>>
  PROVE  /\ RowsFine /\ invoice.revision \in Revisions
         /\ Current \in Decision /\ Current.resolution = "none"
         /\ Current' = [Current EXCEPT !.resolution = resolution]
         /\ \A r \in Revisions : r # invoice.revision => decisions'[r] = decisions[r]
<1>1. invoice.revision \in Revisions
  BY BoundsAreNumbers DEF Resolve, Resolvable, Base, RevisionTypeOK, InvoiceRow
<1>2. Current \in Decision /\ Current.resolution = "none"
  BY <1>1 DEF Current, Resolve, Resolvable, Unresolved, Base, RevisionTypeOK
<1>3. [Current EXCEPT !.resolution = resolution] \in Decision
  BY <1>2 DEF Decision
<1>4. decisions' = [decisions EXCEPT ![invoice.revision] =
                     [Current EXCEPT !.resolution = resolution]]
  BY <1>1 DEF Resolve, Current, Base, RevisionTypeOK
<1>5. /\ Current' = [Current EXCEPT !.resolution = resolution]
      /\ \A r \in Revisions : r # invoice.revision => decisions'[r] = decisions[r]
  BY <1>1, <1>4 DEF Current, Base, RevisionTypeOK
<1>6. decisions' \in [Revisions -> Decision \cup {NoDecision}]
  BY <1>1, <1>3, <1>4 DEF Base, RevisionTypeOK
<1>7. \A r \in Revisions : decisions'[r] # NoDecision <=> decisions[r] # NoDecision
  BY <1>1, <1>2, <1>3, <1>5, RevisionsAssumption DEF Current
<1> QED BY <1>1, <1>2, <1>5, <1>6, <1>7 DEF RowsFine, Base, RevisionTypeOK

LEMMA ResolveKeepsBase ==
  ASSUME Base, Acted, Release \/ Dismiss
  PROVE  Base'
<1>1. /\ UNCHANGED <<workVars, invoice, origins, sending, bill, updates, applied,
                     settingVars, listed, asked>>
  BY DEF Release, Dismiss, sentVars
<1>2. Work'
  BY <1>1 DEF Base, RevisionTypeOK, Work, Steps, WorkTypeOK, workVars
<1>3. AsksFine /\ RestFine /\ UpdatesFine
  BY <1>1, ActedIsFine, UnchangedIsFine DEF workVars, Acted
<1>4. RowsFine /\ invoice.revision \in Revisions
  BY <1>1, ResolveIsFine DEF Release, Dismiss
<1>5. SentFine
  <2>1. CASE Release
    <3>1. events' \in SUBSET Revisions
      BY <1>4, <2>1 DEF Release, ReleasedEvents, Base, RevisionTypeOK
    <3>2. invoice.revision \in 0 .. MaxRevision /\ invoice.revision > 0 /\ post \in Post
      BY <1>4, BoundsAreNumbers DEF Base, RevisionTypeOK
    <3>3. post' = post \/ post' = Queued(post, invoice.revision, FALSE)
      BY <2>1 DEF Release
    <3>4. post' \in Post
      BY <3>2, <3>3, QueuedTyped
    <3> QED BY <1>1, <3>1, <3>2, <3>4 DEF SentFine, Base, RevisionTypeOK
  <2>2. CASE Dismiss
    BY <2>2, UnchangedIsFine DEF Dismiss, sentVars
  <2> QED BY <2>1, <2>2
<1> QED BY <1>2, <1>3, <1>4, <1>5, FineKeepsBase

LEMMA SettingsKeepBase ==
  ASSUME Base, Acted,
         (\E p \in Policies : SavePolicy(p))
           \/ (\E to \in {"auto", "manual", "none"} : SwitchConnection(to))
  PROVE  Base'
<1>1. UNCHANGED <<workVars, rowVars, sentVars, listed, asked>>
  BY DEF SavePolicy, SwitchConnection
<1>2. Work'
  BY <1>1 DEF Base, RevisionTypeOK, Work, Steps, WorkTypeOK, workVars
<1>3. SettingsFine
  BY DEF SavePolicy, SwitchConnection, SettingsFine, Base, RevisionTypeOK
<1>4. RestFine
  BY <1>1, <1>3 DEF RestFine, Retries, Base, RevisionTypeOK, RevisionsInOrder
<1> QED BY <1>1, <1>2, <1>4, ActedIsFine, UnchangedIsFine, FineKeepsBase
        DEF workVars, sentVars, Acted

LEMMA DeleteKeepsBase ==
  ASSUME Base, Acted, DeleteInvoice
  PROVE  Base'
<1>1. UNCHANGED <<workVars, origins, decisions, sentVars, settingVars, listed, asked>>
  BY DEF DeleteInvoice
<1>2. Work'
  BY <1>1 DEF Base, RevisionTypeOK, Work, Steps, WorkTypeOK, workVars
<1>3. RowsFine
  BY <1>1, RowEdits, RowEditIsFine DEF DeleteInvoice, Base, RevisionTypeOK
<1> QED BY <1>1, <1>2, <1>3, ActedIsFine, UnchangedIsFine, FineKeepsBase
        DEF workVars, sentVars, Acted

-----------------------------------------------------------------------------
(* Retries, the post, and the reconciler.                                    *)

LEMMA RetryDeliveryKeepsBase ==
  ASSUME Base, Acted, RetryDelivery
  PROVE  Base'
<1> DEFINE r == LastCorrection
<1>1. UNCHANGED <<handlers, stalls, exits, rowVars, events, sending, bill, applied,
                  settingVars, listed, asked>>
  BY DEF RetryDelivery
<1>2. SentFine
  <2>1. /\ post \in Post /\ post.revision \in 0 .. MaxRevision
        /\ invoice.revision > 0
    BY DEF RetryDelivery, Base, RevisionTypeOK, Post
  <2>2. post' = post \/ post' = Queued(post, post.revision, TRUE)
    BY DEF RetryDelivery
  <2>3. post' \in Post
    BY <2>1, <2>2, QueuedTyped
  <2> QED BY <1>1, <2>1, <2>3 DEF SentFine, Base, RevisionTypeOK
<1>3. CASE UpdateRetried
  <2>1. r \in 2 .. MaxRevision /\ r \in Revisions /\ updates[r].status # "none"
    BY <1>3, LastCorrectionFound, BoundsAreNumbers
       DEF UpdateRetried, Base, RevisionsInOrder, IsLastCorrection
  <2>2. /\ updates' = [updates EXCEPT ![r] = [status |-> "queued",
                                             attempt |-> updates[r].attempt + 1]]
        /\ RequeueOrEnqueue(<<"update", r>>)
    BY <1>3, <2>1 DEF RetryDelivery, Base, RevisionTypeOK
  <2>3. <<"update", r>> \in Jobs
    BY <2>1, JobsAssumption DEF RevisionJobs
  <2>4. Work'
    BY <1>1, <2>2, <2>3, RequeueTyped DEF Base, RevisionTypeOK, Work, Steps
  <2>5. updates \in [Revisions -> Update] /\ asks \in Nat /\ asks + 1 <= MaxEvents
    BY BoundsAreNumbers, ActedIsFine, <1>1 DEF AsksFine, Acted, Base, RevisionTypeOK, Update
  <2>6. /\ updates[r].attempt \in Nat
        /\ \A k \in Revisions : updates[k].attempt <= asks
    BY <2>1, <2>5, BoundsAreNumbers DEF Update, Base, Counted
  <2>7. [status |-> "queued", attempt |-> updates[r].attempt + 1] \in Update
    BY <2>1, <2>5, <2>6, BoundsAreNumbers DEF Update
  <2>8. updates' \in [Revisions -> Update]
    BY <2>1, <2>2, <2>5, <2>7
  <2>9. \A k \in Revisions : updates'[k].attempt <= asks'
    <3> TAKE k \in Revisions
    <3>1. updates[k].attempt \in Nat /\ updates[k].attempt <= asks
      BY <2>5, <2>6, BoundsAreNumbers DEF Update
    <3> QED BY <2>1, <2>2, <2>5, <2>6, <3>1 DEF Acted
  <2>10. UpdatesFine
    BY <2>1, <2>2, <2>5, <2>8, <2>9 DEF UpdatesFine
  <2> QED BY <1>1, <1>2, <2>4, <2>10, ActedIsFine, UnchangedIsFine, FineKeepsBase
<1>4. CASE ~UpdateRetried
  <2>1. UNCHANGED <<updates, jobVars>>
    BY <1>4 DEF RetryDelivery
  <2>2. Work'
    BY <1>1, <2>1 DEF Base, RevisionTypeOK, Work, Steps, WorkTypeOK, jobVars
  <2> QED BY <1>1, <1>2, <2>1, <2>2, ActedIsFine, UnchangedIsFine, FineKeepsBase
          DEF Acted
<1> QED BY <1>3, <1>4

LEMMA AskRetryKeepsBase ==
  ASSUME Base, Acted, AskRetry
  PROVE  Base'
<1>1. UNCHANGED <<workVars, rowVars, sentVars, settingVars, listed>>
  BY DEF AskRetry
<1>2. Work'
  BY <1>1 DEF Base, RevisionTypeOK, Work, Steps, WorkTypeOK, workVars
<1> DEFINE a == [status |-> IF post.status = "none" THEN "failed" ELSE post.status,
                 of |-> IF post.revision = 0 THEN invoice.revision ELSE post.revision,
                 revision |-> invoice.revision]
<1>3. invoice.revision \in Revisions /\ post.revision \in 0 .. MaxRevision
  BY BoundsAreNumbers DEF AskRetry, Base, RevisionTypeOK, InvoiceRow, Post
<1>4. a \in Retries
  <2>1. a.of \in Revisions
    BY <1>3, BoundsAreNumbers
  <2>2. a.status \in {"failed", "cancelled"}
    BY DEF AskRetry
  <2> QED BY <1>3, <2>1, <2>2 DEF Retries
<1>5. asked' = asked \cup {a}
  BY DEF AskRetry
<1>6. a.revision = invoice.revision
  OBVIOUS
<1> HIDE DEF a
<1>7. /\ SettingsFine /\ listed' \in SUBSET RevisionJobs /\ asked' \in SUBSET Retries
      /\ \A j \in listed' : j[1] \in {"rerun", "update"}
  BY <1>1, <1>4, <1>5, UnchangedIsFine DEF Base, RevisionTypeOK, RevisionsInOrder, Retries
<1>8. \A b \in asked' : b.revision <= invoice.revision
  BY <1>3, <1>5, <1>6, BoundsAreNumbers DEF Base, RevisionsInOrder
<1> QED BY <1>1, <1>2, <1>7, <1>8, ActedIsFine, UnchangedIsFine, FineKeepsBase
        DEF RestFine, workVars, sentVars, Acted

LEMMA RetryPostKeepsBase ==
  ASSUME Base, NEW a \in asked, RetryPost(a)
  PROVE  Base'
<1>1. UNCHANGED <<workVars, rowVars, events, sending, bill, updates, applied,
                  settingVars, listed, asks>>
  BY DEF RetryPost
<1>2. Work'
  BY <1>1 DEF Base, RevisionTypeOK, Work, Steps, WorkTypeOK, workVars
<1>3. RestFine
  BY <1>1, UnchangedIsFine
     DEF RetryPost, RestFine, Retries, Base, RevisionTypeOK, RevisionsInOrder
<1>4. /\ a.of \in 0 .. MaxRevision /\ a.revision \in Revisions
      /\ a.revision <= invoice.revision /\ invoice.revision \in 0 .. MaxRevision
  BY BoundsAreNumbers DEF Base, RevisionTypeOK, RevisionsInOrder, InvoiceRow
<1>5. invoice.revision > 0
  BY <1>4, BoundsAreNumbers
<1>6. post' \in Post
  BY <1>4, QueuedTyped DEF RetryPost, Base, RevisionTypeOK
<1>7. SentFine
  BY <1>1, <1>5, <1>6 DEF SentFine, Base, RevisionTypeOK
<1> QED BY <1>1, <1>2, <1>3, <1>7, UnchangedIsFine, FineKeepsBase DEF workVars

\* What the attempts of a post write on the row.
LEMMA PostEdits ==
  ASSUME NEW p \in Post
  PROVE  /\ [p EXCEPT !.status = "cancelled", !.retryable = FALSE] \in Post
         /\ [p EXCEPT !.status = "cancelled", !.retryable = TRUE] \in Post
         /\ [p EXCEPT !.status = "failed", !.retryable = FALSE, !.keyed = TRUE] \in Post
         /\ [p EXCEPT !.status = "failed", !.keyed = TRUE, !.retryable = FALSE] \in Post
         /\ [p EXCEPT !.status = "failed", !.keyed = TRUE, !.retryable = TRUE] \in Post
         /\ [p EXCEPT !.status = "posted", !.known = TRUE, !.keyed = TRUE,
                      !.retryable = FALSE] \in Post
         /\ [p EXCEPT !.keyed = TRUE] \in Post
         /\ [p EXCEPT !.keyed = TRUE].status = p.status
<1>1. [p EXCEPT !.status = "cancelled", !.retryable = FALSE] \in Post
  BY DEF Post
<1>2. [p EXCEPT !.status = "cancelled", !.retryable = TRUE] \in Post
  BY DEF Post
<1>3. [p EXCEPT !.status = "failed", !.retryable = FALSE, !.keyed = TRUE] \in Post
  BY DEF Post
<1>4. [p EXCEPT !.status = "failed", !.keyed = TRUE, !.retryable = FALSE] \in Post
  BY DEF Post
<1>5. [p EXCEPT !.status = "failed", !.keyed = TRUE, !.retryable = TRUE] \in Post
  BY DEF Post
<1>6. [p EXCEPT !.status = "posted", !.known = TRUE, !.keyed = TRUE,
               !.retryable = FALSE] \in Post
  BY DEF Post
<1>7. [p EXCEPT !.keyed = TRUE] \in Post /\ [p EXCEPT !.keyed = TRUE].status = p.status
  BY DEF Post
<1> QED BY <1>1, <1>2, <1>3, <1>4, <1>5, <1>6, <1>7

\* A post that is queued was queued for a revision.
LEMMA PostStepKeepsBase ==
  ASSUME Base, LoadPost \/ SendPost
  PROVE  Base'
<1>1. UNCHANGED <<workVars, rowVars, events, updates, applied, settingVars, listed,
                  asked, asks>>
  BY DEF LoadPost, SendPost
<1>2. Work'
  BY <1>1 DEF Base, RevisionTypeOK, Work, Steps, WorkTypeOK, workVars
<1>3. post \in Post
  BY DEF Base, RevisionTypeOK
<1>4. SentFine
  <2>1. CASE LoadPost
    <3>1. invoice.revision > 0 /\ invoice.content \in Content
      BY <2>1, BoundsAreNumbers DEF LoadPost, Base, RevisionsInOrder
    <3>2. post' \in Post
      BY <1>3, <2>1, PostEdits DEF LoadPost
    <3>3. sending' \in 0 .. MaxRevision /\ bill' = bill
      BY <2>1, <3>1, BoundsAreNumbers DEF LoadPost, Content, Base, RevisionTypeOK
    <3> QED BY <1>1, <3>1, <3>2, <3>3 DEF SentFine, Base, RevisionTypeOK
  <2>2. CASE SendPost
    <3>1. post' \in Post
      BY <1>3, <2>2, PostEdits DEF SendPost
    <3>2. sending' = 0 /\ bill' \in 0 .. MaxRevision
      BY <2>2 DEF SendPost, Base, RevisionTypeOK
    <3>3. sending # 0 /\ 0 \in 0 .. MaxRevision
      BY <2>2, BoundsAreNumbers DEF SendPost
    <3>4. invoice.revision > 0
      BY <3>3 DEF Base, RevisionsInOrder
    <3> QED BY <1>1, <3>1, <3>2, <3>3, <3>4 DEF SentFine, Base, RevisionTypeOK
  <2> QED BY <2>1, <2>2
<1> QED BY <1>1, <1>2, <1>4, UnchangedIsFine, FineKeepsBase DEF workVars

LEMMA ReconcileKeepsBase ==
  ASSUME Base, FailStalledRead \/ \E j \in RevisionJobs : ListStalled(j) \/ FailListed(j)
  PROVE  Base'
<1>1. UNCHANGED <<workVars, origins, decisions, events, post, sending, bill, applied,
                  settingVars, asked, asks>>
  BY DEF FailStalledRead, ListStalled, FailListed, rowVars, sentVars
<1>2. Work'
  BY <1>1 DEF Base, RevisionTypeOK, Work, Steps, WorkTypeOK, workVars
<1>3. SameContent(invoice')
  BY RowEdits DEF FailStalledRead, ListStalled, FailListed, FailedReading, RerunFailed,
                  rowVars, Base, RevisionTypeOK
<1>4. UpdatesFine
  <2>1. CASE UNCHANGED updates
    BY <1>1, <2>1, UnchangedIsFine
  <2>2. CASE ~UNCHANGED updates
    <3>1. PICK j \in RevisionJobs : FailListed(j) /\ j[1] # "rerun"
      BY <2>2 DEF FailStalledRead, ListStalled, FailListed, sentVars
    <3>2. j \in listed /\ updates' = Settled(j[2], "failed")
      BY <3>1 DEF FailListed
    <3>3. j[2] \in Revisions
      BY <3>1, <3>2, BoundsAreNumbers DEF RevisionJobs, Base, RevisionsInOrder
    <3> QED BY <1>1, <3>2, <3>3, SettledIsFine
  <2> QED BY <2>1, <2>2
<1>5. RestFine
  <2>1. /\ listed' \in SUBSET RevisionJobs
        /\ \A j \in listed' : j[1] \in {"rerun", "update"}
    BY DEF FailStalledRead, ListStalled, Stalled, FailListed, Base, RevisionTypeOK,
           RevisionsInOrder
  <2> QED BY <1>1, <2>1, UnchangedIsFine
          DEF RestFine, Retries, Base, RevisionTypeOK, RevisionsInOrder
<1> QED BY <1>1, <1>2, <1>3, <1>4, <1>5, RowEditIsFine, UnchangedIsFine, FineKeepsBase
        DEF workVars

-----------------------------------------------------------------------------
(* The invariant holds of every behaviour.                                   *)

LEMMA InitIsBase ==
  ASSUME Init PROVE Base
<1>1. RevisionTypeOK
  <2>1. <<"read", 1>> \in Jobs
    BY JobsAssumption, BoundsAreNumbers DEF RevisionJobs
  <2>2. Work
    BY BoundsAreNumbers, HandlersAssumption DEF Init, Work, WorkTypeOK, WorkInit
  <2>3. invoice \in InvoiceRow /\ post \in Post
    BY BoundsAreNumbers DEF Init, InvoiceRow, Post
  <2> QED BY <2>2, <2>3, BoundsAreNumbers DEF Init, RevisionTypeOK, Work, Steps
<1>2. RevisionsInOrder
  BY BoundsAreNumbers DEF Init, RevisionsInOrder
<1>3. Counted
  BY BoundsAreNumbers DEF Init, Counted, WorkInit
<1>4. HasLastCorrection
  BY BoundsAreNumbers DEF Init, HasLastCorrection, IsLastCorrection, Revisions
<1> QED BY <1>1, <1>2, <1>3, <1>4 DEF Base

LEMMA PersonKeepsBase ==
  ASSUME Base, PersonActs PROVE Base'
<1>1. Acted
  BY DEF PersonActs, Acted, RequestRead, RequestRerun, Correct, Release, Dismiss,
         RetryDelivery, AskRetry, SavePolicy, SwitchConnection, DeleteInvoice, workVars
<1> QED BY <1>1, RequestReadKeepsBase, RequestRerunKeepsBase, CorrectKeepsBase,
           ResolveKeepsBase, RetryDeliveryKeepsBase, AskRetryKeepsBase, SettingsKeepBase,
           DeleteKeepsBase DEF PersonActs

LEMMA StutterKeepsBase ==
  ASSUME Base, UNCHANGED vars PROVE Base'
<1>1. Work'
  BY DEF vars, Base, RevisionTypeOK, Work, Steps, WorkTypeOK, workVars
<1>2. AsksFine
  BY UnchangedIsFine DEF vars, workVars
<1> QED BY <1>1, <1>2, MovesKeepBase DEF vars

LEMMA NextKeepsBase ==
  ASSUME Base, [Next]_vars PROVE Base'
BY PersonKeepsBase, RetryPostKeepsBase, JobStepKeepsBase, ReconcileKeepsBase,
   HandlerStepKeepsBase, PostStepKeepsBase, StutterKeepsBase DEF Next

LEMMA BaseHolds == Spec => []Base
<1>1. Init => Base
  BY InitIsBase
<1>2. Base /\ [Next]_vars => Base'
  BY NextKeepsBase
<1> QED BY <1>1, <1>2, PTL DEF Spec

\* Every write of every handler, person and reconciler leaves the rows as the
\* schema has them, and within the bounds of the model: no revision is skipped,
\* no update belongs to a revision that was not made.
THEOREM RevisionsAreTyped == Spec => [](RevisionTypeOK /\ RevisionsInOrder)
<1>1. Base => RevisionTypeOK /\ RevisionsInOrder
  BY DEF Base
<1> QED BY <1>1, BaseHolds, PTL

-----------------------------------------------------------------------------
(* What is sent and posted was let through.                                  *)

\* A new revision is sent, and its post queued, only if its decision lets it.
LEMMA ReviseLetsThrough ==
  ASSUME Base, NEW content \in Content, NEW origin, NEW p \in Post,
         NEW approval \in BOOLEAN, NEW mayPost,
         Revise(content, origin, p, approval, mayPost)
  PROVE  /\ SentIffLetThrough => SentIffLetThrough'
         /\ post'.status = "queued" =>
              p.status = "queued" \/ ~Held(decisions'[invoice'.revision])
<1> DEFINE r == invoice.revision + 1
           d == Decide(policy, content.reading, approval, mayPost, p.known, connection)
<1>0. d \in Decision
  BY DecisionsAreTyped, RevisionsAssumption DEF Base, RevisionTypeOK, Content
<1>1. r \in Revisions /\ invoice.revision \in 0 .. MaxRevision
  BY DEF Revise, Base, RevisionTypeOK, InvoiceRow
<1>2. /\ decisions' = [decisions EXCEPT ![r] = d]
      /\ events' = IF d.webhooks = "deliver" THEN events \cup {r} ELSE events
      /\ post' = IF d.accounting = "deliver" /\ Schedulable(p)
                 THEN Queued(p, r, FALSE) ELSE p
  BY DEF Revise
<1>3. invoice'.revision = r
  BY DEF Revise, Base, RevisionTypeOK, InvoiceRow
<1>4. /\ d.resolution = "none"
      /\ d.accounting = "deliver" => d.reasons = {}
  BY DEF Decide, Accounting
<1> HIDE DEF d
<1>5. /\ decisions'[r] = d
      /\ \A k \in Revisions : k # r => decisions'[k] = decisions[k]
  BY <1>1, <1>2 DEF Base, RevisionTypeOK
<1>6. decisions[r] = NoDecision
  BY <1>1, BoundsAreNumbers DEF Base, RevisionsInOrder
<1>7. ASSUME SentIffLetThrough PROVE SentIffLetThrough'
  <2>1. r \notin events
    BY <1>1, <1>6, <1>7 DEF SentIffLetThrough
  <2>2. decisions'[r] # NoDecision
    BY <1>0, <1>5, RevisionsAssumption
  <2>3. r \in events' <=> d.webhooks = "deliver"
    BY <1>2, <2>1
  <2>4. ASSUME NEW k \in Revisions, k # r
        PROVE  k \in events' <=> k \in events
    BY <1>2, <2>4
  <2> HIDE DEF r
  <2> QED BY <1>4, <1>5, <1>7, <2>2, <2>3, <2>4 DEF SentIffLetThrough
<1>8. post'.status = "queued" => p.status = "queued" \/ ~Held(decisions'[r])
  BY <1>2, <1>4, <1>5 DEF Held
<1> QED BY <1>3, <1>7, <1>8

\* The steps that make a revision, as such.
LEMMA RevisionSteps ==
  ASSUME Base, NEW h \in handlers,
         CommitRead(h) \/ (h.job[1] = "rerun" /\ CommitRerun(h))
  PROVE  \/ UNCHANGED <<decisions, events, post>> /\ invoice'.revision = invoice.revision
         \/ \E content \in Content, origin \in {"read", "rerun"}, approval \in BOOLEAN,
              mayPost \in BOOLEAN : Revise(content, origin, post, approval, mayPost)
<1>1. CASE CommitRead(h) /\ Completable
  <2>1. PICK reading \in Readings :
          Revise([reading |-> reading, values |-> invoice.revision + 1],
                 "read", post, FALSE, TRUE)
    BY <1>1 DEF CommitRead
  <2>2. [reading |-> reading, values |-> invoice.revision + 1] \in Content
    BY <2>1 DEF Revise, Content
  <2> QED BY <2>1, <2>2
<1>2. CASE CommitRead(h) /\ ~Completable
  BY <1>2 DEF CommitRead, rowVars
<1>3. CASE h.job[1] = "rerun" /\ CommitRerun(h)
  <2>1. h.job[2] \in Revisions
    BY <1>3, HandlerFacts
  <2>2. CASE invoice.revision = h.job[2] /\ RerunWanted(h.job[2])
             /\ invoice.status = "read"
    <3>1. PICK reading \in Readings :
            Revise([invoice.content EXCEPT !.reading = reading], "rerun", post,
                   CarriesApproval(Current), RerunMayPost(Current))
      BY <1>3, <2>2 DEF CommitRerun
    <3>2. [invoice.content EXCEPT !.reading = reading] \in Content
      BY <2>1, <2>2, BoundsAreNumbers DEF Base, RevisionsInOrder, Content
    <3>3. CarriesApproval(Current) \in BOOLEAN /\ RerunMayPost(Current) \in BOOLEAN
      BY DEF CarriesApproval, RerunMayPost
    <3> QED BY <3>1, <3>2, <3>3
  <2>3. CASE ~(invoice.revision = h.job[2] /\ RerunWanted(h.job[2])
               /\ invoice.status = "read")
    <3>1. invoice' = RerunCleared(h.job[2]) /\ UNCHANGED <<decisions, events, post>>
      BY <1>3, <2>3 DEF CommitRerun
    <3>2. SameContent(invoice')
      BY <3>1, RowEdits DEF RerunCleared, Base, RevisionTypeOK
    <3> QED BY <3>1, <3>2 DEF SameContent
  <2> QED BY <2>2, <2>3
<1> QED BY <1>1, <1>2, <1>3

LEMMA CorrectIsRevision ==
  ASSUME Base, NEW role \in Roles, NEW reading \in Readings,
         NEW renumbers \in BOOLEAN, Correct(role, reading, renumbers)
  PROVE  \E content \in Content, origin \in {"admin", "member"}, p \in Post,
            approval \in BOOLEAN, mayPost \in BOOLEAN :
           p.status = post.status /\ Revise(content, origin, p, approval, mayPost)
<1> DEFINE content == [reading |-> reading, values |-> invoice.revision + 1]
           renewed == IF renumbers /\ ~post.known THEN [post EXCEPT !.keyed = FALSE]
                      ELSE post
           repost == post.status # "none" /\ role # "admin"
<1>1. PICK choice \in BillOutcomes(role, reading) :
        Revise(content, role, renewed, NeedsApproval(role),
               choice = "not_posted" /\ ~repost)
  BY DEF Correct
<1>2. content \in Content
  BY <1>1 DEF Revise, Content
<1>3. renewed \in Post /\ renewed.status = post.status
  BY DEF Base, RevisionTypeOK, Post
<1>4. NeedsApproval(role) \in BOOLEAN /\ (choice = "not_posted" /\ ~repost) \in BOOLEAN
  BY DEF NeedsApproval
<1> HIDE DEF content, renewed
<1> QED BY <1>1, <1>2, <1>3, <1>4, RevisionsAssumption

\* A release sends what was held of the current revision.
LEMMA ReleaseSends ==
  ASSUME Base, SentIffLetThrough, Release
  PROVE  SentIffLetThrough' /\ ~Held(decisions'[invoice'.revision])
<1> DEFINE c == invoice.revision
<1>1. /\ c \in Revisions /\ Current \in Decision /\ Current.resolution = "none"
      /\ decisions'[c] = [Current EXCEPT !.resolution = "released"]
      /\ \A r \in Revisions : r # c => decisions'[r] = decisions[r]
      /\ invoice' = invoice /\ RowsFine
  BY ResolveIsFine DEF Release, Current
<1>2. /\ decisions'[c].resolution = "released"
      /\ decisions'[c].webhooks = Current.webhooks
  BY <1>1 DEF Decision
<1>3. Current.webhooks \in {"held", "deliver"}
  BY <1>1 DEF Decision
<1>4. c \in events' <=> Current.webhooks = "held" \/ c \in events
  BY DEF Release, ReleasedEvents
<1>5. c \in events' /\ decisions'[c] # NoDecision
  BY <1>1, <1>3, <1>4, RevisionsAssumption DEF SentIffLetThrough, Current, RowsFine
<1>6. \A r \in Revisions : r # c => (r \in events' <=> r \in events)
  BY DEF Release, ReleasedEvents
<1>7. SentIffLetThrough'
  BY <1>1, <1>2, <1>5, <1>6 DEF SentIffLetThrough
<1> QED BY <1>1, <1>2, <1>7 DEF Held

LEMMA DismissSendsNothing ==
  ASSUME Base, SentIffLetThrough, Dismiss
  PROVE  SentIffLetThrough'
<1> DEFINE c == invoice.revision
<1>1. /\ c \in Revisions /\ Current \in Decision /\ Current.resolution = "none"
      /\ decisions'[c] = [Current EXCEPT !.resolution = "dismissed"]
      /\ \A r \in Revisions : r # c => decisions'[r] = decisions[r]
      /\ RowsFine
  BY ResolveIsFine DEF Dismiss, Current
<1>2. /\ decisions'[c].resolution = "dismissed"
      /\ decisions'[c].webhooks = Current.webhooks
  BY <1>1 DEF Decision
<1>3. events' = events
  BY DEF Dismiss, sentVars
<1>4. decisions[c] # NoDecision /\ decisions'[c] # NoDecision
  BY <1>1, RevisionsAssumption DEF Current, RowsFine
<1>5. c \in events <=> Current.webhooks = "deliver"
  BY <1>1, <1>4 DEF SentIffLetThrough, Current
<1> HIDE DEF c
<1> QED BY <1>1, <1>2, <1>3, <1>4, <1>5 DEF SentIffLetThrough

\* Every other step leaves decisions and events alone, and queues a post only as a
\* retry.
QuietStep ==
  \/ RequestRerun \/ RetryDelivery \/ AskRetry \/ DeleteInvoice
  \/ \E n \in 1 .. MaxReads : RequestRead(n)
  \/ \E p \in Policies : SavePolicy(p)
  \/ \E to \in {"auto", "manual", "none"} : SwitchConnection(to)
  \/ \E a \in asked : RetryPost(a)
  \/ \E j \in RevisionJobs : Started(j) \/ JobEnds(j) \/ ListStalled(j) \/ FailListed(j)
  \/ \E h \in handlers :
       \/ /\ h.job[1] # "update"
          /\ Read(h) \/ GiveUpRead(h) \/ LoadRerun(h) \/ DropRerun(h) \/ GiveUpRerun(h)
       \/ h.job[1] = "update" /\ (LoadUpdate(h) \/ SendUpdate(h) \/ SettleUpdate(h))
       \/ SettleJob(h) /\ UNCHANGED <<rowVars, sentVars, listed>>
  \/ FailStalledRead \/ LoadPost \/ SendPost \/ UNCHANGED vars

LEMMA StepCases ==
  ASSUME [Next]_vars
  PROVE  \/ QuietStep \/ Release \/ Dismiss
         \/ \E h \in handlers : CommitRead(h) \/ (h.job[1] = "rerun" /\ CommitRerun(h))
         \/ \E role \in Roles, reading \in Readings, renumbers \in BOOLEAN :
              Correct(role, reading, renumbers)
BY DEF Next, PersonActs, HandlerStep, QuietStep

LEMMA QuietStepsSendNothing ==
  ASSUME QuietStep PROVE UNCHANGED <<decisions, events>>
BY DEF QuietStep, RequestRerun, RetryDelivery, AskRetry, DeleteInvoice, RequestRead,
       SavePolicy, SwitchConnection, RetryPost, Started, JobEnds, ListStalled, FailListed,
       Read, GiveUpRead, LoadRerun, DropRerun, GiveUpRerun, LoadUpdate, SendUpdate,
       SettleUpdate, FailStalledRead, LoadPost, SendPost, vars, rowVars, sentVars

LEMMA NextSendsRight ==
  ASSUME Base, SentIffLetThrough, [Next]_vars
  PROVE  SentIffLetThrough'
<1>1. CASE QuietStep
  BY <1>1, QuietStepsSendNothing DEF SentIffLetThrough
<1>2. CASE Release
  BY <1>2, ReleaseSends
<1>3. CASE Dismiss
  BY <1>3, DismissSendsNothing
<1>4. ASSUME NEW h \in handlers,
             CommitRead(h) \/ (h.job[1] = "rerun" /\ CommitRerun(h))
      PROVE  SentIffLetThrough'
  <2>1. CASE UNCHANGED <<decisions, events>>
    BY <2>1 DEF SentIffLetThrough
  <2>2. CASE ~UNCHANGED <<decisions, events>>
    <3>1. PICK content \in Content, origin \in {"read", "rerun"}, approval \in BOOLEAN,
               mayPost \in BOOLEAN : Revise(content, origin, post, approval, mayPost)
      BY <1>4, <2>2, RevisionSteps
    <3> QED BY <3>1, ReviseLetsThrough DEF Base, RevisionTypeOK
  <2> QED BY <2>1, <2>2
<1>5. ASSUME NEW role \in Roles, NEW reading \in Readings, NEW renumbers \in BOOLEAN,
             Correct(role, reading, renumbers)
      PROVE  SentIffLetThrough'
  BY <1>5, CorrectIsRevision, ReviseLetsThrough
<1> QED BY <1>1, <1>2, <1>3, <1>4, <1>5, StepCases

\* The webhook events of a revision are scheduled exactly when its decision or an
\* admin lets them through, however often the invoice is read, corrected, asked
\* again, released and dismissed at the same time.
THEOREM SentIffLetThroughHolds == Spec => []SentIffLetThrough
<1>1. Init => SentIffLetThrough
  BY DEF Init, SentIffLetThrough
<1>2. Base /\ SentIffLetThrough /\ [Next]_vars => SentIffLetThrough'
  BY NextSendsRight
<1> QED BY <1>1, <1>2, BaseHolds, PTL DEF Spec

\* A retry that was read from the row in the same transaction looks at the decision.
LEMMA QuietPostIsLetThrough ==
  ASSUME Base, QuietStep, post.status # "queued", post'.status = "queued",
         asked \subseteq asked'
  PROVE  ~Held(decisions'[invoice'.revision])
<1>1. CASE RetryDelivery
  <2>1. invoice' = invoice /\ decisions' = decisions /\ invoice.revision \in Revisions
    BY <1>1, BoundsAreNumbers DEF RetryDelivery, rowVars, Base, RevisionTypeOK, InvoiceRow
  <2>2. MayRetry(invoice.revision, post.status)
    BY <1>1 DEF RetryDelivery
  <2> QED BY <2>1, <2>2, BoundsAreNumbers DEF MayRetry, Base, RevisionsInOrder,
             RevisionTypeOK, InvoiceRow
<1>2. CASE \E a \in asked : RetryPost(a)
  BY <1>2 DEF RetryPost
<1>3. CASE LoadPost \/ SendPost
  BY <1>3 DEF LoadPost, SendPost, Base, RevisionTypeOK, Post
<1>4. CASE UNCHANGED post
  BY <1>4
<1> QED BY <1>1, <1>2, <1>3, <1>4
        DEF QuietStep, RequestRerun, AskRetry, DeleteInvoice, RequestRead, SavePolicy,
            SwitchConnection, Started, JobEnds, ListStalled, FailListed, Read, GiveUpRead,
            LoadRerun, DropRerun, GiveUpRerun, LoadUpdate, SendUpdate, SettleUpdate,
            FailStalledRead, vars, rowVars, sentVars

LEMMA NextPostsRight ==
  ASSUME Base, SentIffLetThrough, [Next]_vars, post.status # "queued",
         post'.status = "queued", asked \subseteq asked'
  PROVE  ~Held(decisions'[invoice'.revision])
<1>1. CASE QuietStep
  BY <1>1, QuietPostIsLetThrough
<1>2. CASE Release
  BY <1>2, ReleaseSends
<1>3. CASE Dismiss
  BY <1>3 DEF Dismiss, sentVars
<1>4. ASSUME NEW h \in handlers,
             CommitRead(h) \/ (h.job[1] = "rerun" /\ CommitRerun(h))
      PROVE  ~Held(decisions'[invoice'.revision])
  <2>1. PICK content \in Content, origin \in {"read", "rerun"}, approval \in BOOLEAN,
             mayPost \in BOOLEAN : Revise(content, origin, post, approval, mayPost)
    BY <1>4, RevisionSteps
  <2> QED BY <2>1, ReviseLetsThrough DEF Base, RevisionTypeOK
<1>5. ASSUME NEW role \in Roles, NEW reading \in Readings, NEW renumbers \in BOOLEAN,
             Correct(role, reading, renumbers)
      PROVE  ~Held(decisions'[invoice'.revision])
  BY <1>5, CorrectIsRevision, ReviseLetsThrough
<1> QED BY <1>1, <1>2, <1>3, <1>4, <1>5, StepCases

\* A bill is queued only while nothing holds the invoice, whoever queues it, unless
\* it is a retry that read the invoice before.
THEOREM PostIsLetThroughHolds == Spec => PostIsLetThrough
<1>1. Base /\ SentIffLetThrough /\ [Next]_vars =>
        [post.status # "queued" /\ post'.status = "queued" /\ asked \subseteq asked'
           => ~Held(decisions'[invoice'.revision])]_vars
  BY NextPostsRight
<1> QED BY <1>1, BaseHolds, SentIffLetThroughHolds, PTL DEF Spec, PostIsLetThrough

-----------------------------------------------------------------------------
(* An update of the bill has the values the invoice has.                     *)

Newest(r) == \A k \in (r + 1) .. MaxRevision : updates[k].status = "none"

\* The inductive form: while a document is read no update is on its way, and the
\* values are those of the newest correction unless that was made, superseded or
\* not to be sent.
Carried ==
  /\ \A r \in Revisions :
       updates[r].status = "queued" => invoice.status # "processing" /\ Newest(r)
  /\ \A r \in Revisions :
       updates[r].status \in {"queued", "failed", "cancelled"} /\ Newest(r)
         => invoice.content.values = r

LEMMA UntouchedIsCarried ==
  ASSUME Carried, UNCHANGED updates, invoice'.content = invoice.content,
         invoice'.status = "processing" => invoice.status = "processing" \/ ~PendingUpdate
  PROVE  Carried'
<1>1. \A r \in Revisions : Newest(r)' <=> Newest(r)
  BY DEF Newest
<1> QED BY <1>1 DEF Carried, PendingUpdate

LEMMA SettledIsCarried ==
  ASSUME Base, Carried, NEW r \in Revisions,
         NEW status \in {"updated", "failed", "cancelled"},
         updates' = Settled(r, status),
         invoice'.content = invoice.content, invoice'.status = invoice.status
  PROVE  Carried'
<1>1. updates \in [Revisions -> Update]
  BY DEF Base, RevisionTypeOK, Update
<1>2. CASE updates[r].status = "queued"
  <2>1. updates' = [updates EXCEPT ![r] = [updates[r] EXCEPT !.status = status]]
    BY <1>1, <1>2 DEF Settled
  <2>2. [updates[r] EXCEPT !.status = status].status = status
    BY <1>1 DEF Update
  <2>3. \A k \in Revisions :
          updates'[k].status = IF k = r THEN status ELSE updates[k].status
    BY <1>1, <2>1, <2>2
  <2>4. \A k \in Revisions : Newest(k)' <=> Newest(k)
    BY <1>2, <2>3, BoundsAreNumbers DEF Newest
  <2>5. invoice.content.values = r
    BY <1>2 DEF Carried
  <2> QED BY <2>3, <2>4, <2>5 DEF Carried
<1>3. CASE updates[r].status # "queued"
  BY <1>3, UntouchedIsCarried DEF Settled
<1> QED BY <1>2, <1>3

LEMMA CorrectedIsCarried ==
  ASSUME Base, Carried, NEW role \in Roles, NEW reading \in Readings,
         NEW renumbers \in BOOLEAN, Correct(role, reading, renumbers)
  PROVE  Carried'
<1> DEFINE r == invoice.revision + 1
<1>1. PICK choice \in BillOutcomes(role, reading) :
        /\ updates' = [updates EXCEPT ![r].status =
                         IF choice = "update_bill" THEN "queued" ELSE "kept"]
        /\ \E p, approval, mayPost :
             Revise([reading |-> reading, values |-> r], role, p, approval, mayPost)
  BY DEF Correct
<1>2. r \in Revisions /\ invoice.revision \in 0 .. MaxRevision
  BY <1>1 DEF Revise, Base, RevisionTypeOK, InvoiceRow
<1>3. invoice'.status = "read" /\ invoice'.content = [reading |-> reading, values |-> r]
  BY <1>1 DEF Revise, Base, RevisionTypeOK, InvoiceRow
<1>4. invoice'.content.values = r
  BY <1>3
<1>5. updates \in [Revisions -> Update]
  BY DEF Base, RevisionTypeOK, Update
<1>6. /\ updates'[r].status \in {"queued", "kept"}
      /\ \A k \in Revisions : k # r => updates'[k] = updates[k]
  BY <1>1, <1>2, <1>5 DEF Update
<1>7. \A k \in Revisions : r < k => updates'[k].status = "none"
  BY <1>2, <1>6, BoundsAreNumbers DEF Base, RevisionsInOrder
<1>8. \A k \in Revisions : k < r => ~Newest(k)' /\ updates'[k].status # "queued"
  <2> TAKE k \in Revisions
  <2> HAVE k < r
  <2>1. r \in (k + 1) .. MaxRevision
    BY <1>2, BoundsAreNumbers
  <2>2. ~Newest(k)'
    BY <1>6, <2>1 DEF Newest
  <2>3. updates[k].status # "queued"
    BY DEF Correct, PendingUpdate
  <2>4. k # r
    BY <1>2, BoundsAreNumbers
  <2> QED BY <1>6, <2>2, <2>3, <2>4
<1> PICK c \in Revisions : c = r
  BY <1>2
<1>9. Newest(c)'
  BY <1>2, <1>7, BoundsAreNumbers DEF Newest
<1>10. \A k \in Revisions : k < c \/ k = c \/ c < k
  BY BoundsAreNumbers
<1>11. \A k \in Revisions : updates'[k].status = "queued" => k = c
  BY <1>7, <1>8, <1>10
<1>12. \A k \in Revisions :
         updates'[k].status \in {"queued", "failed", "cancelled"} /\ Newest(k)' => k = c
  BY <1>7, <1>8, <1>10
<1>13. invoice'.content.values = c /\ invoice'.status # "processing"
  BY <1>3, <1>4
<1> HIDE DEF r
<1> QED BY <1>9, <1>11, <1>12, <1>13 DEF Carried

LEMMA ReadIsCarried ==
  ASSUME Base, Carried, NEW h \in handlers, CommitRead(h)
  PROVE  Carried'
<1>1. CASE Completable
  <2>1. updates' = Superseded /\ updates \in [Revisions -> Update]
    BY <1>1 DEF CommitRead, Base, RevisionTypeOK, Update
  <2>2. \A u \in Update : [u EXCEPT !.status = "superseded"].status = "superseded"
    BY DEF Update
  <2>3. \A r \in Revisions : updates[r].status # "queued"
    BY <1>1 DEF Carried, Completable
  <2>4. \A r \in Revisions :
          updates'[r].status \notin {"queued", "failed", "cancelled"}
    BY <2>1, <2>2, <2>3 DEF Superseded
  <2> QED BY <2>4 DEF Carried
<1>2. CASE ~Completable
  BY <1>2, UntouchedIsCarried DEF CommitRead, rowVars
<1> QED BY <1>1, <1>2

LEMMA RerunIsCarried ==
  ASSUME Base, Carried, NEW h \in handlers, h.job[1] = "rerun", CommitRerun(h)
  PROVE  Carried'
<1> DEFINE r == h.job[2]
<1>1. r \in Revisions /\ UNCHANGED updates
  BY HandlerFacts DEF CommitRerun
<1>2. CASE invoice.revision = r /\ RerunWanted(r) /\ invoice.status = "read"
  <2>1. PICK reading \in Readings :
          Revise([invoice.content EXCEPT !.reading = reading], "rerun", post,
                 CarriesApproval(Current), RerunMayPost(Current))
    BY <1>2 DEF CommitRerun
  <2>2. /\ invoice'.status = "read"
        /\ invoice'.content = [invoice.content EXCEPT !.reading = reading]
    BY <2>1 DEF Revise, Base, RevisionTypeOK, InvoiceRow
  <2>3. invoice.content \in Content
    BY <1>1, <1>2, BoundsAreNumbers DEF Base, RevisionsInOrder
  <2>4. invoice'.content.values = invoice.content.values
    BY <2>2, <2>3 DEF Content
  <2>5. \A k \in Revisions : Newest(k)' <=> Newest(k)
    BY <1>1 DEF Newest
  <2> QED BY <1>1, <2>2, <2>4, <2>5 DEF Carried
<1>3. CASE ~(invoice.revision = r /\ RerunWanted(r) /\ invoice.status = "read")
  <2>1. invoice' = RerunCleared(r)
    BY <1>3 DEF CommitRerun
  <2>2. invoice'.status = invoice.status /\ invoice'.content = invoice.content
    BY <2>1 DEF RerunCleared, Base, RevisionTypeOK, InvoiceRow
  <2> QED BY <1>1, <2>2, UntouchedIsCarried
<1> QED BY <1>2, <1>3

LEMMA RetryIsCarried ==
  ASSUME Base, Carried, RetryDelivery
  PROVE  Carried'
<1> DEFINE r == LastCorrection
<1>1. invoice' = invoice
  BY DEF RetryDelivery, rowVars
<1>2. CASE UpdateRetried
  <2>1. r \in Revisions /\ Newest(r) /\ updates[r].status \in {"failed", "cancelled"}
        /\ invoice.status # "processing"
    BY <1>2, LastCorrectionFound, BoundsAreNumbers
       DEF UpdateRetried, Base, IsLastCorrection, Newest
  <2>2. updates' = [updates EXCEPT ![r] = [status |-> "queued",
                                           attempt |-> updates[r].attempt + 1]]
    BY <1>2, <2>1 DEF RetryDelivery, Base, RevisionTypeOK
  <2>3. \A k \in Revisions :
          updates'[k].status = IF k = r THEN "queued" ELSE updates[k].status
    BY <2>1, <2>2 DEF Base, RevisionTypeOK
  <2>4. \A k \in Revisions : Newest(k)' <=> Newest(k)
    BY <2>1, <2>3, BoundsAreNumbers DEF Newest
  <2>5. invoice.content.values = r
    BY <2>1 DEF Carried
  <2> QED BY <1>1, <2>1, <2>3, <2>4, <2>5 DEF Carried
<1>3. CASE ~UpdateRetried
  BY <1>1, <1>3, UntouchedIsCarried DEF RetryDelivery
<1> QED BY <1>2, <1>3

LEMMA NextIsCarried ==
  ASSUME Base, Carried, [Next]_vars
  PROVE  Carried'
<1>1. ASSUME SameContent(invoice'), UNCHANGED updates,
             invoice'.status = "processing"
               => invoice.status = "processing" \/ ~PendingUpdate
      PROVE  Carried'
  BY <1>1, UntouchedIsCarried DEF SameContent
<1>2. CASE Release \/ Dismiss
  BY <1>2, <1>1, RowEdits DEF Release, Dismiss, sentVars, Base, RevisionTypeOK
<1>3. ASSUME NEW h \in handlers,
             CommitRead(h) \/ (h.job[1] = "rerun" /\ CommitRerun(h))
      PROVE  Carried'
  BY <1>3, ReadIsCarried, RerunIsCarried
<1>4. ASSUME NEW role \in Roles, NEW reading \in Readings, NEW renumbers \in BOOLEAN,
             Correct(role, reading, renumbers)
      PROVE  Carried'
  BY <1>4, CorrectedIsCarried
<1>5. CASE QuietStep
  <2>1. CASE RetryDelivery
    BY <2>1, RetryIsCarried
  <2>2. ASSUME NEW j \in RevisionJobs, FailListed(j) PROVE Carried'
    <3>1. CASE j[1] = "rerun"
      <4>1. invoice' = RerunFailed(j[2]) /\ UNCHANGED updates
        BY <2>2, <3>1 DEF FailListed
      <4>2. invoice'.status = invoice.status /\ invoice'.content = invoice.content
        BY <4>1 DEF RerunFailed, Base, RevisionTypeOK, InvoiceRow
      <4> QED BY <4>1, <4>2, UntouchedIsCarried
    <3>2. CASE j[1] # "rerun"
      <4>1. j[2] \in Revisions
        BY <2>2, <3>2, BoundsAreNumbers DEF FailListed, RevisionJobs, Base, RevisionsInOrder
      <4> QED BY <2>2, <3>2, <4>1, SettledIsCarried DEF FailListed
    <3> QED BY <3>1, <3>2
  <2>3. ASSUME NEW h \in handlers, h.job[1] = "update", SettleUpdate(h) PROVE Carried'
    <3>1. h.job[2] \in Revisions
      BY <2>3, HandlerFacts, BoundsAreNumbers
    <3> QED BY <2>3, <3>1, SettledIsCarried DEF SettleUpdate, rowVars
  <2>4. CASE \E n \in 1 .. MaxReads : RequestRead(n)
    BY <2>4, <1>1, RowEdits DEF RequestRead, sentVars, Base, RevisionTypeOK
  <2>5. CASE RequestRerun \/ DeleteInvoice
    <3>1. /\ SameContent(invoice') /\ UNCHANGED updates
          /\ invoice'.status = "processing" => invoice.status = "processing"
      BY <2>5, RowEdits
         DEF RequestRerun, DeleteInvoice, sentVars, Base, RevisionTypeOK, InvoiceRow
    <3> QED BY <3>1, <1>1
  <2>6. CASE FailStalledRead \/ \E h \in handlers :
               GiveUpRead(h) \/ DropRerun(h) \/ GiveUpRerun(h)
    <3>1. SameContent(invoice') /\ UNCHANGED updates
      BY <2>6, RowEdits
         DEF FailStalledRead, GiveUpRead, DropRerun, GiveUpRerun, FailedReading,
             RerunCleared, RerunFailed, sentVars, Base, RevisionTypeOK
    <3>2. invoice'.status = "processing" => invoice.status = "processing"
      BY <2>6 DEF FailStalledRead, GiveUpRead, DropRerun, GiveUpRerun, FailedReading,
             RerunCleared, RerunFailed, Base, RevisionTypeOK, InvoiceRow
    <3> QED BY <3>1, <3>2, <1>1
  <2>7. CASE UNCHANGED <<invoice, updates>>
    BY <2>7, UntouchedIsCarried
  <2> QED BY <1>5, <2>1, <2>2, <2>3, <2>4, <2>5, <2>6, <2>7
          DEF QuietStep, AskRetry, SavePolicy, SwitchConnection, RetryPost, Started,
              JobEnds, ListStalled, Read, LoadRerun, LoadUpdate, SendUpdate, LoadPost,
              SendPost, vars, rowVars, sentVars
<1> QED BY <1>2, <1>3, <1>4, <1>5, StepCases

LEMMA CarriedIsCurrent ==
  ASSUME Base, Carried PROVE UpdatesAreCurrent
<1> SUFFICES ASSUME NEW r \in Revisions,
                    updates[r].status = "queued"
                      \/ (UpdateRetried /\ r = LastCorrection)
             PROVE  invoice.content.values = r
  BY DEF UpdatesAreCurrent
<1>1. CASE updates[r].status = "queued"
  BY <1>1 DEF Carried
<1>2. CASE UpdateRetried /\ r = LastCorrection
  BY <1>2, LastCorrectionFound
     DEF Carried, Newest, UpdateRetried, Base, IsLastCorrection
<1> QED BY <1>1, <1>2

LEMMA CarriedHolds == Spec => []Carried
<1>1. Init => Carried
  BY DEF Init, Carried
<1>2. Base /\ Carried /\ [Next]_vars => Carried'
  BY NextIsCarried
<1> QED BY <1>1, <1>2, BaseHolds, PTL DEF Spec

\* Whatever is read, corrected, retried and settled at the same time, no update of
\* a bill that is on its way or may be retried has values that were replaced.
THEOREM UpdatesAreCurrentHolds == Spec => []UpdatesAreCurrent
<1>1. Base /\ Carried => UpdatesAreCurrent
  BY CarriedIsCurrent
<1> QED BY <1>1, BaseHolds, CarriedHolds, PTL

-----------------------------------------------------------------------------
(* A reading that was asked for makes one revision.                          *)

ReadRevisions == {r \in Revisions : origins[r] = "read"}
AskedReads == {j \in ReadJobs : outcome[j] # "absent"}

\* While a document is read one of the readings is yet to make its revision.
ReadsToCome == IF invoice.status = "processing" THEN 1 ELSE 0

OwedReads == Cardinality(ReadRevisions) + ReadsToCome <= Cardinality(AskedReads)

LEMMA ReadsAreFinite ==
  /\ IsFiniteSet(ReadRevisions) /\ IsFiniteSet(AskedReads)
  /\ IsFiniteSet(ReadRevisions') /\ IsFiniteSet(AskedReads')
  /\ Cardinality(ReadRevisions) \in Nat /\ Cardinality(AskedReads) \in Nat
  /\ Cardinality(ReadRevisions') \in Nat /\ Cardinality(AskedReads') \in Nat
<1>1. IsFiniteSet(Revisions) /\ IsFiniteSet(1 .. MaxReads)
  BY FS_Interval, BoundsAreNumbers
<1>2. IsFiniteSet({"read"})
  BY FS_EmptySet, FS_AddElement
<1>3. IsFiniteSet(ReadJobs)
  BY <1>1, <1>2, FS_Product DEF ReadJobs
<1>4. /\ ReadRevisions \subseteq Revisions /\ ReadRevisions' \subseteq Revisions
      /\ AskedReads \subseteq ReadJobs /\ AskedReads' \subseteq ReadJobs
  BY DEF ReadRevisions, AskedReads
<1>5. /\ IsFiniteSet(ReadRevisions) /\ IsFiniteSet(AskedReads)
      /\ IsFiniteSet(ReadRevisions') /\ IsFiniteSet(AskedReads')
  BY <1>1, <1>3, <1>4, FS_Subset
<1> QED BY <1>5, FS_CardinalityType

\* A step that makes no revision of a reading and asks for none owes no more.
LEMMA OtherStepsOweNothing ==
  ASSUME OwedReads, ReadRevisions' \subseteq ReadRevisions, Remembered,
         invoice'.status = "processing" => invoice.status = "processing"
  PROVE  OwedReads'
<1>1. ReadJobs \subseteq Jobs
  BY JobsAssumption DEF ReadJobs, RevisionJobs
<1>2. AskedReads \subseteq AskedReads'
  BY <1>1 DEF AskedReads, Remembered
<1>3. IsFiniteSet(AskedReads')
  BY ReadsAreFinite
<1>4. Cardinality(AskedReads) <= Cardinality(AskedReads')
  BY <1>2, <1>3, FS_Subset
<1>5. Cardinality(ReadRevisions') <= Cardinality(ReadRevisions)
  BY ReadsAreFinite, FS_Subset
<1>6. /\ Cardinality(ReadRevisions') \in Nat /\ Cardinality(AskedReads') \in Nat
      /\ Cardinality(ReadRevisions) \in Nat /\ Cardinality(AskedReads) \in Nat
  BY ReadsAreFinite
<1>7. ReadsToCome' <= ReadsToCome /\ ReadsToCome \in Nat /\ ReadsToCome' \in Nat
  BY DEF ReadsToCome
<1> QED BY <1>4, <1>5, <1>6, <1>7 DEF OwedReads

LEMMA CommitReadOwesOne ==
  ASSUME Base, OwedReads, NEW h \in handlers, CommitRead(h)
  PROVE  OwedReads'
<1>1. UNCHANGED outcome
  BY DEF CommitRead, jobVars
<1>2. CASE Completable
  <2> DEFINE r == invoice.revision + 1
  <2>1. invoice.status = "processing" /\ invoice'.status = "read"
        /\ origins' = [origins EXCEPT ![r] = "read"]
    BY <1>2 DEF Completable, CommitRead, Revise, Base, RevisionTypeOK, InvoiceRow
  <2> HIDE DEF r
  <2>2. ReadRevisions' \subseteq ReadRevisions \cup {r}
    BY <2>1 DEF ReadRevisions, Base, RevisionTypeOK
  <2>3. /\ IsFiniteSet(ReadRevisions \cup {r})
        /\ Cardinality(ReadRevisions \cup {r}) <= Cardinality(ReadRevisions) + 1
        /\ Cardinality(ReadRevisions \cup {r}) \in Nat
    <3>1. /\ IsFiniteSet(ReadRevisions \cup {r})
          /\ Cardinality(ReadRevisions \cup {r}) =
               IF r \in ReadRevisions THEN Cardinality(ReadRevisions)
               ELSE Cardinality(ReadRevisions) + 1
      BY ReadsAreFinite, FS_AddElement
    <3>2. Cardinality(ReadRevisions) \in Nat
      BY ReadsAreFinite
    <3> QED BY <3>1, <3>2
  <2>4. Cardinality(ReadRevisions') <= Cardinality(ReadRevisions \cup {r})
    BY <2>2, <2>3, FS_Subset
  <2>5. ReadsToCome = 1 /\ ReadsToCome' = 0
    BY <2>1 DEF ReadsToCome
  <2>6. Cardinality(AskedReads') = Cardinality(AskedReads)
    BY <1>1 DEF AskedReads
  <2> QED BY <2>3, <2>4, <2>5, <2>6, ReadsAreFinite DEF OwedReads
<1>3. CASE ~Completable
  BY <1>1, <1>3, OtherStepsOweNothing DEF CommitRead, rowVars, ReadRevisions, Remembered
<1> QED BY <1>2, <1>3

LEMMA RequestOwesOneMore ==
  ASSUME Base, OwedReads, NEW n \in 1 .. MaxReads, RequestRead(n)
  PROVE  OwedReads'
<1> DEFINE j == <<"read", n>>
<1>1. /\ j \in ReadJobs /\ j \in Jobs
      /\ outcome[j] = "absent" /\ outcome' = [outcome EXCEPT ![j] = "pending"]
  BY JobsAssumption DEF ReadJobs, RevisionJobs, RequestRead, Queue!Record
<1> HIDE DEF j
<1>2. AskedReads' = AskedReads \cup {j} /\ j \notin AskedReads
  BY <1>1, JobsAssumption
     DEF AskedReads, ReadJobs, RevisionJobs, Base, RevisionTypeOK, WorkTypeOK
<1>3. Cardinality(AskedReads') = Cardinality(AskedReads) + 1
  BY <1>2, ReadsAreFinite, FS_AddElement
<1>4. ReadRevisions' = ReadRevisions
  BY DEF RequestRead, ReadRevisions
<1>5. ReadsToCome \in {0, 1} /\ ReadsToCome' \in {0, 1}
  BY DEF ReadsToCome
<1> QED BY <1>3, <1>4, <1>5, ReadsAreFinite DEF OwedReads

LEMMA QuietStepsRemember ==
  ASSUME Base, QuietStep PROVE Remembered
<1>1. Work
  BY DEF Base, RevisionTypeOK, Work, Steps
<1>2. \/ UNCHANGED jobVars
      \/ \E j \in Jobs : Queue!Record(j) \/ RequeueOrEnqueue(j) \/ Reap(j)
      \/ \E j \in Jobs : \E at, seen : Begin(j, at, seen)
      \/ \E h \in handlers : SettleJob(h) \/ Vanish(h)
  <2>1. CASE RequestRerun
    <3>1. <<"rerun", invoice.revision>> \in Jobs
      BY <2>1, JobsAssumption, BoundsAreNumbers
         DEF RevisionJobs, RequestRerun, Actionable, Base, RevisionTypeOK, InvoiceRow
    <3> QED BY <2>1, <3>1 DEF RequestRerun
  <2>2. CASE RetryDelivery
    <3>1. CASE UpdateRetried
      <4>1. <<"update", LastCorrection>> \in Jobs
        BY <3>1, LastCorrectionFound, JobsAssumption, BoundsAreNumbers
           DEF RevisionJobs, UpdateRetried, Base, RevisionsInOrder, IsLastCorrection
      <4> QED BY <2>2, <3>1, <4>1 DEF RetryDelivery
    <3>2. CASE ~UpdateRetried
      BY <2>2, <3>2 DEF RetryDelivery
    <3> QED BY <3>1, <3>2
  <2>3. CASE \E n \in 1 .. MaxReads : RequestRead(n)
    BY <2>3, JobsAssumption DEF RequestRead, RevisionJobs
  <2>4. CASE \E j \in RevisionJobs : Started(j) \/ JobEnds(j)
    BY <2>4, JobsAssumption DEF Started, JobEnds, HandlersOf
  <2>5. CASE \E h \in handlers : SettleJob(h)
    BY <2>5
  <2>6. CASE UNCHANGED jobVars
    BY <2>6
  <2> QED BY <2>1, <2>2, <2>3, <2>4, <2>5, <2>6
          DEF QuietStep, AskRetry, DeleteInvoice, SavePolicy, SwitchConnection, RetryPost,
              ListStalled, FailListed, Read, GiveUpRead, LoadRerun, DropRerun, GiveUpRerun,
              LoadUpdate, SendUpdate, SettleUpdate, FailStalledRead, LoadPost, SendPost,
              vars, workVars, jobVars
<1> QED BY <1>1, <1>2, JobsAreRemembered DEF Work

LEMMA QuietStepsReadNothing ==
  ASSUME Base, QuietStep, ~\E n \in 1 .. MaxReads : RequestRead(n)
  PROVE  /\ UNCHANGED origins
         /\ invoice'.status = "processing" => invoice.status = "processing"
<1>1. CASE RequestRerun \/ DeleteInvoice
  BY <1>1 DEF RequestRerun, DeleteInvoice, Base, RevisionTypeOK, InvoiceRow
<1>2. CASE FailStalledRead \/ \E h \in handlers :
             GiveUpRead(h) \/ DropRerun(h) \/ GiveUpRerun(h)
  BY <1>2 DEF FailStalledRead, GiveUpRead, DropRerun, GiveUpRerun, FailedReading,
              RerunCleared, RerunFailed, Base, RevisionTypeOK, InvoiceRow
<1>3. CASE \E j \in RevisionJobs : FailListed(j)
  BY <1>3 DEF FailListed, RerunFailed, Base, RevisionTypeOK, InvoiceRow
<1>4. CASE UNCHANGED <<invoice, origins>>
  BY <1>4
<1> QED BY <1>1, <1>2, <1>3, <1>4
        DEF QuietStep, RetryDelivery, AskRetry, SavePolicy, SwitchConnection, RetryPost,
            Started, JobEnds, ListStalled, Read, LoadRerun, LoadUpdate, SendUpdate,
            SettleUpdate, LoadPost, SendPost, vars, rowVars

LEMMA NextOwesReads ==
  ASSUME Base, OwedReads, [Next]_vars
  PROVE  OwedReads'
<1>1. CASE QuietStep
  <2>1. CASE \E n \in 1 .. MaxReads : RequestRead(n)
    BY <2>1, RequestOwesOneMore
  <2>2. CASE ~\E n \in 1 .. MaxReads : RequestRead(n)
    <3>1. UNCHANGED origins
            /\ (invoice'.status = "processing" => invoice.status = "processing")
      BY <1>1, <2>2, QuietStepsReadNothing
    <3> QED BY <1>1, <3>1, QuietStepsRemember, OtherStepsOweNothing DEF ReadRevisions
  <2> QED BY <2>1, <2>2
<1>2. CASE Release \/ Dismiss
  BY <1>2, OtherStepsOweNothing
     DEF Release, Dismiss, workVars, ReadRevisions, Remembered
<1>3. ASSUME NEW h \in handlers, CommitRead(h) PROVE OwedReads'
  BY <1>3, CommitReadOwesOne
<1>4. ASSUME NEW h \in handlers, h.job[1] = "rerun", CommitRerun(h) PROVE OwedReads'
  <2>1. Remembered
    BY <1>4 DEF CommitRerun, jobVars, Remembered
  <2>2. ReadRevisions' \subseteq ReadRevisions
    <3>1. origins' = origins
            \/ origins' = [origins EXCEPT ![invoice.revision + 1] = "rerun"]
      BY <1>4 DEF CommitRerun, Revise
    <3> QED BY <3>1 DEF ReadRevisions, Base, RevisionTypeOK
  <2>3. invoice'.status = "processing" => invoice.status = "processing"
    BY <1>4 DEF CommitRerun, Revise, RerunCleared, Base, RevisionTypeOK, InvoiceRow
  <2> QED BY <2>1, <2>2, <2>3, OtherStepsOweNothing
<1>5. ASSUME NEW role \in Roles, NEW reading \in Readings, NEW renumbers \in BOOLEAN,
             Correct(role, reading, renumbers)
      PROVE  OwedReads'
  <2> DEFINE r == invoice.revision + 1
  <2>1. PICK content, p, approval, mayPost : Revise(content, role, p, approval, mayPost)
    BY <1>5 DEF Correct
  <2>2. r \in Revisions /\ invoice'.status = "read"
    BY <2>1 DEF Revise, Base, RevisionTypeOK, InvoiceRow
  <2>3. origins' = [origins EXCEPT ![r] = role] /\ role # "read"
    BY <2>1, RevisionsAssumption DEF Revise
  <2>4. ReadRevisions' \subseteq ReadRevisions
    BY <2>3 DEF ReadRevisions, Base, RevisionTypeOK
  <2>5. Queue!Record(<<"update", r>>) \/ UNCHANGED jobVars
    BY <1>5 DEF Correct
  <2>6. Remembered
    BY <2>5 DEF Queue!Record, jobVars, Remembered, Base, RevisionTypeOK, WorkTypeOK
  <2> QED BY <2>2, <2>4, <2>6, OtherStepsOweNothing
<1> QED BY <1>1, <1>2, <1>3, <1>4, <1>5, StepCases

LEMMA InitOwesOne ==
  ASSUME Init PROVE OwedReads
<1>1. ReadRevisions = {}
  BY DEF Init, ReadRevisions
<1>2. AskedReads # {}
  <2>1. <<"read", 1>> \in ReadJobs
    BY BoundsAreNumbers DEF ReadJobs
  <2>2. outcome[<<"read", 1>>] # "absent"
    BY <2>1, JobsAssumption DEF Init, WorkInit, ReadJobs, RevisionJobs
  <2> QED BY <2>1, <2>2 DEF AskedReads
<1>3. Cardinality(AskedReads) # 0 /\ Cardinality(ReadRevisions) = 0
  BY <1>1, <1>2, ReadsAreFinite, FS_EmptySet
<1>4. ReadsToCome \in {0, 1}
  BY DEF ReadsToCome
<1> QED BY <1>3, <1>4, ReadsAreFinite DEF OwedReads

\* However many handlers of however many readings overlap, fail and are repeated,
\* a reading that was asked for makes at most one revision.
THEOREM OneRevisionPerReadHolds == Spec => []OneRevisionPerRead
<1>1. Init => OwedReads
  BY InitOwesOne
<1>2. Base /\ OwedReads /\ [Next]_vars => OwedReads'
  BY NextOwesReads
<1>3. OwedReads => OneRevisionPerRead
  <2>1. ReadsToCome \in {0, 1}
    BY DEF ReadsToCome
  <2> QED BY <2>1, ReadsAreFinite
          DEF OwedReads, OneRevisionPerRead, ReadRevisions, AskedReads
<1> QED BY <1>1, <1>2, <1>3, BaseHolds, PTL DEF Spec

-----------------------------------------------------------------------------
(* A held correction by a member waits for an admin.  The property is        *)
(* inductive: a revision that was made keeps its origin, its reasons and     *)
(* what was held, a resolution stays, and a posted bill stays known.         *)

\* What a step may do to the revisions that were made.
RevisionsStand ==
  /\ \A k \in 1 .. invoice.revision :
       /\ origins'[k] = origins[k]
       /\ decisions'[k].reasons = decisions[k].reasons
       /\ decisions'[k].accounting = decisions[k].accounting
       /\ decisions'[k].webhooks = decisions[k].webhooks
       /\ decisions'[k].resolution = "none" => decisions[k].resolution = "none"
  /\ post.known => post'.known

LEMMA StandingRevisionsWait ==
  ASSUME Base, RevisionsStand, HeldCorrectionWaits,
         NEW r \in 2 .. invoice.revision, NEW m \in 2 .. r,
         Unreleased(m, r)', \A k \in m .. (r - 1) : Withheld(decisions'[k])
  PROVE  /\ Unreleased(m, r) /\ (\A k \in m .. (r - 1) : Withheld(decisions[k]))
         /\ "awaiting_approval" \in decisions'[r].reasons
<1>1. invoice.revision \in 0 .. MaxRevision /\ MaxRevision \in Nat
  BY BoundsAreNumbers DEF Base, RevisionTypeOK, InvoiceRow
<1>2. m - 1 \in 1 .. invoice.revision /\ r \in 1 .. invoice.revision
  BY <1>1
<1>3. /\ m \in 1 .. invoice.revision
      /\ \A k \in (m - 1) .. (r - 1) : k \in 1 .. invoice.revision
      /\ \A k \in m .. r : k \in 1 .. invoice.revision
      /\ \A k \in m .. (r - 1) : k \in 1 .. invoice.revision
  BY <1>1
<1>4. Unreleased(m, r)
  <2>1. origins[m] = "member" /\ Withheld(decisions[m - 1])
    BY <1>2, <1>3 DEF Unreleased, RevisionsStand, Withheld
  <2>2. \A k \in (m - 1) .. (r - 1) : decisions[k].resolution = "none"
    BY <1>3 DEF Unreleased, RevisionsStand
  <2>3. ASSUME NEW k \in m .. r
        PROVE  origins[k] = "rerun" \/ (origins[k] = "member" /\ BeforePosting(k))
    BY <1>3 DEF Unreleased, RevisionsStand, BeforePosting
  <2> QED BY <2>1, <2>2, <2>3 DEF Unreleased
<1>5. \A k \in m .. (r - 1) : Withheld(decisions[k])
  BY <1>3 DEF RevisionsStand, Withheld
<1>6. "awaiting_approval" \in decisions[r].reasons
  BY <1>4, <1>5 DEF HeldCorrectionWaits
<1> QED BY <1>2, <1>4, <1>5, <1>6 DEF RevisionsStand

LEMMA StandingKeepsWaiting ==
  ASSUME Base, RevisionsStand, HeldCorrectionWaits,
         invoice'.revision = invoice.revision
  PROVE  HeldCorrectionWaits'
BY StandingRevisionsWait DEF HeldCorrectionWaits

\* A correction by a member before a bill was posted needs an admin if the revision
\* before it withholds something unresolved, and so does a rerun if that one waits.
LEMMA NewRevisionWaits ==
  ASSUME Base, HeldCorrectionWaits, NEW content \in Content,
         NEW origin \in {"read", "rerun", "admin", "member"}, NEW p \in Post,
         NEW approval \in BOOLEAN, NEW mayPost,
         Revise(content, origin, p, approval, mayPost), p.known = post.known,
         origin = "rerun" => approval = CarriesApproval(Current),
         origin = "member" => approval = NeedsApproval("member")
  PROVE  HeldCorrectionWaits'
<1> PICK c \in 0 .. MaxRevision : c = invoice.revision
  BY DEF Base, RevisionTypeOK, InvoiceRow
<1> DEFINE n == c + 1
           d == Decide(policy, content.reading, approval, mayPost, p.known, connection)
<1>1. /\ n \in Revisions /\ c = invoice.revision /\ MaxRevision \in Nat
      /\ Revisions = 1 .. MaxRevision
  BY BoundsAreNumbers DEF Revise
<1>2. invoice'.revision = n
  BY <1>1, ReviseTyped DEF Revised
<1>3. origins' = [origins EXCEPT ![n] = origin] /\ decisions' = [decisions EXCEPT ![n] = d]
  BY <1>1 DEF Revise
<1>4. \A k \in 1 .. c : origins'[k] = origins[k] /\ decisions'[k] = decisions[k]
  BY <1>1, <1>3 DEF Base, RevisionTypeOK
<1>5. origins'[n] = origin /\ decisions'[n] = d
  BY <1>1, <1>3 DEF Base, RevisionTypeOK
<1>6. post'.known = post.known
  BY DEF Revise, Queued, Post
<1>7. RevisionsStand
  BY <1>1, <1>4, <1>6 DEF RevisionsStand
<1>8. /\ approval => "awaiting_approval" \in d.reasons
      /\ p.known => d.accounting \in {"off", "already_posted"}
  BY DEF Decide, Accounting
<1> HIDE DEF d
<1>9. ASSUME NEW m \in 2 .. n, Unreleased(m, n)',
             \A k \in m .. (n - 1) : Withheld(decisions'[k])
      PROVE  approval
  <2>1. c \in 1 .. MaxRevision /\ c \in (m - 1) .. (n - 1) /\ n - 1 = c /\ m \in 2 .. n
    BY <1>1
  <2>2. decisions[c] # NoDecision
    BY <1>1, <2>1 DEF Base, RevisionsInOrder
  <2>3. decisions[c].resolution = "none"
    BY <1>4, <1>9, <2>1 DEF Unreleased
  <2>4. Withheld(decisions[c])
    <3>1. CASE m = n
      BY <3>1, <1>4, <1>9, <2>1 DEF Unreleased
    <3>2. CASE m # n
      <4>1. c \in m .. (n - 1)
        BY <3>2, <2>1, <1>1
      <4> QED BY <4>1, <2>1, <1>4, <1>9
    <3> QED BY <3>1, <3>2
  <2>5. CASE origin = "member"
    <3>1. BeforePosting(n)'
      <4>1. n \in m .. n
        BY <1>1
      <4> HIDE DEF n
      <4> QED BY <4>1, <1>5, <1>9, <2>5 DEF Unreleased
    <3>2. ~post.known
      BY <3>1, <1>5, <1>6, <1>8 DEF BeforePosting
    <3> QED BY <2>2, <2>3, <2>4, <2>5, <3>2 DEF NeedsApproval, Unresolved, Current
  <2>6. CASE origin # "member"
    <3>1. origin = "rerun" /\ m # n
      <4>1. n \in m .. n
        BY <1>1
      <4> HIDE DEF n
      <4> QED BY <4>1, <1>5, <1>9, <2>6 DEF Unreleased
    <3>2. c \in 2 .. c /\ m \in 2 .. c
      BY <3>1, <1>1, <2>1
    <3>3. Unreleased(m, c)' /\ \A k \in m .. (c - 1) : Withheld(decisions'[k])
      <4>1. /\ \A k \in (m - 1) .. (c - 1) : k \in (m - 1) .. (n - 1)
            /\ \A k \in m .. c : k \in m .. n
            /\ \A k \in m .. (c - 1) : k \in m .. (n - 1)
        BY <1>1, <3>2
      <4> HIDE DEF n
      <4> QED BY <4>1, <1>9 DEF Unreleased
    <3>4. "awaiting_approval" \in decisions'[c].reasons
      BY <3>2, <3>3, <1>7, StandingRevisionsWait
    <3>5. "awaiting_approval" \in decisions[c].reasons
      BY <3>4, <2>1, <1>4
    <3> QED BY <3>1, <3>5, <2>2, <2>3 DEF CarriesApproval, Unresolved, Current
  <2> QED BY <2>5, <2>6
<1>10. ASSUME NEW r \in 2 .. n, NEW m \in 2 .. r, Unreleased(m, r)',
              \A k \in m .. (r - 1) : Withheld(decisions'[k])
       PROVE  "awaiting_approval" \in decisions'[r].reasons
  <2>1. CASE r = n
    BY <2>1, <1>5, <1>8, <1>9, <1>10
  <2>2. CASE r # n
    <3>1. r \in 2 .. invoice.revision
      BY <2>2, <1>1
    <3> QED BY <3>1, <1>7, <1>10, StandingRevisionsWait
  <2> QED BY <2>1, <2>2
<1> HIDE DEF n
<1> QED BY <1>2, <1>10 DEF HeldCorrectionWaits

LEMMA QuietRevisionsStand ==
  ASSUME Base, QuietStep
  PROVE  RevisionsStand /\ invoice'.revision = invoice.revision
<1>1. UNCHANGED origins
  <2>1. CASE \E n \in 1 .. MaxReads : RequestRead(n)
    BY <2>1 DEF RequestRead
  <2> QED BY <2>1, QuietStepsReadNothing
<1>2. invoice'.revision = invoice.revision
  <2>1. CASE RequestRerun \/ DeleteInvoice \/ \E n \in 1 .. MaxReads : RequestRead(n)
    BY <2>1 DEF RequestRerun, DeleteInvoice, RequestRead, Base, RevisionTypeOK, InvoiceRow
  <2>2. CASE FailStalledRead \/ \E h \in handlers :
               GiveUpRead(h) \/ DropRerun(h) \/ GiveUpRerun(h)
    BY <2>2 DEF FailStalledRead, GiveUpRead, DropRerun, GiveUpRerun, FailedReading,
                RerunCleared, RerunFailed, Base, RevisionTypeOK, InvoiceRow
  <2>3. CASE \E j \in RevisionJobs : FailListed(j)
    BY <2>3 DEF FailListed, RerunFailed, Base, RevisionTypeOK, InvoiceRow
  <2>4. CASE UNCHANGED invoice
    BY <2>4
  <2> QED BY <2>1, <2>2, <2>3, <2>4
          DEF QuietStep, RetryDelivery, AskRetry, SavePolicy, SwitchConnection, RetryPost,
              Started, JobEnds, ListStalled, Read, LoadRerun, LoadUpdate, SendUpdate,
              SettleUpdate, LoadPost, SendPost, vars, rowVars
<1>3. post.known => post'.known
  <2>1. CASE RetryDelivery \/ \E a \in asked : RetryPost(a)
    BY <2>1 DEF RetryDelivery, RetryPost, Queued, Base, RevisionTypeOK, Post
  <2>2. CASE LoadPost \/ SendPost
    BY <2>2 DEF LoadPost, SendPost, Base, RevisionTypeOK, Post
  <2>3. CASE UNCHANGED post
    BY <2>3
  <2> QED BY <2>1, <2>2, <2>3
          DEF QuietStep, RequestRerun, DeleteInvoice, RequestRead, AskRetry, SavePolicy,
              SwitchConnection, Started, JobEnds, ListStalled, FailListed, Read,
              GiveUpRead, LoadRerun, DropRerun, GiveUpRerun, LoadUpdate, SendUpdate,
              SettleUpdate, FailStalledRead, vars, sentVars
<1> QED BY <1>1, <1>2, <1>3, QuietStepsSendNothing DEF RevisionsStand

LEMMA ResolvedRevisionsStand ==
  ASSUME Base, Release \/ Dismiss
  PROVE  RevisionsStand /\ invoice'.revision = invoice.revision
<1>1. PICK resolution \in {"released", "dismissed"} : Resolve(resolution)
  BY DEF Release, Dismiss
<1>2. UNCHANGED <<invoice, origins>>
  BY DEF Release, Dismiss
<1>3. /\ invoice.revision \in Revisions
      /\ Current \in Decision /\ Current.resolution = "none"
      /\ Current' = [Current EXCEPT !.resolution = resolution]
      /\ \A r \in Revisions : r # invoice.revision => decisions'[r] = decisions[r]
  BY <1>1, <1>2, ResolveIsFine
<1>4. /\ Current'.reasons = Current.reasons /\ Current'.accounting = Current.accounting
      /\ Current'.webhooks = Current.webhooks
  BY <1>3 DEF Decision
<1>5. post.known => post'.known
  BY DEF Release, Dismiss, Queued, sentVars, Base, RevisionTypeOK, Post
<1>6. \A k \in 1 .. invoice.revision : k \in Revisions
  BY <1>3, BoundsAreNumbers
<1> QED BY <1>2, <1>3, <1>4, <1>5, <1>6 DEF RevisionsStand, Current

LEMMA CommittedRevisionWaits ==
  ASSUME Base, HeldCorrectionWaits, NEW h \in handlers,
         CommitRead(h) \/ (h.job[1] = "rerun" /\ CommitRerun(h))
  PROVE  HeldCorrectionWaits'
<1>0. post \in Post
  BY DEF Base, RevisionTypeOK
<1>1. CASE CommitRead(h) /\ Completable
  <2>1. PICK reading \in Readings :
          Revise([reading |-> reading, values |-> invoice.revision + 1],
                 "read", post, FALSE, TRUE)
    BY <1>1 DEF CommitRead
  <2>2. [reading |-> reading, values |-> invoice.revision + 1] \in Content
    BY <2>1 DEF Revise, Content
  <2> QED BY <1>0, <2>1, <2>2, NewRevisionWaits
<1>2. CASE h.job[1] = "rerun" /\ CommitRerun(h) /\ invoice.revision = h.job[2]
             /\ RerunWanted(h.job[2]) /\ invoice.status = "read"
  <2>1. PICK reading \in Readings :
          Revise([invoice.content EXCEPT !.reading = reading], "rerun", post,
                 CarriesApproval(Current), RerunMayPost(Current))
    BY <1>2 DEF CommitRerun
  <2>2. [invoice.content EXCEPT !.reading = reading] \in Content
    BY <1>2, HandlerFacts, BoundsAreNumbers DEF Base, RevisionsInOrder, Content
  <2>3. CarriesApproval(Current) \in BOOLEAN
    BY DEF CarriesApproval
  <2> QED BY <1>0, <2>1, <2>2, <2>3, NewRevisionWaits
<1>3. CASE UNCHANGED <<origins, decisions, post>> /\ invoice'.revision = invoice.revision
  BY <1>3, StandingKeepsWaiting DEF RevisionsStand
<1>4. CASE CommitRead(h) /\ ~Completable
  BY <1>3, <1>4 DEF CommitRead, rowVars
<1>5. CASE h.job[1] = "rerun" /\ CommitRerun(h)
             /\ ~(invoice.revision = h.job[2] /\ RerunWanted(h.job[2])
                  /\ invoice.status = "read")
  <2>1. invoice' = RerunCleared(h.job[2]) /\ UNCHANGED <<origins, decisions, post>>
    BY <1>5 DEF CommitRerun
  <2>2. SameContent(invoice')
    BY <2>1, RowEdits DEF RerunCleared, Base, RevisionTypeOK
  <2> QED BY <1>3, <2>1, <2>2 DEF SameContent
<1> QED BY <1>1, <1>2, <1>4, <1>5

LEMMA CorrectedRevisionWaits ==
  ASSUME Base, HeldCorrectionWaits, NEW role \in Roles, NEW reading \in Readings,
         NEW renumbers \in BOOLEAN, Correct(role, reading, renumbers)
  PROVE  HeldCorrectionWaits'
<1> DEFINE content == [reading |-> reading, values |-> invoice.revision + 1]
           renewed == IF renumbers /\ ~post.known THEN [post EXCEPT !.keyed = FALSE]
                      ELSE post
           repost == post.status # "none" /\ role # "admin"
<1>1. PICK choice \in BillOutcomes(role, reading) :
        Revise(content, role, renewed, NeedsApproval(role),
               choice = "not_posted" /\ ~repost)
  BY DEF Correct
<1>2. content \in Content
  BY <1>1 DEF Revise, Content
<1>3. renewed \in Post /\ renewed.known = post.known
  BY DEF Base, RevisionTypeOK, Post
<1>4. NeedsApproval(role) \in BOOLEAN /\ role \in {"admin", "member"}
  BY RevisionsAssumption DEF NeedsApproval
<1> HIDE DEF content, renewed
<1> QED BY <1>1, <1>2, <1>3, <1>4, NewRevisionWaits

\* A member who corrects what was held, before a bill was posted, cannot get rid of
\* the approval while every revision since withholds something, however often the
\* invoice is corrected or its questions are asked again, and whoever retries, saves
\* rules or is late: only an admin, or a new reading, ends the wait.
THEOREM HeldCorrectionWaitsHolds == Spec => []HeldCorrectionWaits
<1>1. Init => HeldCorrectionWaits
  BY DEF Init, HeldCorrectionWaits
<1>2. ASSUME Base, HeldCorrectionWaits, [Next]_vars
      PROVE  HeldCorrectionWaits'
  <2>1. CASE QuietStep
    BY <1>2, <2>1, QuietRevisionsStand, StandingKeepsWaiting
  <2>2. CASE Release \/ Dismiss
    BY <1>2, <2>2, ResolvedRevisionsStand, StandingKeepsWaiting
  <2>3. CASE \E h \in handlers : CommitRead(h) \/ (h.job[1] = "rerun" /\ CommitRerun(h))
    BY <1>2, <2>3, CommittedRevisionWaits
  <2>4. CASE \E role \in Roles, reading \in Readings, renumbers \in BOOLEAN :
               Correct(role, reading, renumbers)
    BY <1>2, <2>4, CorrectedRevisionWaits
  <2> QED BY <1>2, <2>1, <2>2, <2>3, <2>4, StepCases
<1> QED BY <1>1, <1>2, BaseHolds, PTL DEF Spec

-----------------------------------------------------------------------------
(* What a handler that is alone records is what the provider has.            *)

LEMMA QuietStepsWork ==
  ASSUME Base, QuietStep PROVE WorkStep
<1>1. CASE RequestRerun
  <2>1. <<"rerun", invoice.revision>> \in Jobs
    BY <1>1, JobsAssumption, BoundsAreNumbers
       DEF RevisionJobs, RequestRerun, Actionable, Base, RevisionTypeOK, InvoiceRow
  <2> QED BY <1>1, <2>1 DEF RequestRerun, WorkStep
<1>2. CASE RetryDelivery
  <2>1. CASE UpdateRetried
    <3>1. <<"update", LastCorrection>> \in Jobs
      BY <2>1, LastCorrectionFound, JobsAssumption, BoundsAreNumbers
         DEF RevisionJobs, UpdateRetried, Base, RevisionsInOrder, IsLastCorrection
    <3> QED BY <1>2, <2>1, <3>1 DEF RetryDelivery, WorkStep
  <2>2. CASE ~UpdateRetried
    BY <1>2, <2>2 DEF RetryDelivery, WorkStep, workVars, jobVars
  <2> QED BY <2>1, <2>2
<1>3. CASE \E n \in 1 .. MaxReads : RequestRead(n)
  BY <1>3, JobsAssumption DEF RequestRead, RevisionJobs, WorkStep
<1>4. CASE \E j \in RevisionJobs : Started(j) \/ JobEnds(j)
  BY <1>4, JobsAssumption DEF Started, JobEnds, HandlersOf, WorkStep
<1>5. CASE \E h \in handlers : SettleJob(h)
  BY <1>5 DEF WorkStep
<1>6. CASE UNCHANGED workVars
  BY <1>6 DEF WorkStep
<1>7. ASSUME NEW h \in handlers,
             \/ Read(h) \/ GiveUpRead(h) \/ LoadRerun(h) \/ DropRerun(h)
             \/ GiveUpRerun(h) \/ LoadUpdate(h) \/ SendUpdate(h) \/ SettleUpdate(h)
      PROVE  WorkStep
  <2>1. /\ \/ \E at : Goes(h, at)
           \/ Becomes(h, [h EXCEPT !.at = "send", !.seen = updates[h.job[2]].attempt])
        /\ UNCHANGED <<jobVars, stalls, exits>>
    BY <1>7 DEF Read, GiveUpRead, LoadRerun, DropRerun, GiveUpRerun, LoadUpdate,
                SendUpdate, SettleUpdate
  <2>2. /\ \A at : [h EXCEPT !.at = at].job = h.job
        /\ \A seen : [h EXCEPT !.at = "send", !.seen = seen].job = h.job
    BY DEF Base, RevisionTypeOK, WorkTypeOK, Handler
  <2> QED BY <2>1, <2>2 DEF Goes, WorkStep
<1> QED BY <1>1, <1>2, <1>3, <1>4, <1>5, <1>6, <1>7
        DEF QuietStep, AskRetry, DeleteInvoice, SavePolicy, SwitchConnection, RetryPost,
            ListStalled, FailListed, FailStalledRead, LoadPost, SendPost, vars

LEMMA NextWorks ==
  ASSUME Base, [Next]_vars PROVE WorkStep
<1>1. CASE Release \/ Dismiss
  BY <1>1 DEF Release, Dismiss, WorkStep
<1>2. ASSUME NEW h \in handlers, CommitRead(h) \/ CommitRerun(h)
      PROVE  WorkStep
  <2>1. Goes(h, "completing") /\ UNCHANGED <<jobVars, stalls, exits>>
    BY <1>2 DEF CommitRead, CommitRerun
  <2>2. [h EXCEPT !.at = "completing"].job = h.job
    BY DEF Base, RevisionTypeOK, WorkTypeOK, Handler
  <2> QED BY <2>1, <2>2 DEF Goes, WorkStep
<1>3. ASSUME NEW role \in Roles, NEW reading \in Readings, NEW renumbers \in BOOLEAN,
             Correct(role, reading, renumbers)
      PROVE  WorkStep
  <2>1. \/ Queue!Record(<<"update", invoice.revision + 1>>) \/ UNCHANGED jobVars
    BY <1>3 DEF Correct
  <2>2. UNCHANGED <<handlers, stalls, exits>>
    BY <1>3 DEF Correct
  <2>3. <<"update", invoice.revision + 1>> \in Jobs
    <3>1. invoice.revision + 1 \in Revisions /\ invoice.revision > 0
      BY <1>3 DEF Correct, Revise, Actionable
    <3>2. invoice.revision \in 0 .. MaxRevision
      BY DEF Base, RevisionTypeOK, InvoiceRow
    <3>3. invoice.revision + 1 \in 2 .. MaxRevision
      BY <3>1, <3>2, BoundsAreNumbers
    <3> QED BY <3>3, JobsAssumption DEF RevisionJobs
  <2> QED BY <2>1, <2>2, <2>3 DEF WorkStep, workVars, jobVars
<1> QED BY <1>1, <1>2, <1>3, QuietStepsWork, StepCases

\* While handlers are alone: a listed update is one that is queued for a job that
\* failed; a handler on its way to the provider or back carries the update as it is
\* queued; and the provider has what the newest update it has seen asked for.
AtWork == {"send", "updated", "cancel", "giveup"}
InTurn == stalls = 0 /\ ~ReconcilersOverlap

UpdatesInTurn ==
  InTurn =>
    /\ \A j \in listed :
         j[1] = "update" => updates[j[2]].status = "queued" /\ outcome[j] = "failed"
    /\ \A h \in handlers : h.job[1] = "update" /\ h.at \in AtWork =>
         /\ updates[h.job[2]].status = "queued"
         /\ h.at = "send" => h.seen = updates[h.job[2]].attempt
         /\ h.at = "updated" => <<h.job[2], updates[h.job[2]].attempt>> \in applied
    /\ \A p \in applied :
         updates[p[1]].status # "none" /\ (Newest(p[1]) => bill = p[1])
    /\ \A r \in Revisions :
         updates[r].status = "updated" => \E a \in 0 .. MaxEvents : <<r, a>> \in applied

LEMMA InTurnDecides ==
  ASSUME Base, UpdatesInTurn PROVE NewestUpdateDecides
<1> DEFINE r == LastCorrection
<1> SUFFICES ASSUME InTurn, r > 0, updates[r].status = "updated" PROVE bill = r
  BY DEF NewestUpdateDecides, InTurn
<1>1. r \in Revisions /\ Newest(r)
  BY LastCorrectionFound, BoundsAreNumbers DEF Base, IsLastCorrection, Newest
<1>2. PICK a \in 0 .. MaxEvents : <<r, a>> \in applied
  BY <1>1 DEF UpdatesInTurn
<1>3. <<r, a>>[1] = r
  OBVIOUS
<1> QED BY <1>1, <1>2, <1>3 DEF UpdatesInTurn

\* Most steps leave the updates, or settle none of those that matter.
UpdatesAlike ==
  \A r \in Revisions :
    /\ updates'[r].attempt = updates[r].attempt
    /\ \A status \in {"none", "queued", "updated"} :
         updates'[r].status = status <=> updates[r].status = status

FailedUpdatesStay ==
  \A r \in Revisions : <<"update", r>> \in Jobs /\ outcome[<<"update", r>>] = "failed"
    => outcome'[<<"update", r>>] = "failed"

LEMMA UpdateFacts ==
  ASSUME Base
  PROVE  /\ \A j \in listed : j[1] = "update" =>
              j \in Jobs /\ j[2] \in Revisions /\ j = <<"update", j[2]>>
         /\ \A h \in handlers : h.job[1] = "update" =>
              h.job \in Jobs /\ h.job[2] \in Revisions /\ h.job = <<"update", h.job[2]>>
         /\ \A p \in applied : p[1] \in Revisions
<1>1. \A j \in Jobs : j[1] = "update" => j[2] \in Revisions /\ j = <<"update", j[2]>>
  BY JobsAssumption, BoundsAreNumbers DEF RevisionJobs
<1>2. listed \subseteq Jobs /\ \A h \in handlers : h.job \in Jobs
  BY JobsAssumption DEF Base, RevisionTypeOK, WorkTypeOK, Handler
<1>3. \A p \in applied : p[1] \in Revisions
  BY DEF Base, RevisionTypeOK
<1> QED BY <1>1, <1>2, <1>3

LEMMA UndisturbedInTurn ==
  ASSUME Base, UpdatesInTurn, UpdatesAlike, FailedUpdatesStay, UNCHANGED applied,
         bill' = bill \/ bill = 0, stalls' = 0 => stalls = 0, listed' \subseteq listed,
         \A h \in handlers' :
           h \in handlers \/ h.job[1] # "update" \/ h.at \notin AtWork
  PROVE  UpdatesInTurn'
<1> SUFFICES ASSUME InTurn' PROVE UpdatesInTurn'
  BY DEF UpdatesInTurn
<1>1. InTurn
  BY DEF InTurn
<1>2. \A r \in Revisions : Newest(r)' <=> Newest(r)
  <2>1. \A r \in Revisions : (r + 1) .. MaxRevision \subseteq Revisions
    BY BoundsAreNumbers
  <2> QED BY <2>1 DEF Newest, UpdatesAlike
<1>3. ASSUME NEW j \in listed', j[1] = "update"
      PROVE  updates'[j[2]].status = "queued" /\ outcome'[j] = "failed"
  BY <1>1, <1>3, UpdateFacts DEF UpdatesInTurn, UpdatesAlike, FailedUpdatesStay
<1>4. ASSUME NEW h \in handlers', h.job[1] = "update", h.at \in AtWork
      PROVE  /\ updates'[h.job[2]].status = "queued"
             /\ h.at = "send" => h.seen = updates'[h.job[2]].attempt
             /\ h.at = "updated" => <<h.job[2], updates'[h.job[2]].attempt>> \in applied
  BY <1>1, <1>4, UpdateFacts DEF UpdatesInTurn, UpdatesAlike
<1>5. ASSUME NEW p \in applied
      PROVE  updates'[p[1]].status # "none" /\ (Newest(p[1])' => bill' = p[1])
  <2>1. p[1] \in Revisions /\ p[1] # 0
    BY UpdateFacts, BoundsAreNumbers
  <2>2. updates[p[1]].status # "none" /\ (Newest(p[1]) => bill = p[1])
    BY <1>1 DEF UpdatesInTurn
  <2> QED BY <1>2, <2>1, <2>2 DEF UpdatesAlike
<1>6. ASSUME NEW r \in Revisions, updates'[r].status = "updated"
      PROVE  \E a \in 0 .. MaxEvents : <<r, a>> \in applied
  BY <1>1, <1>6 DEF UpdatesInTurn, UpdatesAlike
<1> QED BY <1>3, <1>4, <1>5, <1>6 DEF UpdatesInTurn

LEMMA CorrectInTurn ==
  ASSUME Base, UpdatesInTurn, NEW role \in Roles, NEW reading \in Readings,
         NEW renumbers \in BOOLEAN, Correct(role, reading, renumbers)
  PROVE  UpdatesInTurn'
<1> PICK r \in Revisions : r = invoice.revision + 1
  BY DEF Correct, Revise
<1>1. PICK choice \in BillOutcomes(role, reading) :
        /\ updates' = [updates EXCEPT ![r].status =
                         IF choice = "update_bill" THEN "queued" ELSE "kept"]
        /\ IF choice = "update_bill" THEN Queue!Record(<<"update", r>>)
           ELSE UNCHANGED jobVars
  BY DEF Correct
<1>2. updates \in [Revisions -> Update] /\ invoice.revision \in 0 .. MaxRevision
  BY DEF Base, RevisionTypeOK, Update, InvoiceRow
<1>3. /\ updates'[r].status \in {"queued", "kept"}
      /\ \A k \in Revisions : k # r => updates'[k] = updates[k]
  BY <1>1, <1>2 DEF Update
<1>4. updates[r].status = "none"
  BY <1>2, BoundsAreNumbers DEF Base, RevisionsInOrder
<1>5. UNCHANGED <<handlers, listed, applied, bill, stalls>>
  BY DEF Correct
<1>6. \A k \in Revisions : updates[k].status # "none" => ~Newest(k)'
  <2> TAKE k \in Revisions
  <2> HAVE updates[k].status # "none"
  <2>1. k <= invoice.revision
    BY DEF Base, RevisionsInOrder
  <2>2. r \in (k + 1) .. MaxRevision
    BY <1>2, <2>1, BoundsAreNumbers
  <2> QED BY <1>3, <2>2 DEF Newest
<1>7. \A j \in Jobs : outcome[j] = "failed" => outcome'[j] = "failed"
  BY <1>1 DEF Queue!Record, jobVars, Base, RevisionTypeOK, WorkTypeOK
<1> SUFFICES ASSUME InTurn' PROVE UpdatesInTurn'
  BY DEF UpdatesInTurn
<1>8. InTurn
  BY <1>5 DEF InTurn
<1>9. ASSUME NEW j \in listed', j[1] = "update"
      PROVE  updates'[j[2]].status = "queued" /\ outcome'[j] = "failed"
  BY <1>3, <1>4, <1>5, <1>7, <1>8, <1>9, UpdateFacts DEF UpdatesInTurn
<1>10. ASSUME NEW h \in handlers', h.job[1] = "update", h.at \in AtWork
       PROVE  /\ updates'[h.job[2]].status = "queued"
              /\ h.at = "send" => h.seen = updates'[h.job[2]].attempt
              /\ h.at = "updated" => <<h.job[2], updates'[h.job[2]].attempt>> \in applied'
  <2>1. h \in handlers /\ h.job[2] \in Revisions /\ updates[h.job[2]].status = "queued"
    BY <1>5, <1>8, <1>10, UpdateFacts DEF UpdatesInTurn
  <2>2. updates'[h.job[2]] = updates[h.job[2]]
    BY <1>3, <1>4, <2>1
  <2> QED BY <1>5, <1>8, <1>10, <2>1, <2>2 DEF UpdatesInTurn
<1>11. ASSUME NEW p \in applied'
       PROVE  updates'[p[1]].status # "none" /\ (Newest(p[1])' => bill' = p[1])
  <2>1. p \in applied /\ p[1] \in Revisions
    BY <1>5, UpdateFacts
  <2>2. updates[p[1]].status # "none"
    BY <1>8, <2>1 DEF UpdatesInTurn
  <2> QED BY <1>3, <1>4, <1>6, <2>1, <2>2
<1>12. ASSUME NEW k \in Revisions, updates'[k].status = "updated"
       PROVE  \E a \in 0 .. MaxEvents : <<k, a>> \in applied'
  BY <1>3, <1>5, <1>8, <1>12 DEF UpdatesInTurn
<1> QED BY <1>9, <1>10, <1>11, <1>12 DEF UpdatesInTurn

LEMMA RetryInTurn ==
  ASSUME Base, UpdatesInTurn, RetryDelivery
  PROVE  UpdatesInTurn'
<1>1. UNCHANGED <<handlers, listed, applied, bill, stalls>>
  BY DEF RetryDelivery
<1>2. CASE ~UpdateRetried
  <2>1. UNCHANGED <<updates, jobVars>>
    BY <1>2 DEF RetryDelivery
  <2>2. UpdatesAlike /\ FailedUpdatesStay
    BY <2>1 DEF UpdatesAlike, FailedUpdatesStay, jobVars
  <2> QED BY <1>1, <2>2, UndisturbedInTurn
<1>3. CASE UpdateRetried
  <2> PICK r \in Revisions : r = LastCorrection
    BY <1>3, LastCorrectionFound, BoundsAreNumbers DEF UpdateRetried, Base
  <2>1. updates[r].status \in {"failed", "cancelled"}
    BY <1>3 DEF UpdateRetried
  <2>2. updates \in [Revisions -> Update]
    BY DEF Base, RevisionTypeOK, Update
  <2>3. /\ updates'[r].status = "queued"
        /\ \A k \in Revisions : k # r => updates'[k] = updates[k]
    <3>1. updates' = [updates EXCEPT ![r] = [status |-> "queued",
                                             attempt |-> updates[r].attempt + 1]]
      BY <1>3, <2>2 DEF RetryDelivery
    <3> QED BY <2>2, <3>1
  <2>4. \A k \in Revisions : Newest(k)' <=> Newest(k)
    <3>1. \A k \in Revisions : (k + 1) .. MaxRevision \subseteq Revisions
      BY BoundsAreNumbers
    <3>2. \A k \in Revisions : updates'[k].status = "none" <=> updates[k].status = "none"
      BY <2>1, <2>3
    <3> QED BY <3>1, <3>2 DEF Newest
  <2>5. \A j \in Jobs : j # <<"update", r>> => outcome'[j] = outcome[j]
    <3>1. RequeueOrEnqueue(<<"update", r>>)
      BY <1>3 DEF RetryDelivery
    <3> QED BY <3>1 DEF RequeueOrEnqueue, Enqueue, Queue!Record, Queue!Restart, jobVars,
                        Base, RevisionTypeOK, WorkTypeOK
  <2> SUFFICES ASSUME InTurn' PROVE UpdatesInTurn'
    BY DEF UpdatesInTurn
  <2>6. InTurn
    BY <1>1 DEF InTurn
  <2>7. ASSUME NEW j \in listed', j[1] = "update"
        PROVE  updates'[j[2]].status = "queued" /\ outcome'[j] = "failed"
    <3>1. updates[j[2]].status = "queued" /\ outcome[j] = "failed"
      BY <1>1, <2>6, <2>7 DEF UpdatesInTurn
    <3>2. j \in Jobs /\ j[2] \in Revisions /\ j[2] # r
      BY <1>1, <2>1, <2>7, <3>1, UpdateFacts
    <3>3. j # <<"update", r>>
      BY <3>2
    <3> QED BY <2>3, <2>5, <3>1, <3>2, <3>3
  <2>8. ASSUME NEW h \in handlers', h.job[1] = "update", h.at \in AtWork
        PROVE  /\ updates'[h.job[2]].status = "queued"
               /\ h.at = "send" => h.seen = updates'[h.job[2]].attempt
               /\ h.at = "updated" => <<h.job[2], updates'[h.job[2]].attempt>> \in applied'
    <3>1. h \in handlers /\ h.job[2] \in Revisions /\ updates[h.job[2]].status = "queued"
      BY <1>1, <2>6, <2>8, UpdateFacts DEF UpdatesInTurn
    <3>2. updates'[h.job[2]] = updates[h.job[2]]
      BY <2>1, <2>3, <3>1
    <3> QED BY <1>1, <2>6, <2>8, <3>1, <3>2 DEF UpdatesInTurn
  <2>9. ASSUME NEW p \in applied'
        PROVE  updates'[p[1]].status # "none" /\ (Newest(p[1])' => bill' = p[1])
    BY <1>1, <2>3, <2>4, <2>6, UpdateFacts DEF UpdatesInTurn
  <2>10. ASSUME NEW k \in Revisions, updates'[k].status = "updated"
         PROVE  \E a \in 0 .. MaxEvents : <<k, a>> \in applied'
    BY <1>1, <2>3, <2>6, <2>10 DEF UpdatesInTurn
  <2> QED BY <2>7, <2>8, <2>9, <2>10 DEF UpdatesInTurn
<1> QED BY <1>2, <1>3

\* An update is settled by the only handler of its job, or by a reconciler when no
\* handler is left.
LEMMA SettledInTurn ==
  ASSUME Base, Carried, UpdatesInTurn, NEW r \in Revisions,
         NEW status \in {"updated", "failed", "cancelled"},
         updates' = Settled(r, status), UNCHANGED <<outcome, applied, bill, stalls>>,
         listed' \subseteq listed,
         InTurn => \A j \in listed' : j[1] = "update" => j[2] # r,
         InTurn => \A h \in handlers' : h.job[1] = "update" /\ h.at \in AtWork =>
                     h \in handlers /\ h.job[2] # r,
         InTurn /\ status = "updated" => \E a \in 0 .. MaxEvents : <<r, a>> \in applied
  PROVE  UpdatesInTurn'
<1>1. updates \in [Revisions -> Update]
  BY DEF Base, RevisionTypeOK, Update
<1>2. /\ updates'[r].status # "none" <=> updates[r].status # "none"
      /\ updates'[r].status \in {updates[r].status, status}
      /\ \A k \in Revisions : k # r => updates'[k] = updates[k]
  <2>1. CASE updates[r].status = "queued"
    <3>1. updates' = [updates EXCEPT ![r] = [updates[r] EXCEPT !.status = status]]
      BY <1>1, <2>1 DEF Settled
    <3>2. [updates[r] EXCEPT !.status = status].status = status
      BY <1>1 DEF Update
    <3> QED BY <1>1, <2>1, <3>1, <3>2
  <2>2. CASE updates[r].status # "queued"
    BY <2>2 DEF Settled
  <2> QED BY <2>1, <2>2
<1>3. \A k \in Revisions : Newest(k)' <=> Newest(k)
  <2>1. \A k \in Revisions : (k + 1) .. MaxRevision \subseteq Revisions
    BY BoundsAreNumbers
  <2>2. \A k \in Revisions : updates'[k].status = "none" <=> updates[k].status = "none"
    BY <1>2
  <2> QED BY <2>1, <2>2 DEF Newest
<1> SUFFICES ASSUME InTurn' PROVE UpdatesInTurn'
  BY DEF UpdatesInTurn
<1>4. InTurn
  BY DEF InTurn
<1>5. ASSUME NEW j \in listed', j[1] = "update"
      PROVE  updates'[j[2]].status = "queued" /\ outcome'[j] = "failed"
  BY <1>2, <1>4, <1>5, UpdateFacts DEF UpdatesInTurn
<1>6. ASSUME NEW h \in handlers', h.job[1] = "update", h.at \in AtWork
      PROVE  /\ updates'[h.job[2]].status = "queued"
             /\ h.at = "send" => h.seen = updates'[h.job[2]].attempt
             /\ h.at = "updated" => <<h.job[2], updates'[h.job[2]].attempt>> \in applied'
  BY <1>2, <1>4, <1>6, UpdateFacts DEF UpdatesInTurn
<1>7. ASSUME NEW p \in applied'
      PROVE  updates'[p[1]].status # "none" /\ (Newest(p[1])' => bill' = p[1])
  BY <1>2, <1>3, <1>4, UpdateFacts DEF UpdatesInTurn
<1>8. ASSUME NEW k \in Revisions, updates'[k].status = "updated"
      PROVE  \E a \in 0 .. MaxEvents : <<k, a>> \in applied'
  BY <1>2, <1>4, <1>8 DEF UpdatesInTurn
<1> QED BY <1>5, <1>6, <1>7, <1>8 DEF UpdatesInTurn

LEMMA SettleInTurn ==
  ASSUME Base, Carried, HandlersAlone, UpdatesInTurn, NEW h \in handlers,
         h.job[1] = "update", SettleUpdate(h)
  PROVE  UpdatesInTurn'
<1>1. PICK status \in {"updated", "failed", "cancelled"} :
        /\ updates' = Settled(h.job[2], status)
        /\ status = "updated" => h.at = "updated"
        /\ h.at \in AtWork
  BY DEF SettleUpdate, AtWork
<1>2. /\ UNCHANGED <<outcome, applied, bill, stalls, listed>>
      /\ \E at \in {"completing", "failing"} : Goes(h, at)
  BY DEF SettleUpdate, jobVars
<1>3. \A g \in handlers' : g.at \in AtWork => g \in handlers /\ g # h
  <2>1. \A at : [h EXCEPT !.at = at].at = at
    BY DEF Base, RevisionTypeOK, WorkTypeOK, Handler
  <2> QED BY <1>2, <2>1 DEF Goes, Becomes, AtWork
<1>4. InTurn => /\ \A g \in handlers : g.job = h.job => g = h
                /\ outcome[h.job] = "pending"
  BY DEF InTurn, HandlersAlone
<1>5. h.job[2] \in Revisions /\ h.job = <<"update", h.job[2]>>
  BY UpdateFacts
<1>6. InTurn => \A j \in listed' : j[1] = "update" => j[2] # h.job[2]
  BY <1>2, <1>4, <1>5, UpdateFacts DEF UpdatesInTurn
<1>7. InTurn => \A g \in handlers' : g.job[1] = "update" /\ g.at \in AtWork =>
                  g \in handlers /\ g.job[2] # h.job[2]
  BY <1>3, <1>4, <1>5, UpdateFacts
<1>8. InTurn /\ status = "updated" =>
        \E a \in 0 .. MaxEvents : <<h.job[2], a>> \in applied
  <2>1. updates[h.job[2]].attempt \in 0 .. MaxEvents
    BY <1>5 DEF Base, RevisionTypeOK
  <2> QED BY <1>1, <2>1 DEF UpdatesInTurn
<1> QED BY <1>1, <1>2, <1>5, <1>6, <1>7, <1>8, SettledInTurn

LEMMA FailListedInTurn ==
  ASSUME Base, Carried, HandlersAlone, UpdatesInTurn, NEW j \in RevisionJobs,
         FailListed(j)
  PROVE  UpdatesInTurn'
<1>1. /\ UNCHANGED <<outcome, handlers, applied, bill, stalls>>
      /\ j \in listed /\ listed' \subseteq listed
      /\ InTurn => listed' = listed \ {j}
  BY DEF FailListed, workVars, InTurn
<1>2. CASE j[1] = "rerun"
  <2>1. UpdatesAlike /\ FailedUpdatesStay
    BY <1>1, <1>2 DEF FailListed, UpdatesAlike, FailedUpdatesStay
  <2> QED BY <1>1, <2>1, UndisturbedInTurn
<1>3. CASE j[1] # "rerun"
  <2>1. j[1] = "update" /\ updates' = Settled(j[2], "failed")
    BY <1>1, <1>3 DEF FailListed, Base, RevisionsInOrder
  <2>2. j[2] \in Revisions /\ j = <<"update", j[2]>>
    BY <1>1, <2>1, UpdateFacts
  <2>3. InTurn => \A k \in listed' : k[1] = "update" => k[2] # j[2]
    BY <1>1, <2>2, UpdateFacts
  <2>4. InTurn => \A h \in handlers' : h.job[1] = "update" /\ h.at \in AtWork =>
                    h \in handlers /\ h.job[2] # j[2]
    BY <1>1, <2>1, <2>2, UpdateFacts DEF UpdatesInTurn, HandlersAlone, InTurn
  <2> QED BY <1>1, <2>1, <2>2, <2>3, <2>4, SettledInTurn
<1> QED BY <1>2, <1>3

LEMMA HandlerGoes ==
  ASSUME Base, NEW h \in handlers, NEW at, Goes(h, at)
  PROVE  \A g \in handlers' : g \in handlers \/ (g.job = h.job /\ g.at = at)
<1>1. [h EXCEPT !.at = at].job = h.job /\ [h EXCEPT !.at = at].at = at
  BY DEF Base, RevisionTypeOK, WorkTypeOK, Handler
<1> QED BY <1>1 DEF Goes, Becomes

LEMMA LoadInTurn ==
  ASSUME Base, UpdatesInTurn, NEW h \in handlers, h.job[1] = "update", LoadUpdate(h)
  PROVE  UpdatesInTurn'
<1> DEFINE r == h.job[2]
           sent == [h EXCEPT !.at = "send", !.seen = updates[r].attempt]
<1>1. UNCHANGED <<jobVars, stalls, updates, applied, bill, listed>>
  BY DEF LoadUpdate, sentVars
<1>2. sent.job = h.job /\ sent.at = "send" /\ sent.seen = updates[r].attempt
  BY DEF Base, RevisionTypeOK, WorkTypeOK, Handler
<1>3. \/ updates[r].status # "queued" /\ Goes(h, "completing")
      \/ updates[r].status = "queued" /\ (Goes(h, "cancel") \/ Becomes(h, sent))
  BY DEF LoadUpdate
<1> HIDE DEF sent, r
<1>4. CASE updates[r].status # "queued"
  <2>1. \A g \in handlers' : g \in handlers \/ g.at \notin AtWork
    BY <1>3, <1>4, HandlerGoes DEF AtWork
  <2> QED BY <1>1, <2>1, UndisturbedInTurn
          DEF UpdatesAlike, FailedUpdatesStay, jobVars
<1>5. CASE updates[r].status = "queued"
  <2>1. \A g \in handlers' :
          \/ g \in handlers
          \/ /\ g.job = h.job
             /\ g.at = "cancel" \/ (g.at = "send" /\ g.seen = updates[r].attempt)
    BY <1>2, <1>3, <1>5, HandlerGoes DEF Becomes
  <2>2. ASSUME NEW g \in handlers', g.job[1] = "update", g.at \in AtWork, InTurn
        PROVE  /\ updates[g.job[2]].status = "queued"
               /\ g.at = "send" => g.seen = updates[g.job[2]].attempt
               /\ g.at = "updated" => <<g.job[2], updates[g.job[2]].attempt>> \in applied
    BY <1>5, <2>1, <2>2 DEF UpdatesInTurn, r
  <2> QED BY <1>1, <2>2 DEF UpdatesInTurn, InTurn, Newest, jobVars
<1> QED BY <1>4, <1>5

\* The provider does as it is asked by the handler of the newest update, or has done
\* so before.
LEMMA SendInTurn ==
  ASSUME Base, Carried, UpdatesInTurn, NEW h \in handlers, h.job[1] = "update",
         SendUpdate(h)
  PROVE  UpdatesInTurn'
<1> PICK r \in Revisions : r = h.job[2]
  BY UpdateFacts
<1>1. UNCHANGED <<jobVars, stalls, updates, listed>> /\ h.at = "send"
  BY DEF SendUpdate
<1>2. PICK at \in {"updated", "giveup", "retrying"} :
        Goes(h, at) /\ (at = "updated" => <<r, h.seen>> \in applied')
  BY DEF SendUpdate
<1>3. /\ applied \subseteq applied'
      /\ \A g \in handlers' : g \in handlers \/
           (g.job = h.job /\ g.at \in {"updated", "giveup", "retrying"}
            /\ (g.at = "updated" => <<r, h.seen>> \in applied'))
  BY <1>2, HandlerGoes DEF SendUpdate
<1>4. \/ UNCHANGED <<applied, bill>>
      \/ bill' = UpdatedBill(r, h.seen) /\ applied' = applied \cup {<<r, h.seen>>}
  BY DEF SendUpdate
<1> SUFFICES ASSUME InTurn' PROVE UpdatesInTurn'
  BY DEF UpdatesInTurn
<1>5. InTurn /\ (\A k \in Revisions : Newest(k)' <=> Newest(k))
  BY <1>1 DEF InTurn, Newest
<1>6. updates[r].status = "queued" /\ h.seen = updates[r].attempt /\ Newest(r)
  BY <1>1, <1>5 DEF UpdatesInTurn, AtWork, Carried
<1>7. ASSUME NEW j \in listed', j[1] = "update"
      PROVE  updates'[j[2]].status = "queued" /\ outcome'[j] = "failed"
  BY <1>1, <1>5, <1>7 DEF UpdatesInTurn, jobVars
<1>8. ASSUME NEW g \in handlers', g.job[1] = "update", g.at \in AtWork
      PROVE  /\ updates'[g.job[2]].status = "queued"
             /\ g.at = "send" => g.seen = updates'[g.job[2]].attempt
             /\ g.at = "updated" => <<g.job[2], updates'[g.job[2]].attempt>> \in applied'
  <2>1. CASE g \in handlers
    BY <1>1, <1>3, <1>5, <1>8, <2>1 DEF UpdatesInTurn
  <2>2. CASE g \notin handlers
    BY <1>1, <1>3, <1>6, <2>2
  <2> QED BY <2>1, <2>2
<1>9. ASSUME NEW p \in applied'
      PROVE  updates'[p[1]].status # "none" /\ (Newest(p[1])' => bill' = p[1])
  <2>1. CASE p[1] = r
    <3>1. updates'[r].status # "none"
      BY <1>1, <1>6
    <3>2. bill' = r
      <4>1. CASE p \in applied
        <5>1. bill = r
          BY <1>5, <1>6, <2>1, <4>1 DEF UpdatesInTurn
        <5> QED BY <1>4, <5>1 DEF UpdatedBill
      <4>2. CASE p \notin applied
        <5>1. bill' = UpdatedBill(r, h.seen)
          BY <1>4, <4>2
        <5>2. <<r, h.seen>> \in applied => bill = r
          <6>1. <<r, h.seen>>[1] = r
            OBVIOUS
          <6> QED BY <1>5, <1>6, <6>1 DEF UpdatesInTurn
        <5> QED BY <5>1, <5>2 DEF UpdatedBill
      <4> QED BY <4>1, <4>2
    <3> QED BY <2>1, <3>1, <3>2
  <2>2. CASE p[1] # r
    <3>1. p \in applied
      BY <1>4, <2>2
    <3>2. p[1] \in Revisions /\ updates[p[1]].status # "none"
      BY <1>5, <3>1, UpdateFacts DEF UpdatesInTurn
    <3>3. ~Newest(p[1])
      <4>1. CASE p[1] < r
        <5>1. r \in (p[1] + 1) .. MaxRevision
          BY <4>1, <3>2, BoundsAreNumbers
        <5> QED BY <1>6, <5>1 DEF Newest
      <4>2. CASE r < p[1]
        <5>1. p[1] \in (r + 1) .. MaxRevision
          BY <4>2, <3>2, BoundsAreNumbers
        <5> QED BY <1>6, <3>2, <5>1 DEF Newest
      <4> QED BY <2>2, <3>2, <4>1, <4>2, BoundsAreNumbers
    <3> QED BY <1>1, <1>5, <3>2, <3>3
  <2> QED BY <2>1, <2>2
<1>10. ASSUME NEW k \in Revisions, updates'[k].status = "updated"
       PROVE  \E a \in 0 .. MaxEvents : <<k, a>> \in applied'
  BY <1>1, <1>3, <1>5, <1>10 DEF UpdatesInTurn
<1> QED BY <1>7, <1>8, <1>9, <1>10 DEF UpdatesInTurn

LEMMA ListInTurn ==
  ASSUME Base, UpdatesInTurn, NEW j \in RevisionJobs, ListStalled(j)
  PROVE  UpdatesInTurn'
<1>1. /\ UNCHANGED <<updates, outcome, handlers, applied, bill, stalls>>
      /\ listed' = listed \cup {j}
      /\ j[1] = "update" => updates[j[2]].status = "queued" /\ outcome[j] = "failed"
  BY DEF ListStalled, Stalled, workVars, jobVars, sentVars
<1> QED BY <1>1 DEF UpdatesInTurn, InTurn, Newest

LEMMA SupersededAlike ==
  ASSUME Base, updates' = updates \/ updates' = Superseded
  PROVE  UpdatesAlike
<1>1. \A u \in Update : /\ [u EXCEPT !.status = "superseded"].status = "superseded"
                        /\ [u EXCEPT !.status = "superseded"].attempt = u.attempt
  BY DEF Update
<1>2. updates \in [Revisions -> Update]
  BY DEF Base, RevisionTypeOK, Update
<1> QED BY <1>1, <1>2 DEF UpdatesAlike, Superseded

LEMMA QuietStepsInTurn ==
  ASSUME Base, Carried, HandlersAlone, UpdatesInTurn, QuietStep
  PROVE  UpdatesInTurn'
<1>1. WorkStep /\ (stalls' = 0 => stalls = 0)
  BY QuietStepsWork, HandlersStayAlone DEF Base, RevisionTypeOK
<1>2. CASE RetryDelivery
  BY <1>2, RetryInTurn
<1>3. CASE \E j \in RevisionJobs : ListStalled(j) \/ FailListed(j)
  BY <1>3, ListInTurn, FailListedInTurn
<1>4. ASSUME NEW h \in handlers, h.job[1] = "update",
             LoadUpdate(h) \/ SendUpdate(h) \/ SettleUpdate(h)
      PROVE  UpdatesInTurn'
  BY <1>4, LoadInTurn, SendInTurn, SettleInTurn
<1>5. ASSUME UNCHANGED <<updates, applied, listed>>, bill' = bill \/ bill = 0,
             FailedUpdatesStay,
             \A h \in handlers' :
               h \in handlers \/ h.job[1] # "update" \/ h.at \notin AtWork
      PROVE  UpdatesInTurn'
  BY <1>1, <1>5, UndisturbedInTurn DEF UpdatesAlike
<1>6. CASE LoadPost \/ SendPost
  <2>1. bill' = bill \/ bill = 0
    BY <1>6 DEF LoadPost, SendPost
  <2>2. UNCHANGED <<updates, applied, listed, handlers, outcome>>
    BY <1>6 DEF LoadPost, SendPost, workVars, jobVars
  <2> QED BY <1>5, <2>1, <2>2 DEF FailedUpdatesStay
<1>7. ASSUME UNCHANGED <<updates, applied, listed, bill, workVars>> PROVE UpdatesInTurn'
  BY <1>5, <1>7 DEF FailedUpdatesStay, workVars, jobVars
<1>8. CASE RequestRerun \/ \E n \in 1 .. MaxReads : RequestRead(n)
  <2>1. UNCHANGED <<updates, applied, listed, bill, handlers>>
    BY <1>8 DEF RequestRerun, RequestRead, sentVars
  <2>2. FailedUpdatesStay
    BY <1>8 DEF RequestRerun, RequestRead, FailedUpdatesStay, RequeueOrEnqueue, Enqueue,
                Queue!Record, Queue!Restart, jobVars, Base, RevisionTypeOK, WorkTypeOK
  <2> QED BY <1>5, <2>1, <2>2
<1>9. ASSUME NEW h \in handlers, h.job[1] # "update",
             Read(h) \/ GiveUpRead(h) \/ LoadRerun(h) \/ DropRerun(h) \/ GiveUpRerun(h)
      PROVE  UpdatesInTurn'
  <2>1. UNCHANGED <<updates, applied, listed, bill, jobVars>> /\ \E at : Goes(h, at)
    BY <1>9 DEF Read, GiveUpRead, LoadRerun, DropRerun, GiveUpRerun, sentVars
  <2>2. \A g \in handlers' : g \in handlers \/ g.job[1] # "update"
    BY <1>9, <2>1, HandlerGoes
  <2> QED BY <1>5, <2>1, <2>2 DEF FailedUpdatesStay, jobVars
<1>10. ASSUME NEW j \in RevisionJobs, Started(j) \/ JobEnds(j)
       PROVE  UpdatesInTurn'
  <2>1. UNCHANGED <<updates, applied, listed, bill>>
    BY <1>10 DEF Started, JobEnds, sentVars
  <2>2. FailedUpdatesStay
    BY <1>10 DEF Started, JobEnds, FailedUpdatesStay, Begin, Reap, Vanish, Queue!GiveUp,
                 Queue!HandBack, jobVars, Base, RevisionTypeOK, WorkTypeOK
  <2>3. \A h \in handlers' : h \in handlers \/ h.at \notin AtWork
    BY <1>10 DEF Started, JobEnds, Begin, Reap, Vanish, AtWork
  <2> QED BY <1>5, <2>1, <2>2, <2>3
<1>11. ASSUME NEW h \in handlers, SettleJob(h), UNCHANGED <<rowVars, sentVars, listed>>
       PROVE  UpdatesInTurn'
  <2>1. handlers' = handlers \ {h} /\ stalls' = stalls
    BY <1>11 DEF SettleJob
  <2>2. FailedUpdatesStay
    BY <1>11 DEF SettleJob, FailedUpdatesStay, Queue!Succeed, Queue!Fail, jobVars, Base,
                 RevisionTypeOK, WorkTypeOK
  <2> QED BY <1>5, <1>11, <2>1, <2>2 DEF sentVars
<1>12. CASE UNCHANGED vars \/ AskRetry \/ DeleteInvoice \/ FailStalledRead
            \/ (\E p \in Policies : SavePolicy(p))
            \/ (\E to \in {"auto", "manual", "none"} : SwitchConnection(to))
            \/ \E a \in asked : RetryPost(a)
  <2>1. UNCHANGED <<updates, applied, listed, bill, workVars>>
    BY <1>12 DEF vars, AskRetry, DeleteInvoice, FailStalledRead, SavePolicy,
                 SwitchConnection, RetryPost, sentVars
  <2> QED BY <1>7, <2>1
<1> QED BY <1>2, <1>3, <1>4, <1>6, <1>8, <1>9, <1>10, <1>11, <1>12 DEF QuietStep

LEMMA NextInTurn ==
  ASSUME Base, Carried, HandlersAlone, UpdatesInTurn, [Next]_vars
  PROVE  UpdatesInTurn'
<1>1. CASE QuietStep
  BY <1>1, QuietStepsInTurn
<1>2. CASE Release \/ Dismiss
  <2>1. UNCHANGED <<updates, applied, listed, bill, workVars>>
    BY <1>2 DEF Release, Dismiss, sentVars
  <2>2. UpdatesAlike /\ FailedUpdatesStay
    BY <2>1 DEF UpdatesAlike, FailedUpdatesStay, workVars, jobVars
  <2> QED BY <2>1, <2>2, UndisturbedInTurn DEF workVars
<1>3. ASSUME NEW h \in handlers,
             CommitRead(h) \/ (h.job[1] = "rerun" /\ CommitRerun(h))
      PROVE  UpdatesInTurn'
  <2>1. /\ updates' = updates \/ updates' = Superseded
        /\ UNCHANGED <<applied, listed, bill, jobVars, stalls>> /\ Goes(h, "completing")
    BY <1>3 DEF CommitRead, CommitRerun
  <2>2. UpdatesAlike /\ FailedUpdatesStay
    BY <2>1, SupersededAlike DEF FailedUpdatesStay, jobVars
  <2>3. \A g \in handlers' : g \in handlers \/ g.at \notin AtWork
    BY <2>1, HandlerGoes DEF AtWork
  <2> QED BY <2>1, <2>2, <2>3, UndisturbedInTurn
<1>4. ASSUME NEW role \in Roles, NEW reading \in Readings, NEW renumbers \in BOOLEAN,
             Correct(role, reading, renumbers)
      PROVE  UpdatesInTurn'
  BY <1>4, CorrectInTurn
<1> QED BY <1>1, <1>2, <1>3, <1>4, StepCases

\* While no handler has outlived its lease and a job is listed by one reconciler at a
\* time, an update recorded as made is what the bill carries: an answer that is lost,
\* a retry, a correction or a restart in between changes nothing.
THEOREM NewestUpdateDecidesHolds == Spec => []NewestUpdateDecides
<1>1. Init => HandlersAlone /\ UpdatesInTurn
  BY DEF Init, WorkInit, HandlersAlone, UpdatesInTurn
<1>2. ASSUME Base, Carried, HandlersAlone, UpdatesInTurn, [Next]_vars
      PROVE  HandlersAlone' /\ UpdatesInTurn'
  <2>1. HandlersAlone'
    BY <1>2, NextWorks, HandlersStayAlone DEF Base, RevisionTypeOK
  <2> QED BY <1>2, <2>1, NextInTurn
<1>3. Base /\ UpdatesInTurn => NewestUpdateDecides
  BY InTurnDecides
<1> QED BY <1>1, <1>2, <1>3, BaseHolds, CarriedHolds, PTL DEF Spec
=============================================================================
