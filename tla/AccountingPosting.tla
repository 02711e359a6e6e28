-------------------------- MODULE AccountingPosting --------------------------
(***************************************************************************)
(* Posting invoices as bills (packages/jobs/src/accounting.ts, the         *)
(* accounting part of delivery.ts, and queries/accounting-connections.ts). *)
(* A post is carried out by the post-accounting-draft job of one revision  *)
(* of the invoice.  The queue is taken at its word (JobLifecycle): a job   *)
(* is tried a bounded number of times, a handler may vanish at any step,   *)
(* and a handler whose lease ran out may go on next to its successor.      *)
(*                                                                         *)
(* An invoice is reduced to its document type and number (its posting key, *)
(* one value of Numbers); the provider is a ledger of the bills it made.   *)
(***************************************************************************)
EXTENDS Naturals, FiniteSets

CONSTANTS
  Invoices,
  Numbers,          \* document type and number, as postingKeyOf reads them
  NoInvoice, NoKey, NoBill,
  Suppliers,
  CopiesArrive,     \* may two documents come from one supplier?
  ReceivedBefore,   \* <<i, k>>: invoice i was received before invoice k
  MayLoseAccess,    \* may the provider refuse InvoiceWise's authorisation?
  HandlersOverlap,  \* may a handler go on after its lease ran out?
  KeysExpire,       \* may the provider forget a key nobody is posting under?
  StatementsFail,   \* may a database statement of a handler fail?
  Switching,        \* does an admin disconnect and switch automatic posting?
  MaxAttempts,      \* max_attempts of a job
  MaxRevision,      \* bound: revisions of an invoice
  MaxRetries,       \* bound: explicit retries
  MaxExits          \* bound: handlers that vanish or are handed back

ASSUME PostingAssumption ==
  /\ NoInvoice \notin Invoices
  /\ NoKey \notin Invoices \cup Numbers
  /\ Invoices \cap Numbers = {}
  /\ ReceivedBefore \subseteq Invoices \X Invoices
  /\ {CopiesArrive, MayLoseAccess, HandlersOverlap, KeysExpire,
      StatementsFail, Switching} \subseteq BOOLEAN
  /\ {MaxAttempts, MaxRevision} \subseteq Nat \ {0}
  /\ {MaxRetries, MaxExits} \subseteq Nat

VARIABLES
  invoices,    \* inbox: what the document says and whether it is there
  posts,       \* inbox: the accounting columns
  claims,      \* accounting_post_claims: the invoice that claimed a number
  connection,  \* "auto": posts automatically, "manual": on request, "none"
  outcome,     \* the job of each revision, as JobLifecycle sees it
  tries,
  explicit,    \* explicit[j]: a person asked for this job's post
  handlers,    \* handlers under way
  ledger,      \* the bills at the provider
  remembered,  \* the keys a create call is answered by
  asked,       \* retries that have read the invoice but not acted yet
  retries, exits

jobVars == <<outcome, tries, explicit>>
worldVars == <<connection, ledger, remembered>>
boundVars == <<asked, retries, exits>>
vars == <<invoices, posts, claims, jobVars, handlers, worldVars, boundVars>>

Jobs == Invoices \X (1 .. MaxRevision)

Queue == INSTANCE JobLifecycle

\* A bill carries its key: the number, or the invoice once a person released it
\* as a bill of its own.
Bill == [invoice : Invoices, number : Numbers, key : Numbers \cup Invoices,
         copy : {1, 2}]

Invoice == [supplier  : Suppliers,
            number    : Numbers,
            refused   : BOOLEAN,           \* the provider refuses its bill for good
            revision  : 0 .. MaxRevision,  \* 0 until it was processed
            duplicate : BOOLEAN,           \* validation blocks it as a duplicate
            deleted   : BOOLEAN]

Post == [status    : {"none", "queued", "posted", "already_posted", "failed",
                      "needs_review", "cancelled"},
         retryable : BOOLEAN,
         bill      : Bill \cup {NoBill},                  \* provider id
         key       : Numbers \cup Invoices \cup {NoKey},  \* idempotency key
         released  : BOOLEAN,
         revision  : 0 .. MaxRevision]                    \* the revision it posts

\* What a handler does next: a read or write of its own, or the write of its
\* outcome on the job.
Writes == {"cancel", "already", "block", "mark", "review", "release", "fail",
           "record"}
Ends == {"completing", "failing", "retrying"}

Handler == [job       : Jobs,
            slot      : {1, 2},           \* tells two handlers of a job apart
            attempt   : 1 .. MaxAttempts,
            at        : {"load", "claim", "holder", "find", "create"}
                        \cup Writes \cup Ends,
            number    : Numbers,          \* the invoice as it was loaded
            released  : BOOLEAN,
            key       : Numbers \cup Invoices \cup {NoKey},
            retryable : BOOLEAN,          \* of the error or the reason to record
            bill      : Bill \cup {NoBill}]

PostingTypeOK ==
  /\ invoices \in [Invoices -> Invoice]
  /\ posts \in [Invoices -> Post]
  /\ claims \in [Numbers -> Invoices \cup {NoInvoice}]
  /\ connection \in {"auto", "manual", "none"}
  /\ outcome \in [Jobs -> {"absent", "pending", "succeeded", "failed"}]
  /\ tries \in [Jobs -> 0 .. MaxAttempts]
  /\ explicit \in [Jobs -> BOOLEAN]
  /\ handlers \in SUBSET Handler
  /\ ledger \in SUBSET Bill
  /\ remembered \in SUBSET (Numbers \cup Invoices)
  /\ asked \in SUBSET [invoice : Invoices, revision : 1 .. MaxRevision,
                       status : {"failed", "needs_review", "cancelled"}]
  /\ retries \in 0 .. MaxRetries
  /\ exits \in 0 .. MaxExits

Init ==
  /\ invoices \in [Invoices -> [supplier : Suppliers, number : Numbers,
                                refused : BOOLEAN, revision : {0},
                                duplicate : {FALSE}, deleted : {FALSE}]]
  /\ \A i, k \in Invoices :
       i # k /\ ~CopiesArrive => invoices[i].supplier # invoices[k].supplier
  /\ posts = [i \in Invoices |->
                [status |-> "none", retryable |-> FALSE, bill |-> NoBill,
                 key |-> NoKey, released |-> FALSE, revision |-> 0]]
  /\ claims = [n \in Numbers |-> NoInvoice]
  /\ connection = "auto"
  /\ Queue!Init
  /\ explicit = [j \in Jobs |-> FALSE]
  /\ handlers = {}
  /\ ledger = {} /\ remembered = {}
  /\ asked = {} /\ retries = 0 /\ exits = 0

-----------------------------------------------------------------------------
(* Intents: a post is queued in the transaction that schedules its job.      *)

\* Mutant of QueuedPost: the post is numbered as the next revision's.
QueuedPostNext(post, revision) ==
  IF post.bill = NoBill
  THEN [post EXCEPT !.status = "queued", !.revision = revision + 1, !.retryable = FALSE]
  ELSE post

\* recordAccountingPostQueued: an invoice that has a bill is left alone.
QueuedPost(post, revision) ==
  IF post.bill = NoBill
  THEN [post EXCEPT !.status = "queued", !.revision = revision, !.retryable = FALSE]
  ELSE post

Live(invoice) == invoice.revision > 0 /\ ~invoice.deleted

\* A live document of the supplier that was received earlier has the number.
Duplicate(invs, i) ==
  \E e \in Invoices : /\ <<e, i>> \in ReceivedBefore /\ Live(invs[e])
                      /\ invs[e].supplier = invs[i].supplier
                      /\ invs[e].number = invs[i].number

\* A new revision of i is validated, and with it the later documents that have
\* its old or new number and no bill.
Validated(invs, i) ==
  LET numbers == {invoices[i].number, invs[i].number}
      later == {k \in Invoices : /\ <<i, k>> \in ReceivedBefore /\ Live(invs[k])
                                 /\ posts[k].bill = NoBill
                                 /\ invs[k].number \in numbers}
  IN [k \in Invoices |->
        IF k \in later \cup {i} THEN [invs[k] EXCEPT !.duplicate = Duplicate(invs, k)]
        ELSE invs[k]]

\* Processing completes: the first revision, its verdict and its post.
Complete(i) ==
  /\ invoices[i].revision = 0 /\ ~invoices[i].deleted
  /\ invoices' = Validated([invoices EXCEPT ![i].revision = 1], i)
  /\ IF connection = "auto"
     THEN posts' = [posts EXCEPT ![i] = QueuedPost(@, 1)] /\ Queue!Record(<<i, 1>>)
     ELSE UNCHANGED <<posts, outcome, tries>>
  /\ UNCHANGED <<claims, explicit, handlers, worldVars, boundVars>>

Retryable == {"failed", "cancelled", "needs_review"}

\* requeueAccountingIntent, with the status and revision its caller has read.
\* Retrying a post held for review releases it as a bill of its own; a job that
\* is queued or running is left alone.
Requeue(i, status, revision) ==
  LET j == <<i, revision>>
      release == status = "needs_review" /\ posts[i].status = "needs_review"
      queued == QueuedPost(posts[i], revision)
  IN /\ status \in Retryable
     /\ connection # "none"
     /\ posts' = [posts EXCEPT ![i] =
                    [queued EXCEPT !.released = queued.released \/ release]]
     /\ \/ Queue!Restart(j) \/ Queue!Record(j)
        \/ outcome[j] = "pending" /\ UNCHANGED <<outcome, tries>>
     /\ explicit' = [explicit EXCEPT ![j] = @ \/ outcome[j] # "pending"]
     /\ UNCHANGED <<invoices, claims, handlers, worldVars>>

\* retryInvoiceDelivery locks the invoice before it reads it.
RetryDelivery(i) ==
  /\ retries < MaxRetries
  /\ ~invoices[i].deleted /\ posts[i].bill = NoBill
  /\ Requeue(i, posts[i].status, posts[i].revision)
  /\ retries' = retries + 1
  /\ UNCHANGED <<asked, exits>>

\* retryAccountingPost reads it before its transaction; a post that was never
\* scheduled is treated like a failed one.  A retry that is refused in the
\* transaction, the connection being gone by then, is one that never acts.
AskRetry(i) ==
  /\ retries < MaxRetries
  /\ Live(invoices[i]) /\ posts[i].bill = NoBill /\ connection # "none"
  /\ posts[i].status \in Retryable \cup {"none"}
  /\ asked' = asked \cup
       {[invoice |-> i,
         status |-> IF posts[i].status = "none" THEN "failed" ELSE posts[i].status,
         revision |-> IF posts[i].revision = 0 THEN invoices[i].revision
                      ELSE posts[i].revision]}
  /\ retries' = retries + 1
  /\ UNCHANGED <<invoices, posts, claims, jobVars, handlers, worldVars, exits>>

RetryPost(a) ==
  /\ Requeue(a.invoice, a.status, a.revision)
  /\ asked' = asked \ {a}
  /\ UNCHANGED <<retries, exits>>

\* Mutant of PostMayExist: only a cancelled post is thought of.
CancelledPostMayExist(post) == post.key # NoKey /\ post.status = "cancelled"

\* A post that may have reached the provider under its key.
PostMayExist(post) ==
  /\ post.key # NoKey
  /\ \/ post.status = "failed" /\ post.retryable
     \/ post.status = "cancelled"

\* Mutant of Renewed: the key is kept.
RenewedWithKey(post) == [post EXCEPT !.released = FALSE]

\* Nothing was sent under the old number: its key and its release are dropped.
Renewed(post) == [post EXCEPT !.key = NoKey, !.released = FALSE]

\* correctInvoice changes the number of an invoice that is not posted: its
\* corrected revision is posted when automatic posting is on and the caller may
\* post.
Correct(i, number) ==
  LET revision == invoices[i].revision + 1
      renewed == Renewed(posts[i])
  IN /\ Live(invoices[i]) /\ revision <= MaxRevision
     /\ number # invoices[i].number
     /\ posts[i].bill = NoBill /\ posts[i].status # "queued"
     /\ ~PostMayExist(posts[i])
     /\ \E refused \in {FALSE, invoices[i].refused} :
          invoices' = Validated([invoices EXCEPT ![i].number = number,
                                                 ![i].refused = refused,
                                                 ![i].revision = revision], i)
     /\ \/ /\ posts' = [posts EXCEPT ![i] = renewed]
           /\ UNCHANGED <<outcome, tries>>
        \/ /\ connection = "auto"
           /\ posts' = [posts EXCEPT ![i] = QueuedPost(renewed, revision)]
           /\ Queue!Record(<<i, revision>>)
     /\ UNCHANGED <<claims, explicit, handlers, worldVars, boundVars>>

DeleteInvoice(i) ==
  /\ Switching
  /\ ~invoices[i].deleted
  /\ invoices' = [invoices EXCEPT ![i].deleted = TRUE]
  /\ UNCHANGED <<posts, claims, jobVars, handlers, worldVars, boundVars>>

SwitchConnection ==
  /\ Switching
  /\ connection' \in {"auto", "manual", "none"} \ {connection}
  /\ UNCHANGED <<invoices, posts, claims, jobVars, handlers, ledger, remembered,
                 boundVars>>

-----------------------------------------------------------------------------
(* The handler, postAccountingDraft. *)

HandlersOf(j) == {h \in handlers : h.job = j}

\* A claim of the queue starts a handler; next to an older one only if the lease
\* of that one ran out.
Start(j) ==
  /\ Cardinality(HandlersOf(j)) < IF HandlersOverlap THEN 2 ELSE 1
  /\ Queue!GiveUp({}) /\ Queue!Try({j})
  /\ LET slot == IF \E h \in HandlersOf(j) : h.slot = 1 THEN 2 ELSE 1
     IN handlers' = handlers \cup
          {[job |-> j, slot |-> slot, attempt |-> tries[j] + 1, at |-> "load",
            number |-> invoices[j[1]].number, released |-> FALSE, key |-> NoKey,
            retryable |-> FALSE, bill |-> NoBill]}
  /\ UNCHANGED <<invoices, posts, claims, explicit, worldVars, boundVars>>

\* The handler h goes on as t.
Becomes(h, t) == handlers' = (handlers \ {h}) \cup {t}

Goes(h, at) == Becomes(h, [h EXCEPT !.at = at])

\* It goes on to record an error or a reason.
Records(h, at, retryable) ==
  Becomes(h, [h EXCEPT !.at = at, !.retryable = retryable])

\* What the runner writes on the job when the handler failed.
AfterFailure(h, retryable) ==
  IF retryable /\ h.attempt < MaxAttempts THEN "retrying" ELSE "failing"

\* A released post is its own bill; else the key of an earlier attempt is kept.
KeyOf(i) ==
  IF posts[i].released THEN i
  ELSE IF posts[i].key # NoKey THEN posts[i].key
  ELSE invoices[i].number

\* The invoice and the connection are read; what follows trusts what they said.
Load(h) ==
  LET i == h.job[1]
      invoice == invoices[i]
      loaded == [h EXCEPT !.number = invoice.number,
                          !.released = posts[i].released, !.key = KeyOf(i)]
  IN /\ h.at = "load"
     /\ IF invoice.deleted \/ connection = "none"
        THEN Records(h, "cancel", FALSE)
        ELSE IF posts[i].bill # NoBill THEN Goes(h, "already")
        ELSE IF ~explicit[h.job] /\ connection # "auto" THEN Records(h, "cancel", TRUE)
        ELSE Becomes(h, [loaded EXCEPT
               !.at = IF invoice.duplicate THEN "block" ELSE "claim"])
     /\ UNCHANGED <<invoices, posts, claims, jobVars, worldVars, boundVars>>

\* Mutant of Claimed: the conflict clause hands the claim over.
ClaimedByLast(n, i) == [claims EXCEPT ![n] = i]

\* One committed insert; an existing claim wins.
Claimed(n, i) == [claims EXCEPT ![n] = IF @ = NoInvoice THEN i ELSE @]

\* A released post claims an identity no other invoice can have.
ClaimPost(h) ==
  /\ h.at = "claim"
  /\ IF h.released
     THEN Goes(h, "find") /\ UNCHANGED claims
     ELSE Goes(h, "holder") /\ claims' = Claimed(h.number, h.job[1])
  /\ UNCHANGED <<invoices, posts, jobVars, worldVars, boundVars>>

\* The claim is read back: by now it may be gone.  Whoever lost it is compared
\* with the holder as that one reads now; only a copy is final.
ReadHolder(h) ==
  LET i == h.job[1]
      holder == claims[h.number]
  IN /\ h.at = "holder"
     /\ \/ holder = NoInvoice /\ Goes(h, AfterFailure(h, TRUE))
        \/ holder = i /\ Goes(h, "find")
        \/ /\ holder \in Invoices \ {i}
           /\ Records(h, "mark", \/ invoices[holder].supplier # invoices[i].supplier
                                 \/ invoices[holder].number # h.number)
     /\ UNCHANGED <<invoices, posts, claims, jobVars, worldVars, boundVars>>

\* Mutant of SameBills: the first attempt of a job does not look.
SameBillsOnRetry(h) ==
  {b \in ledger : /\ h.attempt > 1
                  /\ b.number = h.number
                  /\ invoices[b.invoice].supplier = invoices[h.job[1]].supplier}

\* Bills the provider would show for this number from this supplier.
SameBills(h) ==
  {b \in ledger : /\ b.number = h.number
                  /\ invoices[b.invoice].supplier = invoices[h.job[1]].supplier}

\* The provider is asked for bills of this number from this supplier.  One that
\* carries the key is the invoice's, another one is not touched.
FindBill(h) ==
  LET ours == {b \in SameBills(h) : b.key = h.key}
  IN /\ h.at = "find"
     /\ \/ \E b \in ours : Becomes(h, [h EXCEPT !.at = "record", !.bill = b])
        \/ /\ ours = {} /\ SameBills(h) # {}
           /\ Records(h, "release", FALSE)
        \/ SameBills(h) = {} /\ Goes(h, "create")
        \/ Records(h, "fail", TRUE)
        \/ MayLoseAccess /\ Records(h, "release", FALSE)
     /\ UNCHANGED <<invoices, posts, claims, jobVars, worldVars, boundVars>>

NewBill(h) ==
  [invoice |-> h.job[1], number |-> h.number, key |-> h.key,
   copy |-> IF \E b \in ledger : b.key = h.key THEN 2 ELSE 1]

\* Mutant of MadeBills: the create call carries no key.
MadeBillsAnew(h) == {NewBill(h)}

\* The provider answers a key it remembers with the bill it made under it.
MadeBills(h) ==
  IF h.key \in remembered THEN {b \in ledger : b.key = h.key} ELSE {NewBill(h)}

\* It forgets a key after a while, long after the calls that carried it.
ForgetKey(key) ==
  /\ KeysExpire
  /\ key \in remembered /\ \A h \in handlers : h.key # key
  /\ remembered' = remembered \ {key}
  /\ UNCHANGED <<invoices, posts, claims, connection, jobVars, handlers, ledger,
                 boundVars>>

\* The create call: answered, made but the answer is lost, not made but worth a
\* retry, or refused for good.
CreateBill(h) ==
  /\ h.at = "create"
  /\ \/ /\ ~invoices[h.job[1]].refused
        /\ \E b \in MadeBills(h) :
             /\ ledger' = ledger \cup {b} /\ remembered' = remembered \cup {b.key}
             /\ \/ Becomes(h, [h EXCEPT !.at = "record", !.bill = b])
                \/ Records(h, "fail", TRUE)
     \/ UNCHANGED <<ledger, remembered>> /\ Records(h, "fail", TRUE)
     \/ /\ invoices[h.job[1]].refused \/ MayLoseAccess
        /\ UNCHANGED <<ledger, remembered>> /\ Records(h, "release", FALSE)
  /\ UNCHANGED <<invoices, posts, claims, jobVars, connection, boundVars>>

-----------------------------------------------------------------------------
(* What the handler records. *)

\* Mutant of CancelledPost: only a post nobody asked for is recorded.
SwitchedOffPost(h) ==
  IF posts[h.job[1]].status # "queued" \/ ~h.retryable THEN posts
  ELSE [posts EXCEPT ![h.job[1]] =
          [@ EXCEPT !.status = "cancelled", !.retryable = h.retryable]]

\* recordAccountingPostCancelled: only a queued post is cancelled.
CancelledPost(h) ==
  IF posts[h.job[1]].status # "queued" THEN posts
  ELSE [posts EXCEPT ![h.job[1]] =
          [@ EXCEPT !.status = "cancelled", !.retryable = h.retryable]]

CancelPost(h) ==
  /\ h.at = "cancel"
  /\ posts' = CancelledPost(h)
  /\ Goes(h, "completing")
  /\ UNCHANGED <<invoices, claims, jobVars, worldVars, boundVars>>

AlreadyPosted(h) ==
  /\ h.at = "already"
  /\ posts' = [posts EXCEPT ![h.job[1]].status = "already_posted"]
  /\ Goes(h, "completing")
  /\ UNCHANGED <<invoices, claims, jobVars, worldVars, boundVars>>

\* Mutant of FailedPost: a bill that was recorded in the meantime is ignored.
FailedPostAlways(h, status, retryable) ==
  [posts EXCEPT ![h.job[1]] =
     [@ EXCEPT !.status = status, !.retryable = retryable, !.key = h.key]]

\* recordAccountingPostFailure: a post that has its bill is left alone.
FailedPost(h, status, retryable) ==
  IF posts[h.job[1]].bill # NoBill THEN posts
  ELSE [posts EXCEPT ![h.job[1]] =
          [@ EXCEPT !.status = status, !.retryable = retryable, !.key = h.key]]

\* Whoever lost the claim is validated against the holder: a copy becomes its
\* duplicate ...
MarkDuplicate(h) ==
  /\ h.at = "mark"
  /\ invoices' = [invoices EXCEPT ![h.job[1]].duplicate = ~h.retryable]
  /\ Goes(h, IF h.retryable THEN "review" ELSE "block")
  /\ UNCHANGED <<posts, claims, jobVars, worldVars, boundVars>>

\* ... and is not sent: the job has done its work.
BlockPost(h) ==
  /\ h.at = "block"
  /\ posts' = FailedPost(h, "failed", FALSE)
  /\ Goes(h, "completing")
  /\ UNCHANGED <<invoices, claims, jobVars, worldVars, boundVars>>

\* A document from another supplier is held for a person.
HoldForReview(h) ==
  /\ h.at = "review"
  /\ posts' = FailedPost(h, "needs_review", TRUE)
  /\ Goes(h, "failing")
  /\ UNCHANGED <<invoices, claims, jobVars, worldVars, boundVars>>

\* Only the invoice that holds the claim gives it up.
Released(h) ==
  IF h.released \/ claims[h.number] # h.job[1] THEN claims
  ELSE [claims EXCEPT ![h.number] = NoInvoice]

\* An error no retry can fix.
ReleaseClaim(h) ==
  /\ h.at = "release"
  /\ claims' = Released(h)
  /\ Goes(h, "fail")
  /\ UNCHANGED <<invoices, posts, jobVars, worldVars, boundVars>>

\* A failure that another attempt follows keeps the post queued.
RecordFailure(h) ==
  LET final == ~h.retryable \/ h.attempt >= MaxAttempts
  IN /\ h.at = "fail"
     /\ posts' = FailedPost(h, IF final THEN "failed" ELSE "queued",
                            final /\ h.retryable)
     /\ Goes(h, AfterFailure(h, h.retryable))
     /\ UNCHANGED <<invoices, claims, jobVars, worldVars, boundVars>>

RecordSuccess(h) ==
  /\ h.at = "record"
  /\ posts' = [posts EXCEPT ![h.job[1]] =
                 [@ EXCEPT !.status = "posted", !.bill = h.bill, !.key = h.key,
                           !.retryable = FALSE]]
  /\ Goes(h, "completing")
  /\ UNCHANGED <<invoices, claims, jobVars, worldVars, boundVars>>

\* A statement of the handler fails: the job is retried, nothing is recorded.
StatementFails(h) ==
  /\ StatementsFail
  /\ h.at \in {"load", "claim", "holder"} \cup Writes
  /\ Goes(h, AfterFailure(h, TRUE))
  /\ UNCHANGED <<invoices, posts, claims, jobVars, worldVars, boundVars>>

-----------------------------------------------------------------------------
(* The job of a handler that ended, vanished or was interrupted. *)

\* The runner's outcome write.  A handler that lost its lease may find the row
\* its own again (same process) or not.
SettleJob(h) ==
  LET j == h.job
  IN /\ h.at \in Ends
     /\ handlers' = handlers \ {h}
     /\ \/ h.at = "completing" /\ Queue!Succeed(j)
        \/ h.at = "failing" /\ outcome[j] = "pending" /\ Queue!Fail(j)
        \/ /\ h.at = "retrying" \/ HandlersOverlap
           /\ UNCHANGED <<outcome, tries>>
     /\ UNCHANGED <<invoices, posts, claims, explicit, worldVars, boundVars>>

\* A crash, or a deploy that hands the job back.
Vanish(h) ==
  /\ exits < MaxExits
  /\ exits' = exits + 1
  /\ handlers' = handlers \ {h}
  /\ UNCHANGED <<outcome, tries>> \/ Queue!HandBack(h.job)
  /\ UNCHANGED <<invoices, posts, claims, explicit, worldVars, asked, retries>>

\* The last attempt is gone: the reaper fails the job ...
Reap(j) ==
  /\ HandlersOf(j) = {} \/ HandlersOverlap
  /\ Queue!GiveUp({j}) /\ Queue!Try({})
  /\ UNCHANGED <<invoices, posts, claims, explicit, handlers, worldVars, boundVars>>

\* ... and the reconciler the post, if its own job is still failed.
FailStalled(i) ==
  /\ posts[i].status = "queued" /\ posts[i].bill = NoBill
  /\ outcome[<<i, posts[i].revision>>] = "failed"
  /\ posts' = [posts EXCEPT ![i].status = "failed", ![i].retryable = TRUE]
  /\ UNCHANGED <<invoices, claims, jobVars, handlers, worldVars, boundVars>>

-----------------------------------------------------------------------------

HandlerStep(h) ==
  \/ Load(h) \/ ClaimPost(h) \/ ReadHolder(h) \/ FindBill(h) \/ CreateBill(h)
  \/ CancelPost(h) \/ AlreadyPosted(h) \/ MarkDuplicate(h) \/ BlockPost(h)
  \/ HoldForReview(h) \/ ReleaseClaim(h) \/ RecordFailure(h) \/ RecordSuccess(h)
  \/ StatementFails(h) \/ SettleJob(h)

Next ==
  \/ \E i \in Invoices : \/ Complete(i) \/ RetryDelivery(i) \/ AskRetry(i)
                         \/ DeleteInvoice(i) \/ FailStalled(i)
                         \/ \E n \in Numbers : Correct(i, n)
  \/ \E a \in asked : RetryPost(a)
  \/ SwitchConnection
  \/ \E k \in Numbers \cup Invoices : ForgetKey(k)
  \/ \E j \in Jobs : Start(j) \/ Reap(j)
  \/ \E h \in handlers : HandlerStep(h) \/ Vanish(h)

Spec == Init /\ [][Next]_vars

(***************************************************************************)
(* Fairness: a pending job is claimed or reaped (the queue's EveryJobSettles *)
(* rests on the same), the statements and calls of a handler return, which   *)
(* is assumed (they have no deadlines), and the reconciler runs for ever.    *)
(***************************************************************************)
Fairness ==
  /\ \A j \in Jobs : /\ WF_vars(Start(j)) /\ WF_vars(Reap(j))
                     /\ WF_vars(\E h \in HandlersOf(j) : HandlerStep(h))
  /\ \A i \in Invoices : WF_vars(FailStalled(i))

FairSpec == Spec /\ Fairness

-----------------------------------------------------------------------------
(* Properties. *)

\* One invoice, one bill: however many attempts, lost answers, retries, releases
\* and corrections there were, the provider never has two bills of an invoice.
OneBillPerInvoice ==
  \A b, c \in ledger : b.invoice = c.invoice => b = c

\* An invoice that counts as posted names a bill made from it, not one the
\* provider replayed for another document with the same key.
PostedAsItself ==
  \A i \in Invoices : posts[i].bill # NoBill => posts[i].bill.invoice = i

\* A bill that was made automatically keeps its number claimed for its invoice,
\* so no other document is sent under the number, even while the invoice does
\* not know of its bill.
BillKeepsClaim ==
  \A b \in ledger : b.key \in Numbers => claims[b.number] = b.invoice

\* A bill that was recorded is never forgotten or replaced: no stale failure,
\* cancellation, retry or correction takes a post back.
BillsKept ==
  \A i \in Invoices :
    posts[i].bill # NoBill =>
      /\ posts'[i].bill = posts[i].bill
      /\ posts'[i].status \in {"posted", "already_posted"}

PostedStaysPosted == [][BillsKept]_vars

\* Every post that is queued ends in a visible state.
EveryPostSettles ==
  \A i \in Invoices : posts[i].status = "queued" ~> posts[i].status # "queued"
=============================================================================
