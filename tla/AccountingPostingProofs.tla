----------------------- MODULE AccountingPostingProofs -----------------------
(***************************************************************************)
(* What AccountingPosting guarantees of invoices that are not corrected    *)
(* (MaxRevision = 1), for any number of invoices, numbers, suppliers,      *)
(* attempts, retries and exits.  With corrections each of these is false   *)
(* unless much else is excluded, as the runs of the module show.           *)
(*                                                                         *)
(* Base: what an invoice is posted under, and what every handler and every *)
(* bill has of it, changes by a release only; only a retry releases; and   *)
(* unless handlers overlap there is one at a time.                         *)
(*                                                                         *)
(* On it rest one bill per invoice (CreatesOnce: a handler about to create *)
(* another does so under a key the provider remembers), the claims         *)
(* (ClaimsHeld: whoever posts under a number holds its claim, and gives it *)
(* up only when no bill was made under it), the recorded bill              *)
(* (RecordsItsOwn), and that it stays (UnpostedWhileHandled).              *)
(***************************************************************************)
EXTENDS AccountingPosting, TLAPS, FiniteSetTheorems

-----------------------------------------------------------------------------
(* Types.                                                                    *)

\* Past its load a handler knows the key it posts under.
Loaded(h) == h.at \notin {"load", "cancel", "already"} \cup Ends

KeysAreLoaded == \A h \in handlers : Loaded(h) => h.key # NoKey

Typed == PostingTypeOK /\ KeysAreLoaded

-----------------------------------------------------------------------------
(* One revision of each invoice.                                             *)

Owner(h) == h.job[1]

\* What an invoice is posted under never changes but by a release, and whoever
\* posts it, and every bill made of it, goes by that.
NumbersStay ==
  /\ \A i \in Invoices :
       /\ posts[i].key \in {NoKey, invoices[i].number, i}
       /\ posts[i].key = i => posts[i].released
  /\ \A h \in handlers :
       /\ h.number = invoices[Owner(h)].number
       /\ h.released => posts[Owner(h)].released
       /\ Loaded(h) => h.key = IF h.released THEN Owner(h) ELSE h.number
  /\ \A b \in ledger :
       /\ b.number = invoices[b.invoice].number
       /\ b.key \in {b.number, b.invoice}
       /\ ~invoices[b.invoice].refused

\* Only a retry releases a post.
ReleasedByRetry ==
  MaxRetries = 0 =>
    /\ asked = {}
    /\ \A i \in Invoices : ~posts[i].released
    /\ \A b \in ledger : b.key = b.number

\* Unless handlers overlap, an invoice has one at a time.
OneHandler ==
  /\ IsFiniteSet(handlers)
  /\ ~HandlersOverlap =>
       \A g, h \in handlers : Owner(g) = Owner(h) => g = h

\* A handler that is about to create a bill does so under a key the provider
\* remembers, if there is a bill already.
CreatesOnce ==
  \A h \in handlers, b \in ledger :
    h.at = "create" /\ b.invoice = Owner(h) => h.key \in remembered

Base == Typed /\ NumbersStay /\ ReleasedByRetry /\ OneHandler

BillInv == OneBillPerInvoice /\ CreatesOnce

-----------------------------------------------------------------------------
(* Claims and recorded bills.                                                *)

\* Whoever posts under a number holds its claim, and gives it up only when no
\* bill was made under it.
ClaimsHeld ==
  \A h \in handlers : ~h.released =>
    /\ h.at \in {"find", "create"} =>
         \/ claims[h.number] = Owner(h)
         \/ HandlersOverlap /\ invoices[Owner(h)].refused
    /\ h.at = "release" =>
         /\ \A b \in ledger : b.invoice = Owner(h) => b.key \notin Numbers
         /\ HandlersOverlap => invoices[Owner(h)].refused

\* Two documents of one supplier are copies.
SuppliersDiffer ==
  ~CopiesArrive =>
    \A i, k \in Invoices : i # k => invoices[i].supplier # invoices[k].supplier

ClaimInv == SuppliersDiffer /\ BillKeepsClaim /\ ClaimsHeld

\* What a handler is about to record, and what is recorded, was made from the
\* invoice itself.
RecordsItsOwn ==
  /\ \A h \in handlers :
       h.at = "record" => h.bill \in ledger /\ h.bill.invoice = Owner(h)
  /\ \A i \in Invoices :
       posts[i].bill # NoBill => posts[i].bill \in ledger /\ posts[i].bill.invoice = i

PostedStatus ==
  \A i \in Invoices :
    posts[i].bill # NoBill => posts[i].status \in {"posted", "already_posted"}

\* A handler that takes its turn posts only what was not posted.
UnpostedWhileHandled ==
  ~HandlersOverlap =>
    \A h \in handlers : Loaded(h) => posts[Owner(h)].bill = NoBill

-----------------------------------------------------------------------------
(* What a step does to the handler that takes it. *)

At == {"load", "claim", "holder", "find", "create"} \cup Writes \cup Ends

\* t goes on with what h had loaded.
Same(h, t) ==
  /\ t.job = h.job /\ t.slot = h.slot /\ t.attempt = h.attempt
  /\ t.number = h.number /\ t.released = h.released /\ t.key = h.key

Moves(h, t) == t \in Handler /\ handlers' = (handlers \ {h}) \cup {t}

LEMMA AtUpdate ==
  ASSUME NEW h \in Handler, NEW at \in At
  PROVE  LET t == [h EXCEPT !.at = at]
         IN t \in Handler /\ Same(h, t) /\ t.at = at /\ t.retryable = h.retryable
            /\ t.bill = h.bill
<1> DEFINE t == [h EXCEPT !.at = at]
<1>1. t \in Handler
  BY DEF Handler, At
<1>2. Same(h, t) /\ t.at = at /\ t.retryable = h.retryable /\ t.bill = h.bill
  BY DEF Handler, Same
<1> QED BY <1>1, <1>2

LEMMA GoesMoves ==
  ASSUME NEW h \in Handler, NEW at \in At, Goes(h, at)
  PROVE  \E t \in Handler : Moves(h, t) /\ Same(h, t) /\ t.at = at
                            /\ t.retryable = h.retryable /\ t.bill = h.bill
BY AtUpdate DEF Goes, Becomes, Moves

LEMMA RecordsMoves ==
  ASSUME NEW h \in Handler, NEW at \in At, NEW retryable \in BOOLEAN,
         Records(h, at, retryable)
  PROVE  \E t \in Handler : Moves(h, t) /\ Same(h, t) /\ t.at = at
                            /\ t.retryable = retryable
<1> DEFINE t == [h EXCEPT !.at = at, !.retryable = retryable]
<1>1. t \in Handler
  BY DEF Handler, At
<1>2. Same(h, t) /\ t.at = at /\ t.retryable = retryable
  BY DEF Handler, Same
<1>3. Moves(h, t)
  BY <1>1 DEF Records, Becomes, Moves
<1> QED BY <1>1, <1>2, <1>3

LEMMA BillMoves ==
  ASSUME NEW h \in Handler, NEW bill \in Bill,
         Becomes(h, [h EXCEPT !.at = "record", !.bill = bill])
  PROVE  \E t \in Handler : Moves(h, t) /\ Same(h, t) /\ t.at = "record"
                            /\ t.bill = bill
<1> DEFINE t == [h EXCEPT !.at = "record", !.bill = bill]
<1>1. t \in Handler
  BY DEF Handler, Writes
<1>2. Same(h, t) /\ t.at = "record" /\ t.bill = bill
  BY DEF Handler, Same
<1>3. Moves(h, t)
  BY <1>1 DEF Becomes, Moves
<1> QED BY <1>1, <1>2, <1>3

LEMMA AfterFailureEnds ==
  \A h, retryable : AfterFailure(h, retryable) \in {"retrying", "failing"}
BY DEF AfterFailure

LEMMA HandlerTyped ==
  ASSUME PostingTypeOK, NEW h \in handlers
  PROVE  /\ h \in Handler /\ Owner(h) \in Invoices /\ h.job \in Jobs
         /\ h.number \in Numbers /\ h.attempt \in 1 .. MaxAttempts
         /\ h.retryable \in BOOLEAN /\ h.released \in BOOLEAN
         /\ invoices[Owner(h)] \in Invoice /\ posts[Owner(h)] \in Post
         /\ h.key \in Numbers \cup Invoices \cup {NoKey}
         /\ h.at \in At
BY DEF PostingTypeOK, Handler, Owner, Jobs, At

LEMMA KeyOfTyped ==
  ASSUME PostingTypeOK, NEW i \in Invoices
  PROVE  KeyOf(i) \in Numbers \cup Invoices /\ KeyOf(i) # NoKey
<1>1. posts[i] \in Post /\ invoices[i] \in Invoice
  BY DEF PostingTypeOK
<1> QED BY <1>1, PostingAssumption DEF KeyOf, Post, Invoice

\* A load that goes on knows the invoice as it is.
LEMMA LoadMoves ==
  ASSUME PostingTypeOK, NEW h \in handlers, Load(h)
  PROVE  \E t \in Handler :
           /\ Moves(h, t) /\ t.job = h.job
           /\ \/ Same(h, t) /\ t.at \in {"cancel", "already"}
              \/ /\ t.at = IF invoices[Owner(h)].duplicate THEN "block" ELSE "claim"
                 /\ t.number = invoices[Owner(h)].number
                 /\ t.released = posts[Owner(h)].released
                 /\ t.key = KeyOf(Owner(h))
                 /\ posts[Owner(h)].bill = NoBill
<1> DEFINE i == h.job[1]
           at == IF invoices[i].duplicate THEN "block" ELSE "claim"
           u == [h EXCEPT !.number = invoices[i].number,
                          !.released = posts[i].released, !.key = KeyOf(i)]
           t == [u EXCEPT !.at = at]
<1>1. h \in Handler /\ i \in Invoices /\ i = Owner(h)
      /\ invoices[i] \in Invoice /\ posts[i] \in Post
  BY HandlerTyped DEF Owner
<1>2. {"cancel", "already", "block", "claim"} \subseteq At
  BY DEF At, Writes
<1>3. CASE \E retryable \in BOOLEAN : Records(h, "cancel", retryable)
  <2>1. PICK v \in Handler : Moves(h, v) /\ Same(h, v) /\ v.at = "cancel"
    BY <1>1, <1>2, <1>3, RecordsMoves
  <2> QED BY <2>1 DEF Same
<1>4. CASE Goes(h, "already")
  BY <1>1, <1>2, <1>4, GoesMoves DEF Same
<1>5. CASE posts[i].bill = NoBill /\ Becomes(h, t)
  <2>1. u \in Handler /\ u.job = h.job /\ u.number = invoices[i].number
        /\ u.released = posts[i].released /\ u.key = KeyOf(i)
    BY <1>1, KeyOfTyped DEF Handler, Invoice, Post
  <2>2. at \in At
    BY <1>2
  <2> HIDE DEF u, at
  <2>3. t \in Handler /\ Same(u, t) /\ t.at = at
    BY <2>1, <2>2, AtUpdate
  <2>4. Moves(h, t)
    BY <2>3, <1>5 DEF Becomes, Moves
  <2> QED BY <2>1, <2>3, <2>4, <1>1, <1>5 DEF Same, at
<1> QED BY <1>3, <1>4, <1>5 DEF Load


LEMMA ClaimMoves ==
  ASSUME PostingTypeOK, NEW h \in handlers, ClaimPost(h)
  PROVE  \E t \in Handler :
           /\ Moves(h, t) /\ Same(h, t)
           /\ \/ h.released /\ t.at = "find" /\ claims' = claims
              \/ ~h.released /\ t.at = "holder" /\ claims' = Claimed(h.number, Owner(h))
<1>1. h \in Handler /\ {"find", "holder"} \subseteq At
  BY HandlerTyped DEF At
<1> QED BY <1>1, GoesMoves DEF ClaimPost, Owner

LEMMA HolderMoves ==
  ASSUME PostingTypeOK, NEW h \in handlers, ReadHolder(h)
  PROVE  \E t \in Handler :
           /\ Moves(h, t) /\ Same(h, t)
           /\ \/ claims[h.number] = NoInvoice /\ t.at \in {"retrying", "failing"}
              \/ claims[h.number] = Owner(h) /\ t.at = "find"
              \/ /\ claims[h.number] \in Invoices \ {Owner(h)} /\ t.at = "mark"
                 /\ t.retryable <=>
                      \/ invoices[claims[h.number]].supplier # invoices[Owner(h)].supplier
                      \/ invoices[claims[h.number]].number # h.number
<1>1. h \in Handler /\ {"find", "mark", "retrying", "failing"} \subseteq At
  BY HandlerTyped DEF At, Writes, Ends
<1>2. CASE claims[h.number] = NoInvoice /\ Goes(h, AfterFailure(h, TRUE))
  <2> DEFINE at == AfterFailure(h, TRUE)
  <2>1. at \in {"retrying", "failing"} /\ Goes(h, at)
    BY <1>2, AfterFailureEnds
  <2> HIDE DEF at
  <2>2. PICK t \in Handler : Moves(h, t) /\ Same(h, t) /\ t.at = at
    BY <1>1, <2>1, GoesMoves
  <2> QED BY <1>2, <2>1, <2>2
<1>3. CASE claims[h.number] = h.job[1] /\ Goes(h, "find")
  BY <1>1, <1>3, GoesMoves DEF Owner
<1> DEFINE r == \/ invoices[claims[h.number]].supplier # invoices[h.job[1]].supplier
                \/ invoices[claims[h.number]].number # h.number
<1>4. CASE claims[h.number] \in Invoices \ {h.job[1]} /\ Records(h, "mark", r)
  <2>1. r \in BOOLEAN
    OBVIOUS
  <2> HIDE DEF r
  <2>2. PICK t \in Handler : Moves(h, t) /\ Same(h, t) /\ t.at = "mark" /\ t.retryable = r
    BY <1>1, <1>4, <2>1, RecordsMoves
  <2>3. t.retryable <=> r
    BY <2>1, <2>2
  <2> QED BY <1>4, <2>2, <2>3 DEF Owner, r
<1> QED BY <1>2, <1>3, <1>4 DEF ReadHolder

LEMMA FindMoves ==
  ASSUME PostingTypeOK, NEW h \in handlers, FindBill(h)
  PROVE  \E t \in Handler :
           /\ Moves(h, t) /\ Same(h, t)
           /\ \/ t.at = "record" /\ t.bill \in SameBills(h) /\ t.bill.key = h.key
              \/ /\ t.at = "release" /\ ~t.retryable
                 /\ \/ MayLoseAccess
                    \/ /\ SameBills(h) # {}
                       /\ \A b \in SameBills(h) : b.key # h.key
              \/ t.at = "create" /\ SameBills(h) = {}
              \/ t.at = "fail" /\ t.retryable
<1> DEFINE ours == {b \in SameBills(h) : b.key = h.key}
<1>1. h \in Handler /\ {"record", "release", "create", "fail"} \subseteq At
      /\ SameBills(h) \subseteq Bill
  BY HandlerTyped DEF At, Writes, SameBills, PostingTypeOK
<1>2. CASE \E b \in ours : Becomes(h, [h EXCEPT !.at = "record", !.bill = b])
  <2>1. PICK b \in SameBills(h) :
          b.key = h.key /\ Becomes(h, [h EXCEPT !.at = "record", !.bill = b])
    BY <1>2
  <2>2. PICK t \in Handler : Moves(h, t) /\ Same(h, t) /\ t.at = "record" /\ t.bill = b
    BY <1>1, <2>1, BillMoves
  <2> QED BY <2>1, <2>2
<1>3. CASE ours = {} /\ SameBills(h) # {} /\ Records(h, "release", FALSE)
  <2>1. PICK t \in Handler :
          Moves(h, t) /\ Same(h, t) /\ t.at = "release" /\ t.retryable = FALSE
    BY <1>1, <1>3, RecordsMoves
  <2> QED BY <1>3, <2>1
<1>4. CASE SameBills(h) = {} /\ Goes(h, "create")
  BY <1>1, <1>4, GoesMoves
<1>5. CASE Records(h, "fail", TRUE)
  <2>1. \E t \in Handler : Moves(h, t) /\ Same(h, t) /\ t.at = "fail" /\ t.retryable = TRUE
    BY <1>1, <1>5, RecordsMoves
  <2> QED BY <2>1
<1>6. CASE MayLoseAccess /\ Records(h, "release", FALSE)
  <2>1. \E t \in Handler : Moves(h, t) /\ Same(h, t) /\ t.at = "release" /\ t.retryable = FALSE
    BY <1>1, <1>6, RecordsMoves
  <2> QED BY <2>1, <1>6
<1> QED BY <1>2, <1>3, <1>4, <1>5, <1>6 DEF FindBill

LEMMA CreatesBill ==
  ASSUME Typed, NEW h \in handlers, h.at = "create"
  PROVE  NewBill(h) \in Bill /\ MadeBills(h) \subseteq Bill /\ h.key # NoKey
<1>1. h \in Handler /\ h.key # NoKey /\ h.job[1] \in Invoices
  BY HandlerTyped DEF Typed, KeysAreLoaded, Loaded, Ends, Owner
<1>2. NewBill(h) \in Bill
  BY <1>1 DEF NewBill, Bill, Handler
<1> QED BY <1>1, <1>2 DEF MadeBills, Typed, PostingTypeOK

\* A bill is made, or one that the provider remembers is answered; or neither.
LEMMA CreateMoves ==
  ASSUME Typed, NEW h \in handlers, CreateBill(h)
  PROVE  \E t \in Handler :
           /\ Moves(h, t) /\ Same(h, t)
           /\ \/ \E b \in MadeBills(h) :
                   /\ ~invoices[Owner(h)].refused
                   /\ ledger' = ledger \cup {b} /\ remembered' = remembered \cup {b.key}
                   /\ \/ t.at = "record" /\ t.bill = b
                      \/ t.at = "fail" /\ t.retryable
              \/ /\ ledger' = ledger /\ remembered' = remembered
                 /\ \/ t.at = "fail" /\ t.retryable
                    \/ /\ t.at = "release" /\ ~t.retryable
                       /\ invoices[Owner(h)].refused \/ MayLoseAccess

<1>1. h \in Handler /\ {"record", "release", "fail"} \subseteq At
      /\ PostingTypeOK /\ ledger \subseteq Bill
  BY HandlerTyped DEF At, Writes, Typed, PostingTypeOK
<1>2. h.at = "create" /\ MadeBills(h) \subseteq Bill
  BY CreatesBill DEF CreateBill
<1>3. ASSUME Records(h, "fail", TRUE)
      PROVE  \E t \in Handler : Moves(h, t) /\ Same(h, t) /\ t.at = "fail" /\ t.retryable
  <2>1. \E t \in Handler : Moves(h, t) /\ Same(h, t) /\ t.at = "fail" /\ t.retryable = TRUE
    BY <1>1, <1>3, RecordsMoves
  <2> QED BY <2>1
<1>4. ASSUME Records(h, "release", FALSE)
      PROVE  \E t \in Handler : Moves(h, t) /\ Same(h, t) /\ t.at = "release" /\ ~t.retryable
  <2>1. \E t \in Handler : Moves(h, t) /\ Same(h, t) /\ t.at = "release" /\ t.retryable = FALSE
    BY <1>1, <1>4, RecordsMoves
  <2> QED BY <2>1
<1>5. ASSUME NEW b \in MadeBills(h), Becomes(h, [h EXCEPT !.at = "record", !.bill = b])
      PROVE  \E t \in Handler : Moves(h, t) /\ Same(h, t) /\ t.at = "record" /\ t.bill = b
  BY <1>1, <1>2, <1>5, BillMoves
<1>6. CASE \E b \in MadeBills(h) :
             /\ ~invoices[h.job[1]].refused
             /\ ledger' = ledger \cup {b} /\ remembered' = remembered \cup {b.key}
             /\ \/ Becomes(h, [h EXCEPT !.at = "record", !.bill = b])
                \/ Records(h, "fail", TRUE)
  <2> PICK b \in MadeBills(h) :
             /\ ~invoices[h.job[1]].refused
             /\ ledger' = ledger \cup {b} /\ remembered' = remembered \cup {b.key}
             /\ \/ Becomes(h, [h EXCEPT !.at = "record", !.bill = b])
                \/ Records(h, "fail", TRUE)
    BY <1>6
  <2>1. PICK t \in Handler :
          /\ Moves(h, t) /\ Same(h, t)
          /\ \/ t.at = "record" /\ t.bill = b
             \/ t.at = "fail" /\ t.retryable
    BY <1>3, <1>5
  <2> QED BY <2>1 DEF Owner
<1>7. CASE ledger' = ledger /\ remembered' = remembered /\ Records(h, "fail", TRUE)
  BY <1>3, <1>7
<1>8. CASE /\ invoices[h.job[1]].refused \/ MayLoseAccess
           /\ ledger' = ledger /\ remembered' = remembered /\ Records(h, "release", FALSE)
  BY <1>4, <1>8 DEF Owner
<1> QED BY <1>6, <1>7, <1>8 DEF CreateBill


LEMMA WriteMoves ==
  ASSUME PostingTypeOK, NEW h \in handlers,
         \/ CancelPost(h) \/ AlreadyPosted(h) \/ MarkDuplicate(h) \/ BlockPost(h)
         \/ HoldForReview(h) \/ ReleaseClaim(h) \/ RecordFailure(h)
         \/ RecordSuccess(h) \/ StatementFails(h)
  PROVE  \E t \in Handler :
           /\ Moves(h, t) /\ Same(h, t)
           /\ \/ /\ CancelPost(h) \/ AlreadyPosted(h) \/ BlockPost(h) \/ RecordSuccess(h)
                 /\ t.at = "completing"
              \/ /\ MarkDuplicate(h) /\ t.at = IF h.retryable THEN "review" ELSE "block"
                 /\ t.retryable = h.retryable
              \/ HoldForReview(h) /\ t.at = "failing"
              \/ ReleaseClaim(h) /\ t.at = "fail" /\ t.retryable = h.retryable
              \/ RecordFailure(h) /\ t.at = AfterFailure(h, h.retryable)
              \/ StatementFails(h) /\ t.at = AfterFailure(h, TRUE)
<1>1. h \in Handler
      /\ {"completing", "failing", "retrying", "review", "block", "fail"} \subseteq At
  BY HandlerTyped DEF At, Writes, Ends
<1>2. CASE CancelPost(h) \/ AlreadyPosted(h) \/ BlockPost(h) \/ RecordSuccess(h)
  <2>1. Goes(h, "completing")
    BY <1>2 DEF CancelPost, AlreadyPosted, BlockPost, RecordSuccess
  <2>2. PICK t \in Handler : Moves(h, t) /\ Same(h, t) /\ t.at = "completing"
    BY <1>1, <2>1, GoesMoves
  <2> QED BY <1>2, <2>2
<1>3. CASE MarkDuplicate(h)
  <2> DEFINE at == IF h.retryable THEN "review" ELSE "block"
  <2>1. at \in At /\ Goes(h, at)
    BY <1>1, <1>3 DEF MarkDuplicate
  <2> HIDE DEF at
  <2>2. PICK t \in Handler : Moves(h, t) /\ Same(h, t) /\ t.at = at
                             /\ t.retryable = h.retryable
    BY <1>1, <2>1, GoesMoves
  <2> QED BY <1>3, <2>2 DEF at
<1>4. CASE HoldForReview(h)
  <2>1. Goes(h, "failing")
    BY <1>4 DEF HoldForReview
  <2>2. PICK t \in Handler : Moves(h, t) /\ Same(h, t) /\ t.at = "failing"
    BY <1>1, <2>1, GoesMoves
  <2> QED BY <1>4, <2>2
<1>5. CASE ReleaseClaim(h)
  <2>1. Goes(h, "fail")
    BY <1>5 DEF ReleaseClaim
  <2>2. PICK t \in Handler : Moves(h, t) /\ Same(h, t) /\ t.at = "fail"
                             /\ t.retryable = h.retryable
    BY <1>1, <2>1, GoesMoves
  <2> QED BY <1>5, <2>2
<1>6. ASSUME NEW retryable, Goes(h, AfterFailure(h, retryable))
      PROVE  \E t \in Handler :
               Moves(h, t) /\ Same(h, t) /\ t.at = AfterFailure(h, retryable)
  <2>1. AfterFailure(h, retryable) \in At
    BY <1>1, AfterFailureEnds
  <2> QED BY <1>1, <1>6, <2>1, GoesMoves
<1>7. CASE RecordFailure(h)
  <2>1. PICK t \in Handler :
          Moves(h, t) /\ Same(h, t) /\ t.at = AfterFailure(h, h.retryable)
    BY <1>7, <1>6 DEF RecordFailure
  <2> QED BY <1>7, <2>1
<1>8. CASE StatementFails(h)
  <2>1. PICK t \in Handler :
          Moves(h, t) /\ Same(h, t) /\ t.at = AfterFailure(h, TRUE)
    BY <1>8, <1>6 DEF StatementFails
  <2> QED BY <1>8, <2>1
<1> QED BY <1>2, <1>3, <1>4, <1>5, <1>7, <1>8

-----------------------------------------------------------------------------
(* Types are kept. *)

LEMMA QueuedPostTyped ==
  ASSUME NEW post \in Post, NEW revision \in 0 .. MaxRevision
  PROVE  QueuedPost(post, revision) \in Post
BY DEF QueuedPost, Post

LEMMA ValidatedTyped ==
  ASSUME NEW invs \in [Invoices -> Invoice], NEW i \in Invoices
  PROVE  /\ Validated(invs, i) \in [Invoices -> Invoice]
         /\ \A k \in Invoices :
              LET new == Validated(invs, i)[k]
              IN /\ new.supplier = invs[k].supplier /\ new.number = invs[k].number
                 /\ new.refused = invs[k].refused /\ new.revision = invs[k].revision
                 /\ new.deleted = invs[k].deleted
                 /\ new.duplicate \in {invs[k].duplicate, Duplicate(invs, k)}
<1> DEFINE new(k) == [invs[k] EXCEPT !.duplicate = Duplicate(invs, k)]
<1>1. ASSUME NEW k \in Invoices
      PROVE  /\ Validated(invs, i)[k] \in {invs[k], new(k)}
             /\ new(k) \in Invoice /\ new(k).duplicate = Duplicate(invs, k)
             /\ new(k).supplier = invs[k].supplier /\ new(k).number = invs[k].number
             /\ new(k).refused = invs[k].refused /\ new(k).revision = invs[k].revision
             /\ new(k).deleted = invs[k].deleted
  <2>1. Duplicate(invs, k) \in BOOLEAN
    BY DEF Duplicate
  <2> HIDE DEF new
  <2>2. Validated(invs, i)[k] \in {invs[k], new(k)}
    BY DEF Validated, new
  <2>3. invs[k] \in Invoice
    OBVIOUS
  <2> QED BY <2>1, <2>2, <2>3 DEF new, Invoice
<1> HIDE DEF new
<1>2. Validated(invs, i) \in [Invoices -> Invoice]
  <2>1. Validated(invs, i) = [k \in Invoices |-> Validated(invs, i)[k]]
    BY DEF Validated
  <2> QED BY <1>1, <2>1
<1> QED BY <1>1, <1>2

LEMMA RequeueTyped ==
  ASSUME Typed, NEW i \in Invoices, NEW status, NEW revision \in 0 .. MaxRevision,
         Requeue(i, status, revision)
  PROVE  /\ posts' \in [Invoices -> Post]
         /\ outcome' \in [Jobs -> {"absent", "pending", "succeeded", "failed"}]
         /\ tries' \in [Jobs -> 0 .. MaxAttempts]
         /\ explicit' \in [Jobs -> BOOLEAN]
<1> DEFINE j == <<i, revision>>
<1>1. posts[i] \in Post /\ QueuedPost(posts[i], revision) \in Post
  BY QueuedPostTyped DEF Typed, PostingTypeOK
<1>2. posts' \in [Invoices -> Post]
  <2> DEFINE release == status = "needs_review" /\ posts[i].status = "needs_review"
             post == QueuedPost(posts[i], revision)
  <2>1. posts' = [posts EXCEPT ![i] = [post EXCEPT !.released = post.released \/ release]]
    BY DEF Requeue
  <2>2. ASSUME NEW r \in BOOLEAN PROVE [post EXCEPT !.released = r] \in Post
    BY <1>1 DEF Post
  <2>3. (post.released \/ release) \in BOOLEAN
    OBVIOUS
  <2> HIDE DEF release, post
  <2> QED BY <2>1, <2>2, <2>3 DEF Typed, PostingTypeOK
<1>3. /\ outcome' \in [Jobs -> {"absent", "pending", "succeeded", "failed"}]
      /\ tries' \in [Jobs -> 0 .. MaxAttempts]
  <2>1. CASE Queue!Restart(j) \/ Queue!Record(j)
    BY <2>1, PostingAssumption DEF Queue!Restart, Queue!Record, Typed, PostingTypeOK
  <2>2. CASE UNCHANGED <<outcome, tries>>
    BY <2>2 DEF Typed, PostingTypeOK
  <2> QED BY <2>1, <2>2 DEF Requeue
<1>4. explicit' \in [Jobs -> BOOLEAN]
  <2>1. explicit' = [explicit EXCEPT ![j] = @ \/ outcome[j] # "pending"]
    BY DEF Requeue
  <2> QED BY <2>1 DEF Typed, PostingTypeOK
<1> QED BY <1>2, <1>3, <1>4


\* Requests of people, the reconciler and the provider.
IntentStep ==
  \/ \E i \in Invoices : \/ Complete(i) \/ RetryDelivery(i) \/ AskRetry(i)
                         \/ DeleteInvoice(i) \/ FailStalled(i)
                         \/ \E n \in Numbers : Correct(i, n)
  \/ \E a \in asked : RetryPost(a)
  \/ SwitchConnection
  \/ \E k \in Numbers \cup Invoices : ForgetKey(k)

\* The steps that keep the handler going.
Handles(h) ==
  \/ Load(h) \/ ClaimPost(h) \/ ReadHolder(h) \/ FindBill(h) \/ CreateBill(h)
  \/ CancelPost(h) \/ AlreadyPosted(h) \/ MarkDuplicate(h) \/ BlockPost(h)
  \/ HoldForReview(h) \/ ReleaseClaim(h) \/ RecordFailure(h) \/ RecordSuccess(h)
  \/ StatementFails(h)

LEMMA StepCases ==
  ASSUME [Next]_vars
  PROVE  \/ IntentStep
         \/ \E j \in Jobs : Start(j) \/ Reap(j)
         \/ \E h \in handlers : Handles(h) \/ SettleJob(h) \/ Vanish(h)
         \/ UNCHANGED vars
BY DEF Next, HandlerStep, Handles, IntentStep

\* t has what the invoice and its post say.
Fresh(h, t) ==
  /\ t.at = IF invoices[Owner(h)].duplicate THEN "block" ELSE "claim"
  /\ t.number = invoices[Owner(h)].number
  /\ t.released = posts[Owner(h)].released
  /\ t.key = KeyOf(Owner(h))
  /\ posts[Owner(h)].bill = NoBill

\* How the handler h became t.
Leads(h, t) ==
  \/ Load(h) /\ \/ Same(h, t) /\ t.at \in {"cancel", "already"}
                \/ Fresh(h, t)
  \/ /\ Same(h, t)
     /\ \/ ClaimPost(h) /\ t.at = IF h.released THEN "find" ELSE "holder"
        \/ /\ ReadHolder(h)
           /\ \/ claims[h.number] = NoInvoice /\ t.at \in {"retrying", "failing"}
              \/ claims[h.number] = Owner(h) /\ t.at = "find"
              \/ /\ claims[h.number] \in Invoices \ {Owner(h)} /\ t.at = "mark"
                 /\ t.retryable <=>
                      \/ invoices[claims[h.number]].supplier # invoices[Owner(h)].supplier
                      \/ invoices[claims[h.number]].number # h.number
        \/ /\ FindBill(h)
           /\ \/ t.at = "record" /\ t.bill \in SameBills(h) /\ t.bill.key = h.key
              \/ /\ t.at = "release" /\ ~t.retryable
                 /\ \/ MayLoseAccess
                    \/ /\ SameBills(h) # {}
                       /\ \A b \in SameBills(h) : b.key # h.key
              \/ t.at = "create" /\ SameBills(h) = {}
              \/ t.at = "fail" /\ t.retryable
        \/ /\ CreateBill(h)
           /\ \/ /\ t.at = "record" /\ t.bill \in ledger' /\ t.bill \in MadeBills(h)
                 /\ ~invoices[Owner(h)].refused
              \/ t.at = "fail" /\ t.retryable
              \/ /\ t.at = "release" /\ ~t.retryable
                 /\ invoices[Owner(h)].refused \/ MayLoseAccess
        \/ /\ CancelPost(h) \/ AlreadyPosted(h) \/ BlockPost(h) \/ RecordSuccess(h)
           /\ t.at = "completing"
        \/ /\ MarkDuplicate(h) /\ t.at = IF h.retryable THEN "review" ELSE "block"
           /\ t.retryable = h.retryable
        \/ HoldForReview(h) /\ t.at = "failing"
        \/ ReleaseClaim(h) /\ t.at = "fail" /\ t.retryable = h.retryable
        \/ RecordFailure(h) /\ t.at = AfterFailure(h, h.retryable)
        \/ StatementFails(h) /\ t.at = AfterFailure(h, TRUE)

LEMMA HandlesLeads ==
  ASSUME Typed, NEW h \in handlers, Handles(h)
  PROVE  \E t \in Handler : Moves(h, t) /\ Leads(h, t) /\ t.job = h.job
<1> PostingTypeOK
  BY DEF Typed
<1>0. \A t : Same(h, t) => t.job = h.job
  BY DEF Same
<1>1. CASE Load(h)
  BY <1>1, LoadMoves DEF Fresh, Leads
<1>2. CASE ClaimPost(h)
  BY <1>0, <1>2, ClaimMoves DEF Leads
<1>3. CASE ReadHolder(h)
  <2>1. PICK t \in Handler :
           /\ Moves(h, t) /\ Same(h, t)
           /\ \/ claims[h.number] = NoInvoice /\ t.at \in {"retrying", "failing"}
              \/ claims[h.number] = Owner(h) /\ t.at = "find"
              \/ /\ claims[h.number] \in Invoices \ {Owner(h)} /\ t.at = "mark"
                 /\ t.retryable <=>
                      \/ invoices[claims[h.number]].supplier # invoices[Owner(h)].supplier
                      \/ invoices[claims[h.number]].number # h.number
    BY <1>3, HolderMoves
  <2> QED BY <1>0, <1>3, <2>1 DEF Leads
<1>4. CASE FindBill(h)
  <2>1. PICK t \in Handler :
           /\ Moves(h, t) /\ Same(h, t)
           /\ \/ t.at = "record" /\ t.bill \in SameBills(h) /\ t.bill.key = h.key
              \/ /\ t.at = "release" /\ ~t.retryable
                 /\ \/ MayLoseAccess
                    \/ /\ SameBills(h) # {}
                       /\ \A b \in SameBills(h) : b.key # h.key
              \/ t.at = "create" /\ SameBills(h) = {}
              \/ t.at = "fail" /\ t.retryable
    BY <1>4, FindMoves
  <2> QED BY <1>0, <1>4, <2>1 DEF Leads
<1>5. CASE CreateBill(h)
  <2>1. PICK t \in Handler :
           /\ Moves(h, t) /\ Same(h, t)
           /\ \/ \E b \in MadeBills(h) :
                   /\ ~invoices[Owner(h)].refused
                   /\ ledger' = ledger \cup {b}
                   /\ \/ t.at = "record" /\ t.bill = b
                      \/ t.at = "fail" /\ t.retryable
              \/ t.at = "fail" /\ t.retryable
              \/ /\ t.at = "release" /\ ~t.retryable
                 /\ invoices[Owner(h)].refused \/ MayLoseAccess
    BY <1>5, CreateMoves
  <2>2. \/ /\ t.at = "record" /\ t.bill \in ledger' /\ t.bill \in MadeBills(h)
           /\ ~invoices[Owner(h)].refused
        \/ t.at = "fail" /\ t.retryable
        \/ /\ t.at = "release" /\ ~t.retryable
           /\ invoices[Owner(h)].refused \/ MayLoseAccess
    BY <2>1
  <2> QED BY <1>0, <1>5, <2>1, <2>2 DEF Leads
<1>6. CASE \/ CancelPost(h) \/ AlreadyPosted(h) \/ MarkDuplicate(h) \/ BlockPost(h)
           \/ HoldForReview(h) \/ ReleaseClaim(h) \/ RecordFailure(h)
           \/ RecordSuccess(h) \/ StatementFails(h)
  BY <1>0, <1>6, WriteMoves DEF Leads
<1> QED BY <1>1, <1>2, <1>3, <1>4, <1>5, <1>6 DEF Handles

LEMMA LeadsLoaded ==
  ASSUME NEW h, NEW t, Leads(h, t)
  PROVE  \/ Same(h, t) /\ (Loaded(t) => Loaded(h))
         \/ Load(h) /\ Fresh(h, t)
<1>1. h.at \in {"claim", "holder", "find", "create", "mark", "review", "release",
                "fail", "block", "record"} => Loaded(h)
  BY DEF Loaded, Ends
<1>2. t.at \in {"cancel", "already"} \cup Ends => ~Loaded(t)
  BY DEF Loaded
<1>3. CASE StatementFails(h) /\ Same(h, t) /\ t.at = AfterFailure(h, TRUE)
  <2>1. t.at \in Ends
    BY <1>3, AfterFailureEnds DEF Ends
  <2> QED BY <1>2, <1>3, <2>1
<1>4. CASE Same(h, t) /\ t.at = "completing"
  BY <1>2, <1>4 DEF Ends
<1>5. CASE \/ ClaimPost(h) \/ ReadHolder(h) \/ FindBill(h) \/ CreateBill(h)
           \/ MarkDuplicate(h) \/ HoldForReview(h) \/ ReleaseClaim(h) \/ RecordFailure(h)
  <2>1. Loaded(h) /\ ~Load(h)
    BY <1>1, <1>5 DEF ClaimPost, ReadHolder, FindBill, CreateBill, MarkDuplicate,
       HoldForReview, ReleaseClaim, RecordFailure, Load
  <2> QED BY <2>1 DEF Leads
<1>6. CASE Load(h)
  BY <1>2, <1>3, <1>4, <1>5, <1>6 DEF Leads
<1> QED BY <1>3, <1>4, <1>5, <1>6 DEF Leads

LEMMA HandlesMoves ==
  ASSUME Typed, NEW h \in handlers, Handles(h)
  PROVE  \E t \in Handler :
           /\ Moves(h, t) /\ t.job = h.job
           /\ \/ Same(h, t) /\ (Loaded(t) => Loaded(h))
              \/ Load(h) /\ Fresh(h, t)
BY HandlesLeads, LeadsLoaded

\* Where a handler comes from.
LEMMA HandlersFrom ==
  ASSUME Typed, [Next]_vars, NEW t \in handlers'
  PROVE  \/ t \in handlers
         \/ \E j \in Jobs : /\ Start(j) /\ t.job = j /\ t.at = "load"
                            /\ t.number = invoices[j[1]].number /\ ~t.released
         \/ \E h \in handlers :
              /\ Handles(h) /\ Moves(h, t) /\ t.job = h.job
              /\ \/ Same(h, t) /\ (Loaded(t) => Loaded(h))
                 \/ Load(h) /\ Fresh(h, t)
<1>1. CASE IntentStep
  BY <1>1 DEF IntentStep, Complete, RetryDelivery, AskRetry, DeleteInvoice, FailStalled,
              Correct, RetryPost, SwitchConnection, ForgetKey, Requeue
<1>2. ASSUME NEW j \in Jobs, Start(j), t \notin handlers
      PROVE  /\ t.job = j /\ t.at = "load"
             /\ t.number = invoices[j[1]].number /\ ~t.released
  BY <1>2 DEF Start
<1>3. CASE \E h \in handlers : Handles(h)
  <2> PICK h \in handlers : Handles(h)
    BY <1>3
  <2>1. PICK u \in Handler :
          /\ Moves(h, u) /\ u.job = h.job
          /\ \/ Same(h, u) /\ (Loaded(u) => Loaded(h))
             \/ Load(h) /\ Fresh(h, u)
    BY HandlesMoves DEF Typed
  <2>2. t \in handlers \/ t = u
    BY <2>1 DEF Moves
  <2> QED BY <2>1, <2>2
<1>4. CASE \/ \E j \in Jobs : Reap(j)
           \/ \E h \in handlers : SettleJob(h) \/ Vanish(h)
           \/ UNCHANGED vars
  BY <1>4 DEF Reap, SettleJob, Vanish, vars
<1> QED BY <1>1, <1>2, <1>3, <1>4, StepCases

\* A handler that was not there begins, or goes on from another step.
LEMMA LedFrom ==
  ASSUME Typed, [Next]_vars, NEW t \in handlers', t \notin handlers
  PROVE  \/ t.at = "load"
         \/ \E h \in handlers : Moves(h, t) /\ Leads(h, t) /\ t.job = h.job
<1>1. ASSUME NEW h \in handlers, Handles(h)
      PROVE  Moves(h, t) /\ Leads(h, t) /\ t.job = h.job
  <2>1. PICK u \in Handler : Moves(h, u) /\ Leads(h, u) /\ u.job = h.job
    BY <1>1, HandlesLeads
  <2> QED BY <2>1 DEF Moves
<1> QED BY <1>1, HandlersFrom

LEMMA HandlesKeys ==
  ASSUME Typed, NEW h \in handlers, Handles(h)
  PROVE  handlers' \in SUBSET Handler /\ KeysAreLoaded'
<1> PostingTypeOK /\ KeysAreLoaded
  BY DEF Typed
<1>1. PICK t \in Handler :
        /\ Moves(h, t)
        /\ \/ Same(h, t) /\ (Loaded(t) => Loaded(h))
           \/ Load(h) /\ Fresh(h, t)
  BY HandlesMoves
<1>2. Owner(h) \in Invoices
  BY HandlerTyped
<1>3. Loaded(t) => t.key # NoKey
  BY <1>1, <1>2, KeyOfTyped DEF KeysAreLoaded, Same, Fresh
<1> QED BY <1>1, <1>3 DEF PostingTypeOK, KeysAreLoaded, Moves, Loaded

LEMMA FailedPostTyped ==
  ASSUME Typed, NEW h \in handlers, NEW retryable \in BOOLEAN,
         NEW status \in {"queued", "failed", "needs_review"}
  PROVE  FailedPost(h, status, retryable) \in [Invoices -> Post]
<1>1. h.job[1] \in Invoices /\ h.key \in Numbers \cup Invoices \cup {NoKey}
  BY HandlerTyped DEF Typed, Owner
<1>2. posts \in [Invoices -> Post] /\ posts[h.job[1]] \in Post
  BY <1>1 DEF Typed, PostingTypeOK
<1>3. [posts[h.job[1]] EXCEPT !.status = status, !.retryable = retryable,
                              !.key = h.key] \in Post
  BY <1>1, <1>2 DEF Post
<1> QED BY <1>2, <1>3 DEF FailedPost

LEMMA HandlesTyped ==
  ASSUME Typed, NEW h \in handlers, Handles(h)
  PROVE  Typed'
<1> PostingTypeOK
  BY DEF Typed
<1> DEFINE i == h.job[1]
<1>0. /\ handlers' \in SUBSET Handler /\ KeysAreLoaded'
      /\ i \in Invoices /\ posts[i] \in Post /\ h \in Handler
      /\ h.key \in Numbers \cup Invoices \cup {NoKey}
  BY HandlesKeys, HandlerTyped DEF Owner
<1> SUFFICES /\ invoices' \in [Invoices -> Invoice]
             /\ posts' \in [Invoices -> Post]
             /\ claims' \in [Numbers -> Invoices \cup {NoInvoice}]
             /\ ledger' \in SUBSET Bill
             /\ remembered' \in SUBSET (Numbers \cup Invoices)
             /\ UNCHANGED <<connection, outcome, tries, explicit, asked, retries, exits>>
  BY <1>0 DEF Typed, PostingTypeOK
<1> USE DEF jobVars, worldVars, boundVars
<1>1. CASE Load(h) \/ ReadHolder(h) \/ FindBill(h) \/ StatementFails(h)
  BY <1>1 DEF Load, ReadHolder, FindBill, StatementFails, PostingTypeOK
<1>2. CASE ClaimPost(h)
  BY <1>0, <1>2 DEF ClaimPost, Claimed, PostingTypeOK
<1>3. CASE CreateBill(h)
  <2>1. h.at = "create" /\ MadeBills(h) \subseteq Bill
    BY <1>3, CreatesBill DEF CreateBill
  <2>2. \/ ledger' = ledger /\ remembered' = remembered
        \/ \E b \in MadeBills(h) :
             ledger' = ledger \cup {b} /\ remembered' = remembered \cup {b.key}
    BY <1>3 DEF CreateBill
  <2>3. \A b \in Bill : b.key \in Numbers \cup Invoices
    BY DEF Bill
  <2> QED BY <1>3, <2>1, <2>2, <2>3 DEF CreateBill, PostingTypeOK
<1>4. CASE CancelPost(h)
  <2>1. posts' = CancelledPost(h)
    BY <1>4 DEF CancelPost
  <2>2. [posts[i] EXCEPT !.status = "cancelled", !.retryable = h.retryable] \in Post
    BY <1>0 DEF Post, Handler
  <2>3. posts' \in [Invoices -> Post]
    BY <2>1, <2>2 DEF CancelledPost, PostingTypeOK
  <2> QED BY <1>4, <2>3 DEF CancelPost, PostingTypeOK
<1>5. CASE AlreadyPosted(h)
  <2>1. [posts[i] EXCEPT !.status = "already_posted"] \in Post
    BY <1>0 DEF Post
  <2> QED BY <1>5, <2>1 DEF AlreadyPosted, PostingTypeOK
<1>6. CASE MarkDuplicate(h)
  <2>1. invoices[i] \in Invoice
    BY <1>0 DEF PostingTypeOK
  <2>2. [invoices[i] EXCEPT !.duplicate = ~h.retryable] \in Invoice
    BY <2>1 DEF Invoice
  <2> QED BY <1>6, <2>2 DEF MarkDuplicate, PostingTypeOK
<1>7. CASE BlockPost(h) \/ HoldForReview(h)
  BY <1>7, FailedPostTyped DEF BlockPost, HoldForReview, PostingTypeOK
<1>8. CASE RecordFailure(h)
  <2> DEFINE final == ~h.retryable \/ h.attempt >= MaxAttempts
             status == IF final THEN "failed" ELSE "queued"
             retryable == final /\ h.retryable
  <2>1. posts' = FailedPost(h, status, retryable)
    BY <1>8 DEF RecordFailure
  <2>2. status \in {"queued", "failed", "needs_review"} /\ retryable \in BOOLEAN
    OBVIOUS
  <2>3. posts' \in [Invoices -> Post]
    <3> HIDE DEF status, retryable
    <3> QED BY <2>1, <2>2, FailedPostTyped
  <2> QED BY <1>8, <2>3 DEF RecordFailure, PostingTypeOK
<1>9. CASE RecordSuccess(h)
  <2>1. [posts[i] EXCEPT !.status = "posted", !.bill = h.bill, !.key = h.key,
                         !.retryable = FALSE] \in Post
    BY <1>0 DEF Post, Handler
  <2>2. posts' \in [Invoices -> Post]
    BY <1>9, <2>1 DEF RecordSuccess, PostingTypeOK
  <2> QED BY <1>9, <2>2 DEF RecordSuccess, PostingTypeOK
<1>10. CASE ReleaseClaim(h)
  BY <1>0, <1>10 DEF ReleaseClaim, Released, PostingTypeOK
<1> QED BY <1>1, <1>2, <1>3, <1>4, <1>5, <1>6, <1>7, <1>8, <1>9, <1>10 DEF Handles

LEMMA IntentTyped ==
  ASSUME Typed, IntentStep
  PROVE  Typed'
<1> USE DEF jobVars, worldVars, boundVars
<1>0. /\ invoices \in [Invoices -> Invoice] /\ posts \in [Invoices -> Post]
      /\ outcome \in [Jobs -> {"absent", "pending", "succeeded", "failed"}]
      /\ tries \in [Jobs -> 0 .. MaxAttempts]
      /\ \A i \in Invoices : invoices[i] \in Invoice /\ posts[i] \in Post
  BY DEF Typed, PostingTypeOK
<1>1. ASSUME NEW i \in Invoices, NEW r \in 1 .. MaxRevision, Queue!Record(<<i, r>>)
      PROVE  /\ outcome' \in [Jobs -> {"absent", "pending", "succeeded", "failed"}]
             /\ tries' \in [Jobs -> 0 .. MaxAttempts]
  <2> DEFINE j == <<i, r>>
  <2>1. /\ outcome' = [outcome EXCEPT ![j] = "pending"]
        /\ tries' = [tries EXCEPT ![j] = 0]
    BY <1>1 DEF Queue!Record
  <2>2. 0 \in 0 .. MaxAttempts
    BY PostingAssumption
  <2> HIDE DEF j
  <2> QED BY <1>0, <2>1, <2>2
<1>2. ASSUME UNCHANGED <<claims, explicit, handlers, worldVars, boundVars>>,
             /\ invoices' \in [Invoices -> Invoice] /\ posts' \in [Invoices -> Post]
             /\ outcome' \in [Jobs -> {"absent", "pending", "succeeded", "failed"}]
             /\ tries' \in [Jobs -> 0 .. MaxAttempts]
      PROVE  Typed'
  BY <1>2 DEF Typed, PostingTypeOK, KeysAreLoaded, Loaded
<1>3. ASSUME NEW i \in Invoices, Complete(i)
      PROVE  Typed'
  <2> DEFINE invs == [invoices EXCEPT ![i].revision = 1]
  <2>1. 1 \in 1 .. MaxRevision /\ 1 \in 0 .. MaxRevision
    BY PostingAssumption
  <2>2. [invoices[i] EXCEPT !.revision = 1] \in Invoice
    BY <1>0, <2>1 DEF Invoice
  <2>3. invs \in [Invoices -> Invoice]
    BY <1>0, <2>2
  <2>4. invoices' \in [Invoices -> Invoice]
    BY <1>3, <2>3, ValidatedTyped DEF Complete
  <2>5. QueuedPost(posts[i], 1) \in Post
    BY <1>0, <2>1, QueuedPostTyped
  <2>6. posts' \in [Invoices -> Post]
    BY <1>0, <1>3, <2>5 DEF Complete
  <2>7. /\ outcome' \in [Jobs -> {"absent", "pending", "succeeded", "failed"}]
        /\ tries' \in [Jobs -> 0 .. MaxAttempts]
    BY <1>0, <1>1, <1>3, <2>1 DEF Complete
  <2> QED BY <1>2, <1>3, <2>4, <2>6, <2>7 DEF Complete
<1>4. ASSUME NEW i \in Invoices, NEW n \in Numbers, Correct(i, n)
      PROVE  Typed'
  <2> DEFINE revision == invoices[i].revision + 1
             renewed == Renewed(posts[i])
  <2>1. revision \in 1 .. MaxRevision /\ revision \in 0 .. MaxRevision
    BY <1>0, <1>4, PostingAssumption DEF Correct, Invoice
  <2> HIDE DEF revision
  <2>2. ASSUME NEW refused \in BOOLEAN
        PROVE  Validated([invoices EXCEPT ![i].number = n, ![i].refused = refused,
                                          ![i].revision = revision], i)
                 \in [Invoices -> Invoice]
    <3> DEFINE invs == [invoices EXCEPT ![i].number = n, ![i].refused = refused,
                                        ![i].revision = revision]
               inv == [invoices[i] EXCEPT !.number = n, !.refused = refused,
                                          !.revision = revision]
    <3>1. inv \in Invoice
      BY <1>0, <2>1 DEF Invoice
    <3>2. invs = [invoices EXCEPT ![i] = inv]
      BY <1>0 DEF Invoice
    <3>3. invs \in [Invoices -> Invoice]
      BY <1>0, <3>1, <3>2
    <3> QED BY <3>3, ValidatedTyped
  <2>3. invoices' \in [Invoices -> Invoice]
    <3>1. {FALSE, invoices[i].refused} \subseteq BOOLEAN
      BY <1>0 DEF Invoice
    <3> QED BY <1>4, <2>2, <3>1 DEF Correct, revision
  <2>4. renewed \in Post
    BY <1>0 DEF Renewed, Post
  <2>5. QueuedPost(renewed, revision) \in Post
    BY <2>1, <2>4, QueuedPostTyped
  <2>6. posts' \in [Invoices -> Post]
    BY <1>0, <1>4, <2>4, <2>5 DEF Correct, revision
  <2>7. /\ outcome' \in [Jobs -> {"absent", "pending", "succeeded", "failed"}]
        /\ tries' \in [Jobs -> 0 .. MaxAttempts]
    BY <1>0, <1>1, <1>4, <2>1 DEF Correct, revision
  <2> QED BY <1>2, <1>4, <2>3, <2>6, <2>7 DEF Correct
<1>5. ASSUME NEW i \in Invoices, RetryDelivery(i)
      PROVE  Typed'
  <2>1. posts[i].revision \in 0 .. MaxRevision
    BY <1>0 DEF Post
  <2>2. retries' \in 0 .. MaxRetries
    BY <1>5, PostingAssumption DEF RetryDelivery, Typed, PostingTypeOK
  <2>3. /\ posts' \in [Invoices -> Post]
        /\ outcome' \in [Jobs -> {"absent", "pending", "succeeded", "failed"}]
        /\ tries' \in [Jobs -> 0 .. MaxAttempts]
        /\ explicit' \in [Jobs -> BOOLEAN]
    BY <1>5, <2>1, RequeueTyped DEF RetryDelivery
  <2> QED BY <1>5, <2>2, <2>3
          DEF RetryDelivery, Requeue, Typed, PostingTypeOK, KeysAreLoaded, Loaded
<1>6. ASSUME NEW a \in asked, RetryPost(a)
      PROVE  Typed'
  <2>1. a.invoice \in Invoices /\ a.revision \in 0 .. MaxRevision
    BY PostingAssumption DEF Typed, PostingTypeOK
  <2>2. /\ posts' \in [Invoices -> Post]
        /\ outcome' \in [Jobs -> {"absent", "pending", "succeeded", "failed"}]
        /\ tries' \in [Jobs -> 0 .. MaxAttempts]
        /\ explicit' \in [Jobs -> BOOLEAN]
    BY <1>6, <2>1, RequeueTyped DEF RetryPost
  <2> QED BY <1>6, <2>2
          DEF RetryPost, Requeue, Typed, PostingTypeOK, KeysAreLoaded, Loaded
<1>7. ASSUME NEW i \in Invoices, AskRetry(i)
      PROVE  Typed'
  <2>1. retries' \in 0 .. MaxRetries
    BY <1>7, PostingAssumption DEF AskRetry, Typed, PostingTypeOK
  <2> DEFINE status == IF posts[i].status = "none" THEN "failed" ELSE posts[i].status
             revision == IF posts[i].revision = 0 THEN invoices[i].revision
                         ELSE posts[i].revision
  <2>2. status \in {"failed", "needs_review", "cancelled"}
    BY <1>7 DEF AskRetry, Retryable
  <2>3. revision \in 1 .. MaxRevision
    BY <1>0, <1>7, PostingAssumption DEF AskRetry, Live, Post, Invoice
  <2>4. asked' = asked \cup {[invoice |-> i, status |-> status, revision |-> revision]}
    BY <1>7 DEF AskRetry
  <2>5. asked' \in SUBSET [invoice : Invoices, revision : 1 .. MaxRevision,
                           status : {"failed", "needs_review", "cancelled"}]
    <3> HIDE DEF status, revision
    <3> QED BY <2>2, <2>3, <2>4 DEF Typed, PostingTypeOK
  <2> QED BY <1>7, <2>1, <2>5 DEF AskRetry, Typed, PostingTypeOK, KeysAreLoaded, Loaded
<1>8. ASSUME NEW i \in Invoices, DeleteInvoice(i) \/ FailStalled(i)
      PROVE  Typed'
  <2>1. [invoices[i] EXCEPT !.deleted = TRUE] \in Invoice
    BY <1>0 DEF Invoice
  <2>2. CASE DeleteInvoice(i)
    BY <1>0, <1>2, <2>1, <2>2 DEF DeleteInvoice
  <2>3. CASE FailStalled(i)
    <3>1. [posts[i] EXCEPT !.status = "failed", !.retryable = TRUE] \in Post
      BY <1>0 DEF Post
    <3>2. posts' = [posts EXCEPT ![i] = [posts[i] EXCEPT !.status = "failed",
                                                         !.retryable = TRUE]]
      BY <1>0, <2>3 DEF FailStalled, Post
    <3>3. posts' \in [Invoices -> Post]
      BY <1>0, <3>1, <3>2
    <3> QED BY <1>0, <1>2, <2>3, <3>3 DEF FailStalled
  <2> QED BY <1>8, <2>2, <2>3
<1>9. ASSUME SwitchConnection \/ \E k \in Numbers \cup Invoices : ForgetKey(k)
      PROVE  Typed'
  BY <1>9 DEF SwitchConnection, ForgetKey, Typed, PostingTypeOK, KeysAreLoaded, Loaded
<1> QED BY <1>3, <1>4, <1>5, <1>6, <1>7, <1>8, <1>9 DEF IntentStep

\* A handler begins, ends or is gone.
LEMMA JobTyped ==
  ASSUME Typed,
         \/ \E j \in Jobs : Start(j) \/ Reap(j)
         \/ \E h \in handlers : SettleJob(h) \/ Vanish(h)
  PROVE  Typed'
<1> USE DEF jobVars, worldVars, boundVars
<1>0. /\ outcome \in [Jobs -> {"absent", "pending", "succeeded", "failed"}]
      /\ tries \in [Jobs -> 0 .. MaxAttempts] /\ handlers \in SUBSET Handler
      /\ \A h \in handlers : h.job \in Jobs
  BY HandlerTyped DEF Typed, PostingTypeOK
<1>1. ASSUME NEW j \in Jobs, Start(j)
      PROVE  Typed'
  <2> DEFINE slot == IF \E h \in HandlersOf(j) : h.slot = 1 THEN 2 ELSE 1
             t == [job |-> j, slot |-> slot, attempt |-> tries[j] + 1, at |-> "load",
                   number |-> invoices[j[1]].number, released |-> FALSE, key |-> NoKey,
                   retryable |-> FALSE, bill |-> NoBill]
  <2>1. tries[j] + 1 \in 1 .. MaxAttempts /\ j[1] \in Invoices
    BY <1>0, <1>1, PostingAssumption DEF Start, Queue!Try, Jobs
  <2>2. invoices[j[1]].number \in Numbers /\ slot \in {1, 2}
    BY <2>1 DEF Typed, PostingTypeOK, Invoice
  <2>3. t \in Handler /\ ~Loaded(t)
    <3> HIDE DEF slot
    <3> QED BY <2>1, <2>2 DEF Handler, Loaded
  <2>4. handlers' = handlers \cup {t}
    BY <1>1 DEF Start
  <2>5. tries' \in [Jobs -> 0 .. MaxAttempts]
    BY <1>0, <1>1, <2>1, PostingAssumption DEF Start, Queue!Try
  <2>6. outcome' \in [Jobs -> {"absent", "pending", "succeeded", "failed"}]
    BY <1>0, <1>1 DEF Start, Queue!GiveUp
  <2> HIDE DEF t
  <2>7. KeysAreLoaded'
    BY <2>3, <2>4 DEF Typed, KeysAreLoaded, Loaded
  <2> QED BY <1>0, <1>1, <2>3, <2>4, <2>5, <2>6, <2>7 DEF Start, Typed, PostingTypeOK
<1>2. ASSUME NEW j \in Jobs, Reap(j)
      PROVE  Typed'
  <2>1. /\ outcome' \in [Jobs -> {"absent", "pending", "succeeded", "failed"}]
        /\ tries' \in [Jobs -> 0 .. MaxAttempts]
    BY <1>0, <1>2 DEF Reap, Queue!GiveUp, Queue!Try
  <2> QED BY <1>2, <2>1 DEF Reap, Typed, PostingTypeOK, KeysAreLoaded, Loaded
<1>3. ASSUME NEW h \in handlers, SettleJob(h)
      PROVE  Typed'
  <2>1. /\ outcome' \in [Jobs -> {"absent", "pending", "succeeded", "failed"}]
        /\ tries' \in [Jobs -> 0 .. MaxAttempts]
    BY <1>0, <1>3 DEF SettleJob, Queue!Succeed, Queue!Fail
  <2> QED BY <1>3, <2>1 DEF SettleJob, Typed, PostingTypeOK, KeysAreLoaded, Loaded
<1>4. ASSUME NEW h \in handlers, Vanish(h)
      PROVE  Typed'
  <2>1. /\ outcome' \in [Jobs -> {"absent", "pending", "succeeded", "failed"}]
        /\ tries' \in [Jobs -> 0 .. MaxAttempts]
    <3>1. CASE UNCHANGED <<outcome, tries>>
      BY <1>0, <3>1
    <3>2. CASE Queue!HandBack(h.job)
      <4>1. tries[h.job] \in 0 .. MaxAttempts /\ tries[h.job] > 0
        BY <1>0, <3>2 DEF Queue!HandBack
      <4>2. tries[h.job] - 1 \in 0 .. MaxAttempts
        BY <4>1, PostingAssumption
      <4> QED BY <1>0, <3>2, <4>2 DEF Queue!HandBack
    <3> QED BY <1>4, <3>1, <3>2 DEF Vanish
  <2>2. exits' \in 0 .. MaxExits
    BY <1>4, PostingAssumption DEF Vanish, Typed, PostingTypeOK
  <2> QED BY <1>4, <2>1, <2>2 DEF Vanish, Typed, PostingTypeOK, KeysAreLoaded, Loaded
<1> QED BY <1>1, <1>2, <1>3, <1>4

LEMMA StepTyped ==
  ASSUME Typed, [Next]_vars
  PROVE  Typed'
<1>1. CASE UNCHANGED vars
  BY <1>1 DEF vars, jobVars, worldVars, boundVars, Typed, PostingTypeOK,
              KeysAreLoaded, Loaded
<1> QED BY <1>1, StepCases, IntentTyped, JobTyped, HandlesTyped

LEMMA InitTyped == Init => Typed
<1> SUFFICES ASSUME Init PROVE Typed
  OBVIOUS
<1>1. invoices \in [Invoices -> Invoice] /\ 0 \in 0 .. MaxRevision
  <2>1. 0 \in 0 .. MaxRevision
    BY PostingAssumption
  <2> QED BY <2>1 DEF Init, Invoice
<1>2. posts \in [Invoices -> Post]
  BY <1>1 DEF Init, Post
<1>3. 0 \in 0 .. MaxAttempts /\ 0 \in 0 .. MaxRetries /\ 0 \in 0 .. MaxExits
  BY PostingAssumption
<1> QED BY <1>1, <1>2, <1>3 DEF Init, Queue!Init, Typed, PostingTypeOK, KeysAreLoaded

\* Every write of handlers, people and the reconciler leaves invoices, posts, claims,
\* jobs and the provider's ledger as the schema has them, corrections included.
THEOREM PostingIsTyped == Spec => []PostingTypeOK
<1>1. Typed => PostingTypeOK
  BY DEF Typed
<1> QED BY <1>1, InitTyped, StepTyped, PTL DEF Spec

-----------------------------------------------------------------------------
(* What the steps leave alone. *)

LEMMA LedgerFrame ==
  ASSUME [Next]_vars
  PROVE  \/ ledger' = ledger
         \/ \E h \in handlers : CreateBill(h)
BY DEF Next, vars, worldVars, Complete, RetryDelivery, AskRetry, DeleteInvoice,
       FailStalled, Correct, RetryPost, SwitchConnection, ForgetKey, Requeue, Start,
       Reap, Vanish, HandlerStep, Load, ClaimPost, ReadHolder, FindBill, CancelPost,
       AlreadyPosted, MarkDuplicate, BlockPost, HoldForReview, ReleaseClaim,
       RecordFailure, RecordSuccess, StatementFails, SettleJob

LEMMA ClaimsFrame ==
  ASSUME [Next]_vars
  PROVE  \/ claims' = claims
         \/ \E h \in handlers : ClaimPost(h) \/ ReleaseClaim(h)
BY DEF Next, vars, Complete, RetryDelivery, AskRetry, DeleteInvoice,
       FailStalled, Correct, RetryPost, SwitchConnection, ForgetKey, Requeue, Start,
       Reap, Vanish, HandlerStep, Load, CreateBill, ReadHolder, FindBill, CancelPost,
       AlreadyPosted, MarkDuplicate, BlockPost, HoldForReview,
       RecordFailure, RecordSuccess, StatementFails, SettleJob

LEMMA InvoicesFrame ==
  ASSUME [Next]_vars
  PROVE  \/ invoices' = invoices
         \/ \E h \in handlers : MarkDuplicate(h)
         \/ \E i \in Invoices : \/ Complete(i) \/ DeleteInvoice(i)
                                \/ \E n \in Numbers : Correct(i, n)
BY DEF Next, vars, RetryDelivery, AskRetry,
       FailStalled, RetryPost, SwitchConnection, ForgetKey, Requeue, Start,
       Reap, Vanish, HandlerStep, Load, ClaimPost, CreateBill, ReadHolder, FindBill,
       CancelPost, AlreadyPosted, BlockPost, HoldForReview, ReleaseClaim,
       RecordFailure, RecordSuccess, StatementFails, SettleJob

LEMMA PostsFrame ==
  ASSUME [Next]_vars
  PROVE  \/ posts' = posts
         \/ \E h \in handlers : \/ CancelPost(h) \/ AlreadyPosted(h) \/ BlockPost(h)
                                \/ HoldForReview(h) \/ RecordFailure(h)
                                \/ RecordSuccess(h)
         \/ \E i \in Invoices : \/ Complete(i) \/ FailStalled(i) \/ RetryDelivery(i)
                                \/ \E n \in Numbers : Correct(i, n)
         \/ \E a \in asked : RetryPost(a)
BY DEF Next, vars, AskRetry, DeleteInvoice,
       SwitchConnection, ForgetKey, Start, Reap, Vanish, HandlerStep, Load, ClaimPost,
       CreateBill, ReadHolder, FindBill, MarkDuplicate, ReleaseClaim,
       StatementFails, SettleJob

-----------------------------------------------------------------------------
(* What the steps write on a post. *)

\* The outcome h records is final, if not the bill.
FailsPost(h, post, new) ==
  /\ post.bill = NoBill
  /\ new.bill = post.bill /\ new.key = h.key
  /\ new.released = post.released /\ new.revision = post.revision
  /\ \/ BlockPost(h) /\ new.status = "failed" /\ ~new.retryable
     \/ HoldForReview(h) /\ new.status = "needs_review"
     \/ /\ RecordFailure(h)
        /\ IF ~h.retryable \/ h.attempt >= MaxAttempts
           THEN new.status = "failed" /\ (new.retryable <=> h.retryable)
           ELSE new.status = "queued"

SamePost(post, new) ==
  /\ new.bill = post.bill /\ new.key = post.key
  /\ new.released = post.released /\ new.revision = post.revision

\* What the handler h writes on the post of its invoice.
WritesPost(h, post, new) ==
  \/ CancelPost(h) /\ SamePost(post, new) /\ post.status = "queued" /\ new.status = "cancelled"
  \/ AlreadyPosted(h) /\ SamePost(post, new) /\ new.status = "already_posted"
  \/ FailsPost(h, post, new)
  \/ /\ RecordSuccess(h)
     /\ new.status = "posted" /\ new.bill = h.bill /\ new.key = h.key
     /\ new.released = post.released /\ new.revision = post.revision

LEMMA FailedPostFields ==
  ASSUME PostingTypeOK, NEW h \in handlers, NEW status, NEW retryable,
         posts' = FailedPost(h, status, retryable)
  PROVE  /\ \A k \in Invoices \ {Owner(h)} : posts'[k] = posts[k]
         /\ \/ posts' = posts
            \/ /\ posts[Owner(h)].bill = NoBill
               /\ posts'[Owner(h)].bill = posts[Owner(h)].bill
               /\ posts'[Owner(h)].key = h.key
               /\ posts'[Owner(h)].released = posts[Owner(h)].released
               /\ posts'[Owner(h)].revision = posts[Owner(h)].revision
               /\ posts'[Owner(h)].status = status
               /\ posts'[Owner(h)].retryable = retryable
<1>1. h.job[1] = Owner(h) /\ Owner(h) \in Invoices /\ posts[Owner(h)] \in Post
      /\ posts \in [Invoices -> Post]
  BY HandlerTyped DEF Owner, PostingTypeOK
<1>2. CASE posts[Owner(h)].bill # NoBill
  BY <1>1, <1>2 DEF FailedPost
<1>3. CASE posts[Owner(h)].bill = NoBill
  <2> DEFINE new == [posts[Owner(h)] EXCEPT !.status = status, !.retryable = retryable,
                                            !.key = h.key]
  <2>1. posts' = [posts EXCEPT ![Owner(h)] = new]
    BY <1>1, <1>3 DEF FailedPost
  <2>2. /\ new.bill = posts[Owner(h)].bill /\ new.key = h.key
        /\ new.released = posts[Owner(h)].released
        /\ new.revision = posts[Owner(h)].revision
        /\ new.status = status /\ new.retryable = retryable
    BY <1>1 DEF Post
  <2> HIDE DEF new
  <2> QED BY <1>1, <1>3, <2>1, <2>2
<1> QED BY <1>2, <1>3

LEMMA HandlerWrites ==
  ASSUME PostingTypeOK, NEW h \in handlers,
         \/ CancelPost(h) \/ AlreadyPosted(h) \/ BlockPost(h)
         \/ HoldForReview(h) \/ RecordFailure(h) \/ RecordSuccess(h)
  PROVE  /\ \A k \in Invoices \ {Owner(h)} : posts'[k] = posts[k]
         /\ \/ posts'[Owner(h)] = posts[Owner(h)] /\ ~RecordSuccess(h)
            \/ WritesPost(h, posts[Owner(h)], posts'[Owner(h)])
<1> DEFINE i == Owner(h)
<1>1. /\ h.job[1] = i /\ i \in Invoices /\ posts[i] \in Post
      /\ posts \in [Invoices -> Post] /\ h.retryable \in BOOLEAN
  BY HandlerTyped DEF Owner, PostingTypeOK
<1> HIDE DEF i
<1>2. CASE CancelPost(h)
  <2> DEFINE new == [posts[i] EXCEPT !.status = "cancelled", !.retryable = h.retryable]
  <2>1. \/ posts' = posts
        \/ posts[i].status = "queued" /\ posts' = [posts EXCEPT ![i] = new]
    BY <1>1, <1>2 DEF CancelPost, CancelledPost
  <2>2. new.status = "cancelled" /\ SamePost(posts[i], new)
    BY <1>1 DEF Post, SamePost
  <2>3. ~RecordSuccess(h)
    BY <1>2 DEF CancelPost, RecordSuccess
  <2> HIDE DEF new
  <2> QED BY <1>1, <1>2, <2>1, <2>2, <2>3 DEF i, WritesPost
<1>3. CASE AlreadyPosted(h)
  <2> DEFINE new == [posts[i] EXCEPT !.status = "already_posted"]
  <2>1. posts' = [posts EXCEPT ![i] = new]
    BY <1>1, <1>3 DEF AlreadyPosted
  <2>2. new.status = "already_posted" /\ SamePost(posts[i], new)
    BY <1>1 DEF Post, SamePost
  <2> HIDE DEF new
  <2> QED BY <1>1, <1>3, <2>1, <2>2 DEF i, WritesPost
<1>4. CASE RecordSuccess(h)
  <2> DEFINE new == [posts[i] EXCEPT !.status = "posted", !.bill = h.bill,
                                     !.key = h.key, !.retryable = FALSE]
  <2>1. posts' = [posts EXCEPT ![i] = new]
    BY <1>1, <1>4 DEF RecordSuccess
  <2>2. /\ new.status = "posted" /\ new.bill = h.bill /\ new.key = h.key
        /\ new.released = posts[i].released /\ new.revision = posts[i].revision
    BY <1>1 DEF Post
  <2> HIDE DEF new
  <2> QED BY <1>1, <1>4, <2>1, <2>2 DEF i, WritesPost
<1>5. CASE BlockPost(h)
  <2>1. posts' = FailedPost(h, "failed", FALSE) /\ ~RecordSuccess(h)
    BY <1>5 DEF BlockPost, RecordSuccess
  <2> QED BY <1>1, <1>5, <2>1, FailedPostFields DEF i, WritesPost, FailsPost
<1>6. CASE HoldForReview(h)
  <2>1. posts' = FailedPost(h, "needs_review", TRUE) /\ ~RecordSuccess(h)
    BY <1>6 DEF HoldForReview, RecordSuccess
  <2> QED BY <1>1, <1>6, <2>1, FailedPostFields DEF i, WritesPost, FailsPost
<1>7. CASE RecordFailure(h)
  <2> DEFINE final == ~h.retryable \/ h.attempt >= MaxAttempts
             status == IF final THEN "failed" ELSE "queued"
             retryable == final /\ h.retryable
  <2>1. posts' = FailedPost(h, status, retryable) /\ ~RecordSuccess(h)
    BY <1>7 DEF RecordFailure, RecordSuccess
  <2>2. final => status = "failed" /\ (retryable <=> h.retryable)
    OBVIOUS
  <2>3. ~final => status = "queued"
    OBVIOUS
  <2> HIDE DEF status, retryable
  <2>4. /\ \A k \in Invoices \ {i} : posts'[k] = posts[k]
        /\ \/ posts' = posts
           \/ /\ posts[i].bill = NoBill
              /\ posts'[i].bill = posts[i].bill
              /\ posts'[i].key = h.key
              /\ posts'[i].released = posts[i].released
              /\ posts'[i].revision = posts[i].revision
              /\ posts'[i].status = status
              /\ posts'[i].retryable = retryable
    BY <2>1, FailedPostFields DEF i
  <2> QED BY <1>1, <1>7, <2>1, <2>2, <2>3, <2>4 DEF i, WritesPost, FailsPost
<1> QED BY <1>2, <1>3, <1>4, <1>5, <1>6, <1>7

\* A post without a bill is queued, for a revision; a retry may release it.
Queues(post, new) ==
  /\ post.bill = NoBill
  /\ new.bill = post.bill /\ new.key = post.key /\ new.status = "queued"
  /\ post.released => new.released

LEMMA RequeueFields ==
  ASSUME PostingTypeOK, NEW i \in Invoices, NEW status, NEW revision,
         Requeue(i, status, revision)
  PROVE  /\ \A k \in Invoices \ {i} : posts'[k] = posts[k]
         /\ \/ Queues(posts[i], posts'[i])
            \/ /\ posts'[i].bill = posts[i].bill /\ posts'[i].key = posts[i].key
               /\ posts'[i].status = posts[i].status
               /\ posts[i].released => posts'[i].released
<1> DEFINE release == status = "needs_review" /\ posts[i].status = "needs_review"
           queued == QueuedPost(posts[i], revision)
           new == [queued EXCEPT !.released = queued.released \/ release]
<1>1. posts[i] \in Post /\ posts \in [Invoices -> Post]
  BY DEF PostingTypeOK
<1>2. posts' = [posts EXCEPT ![i] = new]
  BY <1>1 DEF Requeue
<1>3. /\ queued.bill = posts[i].bill /\ queued.key = posts[i].key
      /\ queued.released = posts[i].released
      /\ IF posts[i].bill = NoBill THEN queued.status = "queued"
         ELSE queued.status = posts[i].status
      /\ DOMAIN queued = DOMAIN posts[i]
  BY <1>1 DEF QueuedPost, Post
<1>4. DOMAIN queued = {"status", "retryable", "bill", "key", "released", "revision"}
  BY <1>1, <1>3 DEF Post
<1> HIDE DEF queued
<1>5. /\ new.bill = queued.bill /\ new.key = queued.key /\ new.status = queued.status
      /\ new.released = (queued.released \/ release)
  BY <1>4
<1> HIDE DEF new
<1> QED BY <1>1, <1>2, <1>3, <1>5 DEF Queues

\* Nothing else happens to a post, unless its invoice is corrected.
LEMMA PostChanges ==
  ASSUME PostingTypeOK, [Next]_vars, NEW i \in Invoices,
         ~\E n \in Numbers : Correct(i, n)
  PROVE  \/ posts'[i] = posts[i]
         \/ \E h \in handlers : Owner(h) = i /\ WritesPost(h, posts[i], posts'[i])
         \/ /\ Complete(i) /\ Queues(posts[i], posts'[i])
            /\ posts'[i].released = posts[i].released
         \/ /\ FailStalled(i) /\ SamePost(posts[i], posts'[i])
            /\ posts'[i].status = "failed" /\ posts'[i].retryable
         \/ /\ RetryDelivery(i) \/ \E a \in asked : RetryPost(a)
            /\ \/ Queues(posts[i], posts'[i])
               \/ /\ posts'[i].bill = posts[i].bill /\ posts'[i].key = posts[i].key
                  /\ posts'[i].status = posts[i].status
                  /\ posts[i].released => posts'[i].released
<1>0. posts[i] \in Post /\ posts \in [Invoices -> Post]
  BY DEF PostingTypeOK
<1>1. CASE \E h \in handlers : \/ CancelPost(h) \/ AlreadyPosted(h) \/ BlockPost(h)
                               \/ HoldForReview(h) \/ RecordFailure(h)
                               \/ RecordSuccess(h)
  BY <1>1, HandlerWrites
<1>2. CASE \E k \in Invoices, n \in Numbers : Correct(k, n)
  <2> PICK k \in Invoices, n \in Numbers : Correct(k, n)
    BY <1>2
  <2>1. k # i
    OBVIOUS
  <2>2. \E post : posts' = [posts EXCEPT ![k] = post]
    BY DEF Correct
  <2> QED BY <1>0, <2>1, <2>2
<1>3. ASSUME NEW k \in Invoices, Complete(k)
      PROVE  \/ posts'[i] = posts[i]
             \/ Complete(i) /\ Queues(posts[i], posts'[i])
                /\ posts'[i].released = posts[i].released
  <2>1. CASE posts' = posts
    BY <2>1
  <2>2. CASE posts' = [posts EXCEPT ![k] = QueuedPost(posts[k], 1)] /\ k # i
    BY <1>0, <2>2
  <2>3. CASE posts' = [posts EXCEPT ![i] = QueuedPost(posts[i], 1)] /\ k = i
    <3>1. posts'[i] = QueuedPost(posts[i], 1)
      BY <1>0, <2>3
    <3>2. \/ posts'[i] = posts[i]
          \/ /\ posts[i].bill = NoBill
             /\ posts'[i] = [posts[i] EXCEPT !.status = "queued", !.revision = 1,
                                             !.retryable = FALSE]
      BY <3>1 DEF QueuedPost
    <3> QED BY <1>0, <1>3, <2>3, <3>2 DEF Queues, Post
  <2> QED BY <1>3, <2>1, <2>2, <2>3 DEF Complete
<1>4. ASSUME NEW k \in Invoices, FailStalled(k)
      PROVE  \/ posts'[i] = posts[i]
             \/ /\ FailStalled(i) /\ SamePost(posts[i], posts'[i])
                /\ posts'[i].status = "failed" /\ posts'[i].retryable
  <2>1. CASE k # i
    BY <1>0, <1>4, <2>1 DEF FailStalled
  <2>2. CASE k = i
    BY <1>0, <1>4, <2>2 DEF FailStalled, SamePost, Post
  <2> QED BY <2>1, <2>2
<1>5. ASSUME NEW k \in Invoices, RetryDelivery(k)
      PROVE  \/ posts'[i] = posts[i]
             \/ /\ RetryDelivery(i)
                /\ \/ Queues(posts[i], posts'[i])
                   \/ /\ posts'[i].bill = posts[i].bill /\ posts'[i].key = posts[i].key
                      /\ posts'[i].status = posts[i].status
                      /\ posts[i].released => posts'[i].released
  BY <1>5, RequeueFields DEF RetryDelivery
<1>6. ASSUME NEW a \in asked, RetryPost(a)
      PROVE  \/ posts'[i] = posts[i]
             \/ Queues(posts[i], posts'[i])
             \/ /\ posts'[i].bill = posts[i].bill /\ posts'[i].key = posts[i].key
                /\ posts'[i].status = posts[i].status
                /\ posts[i].released => posts'[i].released
  <2>1. a.invoice \in Invoices
    BY DEF PostingTypeOK
  <2> QED BY <1>6, <2>1, RequeueFields DEF RetryPost
<1> QED BY <1>1, <1>2, <1>3, <1>4, <1>5, <1>6, PostsFrame

-----------------------------------------------------------------------------
(* Invoices that are never corrected. *)

LEMMA NeverCorrected ==
  ASSUME PostingTypeOK, MaxRevision = 1, NEW i \in Invoices, NEW n
  PROVE  ~Correct(i, n)
<1>1. invoices[i].revision \in 0 .. 1
  BY DEF PostingTypeOK, Invoice
<1> QED BY <1>1 DEF Correct, Live

LEMMA InvoicesStay ==
  ASSUME PostingTypeOK, MaxRevision = 1, [Next]_vars, NEW i \in Invoices
  PROVE  /\ invoices'[i].number = invoices[i].number
         /\ invoices'[i].supplier = invoices[i].supplier
         /\ invoices'[i].refused = invoices[i].refused
<1>0. /\ invoices \in [Invoices -> Invoice]
      /\ \A k \in Invoices : invoices[k] \in Invoice
  BY DEF PostingTypeOK
<1>1. ASSUME NEW h \in handlers, MarkDuplicate(h)
      PROVE  /\ invoices'[i].number = invoices[i].number
             /\ invoices'[i].supplier = invoices[i].supplier
             /\ invoices'[i].refused = invoices[i].refused
  <2>1. h.job[1] \in Invoices
    BY HandlerTyped DEF Owner
  <2> QED BY <1>0, <1>1, <2>1 DEF MarkDuplicate, Invoice
<1>2. ASSUME NEW k \in Invoices, Complete(k)
      PROVE  /\ invoices'[i].number = invoices[i].number
             /\ invoices'[i].supplier = invoices[i].supplier
             /\ invoices'[i].refused = invoices[i].refused
  <2> DEFINE invs == [invoices EXCEPT ![k].revision = 1]
  <2>1. invs \in [Invoices -> Invoice] /\ invoices' = Validated(invs, k)
    <3>1. [invoices[k] EXCEPT !.revision = 1] \in Invoice
      BY <1>0, PostingAssumption DEF Invoice
    <3> QED BY <1>0, <1>2, <3>1 DEF Complete
  <2>2. /\ invs[i].number = invoices[i].number
        /\ invs[i].supplier = invoices[i].supplier
        /\ invs[i].refused = invoices[i].refused
    BY <1>0 DEF Invoice
  <2> HIDE DEF invs
  <2> QED BY <2>1, <2>2, ValidatedTyped
<1>3. ASSUME NEW k \in Invoices, DeleteInvoice(k)
      PROVE  /\ invoices'[i].number = invoices[i].number
             /\ invoices'[i].supplier = invoices[i].supplier
             /\ invoices'[i].refused = invoices[i].refused
  BY <1>0, <1>3 DEF DeleteInvoice, Invoice
<1> QED BY <1>1, <1>2, <1>3, InvoicesFrame, NeverCorrected

\* A handler that writes a post has loaded its key.
LEMMA WritersAreLoaded ==
  ASSUME NEW h, NEW post, NEW new, WritesPost(h, post, new)
  PROVE  \/ Loaded(h) /\ new.key = h.key /\ new.released = post.released
         \/ SamePost(post, new)
BY DEF WritesPost, FailsPost, BlockPost, HoldForReview, RecordFailure, RecordSuccess,
       Loaded, Ends

LEMMA PostKeysStay ==
  ASSUME PostingTypeOK, NumbersStay, MaxRevision = 1, [Next]_vars, NEW i \in Invoices
  PROVE  /\ posts'[i].key \in {NoKey, invoices[i].number, i}
         /\ posts'[i].key = i => posts'[i].released
         /\ posts[i].released => posts'[i].released
<1>1. ~\E n \in Numbers : Correct(i, n)
  BY NeverCorrected
<1>2. ASSUME NEW h \in handlers, Owner(h) = i, WritesPost(h, posts[i], posts'[i])
      PROVE  /\ posts'[i].key \in {NoKey, invoices[i].number, i}
             /\ posts'[i].key = i => posts'[i].released
             /\ posts[i].released => posts'[i].released
  <2>1. invoices[i].number # i
    BY PostingAssumption DEF PostingTypeOK, Invoice
  <2> QED BY <1>2, <2>1, WritersAreLoaded DEF NumbersStay, SamePost
<1>3. /\ posts[i].key \in {NoKey, invoices[i].number, i}
      /\ posts[i].key = i => posts[i].released
  BY DEF NumbersStay
<1> QED BY <1>1, <1>2, <1>3, PostChanges DEF Queues, SamePost

LEMMA HandlerNumbersStay ==
  ASSUME Typed, NumbersStay, MaxRevision = 1, [Next]_vars, NEW t \in handlers'
  PROVE  /\ t.number = invoices[Owner(t)].number
         /\ t.released => posts[Owner(t)].released
         /\ Loaded(t) => t.key = IF t.released THEN Owner(t) ELSE t.number
         /\ Owner(t) \in Invoices
<1> PostingTypeOK
  BY DEF Typed
<1>1. CASE t \in handlers
  BY <1>1, HandlerTyped DEF NumbersStay
<1>2. ASSUME NEW j \in Jobs, t.job = j, t.at = "load",
             t.number = invoices[j[1]].number, ~t.released
      PROVE  /\ t.number = invoices[Owner(t)].number /\ ~Loaded(t) /\ Owner(t) \in Invoices
  BY <1>2 DEF Owner, Loaded, Jobs
<1>3. ASSUME NEW h \in handlers, t.job = h.job, Same(h, t), Loaded(t) => Loaded(h)
      PROVE  /\ t.number = invoices[Owner(t)].number
             /\ t.released => posts[Owner(t)].released
             /\ Loaded(t) => t.key = IF t.released THEN Owner(t) ELSE t.number
             /\ Owner(t) \in Invoices
  <2>1. Owner(t) = Owner(h) /\ Owner(h) \in Invoices
    BY <1>3, HandlerTyped DEF Owner
  <2> QED BY <1>3, <2>1 DEF NumbersStay, Same
<1>4. ASSUME NEW h \in handlers, t.job = h.job, Load(h), Fresh(h, t)
      PROVE  /\ t.number = invoices[Owner(t)].number
             /\ t.released => posts[Owner(t)].released
             /\ t.key = IF t.released THEN Owner(t) ELSE t.number
             /\ Owner(t) \in Invoices
  <2>1. Owner(t) = Owner(h) /\ Owner(h) \in Invoices
    BY <1>4, HandlerTyped DEF Owner
  <2>2. KeyOf(Owner(h)) = IF posts[Owner(h)].released THEN Owner(h)
                          ELSE invoices[Owner(h)].number
    BY <2>1 DEF KeyOf, NumbersStay
  <2> QED BY <1>4, <2>1, <2>2 DEF Fresh
<1> QED BY <1>1, <1>2, <1>3, <1>4, HandlersFrom

\* A bill that is new was made by a handler, of its own invoice.
LEMMA NewBills ==
  ASSUME Typed, [Next]_vars, NEW b \in ledger'
  PROVE  \/ b \in ledger
         \/ \E h \in handlers :
              /\ CreateBill(h) /\ b = NewBill(h) /\ h.key \notin remembered
              /\ ~invoices[Owner(h)].refused
              /\ b.invoice = Owner(h) /\ b.number = h.number /\ b.key = h.key
<1> PostingTypeOK
  BY DEF Typed
<1>1. ASSUME NEW h \in handlers, CreateBill(h), b \notin ledger
      PROVE  /\ b = NewBill(h) /\ h.key \notin remembered
             /\ ~invoices[Owner(h)].refused
  <2>1. ledger' = ledger \/ \E c \in MadeBills(h) : /\ ~invoices[Owner(h)].refused
                                                    /\ ledger' = ledger \cup {c}
    BY <1>1, CreateMoves
  <2> QED BY <1>1, <2>1 DEF MadeBills
<1>2. \A h : NewBill(h).invoice = Owner(h) /\ NewBill(h).number = h.number
             /\ NewBill(h).key = h.key
  BY DEF NewBill, Owner
<1> QED BY <1>1, <1>2, LedgerFrame

LEMMA StepNumbersStay ==
  ASSUME Typed, NumbersStay, MaxRevision = 1, [Next]_vars
  PROVE  NumbersStay'
<1> PostingTypeOK /\ PostingTypeOK'
  BY StepTyped DEF Typed
<1>1. ASSUME NEW i \in Invoices
      PROVE  /\ posts'[i].key \in {NoKey, invoices'[i].number, i}
             /\ posts'[i].key = i => posts'[i].released
  BY PostKeysStay, InvoicesStay
<1>2. ASSUME NEW t \in handlers'
      PROVE  /\ t.number = invoices'[Owner(t)].number
             /\ t.released => posts'[Owner(t)].released
             /\ Loaded(t) => t.key = IF t.released THEN Owner(t) ELSE t.number
  <2>1. Owner(t) \in Invoices /\ t.number = invoices[Owner(t)].number
        /\ t.released => posts[Owner(t)].released
    BY HandlerNumbersStay
  <2> QED BY <2>1, HandlerNumbersStay, PostKeysStay, InvoicesStay
<1>3. ASSUME NEW b \in ledger'
      PROVE  /\ b.number = invoices'[b.invoice].number
             /\ b.key \in {b.number, b.invoice}
             /\ ~invoices'[b.invoice].refused
  <2>1. b \in Bill /\ b.invoice \in Invoices
    BY DEF PostingTypeOK, Bill
  <2>2. CASE b \in ledger
    BY <2>1, <2>2, InvoicesStay DEF NumbersStay
  <2>3. ASSUME NEW h \in handlers, CreateBill(h), ~invoices[Owner(h)].refused,
               b.invoice = Owner(h), b.number = h.number, b.key = h.key
        PROVE  /\ b.number = invoices[b.invoice].number
               /\ b.key \in {b.number, b.invoice}
               /\ ~invoices[b.invoice].refused
    <3>1. Loaded(h)
      BY <2>3 DEF CreateBill, Loaded, Ends
    <3> QED BY <2>3, <3>1 DEF NumbersStay
  <2> QED BY <2>1, <2>2, <2>3, NewBills, InvoicesStay
<1> QED BY <1>1, <1>2, <1>3 DEF NumbersStay, Owner, Loaded

LEMMA AskedFrame ==
  ASSUME PostingTypeOK, [Next]_vars, MaxRetries = 0, asked = {}
  PROVE  /\ asked' = {}
         /\ \A i \in Invoices : ~RetryDelivery(i)
         /\ ~\E a \in asked : RetryPost(a)
<1>1. retries = 0
  BY DEF PostingTypeOK
<1>2. \A i \in Invoices : ~RetryDelivery(i) /\ ~AskRetry(i)
  BY <1>1 DEF RetryDelivery, AskRetry
<1> QED
  BY <1>2 DEF Next, vars, boundVars, Complete, DeleteInvoice, FailStalled, Correct,
     SwitchConnection, ForgetKey, Start, Reap, Vanish, HandlerStep, Load, ClaimPost,
     ReadHolder, FindBill, CreateBill, CancelPost, AlreadyPosted, MarkDuplicate,
     BlockPost, HoldForReview, ReleaseClaim, RecordFailure, RecordSuccess,
     StatementFails, SettleJob

LEMMA StepReleasedByRetry ==
  ASSUME Typed, NumbersStay, ReleasedByRetry, MaxRevision = 1, [Next]_vars
  PROVE  ReleasedByRetry'
<1> SUFFICES ASSUME MaxRetries = 0
             PROVE  /\ asked' = {}
                    /\ \A i \in Invoices : ~posts'[i].released
                    /\ \A b \in ledger' : b.key = b.number
  BY DEF ReleasedByRetry
<1> PostingTypeOK /\ asked = {}
  BY DEF Typed, ReleasedByRetry
<1>1. ASSUME NEW i \in Invoices
      PROVE  ~posts'[i].released
  <2>1. ~\E n \in Numbers : Correct(i, n)
    BY NeverCorrected
  <2>2. ~posts[i].released
    BY DEF ReleasedByRetry
  <2>3. ASSUME NEW h \in handlers, WritesPost(h, posts[i], posts'[i])
        PROVE  ~posts'[i].released
    BY <2>2, <2>3, WritersAreLoaded DEF SamePost
  <2> QED BY <2>1, <2>2, <2>3, PostChanges, AskedFrame DEF SamePost
<1>2. ASSUME NEW b \in ledger'
      PROVE  b.key = b.number
  <2>1. ASSUME NEW h \in handlers, CreateBill(h)
        PROVE  h.key = h.number
    <3>1. Loaded(h) /\ Owner(h) \in Invoices
      BY <2>1, HandlerTyped DEF CreateBill, Loaded, Ends
    <3> QED BY <3>1 DEF NumbersStay, ReleasedByRetry
  <2> QED BY <2>1, NewBills DEF ReleasedByRetry
<1> QED BY <1>1, <1>2, AskedFrame

LEMMA StartAdds ==
  ASSUME NEW j \in Jobs, Start(j)
  PROVE  \E t : handlers' = handlers \cup {t} /\ t.job = j /\ t.at = "load"
<1> DEFINE t == [job |-> j,
                 slot |-> IF \E h \in HandlersOf(j) : h.slot = 1 THEN 2 ELSE 1,
                 attempt |-> tries[j] + 1, at |-> "load",
                 number |-> invoices[j[1]].number, released |-> FALSE, key |-> NoKey,
                 retryable |-> FALSE, bill |-> NoBill]
<1>1. handlers' = handlers \cup {t}
  BY DEF Start
<1>2. t.job = j /\ t.at = "load"
  OBVIOUS
<1> QED BY <1>1, <1>2

LEMMA StepOneHandler ==
  ASSUME Typed, OneHandler, MaxRevision = 1, [Next]_vars
  PROVE  OneHandler'
<1> PostingTypeOK
  BY DEF Typed
<1>0. IsFiniteSet(handlers) /\ \A h \in handlers : h.job \in Jobs
  BY HandlerTyped DEF OneHandler
<1>1. IsFiniteSet(handlers')
  <2>1. ASSUME NEW h, NEW t, handlers' = (handlers \ {h}) \cup {t}
        PROVE  IsFiniteSet(handlers')
    <3>1. IsFiniteSet(handlers \ {h})
      BY <1>0, FS_Subset
    <3> QED BY <2>1, <3>1, FS_AddElement
  <2>2. ASSUME NEW h \in handlers, Handles(h)
        PROVE  IsFiniteSet(handlers')
    BY <2>1, <2>2, HandlesMoves DEF Typed, Moves
  <2>3. ASSUME NEW j \in Jobs, Start(j)
        PROVE  IsFiniteSet(handlers')
    <3>1. \E t : handlers' = handlers \cup {t}
      BY <2>3 DEF Start
    <3> QED BY <1>0, <3>1, FS_AddElement
  <2>4. CASE \E h \in handlers : SettleJob(h) \/ Vanish(h)
    <3>1. PICK h \in handlers : handlers' = handlers \ {h}
      BY <2>4 DEF SettleJob, Vanish
    <3> QED BY <1>0, <3>1, FS_Subset
  <2>5. CASE IntentStep \/ (\E j \in Jobs : Reap(j)) \/ UNCHANGED vars
    BY <1>0, <2>5 DEF IntentStep, Complete, RetryDelivery, AskRetry, DeleteInvoice,
         FailStalled, Correct, RetryPost, SwitchConnection, ForgetKey, Requeue, Reap, vars
  <2> QED BY <2>2, <2>3, <2>4, <2>5, StepCases
<1>2. ASSUME ~HandlersOverlap, NEW g \in handlers', NEW h \in handlers', Owner(g) = Owner(h)
      PROVE  g = h
  <2>0. \A u, v \in handlers : Owner(u) = Owner(v) => u = v
    BY <1>2 DEF OneHandler
  <2>1. ASSUME NEW j \in Jobs, Start(j)
        PROVE  g = h
    <3>1. IsFiniteSet(HandlersOf(j))
      BY <1>0, FS_Subset DEF HandlersOf
    <3>2. Cardinality(HandlersOf(j)) < 1
      BY <1>2, <2>1 DEF Start
    <3>3. HandlersOf(j) = {}
      BY <3>1, <3>2, FS_CardinalityType, FS_EmptySet
    <3>4. PICK t : handlers' = handlers \cup {t} /\ t.job = j
      BY <2>1, StartAdds
    <3>5. \A u \in handlers : Owner(u) # Owner(t)
      BY <1>0, <3>3, <3>4 DEF HandlersOf, Owner, Jobs
    <3> QED BY <1>2, <2>0, <3>4, <3>5
  <2>2. ASSUME NEW u \in handlers, Handles(u)
        PROVE  g = h
    <3>1. PICK t \in Handler : handlers' = (handlers \ {u}) \cup {t} /\ t.job = u.job
      BY <2>2, HandlesMoves DEF Typed, Moves
    <3> QED BY <1>2, <2>0, <3>1 DEF Owner
  <2>3. CASE \E u \in handlers : SettleJob(u) \/ Vanish(u)
    BY <1>2, <2>0, <2>3 DEF SettleJob, Vanish
  <2>4. CASE IntentStep \/ (\E j \in Jobs : Reap(j)) \/ UNCHANGED vars
    BY <1>2, <2>0, <2>4 DEF IntentStep, Complete, RetryDelivery, AskRetry, DeleteInvoice,
         FailStalled, Correct, RetryPost, SwitchConnection, ForgetKey, Requeue, Reap, vars
  <2> QED BY <2>1, <2>2, <2>3, <2>4, StepCases
<1> QED BY <1>1, <1>2 DEF OneHandler, Owner

\* The provider forgets no key that a handler carries.
LEMMA RememberedFrame ==
  ASSUME [Next]_vars, NEW key \in remembered, NEW h \in handlers, h.key = key
  PROVE  key \in remembered'
BY DEF Next, vars, worldVars, Complete, RetryDelivery, AskRetry, DeleteInvoice,
       FailStalled, Correct, RetryPost, SwitchConnection, ForgetKey, Requeue, Start,
       Reap, Vanish, HandlerStep, Load, ClaimPost, ReadHolder, FindBill, CreateBill,
       CancelPost, AlreadyPosted, MarkDuplicate, BlockPost, HoldForReview, ReleaseClaim,
       RecordFailure, RecordSuccess, StatementFails, SettleJob

\* A handler gets to the create call from a lookup that found nothing.
LEMMA IntoCreate ==
  ASSUME Typed, [Next]_vars, NEW t \in handlers', t.at = "create", t \notin handlers
  PROVE  \E h \in handlers : FindBill(h) /\ Moves(h, t) /\ Same(h, t) /\ SameBills(h) = {}
<1>1. PICK h \in handlers : Moves(h, t) /\ Leads(h, t)
  BY LedFrom
<1>2. \A retryable : AfterFailure(h, retryable) # "create"
  BY AfterFailureEnds
<1> QED BY <1>1, <1>2 DEF Leads, Fresh

LEMMA StepBillInv ==
  ASSUME Base, Base', BillInv, MaxRevision = 1, [Next]_vars,
         ~HandlersOverlap \/ MaxRetries = 0
  PROVE  BillInv'
<1> Typed /\ PostingTypeOK /\ NumbersStay
  BY DEF Base, Typed
<1>1. ASSUME NEW b \in ledger', NEW c \in ledger', b.invoice = c.invoice
      PROVE  b = c
  <2>1. ASSUME NEW h \in handlers, CreateBill(h), h.key \notin remembered,
               NEW d \in ledger
        PROVE  d.invoice # Owner(h)
    BY <2>1 DEF BillInv, CreatesOnce, CreateBill
  <2>2. ASSUME b \notin ledger, c \notin ledger
        PROVE  b = c
    <3>1. PICK h \in handlers : CreateBill(h) /\ b = NewBill(h)
      BY <2>2, NewBills
    <3>2. ledger' = ledger \/ \E d \in MadeBills(h) : ledger' = ledger \cup {d}
      BY <3>1 DEF CreateBill
    <3> QED BY <2>2, <3>2
  <2> QED BY <1>1, <2>1, <2>2, NewBills DEF BillInv, OneBillPerInvoice
<1>2. ASSUME NEW t \in handlers', NEW b \in ledger', t.at = "create", b.invoice = Owner(t)
      PROVE  t.key \in remembered'
  <2>1. Loaded(t)
    BY <1>2 DEF Loaded, Ends
  <2>2. CASE t \in handlers
    <3>1. CASE b \in ledger
      BY <1>2, <2>2, <3>1, RememberedFrame DEF BillInv, CreatesOnce
    <3>2. CASE b \notin ledger
      <4>1. PICK h \in handlers :
              CreateBill(h) /\ h.key \notin remembered /\ b.invoice = Owner(h)
              /\ b.key = h.key /\ b = NewBill(h)
        BY <3>2, NewBills
      <4>2. b.key \in remembered'
        <5>1. PICK d \in MadeBills(h) :
                ledger' = ledger \cup {d} /\ remembered' = remembered \cup {d.key}
          BY <3>2, <4>1, CreateMoves
        <5> QED BY <3>2, <5>1
      <4>3. h # t
        <5>1. PICK u \in Handler : Moves(h, u) /\ u.at # "create"
          BY <4>1, CreateMoves
        <5>2. h.at = "create" /\ t # u
          BY <1>2, <4>1, <5>1 DEF CreateBill
        <5> QED BY <5>1, <5>2 DEF Moves
      <4>4. HandlersOverlap /\ MaxRetries = 0
        BY <1>2, <2>2, <4>1, <4>3 DEF Base, OneHandler
      <4>5. Owner(t) \in Invoices /\ Loaded(h) /\ ~t.released /\ ~h.released
        BY <2>2, <4>1, <4>4, <1>2, HandlerTyped
           DEF Base, ReleasedByRetry, NumbersStay, CreateBill, Loaded, Ends
      <4>6. t.key = h.key
        <5>1. t.key = t.number /\ t.number = invoices[Owner(t)].number
          BY <2>1, <2>2, <4>5 DEF NumbersStay
        <5>2. h.key = h.number /\ h.number = invoices[Owner(h)].number
          BY <4>5 DEF NumbersStay
        <5> QED BY <1>2, <4>1, <5>1, <5>2
      <4> QED BY <4>1, <4>2, <4>6
    <3> QED BY <3>1, <3>2
  <2>3. ASSUME NEW h \in handlers, FindBill(h), Moves(h, t), Same(h, t), SameBills(h) = {}
        PROVE  FALSE
    <3>1. b \in ledger
      BY <2>3, LedgerFrame DEF FindBill, worldVars, CreateBill
    <3>2. Owner(t) = Owner(h) /\ Owner(h) = h.job[1]
      BY <2>3 DEF Owner, Same
    <3>3. b.number = h.number
      BY <1>2, <3>1, <3>2 DEF NumbersStay
    <3> QED BY <1>2, <2>3, <3>1, <3>2, <3>3 DEF SameBills
  <2> QED BY <1>2, <2>2, <2>3, IntoCreate
<1> QED BY <1>1, <1>2 DEF BillInv, OneBillPerInvoice, CreatesOnce, Owner

LEMMA InitInv ==
  Init => Base /\ BillInv /\ ClaimInv /\ RecordsItsOwn /\ PostedStatus
          /\ UnpostedWhileHandled
<1> SUFFICES ASSUME Init
             PROVE  Base /\ BillInv /\ ClaimInv /\ RecordsItsOwn /\ PostedStatus
                    /\ UnpostedWhileHandled
  OBVIOUS
<1>0. Typed /\ handlers = {} /\ ledger = {} /\ asked = {}
  BY InitTyped DEF Init
<1>1. \A i \in Invoices :
        posts[i].key = NoKey /\ posts[i].bill = NoBill /\ ~posts[i].released
  BY DEF Init
<1>2. NumbersStay
  BY <1>0, <1>1, PostingAssumption DEF NumbersStay
<1>3. OneHandler
  BY <1>0, FS_EmptySet DEF OneHandler
<1>4. SuppliersDiffer
  BY DEF Init, SuppliersDiffer
<1>5. Base
  BY <1>0, <1>1, <1>2, <1>3 DEF Base, ReleasedByRetry
<1>6. BillInv /\ ClaimInv
  BY <1>0, <1>4 DEF BillInv, OneBillPerInvoice, CreatesOnce, ClaimInv, BillKeepsClaim,
                    ClaimsHeld
<1>7. RecordsItsOwn /\ PostedStatus /\ UnpostedWhileHandled
  BY <1>0, <1>1 DEF RecordsItsOwn, PostedStatus, UnpostedWhileHandled
<1> QED BY <1>5, <1>6, <1>7

LEMMA StepBase ==
  ASSUME Base, MaxRevision = 1, [Next]_vars
  PROVE  Base'
BY StepTyped, StepNumbersStay, StepReleasedByRetry, StepOneHandler DEF Base

\* The provider never has two bills of an invoice that is not corrected, if its
\* handlers take turns or nobody retries its post: whatever answers are lost, however
\* often handlers vanish, statements fail, access is lost and keys are forgotten.
THEOREM OneBill ==
  ASSUME MaxRevision = 1,
         ~HandlersOverlap \/ MaxRetries = 0
  PROVE  Spec => []OneBillPerInvoice
<1>1. Init => Base /\ BillInv
  BY InitInv
<1>2. Base /\ BillInv /\ [Next]_vars => (Base /\ BillInv)'
  BY StepBase, StepBillInv
<1>3. BillInv => OneBillPerInvoice
  BY DEF BillInv
<1> QED BY <1>1, <1>2, <1>3, PTL DEF Spec

-----------------------------------------------------------------------------
(* Claims: a lookup or a create call never gets at another invoice's bill. *)

LEMMA StepClaims ==
  ASSUME Base, ClaimInv, [Next]_vars, NEW n \in Numbers, claims[n] # NoInvoice
  PROVE  \/ claims'[n] = claims[n]
         \/ \E h \in handlers :
              ReleaseClaim(h) /\ h.number = n /\ ~h.released /\ claims[n] = Owner(h)
<1>0. claims \in [Numbers -> Invoices \cup {NoInvoice}]
  BY DEF Base, Typed, PostingTypeOK
<1>1. ASSUME NEW h \in handlers, ClaimPost(h)
      PROVE  claims'[n] = claims[n]
  BY <1>0, <1>1 DEF ClaimPost, Claimed
<1>2. ASSUME NEW h \in handlers, ReleaseClaim(h)
      PROVE  \/ claims'[n] = claims[n]
             \/ h.number = n /\ ~h.released /\ claims[n] = Owner(h)
  BY <1>0, <1>2 DEF ReleaseClaim, Released, Owner
<1> QED BY <1>1, <1>2, ClaimsFrame

\* The bills of the invoice a handler works for.
LEMMA OwnBills ==
  ASSUME Base, NEW b \in ledger
  PROVE  /\ b.invoice \in Invoices /\ b.number \in Numbers
         /\ b.number = invoices[b.invoice].number
         /\ ~invoices[b.invoice].refused
         /\ b.key \in Numbers => b.key = b.number
         /\ b.key \notin Numbers => b.key = b.invoice
<1>1. b \in Bill
  BY DEF Base, Typed, PostingTypeOK
<1> QED BY <1>1, PostingAssumption DEF Base, NumbersStay, Bill

LEMMA HandlerKey ==
  ASSUME Base, NEW h \in handlers, Loaded(h)
  PROVE  /\ Owner(h) \in Invoices /\ h.number \in Numbers
         /\ h.number = invoices[Owner(h)].number
         /\ h.released => h.key = Owner(h) /\ h.key \notin Numbers
         /\ ~h.released => h.key = h.number
<1>1. Owner(h) \in Invoices /\ h.number \in Numbers
  BY HandlerTyped DEF Base, Typed
<1> QED BY <1>1, PostingAssumption DEF Base, NumbersStay

\* A bill found under the key of a handler is its invoice's.
LEMMA FoundIsOwn ==
  ASSUME Base, ClaimInv, NEW h \in handlers, h.at \in {"find", "create"},
         NEW b \in ledger, b.key = h.key,
         \/ ~HandlersOverlap
         \/ ~invoices[Owner(h)].refused
         \/ ~CopiesArrive /\ invoices[b.invoice].supplier = invoices[Owner(h)].supplier
  PROVE  b.invoice = Owner(h)
<1>1. Loaded(h)
  BY DEF Loaded, Ends
<1>2. CASE h.released
  BY <1>1, <1>2, HandlerKey, OwnBills
<1>3. CASE ~h.released
  <2>1. b.key \in Numbers /\ b.number = h.number /\ claims[h.number] = b.invoice
    BY <1>1, <1>3, HandlerKey, OwnBills DEF ClaimInv, BillKeepsClaim
  <2>2. \/ claims[h.number] = Owner(h)
        \/ HandlersOverlap /\ invoices[Owner(h)].refused
    BY <1>3 DEF ClaimInv, ClaimsHeld
  <2>3. CASE ~CopiesArrive /\ invoices[b.invoice].supplier = invoices[Owner(h)].supplier
    BY <1>1, <2>3, HandlerKey, OwnBills DEF ClaimInv, SuppliersDiffer
  <2> QED BY <2>1, <2>2, <2>3
<1> QED BY <1>2, <1>3

LEMMA StepBillKeepsClaim ==
  ASSUME Base, ClaimInv, MaxRevision = 1, [Next]_vars
  PROVE  BillKeepsClaim'
<1> SUFFICES ASSUME NEW b \in ledger', b.key \in Numbers
             PROVE  claims'[b.number] = b.invoice
  BY DEF BillKeepsClaim
<1>1. CASE b \in ledger
  <2>1. claims[b.number] = b.invoice /\ b.number \in Numbers /\ b.invoice # NoInvoice
    BY <1>1, OwnBills, PostingAssumption DEF ClaimInv, BillKeepsClaim
  <2>2. ASSUME NEW h \in handlers, ReleaseClaim(h), ~h.released
        PROVE  b.invoice # Owner(h)
    BY <1>1, <2>2 DEF ClaimInv, ClaimsHeld, ReleaseClaim
  <2> QED BY <2>1, <2>2, StepClaims
<1>2. ASSUME NEW h \in handlers, CreateBill(h), ~invoices[Owner(h)].refused,
             b.invoice = Owner(h), b.number = h.number, b.key = h.key
      PROVE  claims'[b.number] = b.invoice
  <2>1. ~h.released
    BY <1>2, HandlerKey DEF CreateBill, Loaded, Ends
  <2>2. claims[h.number] = Owner(h)
    BY <1>2, <2>1 DEF ClaimInv, ClaimsHeld, CreateBill
  <2> QED BY <1>2, <2>2 DEF CreateBill
<1> QED BY <1>1, <1>2, NewBills DEF Base

LEMMA StepFindsUnderClaim ==
  ASSUME Base, ClaimInv, MaxRevision = 1, [Next]_vars,
         NEW t \in handlers', ~t.released, t.at \in {"find", "create"}
  PROVE  \/ claims'[t.number] = Owner(t)
         \/ HandlersOverlap /\ invoices'[Owner(t)].refused
<1> PostingTypeOK
  BY DEF Base, Typed
<1>1. CASE t \in handlers
  <2>1. Owner(t) \in Invoices /\ t.number \in Numbers /\ Owner(t) # NoInvoice
    BY <1>1, HandlerTyped, PostingAssumption
  <2>2. CASE HandlersOverlap /\ invoices[Owner(t)].refused
    BY <2>1, <2>2, InvoicesStay
  <2>3. CASE claims[t.number] = Owner(t)
    <3>1. ASSUME NEW h \in handlers, ReleaseClaim(h), ~h.released, Owner(h) = Owner(t)
          PROVE  HandlersOverlap /\ invoices[Owner(t)].refused
      <4>1. h # t
        BY <3>1 DEF ReleaseClaim
      <4>2. HandlersOverlap
        BY <1>1, <3>1, <4>1 DEF Base, OneHandler
      <4> QED BY <3>1, <4>2 DEF ClaimInv, ClaimsHeld, ReleaseClaim
    <3> QED BY <2>1, <2>3, <3>1, StepClaims, InvoicesStay
  <2> QED BY <1>1, <2>2, <2>3 DEF ClaimInv, ClaimsHeld
<1>2. CASE t \notin handlers
  <2>1. PICK h \in handlers : Moves(h, t) /\ Leads(h, t) /\ t.job = h.job
    BY <1>2, LedFrom DEF Base
  <2>2. \A retryable : AfterFailure(h, retryable) \notin {"find", "create"}
    BY AfterFailureEnds
  <2>3. \/ Same(h, t) /\ ReadHolder(h) /\ claims[h.number] = Owner(h)
        \/ Same(h, t) /\ FindBill(h)
        \/ Same(h, t) /\ ClaimPost(h) /\ h.released
    BY <2>1, <2>2 DEF Leads, Fresh
  <2>4. /\ ~h.released /\ t.number = h.number /\ Owner(t) = Owner(h)
        /\ Owner(h) \in Invoices
    BY <2>1, <2>3, HandlerTyped DEF Same, Owner
  <2>5. \/ claims[h.number] = Owner(h)
        \/ HandlersOverlap /\ invoices[Owner(h)].refused
    BY <2>3, <2>4 DEF ClaimInv, ClaimsHeld, FindBill
  <2> QED BY <2>3, <2>4, <2>5, InvoicesStay DEF ReadHolder, FindBill
<1> QED BY <1>1, <1>2

LEMMA StepReleasesNoBill ==
  ASSUME Base, Base', ClaimInv, MaxRevision = 1, [Next]_vars, ~MayLoseAccess,
         ~HandlersOverlap \/ (~CopiesArrive /\ MaxRetries = 0),
         NEW t \in handlers', ~t.released, t.at = "release"
  PROVE  /\ \A b \in ledger' : b.invoice = Owner(t) => b.key \notin Numbers
         /\ HandlersOverlap => invoices'[Owner(t)].refused
<1> PostingTypeOK
  BY DEF Base, Typed
<1>1. CASE t \in handlers
  <2>1. Owner(t) \in Invoices
    BY <1>1, HandlerTyped
  <2>2. HandlersOverlap => invoices[Owner(t)].refused
    BY <1>1 DEF ClaimInv, ClaimsHeld
  <2>3. ASSUME NEW h \in handlers, CreateBill(h), ~invoices[Owner(h)].refused
        PROVE  Owner(h) # Owner(t)
    <3>1. h # t
      BY <2>3 DEF CreateBill
    <3> QED BY <1>1, <2>2, <2>3, <3>1 DEF Base, OneHandler
  <2>4. ASSUME NEW b \in ledger', b.invoice = Owner(t)
        PROVE  b.key \notin Numbers
    <3>1. b \in ledger
      BY <2>3, <2>4, NewBills DEF Base
    <3> QED BY <1>1, <2>4, <3>1 DEF ClaimInv, ClaimsHeld
  <2> QED BY <2>1, <2>2, <2>4, InvoicesStay
<1>2. CASE t \notin handlers
  <2>1. PICK h \in handlers : Moves(h, t) /\ Leads(h, t) /\ t.job = h.job
    BY <1>2, LedFrom DEF Base
  <2>2. \A retryable : AfterFailure(h, retryable) # "release"
    BY AfterFailureEnds
  <2>3. \/ /\ Same(h, t) /\ FindBill(h)
           /\ SameBills(h) # {} /\ \A b \in SameBills(h) : b.key # h.key
        \/ Same(h, t) /\ CreateBill(h) /\ invoices[Owner(h)].refused
    BY <2>1, <2>2 DEF Leads, Fresh
  <2>4. ~h.released /\ Owner(t) = Owner(h) /\ Owner(h) \in Invoices
    BY <2>1, <2>3, HandlerTyped DEF Same, Owner
  <2>5. CASE invoices[Owner(h)].refused
    <3>1. invoices'[Owner(t)].refused
      BY <2>4, <2>5, InvoicesStay
    <3> QED BY <3>1 DEF Base, NumbersStay
  <2>6. CASE /\ FindBill(h)
             /\ SameBills(h) # {} /\ \A b \in SameBills(h) : b.key # h.key
    <3>1. Loaded(h) /\ h.key = h.number /\ h.number = invoices[Owner(h)].number
      BY <2>4, <2>6, HandlerKey DEF FindBill, Loaded, Ends
    <3>2. ASSUME NEW b \in ledger, b.invoice = Owner(h)
          PROVE  b.key \notin Numbers
      <4>1. b.number = h.number
        BY <3>1, <3>2, OwnBills
      <4>2. b \in SameBills(h)
        BY <3>2, <4>1 DEF SameBills, Owner
      <4> QED BY <2>6, <3>1, <4>1, <4>2, OwnBills
    <3>3. ~HandlersOverlap
      <4> SUFFICES ASSUME HandlersOverlap PROVE FALSE
        OBVIOUS
      <4>1. PICK b \in ledger : invoices[b.invoice].supplier = invoices[Owner(h)].supplier
        BY <2>6 DEF SameBills, Owner
      <4>2. b.invoice = Owner(h) /\ b.key = b.number /\ b.number \in Numbers
        BY <2>4, <4>1, OwnBills DEF ClaimInv, SuppliersDiffer, Base, ReleasedByRetry
      <4> QED BY <3>2, <4>2
    <3>4. ledger' = ledger
      BY <2>6 DEF FindBill, worldVars
    <3> QED BY <2>4, <3>2, <3>3, <3>4
  <2> QED BY <2>3, <2>5, <2>6
<1> QED BY <1>1, <1>2

LEMMA StepClaimInv ==
  ASSUME Base, Base', ClaimInv, MaxRevision = 1, [Next]_vars, ~MayLoseAccess,
         ~HandlersOverlap \/ (~CopiesArrive /\ MaxRetries = 0)
  PROVE  ClaimInv'
<1>1. SuppliersDiffer'
  <2> PostingTypeOK
    BY DEF Base, Typed
  <2> QED BY InvoicesStay DEF ClaimInv, SuppliersDiffer
<1>2. ClaimsHeld'
  BY StepFindsUnderClaim, StepReleasesNoBill DEF ClaimsHeld, Owner
<1> QED BY <1>1, <1>2, StepBillKeepsClaim DEF ClaimInv

\* A bill made under a number keeps the number claimed for its invoice, so that no
\* copy of the document is posted on its own (claimAccountingPost, releaseAccountingPost).
\* An error that is not retryable gives up the claim, so access must not be lost; and
\* of two handlers next to each other one may give up what the other posts under.
THEOREM BillsKeepClaims ==
  ASSUME MaxRevision = 1, ~MayLoseAccess,
         ~HandlersOverlap \/ (~CopiesArrive /\ MaxRetries = 0)
  PROVE  Spec => []BillKeepsClaim
<1>1. Init => Base /\ ClaimInv
  BY InitInv
<1>2. Base /\ ClaimInv /\ [Next]_vars => (Base /\ ClaimInv)'
  BY StepBase, StepClaimInv
<1>3. ClaimInv => BillKeepsClaim
  BY DEF ClaimInv
<1> QED BY <1>1, <1>2, <1>3, PTL DEF Spec

LEMMA LedgerGrows ==
  ASSUME [Next]_vars, Typed
  PROVE  ledger \subseteq ledger'
<1>1. ASSUME NEW h \in handlers, CreateBill(h)
      PROVE  ledger \subseteq ledger'
  BY <1>1 DEF CreateBill
<1> QED BY <1>1, LedgerFrame

\* Whatever a handler is about to record, or has recorded, is its invoice's.
LEMMA StepRecordsItsOwn ==
  ASSUME Base, ClaimInv, RecordsItsOwn, MaxRevision = 1, [Next]_vars,
         ~HandlersOverlap \/ ~CopiesArrive
  PROVE  RecordsItsOwn'
<1> PostingTypeOK /\ Typed
  BY DEF Base, Typed
<1>0. ledger \subseteq ledger'
  BY LedgerGrows
<1>1. ASSUME NEW t \in handlers', t.at = "record"
      PROVE  t.bill \in ledger' /\ t.bill.invoice = Owner(t)
  <2>1. CASE t \in handlers
    BY <1>0, <1>1, <2>1 DEF RecordsItsOwn
  <2>2. CASE t \notin handlers
    <3>1. PICK h \in handlers : Moves(h, t) /\ Leads(h, t) /\ t.job = h.job
      BY <1>1, <2>2, LedFrom
    <3>2. \A retryable : AfterFailure(h, retryable) # "record"
      BY AfterFailureEnds
    <3>3. \/ FindBill(h) /\ t.bill \in SameBills(h) /\ t.bill.key = h.key
          \/ /\ CreateBill(h) /\ t.bill \in ledger' /\ t.bill \in MadeBills(h)
             /\ ~invoices[Owner(h)].refused
      BY <1>1, <3>1, <3>2 DEF Leads, Fresh
    <3>4. Owner(t) = Owner(h)
      BY <3>1 DEF Owner
    <3>5. CASE FindBill(h) /\ t.bill \in SameBills(h) /\ t.bill.key = h.key
      <4>1. /\ t.bill \in ledger /\ h.at = "find"
            /\ invoices[t.bill.invoice].supplier = invoices[Owner(h)].supplier
        BY <3>5 DEF SameBills, FindBill, Owner
      <4>2. t.bill.invoice = Owner(h)
        BY <3>5, <4>1, FoundIsOwn
      <4> QED BY <1>0, <3>4, <4>1, <4>2
    <3>6. CASE /\ CreateBill(h) /\ t.bill \in ledger' /\ t.bill \in MadeBills(h)
               /\ ~invoices[Owner(h)].refused
      <4>1. CASE t.bill = NewBill(h)
        BY <3>4, <3>6, <4>1 DEF NewBill, Owner
      <4>2. CASE t.bill \in ledger /\ t.bill.key = h.key
        <5>1. t.bill.invoice = Owner(h)
          BY <3>6, <4>2, FoundIsOwn DEF CreateBill
        <5> QED BY <3>4, <3>6, <5>1
      <4> QED BY <3>6, <4>1, <4>2 DEF MadeBills
    <3> QED BY <3>3, <3>5, <3>6
  <2> QED BY <2>1, <2>2
<1>2. ASSUME NEW i \in Invoices, posts'[i].bill # NoBill
      PROVE  posts'[i].bill \in ledger' /\ posts'[i].bill.invoice = i
  <2>1. \/ posts'[i].bill = posts[i].bill
        \/ \E h \in handlers :
             RecordSuccess(h) /\ Owner(h) = i /\ posts'[i].bill = h.bill
    BY NeverCorrected, PostChanges DEF WritesPost, FailsPost, SamePost, Queues
  <2>2. ASSUME NEW h \in handlers, RecordSuccess(h)
        PROVE  h.bill \in ledger /\ h.bill.invoice = Owner(h)
    BY <2>2 DEF RecordSuccess, RecordsItsOwn
  <2> QED BY <1>0, <1>2, <2>1, <2>2 DEF RecordsItsOwn
<1> QED BY <1>1, <1>2 DEF RecordsItsOwn, Owner

\* An invoice that counts as posted names a bill made from it and not the bill of
\* another document that took its number, under the same conditions.
THEOREM PostsNameTheirBill ==
  ASSUME MaxRevision = 1, ~MayLoseAccess,
         ~HandlersOverlap \/ (~CopiesArrive /\ MaxRetries = 0)
  PROVE  Spec => []PostedAsItself
<1>1. Init => Base /\ ClaimInv /\ RecordsItsOwn
  BY InitInv
<1>2. Base /\ ClaimInv /\ RecordsItsOwn /\ [Next]_vars
        => (Base /\ ClaimInv /\ RecordsItsOwn)'
  BY StepBase, StepClaimInv, StepRecordsItsOwn
<1>3. RecordsItsOwn => PostedAsItself
  BY DEF RecordsItsOwn, PostedAsItself
<1> QED BY <1>1, <1>2, <1>3, PTL DEF Spec

-----------------------------------------------------------------------------
(* A recorded bill stays. *)

\* A handler records a bill on a post that has none, or the one it has.
RecordsOnce ==
  \A h \in handlers :
    h.at = "record" /\ posts[Owner(h)].bill # NoBill => h.bill = posts[Owner(h)].bill

LEMMA RecordsOnceOverlapping ==
  ASSUME Typed, OneBillPerInvoice, RecordsItsOwn
  PROVE  RecordsOnce
<1> SUFFICES ASSUME NEW h \in handlers, h.at = "record", posts[Owner(h)].bill # NoBill
             PROVE  h.bill = posts[Owner(h)].bill
  BY DEF RecordsOnce
<1>1. Owner(h) \in Invoices
  BY HandlerTyped DEF Typed
<1> QED BY <1>1 DEF OneBillPerInvoice, RecordsItsOwn

LEMMA RecordsOnceInTurn ==
  ASSUME UnpostedWhileHandled, ~HandlersOverlap
  PROVE  RecordsOnce
BY DEF UnpostedWhileHandled, RecordsOnce, Loaded, Ends

\* Only RecordSuccess gives a post a bill, and its handler is then done.
LEMMA BillsGiven ==
  ASSUME PostingTypeOK, MaxRevision = 1, [Next]_vars, NEW i \in Invoices
  PROVE  \/ posts'[i].bill = posts[i].bill
         \/ \E h \in handlers :
              /\ RecordSuccess(h) /\ Owner(h) = i /\ posts'[i].bill = h.bill
              /\ \E t : Moves(h, t) /\ t.at = "completing"
<1>1. \/ posts'[i].bill = posts[i].bill
      \/ \E h \in handlers :
           RecordSuccess(h) /\ Owner(h) = i /\ posts'[i].bill = h.bill
  BY NeverCorrected, PostChanges DEF WritesPost, FailsPost, SamePost, Queues
<1>2. ASSUME NEW h \in handlers, RecordSuccess(h)
      PROVE  \E t : Moves(h, t) /\ t.at = "completing"
  BY <1>2, HandlerTyped, GoesMoves DEF RecordSuccess, At, Ends
<1> QED BY <1>1, <1>2

LEMMA StepUnpostedWhileHandled ==
  ASSUME Base, UnpostedWhileHandled, MaxRevision = 1, [Next]_vars
  PROVE  UnpostedWhileHandled'
<1> SUFFICES ASSUME ~HandlersOverlap, NEW t \in handlers', Loaded(t)
             PROVE  posts'[Owner(t)].bill = NoBill
  BY DEF UnpostedWhileHandled, Loaded, Owner
<1> Typed /\ PostingTypeOK
  BY DEF Base, Typed
<1>1. /\ posts[Owner(t)].bill = NoBill /\ Owner(t) \in Invoices
      /\ \E h \in handlers : Owner(h) = Owner(t) /\ (t \in handlers \/ Moves(h, t))
  <2>1. CASE t \in handlers
    BY <2>1, HandlerTyped DEF UnpostedWhileHandled
  <2>2. CASE t \notin handlers
    <3>1. PICK h \in handlers :
            /\ Moves(h, t) /\ t.job = h.job
            /\ \/ Loaded(h)
               \/ Fresh(h, t)
      BY <2>2, HandlersFrom DEF Loaded
    <3>2. Owner(t) = Owner(h) /\ Owner(h) \in Invoices
      BY <3>1, HandlerTyped DEF Owner
    <3> QED BY <3>1, <3>2 DEF UnpostedWhileHandled, Fresh
  <2> QED BY <2>1, <2>2
<1>2. ASSUME NEW g \in handlers, RecordSuccess(g), Owner(g) = Owner(t),
             NEW u, Moves(g, u), u.at = "completing"
      PROVE  FALSE
  <2>1. t # u
    BY <1>2 DEF Loaded, Ends
  <2>2. t \in handlers /\ t # g
    BY <1>2, <2>1 DEF Moves
  <2> QED BY <1>2, <2>2 DEF Base, OneHandler
<1> QED BY <1>1, <1>2, BillsGiven

LEMMA StepBillsKept ==
  ASSUME PostingTypeOK, PostedStatus, RecordsOnce, MaxRevision = 1, [Next]_vars
  PROVE  BillsKept
<1> SUFFICES ASSUME NEW i \in Invoices, posts[i].bill # NoBill
             PROVE  /\ posts'[i].bill = posts[i].bill
                    /\ posts'[i].status \in {"posted", "already_posted"}
  BY DEF BillsKept
<1>1. posts[i].status \in {"posted", "already_posted"}
  BY DEF PostedStatus
<1>2. ~\E n \in Numbers : Correct(i, n)
  BY NeverCorrected
<1>3. ASSUME NEW h \in handlers, Owner(h) = i, WritesPost(h, posts[i], posts'[i])
      PROVE  /\ posts'[i].bill = posts[i].bill
             /\ posts'[i].status \in {"posted", "already_posted"}
  <2>1. RecordSuccess(h) => h.bill = posts[i].bill
    BY <1>3 DEF RecordsOnce, RecordSuccess
  <2> QED BY <1>1, <1>3, <2>1 DEF WritesPost, FailsPost, SamePost
<1> QED BY <1>1, <1>2, <1>3, PostChanges DEF Queues, FailStalled

LEMMA StepPostedStatus ==
  ASSUME Base, Base', PostedStatus, BillsKept, RecordsItsOwn \/ UnpostedWhileHandled,
         MaxRevision = 1, [Next]_vars
  PROVE  PostedStatus'
<1> PostingTypeOK
  BY DEF Base, Typed
<1> SUFFICES ASSUME NEW i \in Invoices, posts'[i].bill # NoBill
             PROVE  posts'[i].status \in {"posted", "already_posted"}
  BY DEF PostedStatus
<1>1. CASE posts[i].bill # NoBill
  BY <1>1 DEF BillsKept
<1>2. CASE posts[i].bill = NoBill
  <2>1. PICK h \in handlers : RecordSuccess(h) /\ Owner(h) = i
    BY <1>2, BillsGiven
  <2>2. posts'[i].status = "posted"
    <3>1. WritesPost(h, posts[i], posts'[i])
      BY <2>1, HandlerWrites
    <3> QED BY <2>1, <3>1 DEF WritesPost, FailsPost, CancelPost, AlreadyPosted,
               BlockPost, HoldForReview, RecordFailure, RecordSuccess
  <2> QED BY <2>2
<1> QED BY <1>1, <1>2

\* A bill that was recorded is never forgotten or replaced, and its post stays
\* settled: not by a late handler, a retry, a release or the reconciler.  Handlers
\* next to each other must find the same bill, hence the conditions then.
THEOREM PostedIsFinal ==
  ASSUME MaxRevision = 1,
         \/ ~HandlersOverlap
         \/ ~MayLoseAccess /\ ~CopiesArrive /\ MaxRetries = 0
  PROVE  Spec => PostedStaysPosted
<1>1. CASE ~HandlersOverlap
  <2> DEFINE Inv == Base /\ UnpostedWhileHandled /\ PostedStatus
  <2>1. Init => Inv
    BY InitInv
  <2>2. Inv /\ [Next]_vars => Inv' /\ BillsKept
    <3> SUFFICES ASSUME Inv, [Next]_vars PROVE Inv' /\ BillsKept
      OBVIOUS
    <3>1. Base' /\ UnpostedWhileHandled'
      BY StepBase, StepUnpostedWhileHandled
    <3>2. BillsKept
      BY <1>1, RecordsOnceInTurn, StepBillsKept DEF Base, Typed
    <3> QED BY <3>1, <3>2, StepPostedStatus
  <2> QED BY <2>1, <2>2, PTL DEF Spec, PostedStaysPosted
<1>2. CASE ~MayLoseAccess /\ ~CopiesArrive /\ MaxRetries = 0
  <2> DEFINE Inv == Base /\ BillInv /\ ClaimInv /\ RecordsItsOwn /\ PostedStatus
  <2>1. Init => Inv
    BY InitInv
  <2>2. Inv /\ [Next]_vars => Inv' /\ BillsKept
    <3> SUFFICES ASSUME Inv, [Next]_vars PROVE Inv' /\ BillsKept
      OBVIOUS
    <3>1. Base'
      BY StepBase
    <3>2. BillInv' /\ ClaimInv' /\ RecordsItsOwn'
      BY <1>2, <3>1, StepBillInv, StepClaimInv, StepRecordsItsOwn
    <3>3. BillsKept
      BY RecordsOnceOverlapping, StepBillsKept DEF Base, Typed, BillInv
    <3> QED BY <3>1, <3>2, <3>3, StepPostedStatus
  <2> QED BY <2>1, <2>2, PTL DEF Spec, PostedStaysPosted
<1> QED BY <1>1, <1>2

=============================================================================
