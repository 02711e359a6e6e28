----------------------- MODULE IntakeReservationProofs -----------------------
(***************************************************************************)
(* What every operation of IntakeReservation keeps true of records,        *)
(* attempts and removals, for any number of uploaders and records.         *)
(*                                                                         *)
(* The argument: while a write of a record's bytes may be under way, the   *)
(* record is a reservation or is flagged ambiguous; what is ambiguous is   *)
(* flagged pending and is never cleared; so bytes that are stored after a  *)
(* discard, however late, belong to a record the clean-up looks at again.  *)
(***************************************************************************)
EXTENDS IntakeReservation, JobHandlersProofs

Writing(r) == \E u \in Uploaders : attempts[u].at = "store" /\ attempts[u].of = r
Clearing(r) == \E c \in removals : c[2] = r /\ c[3] = "clear"

\* A record nobody made has no bytes and no flags.
Unmade(r) ==
  records[r].state = "none" =>
    /\ ~records[r].pending /\ ~records[r].ambiguous
    /\ Document(r) \notin objects \cup late

\* A discarded record has no bytes, or is flagged; it has none to come and none
\* that a removal is about to forget, or is ambiguous.
Discardable(r) ==
  records[r].state \in {"cancelled", "gone"} =>
    /\ records[r].pending \/ (~records[r].ambiguous /\ Document(r) \notin objects)
    /\ \/ records[r].ambiguous
       \/ /\ Document(r) \notin late /\ ~Writing(r)
          /\ Clearing(r) => Document(r) \notin objects

Kept(r) ==
  /\ Unmade(r) /\ Discardable(r)
  /\ records[r].state = "reserved" /\ records[r].pending => records[r].ambiguous

\* What the attempt of u knows of its record.
Knows(u) ==
  /\ attempts[u].at \in {"lease", "store", "accept", "intent"} => attempts[u].of \in Records
  /\ \A r \in Records :
       attempts[u].of = r =>
         /\ records[r].state # "none"
         /\ attempts[u].at = "accept" /\ records[r].state = "reserved"
              => Document(r) \in objects

AcceptedStored(r) ==
  records[r].state = "accepted" => Document(r) \in objects /\ records[r].once

IntakeTyped == StorageTypeOK /\ IntakeTypeOK

IntakeInv ==
  /\ IntakeTyped
  /\ \A u \in Uploaders : Knows(u)
  /\ \A c \in removals : records[c[2]].state \in {"cancelled", "gone"}
  /\ \A r \in Records : AcceptedStored(r)
  /\ workspace = "live" => \A r \in Records : records[r].once \/ Kept(r)

-----------------------------------------------------------------------------
(* Types.                                                                    *)

LEMMA DocumentsDiffer ==
  \A r, q : Document(r) = Document(q) => r = q
BY DEF Document

LEMMA AttemptsTyped ==
  ASSUME IntakeTyped, NEW u \in Uploaders, NEW a \in Attempt,
         attempts' = [attempts EXCEPT ![u] = a]
  PROVE  attempts' \in [Uploaders -> Attempt]
BY DEF IntakeTyped, IntakeTypeOK

LEMMA IdleTyped == Idle \in Attempt /\ Begun \in Attempt
BY IntakeAssumption DEF Idle, Begun, Attempt

LEMMA ResultTyped ==
  ASSUME IntakeTyped, NEW u \in Uploaders,
         NEW result \in {"none", "accepted", "superseded", "conflict", "unavailable"},
         Result(u, result)
  PROVE  /\ attempts' \in [Uploaders -> Attempt]
         /\ attempts' = [attempts EXCEPT ![u] = attempts'[u]]
         /\ attempts'[u].at \in {"idle", "through"}
         /\ attempts'[u].of \in {0, attempts[u].of}
<1>1. attempts[u] \in Attempt /\ attempts \in [Uploaders -> Attempt]
  BY DEF IntakeTyped, IntakeTypeOK
<1>2. CASE u[1] = "member"
  <2>1. attempts' = [attempts EXCEPT ![u] = Idle]
    BY <1>2 DEF Result, Forget
  <2> QED BY <2>1, <1>1, IdleTyped, AttemptsTyped DEF Idle
<1>3. CASE u[1] # "member"
  <2> DEFINE a == [attempts[u] EXCEPT !.at = "through", !.result = result]
  <2>1. attempts' = [attempts EXCEPT ![u] = a]
    BY <1>3, <1>1 DEF Result
  <2>2. a \in Attempt /\ a.at = "through" /\ a.of = attempts[u].of
    BY <1>1 DEF Attempt
  <2> QED BY <2>1, <2>2, <1>1, AttemptsTyped
<1> QED BY <1>2, <1>3

LEMMA GotoTyped ==
  ASSUME IntakeTyped, NEW u \in Uploaders,
         NEW at \in {"reserve", "refind", "store", "accept", "intent"}, Goto(u, at)
  PROVE  /\ attempts' \in [Uploaders -> Attempt]
         /\ attempts' = [attempts EXCEPT ![u] = attempts'[u]]
         /\ attempts'[u].at = at /\ attempts'[u].of = attempts[u].of
<1> DEFINE a == [attempts[u] EXCEPT !.at = at]
<1>1. attempts[u] \in Attempt /\ attempts \in [Uploaders -> Attempt]
  BY DEF IntakeTyped, IntakeTypeOK
<1>2. attempts' = [attempts EXCEPT ![u] = a]
  BY <1>1 DEF Goto
<1>3. a \in Attempt /\ a.at = at /\ a.of = attempts[u].of
  BY <1>1 DEF Attempt
<1> QED BY <1>1, <1>2, <1>3, AttemptsTyped

-----------------------------------------------------------------------------
(* What is kept when nothing happens to a record.                            *)

\* As far as the argument goes, the record is as before.
Untouched(r) ==
  /\ \/ records'[r].state = records[r].state
     \/ records[r].state = "cancelled" /\ records'[r].state = "gone"
  /\ records'[r].pending = records[r].pending
  /\ records'[r].ambiguous = records[r].ambiguous
  /\ records'[r].once = records[r].once

\* Bytes come from a write under way, and go only if the record is discarded.
BytesOf(r) ==
  /\ Document(r) \in objects' => Document(r) \in objects \cup late \/ Writing(r)
  /\ Document(r) \in late' => Document(r) \in late \/ Writing(r)
  /\ Document(r) \in objects /\ records[r].state \in {"reserved", "accepted"}
       => Document(r) \in objects'

\* A write begins only for a reservation, a removal forgets only what is gone.
WorkOn(r) ==
  /\ Writing(r)' => Writing(r) \/ records[r].state = "reserved"
  /\ Clearing(r)' => Clearing(r) \/ Document(r) \notin objects'

LEMMA UntouchedIsKept ==
  ASSUME NEW r \in Records, Kept(r), Untouched(r), BytesOf(r), WorkOn(r),
         Writing(r) => records[r].state # "none"
  PROVE  Kept(r)'
<1> DEFINE W == Writing(r)
           C == Clearing(r)
<1>1. /\ W' => W \/ records[r].state = "reserved"
      /\ C' => C \/ Document(r) \notin objects'
      /\ Document(r) \in objects' => Document(r) \in objects \cup late \/ W
      /\ Document(r) \in late' => Document(r) \in late \/ W
      /\ W => records[r].state # "none"
  BY DEF WorkOn, BytesOf
<1>2. Unmade(r)'
  BY <1>1 DEF Kept, Unmade, Untouched, Document
<1>3. Discardable(r)'
  <2> SUFFICES ASSUME records'[r].state \in {"cancelled", "gone"}
               PROVE  /\ records'[r].pending
                           \/ (~records'[r].ambiguous /\ Document(r) \notin objects')
                      /\ \/ records'[r].ambiguous
                         \/ /\ Document(r) \notin late' /\ ~W'
                            /\ C' => Document(r) \notin objects'
    BY DEF Discardable, Document
  <2>1. records[r].state \in {"cancelled", "gone"}
    BY DEF Untouched
  <2>2. /\ records[r].pending \/ (~records[r].ambiguous /\ Document(r) \notin objects)
        /\ \/ records[r].ambiguous
           \/ Document(r) \notin late /\ ~W /\ (C => Document(r) \notin objects)
    BY <2>1 DEF Kept, Discardable
  <2>3. /\ records'[r].pending = records[r].pending
        /\ records'[r].ambiguous = records[r].ambiguous
    BY DEF Untouched
  <2> HIDE DEF W, C
  <2> QED BY <1>1, <2>1, <2>2, <2>3
<1> QED BY <1>2, <1>3 DEF Kept, Untouched

LEMMA WriterKnows ==
  ASSUME IntakeInv, NEW r \in Records, Writing(r)
  PROVE  records[r].state # "none"
BY DEF IntakeInv, Writing, Knows

\* An attempt that goes on as before still knows its record.
LEMMA KnowsOn ==
  ASSUME IntakeInv, NEW u \in Uploaders, attempts'[u] = attempts[u],
         \A r \in Records :
           /\ records[r].state # "none" => records'[r].state # "none"
           /\ records[r].state # "none" /\ records'[r].state = "reserved"
                => /\ records[r].state = "reserved"
                   /\ Document(r) \in objects => Document(r) \in objects'
  PROVE  Knows(u)'
<1>1. Knows(u)
  BY DEF IntakeInv
<1> QED BY <1>1 DEF Knows, Records, Document

\* No record changes.
LEMMA RecordsStay ==
  ASSUME IntakeInv, IntakeTyped', workspace' = workspace,
         \A r \in Records : Untouched(r) /\ BytesOf(r) /\ WorkOn(r),
         \A u \in Uploaders : attempts'[u] = attempts[u] \/ Knows(u)',
         \A c \in removals' :
           c \in removals \/ records[c[2]].state \in {"cancelled", "gone"},
         \A c \in removals' : c[2] \in Records
  PROVE  IntakeInv'
<1>1. ASSUME NEW u \in Uploaders PROVE Knows(u)'
  BY KnowsOn DEF Untouched, BytesOf
<1>2. ASSUME NEW c \in removals' PROVE records'[c[2]].state \in {"cancelled", "gone"}
  BY DEF IntakeInv, Untouched
<1>3. ASSUME NEW r \in Records PROVE AcceptedStored(r)'
  <2>1. AcceptedStored(r) /\ Untouched(r) /\ BytesOf(r)
    BY DEF IntakeInv
  <2> QED BY <2>1 DEF AcceptedStored, Untouched, BytesOf, Document
<1>4. ASSUME workspace' = "live", NEW r \in Records PROVE records'[r].once \/ Kept(r)'
  <2>1. records[r].once \/ Kept(r)
    BY <1>4 DEF IntakeInv
  <2>2. Kept(r) => Kept(r)'
    BY UntouchedIsKept, WriterKnows
  <2> QED BY <2>1, <2>2 DEF Untouched
<1> QED BY <1>1, <1>2, <1>3, <1>4 DEF IntakeInv, Records

\* One record changes, and nothing that is stored.
LEMMA OneRecordChanges ==
  ASSUME IntakeInv, UNCHANGED storageVars, NEW q \in Records, NEW d \in Record,
         records' = [records EXCEPT ![q] = d], attempts' \in [Uploaders -> Attempt],
         removals' \in SUBSET ({"member", "sweep"} \X Records \X {"remove", "clear"}),
         \A r \in Records \ {q} :
           (Writing(r)' => Writing(r)) /\ (Clearing(r)' => Clearing(r)),
         \A u \in Uploaders : attempts'[u] = attempts[u] \/ Knows(u)',
         \A c \in removals' : c[2] = q \/ c \in removals,
         d.state # "none",
         d.state = "reserved" => records[q].state \in {"none", "reserved"},
         \A c \in removals' : c[2] = q => d.state \in {"cancelled", "gone"},
         d.state = "accepted" => Document(q) \in objects /\ d.once,
         workspace = "live" => d.once \/ Kept(q)'
  PROVE  IntakeInv'
<1>1. /\ records \in [Records -> Record] /\ records' \in [Records -> Record]
      /\ records'[q] = d
      /\ \A r \in Records \ {q} : records'[r] = records[r]
  BY DEF IntakeInv, IntakeTyped, IntakeTypeOK
<1>2. IntakeTyped'
  BY <1>1 DEF IntakeInv, IntakeTyped, IntakeTypeOK, StorageTypeOK, storageVars
<1>3. objects' = objects /\ late' = late /\ workspace' = workspace
  BY DEF storageVars
<1>4. ASSUME NEW u \in Uploaders PROVE Knows(u)'
  BY <1>1, <1>3, KnowsOn
<1>5. ASSUME NEW c \in removals' PROVE records'[c[2]].state \in {"cancelled", "gone"}
  <2>1. c[2] \in Records
    OBVIOUS
  <2>2. c[2] # q => records[c[2]].state \in {"cancelled", "gone"}
    BY DEF IntakeInv
  <2> QED BY <1>1, <2>1, <2>2
<1>6. ASSUME NEW r \in Records PROVE AcceptedStored(r)'
  BY <1>1, <1>3 DEF IntakeInv, AcceptedStored, Document
<1>7. ASSUME workspace' = "live", NEW r \in Records PROVE records'[r].once \/ Kept(r)'
  <2>1. CASE r = q
    BY <1>1, <1>3, <1>7, <2>1
  <2>2. CASE r # q
    <3>1. Untouched(r) /\ BytesOf(r) /\ WorkOn(r)
      BY <1>1, <1>3, <2>2 DEF Untouched, BytesOf, WorkOn
    <3>2. records[r].once \/ Kept(r)
      BY <1>3, <1>7 DEF IntakeInv
    <3>3. Kept(r) => Kept(r)'
      BY <3>1, UntouchedIsKept, WriterKnows
    <3> QED BY <1>1, <2>2, <3>2, <3>3
  <2> QED BY <2>1, <2>2
<1> QED BY <1>2, <1>4, <1>5, <1>6, <1>7 DEF IntakeInv, Records

-----------------------------------------------------------------------------
(* What an attempt keeps.                                                    *)

LEMMA LeaseTyped ==
  ASSUME NEW a \in Attempt, NEW r \in Records
  PROVE  LET b == [a EXCEPT !.at = "lease", !.of = r]
         IN b \in Attempt /\ b.at = "lease" /\ b.of = r
<1>1. r \in 0 .. MaxRecords
  BY IntakeAssumption DEF Records
<1>2. [a EXCEPT !.at = "lease", !.of = r] \in Attempt
  BY <1>1 DEF Attempt
<1>3. /\ [a EXCEPT !.at = "lease", !.of = r].at = "lease"
      /\ [a EXCEPT !.at = "lease", !.of = r].of = r
  BY <1>1 DEF Attempt
<1> QED BY <1>2, <1>3

\* Only an attempt changes, and it does not begin to write.
LEMMA AttemptChanges ==
  ASSUME IntakeInv, NEW u \in Uploaders, UNCHANGED <<records, removals, storageVars>>,
         attempts' \in [Uploaders -> Attempt],
         attempts' = [attempts EXCEPT ![u] = attempts'[u]],
         attempts'[u].at # "store" \/ records[attempts'[u].of].state = "reserved",
         Knows(u)'
  PROVE  IntakeInv'
<1>1. /\ attempts \in [Uploaders -> Attempt]
      /\ \A v \in Uploaders \ {u} : attempts'[v] = attempts[v]
  BY DEF IntakeInv, IntakeTyped, IntakeTypeOK
<1>2. ASSUME NEW r \in Records PROVE Untouched(r) /\ BytesOf(r) /\ WorkOn(r)
  <2>1. Writing(r)' => Writing(r) \/ records[r].state = "reserved"
    <3> SUFFICES ASSUME NEW v \in Uploaders, attempts'[v].at = "store", attempts'[v].of = r
                 PROVE  Writing(r) \/ records[r].state = "reserved"
      BY DEF Writing
    <3> QED BY <1>1 DEF Writing
  <2> QED BY <2>1 DEF Untouched, BytesOf, WorkOn, Clearing, storageVars
<1>3. IntakeTyped'
  BY DEF IntakeInv, IntakeTyped, IntakeTypeOK, StorageTypeOK, storageVars
<1>4. \A v \in Uploaders : attempts'[v] = attempts[v] \/ Knows(v)'
  BY <1>1
<1>5. \A c \in removals : c[2] \in Records
  BY DEF IntakeInv, IntakeTyped, IntakeTypeOK
<1> QED BY <1>2, <1>3, <1>4, <1>5, RecordsStay DEF storageVars

\* The answer to an attempt.
LEMMA ResultKnows ==
  ASSUME IntakeInv, NEW u \in Uploaders, attempts'[u].at \in {"idle", "through"},
         attempts'[u].of \in {0, attempts[u].of},
         \A r \in Records : records[r].state # "none" => records'[r].state # "none"
  PROVE  Knows(u)'
<1>1. Knows(u)
  BY DEF IntakeInv
<1>2. \A r \in Records : r # 0
  BY IntakeAssumption DEF Records
<1> QED BY <1>1, <1>2 DEF Knows, Records, Document

LEMMA ResultKeeps ==
  ASSUME IntakeInv, NEW u \in Uploaders, UNCHANGED <<records, removals, storageVars>>,
         NEW result \in {"none", "accepted", "superseded", "conflict", "unavailable"},
         Result(u, result)
  PROVE  IntakeInv'
<1>1. /\ attempts' \in [Uploaders -> Attempt]
      /\ attempts' = [attempts EXCEPT ![u] = attempts'[u]]
      /\ attempts'[u].at \in {"idle", "through"}
      /\ attempts'[u].of \in {0, attempts[u].of}
  BY ResultTyped DEF IntakeInv
<1>2. Knows(u)'
  BY <1>1, ResultKnows
<1> QED BY <1>1, <1>2, AttemptChanges

\* An attempt that begins, or that nobody waits for any more.
LEMMA IdleKeeps ==
  ASSUME IntakeInv, NEW u \in Uploaders, Upload(u) \/ Forget(u),
         UNCHANGED <<records, removals, storageVars>>
  PROVE  IntakeInv'
<1>1. PICK a \in {Idle, Begun} : attempts' = [attempts EXCEPT ![u] = a]
  BY DEF Upload, Forget
<1>2. attempts' \in [Uploaders -> Attempt] /\ attempts'[u] = a
  BY <1>1, IdleTyped DEF IntakeInv, IntakeTyped, IntakeTypeOK
<1>3. a.at \in {"idle", "find"} /\ a.of = 0
  BY DEF Idle, Begun
<1>4. Knows(u)'
  BY <1>2, <1>3, IntakeAssumption DEF Knows, Records
<1> QED BY <1>1, <1>2, <1>3, <1>4, AttemptChanges

LEMMA FindKeeps ==
  ASSUME IntakeInv, NEW u \in Uploaders, Find(u) PROVE IntakeInv'
<1>1. CASE \E result \in {"accepted", "conflict"} : Result(u, result)
  BY <1>1, ResultKeeps DEF Find
<1>2. CASE Goto(u, "reserve")
  <2>1. /\ attempts' \in [Uploaders -> Attempt]
        /\ attempts' = [attempts EXCEPT ![u] = attempts'[u]]
        /\ attempts'[u].at = "reserve" /\ attempts'[u].of = attempts[u].of
    BY <1>2, GotoTyped DEF IntakeInv
  <2>2. Knows(u)' 
    BY <2>1 DEF IntakeInv, Knows, Find
  <2> QED BY <2>1, <2>2, AttemptChanges DEF Find
<1>3. ASSUME NEW r \in Records, records[r].state = "reserved",
             attempts' = [attempts EXCEPT ![u].at = "lease", ![u].of = r]
      PROVE  IntakeInv'
  <2> DEFINE a == [attempts[u] EXCEPT !.at = "lease", !.of = r]
  <2>1. attempts[u] \in Attempt /\ attempts \in [Uploaders -> Attempt]
    BY DEF IntakeInv, IntakeTyped, IntakeTypeOK
  <2>2. a \in Attempt /\ a.at = "lease" /\ a.of = r
    BY <2>1, LeaseTyped
  <2>3. attempts' = [attempts EXCEPT ![u] = a]
    BY <1>3, <2>1
  <2>4. attempts' \in [Uploaders -> Attempt] /\ attempts'[u] = a
    BY <2>1, <2>2, <2>3
  <2>5. Knows(u)'
    BY <1>3, <2>2, <2>4 DEF Knows, Find, Records
  <2> QED BY <2>2, <2>3, <2>4, <2>5, AttemptChanges DEF Find
<1> QED BY <1>1, <1>2, <1>3 DEF Find

\* A record is made, and one that is made is held.
LEMMA ReserveKeeps ==
  ASSUME IntakeInv, NEW u \in Uploaders, Reserve(u) PROVE IntakeInv'
<1>1. CASE Result(u, "unavailable") /\ UNCHANGED records
  BY <1>1, ResultKeeps DEF Reserve
<1>2. CASE Goto(u, "refind") /\ UNCHANGED records
  <2>1. /\ attempts' \in [Uploaders -> Attempt]
        /\ attempts' = [attempts EXCEPT ![u] = attempts'[u]]
        /\ attempts'[u].at = "refind" /\ attempts'[u].of = attempts[u].of
    BY <1>2, GotoTyped DEF IntakeInv
  <2>2. Knows(u)'
    BY <1>2, <2>1 DEF IntakeInv, Knows, Reserve
  <2> QED BY <1>2, <2>1, <2>2, AttemptChanges DEF Reserve
<1>3. ASSUME NEW r \in Records, NewRecord(r), workspace = "live",
             records' = [records EXCEPT ![r].state = "reserved",
                                         ![r].mailed = (u[1] = "mail")],
             attempts' = [attempts EXCEPT ![u].at = "lease", ![u].of = r]
      PROVE  IntakeInv'
  <2> DEFINE a == [attempts[u] EXCEPT !.at = "lease", !.of = r]
             d == [records[r] EXCEPT !.state = "reserved", !.mailed = (u[1] = "mail")]
  <2>1. /\ attempts[u] \in Attempt /\ attempts \in [Uploaders -> Attempt]
        /\ records[r] \in Record /\ records \in [Records -> Record]
    BY DEF IntakeInv, IntakeTyped, IntakeTypeOK
  <2>2. a \in Attempt /\ a.at = "lease" /\ a.of = r
    BY <2>1, LeaseTyped
  <2>3. attempts' = [attempts EXCEPT ![u] = a] /\ records' = [records EXCEPT ![r] = d]
    BY <1>3, <2>1
  <2>4. /\ attempts' \in [Uploaders -> Attempt] /\ attempts'[u] = a
        /\ \A v \in Uploaders \ {u} : attempts'[v] = attempts[v]
    BY <2>1, <2>2, <2>3
  <2>5. /\ d \in Record /\ d.state = "reserved" /\ d.once = records[r].once
        /\ d.pending = records[r].pending /\ records'[r] = d
    BY <2>1, <2>3 DEF Record
  <2>6. records[r].state = "none"
    BY <1>3 DEF NewRecord
  <2>7. Knows(u)'
    <3>1. attempts'[u].at = "lease" /\ attempts'[u].of = r
      BY <2>2, <2>4
    <3>2. records'[r].state = "reserved"
      BY <2>5
    <3> HIDE DEF a, d
    <3> QED BY <3>1, <3>2 DEF Knows, Records
  <2>8. d.once \/ Kept(r)'
    <3>1. records[r].once \/ Kept(r)
      BY <1>3 DEF IntakeInv
    <3>2. Kept(r) => ~records[r].pending
      BY <2>6 DEF Kept, Unmade
    <3>3. ~d.pending => Kept(r)'
      BY <2>5 DEF Kept, Unmade, Discardable
    <3> QED BY <2>5, <3>1, <3>2, <3>3
  <2>9. \A q \in Records : (Writing(q)' => Writing(q)) /\ (Clearing(q)' => Clearing(q))
    BY <2>2, <2>4 DEF Writing, Clearing, Reserve
  <2>10. \A c \in removals : c[2] # r
    BY <2>6 DEF IntakeInv
  <2> HIDE DEF d, a
  <2>11. UNCHANGED <<removals, storageVars>>
    BY DEF Reserve
  <2>12. removals' \in SUBSET ({"member", "sweep"} \X Records \X {"remove", "clear"})
    BY <2>11 DEF IntakeInv, IntakeTyped, IntakeTypeOK
  <2> QED BY <2>3, <2>4, <2>5, <2>6, <2>7, <2>8, <2>9, <2>10, <2>11, <2>12, OneRecordChanges
<1> QED BY <1>1, <1>2, <1>3 DEF Reserve

LEMMA LeaseKeeps ==
  ASSUME IntakeInv, NEW u \in Uploaders, Lease(u) PROVE IntakeInv'
<1>1. attempts[u].of \in Records /\ Knows(u)
  BY DEF IntakeInv, Knows, Lease, At
<1>r. PICK r \in Records : r = attempts[u].of
  BY <1>1
<1> DEFINE d == [records[r] EXCEPT !.leased = TRUE]
<1>2. CASE Of(u).state = "reserved"
  <2>1. /\ records[r] \in Record /\ records \in [Records -> Record]
        /\ attempts \in [Uploaders -> Attempt]
    BY <1>r DEF IntakeInv, IntakeTyped, IntakeTypeOK
  <2>2. records' = [records EXCEPT ![r] = d]
    BY <1>2, <1>r, <2>1 DEF Lease
  <2>3. /\ d \in Record /\ d.state = "reserved" /\ d.once = records[r].once
        /\ d.pending = records[r].pending /\ d.ambiguous = records[r].ambiguous
        /\ records'[r] = d
    BY <1>r, <1>2, <2>1, <2>2 DEF Record, Of
  <2>4. /\ attempts' \in [Uploaders -> Attempt]
        /\ attempts' = [attempts EXCEPT ![u] = attempts'[u]]
        /\ attempts'[u].at = "store" /\ attempts'[u].of = r
    BY <1>2, <1>r, GotoTyped DEF Lease, IntakeInv
  <2>5. \A v \in Uploaders \ {u} : attempts'[v] = attempts[v]
    BY <2>1, <2>4
  <2>6. removals' = removals /\ UNCHANGED storageVars
    BY DEF Lease
  <2>7. \A q \in Records \ {r} :
          (Writing(q)' => Writing(q)) /\ (Clearing(q)' => Clearing(q))
    BY <1>r, <2>4, <2>5, <2>6 DEF Writing, Clearing
  <2> HIDE DEF d
  <2>8. Knows(u)'
    BY <1>1, <1>r, <2>3, <2>4 DEF Knows
  <2>9. workspace = "live" => d.once \/ Kept(r)'
    <3>1. workspace = "live" => records[r].once \/ Kept(r)
      BY <1>1 DEF IntakeInv
    <3>2. Kept(r) => Kept(r)'
      BY <1>2, <1>r, <2>3 DEF Kept, Unmade, Discardable, Of
    <3> QED BY <2>3, <3>1, <3>2
  <2>10. \A c \in removals : c[2] # r
    BY <1>2, <1>r DEF IntakeInv, Of
  <2>11. removals' \in SUBSET ({"member", "sweep"} \X Records \X {"remove", "clear"})
    BY <2>6 DEF IntakeInv, IntakeTyped, IntakeTypeOK
  <2>12. records[r].state = "reserved"
    BY <1>2, <1>r DEF Of
  <2> QED BY <1>1, <2>2, <2>3, <2>4, <2>5, <2>6, <2>7, <2>8, <2>9, <2>10, <2>11, <2>12,
             OneRecordChanges
<1>3. CASE Of(u).state # "reserved"
  BY <1>3, ResultKeeps DEF Lease
<1> QED BY <1>2, <1>3

\* Bytes are stored, or may be: what is not a reservation any more is ambiguous.
LEMMA WriteKeeps ==
  ASSUME IntakeInv, NEW u \in Uploaders, attempts[u].at = "store",
         UNCHANGED <<records, removals, workspace>>,
         Store(Document(attempts[u].of)) \/ GiveUpStoring(Document(attempts[u].of)),
         attempts' \in [Uploaders -> Attempt],
         attempts' = [attempts EXCEPT ![u] = attempts'[u]],
         \/ attempts'[u].of = 0 /\ attempts'[u].at = "idle"
         \/ /\ attempts'[u].of = attempts[u].of
            /\ \/ attempts'[u].at = "intent"
               \/ attempts'[u].at = "accept" /\ Store(Document(attempts[u].of))
  PROVE  IntakeInv'
<1> DEFINE q == attempts[u].of
<1>1. /\ attempts \in [Uploaders -> Attempt]
      /\ \A v \in Uploaders \ {u} : attempts'[v] = attempts[v]
  BY DEF IntakeInv, IntakeTyped, IntakeTypeOK
<1>2. q \in Records /\ Knows(u)
  BY DEF IntakeInv, Knows
<1>3. Document(q) \in Paths
  BY <1>2, IntakeAssumption
<1>4. /\ objects' \in {objects, objects \cup {Document(q)}}
      /\ late' \in {late, late \cup {Document(q)}}
  BY DEF Store, GiveUpStoring
<1>5. IntakeTyped'
  BY <1>3, <1>4 DEF IntakeInv, IntakeTyped, IntakeTypeOK, StorageTypeOK
<1>6. ASSUME NEW r \in Records PROVE Untouched(r) /\ BytesOf(r) /\ WorkOn(r)
  <2>1. r = q => Writing(r)
    BY DEF Writing
  <2>2. r # q => Document(r) # Document(q)
    BY DocumentsDiffer
  <2>3. Writing(r)' => Writing(r)
    BY <1>1 DEF Writing
  <2>4. BytesOf(r)
    BY <1>4, <2>1, <2>2 DEF BytesOf
  <2> QED BY <2>3, <2>4 DEF Untouched, WorkOn, Clearing
<1>7. Knows(u)'
  <2>1. CASE attempts'[u].of = 0
    BY <1>2, <2>1, IntakeAssumption DEF Knows, Records
  <2>2. CASE attempts'[u].of = q
    <3>1. attempts'[u].at = "accept" => Document(q) \in objects'
      BY <2>2, IntakeAssumption, <1>2 DEF Store, Records
    <3> QED BY <1>2, <2>2, <3>1 DEF Knows, Document
  <2> QED BY <2>1, <2>2
<1>8. \A v \in Uploaders : attempts'[v] = attempts[v] \/ Knows(v)'
  BY <1>1, <1>7
<1>9. \A c \in removals : c[2] \in Records
  BY DEF IntakeInv, IntakeTyped, IntakeTypeOK
<1> QED BY <1>5, <1>6, <1>8, <1>9, RecordsStay

LEMMA StoreKeeps ==
  ASSUME IntakeInv, NEW u \in Uploaders, StoreBytes(u) PROVE IntakeInv'
<1>1. PICK at \in {"accept", "intent"} :
         /\ Goto(u, at)
         /\ \/ Store(Document(attempts[u].of))
            \/ GiveUpStoring(Document(attempts[u].of)) /\ at = "intent"
  BY DEF StoreBytes
<1>2. /\ attempts' \in [Uploaders -> Attempt]
      /\ attempts' = [attempts EXCEPT ![u] = attempts'[u]]
      /\ attempts'[u].at = at /\ attempts'[u].of = attempts[u].of
  BY <1>1, GotoTyped DEF IntakeInv
<1> QED BY <1>1, <1>2, WriteKeeps DEF StoreBytes, At

\* An upload that is cut short.
LEMMA CutShortKeeps ==
  ASSUME IntakeInv, NEW u \in Uploaders, Forget(u),
         IF At(u, "store") THEN GiveUpStoring(Document(attempts[u].of))
         ELSE UNCHANGED <<objects, late>>,
         UNCHANGED <<records, removals, workspace>>
  PROVE  IntakeInv'
<1>1. CASE At(u, "store")
  <2>1. /\ attempts' \in [Uploaders -> Attempt] /\ attempts'[u] = Idle
        /\ attempts' = [attempts EXCEPT ![u] = attempts'[u]]
    BY IdleTyped DEF IntakeInv, IntakeTyped, IntakeTypeOK, Forget
  <2>2. attempts'[u].of = 0 /\ attempts'[u].at = "idle"
    BY <2>1 DEF Idle
  <2> QED BY <1>1, <2>1, <2>2, WriteKeeps DEF At
<1>2. CASE ~At(u, "store")
  BY <1>2, IdleKeeps DEF storageVars
<1> QED BY <1>1, <1>2

\* An attempt that leaves the removal of its bytes to the clean-up.
LEMMA IntendedKeeps ==
  ASSUME IntakeInv, NEW u \in Uploaders, NEW r \in Records,
         NEW result \in {"unavailable", "superseded"}, Result(u, result),
         records' = Intended(r), UNCHANGED <<removals, storageVars>>
  PROVE  IntakeInv'
<1>1. CASE records[r].state \in {"reserved", "cancelled"}
  <2> DEFINE d == [records[r] EXCEPT !.pending = TRUE, !.ambiguous = TRUE]
  <2>1. /\ records[r] \in Record /\ records \in [Records -> Record]
        /\ attempts \in [Uploaders -> Attempt]
    BY DEF IntakeInv, IntakeTyped, IntakeTypeOK
  <2>2. records' = [records EXCEPT ![r] = d]
    BY <1>1, <2>1 DEF Intended
  <2>3. /\ d \in Record /\ d.state = records[r].state /\ d.once = records[r].once
        /\ d.pending /\ d.ambiguous /\ records'[r] = d
    BY <2>1, <2>2 DEF Record
  <2>4. /\ attempts' \in [Uploaders -> Attempt]
        /\ attempts' = [attempts EXCEPT ![u] = attempts'[u]]
        /\ attempts'[u].at \in {"idle", "through"}
        /\ attempts'[u].of \in {0, attempts[u].of}
    BY ResultTyped DEF IntakeInv
  <2> HIDE DEF d
  <2>5. \A v \in Uploaders \ {u} : attempts'[v] = attempts[v]
    BY <2>1, <2>4
  <2>6. \A q \in Records : (Writing(q)' => Writing(q)) /\ (Clearing(q)' => Clearing(q))
    BY <2>4, <2>5 DEF Writing, Clearing
  <2>7. \A q \in Records : records[q].state # "none" => records'[q].state # "none"
    BY <2>1, <2>2, <2>3
  <2>8. Knows(u)'
    BY <2>4, <2>7, ResultKnows
  <2>9. Kept(r)'
    BY <1>1, <2>3 DEF Kept, Unmade, Discardable
  <2>10. \A c \in removals : c[2] = r => d.state \in {"cancelled", "gone"}
    BY <2>3 DEF IntakeInv
  <2>11. removals' \in SUBSET ({"member", "sweep"} \X Records \X {"remove", "clear"})
    BY DEF IntakeInv, IntakeTyped, IntakeTypeOK
  <2>12. /\ \A v \in Uploaders : attempts'[v] = attempts[v] \/ Knows(v)'
         /\ UNCHANGED storageVars /\ removals' = removals
    BY <2>5, <2>8
  <2>13. /\ d.state \notin {"none", "accepted"}
         /\ d.state = "reserved" => records[r].state = "reserved"
    BY <1>1, <2>3
  <2>14. attempts' \in [Uploaders -> Attempt]
    BY <2>4
  <2>15. \A c \in removals' :
           (c[2] = r \/ c \in removals) /\ (c[2] = r => d.state \in {"cancelled", "gone"})
    BY <2>10
  <2>16. d \in Record /\ (workspace = "live" => d.once \/ Kept(r)')
    BY <2>3, <2>9
  <2> QED BY <2>2, <2>6, <2>11, <2>12, <2>13, <2>14, <2>15, <2>16, OneRecordChanges
<1>2. CASE records[r].state \notin {"reserved", "cancelled"}
  BY <1>2, ResultKeeps DEF Intended
<1> QED BY <1>1, <1>2

LEMMA RecordIntentKeeps ==
  ASSUME IntakeInv, NEW u \in Uploaders, RecordIntent(u) PROVE IntakeInv'
<1>1. PICK r \in Records : r = attempts[u].of
  BY DEF IntakeInv, Knows, RecordIntent, At
<1>2. CASE records' = records
  BY <1>2, ResultKeeps DEF RecordIntent
<1>3. CASE records' = Intended(r)
  BY <1>1, <1>3, IntendedKeeps DEF RecordIntent
<1> QED BY <1>1, <1>2, <1>3 DEF RecordIntent

\* A document is accepted with its bytes.
LEMMA AcceptKeeps ==
  ASSUME IntakeInv, NEW u \in Uploaders, Accept(u) PROVE IntakeInv'
<1>0. Knows(u) /\ attempts[u].at = "accept"
  BY DEF IntakeInv, Accept, At
<1>1. PICK r \in Records : r = attempts[u].of
  BY <1>0 DEF Knows
<1>t. /\ records[r] \in Record /\ records \in [Records -> Record]
      /\ attempts \in [Uploaders -> Attempt] /\ attempts[u] \in Attempt
  BY DEF IntakeInv, IntakeTyped, IntakeTypeOK
<1>2. CASE UNCHANGED records /\ Goto(u, "intent")
  <2>1. /\ attempts' \in [Uploaders -> Attempt]
        /\ attempts' = [attempts EXCEPT ![u] = attempts'[u]]
        /\ attempts'[u].at = "intent" /\ attempts'[u].of = attempts[u].of
    BY <1>2, GotoTyped DEF IntakeInv
  <2>2. Knows(u)'
    BY <1>0, <1>1, <1>2, <2>1 DEF Knows
  <2> QED BY <1>2, <2>1, <2>2, AttemptChanges DEF Accept
<1>3. CASE records' = Intended(r) /\ Result(u, "superseded")
  BY <1>1, <1>3, IntendedKeeps DEF Accept
<1>4. CASE records[r].state = "reserved" /\ Result(u, "accepted")
           /\ records' = [records EXCEPT ![r] = Accepted(r)]
  <2> DEFINE d == [records[r] EXCEPT !.state = "accepted", !.once = TRUE, !.leased = FALSE,
                                     !.pending = FALSE, !.ambiguous = FALSE]
  <2>1. records' = [records EXCEPT ![r] = d]
    BY <1>4 DEF Accepted
  <2>2. d \in Record /\ d.state = "accepted" /\ d.once /\ records'[r] = d
    BY <1>t, <2>1 DEF Record
  <2>3. /\ attempts' \in [Uploaders -> Attempt]
        /\ attempts' = [attempts EXCEPT ![u] = attempts'[u]]
        /\ attempts'[u].at \in {"idle", "through"}
        /\ attempts'[u].of \in {0, attempts[u].of}
    BY <1>4, ResultTyped DEF IntakeInv
  <2> HIDE DEF d
  <2>4. \A v \in Uploaders \ {u} : attempts'[v] = attempts[v]
    BY <1>t, <2>3
  <2>5. UNCHANGED <<removals, storageVars>>
    BY DEF Accept
  <2>6. \A q \in Records : (Writing(q)' => Writing(q)) /\ (Clearing(q)' => Clearing(q))
    BY <2>3, <2>4, <2>5 DEF Writing, Clearing
  <2>7. \A q \in Records : records[q].state # "none" => records'[q].state # "none"
    BY <1>t, <2>1, <2>2
  <2>8. Knows(u)'
    BY <2>3, <2>7, ResultKnows
  <2>9. Document(r) \in objects
    BY <1>0, <1>1, <1>4 DEF Knows
  <2>10. \A c \in removals : c[2] # r
    BY <1>4 DEF IntakeInv
  <2>11. removals' \in SUBSET ({"member", "sweep"} \X Records \X {"remove", "clear"})
    BY <2>5 DEF IntakeInv, IntakeTyped, IntakeTypeOK
  <2> QED BY <2>1, <2>2, <2>3, <2>4, <2>5, <2>6, <2>8, <2>9, <2>10, <2>11, OneRecordChanges
<1>5. CASE records[r].state # "reserved" /\ Result(u, "accepted")
           /\ records' = [records EXCEPT ![r] = Accepted(r)]
  <2>1. records' = records
    BY <1>t, <1>5 DEF Accepted
  <2> QED BY <1>5, <2>1, ResultKeeps DEF Accept
<1> QED BY <1>1, <1>2, <1>3, <1>4, <1>5 DEF Accept

LEMMA AttemptKeeps ==
  ASSUME IntakeInv, NEW u \in Uploaders, AttemptStep(u) PROVE IntakeInv'
BY FindKeeps, ReserveKeeps, LeaseKeeps, StoreKeeps, RecordIntentKeeps, AcceptKeeps
   DEF AttemptStep

-----------------------------------------------------------------------------
(* What the clean-up and deletions keep.                                     *)

\* Attempts and removals are left alone, and no flag is lifted.
LEMMA LightChange ==
  ASSUME IntakeInv, NEW r \in Records, NEW d \in Record,
         records' = [records EXCEPT ![r] = d],
         UNCHANGED <<attempts, storageVars>>, removals' \subseteq removals,
         d.state = records[r].state \/ (records[r].state = "cancelled" /\ d.state = "gone"),
         d.once = records[r].once,
         workspace = "live" => d.once \/ Kept(r)',
         records[r].state # "none"
  PROVE  IntakeInv'
<1>1. /\ attempts' \in [Uploaders -> Attempt]
      /\ removals' \in SUBSET ({"member", "sweep"} \X Records \X {"remove", "clear"})
  BY DEF IntakeInv, IntakeTyped, IntakeTypeOK
<1>2. \A q \in Records : (Writing(q)' => Writing(q)) /\ (Clearing(q)' => Clearing(q))
  BY DEF Writing, Clearing
<1>3. \A c \in removals' : c[2] = r => d.state \in {"cancelled", "gone"}
  BY DEF IntakeInv
<1>4. d.state = "accepted" => Document(r) \in objects /\ d.once
  BY DEF IntakeInv, AcceptedStored
<1>5. \A u \in Uploaders : attempts'[u] = attempts[u]
  OBVIOUS
<1>6. d.state # "none" /\ (d.state = "reserved" => records[r].state = "reserved")
  OBVIOUS
<1>7. UNCHANGED storageVars
  OBVIOUS
<1> QED BY <1>1, <1>2, <1>3, <1>4, <1>5, <1>6, <1>7, OneRecordChanges

LEMMA LeaseEndsKeeps ==
  ASSUME IntakeInv, NEW r \in Records, LeaseEnds(r) PROVE IntakeInv'
<1>1. CASE records[r].state = "none"
  <2>1. records' \in [Records -> Record] /\ \A q \in Records : Untouched(q)
    BY DEF LeaseEnds, IntakeInv, IntakeTyped, IntakeTypeOK, Record, Untouched
  <2>2. IntakeTyped'
    BY <2>1 DEF LeaseEnds, IntakeInv, IntakeTyped, IntakeTypeOK, StorageTypeOK, storageVars
  <2>3. \A q \in Records : BytesOf(q) /\ WorkOn(q)
    BY DEF LeaseEnds, BytesOf, WorkOn, Writing, Clearing, storageVars
  <2>4. \A c \in removals : c[2] \in Records
    BY DEF IntakeInv, IntakeTyped, IntakeTypeOK
  <2> QED BY <2>1, <2>2, <2>3, <2>4, RecordsStay DEF LeaseEnds, storageVars
<1>2. CASE records[r].state # "none"
  <2> DEFINE d == [records[r] EXCEPT !.leased = FALSE]
  <2>1. records[r] \in Record /\ records \in [Records -> Record]
    BY DEF IntakeInv, IntakeTyped, IntakeTypeOK
  <2>2. records' = [records EXCEPT ![r] = d]
    BY <2>1 DEF LeaseEnds
  <2>3. /\ d \in Record /\ d.state = records[r].state /\ d.once = records[r].once
        /\ d.pending = records[r].pending /\ d.ambiguous = records[r].ambiguous
        /\ records'[r] = d
    BY <2>1, <2>2 DEF Record
  <2> HIDE DEF d
  <2>4. workspace = "live" => d.once \/ Kept(r)'
    <3>1. workspace = "live" => records[r].once \/ Kept(r)
      BY DEF IntakeInv
    <3>2. Untouched(r) /\ BytesOf(r) /\ WorkOn(r)
      BY <2>3 DEF Untouched, BytesOf, WorkOn, LeaseEnds, Writing, Clearing, storageVars
    <3>3. Kept(r) => Kept(r)'
      BY <1>2, <3>2, UntouchedIsKept
    <3> QED BY <2>3, <3>1, <3>3
  <2> QED BY <1>2, <2>2, <2>3, <2>4, LightChange DEF LeaseEnds
<1> QED BY <1>1, <1>2

\* A record is discarded; its removal begins.
LEMMA DiscardKeeps ==
  ASSUME IntakeInv, NEW r \in Records, NEW d \in Record, NEW who \in {"member", "sweep"},
         records' = [records EXCEPT ![r] = d], UNCHANGED <<attempts, storageVars>>,
         removals' = removals \cup {<<who, r, "remove">>},
         d.state = "cancelled", d.pending, d.once = records[r].once,
         records[r].state # "none",
         workspace = "live" =>
           \/ d.once \/ d.ambiguous
           \/ records[r].state = "cancelled" /\ d.ambiguous = records[r].ambiguous
  PROVE  IntakeInv'
<1>1. /\ attempts' \in [Uploaders -> Attempt]
      /\ removals' \in SUBSET ({"member", "sweep"} \X Records \X {"remove", "clear"})
      /\ records'[r] = d
  BY DEF IntakeInv, IntakeTyped, IntakeTypeOK
<1>2. \A q \in Records : (Writing(q)' => Writing(q)) /\ (Clearing(q)' => Clearing(q))
  BY DEF Writing, Clearing
<1>3. objects' = objects /\ late' = late
  BY DEF storageVars
<1>4. workspace = "live" => d.once \/ Kept(r)'
  <2> SUFFICES ASSUME workspace = "live", ~d.once PROVE Kept(r)'
    OBVIOUS
  <2>1. Kept(r)
    BY DEF IntakeInv
  <2>2. CASE d.ambiguous
    BY <1>1, <2>2 DEF Kept, Unmade, Discardable
  <2>3. CASE records[r].state = "cancelled" /\ ~d.ambiguous /\ ~records[r].ambiguous
    <3>1. /\ Document(r) \notin late /\ ~Writing(r)
          /\ Clearing(r) => Document(r) \notin objects
      BY <2>1, <2>3 DEF Kept, Discardable
    <3>2. /\ Document(r) \notin late' /\ ~Writing(r)'
          /\ Clearing(r)' => Document(r) \notin objects'
      BY <1>2, <1>3, <3>1
    <3>3. Discardable(r)'
      BY <1>1, <3>2 DEF Discardable, Document
    <3> QED BY <1>1, <3>3 DEF Kept, Unmade
  <2> QED BY <2>2, <2>3
<1>5. /\ \A u \in Uploaders : attempts'[u] = attempts[u]
      /\ \A c \in removals' : c[2] = r \/ c \in removals
      /\ d.state \in {"cancelled", "gone"} /\ UNCHANGED storageVars
  OBVIOUS
<1> QED BY <1>1, <1>2, <1>4, <1>5, OneRecordChanges

LEMMA ClaimKeeps ==
  ASSUME IntakeInv, NEW r \in Records, Claim(r),
         records[r].state \in {"reserved", "cancelled"}
  PROVE  IntakeInv'
<1> DEFINE d == Discarded(r)
<1>1. records[r] \in Record
  BY DEF IntakeInv, IntakeTyped, IntakeTypeOK
<1>2. /\ d \in Record /\ d.state = "cancelled" /\ d.pending /\ d.once = records[r].once
      /\ d.ambiguous = (records[r].ambiguous
                          \/ (records[r].state = "reserved" /\ ~records[r].pending))
  BY <1>1 DEF Record, Discarded
<1>3. workspace = "live" =>
        \/ d.once \/ d.ambiguous
        \/ records[r].state = "cancelled" /\ d.ambiguous = records[r].ambiguous
  BY <1>1, <1>2 DEF IntakeInv, Kept, Record
<1> HIDE DEF d
<1>4. records' = [records EXCEPT ![r] = d]
  BY DEF Claim, d
<1> QED BY <1>2, <1>3, <1>4, DiscardKeeps DEF Claim

LEMMA DeleteKeeps ==
  ASSUME IntakeInv, NEW r \in Records, Delete(r) PROVE IntakeInv'
<1> DEFINE d == [records[r] EXCEPT !.state = "cancelled", !.pending = TRUE,
                   !.ambiguous = @ \/ records[r].state = "reserved"]
<1>1. records[r] \in Record /\ records \in [Records -> Record]
  BY DEF IntakeInv, IntakeTyped, IntakeTypeOK
<1>2. /\ d \in Record /\ d.state = "cancelled" /\ d.pending /\ d.once = records[r].once
      /\ d.ambiguous = (records[r].ambiguous \/ records[r].state = "reserved")
  BY <1>1 DEF Record
<1>3. d.once \/ d.ambiguous
  BY <1>2 DEF IntakeInv, AcceptedStored, Delete, Live
<1>4. records' = [records EXCEPT ![r] = d]
  BY <1>1 DEF Delete
<1> HIDE DEF d
<1> QED BY <1>2, <1>3, <1>4, DiscardKeeps DEF Delete, Live

\* The object of a discarded record goes.
LEMMA RemoveKeeps ==
  ASSUME IntakeInv, NEW c \in removals, RemoveObject(c) PROVE IntakeInv'
<1> DEFINE q == c[2]
<1>1. /\ c \in {"member", "sweep"} \X Records \X {"remove", "clear"}
      /\ records[q].state \in {"cancelled", "gone"}
      /\ \A x \in removals : x[2] \in Records
  BY DEF IntakeInv, IntakeTyped, IntakeTypeOK
<1>2. /\ objects' \in {objects, objects \ {Document(q)}} /\ late' = late
      /\ UNCHANGED <<records, attempts, workspace>>
  BY DEF RemoveObject, Remove
<1>3. \/ removals' \subseteq removals
      \/ /\ removals' = (removals \ {c}) \cup {<<c[1], q, "clear">>}
         /\ objects' = objects \ {Document(q)}
  BY DEF RemoveObject, Remove
<1>4. <<c[1], q, "clear">> \in {"member", "sweep"} \X Records \X {"remove", "clear"}
  BY <1>1
<1>5. IntakeTyped'
  BY <1>2, <1>3, <1>4 DEF IntakeInv, IntakeTyped, IntakeTypeOK, StorageTypeOK
<1>6. ASSUME NEW r \in Records PROVE Untouched(r) /\ BytesOf(r) /\ WorkOn(r)
  <2>1. r # q => Document(r) # Document(q)
    BY DocumentsDiffer
  <2>2. BytesOf(r)
    BY <1>1, <1>2, <2>1 DEF BytesOf
  <2>3. Writing(r)' => Writing(r)
    BY <1>2 DEF Writing
  <2>4. Clearing(r)' => Clearing(r) \/ Document(r) \notin objects'
    <3> SUFFICES ASSUME NEW x \in removals', x[2] = r, x[3] = "clear"
                 PROVE  Clearing(r) \/ Document(r) \notin objects'
      BY DEF Clearing
    <3>1. CASE x \in removals
      BY <3>1 DEF Clearing
    <3>2. CASE x \notin removals
      BY <1>3, <3>2
    <3> QED BY <3>1, <3>2
  <2> QED BY <1>2, <2>2, <2>3, <2>4 DEF Untouched, WorkOn
<1>7. \A x \in removals' :
        /\ x \in removals \/ records[x[2]].state \in {"cancelled", "gone"}
        /\ x[2] \in Records
  BY <1>1, <1>3, <1>4
<1>8. /\ \A u \in Uploaders : attempts'[u] = attempts[u]
      /\ workspace' = workspace
  BY <1>2
<1> QED BY <1>5, <1>6, <1>7, <1>8, RecordsStay

\* What is not ambiguous has no bytes when its flag is cleared.
LEMMA ClearKeeps ==
  ASSUME IntakeInv, NEW c \in removals, Clear(c) PROVE IntakeInv'
<1>0. c[2] \in Records
  BY DEF IntakeInv, IntakeTyped, IntakeTypeOK
<1>1. PICK q \in Records : q = c[2]
  BY <1>0
<1>2. /\ records[q].state \in {"cancelled", "gone"} /\ Clearing(q)
      /\ records[q] \in Record /\ records \in [Records -> Record]
  BY <1>1 DEF IntakeInv, IntakeTyped, IntakeTypeOK, Clearing, Clear
<1>3. PICK d \in {Cleared(q), records[q]} : records' = [records EXCEPT ![q] = d]
  BY <1>1, <1>2 DEF Clear
<1>4. /\ d \in Record /\ d.state = records[q].state /\ d.once = records[q].once
      /\ d.ambiguous = records[q].ambiguous
      /\ d.pending = records[q].pending \/ ~d.ambiguous
      /\ records'[q] = d
  BY <1>2, <1>3 DEF Record, Cleared
<1>5. /\ UNCHANGED <<attempts, storageVars>> /\ removals' \subseteq removals
      /\ objects' = objects /\ late' = late
  BY DEF Clear, storageVars
<1>6. workspace = "live" => d.once \/ Kept(q)'
  <2> SUFFICES ASSUME workspace = "live", ~d.once PROVE Kept(q)'
    OBVIOUS
  <2>1. Kept(q)
    BY <1>4 DEF IntakeInv
  <2>2. CASE d.ambiguous
    BY <1>2, <1>4, <2>1, <2>2 DEF Kept, Unmade, Discardable
  <2>3. CASE ~d.ambiguous
    <3>1. Document(q) \notin late /\ ~Writing(q) /\ Document(q) \notin objects
      BY <1>2, <1>4, <2>1, <2>3 DEF Kept, Discardable
    <3>2. Document(q) \notin late' /\ ~Writing(q)' /\ Document(q) \notin objects'
      BY <1>5, <3>1 DEF Writing
    <3>3. Discardable(q)'
      BY <1>4, <2>3, <3>2 DEF Discardable, Document
    <3> QED BY <1>2, <1>4, <3>3 DEF Kept, Unmade
  <2> QED BY <2>2, <2>3
<1>7. records[q].state # "none"
  BY <1>2
<1> QED BY <1>3, <1>4, <1>5, <1>6, <1>7, LightChange

LEMMA SettleKeeps ==
  ASSUME IntakeInv, NEW r \in Records, Settle(r) PROVE IntakeInv'
<1> DEFINE d == [records[r] EXCEPT !.pending = FALSE, !.ambiguous = FALSE]
<1>1. records[r] \in Record /\ records \in [Records -> Record]
  BY DEF IntakeInv, IntakeTyped, IntakeTypeOK
<1>2. records' = [records EXCEPT ![r] = d]
  BY <1>1 DEF Settle
<1>3. /\ d \in Record /\ d.state = "cancelled" /\ d.once = records[r].once
      /\ ~d.pending /\ ~d.ambiguous /\ records'[r] = d
  BY <1>1, <1>2 DEF Record, Settle
<1> HIDE DEF d
<1>4. /\ Document(r) \notin objects' /\ Document(r) \notin late' /\ ~Writing(r)'
  BY DEF Settle, storageVars, Writing
<1>5. Discardable(r)'
  BY <1>3, <1>4 DEF Discardable, Document
<1>6. Kept(r)'
  BY <1>3, <1>5 DEF Kept, Unmade
<1>7. /\ records[r].state = "cancelled" /\ removals' = removals
      /\ UNCHANGED <<attempts, storageVars>>
  BY DEF Settle
<1> QED BY <1>2, <1>3, <1>6, <1>7, LightChange

LEMMA ExpireKeeps ==
  ASSUME IntakeInv, NEW r \in Records, Expire(r) PROVE IntakeInv'
<1> DEFINE d == [records[r] EXCEPT !.state = "gone", !.leased = FALSE]
<1>1. records[r] \in Record /\ records \in [Records -> Record]
  BY DEF IntakeInv, IntakeTyped, IntakeTypeOK
<1>2. records' = [records EXCEPT ![r] = d]
  BY <1>1 DEF Expire
<1>3. /\ d \in Record /\ d.state = "gone" /\ d.once = records[r].once
      /\ d.pending = records[r].pending /\ d.ambiguous = records[r].ambiguous
      /\ records'[r] = d
  BY <1>1, <1>2 DEF Record
<1> HIDE DEF d
<1>4. /\ records[r].state = "cancelled" /\ removals' = removals
      /\ UNCHANGED <<attempts, storageVars>>
  BY DEF Expire
<1>5. Untouched(r) /\ BytesOf(r) /\ WorkOn(r)
  BY <1>3, <1>4 DEF Untouched, BytesOf, WorkOn, Writing, Clearing, storageVars
<1>6. Kept(r) => Kept(r)'
  BY <1>5, <1>4, UntouchedIsKept
<1>7. workspace = "live" => d.once \/ Kept(r)'
  BY <1>3, <1>6 DEF IntakeInv
<1> QED BY <1>2, <1>3, <1>4, <1>7, LightChange

\* A write that was given up arrives, or will not.
LEMMA LandKeeps ==
  ASSUME IntakeInv, NEW path \in Paths, Land(path), UNCHANGED intakeVars
  PROVE  IntakeInv'
<1>1. IntakeTyped'
  BY DEF IntakeInv, IntakeTyped, IntakeTypeOK, StorageTypeOK, Land, intakeVars
<1>2. ASSUME NEW r \in Records PROVE Untouched(r) /\ BytesOf(r) /\ WorkOn(r)
  BY DEF Untouched, BytesOf, WorkOn, Writing, Clearing, Land, intakeVars
<1>3. /\ \A u \in Uploaders : attempts'[u] = attempts[u]
      /\ removals' = removals /\ workspace' = workspace
  BY DEF Land, intakeVars
<1>4. \A c \in removals : c[2] \in Records
  BY DEF IntakeInv, IntakeTyped, IntakeTypeOK
<1> QED BY <1>1, <1>2, <1>3, <1>4, RecordsStay

\* Objects that are no documents come and go.
LEMMA OthersStored ==
  ASSUME IntakeInv, UNCHANGED <<intakeVars, workspace, late>>, objects' \in SUBSET Paths,
         \A r \in Records : Document(r) \in objects' <=> Document(r) \in objects
  PROVE  IntakeInv'
<1>1. IntakeTyped'
  BY DEF IntakeInv, IntakeTyped, IntakeTypeOK, StorageTypeOK, intakeVars
<1>2. ASSUME NEW r \in Records PROVE Untouched(r) /\ BytesOf(r) /\ WorkOn(r)
  BY DEF Untouched, BytesOf, WorkOn, Writing, Clearing, intakeVars
<1>3. \A u \in Uploaders : attempts'[u] = attempts[u]
  BY DEF intakeVars
<1>4. \A c \in removals' : c \in removals /\ c[2] \in Records
  BY DEF IntakeInv, IntakeTyped, IntakeTypeOK, intakeVars
<1> QED BY <1>1, <1>2, <1>3, <1>4, RecordsStay

LEMMA CleanUpKeeps ==
  ASSUME IntakeInv, CleanUp PROVE IntakeInv'
BY ClaimKeeps, SettleKeeps, ExpireKeeps, LeaseEndsKeeps, RemoveKeeps, ClearKeeps
   DEF CleanUp, ClaimPending

-----------------------------------------------------------------------------
(* What the invariant says.                                                  *)

LEMMA BytesRemembered ==
  ASSUME IntakeInv PROVE AcceptedHasObject /\ BytesAreRemembered
<1>1. AcceptedHasObject
  BY DEF IntakeInv, AcceptedStored, AcceptedHasObject
<1>2. ASSUME workspace = "live", NEW r \in Records, Document(r) \in objects,
             ~records[r].once
      PROVE  records[r].state = "reserved" \/ records[r].pending
  <2>1. Kept(r) /\ AcceptedStored(r)
    BY <1>2 DEF IntakeInv
  <2>2. records[r].state \in {"none", "reserved", "accepted", "cancelled", "gone"}
    BY DEF IntakeInv, IntakeTyped, IntakeTypeOK, Record
  <2> QED BY <1>2, <2>1, <2>2 DEF Kept, Unmade, Discardable, AcceptedStored
<1> QED BY <1>1, <1>2 DEF BytesAreRemembered
=============================================================================
