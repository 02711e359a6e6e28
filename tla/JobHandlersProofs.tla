-------------------------- MODULE JobHandlersProofs --------------------------
(***************************************************************************)
(* What the steps of handlers and of the queue keep true of the jobs, for  *)
(* the proofs of the components whose work is a job.  A component's own    *)
(* handlers are at Steps and have seen a member of Seen.                   *)
(***************************************************************************)
EXTENDS JobHandlers, TLAPS

\* A job is recorded, or asked for again.
LEMMA RequeueTyped ==
  ASSUME NEW Steps, NEW Seen, WorkTypeOK(Steps, Seen), NEW j \in Jobs,
         Queue!Record(j) \/ RequeueOrEnqueue(j),
         UNCHANGED <<handlers, stalls, exits>>
  PROVE  WorkTypeOK(Steps, Seen)'
<1>1. Queue!Record(j) \/ Queue!Restart(j) \/ UNCHANGED jobVars
  BY DEF RequeueOrEnqueue, Enqueue
<1>2. /\ outcome' \in [Jobs -> {"absent", "pending", "succeeded", "failed"}]
      /\ tries' \in [Jobs -> 0 .. MaxAttempts]
  <2>1. CASE Queue!Record(j) \/ Queue!Restart(j)
    BY <2>1, HandlersAssumption DEF WorkTypeOK, Queue!Record, Queue!Restart
  <2>2. CASE UNCHANGED jobVars
    BY <2>2 DEF WorkTypeOK, jobVars
  <2> QED BY <1>1, <2>1, <2>2
<1> QED BY <1>2 DEF WorkTypeOK

\* A handler begins.
LEMMA BeginTyped ==
  ASSUME NEW Steps, NEW Seen, WorkTypeOK(Steps, Seen), NEW j \in Jobs,
         NEW at \in Steps, NEW seen \in Seen, Begin(j, at, seen)
  PROVE  WorkTypeOK(Steps, Seen)'
<1> DEFINE h == [job |-> j, slot |-> stalls', attempt |-> tries[j] + 1,
                 at |-> at, seen |-> seen]
<1>1. stalls' \in 0 .. MaxStalls
  BY HandlersAssumption DEF WorkTypeOK, Begin
<1>2. tries[j] < MaxAttempts /\ tries[j] \in 0 .. MaxAttempts
  BY DEF WorkTypeOK, Begin, Queue!Try
<1>3. tries[j] + 1 \in 1 .. MaxAttempts
  BY <1>2, HandlersAssumption
<1>4. h \in Handler(Steps, Seen)
  BY <1>1, <1>3 DEF Handler
<1>5. handlers' \in SUBSET Handler(Steps, Seen)
  BY <1>4 DEF WorkTypeOK, Begin
<1>6. tries' \in [Jobs -> 0 .. MaxAttempts]
  <2>1. tries' = [k \in Jobs |-> IF k \in {j} THEN tries[k] + 1 ELSE tries[k]]
    BY DEF Begin, Queue!Try
  <2>2. \A k \in Jobs : tries[k] \in 0 .. MaxAttempts
    BY DEF WorkTypeOK
  <2> QED BY <2>1, <2>2, <1>3, HandlersAssumption
<1>7. outcome' \in [Jobs -> {"absent", "pending", "succeeded", "failed"}]
  BY DEF WorkTypeOK, Begin, Queue!GiveUp
<1> QED BY <1>1, <1>5, <1>6, <1>7 DEF WorkTypeOK, Begin

\* A handler goes on.
LEMMA BecomesTyped ==
  ASSUME NEW Steps, NEW Seen, WorkTypeOK(Steps, Seen), NEW h \in handlers,
         NEW at \in Steps \cup Ends, NEW seen \in Seen,
         Becomes(h, [h EXCEPT !.at = at, !.seen = seen]),
         UNCHANGED <<jobVars, stalls, exits>>
  PROVE  WorkTypeOK(Steps, Seen)'
<1>1. h \in Handler(Steps, Seen)
  BY DEF WorkTypeOK
<1>2. [h EXCEPT !.at = at, !.seen = seen] \in Handler(Steps, Seen)
  BY <1>1 DEF Handler
<1> QED BY <1>2 DEF WorkTypeOK, Becomes, jobVars

LEMMA GoesTyped ==
  ASSUME NEW Steps, NEW Seen, WorkTypeOK(Steps, Seen), NEW h \in handlers,
         NEW at \in Steps \cup Ends, Goes(h, at),
         UNCHANGED <<jobVars, stalls, exits>>
  PROVE  WorkTypeOK(Steps, Seen)'
<1>1. h \in Handler(Steps, Seen)
  BY DEF WorkTypeOK
<1>2. [h EXCEPT !.at = at] \in Handler(Steps, Seen)
  BY <1>1 DEF Handler
<1> QED BY <1>2 DEF WorkTypeOK, Goes, Becomes, jobVars

\* The outcome write of the runner.
LEMMA SettleTyped ==
  ASSUME NEW Steps, NEW Seen, WorkTypeOK(Steps, Seen), NEW h \in handlers,
         SettleJob(h)
  PROVE  WorkTypeOK(Steps, Seen)'
<1>1. h.job \in Jobs
  BY DEF WorkTypeOK, Handler
<1>2. \/ Queue!Succeed(h.job) \/ Queue!Fail(h.job) \/ UNCHANGED jobVars
  BY DEF SettleJob
<1>3. /\ outcome' \in [Jobs -> {"absent", "pending", "succeeded", "failed"}]
      /\ tries' \in [Jobs -> 0 .. MaxAttempts]
  BY <1>1, <1>2 DEF WorkTypeOK, Queue!Succeed, Queue!Fail, jobVars
<1> QED BY <1>3 DEF WorkTypeOK, SettleJob

\* A handler vanishes.
LEMMA VanishTyped ==
  ASSUME NEW Steps, NEW Seen, WorkTypeOK(Steps, Seen), NEW h \in handlers,
         Vanish(h)
  PROVE  WorkTypeOK(Steps, Seen)'
<1>1. h.job \in Jobs
  BY DEF WorkTypeOK, Handler
<1>2. /\ outcome' \in [Jobs -> {"absent", "pending", "succeeded", "failed"}]
      /\ tries' \in [Jobs -> 0 .. MaxAttempts]
  <2>1. CASE UNCHANGED jobVars
    BY <2>1 DEF WorkTypeOK, jobVars
  <2>2. CASE Queue!HandBack(h.job)
    BY <1>1, <2>2, HandlersAssumption DEF WorkTypeOK, Queue!HandBack
  <2> QED BY <2>1, <2>2 DEF Vanish
<1>3. exits' \in 0 .. MaxExits
  BY HandlersAssumption DEF WorkTypeOK, Vanish
<1> QED BY <1>2, <1>3 DEF WorkTypeOK, Vanish

\* The reaper fails a job.
LEMMA ReapTyped ==
  ASSUME NEW Steps, NEW Seen, WorkTypeOK(Steps, Seen), NEW j \in Jobs, Reap(j)
  PROVE  WorkTypeOK(Steps, Seen)'
<1>1. outcome' \in [Jobs -> {"absent", "pending", "succeeded", "failed"}]
  BY DEF WorkTypeOK, Reap, Queue!GiveUp
<1>2. tries' = [k \in Jobs |-> tries[k]]
  BY DEF Reap, Queue!Try
<1> QED BY <1>1, <1>2 DEF WorkTypeOK, Reap

\* No job is forgotten, whatever happens to it or to its handler.
Remembered == \A j \in Jobs : outcome[j] # "absent" => outcome'[j] # "absent"

LEMMA JobsAreRemembered ==
  ASSUME NEW Steps, NEW Seen, WorkTypeOK(Steps, Seen),
         \/ UNCHANGED jobVars
         \/ \E j \in Jobs : Queue!Record(j) \/ RequeueOrEnqueue(j) \/ Reap(j)
         \/ \E j \in Jobs : \E at, seen : Begin(j, at, seen)
         \/ \E h \in handlers : SettleJob(h) \/ Vanish(h)
  PROVE  Remembered
<1>1. DOMAIN outcome = Jobs
  BY DEF WorkTypeOK
<1>2. ASSUME NEW j \in Jobs, Queue!Record(j) \/ RequeueOrEnqueue(j) PROVE Remembered
  BY <1>1, <1>2 DEF Remembered, RequeueOrEnqueue, Enqueue, Queue!Record, Queue!Restart,
                    jobVars
<1>3. ASSUME NEW j \in Jobs, Reap(j) PROVE Remembered
  BY <1>3 DEF Remembered, Reap, Queue!GiveUp
<1>4. ASSUME NEW j \in Jobs, NEW at, NEW seen, Begin(j, at, seen) PROVE Remembered
  BY <1>4 DEF Remembered, Begin, Queue!GiveUp
<1>5. ASSUME NEW h \in handlers, SettleJob(h) \/ Vanish(h) PROVE Remembered
  BY <1>1, <1>5 DEF Remembered, SettleJob, Vanish, Queue!Succeed, Queue!Fail,
                    Queue!HandBack, jobVars
<1>6. CASE UNCHANGED jobVars
  BY <1>6 DEF Remembered, jobVars
<1> QED BY <1>2, <1>3, <1>4, <1>5, <1>6

-----------------------------------------------------------------------------
(* While no handler has outlived its lease, a job has one handler, and it is *)
(* still to be settled.                                                      *)

HandlersAlone ==
  stalls = 0 =>
    /\ \A h, g \in handlers : h.job = g.job => h = g
    /\ \A h \in handlers : outcome[h.job] = "pending"

\* What a component may do to its jobs and handlers in one step.
WorkStep ==
  \/ UNCHANGED workVars
  \/ /\ \E j \in Jobs : Queue!Record(j) \/ RequeueOrEnqueue(j)
     /\ UNCHANGED <<handlers, stalls, exits>>
  \/ \E j \in Jobs : \E at, seen : Begin(j, at, seen)
  \/ \E h \in handlers : \E t :
       t.job = h.job /\ Becomes(h, t) /\ UNCHANGED <<jobVars, stalls, exits>>
  \/ \E h \in handlers : SettleJob(h) \/ Vanish(h)
  \/ \E j \in Jobs : Reap(j)

LEMMA HandlersStayAlone ==
  ASSUME NEW Steps, NEW Seen, WorkTypeOK(Steps, Seen), HandlersAlone, WorkStep
  PROVE  HandlersAlone' /\ (stalls' = 0 => stalls = 0)
<1>1. /\ DOMAIN outcome = Jobs /\ stalls \in Nat
      /\ \A h \in handlers : h.job \in Jobs
  BY HandlersAssumption DEF WorkTypeOK, Handler
<1>2. CASE UNCHANGED workVars
  BY <1>2 DEF HandlersAlone, workVars
<1>3. ASSUME NEW j \in Jobs, Queue!Record(j) \/ RequeueOrEnqueue(j),
             UNCHANGED <<handlers, stalls, exits>>
      PROVE  HandlersAlone' /\ (stalls' = 0 => stalls = 0)
  <2>1. \A k \in Jobs : outcome[k] = "pending" => outcome'[k] = "pending"
    BY <1>1, <1>3 DEF RequeueOrEnqueue, Enqueue, Queue!Record, Queue!Restart, jobVars
  <2> QED BY <1>1, <1>3, <2>1 DEF HandlersAlone
<1>4. ASSUME NEW j \in Jobs, NEW at, NEW seen, Begin(j, at, seen)
      PROVE  HandlersAlone' /\ (stalls' = 0 => stalls = 0)
  <2> DEFINE new == [job |-> j, slot |-> stalls', attempt |-> tries[j] + 1, at |-> at,
                     seen |-> seen]
  <2>1. /\ stalls' = IF HandlersOf(j) = {} THEN stalls ELSE stalls + 1
        /\ handlers' = handlers \cup {new} /\ new.job = j
        /\ outcome[j] = "pending" /\ \A k \in Jobs : outcome'[k] = outcome[k]
    BY <1>4 DEF Begin, Queue!GiveUp, Queue!Try
  <2> HIDE DEF new
  <2>2. stalls' = 0 => stalls = 0 /\ \A h \in handlers : h.job # j
    BY <1>1, <2>1 DEF HandlersOf
  <2> QED BY <1>1, <2>1, <2>2 DEF HandlersAlone
<1>5. ASSUME NEW h \in handlers, NEW t, t.job = h.job, Becomes(h, t),
             UNCHANGED <<jobVars, stalls, exits>>
      PROVE  HandlersAlone' /\ (stalls' = 0 => stalls = 0)
  BY <1>5 DEF HandlersAlone, Becomes, jobVars
<1>6. ASSUME NEW h \in handlers, SettleJob(h) \/ Vanish(h)
      PROVE  HandlersAlone' /\ (stalls' = 0 => stalls = 0)
  <2>1. stalls' = stalls /\ handlers' = handlers \ {h}
    BY <1>6 DEF SettleJob, Vanish
  <2>2. \A k \in Jobs : k # h.job => outcome'[k] = outcome[k]
    BY <1>1, <1>6 DEF SettleJob, Vanish, Queue!Succeed, Queue!Fail, Queue!HandBack, jobVars
  <2> QED BY <1>1, <2>1, <2>2 DEF HandlersAlone
<1>7. ASSUME NEW j \in Jobs, Reap(j)
      PROVE  HandlersAlone' /\ (stalls' = 0 => stalls = 0)
  <2>1. /\ stalls' = stalls /\ handlers' = handlers
        /\ stalls = 0 => \A h \in handlers : h.job # j
        /\ \A k \in Jobs : k # j => outcome'[k] = outcome[k]
    BY <1>1, <1>7 DEF Reap, Queue!GiveUp, HandlersOf
  <2> QED BY <1>1, <2>1 DEF HandlersAlone
<1> QED BY <1>2, <1>3, <1>4, <1>5, <1>6, <1>7 DEF WorkStep
=============================================================================
