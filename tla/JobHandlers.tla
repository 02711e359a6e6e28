---------------------------- MODULE JobHandlers ----------------------------
(***************************************************************************)
(* Handlers that carry out jobs of the workflow queue, for the components  *)
(* whose work is a job.  The queue is taken at its word (JobLifecycle,     *)
(* which WorkflowQueue implements); what is added is what a handler may    *)
(* meet: it may vanish at any step, its outcome write may be late, and a   *)
(* heartbeat that stalls lets a second handler of the same job start.      *)
(*                                                                         *)
(* A component EXTENDS this module, names its jobs in Jobs and gives each  *)
(* step of its handler an action.                                          *)
(***************************************************************************)
EXTENDS Naturals, FiniteSets

CONSTANTS
  Jobs,         \* the jobs of the component
  MaxAttempts,  \* max_attempts of a job
  MaxStalls,    \* bound: leases that run out under a handler that goes on
  MaxExits      \* bound: handlers that vanish or hand their job back

ASSUME HandlersAssumption ==
  /\ MaxAttempts \in Nat \ {0}
  /\ {MaxStalls, MaxExits} \subseteq Nat

VARIABLES
  outcome,      \* the jobs, as JobLifecycle sees them
  tries,
  handlers,     \* handlers under way
  stalls, exits

jobVars == <<outcome, tries>>
workVars == <<outcome, tries, handlers, stalls, exits>>

Queue == INSTANCE JobLifecycle

\* What is left of a handler that is through: the runner's write on the job.
Ends == {"completing", "failing", "retrying"}

\* A handler is at one of Steps; Seen is what it read before.
Handler(Steps, Seen) ==
  [job     : Jobs,
   slot    : 0 .. MaxStalls,   \* tells the handlers of one job apart
   attempt : 1 .. MaxAttempts,
   at      : Steps \cup Ends,
   seen    : Seen]

WorkTypeOK(Steps, Seen) ==
  /\ outcome \in [Jobs -> {"absent", "pending", "succeeded", "failed"}]
  /\ tries \in [Jobs -> 0 .. MaxAttempts]
  /\ handlers \in SUBSET Handler(Steps, Seen)
  /\ stalls \in 0 .. MaxStalls
  /\ exits \in 0 .. MaxExits

\* Initially the jobs in S have been enqueued.
WorkInit(S) ==
  /\ outcome = [j \in Jobs |-> IF j \in S THEN "pending" ELSE "absent"]
  /\ tries = [j \in Jobs |-> 0]
  /\ handlers = {} /\ stalls = 0 /\ exits = 0

HandlersOf(j) == {h \in handlers : h.job = j}

NoHandlerLeft(j) == HandlersOf(j) = {}

-----------------------------------------------------------------------------
(* Writes on jobs that belong to a transaction of the component.             *)

\* enqueueWorkflowJob: one job per key; an existing one is left as it is.
Enqueue(j) ==
  IF outcome[j] = "absent" THEN Queue!Record(j) ELSE UNCHANGED jobVars

\* requeueFinishedWorkflowJob, else enqueueWorkflowJob.
RequeueOrEnqueue(j) ==
  IF outcome[j] \in {"succeeded", "failed"} THEN Queue!Restart(j) ELSE Enqueue(j)

-----------------------------------------------------------------------------
(* Handlers.                                                                 *)

\* A job without a handler is claimed; one with a handler only because the
\* handler's lease ran out.
Begin(j, at, seen) ==
  /\ Queue!GiveUp({}) /\ Queue!Try({j})
  /\ stalls' = IF HandlersOf(j) = {} THEN stalls ELSE stalls + 1
  /\ stalls' <= MaxStalls
  /\ handlers' = handlers \cup
       {[job |-> j, slot |-> stalls', attempt |-> tries[j] + 1, at |-> at,
         seen |-> seen]}
  /\ exits' = exits

\* The handler h goes on as t.
Becomes(h, t) == handlers' = (handlers \ {h}) \cup {t}

Goes(h, at) == Becomes(h, [h EXCEPT !.at = at])

\* No attempt follows: the handler's own last word on the failure is due.
LastWord(h, retryable) == ~retryable \/ h.attempt >= MaxAttempts

\* What the runner writes on the job of a handler that failed.
AfterFailure(h, retryable) ==
  IF LastWord(h, retryable) THEN "failing" ELSE "retrying"

\* The outcome write; that of a handler that lost its lease may hit nothing.
SettleJob(h) ==
  /\ h.at \in Ends
  /\ handlers' = handlers \ {h}
  /\ \/ h.at = "completing" /\ Queue!Succeed(h.job)
     \/ h.at = "failing" /\ Queue!Fail(h.job)
     \/ /\ h.at = "retrying" \/ stalls > 0
        /\ UNCHANGED jobVars
  /\ UNCHANGED <<stalls, exits>>

\* A crash, or a deploy that hands the job back.
Vanish(h) ==
  /\ exits < MaxExits
  /\ exits' = exits + 1
  /\ handlers' = handlers \ {h}
  /\ UNCHANGED jobVars \/ Queue!HandBack(h.job)
  /\ UNCHANGED stalls

\* The last attempt vanished: the reaper fails the job.
Reap(j) ==
  /\ HandlersOf(j) = {} \/ stalls > 0
  /\ Queue!GiveUp({j}) /\ Queue!Try({})
  /\ UNCHANGED <<handlers, stalls, exits>>
=============================================================================
