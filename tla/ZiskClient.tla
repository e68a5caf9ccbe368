----------------------------- MODULE ZiskClient -----------------------------
(***************************************************************************)
(* Prove and Close of the ZisK client, src/internal/zisk/client.go, after  *)
(* Dial (module ZiskProvision), called one after the other by Forwarder.   *)
(*                                                                         *)
(* The coordinator is external.  It draws the job identifiers, queues what *)
(* it admits, runs one job at a time and in order (a job takes every GPU), *)
(* refuses a proof without a setup, may refuse one while workers are       *)
(* missing, and forgets jobs and setups when it restarts.  Any request or  *)
(* its answer can be lost.                                                 *)
(***************************************************************************)
EXTENDS Naturals

CONSTANTS
  Calls,          \* how many times Prove is called
  MaxAttempts,    \* bound: submissions of one call
  MaxFaults,      \* bound: requests that fail in transport, over all calls
  MaxRestarts     \* bound: restarts of the coordinator

ASSUME ZiskClientAssumption ==
  /\ Calls \in Nat \ {0}
  /\ MaxAttempts \in Nat \ {0}
  /\ MaxFaults \in Nat
  /\ MaxRestarts \in Nat

VARIABLES
  call,       \* the number of the call that runs or ran last
  pc,         \* where the client is in that call
  ctx,        \* "live" until the caller's context ends
  attempt,    \* submissions the call has started
  measured,   \* history: the jobs that worked since started + submitWait,
              \* the transit of a submission apart
  result,     \* what each call returned
  verifier,   \* "open" until Close frees the native handle and the connection
  cluster,    \* external: "ready", or "short": workers missing or itself away
  setupDone,  \* external: the guest program has a completed setup
  status,     \* external: what the coordinator knows of each job
  orphans,    \* history: jobs a failed request separated from their call
  faults,     \* transport failures so far
  restarts    \* restarts so far

callVars == <<call, ctx, attempt, measured>>
clusterVars == <<cluster, setupDone, status>>
boundVars == <<orphans, faults, restarts>>
vars == <<callVars, pc, result, verifier, clusterVars, boundVars>>

Kinds == {"prove", "setup"}
Jobs == Kinds \X (1..Calls) \X (1..MaxAttempts)
Job(kind) == <<kind, call, attempt>>

\* JobStatus of the API.  A completed job carries a "good" result or a "bad"
\* one: the wrong kind, incomplete, a proof that does not verify, another key.
Ended == {"good", "bad", "failed", "cancelled"}
Pending == {"queued", "running"}
Statuses == {"unknown"} \union Pending \union Ended

\* The place of a job in the order of submission: each attempt queues one.
Turn(j) == j[2] * (MaxAttempts + 1) + j[3]
Running == {j \in Jobs : status[j] = "running"}

Init ==
  /\ call = 0
  /\ pc = "idle"
  /\ ctx = "live"
  /\ attempt = 0
  /\ measured = {}
  /\ result = [c \in 1..Calls |-> [kind |-> "pending", attempt |-> 0, measured |-> {}]]
  /\ verifier = "open"
  /\ cluster = "ready"
  /\ setupDone = TRUE
  /\ status = [j \in Jobs |-> "unknown"]
  /\ orphans = {}
  /\ faults = 0
  /\ restarts = 0

\* A request fails without an answer: its context or its connection is gone,
\* or it is lost.
NoAnswer ==
  \/ ctx = "ended" /\ UNCHANGED faults
  \/ verifier = "closed" /\ UNCHANGED faults
  \/ cluster = "short" /\ UNCHANGED faults
  \/ faults < MaxFaults /\ faults' = faults + 1

Return(kind) ==
  /\ result' = [result EXCEPT ![call] = [kind |-> kind, attempt |-> attempt, measured |-> measured]]
  /\ pc' = "idle"

\* LeavesOnlyOrphans: the wait ends and the job is left to run.
WaitFailsQuietly(kind) == Return(kind)

\* waitProveJob returned an error: the job is cancelled when the context ended.
WaitFails(kind) ==
  IF ctx = "ended" THEN pc' = "cancel" /\ UNCHANGED result
                   ELSE Return(kind)

Queue(j) == status' = [status EXCEPT ![j] = "queued"]

\* Work of a job the measured interval contains.  A cached setup is answered
\* at once.
Works(j) == j[1] = "prove" \/ ~setupDone

-----------------------------------------------------------------------------
(* Prove *)

BeginCall ==
  /\ pc = "idle"
  /\ call < Calls
  /\ call' = call + 1
  /\ ctx' = "live"
  /\ attempt' = 0
  /\ measured' = {}
  /\ pc' = "backoff"
  /\ UNCHANGED <<result, verifier, clusterVars, boundVars>>

\* The deadline passes or the caller leaves.
ContextEnds ==
  /\ pc # "idle"
  /\ ctx = "live"
  /\ ctx' = "ended"
  /\ UNCHANGED <<call, pc, attempt, measured, result, verifier, clusterVars, boundVars>>

\* MeasuresOwnJob: the wait is taken once, before the loop.
AttemptMeasuringAll ==
  /\ pc = "backoff"
  /\ ctx = "live" \/ attempt = 0
  /\ attempt < MaxAttempts
  /\ attempt' = attempt + 1
  /\ pc' = "submit"
  /\ UNCHANGED <<call, ctx, measured, result, verifier, clusterVars, boundVars>>

\* The next submission, at once or after the pause.  submitWait moves here, so
\* what started before is not measured.
Attempt ==
  /\ pc = "backoff"
  /\ ctx = "live" \/ attempt = 0
  /\ attempt < MaxAttempts
  /\ attempt' = attempt + 1
  /\ measured' = {}
  /\ pc' = "submit"
  /\ UNCHANGED <<call, ctx, result, verifier, clusterVars, boundVars>>

\* The context ends in the pause between two submissions.
SubmitExpires ==
  /\ pc = "backoff"
  /\ ctx = "ended" /\ attempt > 0
  /\ Return("expired")
  /\ UNCHANGED <<callVars, verifier, clusterVars, boundVars>>

SubmitAdmitted ==
  /\ pc = "submit"
  /\ ctx = "live" /\ verifier = "open"
  /\ setupDone
  /\ Queue(Job("prove"))
  /\ measured' = measured \union {j \in Running : Works(j)}
  /\ pc' = "poll"
  /\ UNCHANGED <<call, ctx, attempt, result, verifier, cluster, setupDone, boundVars>>

\* Unavailable and Internal are retried; the end of the context and a closed
\* connection are final.
SubmitUnanswered ==
  /\ pc = "submit"
  /\ NoAnswer
  /\ \/ UNCHANGED <<status, orphans>>
     \/ /\ setupDone                    \* queued, and the answer never arrives
        /\ Queue(Job("prove"))
        /\ orphans' = orphans \union {Job("prove")}
  /\ IF ctx = "ended" \/ verifier = "closed"
     THEN Return("expired")
     ELSE pc' = "backoff" /\ UNCHANGED result
  /\ UNCHANGED <<callVars, verifier, cluster, setupDone, restarts>>

\* The message names the missing setup: the next step submits one.
SubmitNeedsSetup ==
  /\ pc = "submit"
  /\ ctx = "live" /\ verifier = "open"
  /\ ~setupDone
  /\ pc' = "setup"
  /\ UNCHANGED <<callVars, result, verifier, clusterVars, boundVars>>

\* Every other status, and a framed input over the inline cap.
SubmitRejected ==
  /\ pc = "submit"
  /\ ctx = "live"
  /\ Return("rejected")
  /\ UNCHANGED <<callVars, verifier, clusterVars, boundVars>>

SetupAdmitted ==
  /\ pc = "setup"
  /\ ctx = "live" /\ verifier = "open"
  /\ Queue(Job("setup"))
  /\ pc' = "setupPoll"
  /\ UNCHANGED <<callVars, result, verifier, cluster, setupDone, boundVars>>

\* A setup that fails in any way, its own deadline included, ends the call.
SetupUnanswered ==
  /\ pc \in {"setup", "setupPoll"}
  /\ \/ NoAnswer
     \/ pc = "setupPoll" /\ UNCHANGED faults
  /\ \/ UNCHANGED status
     \/ pc = "setup" /\ Queue(Job("setup"))
  /\ Return("setup")
  /\ UNCHANGED <<callVars, verifier, cluster, setupDone, orphans, restarts>>

SetupEnds ==
  /\ pc = "setupPoll"
  /\ ctx = "live"
  /\ status[Job("setup")] \in Ended
  /\ IF status[Job("setup")] = "good" THEN pc' = "backoff" /\ UNCHANGED result
                                      ELSE Return("setup")
  /\ UNCHANGED <<callVars, verifier, clusterVars, boundVars>>

\* ReturnsWithContext: a failed poll is repeated.
PollRepeats ==
  /\ pc = "poll"
  /\ NoAnswer
  /\ UNCHANGED <<callVars, pc, result, verifier, clusterVars, orphans, restarts>>

\* One failed poll ends the wait.  The job of a live context runs on.
PollFails ==
  /\ pc = "poll"
  /\ NoAnswer \/ (status[Job("prove")] = "unknown" /\ UNCHANGED faults)
  /\ WaitFails("unanswered")
  /\ orphans' = IF ctx = "live" THEN orphans \union {Job("prove")} ELSE orphans
  /\ UNCHANGED <<callVars, verifier, clusterVars, restarts>>

\* A terminal status ends the wait; the others are polled on.
Completed(j) == status[j] \in {"good", "bad"}
Sound(j) == status[j] = "good"

\* TypeOK: the coordinator's word is the outcome.
PollBelieves ==
  /\ pc = "poll"
  /\ ctx = "live"
  /\ status[Job("prove")] \in Ended
  /\ Return(status[Job("prove")])
  /\ UNCHANGED <<callVars, verifier, clusterVars, boundVars>>

\* A completed proof is checked under the read lock, which a closed client
\* refuses.
PollEnds ==
  /\ pc = "poll"
  /\ ctx = "live"
  /\ status[Job("prove")] \in Ended
  /\ IF Completed(Job("prove")) /\ verifier = "open"
     THEN pc' = "verifying" /\ UNCHANGED result
     ELSE WaitFails("failed")
  /\ UNCHANGED <<callVars, verifier, clusterVars, boundVars>>

\* The verdict, which stands even when the context has ended meanwhile.
Verified ==
  /\ pc = "verifying"
  /\ IF Sound(Job("prove")) THEN Return("ok") ELSE WaitFails("failed")
  /\ UNCHANGED <<callVars, verifier, clusterVars, boundVars>>

\* cancelProveJob on a context of its own; its error is ignored.
Cancel ==
  /\ pc = "cancel"
  /\ Return("expired")
  /\ \/ /\ status' = [status EXCEPT ![Job("prove")] = IF @ \in Pending THEN "cancelled" ELSE @]
        /\ UNCHANGED <<orphans, faults>>
     \/ /\ \/ cluster = "short" \/ verifier = "closed"
           \/ faults < MaxFaults
        /\ faults' = IF cluster = "short" \/ verifier = "closed" THEN faults ELSE faults + 1
        /\ orphans' = orphans \union {Job("prove")}
        /\ UNCHANGED status
  /\ UNCHANGED <<callVars, verifier, cluster, setupDone, restarts>>

\* NoUseAfterFree: the handle is freed without the write lock.
CloseAtOnce ==
  /\ verifier = "open"
  /\ verifier' = "closed"
  /\ UNCHANGED <<callVars, pc, result, clusterVars, boundVars>>

\* Close, when the process stops with a proof still under way: the write lock
\* waits for the reader.
Close ==
  /\ verifier = "open"
  /\ pc # "verifying"
  /\ verifier' = "closed"
  /\ UNCHANGED <<callVars, pc, result, clusterVars, boundVars>>

-----------------------------------------------------------------------------
(* The coordinator *)

\* The oldest queued job starts when every worker is there.
JobStarts ==
  /\ cluster = "ready"
  /\ Running = {}
  /\ \E j \in Jobs :
       /\ status[j] = "queued"
       /\ \A k \in Jobs : status[k] = "queued" => Turn(j) <= Turn(k)
       /\ status' = [status EXCEPT ![j] = "running"]
       /\ measured' = IF Works(j) /\ pc # "submit" THEN measured \union {j} ELSE measured
  /\ UNCHANGED <<call, ctx, attempt, pc, result, verifier, cluster, setupDone, boundVars>>

JobEnds ==
  /\ \E j \in Running, s \in Ended :
       /\ status' = [status EXCEPT ![j] = s]
       /\ setupDone' = (setupDone \/ (j[1] = "setup" /\ s \in {"good", "bad"}))
  /\ UNCHANGED <<callVars, pc, result, verifier, cluster, boundVars>>

Restart ==
  /\ restarts < MaxRestarts
  /\ restarts' = restarts + 1
  /\ cluster' = "short"
  /\ setupDone' = FALSE
  /\ status' = [j \in Jobs |-> "unknown"]
  /\ UNCHANGED <<callVars, pc, result, verifier, orphans, faults>>

WorkersRegister ==
  /\ cluster = "short"
  /\ cluster' = "ready"
  /\ UNCHANGED <<callVars, pc, result, verifier, setupDone, status, boundVars>>

-----------------------------------------------------------------------------
Client ==
  \/ Attempt
  \/ SubmitExpires
  \/ SubmitAdmitted
  \/ SubmitUnanswered
  \/ SubmitNeedsSetup
  \/ SubmitRejected
  \/ SetupAdmitted
  \/ SetupUnanswered
  \/ SetupEnds
  \/ PollFails
  \/ PollEnds
  \/ Verified
  \/ Cancel

Coordinator == JobStarts \/ JobEnds \/ Restart \/ WorkersRegister

Next == BeginCall \/ ContextEnds \/ Client \/ Close \/ Coordinator

Spec == Init /\ [][Next]_vars

\* The client goroutine runs and its deadline passes.  Nothing is assumed of
\* the coordinator, which may hold a job for ever.
FairSpec == Spec /\ WF_vars(Client) /\ WF_vars(ContextEnds)

-----------------------------------------------------------------------------
(* Properties *)

Outcome == [kind : {"pending", "ok", "expired", "rejected", "setup", "unanswered", "failed"},
            attempt : 0..MaxAttempts, measured : SUBSET Jobs]

\* Every variable keeps its type.
TypeOK ==
  /\ call \in 0..Calls
  /\ pc \in {"idle", "backoff", "submit", "setup", "setupPoll", "poll", "verifying", "cancel"}
  /\ ctx \in {"live", "ended"}
  /\ attempt \in 0..MaxAttempts
  /\ measured \subseteq Jobs
  /\ result \in [1..Calls -> Outcome]
  /\ verifier \in {"open", "closed"}
  /\ cluster \in {"ready", "short"}
  /\ setupDone \in BOOLEAN
  /\ status \in [Jobs -> Statuses]
  /\ orphans \subseteq Jobs
  /\ faults \in 0..MaxFaults
  /\ restarts \in 0..MaxRestarts

\* The measured interval of a successful call contains the work of its own job,
\* and besides it only that of jobs a failed request took from their call:
\* never a setup the submission recovered, never a job an earlier call left.
MeasuresOwnJob ==
  \A c \in 1..Calls : result[c].kind = "ok" =>
    LET own == <<"prove", c, result[c].attempt>>
    IN  own \in result[c].measured /\ result[c].measured \ {own} \subseteq orphans

\* "Two callers cannot put two jobs on one cluster": once a call has returned,
\* a proof of its own that is still queued or running was orphaned by a request
\* that failed.  An expired wait cancels.
LeavesOnlyOrphans ==
  \A j \in Jobs :
    /\ j[1] = "prove" /\ status[j] \in Pending /\ j \notin orphans
    => /\ j[2] = call /\ j[3] = attempt
       /\ pc \in {"poll", "cancel"}

\* Close frees the native handle under no proof that is being checked.
NoUseAfterFree == pc = "verifying" => verifier = "open"

\* A call never outlives its context, however the coordinator behaves and
\* wherever the call was in submission, setup, wait or cancellation.
ReturnsWithContext ==
  \A c \in 1..Calls : call = c /\ ctx = "ended" ~> result[c].kind # "pending"
=============================================================================
