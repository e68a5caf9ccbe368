----------------------------- MODULE Forwarder -----------------------------
(***************************************************************************)
(* `provoor serve`: the process of src/cmd/provoor/main.go (serveCommand)  *)
(* with the JSON-RPC server of src/internal/serve/server.go in it.         *)
(*                                                                         *)
(* Main goroutine: provision, warm up, listen, and on a signal or an error *)
(* of the listener close the prover and leave. One handler goroutine per   *)
(* call: queue on the mutex, wait for the cluster, prove, judge the        *)
(* output, and after a failure prove the warmup block again before the     *)
(* mutex is given back.                                                    *)
(*                                                                         *)
(* The prover is abstract here: a call of Prove ends at any time with a    *)
(* verified outcome (only on a whole cluster) or an error.  OpenvmClient   *)
(* is one prover in detail.                                                *)
(***************************************************************************)
EXTENDS Integers, Sequences

CONSTANTS
  Requests,               \* the JSON-RPC calls of a run
  None,                   \* neither a call nor an output
  PublicValues,           \* the commitments a verified proof can carry
  ExpectedOutputs,        \* the outputs the fixtures expect
  WarmupOutput,           \* the output the warmup block commits to
  Configurations,         \* the ways the command can be started, see below
  MaxCrashes              \* bound: how often the cluster loses a worker

ASSUME ForwarderAssumption ==
  /\ None \notin Requests
  /\ None \notin PublicValues
  /\ None \notin ExpectedOutputs
  /\ None \notin {"VALID", "INVALID"}
  /\ PublicValues \subseteq Seq(Nat)
  /\ ExpectedOutputs \subseteq Seq(Nat)
  /\ WarmupOutput \in Seq(Nat)
  /\ Configurations \subseteq [failRun : BOOLEAN, readinessTrusted : BOOLEAN]
  /\ MaxCrashes \in Nat

VARIABLES
  config,     \* failRun: --on-cluster-error fail-run;  readinessTrusted: whether
              \* WaitReady waits for the cluster (openvm) or returns at once (zisk)
  proc,       \* the main goroutine's stage
  exit,       \* how the process ended, "running" until it did
  signalled,  \* the context of main is done
  closed,     \* the prover was released by the deferred Close
  serveError, \* Serve ended with an error of the listener
  pc,         \* where each call's handler is
  client,     \* "here" while the caller's connection is open, else "gone"
  expected,   \* the expectedStatelessOutput a call carried
  outcome,    \* the verified public values of a call's own proof
  cause,      \* what made a call's proof fail
  verdict,    \* the answer a handler computed
  holder,     \* the owner of Server.mu
  metrics,    \* the metric lines written to Output
  cluster,    \* external: "whole", or "crashed" while a worker is missing
  warm,       \* external: the workers have paid their one-time costs
  crashes,    \* number of crashes so far
  debt        \* history: "owed" from a failed proof until it is made good

stopVars == <<closed, serveError>>
procVars == <<config, proc, exit, signalled, stopVars>>
proofVars == <<expected, outcome, cause>>
answerVars == <<verdict, holder, metrics>>
callVars == <<pc, client, proofVars, answerVars>>
clusterVars == <<cluster, warm, crashes>>
vars == <<procVars, callVars, clusterVars, debt>>

\* The stages in which a handler goroutine can run.
Alive == proc \in {"listening", "closing"}

\* The handler of call r goes from one place to another.
Move(r, from, to) ==
  /\ Alive
  /\ pc[r] = from
  /\ pc' = [pc EXCEPT ![r] = to]

(***************************************************************************)
(* A definition whose name says what it forgets (OutputMatchedOverlap,     *)
(* StartRewarmUnlocked, ...) is not part of the model.  It is the slip in  *)
(* the code that the property named in its comment is there to notice.     *)
(***************************************************************************)

\* ValidIsProved: the lengths are not compared, only the bytes both have.
OutputMatchedOverlap(publicValues, want) ==
  /\ \A i \in DOMAIN want \intersect DOMAIN publicValues :
       publicValues[i] = want[i]
  /\ \A i \in (Len(want) + 1)..Len(publicValues) : publicValues[i] = 0

(***************************************************************************)
(* outputMatched: the expected output is a prefix of the commitment and    *)
(* the tail is all zero.                                                   *)
(***************************************************************************)
OutputMatched(publicValues, want) ==
  /\ Len(want) <= Len(publicValues)
  /\ \A i \in 1..Len(want) : publicValues[i] = want[i]
  /\ \A i \in (Len(want) + 1)..Len(publicValues) : publicValues[i] = 0

Verdict(matched) == IF matched THEN "VALID" ELSE "INVALID"

Init ==
  /\ config \in Configurations
  /\ proc = "provisioning"
  /\ exit = "running"
  /\ signalled = FALSE
  /\ closed = FALSE
  /\ serveError = FALSE
  /\ pc = [r \in Requests |-> "idle"]
  /\ client = [r \in Requests |-> "here"]
  /\ expected = [r \in Requests |-> None]
  /\ outcome = [r \in Requests |-> None]
  /\ cause = [r \in Requests |-> None]
  /\ verdict = [r \in Requests |-> None]
  /\ holder = None
  /\ metrics = <<>>
  /\ cluster = "whole"
  /\ warm = FALSE
  /\ crashes = 0
  /\ debt = "clear"

-----------------------------------------------------------------------------
(* The main goroutine *)

\* Dial and WaitReady, both on the context of main.
Provision ==
  /\ proc = "provisioning"
  /\ ~signalled
  /\ cluster = "whole"
  /\ proc' = "warming"
  /\ UNCHANGED <<config, exit, signalled, stopVars, callVars, clusterVars, debt>>

\* PortOpensWarm: the output of the first warmup is not judged.
WarmupUnjudged ==
  /\ proc = "warming"
  /\ cluster = "whole"
  /\ \E publicValues \in PublicValues :
       warm' = OutputMatched(publicValues, WarmupOutput)
  /\ proc' = "binding"
  /\ UNCHANGED <<config, exit, signalled, stopVars, callVars, cluster, crashes,
                 debt>>

\* Warmup: one proof of the warmup block, judged like any other.
Warmup ==
  /\ proc = "warming"
  /\ cluster = "whole"
  /\ \E publicValues \in PublicValues :
       IF OutputMatched(publicValues, WarmupOutput)
       THEN proc' = "binding" /\ warm' = TRUE /\ UNCHANGED exit
       ELSE proc' = "exited" /\ exit' = "error" /\ UNCHANGED warm
  /\ UNCHANGED <<config, signalled, stopVars, callVars, cluster, crashes, debt>>

\* Every error before the port opens ends the command with it.
StartupFails ==
  /\ proc \in {"provisioning", "warming", "binding"}
  /\ proc' = "exited"
  /\ exit' = "error"
  /\ UNCHANGED <<config, signalled, stopVars, callVars, clusterVars, debt>>

\* SignalEndsProcess: the server waits for a signal of its own, asked for after
\* the first one was taken.
ListenForgettingSignal ==
  /\ proc = "binding"
  /\ proc' = "listening"
  /\ signalled' = FALSE
  /\ UNCHANGED <<config, exit, stopVars, callVars, clusterVars, debt>>

\* The port opens whether or not a signal came since the warmup.
Listen ==
  /\ proc = "binding"
  /\ proc' = "listening"
  /\ UNCHANGED <<config, exit, signalled, stopVars, callVars, clusterVars, debt>>

Signal ==
  /\ proc # "exited"
  /\ ~signalled
  /\ signalled' = TRUE
  /\ UNCHANGED <<config, proc, exit, stopVars, callVars, clusterVars, debt>>

\* Shutdown makes Serve return at once, and nothing waits for the handlers.
ServeReturns ==
  /\ proc = "listening"
  /\ signalled
  /\ proc' = "closing"
  /\ UNCHANGED <<config, exit, signalled, stopVars, callVars, clusterVars, debt>>

\* An accept failed for good, so Serve returns its error.  Nothing waits for the
\* handlers here either.
ServeFails ==
  /\ proc = "listening"
  /\ proc' = "closing"
  /\ serveError' = TRUE
  /\ UNCHANGED <<config, exit, signalled, closed, callVars, clusterVars, debt>>

\* The deferred Close waits only for a verification that holds the verifier.
CloseProver ==
  /\ proc = "closing"
  /\ ~closed
  /\ \A r \in Requests : pc[r] # "verifying"
  /\ closed' = TRUE
  /\ UNCHANGED <<config, proc, exit, signalled, serveError, callVars, clusterVars,
                 debt>>

MainReturns ==
  /\ proc = "closing"
  /\ closed
  /\ proc' = "exited"
  /\ exit' = IF serveError THEN "error" ELSE "ok"
  /\ UNCHANGED <<config, signalled, stopVars, callVars, clusterVars, debt>>

\* After the first signal the default disposition is back, so a second kills.
SecondSignal ==
  /\ proc # "exited"
  /\ signalled
  /\ proc' = "exited"
  /\ exit' = "killed"
  /\ UNCHANGED <<config, signalled, stopVars, callVars, clusterVars, debt>>

-----------------------------------------------------------------------------
(* The handler of one call *)

\* A call of engine_proveStatelessValidator whose parameters decode.  Shutdown
\* leaves a connection that is already accepted, so calls still arrive after it.
ArriveProve(r) ==
  /\ Alive
  /\ pc[r] = "idle"
  /\ \E want \in ExpectedOutputs : expected' = [expected EXCEPT ![r] = want]
  /\ pc' = [pc EXCEPT ![r] = "lock"]
  /\ UNCHANGED <<procVars, client, outcome, cause, answerVars, clusterVars,
                 debt>>

\* Everything else: the client version, an unknown method, a body or a
\* parameter that does not decode.  None of them touches the mutex.
ArriveOther(r) ==
  /\ Alive
  /\ pc[r] = "idle"
  /\ verdict' = [verdict EXCEPT ![r] = "immediate"]
  /\ pc' = [pc EXCEPT ![r] = "reply"]
  /\ UNCHANGED <<procVars, client, proofVars, holder, metrics, clusterVars,
                 debt>>

\* The connection of a call closes, which ends the request context.
ClientLeaves(r) ==
  /\ Alive
  /\ pc[r] \notin {"idle", "done"}
  /\ client[r] = "here"
  /\ client' = [client EXCEPT ![r] = "gone"]
  /\ UNCHANGED <<procVars, pc, proofVars, answerVars, clusterVars, debt>>

\* PromiseKept: the handler does not wait for the mutex.
TakeLockUnguarded(r) ==
  /\ Move(r, "lock", "ready")
  /\ holder' = r
  /\ UNCHANGED <<procVars, client, proofVars, verdict, metrics, clusterVars,
                 debt>>

\* s.mu.Lock takes no context: a call whose client left still queues.
TakeLock(r) ==
  /\ Move(r, "lock", "ready")
  /\ holder = None
  /\ holder' = r
  /\ UNCHANGED <<procVars, client, proofVars, verdict, metrics, clusterVars,
                 debt>>

\* WaitReady ends with the cluster ready or with the request context, and the
\* handler proves in either case.
WaitReady(r) ==
  /\ Move(r, "ready", "proving")
  /\ config.readinessTrusted => cluster = "whole" \/ client[r] = "gone"
  /\ UNCHANGED <<procVars, client, proofVars, answerVars, clusterVars, debt>>

\* The cluster finished the job of a caller that is still there, and its proof
\* goes to the verifier, under the verifier's read guard.
ProofArrives(r) ==
  /\ Move(r, "proving", "verifying")
  /\ client[r] = "here"
  /\ ~closed
  /\ cluster = "whole"
  /\ warm' = TRUE
  /\ debt' = "clear"
  /\ UNCHANGED <<procVars, client, proofVars, answerVars, cluster, crashes>>

\* Prove returns what the proof commits to and gives the read guard back.
ProofVerifies(r) ==
  /\ Move(r, "verifying", "verified")
  /\ \E publicValues \in PublicValues : outcome' = [outcome EXCEPT ![r] = publicValues]
  /\ UNCHANGED <<procVars, client, expected, cause, answerVars, clusterVars,
                 debt>>

\* TypeOK: the failed call keeps its error where an outcome belongs.
ProveFailsWithOutcome(r) ==
  /\ Alive
  /\ pc[r] \in {"proving", "verifying"}
  /\ cause' = [cause EXCEPT ![r] = "cluster"]
  /\ outcome' = [outcome EXCEPT ![r] = "error"]
  /\ debt' = "owed"
  /\ pc' = [pc EXCEPT ![r] = "failed"]
  /\ UNCHANGED <<procVars, client, expected, answerVars, clusterVars>>

\* Prove returned an error: the job failed or ran out of its budget, the
\* caller left, or the prover was closed under the handler.
ProveFails(r) ==
  /\ Alive
  /\ pc[r] \in {"proving", "verifying"}
  /\ cause' = [cause EXCEPT ![r] = IF client[r] = "gone" THEN "departed"
                                     ELSE IF closed THEN "closed" ELSE "cluster"]
  /\ debt' = "owed"
  /\ pc' = [pc EXCEPT ![r] = "failed"]
  /\ UNCHANGED <<procVars, client, expected, outcome, answerVars, clusterVars>>

\* The handler leaves s.prove with verdict v, and the deferred Unlock runs.
Settle(r, v) ==
  /\ verdict' = [verdict EXCEPT ![r] = v]
  /\ pc' = [pc EXCEPT ![r] = "reply"]
  /\ holder' = None

\* MetricsAgree: a mismatch leaves no line.
JudgeLoggingMatches(r) ==
  /\ Alive
  /\ pc[r] = "verified"
  /\ LET matched == OutputMatched(outcome[r], expected[r])
     IN  /\ metrics' = IF matched THEN Append(metrics, [call |-> r, matched |-> TRUE])
                                  ELSE metrics
         /\ Settle(r, Verdict(matched))
  /\ UNCHANGED <<procVars, client, proofVars, clusterVars, debt>>

\* The verified output is judged and the metric line written, under the lock.
Judge(r) ==
  /\ Alive
  /\ pc[r] = "verified"
  /\ LET matched == OutputMatched(outcome[r], expected[r])
     IN  /\ metrics' = Append(metrics, [call |-> r, matched |-> matched])
         /\ Settle(r, Verdict(matched))
  /\ UNCHANGED <<procVars, client, proofVars, clusterVars, debt>>

\* EveryCallSettles: the early return misses the Unlock.
SkipRewarmLocked(r) ==
  /\ Move(r, "failed", "reply")
  /\ client[r] = "gone"
  /\ debt' = "waived"
  /\ verdict' = [verdict EXCEPT ![r] = "error"]
  /\ UNCHANGED <<procVars, client, proofVars, holder, metrics, clusterVars>>

\* requestCtx.Err() # nil: nothing is proved again.
SkipRewarm(r) ==
  /\ Alive
  /\ pc[r] = "failed"
  /\ client[r] = "gone"
  /\ debt' = "waived"
  /\ Settle(r, "error")
  /\ UNCHANGED <<procVars, client, proofVars, metrics, clusterVars>>

\* fail-run: os.Exit(1) from the handler, with every other call unanswered.
ExitOnClusterError(r) ==
  /\ Alive
  /\ pc[r] = "failed"
  /\ client[r] = "here"
  /\ config.failRun
  /\ proc' = "exited"
  /\ exit' = "error"
  /\ UNCHANGED <<config, signalled, stopVars, callVars, clusterVars, debt>>

\* OneProofAtATime: the mutex covers only the call's own proof.
StartRewarmUnlocked(r) ==
  /\ Move(r, "failed", "rewarm")
  /\ client[r] = "here"
  /\ ~config.failRun
  /\ holder' = None
  /\ UNCHANGED <<procVars, client, proofVars, verdict, metrics, clusterVars,
                 debt>>

\* NoTestOnOwedCluster: the failed call returns without a second warmup.
StartRewarmNever(r) ==
  /\ Alive
  /\ pc[r] = "failed"
  /\ client[r] = "here"
  /\ ~config.failRun
  /\ Settle(r, "error")
  /\ UNCHANGED <<procVars, client, proofVars, metrics, clusterVars, debt>>

\* fail-test: the warmup block is proved again inside the failed call.
StartRewarm(r) ==
  /\ Move(r, "failed", "rewarm")
  /\ client[r] = "here"
  /\ ~config.failRun
  /\ UNCHANGED <<procVars, client, proofVars, answerVars, clusterVars, debt>>

Rewarmed(r) ==
  /\ Alive
  /\ pc[r] = "rewarm"
  /\ client[r] = "here"
  /\ ~closed
  /\ cluster = "whole"
  /\ warm' = TRUE
  /\ debt' = "clear"
  /\ Settle(r, "error")
  /\ UNCHANGED <<procVars, client, proofVars, metrics, cluster, crashes>>

\* The error of the second warmup is only printed.
RewarmFails(r) ==
  /\ Alive
  /\ pc[r] = "rewarm"
  /\ debt' = "waived"
  /\ Settle(r, "error")
  /\ UNCHANGED <<procVars, client, proofVars, metrics, clusterVars>>

\* writeResponse, after the lock is free again.
Reply(r) ==
  /\ Move(r, "reply", "done")
  /\ UNCHANGED <<procVars, client, proofVars, answerVars, clusterVars, debt>>

-----------------------------------------------------------------------------
(* The cluster *)

Crash ==
  /\ cluster = "whole"
  /\ crashes < MaxCrashes
  /\ cluster' = "crashed"
  /\ warm' = FALSE
  /\ crashes' = crashes + 1
  /\ UNCHANGED <<procVars, callVars, debt>>

Recover ==
  /\ cluster = "crashed"
  /\ cluster' = "whole"
  /\ UNCHANGED <<procVars, callVars, warm, crashes, debt>>

-----------------------------------------------------------------------------
Main ==
  \/ Provision
  \/ Warmup
  \/ StartupFails
  \/ Listen
  \/ Signal
  \/ ServeReturns
  \/ ServeFails
  \/ CloseProver
  \/ MainReturns
  \/ SecondSignal

Handler(r) ==
  \/ ArriveProve(r)
  \/ ArriveOther(r)
  \/ ClientLeaves(r)
  \/ TakeLock(r)
  \/ WaitReady(r)
  \/ ProofArrives(r)
  \/ ProofVerifies(r)
  \/ ProveFails(r)
  \/ Judge(r)
  \/ SkipRewarm(r)
  \/ ExitOnClusterError(r)
  \/ StartRewarm(r)
  \/ Rewarmed(r)
  \/ RewarmFails(r)
  \/ Reply(r)

Environment == Crash \/ Recover

Next == Main \/ (\E r \in Requests : Handler(r)) \/ Environment

Spec == Init /\ [][Next]_vars

\* A handler goroutine is scheduled until it replied.  Prove ends because its
\* context has a deadline, the readiness wait because the containers restart.
HandlerRuns(r) ==
  \/ TakeLock(r)
  \/ WaitReady(r)
  \/ ProofArrives(r)
  \/ ProofVerifies(r)
  \/ ProveFails(r)
  \/ Judge(r)
  \/ SkipRewarm(r)
  \/ ExitOnClusterError(r)
  \/ StartRewarm(r)
  \/ Rewarmed(r)
  \/ RewarmFails(r)
  \/ Reply(r)

\* The Go scheduler runs every goroutine that can run.  Weak fairness is enough
\* for the mutex, since each of finitely many calls takes it once.  Before the
\* port is open the main goroutine is only owed a step once the context of all
\* it waits for is done; how long the dial and the warmup take is not limited.
Fairness ==
  /\ \A r \in Requests : WF_vars(HandlerRuns(r))
  /\ WF_vars(signalled /\ (StartupFails \/ Listen))
  /\ WF_vars(ServeReturns \/ CloseProver \/ MainReturns)
  /\ WF_vars(Recover)

FairSpec == Spec /\ Fairness

-----------------------------------------------------------------------------
(* Properties *)

Stages == {"provisioning", "warming", "binding", "listening", "closing", "exited"}
\* The places at which a handler owns the mutex.
Critical == {"ready", "proving", "verifying", "verified", "failed", "rewarm"}
Places == {"idle", "lock", "reply", "done"} \union Critical
Judged == {"VALID", "INVALID"}
Verdicts == Judged \union {"immediate", "error"}
Causes == {"departed", "closed", "cluster"}

\* Every variable keeps its type.
TypeOK ==
  /\ config \in Configurations
  /\ proc \in Stages
  /\ exit \in {"running", "ok", "error", "killed"}
  /\ signalled \in BOOLEAN
  /\ closed \in BOOLEAN
  /\ serveError \in BOOLEAN
  /\ pc \in [Requests -> Places]
  /\ client \in [Requests -> {"here", "gone"}]
  /\ expected \in [Requests -> ExpectedOutputs \union {None}]
  /\ outcome \in [Requests -> PublicValues \union {None}]
  /\ cause \in [Requests -> Causes \union {None}]
  /\ verdict \in [Requests -> Verdicts \union {None}]
  /\ holder \in Requests \union {None}
  /\ metrics \in Seq([call : Requests, matched : BOOLEAN])
  /\ cluster \in {"whole", "crashed"}
  /\ warm \in BOOLEAN
  /\ crashes \in Nat
  /\ debt \in {"clear", "owed", "waived"}

\* "A mutex serialises proofs": from the readiness wait to the end of the
\* second warmup no other call, and not the first warmup, uses the prover.
OneProofAtATime ==
  /\ \A r, s \in Requests : pc[r] \in Critical /\ pc[s] \in Critical => r = s
  /\ (\E r \in Requests : pc[r] # "idle") => proc \in {"listening", "closing", "exited"}

\* What a caller is told VALID was proved: the commitment of its own verified
\* proof is the whole output its own fixture expects and then only zeros, even
\* when other calls were proved, failed or abandoned in between.  A commitment
\* that ends before the expected output does is never VALID.
ValidIsProved ==
  \A r \in Requests :
    verdict[r] = "VALID" =>
      /\ outcome[r] # None
      /\ Len(expected[r]) <= Len(outcome[r])
      /\ outcome[r] = [i \in 1..Len(outcome[r]) |->
                          IF i <= Len(expected[r]) THEN expected[r][i] ELSE 0]

\* The collector's view and the caller's view of a run agree: a call has a
\* metric line exactly when it is told VALID or INVALID, never two, and the
\* line carries the same judgement.  A failed proof leaves no line.
MetricsAgree ==
  /\ \A i, j \in DOMAIN metrics : metrics[i].call = metrics[j].call => i = j
  /\ \A i \in DOMAIN metrics :
       verdict[metrics[i].call] = Verdict(metrics[i].matched)
  /\ \A r \in Requests : verdict[r] \in Judged =>
       \E i \in DOMAIN metrics : metrics[i].call = r

\* "The port opens only after verification, setup, and warmup": while calls
\* are served the workers are warm, unless one of them crashed since.
PortOpensWarm == Alive => warm \/ crashes > 0

\* No test starts while the failure of an earlier one was neither followed by
\* a completed proof nor deliberately waived (caller gone, second warmup failed).
NoTestOnOwedCluster == \A r \in Requests : pc[r] = "proving" => debt # "owed"

\* A call that queued on the mutex is answered, whatever happens to the calls
\* before it, unless the process ends first.
EveryCallSettles ==
  \A r \in Requests : pc[r] = "lock" ~> (pc[r] = "done" \/ proc = "exited")

\* A signal ends the process, at whatever stage it comes: while the guest is
\* provisioned, under the first warmup, between the warmup and the first accept,
\* or with handlers queued on the mutex, proving, or inside the verifier that
\* the deferred Close waits for.
SignalEndsProcess == signalled ~> proc = "exited"

\* README.md: "After a failed proof the forwarder proves the warmup block
\* again, so the next test starts on a recovered cluster."
NextTestStartsRecovered == \A r \in Requests : pc[r] = "proving" => debt = "clear"

\* The comment of FailRunOnClusterError: it "exits the process on a cluster
\* error", so an error exit of a served run whose listener did not fail has such
\* an error behind it.
ExitMeansClusterError ==
  exit = "error" /\ ~serveError /\ (\E r \in Requests : pc[r] # "idle") =>
    \E r \in Requests : pc[r] = "failed" /\ cause[r] = "cluster"

-----------------------------------------------------------------------------
(* The promise to a benchmark client: the mutex is the abstract ownership  *)
(* of the cluster, and a call is settled when its handler gives it back.   *)

AbstractPort ==
  CASE Alive           -> "open"
    [] proc = "exited" -> "shut"
    [] OTHER           -> "unopened"

AbstractCall ==
  [r \in Requests |-> CASE pc[r] = "idle"  -> "none"
                        [] pc[r] = "reply" -> "settled"
                        [] pc[r] = "done"  -> "answered"
                        [] OTHER           -> "pending"]

Promise == INSTANCE ForwarderSpec
             WITH port <- AbstractPort, call <- AbstractCall,
                  proving <- holder, log <- metrics

\* The server keeps the promise ForwarderSpec states.
PromiseKept == Promise!Spec
=============================================================================
