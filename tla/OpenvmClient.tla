---------------------------- MODULE OpenvmClient ----------------------------
(***************************************************************************)
(* The OpenVM prover of src/internal/openvm/client.go against an           *)
(* edge-manager coordinator: WaitReady and Prove, as Forwarder calls them  *)
(* one call after the other.                                               *)
(*                                                                         *)
(* The manager is external.  It runs one proof at a time, answers busy     *)
(* while it does, forgets everything in memory when it restarts and keeps  *)
(* proofs on disk (docs/zkvm/openvm.md and the comments of the client).    *)
(* Any request or its answer can be lost, and the caller's context can end *)
(* at any moment: between two steps of the client or inside a request.     *)
(***************************************************************************)
EXTENDS Naturals

CONSTANTS
  Calls,          \* how many times Prove is called
  MaxAttempts,    \* bound: submissions of one call
  MaxFaults,      \* bound: requests that fail in transport, over all calls
  MaxRestarts     \* bound: restarts of the manager

ASSUME OpenvmAssumption ==
  /\ Calls \in Nat \ {0}
  /\ MaxAttempts \in Nat \ {0}
  /\ MaxFaults \in Nat
  /\ MaxRestarts \in Nat

VARIABLES
  call,       \* the number of the call that runs or ran last
  pc,         \* where the client is in that call
  ctx,        \* "live" until the caller's context ends
  attempt,    \* submissions the call has started
  uuid,       \* the identifier of the current submission
  measured,   \* history: the proofs that had the manager since started + submitWait
  result,     \* what each call returned
  asked,      \* the proofs a cancellation was sent for
  manager,    \* external: "down", "starting" (no workers yet) or "ready"
  slot,       \* external: the proof that occupies the manager
  status,     \* external: the status of each proof in the manager's memory
  stored,     \* external: the persisted proofs
  faults,     \* transport failures so far
  restarts    \* restarts so far

callVars == <<call, ctx, attempt, uuid, measured>>
managerVars == <<manager, slot, status, stored>>
boundVars == <<faults, restarts>>
vars == <<callVars, pc, result, asked, managerVars, boundVars>>

\* A proof is named by the submission that asked for it: newProofUUID draws a
\* fresh identifier for each.
Uuids == (1..Calls) \X (1..MaxAttempts)
None == <<0, 0>>
Pending == [kind |-> "pending", proof |-> None, measured |-> {}]
Places == {"idle", "waiting", "ready", "upload", "start", "backoff", "stream",
           "reconnect", "collect", "verify", "cancel"}

\* SettledCallsFreeTheManager: the transient failing state is taken as final.
SettledOrFailing == {"completed", "failing", "failed", "canceled"}

\* The statuses that end a proof.  A failing one still drains.
Settled == {"completed", "failed", "canceled"}

Init ==
  /\ call = 0
  /\ pc = "idle"
  /\ ctx = "live"
  /\ attempt = 0
  /\ uuid = None
  /\ measured = {}
  /\ result = [c \in 1..Calls |-> Pending]
  /\ asked = {}
  /\ manager = "ready"
  /\ slot = None
  /\ status = [u \in Uuids |-> "unknown"]
  /\ stored = [u \in Uuids |-> "none"]
  /\ faults = 0
  /\ restarts = 0

\* A request fails without an answer: its context ended, nobody listens, or
\* the connection broke.
NoAnswer ==
  \/ ctx = "ended" /\ UNCHANGED faults
  \/ manager = "down" /\ UNCHANGED faults
  \/ faults < MaxFaults /\ faults' = faults + 1

Return(kind) ==
  /\ result' = [result EXCEPT ![call] = [kind |-> kind, proof |-> uuid, measured |-> measured]]
  /\ pc' = "idle"

\* waitProof returned an error: the proof is cancelled when the context ended.
WaitFails(kind) ==
  IF ctx = "ended" THEN pc' = "cancel" /\ UNCHANGED result
                   ELSE Return(kind)

\* The manager takes the proof of the current submission with this status.
Admit(s) ==
  /\ manager = "ready"
  /\ slot = None
  /\ status[uuid] = "unknown" /\ stored[uuid] = "none"
  /\ slot' = uuid
  /\ status' = [status EXCEPT ![uuid] = s]
  /\ measured' = measured \union {uuid}

-----------------------------------------------------------------------------
(* Prove, called after WaitReady as Server.prove does *)

BeginCall ==
  /\ pc = "idle"
  /\ call < Calls
  /\ call' = call + 1
  /\ ctx' = "live"
  /\ attempt' = 0
  /\ uuid' = None
  /\ measured' = {}
  /\ pc' = "waiting"
  /\ UNCHANGED <<result, asked, managerVars, boundVars>>

\* WaitReady polls until the workers are registered or the context ends, and
\* the forwarder proves in either case.
ReadyWaitEnds ==
  /\ pc = "waiting"
  /\ manager = "ready" \/ ctx = "ended"
  /\ pc' = "ready"
  /\ UNCHANGED <<callVars, result, asked, managerVars, boundVars>>

\* The deadline passes or the caller leaves.
ContextEnds ==
  /\ pc # "idle"
  /\ ctx = "live"
  /\ ctx' = "ended"
  /\ UNCHANGED <<call, pc, attempt, uuid, measured, result, asked, managerVars,
                 boundVars>>

\* TypeOK: the identifier is that of the attempt before.
AttemptNamedLate ==
  /\ pc = "ready" \/ (pc = "backoff" /\ ctx = "live")
  /\ attempt < MaxAttempts
  /\ attempt' = attempt + 1
  /\ uuid' = <<call, attempt>>
  /\ measured' = {slot} \ {None}
  /\ pc' = "upload"
  /\ UNCHANGED <<call, ctx, result, asked, managerVars, boundVars>>

\* MeasuresOwnProof: the wait is taken once, before the loop.
AttemptMeasuringAll ==
  /\ pc = "ready" \/ (pc = "backoff" /\ ctx = "live")
  /\ attempt < MaxAttempts
  /\ attempt' = attempt + 1
  /\ uuid' = <<call, attempt + 1>>
  /\ measured' = measured \union ({slot} \ {None})
  /\ pc' = "upload"
  /\ UNCHANGED <<call, ctx, result, asked, managerVars, boundVars>>

\* RetriesNeverCollide: the identifier is drawn once per call.
AttemptReusingIdentifier ==
  /\ pc = "ready" \/ (pc = "backoff" /\ ctx = "live")
  /\ attempt < MaxAttempts
  /\ attempt' = attempt + 1
  /\ uuid' = <<call, 1>>
  /\ measured' = {slot} \ {None}
  /\ pc' = "upload"
  /\ UNCHANGED <<call, ctx, result, asked, managerVars, boundVars>>

\* One more submission, with a fresh identifier.  submitWait moves here,
\* so what the manager finished before is not measured and what it runs now is.
Attempt ==
  /\ pc = "ready" \/ (pc = "backoff" /\ ctx = "live")
  /\ attempt < MaxAttempts
  /\ attempt' = attempt + 1
  /\ uuid' = <<call, attempt + 1>>
  /\ measured' = {slot} \ {None}
  /\ pc' = "upload"
  /\ UNCHANGED <<call, ctx, result, asked, managerVars, boundVars>>

UploadArrives ==
  /\ pc = "upload"
  /\ ctx = "live"
  /\ manager = "ready"
  /\ pc' = "start"
  /\ UNCHANGED <<callVars, result, asked, managerVars, boundVars>>

\* Unreachable or not ready: the upload is retried with the whole submission.
UploadFails ==
  /\ pc = "upload"
  /\ NoAnswer \/ (manager = "starting" /\ UNCHANGED faults)
  /\ pc' = "backoff"
  /\ UNCHANGED <<callVars, result, asked, managerVars, restarts>>

StartAdmitted ==
  /\ pc = "start"
  /\ ctx = "live"
  /\ Admit("running")
  /\ pc' = "stream"
  /\ UNCHANGED <<call, ctx, attempt, uuid, result, asked, manager, stored, boundVars>>

\* The manager admits the proof and the answer never arrives.
StartLost ==
  /\ pc = "start"
  /\ NoAnswer
  /\ Admit("running")
  /\ pc' = "backoff"
  /\ UNCHANGED <<call, ctx, attempt, uuid, result, asked, manager, stored, restarts>>

\* A worker refused the dispatch, so the aborted proof drains first.
StartAborted ==
  /\ pc = "start"
  /\ ctx = "live"
  /\ Admit("failing")
  /\ pc' = "backoff"
  /\ UNCHANGED <<call, ctx, attempt, uuid, result, asked, manager, stored, boundVars>>

\* RefusedOnlyByFault: busy is taken for the answer to a retry that landed.
StartRefusedAsAdmitted ==
  /\ pc = "start"
  /\ \/ NoAnswer
     \/ (manager = "starting" \/ (manager = "ready" /\ slot # None)) /\ UNCHANGED faults
  /\ pc' = IF slot # None THEN "stream" ELSE "backoff"
  /\ UNCHANGED <<callVars, result, asked, managerVars, restarts>>

\* Busy, not ready or unreachable, each of which is retried.
StartRefused ==
  /\ pc = "start"
  /\ \/ NoAnswer
     \/ (manager = "starting" \/ (manager = "ready" /\ slot # None)) /\ UNCHANGED faults
  /\ pc' = "backoff"
  /\ UNCHANGED <<callVars, result, asked, managerVars, restarts>>

\* Every other status of an upload or a start is final.  One of them is the
\* refusal of an identifier the manager knows.
SubmitRejected ==
  /\ pc \in {"upload", "start"}
  /\ ctx = "live"
  /\ manager = "ready"
  /\ Return(IF /\ pc = "start" /\ slot = None
               /\ status[uuid] # "unknown" \/ stored[uuid] # "none"
            THEN "collided" ELSE "rejected")
  /\ UNCHANGED <<callVars, asked, managerVars, boundVars>>

\* ReturnsWithContext: the pause between submissions ignores the context.
SubmitNeverExpires ==
  /\ pc = "backoff"
  /\ ctx = "ended"
  /\ attempt < MaxAttempts
  /\ pc' = "upload"
  /\ UNCHANGED <<callVars, result, asked, managerVars, boundVars>>

\* The context ends in the pause between two submissions.
SubmitExpires ==
  /\ pc = "backoff"
  /\ ctx = "ended"
  /\ Return("expired")
  /\ UNCHANGED <<callVars, asked, managerVars, boundVars>>

\* The stream replays the current status to a new subscriber, so it does not
\* matter when the client subscribed.
StreamSettles ==
  /\ pc = "stream"
  /\ manager # "down"
  /\ status[uuid] \in Settled
  /\ IF status[uuid] = "completed"
     THEN pc' = "collect" /\ UNCHANGED result
     ELSE WaitFails(IF status[uuid] = "canceled" THEN "canceled" ELSE "failed")
  /\ UNCHANGED <<callVars, asked, managerVars, boundVars>>

\* A manager that does not know the proof answers with an HTTP error.
StreamRefused ==
  /\ pc = "stream"
  /\ manager # "down"
  /\ status[uuid] = "unknown"
  /\ WaitFails("refused")
  /\ UNCHANGED <<callVars, asked, managerVars, boundVars>>

\* The stream breaks, or stays silent for a minute.
StreamDrops ==
  /\ pc = "stream"
  /\ NoAnswer
  /\ pc' = IF ctx = "ended" THEN "cancel" ELSE "reconnect"
  /\ UNCHANGED <<callVars, result, asked, managerVars, restarts>>

Reconnect ==
  /\ pc = "reconnect"
  /\ pc' = IF ctx = "ended" THEN "cancel" ELSE "stream"
  /\ UNCHANGED <<callVars, result, asked, managerVars, boundVars>>

\* The latency and the pipeline from the manager's memory, the proof from disk.
Collect ==
  /\ pc = "collect"
  /\ ctx = "live"
  /\ manager # "down"
  /\ status[uuid] = "completed"
  /\ pc' = "verify"
  /\ UNCHANGED <<callVars, result, asked, managerVars, boundVars>>

\* A request of the three goes unanswered, or the manager answers and the client
\* cannot use it: an error status, no end-to-end latency, a pipeline that does
\* not parse or that names a worker no longer registered.
CollectFails ==
  /\ pc = "collect"
  /\ NoAnswer \/ (manager # "down" /\ UNCHANGED faults)
  /\ WaitFails("uncollected")
  /\ UNCHANGED <<callVars, asked, managerVars, restarts>>

\* Only the verifier's word makes an outcome, even after the context ended.
Verify ==
  /\ pc = "verify"
  /\ IF stored[uuid] = "sound" THEN Return("ok") ELSE WaitFails("unsound")
  /\ UNCHANGED <<callVars, asked, managerVars, boundVars>>

\* cancelProof on a context of its own, ten seconds long; its error is ignored.
\* A proof that is already settled is left alone.
Cancel ==
  /\ pc = "cancel"
  /\ asked' = asked \union {uuid}
  /\ Return("expired")
  /\ \/ /\ manager # "down"
        /\ IF slot = uuid
           THEN slot' = None /\ status' = [status EXCEPT ![uuid] = "canceled"]
           ELSE UNCHANGED <<slot, status>>
        /\ UNCHANGED faults
     \/ /\ manager = "down" /\ UNCHANGED faults
        /\ UNCHANGED <<slot, status>>
     \/ /\ faults < MaxFaults /\ faults' = faults + 1
        /\ UNCHANGED <<slot, status>>
  /\ UNCHANGED <<callVars, manager, stored, restarts>>

-----------------------------------------------------------------------------
(* The manager *)

ProofCompletes ==
  /\ slot # None
  /\ status[slot] = "running"
  /\ \E quality \in {"sound", "unsound"} : stored' = [stored EXCEPT ![slot] = quality]
  /\ status' = [status EXCEPT ![slot] = "completed"]
  /\ slot' = None
  /\ UNCHANGED <<callVars, pc, result, asked, manager, boundVars>>

ProofBreaks ==
  /\ slot # None
  /\ status[slot] = "running"
  /\ status' = [status EXCEPT ![slot] = "failing"]
  /\ UNCHANGED <<callVars, pc, result, asked, manager, slot, stored, boundVars>>

FailureDrains ==
  /\ slot # None
  /\ status[slot] = "failing"
  /\ status' = [status EXCEPT ![slot] = "failed"]
  /\ slot' = None
  /\ UNCHANGED <<callVars, pc, result, asked, manager, stored, boundVars>>

\* A settled proof leaves the manager's memory after some minutes, and stays on
\* disk.  Only a client that lost the stream still has to hear of its end then.
Evict ==
  /\ pc = "reconnect"
  /\ status[uuid] \in Settled
  /\ status' = [status EXCEPT ![uuid] = "unknown"]
  /\ UNCHANGED <<callVars, pc, result, asked, manager, slot, stored, boundVars>>

Restart ==
  /\ manager # "down"
  /\ restarts < MaxRestarts
  /\ restarts' = restarts + 1
  /\ manager' = "down"
  /\ slot' = None
  /\ status' = [u \in Uuids |-> "unknown"]
  /\ UNCHANGED <<callVars, pc, result, asked, stored, faults>>

ManagerStarts ==
  /\ manager = "down"
  /\ manager' = "starting"
  /\ UNCHANGED <<callVars, pc, result, asked, slot, status, stored, boundVars>>

WorkersRegister ==
  /\ manager = "starting"
  /\ manager' = "ready"
  /\ UNCHANGED <<callVars, pc, result, asked, slot, status, stored, boundVars>>

-----------------------------------------------------------------------------
Submission ==
  \/ Attempt
  \/ UploadArrives
  \/ UploadFails
  \/ StartAdmitted
  \/ StartLost
  \/ StartAborted
  \/ StartRefused
  \/ SubmitRejected
  \/ SubmitExpires

Following ==
  \/ StreamSettles
  \/ StreamRefused
  \/ StreamDrops
  \/ Reconnect
  \/ Collect
  \/ CollectFails
  \/ Verify
  \/ Cancel

Client == BeginCall \/ ReadyWaitEnds \/ Submission \/ Following

Manager ==
  \/ ProofCompletes
  \/ ProofBreaks
  \/ FailureDrains
  \/ Evict
  \/ Restart
  \/ ManagerStarts
  \/ WorkersRegister

Next == Client \/ ContextEnds \/ Manager

Spec == Init /\ [][Next]_vars

\* The client goroutine runs and its deadline passes.  Nothing is assumed of
\* the manager, which may stay down or prove for ever.
FairSpec == Spec /\ WF_vars(ReadyWaitEnds \/ Submission \/ Following) /\ WF_vars(ContextEnds)

-----------------------------------------------------------------------------
(* Properties *)

Kinds == {"pending", "ok", "failed", "canceled", "refused", "uncollected",
          "unsound", "collided", "rejected", "expired"}

\* Every variable keeps its type.
TypeOK ==
  /\ call \in 0..Calls
  /\ pc \in Places
  /\ ctx \in {"live", "ended"}
  /\ attempt \in 0..MaxAttempts
  /\ uuid \in Uuids \union {None}
  /\ measured \subseteq Uuids
  /\ result \in [1..Calls -> [kind : Kinds, proof : Uuids \union {None},
                              measured : SUBSET Uuids]]
  /\ asked \subseteq Uuids
  /\ manager \in {"down", "starting", "ready"}
  /\ slot \in Uuids \union {None}
  /\ status \in [Uuids -> {"unknown", "running", "failing", "completed", "failed", "canceled"}]
  /\ stored \in [Uuids -> {"none", "sound", "unsound"}]
  /\ faults \in 0..MaxFaults
  /\ restarts \in 0..MaxRestarts

\* "A fresh identifier per attempt keeps a lost admission response from
\* colliding with its retry": whatever was lost before, no submission of any
\* call is refused for an identifier the manager has seen.
RetriesNeverCollide == \A c \in 1..Calls : result[c].kind # "collided"

\* The measured interval of a successful call contains the work of the proof it
\* returns, whatever waited, failed or was lost before.  Of other work it
\* contains at most the end of one proof that nobody follows any more: a lost or
\* aborted submission of this call, or of an earlier call that left without its
\* proof, which still ran when the submission that landed began to upload.
\* Everything the manager finished before falls into the submit wait.
MeasuresOwnProof ==
  \A c \in 1..Calls : result[c].kind = "ok" =>
    LET own == result[c].proof
        others == result[c].measured \ {own}
    IN  /\ own \in result[c].measured
        /\ own[1] = c
        /\ \A u, v \in others : u = v
        /\ \A u \in others :
             \/ u[1] = c /\ u[2] < own[2]
             \/ u[1] < c /\ result[u[1]].kind \in {"expired", "rejected"}

\* A call that followed its proof to the end leaves none of its submissions,
\* lost ones included, on the manager: the next call, or the second warmup,
\* does not queue behind this one.
SettledCallsFreeTheManager ==
  \A c \in 1..Calls :
    result[c].kind \in {"ok", "failed", "canceled", "refused", "uncollected", "unsound"} =>
      slot[1] # c

\* A call whose context lives is told that the manager does not know its proof
\* only when the manager lost it: it restarted, or it evicted the settled proof
\* while a broken stream kept the client from reading of its end.  A submission
\* that was refused, lost or aborted is never the one the call goes on to follow.
RefusedOnlyByFault ==
  \A c \in 1..Calls : result[c].kind = "refused" => restarts > 0 \/ faults > 0

\* A call never outlives its context: it returns, however the manager behaves,
\* wherever it was in submission, stream, collection or cancellation.
ReturnsWithContext ==
  \A c \in 1..Calls : call = c /\ ctx = "ended" ~> result[c].kind # "pending"

\* The comment of Prove: it "cancels it when the context expires first".  So no
\* proof of an expired call goes on running without a cancellation sent.
ExpiredCallsCancel ==
  \A c \in 1..Calls :
    result[c].kind = "expired" /\ slot[1] = c /\ status[slot] = "running" => slot \in asked
=============================================================================
