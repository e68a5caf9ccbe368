# provoor in TLA+

provoor benchmarks Ethereum guest programs on GPU proving clusters. It deploys a cluster over SSH (`up`, `down`), serves one guest program of it to a benchmark client over JSON-RPC (`serve`), and estimates costs without a cluster (`estimate`, `profile`). The numbers it publishes are only worth something when a test is measured on a healthy cluster, alone, and judged against its own expected output. Those are the properties this directory is about.

Paths below are relative to the repository. `PROJECT.json` holds the machine-readable side: the components, the runs, the line range of the code behind each definition (`map`), the slips each property notices (`mutants`), the hazards, the disagreements found and the theorems.

## 1. The system

### Inventory

| Component | Code | State | Operations | What makes it hard | What makes it correct |
| --- | --- | --- | --- | --- | --- |
| Forwarder | `internal/serve/server.go`, `serveCommand` in `cmd/provoor/main.go` | the mutex, the prover handle, the output stream, the process | provision, warm up, listen, one handler per call, second warmup, signal, shutdown | concurrent handlers, callers that leave, a crash during a proof, shutdown with proofs in flight, two failure policies | one proof at a time; VALID only for its own verified output; a metric line per verdict; no test on a cluster whose failure nobody dealt with |
| OpenVM client | `internal/openvm/client.go`, `internal/cluster/prove.go` | a submission's identifier, the submit wait, the verifier | WaitReady, upload, start, stream, collect, verify, cancel, Close | lost requests and lost answers, a busy manager, a manager restart, a deadline anywhere | the measured interval holds this proof only; no identifier collides; a settled call leaves the manager free |
| ZisK client | `internal/zisk/client.go` | the gRPC connection, the guest's hash, the verifier | Dial (restart, register, setup), submit, wait, cancel, Close | a coordinator that is being replaced, a lost answer to a job request | a forwarder starts on a coordinator that knows its guest only |
| ZisK supervisor | `cmd/zisk-supervisor/main.go` | the child, the restart flag, open connections | run, answer, end, exit code | a request against the child's own end, a stop, a child that ignores SIGTERM | a request that took effect is followed by a new coordinator, a stop by none |
| Deployments | `internal/zisk/deploy.go`, `internal/openvm/deploy.go`, `spec.go` and `config.go` of both | containers and volumes of each host | Up, Down, key setup, key generation, worker start | hosts in parallel, failure of one, a second Up over what the first left | a host is ready only with whole keys; Down leaves nothing running |
| Container helpers, sidecars | `internal/cluster/docker.go`, `sidecar.go` | none of their own | Start, Run, wait for ports or a log line, stop and remove | a container that restarts or exits while waited for | readiness belongs to the container that was started |
| Estimate | `internal/estimate` | the artifact of an estimate, test files, a profile's mirror, the index | estimate, resume, reuse, link | parallel workers, periodic save, death at any step | no record is lost or mixed between guests; a record's file exists |
| Ere server, ere verifier | `internal/ereserver`, `internal/ereverifier` | a container; a native handle | start, health wait, measure, close; verify, close | the handle must outlive a verification | Close never overlaps Verify |
| Pipeline, journal, inspection, proof transcoding, configuration | `cluster/pipeline.go`, `openvm/pipeline.go`, `zisk/pipeline.go`, `cluster/journal.go`, `cluster/inspect.go`, `zisk/proof.go`, `cluster/config.go` | none: functions | placement of intervals into lanes, run windows, name selection, bincode lengths, validation | boundaries and ties | agreement with a reference definition |

### How the parts meet

`serve` dials one of the two clients, waits for the cluster, proves the warmup block and then listens. Each JSON-RPC call is a goroutine of `net/http`; the server's mutex puts them in a row in front of the client. The client talks to a coordinator over HTTP (OpenVM) or gRPC (ZisK). The ZisK client first asks the supervisor, over a port of its own, to end the coordinator, and Docker's restart policy starts the next one. `up` and `down` reach Docker over SSH; `serve` never touches Docker. `estimate` uses a local ere-server container and the results directory, and shares nothing with a running forwarder.

## 2. The modules

| Module | Models | Size of the idea |
| --- | --- | --- |
| `ForwarderSpec` | the promise to a benchmark client | a call is answered at most once, one call owns the cluster, metric lines come in proof order and agree with the verdicts |
| `Forwarder` | `provoor serve`: main goroutine, handlers, mutex, failure path, shutdown | refines `ForwarderSpec` (`PromiseKept`) |
| `MCForwarder` | finite values for TLC | |
| `ForwarderProofs` | lemmas, the inductive invariant, the refinement of `ForwarderSpec`, nine theorems | TLAPS |
| `OpenvmClient` | `WaitReady` and `Prove` of the OpenVM client against its manager | one prover in detail |
| `OpenvmProofs` | five theorems about it | TLAPS |
| `ZiskProvision` | the ZisK supervisor, the restart policy and `zisk.Dial` for successive forwarders | three programs and an operator |
| `ZiskProvisionProofs` | three theorems about it | TLAPS |
| `ZiskClient` | `Prove` and `Close` of the ZisK client against its coordinator | the other prover in detail |
| `ZiskClientProofs` | four theorems about it | TLAPS |
| `Estimate` | `estimate`, `profile` and `link` over a results directory | memory, disk, and death between two writes |
| `EstimateProofs` | six theorems about it | TLAPS |
| `ClusterConfig` | defaults, validation and what is derived from a configuration, for both zkVMs | functions |
| `Deploy` | `up` and `down` of both zkVMs against the Docker daemons | `EXTENDS ClusterConfig`; goroutines per host |
| `MCDeploy` | hosts and configurations for TLC | |
| `ClusterConfigProofs` | the containers of every valid file fit together; the lemmas about folds, sorts and sequences that `AlgorithmsProofs` and `DeployProofs` also use | TLAPS |
| `DeployProofs` | three theorems, about keys, `up` and `down` | TLAPS |
| `Pipeline` | the pipeline builder and both mappings onto it | functions |
| `ProofEnvelope` | the bincode reader and the transcoding of a ZisK proof | functions |
| `Estimation` | what an answer of the ere-server is worth | functions |
| `Journal` | run windows, journal decoding, listings, log relay | functions |
| `MCAlgorithms` | draws inputs for the four modules above and `ClusterConfig` | one input per behaviour |
| `AlgorithmsProofs` | the timelines of every proof and every job, proof envelopes, answers of the ere-server, journals, listings, relays | TLAPS |

`Forwarder` refines `ForwarderSpec`. `Deploy` is composed with `ClusterConfig`: a command starts from a configuration as the operator wrote it and everything it does is derived by the functions that `ConfigAgrees` checks on their own. The two clients are the detail behind `Forwarder`'s abstract prover, and `ZiskProvision` hands over to `ZiskClient` where `Dial` returns; these three are modules apart because together they are beyond model checking.

A definition whose name says what it forgets (`OutputMatchedOverlap`, `AttemptReusingIdentifier`, `SkipRewarmLocked`, ...) is no part of any next-state relation. It is a plausible slip in the code it stands beside, and the comment above it names the property that notices it.

### Forwarder

`proc` is where `serveCommand` is: `provisioning` (Dial and WaitReady), `warming` (`Server.Warmup`), `binding`, `listening` (`Serve`), `closing` (the deferred `Close`), `exited`. `ServeReturns` and `ServeFails` are the two ways out of `listening`: a signal, after which the command returns nothing, and an accept that failed for good, whose error it returns (`serveError`, `main.go:314`); behind both handlers may still run. `pc[r]` is where the handler of call `r` is: `lock` (waiting for `Server.mu`), `ready` (`WaitReady`), `proving`, `verifying` and `verified` (inside `Prove`, under and after the verifier's read guard), `failed`, `rewarm` (the second warmup), `reply`, `done`. `holder` is the owner of the mutex, `metrics` the lines of `emitMetric`, `verdict` the JSON-RPC result. `config.failRun` is `--on-cluster-error fail-run`. `config.readinessTrusted` separates the two clients: the OpenVM one waits for its workers in `WaitReady`, the ZisK one returns at once because its coordinator reports nothing a client can trust.

Some points where the model follows the code closely:

- the mutex ignores contexts: a call whose caller left still queues, waits and proves, with a context that is already done;
- the request context is read once, after the failure and before the exit or the second warmup (`server.go:232`);
- `Shutdown` returns without waiting for handlers that outlast its context, so handlers run on in `closing`, and a call can still arrive on a connection that was accepted before;
- `Close` waits for the read guard of a verification, and for nothing else of a handler;
- after the first signal the default disposition is back, so a second one kills.

`debt` is a history variable: `owed` from a failed proof until a proof completes, `waived` when the code gives up on purpose (the caller is gone, or the second warmup failed and only a line is printed).

The prover is abstract: a call of `Prove` ends at any time in an error, and on a whole cluster in a verified outcome with any commitment.

### OpenvmClient

One action per request and per way it can end. `Attempt` opens a submission with a fresh identifier and moves `submitWait`, so `measured`, the proofs that had the manager since, begins again with the one it runs at that moment, if any. `StartAdmitted`, `StartLost`, `StartAborted`, `StartRefused` and `SubmitRejected` are the outcomes of `start_proof`; a lost answer to an admitted proof is `StartLost` and leaves an orphan that the retry meets as busy. The status stream replays the current status to a new subscriber, can drop, be refused, and reconnects. `Collect` stands for the status, latency, pipeline and proof requests after completion; `CollectFails` for a request without an answer and for an answer that the client cannot use, such as one without an end-to-end latency or a pipeline that names a worker no longer registered (`client.go:344`, `cluster/pipeline.go:121`), which need no fault. A final error of the wait cancels the proof only when the context ended.

External, and read off how the client treats the answers, its comments and `docs/zkvm/openvm.md`: the manager has one slot, refuses an identifier it knows, forgets statuses when it restarts, keeps finished proofs on disk, passes a failing proof through a draining state, and answers the stream with an error only for a proof it does not know. `Evict` is a manager that keeps running and forgets a settled proof; it does so long after the proof ended, hence only to a client whose stream is down.

### ZiskProvision

`coordinator` is the child as `run` sees it: running, told to terminate, exited, noticed by the waiter, reported to the loop. `requested` is the flag that turns a clean exit into status 1, because `on-failure` restarts nothing else. `container` is what the daemon makes of the exit. `conn[f]` is forwarder `f`'s connection to the restart port, and it outlives the forwarder: `StartForwarder` is also the death of the one before, at any step, with its verb still on the way. `record` and `jobs` are the guests that a coordinator knows and is setting up; a new coordinator starts with neither.

External: the coordinator program, the restart policy, the daemon's own kill after its grace period, and Docker's proxy, which accepts a connection while the container is down and closes it. The deployment's readiness probe of the restart port writes no verb and changes nothing, so it is not an action.

With `LateVerbs = FALSE` the verb of a caller that still waits always arrives within the supervisor's `readTimeout` of five seconds, which is what a forwarder on the coordinator's host sees. The run `zisk_late_verb` lifts this.

### ZiskClient

`pc` is where the client is in call number `call`: `backoff` between two submissions, `submit` (`JobRequest`), `setup` and `setupPoll` (the setup recovered inside a submission), `poll` (`WaitJobResult`), `verifying`, `cancel`. `attempt` counts submissions, and each names one job of the coordinator, `Job(kind)`. `measured` is a history variable: the jobs whose work falls into the interval that the call will report, which begins at `started + submitWait`, so `Attempt` empties it. `orphans` is another: the jobs that a failed request separated from their call.

The coordinator is external. `cluster` is `short` while it is away or lacks workers, `setupDone` whether it knows a completed setup of the guest, `status[j]` what it knows of job `j`. It runs one job at a time in the order of admission, loses jobs and setups in a restart, and answers `waiting for workers`, `no setup` or a transport error as `classifySubmitError` expects. A request can be lost before or after it had its effect.

`Close` can come at any moment, as the deferred call of `serve` can. It waits for a verification and ends every request in flight.

### Estimate

On disk: `art[kind][id]`, the artifact of an estimate or a profile, and `files[id]`, the test files of a profile. In memory, lost with the process: `result`, the artifact that the command completes; `mirror`, the estimate of the same identifier as it was read at the start (`Empty` stands for the nil mirror); `sources`, the reused costs whose files are still to be linked. `todo`, `walking`, `live`, `job`, `unsaved`, `saveErr` and `ctx` are the error group: the fixture walk that hands out tests, the workers, and the collecting main goroutine, which saves after every `Interval` outcomes.

`server` is the ere-server's container: `none`, `created` or `running`. The stages of its start are actions: `ServerCreated`, `ServerStarts` (`feed`), `ServerServes` (`waitHealthy`), and their failures, of which `PrepareFails` can leave a container that the daemon created although the call returned an error (`ereserver/server.go:69` removes none), and `StartFails` removes the container unless the daemon fails to.

`pc` follows the command through `prepare`, `start`, `link`, `collect`, `save`, `saveMirror`, `finalSave`, `finalMirror` and `close`; `linkMirror` is the second half of a link. The artifact is written before its mirror and a test file before the record that names it; each is one action, so that the process can die between any two (`Crash`), be interrupted (`Interrupt`) or meet a failing step. A failed periodic save ends the context, and the collecting goes on until the workers are done.

Workers are interchangeable, so they are counted and a job is held per test. A cost, a failure and a test file stand for the test and the guest they were measured with, which is what mixing up guests would confuse. The directory a run starts on is new, or holds a profile that was left unfinished, with a mirror that is up to date or lags behind.

### ClusterConfig

Defaults, the rules of `Validate` and the derived values of both zkVMs as operators on a configuration record: destinations, container names and ports, worker addresses, the CPU share of each worker, the compute units a coordinator waits for, the GPUs a container is given. `ResolvePrograms` refuses guests of OpenVM that would share a keyset. `ConfigAgrees` (`SpecsAgree`) asks of every valid file that the containers it deploys fit together, although each specification is computed by itself: the containers of a host, sidecars included, share no name and no port, and its workers no GPU or CPU; every worker reaches the coordinator and the OpenVM coordinator every worker; the units a ZisK coordinator waits for are those its workers advertise; OpenVM workers and manager agree on loadout, limits and number; and what a worker reads a setup job has written. A DCGM sidecar with an embedded engine takes every GPU of its host beside the workers, by design, so GPUs are compared between workers only. Two exceptions are part of the statement: files that are not `Addressed`, in which hosts are to dial each other at 127.0.0.1, and the ports of OpenVM workers on devices from 1400 on, which grow into those of the sidecars.

### Deploy

One command at a time (`cmd`), in phases as `Up` and `Down` go through them: `prepare`, `keys`, `compile` (ZisK), `coordinator`, `workers`, `sidecars` for one, `prepare`, `sidecarsDown`, `workersDown` and the coordinator last for the other. Within a phase `pc[h]` and `todo[h]` are the goroutine of host `h`; a phase ends when all have. A failing goroutine cancels the others of an `Up`; those of a `Down` fail alone.

On the daemons, which outlive the command: `keys[h][u]`, the key unit `u` in the volume of the host, `absent`, `partial` or `whole`; `job[h]`, the one-off container that sets one up; `box[h][n]`, the cluster container `n` with the configuration it was created from, its state, the number of its run and the runs that logged the ready line. A unit is *the* proving key for ZisK, whose volume is taken for a finished setup, and a program's keyset for OpenVM, whose last file is moved into place. `since` and `seen` are what `WaitLogLine` read: the start of a run, and the run of the line it found.

Histories: `base` is the run there was when a wait began, `stuck` the containers that a down failed to remove, `excused` the hosts where something else than a failing setup left a partial key: a kill, a lost answer to the creation of the volume, or a removal that failed (ZisK reports that one to the operator).

### Pipeline, ProofEnvelope, Estimation, Journal

Pure functions, one operator for each of the code's, with the statement they are checked against at the end of each module:

- `Pipeline`: bars placed backwards from their end, clamped at zero, onto a worker's timeline, from the timings of OpenVM and of ZisK. `TimelineSound` asks of every drawn timeline that its bars lie within the proof, in order and on a registered worker; that the OpenVM bars of one worker, row and identifier never overlap, although each is placed backwards from the next and clamped; that a ZisK record draws one bar on its own worker's row; and that a task of an unknown worker, phase or type fails the timeline and is never drawn as another.
- `ProofEnvelope`: the reader with its sticky error, variable-length integers and lengths bounded by the bytes that are left. `EnvelopeFaithful` encodes a proof as the coordinator does, cuts it anywhere and appends anything: what transcodes is exactly the accepted flavour, whole.
- `Estimation`: a cost is the total over the samples of its component in the width of the code, and only the guest's own failure is recorded as one.
- `Journal`: the decoder puts together lines that were split, under the stamp of their first part, and a file that could not be read whole does not stay. A journal is drawn as pieces, cut behind each entry that ends a line of either stream of the container; where an entry of the one stream falls between two parts of a line of the other, a piece is more than a line, and `JournalFaithful` says so (see Limits); the listing answers by full names although Docker matches parts; relayed lines are never torn or mixed.

## 3. The runs

| Run | Question | Answer |
| --- | --- | --- |
| `forwarder_safety` | Can two calls, four configurations, expected outputs of three lengths, a crash, a failing listener and a signal break mutual exclusion, the verdicts, the metric lines, the warm start, the debt rule or the promise? | no, 2,267,596 states |
| `forwarder_liveness` | Is a call that queued on the mutex always answered, after up to two crashes, and does a signal always end the process? | yes, 112,478 states |
| `forwarder_recovery` | Does every test start on a recovered cluster, as `README.md:121` says? | no |
| `forwarder_exit` | Is there a cluster error behind every error exit, as `server.go:55` says? | no |
| `openvm_client` | Do two calls with two submissions each, two transport faults and a restart of the manager measure their own proofs, free the manager and return? | yes, 754,273 states |
| `openvm_cancel` | Is the proof of an expired call always cancelled, as `client.go:124` says? | no |
| `zisk_provision` | Do three killable forwarders, an operator and a coordinator that fails or hangs keep guests apart and end where they should? | yes, 53,385 states |
| `zisk_client` | Do two proofs with three submissions each, a lost request or answer, a restart, missing workers and a `Close` at any moment measure their own jobs and leave nothing that runs on? | yes, 283,696 states |
| `estimate` | Do two commands with two workers, killed, interrupted or failing anywhere, over a new or an unfinished directory, keep artifacts, mirrors and files in agreement and end? | yes, 874,996 states |
| `deploy` | Do two commands of `up` and `down` of either zkVM, on two hosts, with a fault, a kill and a crash anywhere, tell the truth about keys, readiness and what is left? | yes, 439,205 states |
| `algorithms` | Do the pure parts agree with their reference definitions on bounded inputs? | yes, 110,325 states |
| `zisk_late_verb` | Is a clean end of stream always the restart, as `zisk/client.go:180` says? | no |

### Properties

- `OneProofAtATime`: from the readiness wait to the end of the second warmup one call at a time is on the prover, and none during the first warmup.
- `ValidIsProved`: VALID means that the call's own verified commitment is at least as long as its own expected output, and is that output padded with zeros.
- `MetricsAgree`: metric lines and verdicts correspond one to one.
- `PortOpensWarm`: calls are served by warm workers unless one crashed.
- `NoTestOnOwedCluster`: a failure is made good or waived before the next proof.
- `PromiseKept`: `Forwarder` implements `ForwarderSpec`.
- `EveryCallSettles`: no path keeps the mutex.
- `SignalEndsProcess`: a signal ends the process from any stage, also between the warmup and the first accept and with handlers queued, proving or verifying.
- `RetriesNeverCollide`, `SettledCallsFreeTheManager`, `ReturnsWithContext`: the OpenVM client against lost requests and a restarting manager.
- `MeasuresOwnProof`: the interval of a successful call holds its own proof and, besides it, at most the end of one orphan that still ran while the submission that landed was uploaded. The code measures from `submitWait`, read before the upload, and the manager can only refuse the start request behind it, so this exception is real.
- `RefusedOnlyByFault`: a call that is followed and told its proof is unknown lost it to a restart or to an eviction behind a broken stream, never to a submission of its own that did not land.
- `OnlyOwnGuest`, `NoStaleRequest`: a forwarder that passed the restart is alone with its guest, and no older request can end its coordinator.
- `RequestedEndIsReplaced`, `StopEndsContainer`: what becomes of a request and of a stop, whichever comes in between.

- `MeasuresOwnJob`: the interval of a successful ZisK call holds its own job and no other, but for jobs a failed request took from their call; never a recovered setup.
- `LeavesOnlyOrphans`: a job still queued or running after its call returned was orphaned by a failed request. `server.go:47` gives this as the purpose of the mutex, and the exception is real: a lost answer leaves a job that nobody can name.
- `NoUseAfterFree`: `Close` frees no handle under a verification.
- `ReturnsWithContext` (both clients): no loop outlives the context.
- `ArtifactsSound`, `FilesFollowRecords`, `MirrorComplete`: what any command leaves on disk can be resumed, reused and linked: one guest, one verdict for each test, a file behind each cost, and a mirror that a profile which succeeds completes.
- `NothingLost`: a saved test stays saved, and a link moves all of them.
- `CommandEnds`: no goroutine waits for one that is gone.
- `NoServerLeft`: a started ere-server goes with its command unless the command is killed or the daemon fails to remove it; a container that never started is left besides only by an error that cut its creation off.
- `KeysAccounted`: a key the next `up` will skip is whole, in work, or left by something else than a failing setup.
- `ReadyIsSound`: ready means whole keys, matching verifying keys and a ready line of the current run or a later one on every worker.
- `DownIsThorough`: after `down` whatever is left on the worker hosts and of the coordinator is what it reported, also over containers of another configuration.
- `TimelineSound`, `AnswersFaithful`, `InspectionFaithful`, `ConfigAgrees`: the four groups of pure functions.

### Bounds, and why they are enough

- Two calls: mutual exclusion and the hand-over of the mutex are between pairs, and two calls already give a failure, a second warmup and the test after it. The theorems of section 4 remove this bound for all safety properties of the forwarder.
- Commitments of three bytes and expected outputs of one, three and four: shorter than, as long as and longer than the commitment, with zero and non-zero tails. The theorems hold for all byte strings.
- `MaxCrashes` 1 in safety and 2 in liveness: a crash during the first proof and one during the second warmup.
- Two `Prove` calls with two submissions: an orphan can meet the retry of its own call and the first submission of the next. Two faults: a lost answer and a broken stream in one behaviour. One restart, so that there is a before and an after.
- Three forwarders: a killed one, the one it disturbs and one after both. One failure of the coordinator by itself.

- Two ZisK calls with three submissions, so that a lost answer, a refusal for a missing setup and a success fit in one call, and what the first call leaves is queued in front of the second. One lost request and one restart.
- Two tests, two guests, two workers, a run directory and one further identifier: reuse, mirror and link are between pairs, and the second guest is what they must not pick up. A save after every outcome (`Interval` 1) puts a save between any two. Two commands, since a third meets nothing but what the second could leave, and the initial directory already stands for one before. One failing step for both, and a kill at any step of each.
- Two hosts, one with one CPU, so that its CPUs cannot be split among two workers; per zkVM a plain configuration, one with another verifying key, and ones that move or drop workers, so that the second command meets containers of another configuration. One fault, one kill and one crash, in either command.
- `MCAlgorithms` draws each input once. The sets contain zero, missing and inverted stamps, bytes on both sides of every marker of the integer encoding (250 to 253), envelopes of up to 36 bytes cut at every position, names that are parts of one another, and costs that wrap at a modulus of 256 in place of 2^64.

The theorems of section 4 remove the bounds for all safety properties.

Calls, submissions, forwarders, commands, identifiers, crashes, restarts and failures are the only counters, and each has its bound in a guard. Deadlock checking is off in every run because each of these systems really stops: a process exits, the calls of a run end, the last forwarder is up, the operator runs no further command, an input has been drawn.

### Fairness, and why the code justifies it

- A handler goroutine that can run does (the Go scheduler). `Prove` ends because its context carries a deadline. The readiness wait before it ends because crashed containers restart (`WF` on `Recover`). Weak fairness is enough for the mutex because each of finitely many calls takes it once; Go's mutex is in fact starvation-free. The main goroutine is owed a step before the port opens only once a signal ended the context that everything there waits on; how long the dial and the warmup take is not limited. After that `Serve`, `Close` and the return are its own steps.
- OpenVM: the client's own steps and the end of its context. Nothing is assumed of the manager, which may stay down or prove for ever.
- ZisK client: its own steps and the end of its context, as for OpenVM. The coordinator may keep workers away or a job running for ever.
- Estimate: the goroutines run and the ere-server answers an execution, with a cost or an error. Nothing is assumed of the operator.
- ZisK provisioning: the supervisor's goroutines and its kill timer, and the daemon replacing a failed container. The coordinator may ignore every SIGTERM.

### Where a text and the code disagree

1. `README.md:121` says that the next test starts on a recovered cluster. A second warmup that fails is only printed (`server.go:243`), and none happens when the caller left (`server.go:232`).
2. `server.go:55` says that fail-run exits on a cluster error. After a signal the deferred `Close` takes the prover from a handler that still proves. Its call fails with a live request context, so the handler can end a requested stop with status 1.
3. `openvm/client.go:124` says that `Prove` cancels the proof when the context expires first. When it expires while `start_proof` is in flight, the proof can be admitted and the cancellation is not reached (`client.go:231`).
4. `zisk/client.go:179` takes a clean end of stream for the restart. The supervisor also closes without a word when the verb does not arrive within `readTimeout` (`zisk-supervisor/main.go:113`).

## 4. What is proved

`ForwarderProofs` is checked by TLAPS for every set of calls, every set of outputs and configurations and every number of crashes, from `ForwarderAssumption` alone: `None` is no call, output or verdict, outputs are sequences of naturals, and configurations have the two flags.

The properties are not inductive as they stand. `OneProofAtATime` speaks of two handlers but is preserved because of a third thing, the mutex. So the invariant is

    IInv == TypeOK /\ LockInv /\ StageInv /\ CallInv /\ MetricInv /\ ClusterInv

- `LockInv`: a handler is in a critical place exactly when it is `holder`. Mutual exclusion follows, since `holder` is one value.
- `StageInv`: no handler has left `idle` before the port opened.
- `CallInv`: what a call holds (expected output, outcome, cause, verdict) at each place, which carries the judgement from `Judge` to the answer.
- `MetricInv`: lines and verdicts. With `CallInv`, under which a handler that has not been judged holds no verdict, it follows that such a handler has no line yet, so the line `Judge` appends is its first.
- `ClusterInv`: warmth and debts. A debt is `owed` only while some handler is in the failure path, which by `LockInv` is the owner of the mutex; that is why no other test can be proving then.

Each action disturbs few of the parts, so there is one lemma per part (`TypeStep`, `LockStep`, `StageStep`, `CallStep`, `MetricStep`, `ClusterStep`) with one step per action below it, and `Invariance` puts them together. The six property theorems are consequences. Two lemmas about `OutputMatched` stand on their own: `MatchedIsPadded` turns the code's two loops into equality with the padded output, and `MatchIsUnambiguous` says that a commitment cannot match two expected outputs of one length.

`ServerKeepsPromise` is the refinement: `MainRefines` and `HandlerRefines` show that every step is a step of `ForwarderSpec` or a stutter. `IInv` is needed there: `TakeLock` is an abstract `Begin` only because nobody else is critical, and `Judge` a `Settle` only because the handler owns the mutex.

The other proof modules follow the same plan: an inductive invariant of named parts, a lemma for each part with a step for each action, and the theorems as consequences. Each holds for every value of the constants under the module's one `ASSUME`.

**`OpenvmProofs`.** `PlaceInv` says which identifier the running call holds, `SlotInv` what the manager's slot can hold at each place of the client, `FreshInv` that only submissions that were made have been seen, `OwnInv` that `measured` holds, besides the proof that is followed, at most one that was left behind, `FaultInv` that a manager which is away restarted and one that forgot the proof restarted or evicted it while the stream was down. `SettledCallsFreeTheManager` needs `SlotInv`: a busy slot of the same call is always the submission that is followed, so completing it frees the manager of lost ones too.

**`ZiskProvisionProofs`.** `TypeOK` for everything; `OnlyOwnGuest` and `NoStaleRequest` under `~LateVerbs`, which is what fails in the run `zisk_late_verb`. `ContainerInv` relates the container to its connections and `LandedInv` is the heart: once a forwarder's restart has landed and a coordinator serves, no verb is on the way to it and it knows no other guest.

**`ZiskClientProofs`.** `SetupInv` is the fact that is easy to miss: while a call follows a job, a coordinator without a setup has no pending job at all, because what lost the setup lost the jobs. `OwnInv` bounds `measured`, `EndInv` says that a job which is checked has ended.

**`EstimateProofs`.** `JobInv` counts: the busy workers are a finite set no larger than the live ones (with `FiniteSetTheorems`), and none is busy outside the collecting phase. `MemoryInv` says that a test is in one of three places, to be sent, with a worker, or recorded, which gives one verdict for each test. `GrowthInv` is that memory only ever holds more than disk, so a save loses nothing; `FileInv` that a cost in memory has its file or a source of it; `DoneInv` that what a finished profile wrote agrees with its mirror. `NoServerLeft` is inductive with them: whichever step ends a command (`Ends`) settles what its server is left as. `EstimateNothingLost` is an action property from the same invariant.

**`DeployProofs`.** Three theorems for any hosts, configurations and numbers of faults, kills and crashes, from `DeployAssumption`.

- `DeployKeysAccounted`: `GoroutineInv` says what the goroutine of a host still has to do at each place and that a job which succeeded left a whole key; `ZiskKeysInv` that a partial key is excused or in work. For OpenVM the property follows from its probe, which asks for the file that is written last.
- `DeployDownIsThorough`: `BoxesInv` says which containers there can be and where the goroutines of each phase are, `DownInv` that until its goroutine is done each worker container of a host is on its list or counted as stuck. That list is read from the daemon, not derived from the configuration, so the property also holds over containers of another one.
- `DeployReadyIsSound`: `SettledInv` (the hosts that the key phase passed have their keys), `CompiledInv` (on each host the guests that are no longer to be compiled were compared, and after the phase all of them) and `WaitInv` (what a wait holds: the start of a run, and a line found in that run or a later one). Together they are `UpInv`, which hands what one phase established to the next; `BoxesInv` keeps the coordinator and the sidecars from touching a worker, and `ZiskKeysInv` turns a key that was found into a whole one.

**`ClusterConfigProofs`.** `SpecificationsAgree` is `SpecsAgree` for every file over any set of strings and hosts with any number of CPUs and NUMA nodes. Disjoint CPUs and GPUs of the workers of a host come from lemmas about the sums that the derivation folds over, disjoint names and ports, those of the sidecars included, from the rules of `Validate` (`AllContainersDiffer`, `AllResourcesDiffer`). `SpecsAgree` excepts the files that are not `Addressed`: both loaders accept the loopback address for a worker and a coordinator on different hosts, and such a deployment cannot meet. The strings are a parameter because the backends cannot show a literal to be in `STRING`.

**`AlgorithmsProofs`.** Timelines, envelopes, estimations, journals, listings and relays, without any bound on workers, hosts, segments, nodes, tasks, records, samples, containers, lines, parts, characters or writes.

- `OpenvmTimelinesSound`: every proof, with any stamps, draws a sound timeline, under two hypotheses. A queue wait is not negative; and `DistinctResults`, a worker proves no segment, leaf range or internal node twice. Both are facts about the manager and neither is checked by the code, where a wait is any `int64` (`openvm/pipeline.go:81`) and a result draws its bars whatever came before it. Without them bars of one row and id can overlap.
- `ZiskTimelinesSound`: every job, without a hypothesis on its tasks, including those whose phase or record type has no bar.
- `EnvelopesFaithful`: every proof, with words of any value, wherever its envelope ends and whatever follows the vk. The hypothesis `Fits` is that no vector has 2^24 or more elements, so that three bytes count them (`IsSmall`). The chain of readers is walked along the encoding: a reader that stands before a field and has all of it returns the field and stands behind it, one that has less of it fails, and a reader that failed stays failed.
- `EstimationsFaithful`: every answer of an ere-server, with any sample types, also repeated ones, and any samples. `Totals` gives the reference as running sums of integers, reduced once at the end, while the code's sum wraps at every sample (`SumsAgree`).
- `SelectionsExact`: every listing of every host. The daemon's filter finds a container by its own name because a name is a part of itself, and whatever else it finds does not carry a selected name.
- `JournalsFaithful`: every journal, as pieces of any text cut anywhere into parts of either stream, and every window. `PiecesAreLines` shows that a piece is one line of one stream, whole, as long as no entry of the other interrupts a split line. Two hypotheses state what the log driver does: the stamps of the entries do not decrease (`PrintedInOrder`), and only the last part of a line may be empty (`SplitLines`), since the others fill the driver's buffer. `LineTaken` says what the decoder does over the parts of one line, `LinesDecoded` carries it across the lines. The line to watch is one that the end of the window cuts off: the decoder still holds it, and would join the next line to it, but behind it nothing is in the window, because the stamps do not decrease (`CutOff`). `DamageFails` is the entry that does not read.
- `RelaysFaithful`: any containers, characters and writes. The invariant of the relay is `Follow`: what a writer holds is the rest of its stream after the last newline, and what was printed under its lead are the lines before. One character keeps it (`PutOne`), hence a write does, and the writes of other containers do not touch it (`AlikeBut`).
- `AlgorithmsTimelineSound`, `AlgorithmsAnswersFaithful`, `AlgorithmsInspectionFaithful` and `AlgorithmsConfigAgrees` are the four invariants of the run `algorithms`: what `MCAlgorithms` draws satisfies the hypotheses.

The argument about timelines is the same for both zkVMs. `Walks` turns a fold over results into the sequence of builders that it passes through, so that a claim about the last follows by induction over their positions. For OpenVM the claim is `Batched`: after k results there are only bars of their signatures (worker, row, id), and bars of one signature are clear of one another if the signatures of the results differ. For ZisK it is `Covers`: the bars are those of the records that reach into the proof, as many and no others, and `Ranked` says in which order their workers are registered. The sort at the end loses, invents and changes no bar (`SortedTasks`).

Some induction over data is within reach after all. The induction theorems of the library take an operator and cannot be instantiated by the backends, but their special case for a *set* of naturals (`SetInduction`, from the least element that is missing) is an ordinary lemma, and a fold is a recursive function over index sets, which `Follows` unrolls. `SelectSeq` and `SortSeq` stay opaque. That is why the orders in `Pipeline` are stated by `InOrder`, an element's position being the number of elements before it, and why `Journal` selects names as a set and entries by a concatenation (`FlattenSeq`) of sequences with one element or none.

Only model-checked, on the instances above, is liveness (`EveryCallSettles`, `ReturnsWithContext` of both clients, `RequestedEndIsReplaced`, `StopEndsContainer`, `CommandEnds`), since proofs about fairness need `ENABLED`, which is out of the prover's reach. The four runs that expect a violation are counterexamples and nothing to prove.

## 5. What is not modelled

Generated gRPC stubs, and the native verifier beyond its lifetime rule (used in `Forwarder`). Formatting, colours, log lines and tables. The contents of proofs, pipelines and metrics other than the judgement. Reading YAML, fetching ELFs, the SSH dial. The HTTP handler's method table beyond calls that need a proof and calls that do not.

Of the estimates: the index of `estimate` runs, headers, the shortening of file names, parsing of fixtures. Of the deployments: the scripts, mounts and flags that nothing else has to agree with, image digests and file copies other than as calls that fail, the images, fields and flags of the sidecars. `ps`, `logs` and the flag parsing of the other commands. The ssh command line and its quoting.

Limits that a reader should know:

- A killed `up` of ZisK leaves a partial proving key that the next `up` takes for a whole one. The model reaches it and `KeysAccounted` and `ReadyIsSound` except it (`excused`), since the code makes no promise there; the hazard is listed.
- A second `up` compiles the guests while a worker of the first holds the GPU, although `zisk/spec.go:318` says that the compilation runs before the cluster starts. What that does to the compilation is outside the code.
- Hosts are compared as SSH destinations. Two spellings of one host defeat the uniqueness checks, in the code as in the model, where a destination *is* the host.
- A container in its restart backoff reports running under the start of its last run (`docker.go:376`), so `ReadyIsSound` speaks of the run that the wait began with, or a later one, and not of one that still runs.
- Ranks that are no multiple of the NUMA nodes of a host (`zisk/spec.go:174`) are computed and nothing is claimed of them.
- `writeJournal` reads whether an entry is partial, but neither its stream nor the id of the line it is part of. When a container writes a line longer than the driver's buffer to one stream while a line of the other stream is logged, the decoder joins parts of both to one line, although `journal.go:155` says that a split line joins back. `JournalFaithful` claims a whole line only where that did not happen (`Uninterrupted`), and otherwise that no text is lost, doubled or moved.
- The port of an OpenVM worker is 8001 plus its device id, which no loader bounds, so devices 1400 and 1401 would meet the sidecars' ports 9401 and 9402. `ResourcesDiffer` claims nothing there.
- An ere-server container whose creation was answered with an error but happened stays on the host, since `Start` returns without a look at it (`ereserver/server.go:69`). `NoServerLeft` excepts it.
- A link that dies between its two renames leaves the mirror under its old name, and no later link moves it. No record is lost, which is all that is claimed.

What the plan has left:

1. An abstract prover contract (one job in flight, an outcome is sound, a call ends with its context) that `OpenvmClient` and `ZiskClient` implement and `Forwarder` relies on, as a refinement.
2. A composition of `Forwarder`'s mutex with one detailed client over a small instance, so that a call that expires in the client is felt by the next call of the server.
3. The index of `Estimate` and the collision of shortened file names.
