------------------------------- MODULE Deploy -------------------------------
(***************************************************************************)
(* provoor up and provoor down, for both zkVMs, against the Docker daemons *)
(* of the hosts.  A command is one process; within a phase each host has a *)
(* goroutine of its own, and a phase ends when all of them have.  The      *)
(* containers live on the daemons, so they run on when the command is      *)
(* killed.                                                                 *)
(*                                                                         *)
(* The keys of a host are kept in a volume.  ZisK takes the existence of   *)
(* the volume for a finished setup, and its partial state is an empty or   *)
(* half-built volume.  OpenVM looks for the file that key generation moves *)
(* into place last, once per program.                                      *)
(***************************************************************************)
EXTENDS ClusterConfig, TLC

CONSTANTS
    Hosts,         \* the SSH destinations
    Configs,       \* what the operator's file says, one version after another
    Daemon,        \* the CPUs of a host
    None,
    MaxCommands,   \* commands the operator runs
    MaxFaults,     \* Docker calls and jobs that fail, interrupts
    MaxKills,      \* commands killed with no chance to clean up
    MaxCrashes     \* cluster containers that crash

(* A cluster container: the configuration it was created from, its state,  *)
(* how often it has started, and the starts whose ready line it logged.    *)
Boxes ==
    [cfg : Configs, state : {"created", "running", "restarting", "exited"},
     run : Nat, lines : SUBSET Nat]

ASSUME DeployAssumption ==
    /\ MaxCommands \in Nat /\ MaxFaults \in Nat /\ MaxKills \in Nat /\ MaxCrashes \in Nat
    /\ Daemon \in [Hosts -> Nat]
    /\ Configs \subseteq Files(STRING)
    /\ \A c \in Configs : Range(Destinations(c)) \subseteq Hosts
    /\ None \notin Boxes

VARIABLES
    zkvm,        \* the zkVM the operator deploys; the two share no name
    cmd,         \* the running command, [verb, cfg], or None
    phase,       \* the step the command is at, or how it ended
    pc,          \* pc[h]: where the goroutine of host h is
    todo,        \* todo[h]: what that goroutine still has to do, in order
    cancelled,   \* the context is done: interrupted, or (up) a goroutine failed
    keys,        \* keys[h][u]: the key unit u in the volume of host h
    job,         \* job[h]: the one-off key container on host h, or None
    box,         \* box[h][n]: the cluster container n on host h, or None
    since,       \* since[h][n]: the run whose start WaitLogLine last read, or 0
    seen,        \* seen[h][n]: the run whose ready line it found, or 0
    base,        \* base[h][n]: the run there was when the wait began (history)
    stuck,       \* containers that a down could not remove (history)
    excused,     \* hosts whose key was left partial by a fault (history)
    budget       \* what is left of the bounds

vars == <<zkvm, cmd, phase, pc, todo, cancelled, keys, job, box, since, seen, base,
          stuck, excused, budget>>

world == <<keys, job, excused>>
waits == <<since, seen, base>>

----------------------------------------------------------------------------
(* Names and derived sets.                                                 *)

Key == "proving-key"

Family == {c \in Configs : c.zkvm = zkvm}

(* The units of key material: one key, or a keyset per program.            *)
Units == IF zkvm = "zisk" THEN {Key}
         ELSE UNION {{c.guests[i].elf : i \in DOMAIN c.guests} : c \in Family}

Names == {CoordinatorContainer} \cup
         UNION {{d.name : d \in Range(Containers(c))} : c \in {x \in Family : Valid(x)}}

Guests == [i \in DOMAIN cmd.cfg.guests |-> cmd.cfg.guests[i].elf]

(* The configured verifying key belongs to the guest's ELF.                *)
VKMatches(cfg, g) ==
    \A i \in DOMAIN cfg.guests : cfg.guests[i].elf = g => cfg.guests[i].vk = g

WorkerHosts(cfg) == {cfg.workers[i].ssh : i \in DOMAIN cfg.workers}
AllHosts(cfg) == Range(Destinations(cfg))

(* The coordinator of OpenVM serves the baselines, so it needs keys too.   *)
KeyHosts(cfg) == IF zkvm = "zisk" THEN WorkerHosts(cfg) ELSE AllHosts(cfg)

WorkerNames(cfg, h) ==
    LET group == HostWorkers(cfg, h)
    IN  [i \in DOMAIN group |-> WorkerContainer(cfg, cfg.workers[group[i]])]

IsWorker(n) == n[1] = "worker"

SidecarsOf(cfg) ==
    [i \in DOMAIN cfg.sidecars |-> <<cfg.sidecars[i].ssh, SidecarContainer(cfg.sidecars[i].kind)>>]

Fresh(cfg) == [cfg |-> cfg, state |-> "running", run |-> 1, lines |-> {}]
Created(cfg) == [cfg |-> cfg, state |-> "created", run |-> 0, lines |-> {}]

(* Docker reports a container in its restart backoff as running.           *)
ReportedRunning(c) == c # None /\ c.state \in {"running", "restarting"}

(* Running: a crash loop counts as absent, so its container is replaced.   *)
LeftInPlace(c) == c # None /\ c.state = "running"

(* Whether an Up skips the unit on this host.                              *)
Present(h, u) == IF zkvm = "zisk" THEN keys[h][u] # "absent" ELSE keys[h][u] = "whole"

Spend(what) ==
    /\ budget[what] > 0
    /\ budget' = [budget EXCEPT ![what] = @ - 1]

(* A call fails because its context is done, or by a fault of its own.     *)
FailsNow == (cancelled /\ UNCHANGED budget) \/ (~cancelled /\ Spend("faults"))

At(h, p, where) == phase = p /\ pc[h] = where

----------------------------------------------------------------------------
(* Phases.                                                                 *)

(* The goroutines of a phase and where they begin.                         *)
Enter(p, hosts, where, work) ==
    /\ phase' = p
    /\ pc' = [h \in Hosts |-> IF h \in hosts THEN where ELSE "done"]
    /\ todo' = [h \in Hosts |-> IF h \in hosts THEN work[h] ELSE <<>>]

Nothing == [h \in Hosts |-> <<>>]

End(outcome) ==
    /\ phase' = outcome
    /\ pc' = [h \in Hosts |-> "done"]
    /\ todo' = [h \in Hosts |-> <<>>]

NoWaits ==
    LET zero == [h \in Hosts |-> [n \in Names |-> 0]]
    IN  since' = zero /\ seen' = zero /\ base' = zero

(* The operator runs a command when the one before has ended.  Dialling,   *)
(* reading the guests and pulling the image come before anything is        *)
(* changed; a file that does not validate, guests that would share a       *)
(* keyset and hosts that cannot be reached end the command there.          *)
Command(verb, cfg) ==
    /\ phase \in {"idle", "refused", "ready", "failed", "down", "stillUp"}
    /\ Spend("commands")
    /\ cmd' = [verb |-> verb, cfg |-> cfg]
    /\ IF Valid(cfg) /\ (verb = "up" /\ zkvm = "openvm" => ResolvePrograms(cfg))
       THEN Enter("prepare", {}, "done", Nothing)
       ELSE End("refused")
    /\ cancelled' = FALSE
    /\ stuck' = {}
    /\ NoWaits
    /\ UNCHANGED <<zkvm, world, box>>

Prepared ==
    /\ phase = "prepare"
    /\ ~cancelled
    /\ IF cmd.verb = "up"
       THEN Enter("keys", KeyHosts(cmd.cfg), "probe", Nothing)
       ELSE Enter("sidecarsDown", {}, "done", Nothing)
    /\ UNCHANGED <<zkvm, cmd, cancelled, world, box, waits, stuck, budget>>

NotPrepared ==
    /\ phase = "prepare"
    /\ FailsNow
    /\ End("failed")
    /\ cancelled' = TRUE
    /\ UNCHANGED <<zkvm, cmd, world, box, waits, stuck>>

Joined == \A h \in Hosts : pc[h] = "done"

(* errgroup.Wait: the next phase begins when every goroutine returned and  *)
(* none failed.  An interrupt between two phases makes the next one fail.  *)
NextUpPhase ==
    /\ cmd # None /\ cmd.verb = "up"
    /\ phase \in {"keys", "compile", "coordinator", "workers"}
    /\ Joined
    /\ LET cfg == cmd.cfg
           compile == Enter("compile", WorkerHosts(cfg), "compile", [h \in Hosts |-> Guests])
           coordinator == Enter("coordinator", {cfg.coordinator.ssh}, "place",
                                [h \in Hosts |-> <<CoordinatorContainer>>])
           workers == Enter("workers", WorkerHosts(cfg), "place", [h \in Hosts |-> WorkerNames(cfg, h)])
       IN  IF cancelled THEN End("failed")
           ELSE CASE phase = "keys" -> IF zkvm = "zisk" THEN compile ELSE coordinator
                  [] phase = "compile" -> coordinator
                  [] phase = "coordinator" -> workers
                  [] phase = "workers" ->
                        Enter("sidecars", {cfg.coordinator.ssh}, "sidecar",
                              [h \in Hosts |-> SidecarsOf(cfg)])
    /\ UNCHANGED <<zkvm, cmd, cancelled, world, box, waits, stuck, budget>>

(* A Docker call of a goroutine that has nothing to clean up fails.        *)
GiveUp(h) ==
    /\ \/ At(h, "keys", "probe") \/ At(h, "keys", "create") \/ At(h, "keys", "verify")
       \/ At(h, "compile", "compile")
       \/ At(h, "coordinator", "await") \/ At(h, "workers", "await")
    /\ FailsNow
    /\ pc' = [pc EXCEPT ![h] = "done"]
    /\ cancelled' = TRUE
    /\ UNCHANGED <<zkvm, cmd, phase, todo, world, box, waits, stuck>>

----------------------------------------------------------------------------
(* Keys.  A one-off job runs on the daemon until somebody removes it.      *)

Missing(h) ==
    IF zkvm = "zisk" THEN IF Present(h, Key) THEN <<>> ELSE <<Key>>
    ELSE SelectSeq(Guests, LAMBDA g : ~Present(h, g))

Unit(h) == todo[h][1]

(* ensureProvingKey and missingPrograms: only what is missing is set up.   *)
Probe(h) ==
    /\ At(h, "keys", "probe")
    /\ ~cancelled
    /\ todo' = [todo EXCEPT ![h] = Missing(h)]
    /\ pc' = [pc EXCEPT ![h] = IF Missing(h) # <<>>
                               THEN IF zkvm = "zisk" THEN "create" ELSE "start"
                               ELSE IF zkvm = "zisk" THEN "done" ELSE "verify"]
    /\ UNCHANGED <<zkvm, cmd, phase, cancelled, world, box, waits, stuck, budget>>

(* ZisK creates the volume first.  When the daemon created it and its      *)
(* answer is lost, to a cancellation too, the volume stays behind empty.   *)
CreateVolume(h) ==
    /\ At(h, "keys", "create")
    /\ keys' = [keys EXCEPT ![h][Key] = "partial"]
    /\ \/ /\ ~cancelled
          /\ pc' = [pc EXCEPT ![h] = "start"]
          /\ UNCHANGED <<cancelled, excused, budget>>
       \/ /\ FailsNow
          /\ pc' = [pc EXCEPT ![h] = "done"]
          /\ cancelled' = TRUE
          /\ excused' = excused \cup {h}
    /\ UNCHANGED <<zkvm, cmd, phase, todo, job, box, waits, stuck>>

(* Run: a container of an earlier command is removed by name, and the job  *)
(* starts.  Key generation makes the program's directory.                  *)
StartJob(h) ==
    /\ At(h, "keys", "start")
    /\ ~cancelled
    /\ job' = [job EXCEPT ![h] = [unit |-> Unit(h), state |-> "running"]]
    /\ keys' = [keys EXCEPT ![h][Unit(h)] = IF @ = "whole" THEN @ ELSE "partial"]
    /\ pc' = [pc EXCEPT ![h] = "wait"]
    /\ UNCHANGED <<zkvm, cmd, phase, todo, cancelled, excused, box, waits, stuck, budget>>

(* The daemon's side of the job.                                           *)
JobEnds(h) ==
    /\ job[h] # None
    /\ job[h].state = "running"
    /\ \/ /\ job' = [job EXCEPT ![h].state = "succeeded"]
          /\ keys' = [keys EXCEPT ![h][job[h].unit] = "whole"]
          /\ excused' = excused \ {h}
          /\ UNCHANGED budget
       \/ /\ Spend("faults")
          /\ job' = [job EXCEPT ![h].state = "failed"]
          /\ UNCHANGED <<keys, excused>>
    /\ UNCHANGED <<zkvm, cmd, phase, pc, todo, cancelled, box, waits, stuck>>

(* Run returns with the exit code of its container and removes it.         *)
JobDone(h) ==
    /\ At(h, "keys", "wait")
    /\ job[h].state # "running"
    /\ job' = [job EXCEPT ![h] = None]
    /\ IF job[h].state = "failed"
       THEN pc' = [pc EXCEPT ![h] = "cleanup"] /\ UNCHANGED todo
       ELSE /\ todo' = [todo EXCEPT ![h] = Tail(@)]
            /\ pc' = [pc EXCEPT ![h] = IF Len(todo[h]) > 1 THEN "start"
                                       ELSE IF zkvm = "zisk" THEN "done" ELSE "verify"]
    /\ UNCHANGED <<zkvm, cmd, phase, cancelled, keys, excused, box, waits, stuck, budget>>

(* Run returns early: its start or its wait failed, or the context ended.  *)
(* The removal of the container runs without that context; by a fault of   *)
(* its own it is left to run.                                              *)
JobAbandoned(h) ==
    /\ phase = "keys" /\ pc[h] \in {"start", "wait"}
    /\ \/ FailsNow /\ job' = [job EXCEPT ![h] = None]
       \/ Spend("faults") /\ UNCHANGED job
    /\ pc' = [pc EXCEPT ![h] = "cleanup"]
    /\ UNCHANGED <<zkvm, cmd, phase, todo, cancelled, keys, excused, box, waits, stuck>>

(* KeysAccounted: the failed run leaves what it wrote.                     *)
CleanUpNothing(h) ==
    /\ At(h, "keys", "cleanup")
    /\ pc' = [pc EXCEPT ![h] = "done"]
    /\ cancelled' = TRUE
    /\ UNCHANGED <<zkvm, cmd, phase, todo, world, box, waits, stuck, budget>>

(* A failed run removes the partial volume (ZisK) or the program's         *)
(* directory (OpenVM), without the context.  The daemon refuses to remove  *)
(* a volume that a container uses; the clean-up of OpenVM is a container   *)
(* of the job's name and removes it first.  A volume that stays is         *)
(* reported to the operator; a directory that stays is not.                *)
CleanUp(h) ==
    /\ At(h, "keys", "cleanup")
    /\ \/ /\ zkvm = "zisk" => job[h] = None
          /\ keys' = [keys EXCEPT ![h][Unit(h)] = "absent"]
          /\ job' = [job EXCEPT ![h] = None]
          /\ UNCHANGED <<excused, budget>>
       \/ /\ job[h] = None => Spend("faults")
          /\ job[h] # None => UNCHANGED budget
          /\ excused' = excused \cup {h}
          /\ UNCHANGED <<keys, job>>
    /\ pc' = [pc EXCEPT ![h] = "done"]
    /\ cancelled' = TRUE
    /\ UNCHANGED <<zkvm, cmd, phase, todo, box, waits, stuck>>

(* verifyBaselines: every program's baseline is there and is the one of    *)
(* its configured verifying key.                                           *)
Verified(h) ==
    \A i \in DOMAIN Guests : keys[h][Guests[i]] = "whole" /\ VKMatches(cmd.cfg, Guests[i])

Verify(h) ==
    /\ At(h, "keys", "verify")
    /\ ~cancelled
    /\ pc' = [pc EXCEPT ![h] = "done"]
    /\ cancelled' = ~Verified(h)
    /\ UNCHANGED <<zkvm, cmd, phase, todo, world, box, waits, stuck, budget>>

(* setupGuests: ZisK compiles the guests of a host in turn, on every up,   *)
(* and the setup checks the verifying key it derives.  What it makes of a  *)
(* key that is not whole is not known; without any it fails.               *)
CompileGuest(h) ==
    /\ At(h, "compile", "compile")
    /\ ~cancelled
    /\ LET compiles == VKMatches(cmd.cfg, Unit(h)) /\ keys[h][Key] # "absent"
       IN  /\ cancelled' = ~compiles
           /\ todo' = [todo EXCEPT ![h] = IF compiles THEN Tail(@) ELSE @]
           /\ pc' = [pc EXCEPT ![h] = IF compiles /\ Len(todo[h]) > 1 THEN @ ELSE "done"]
    /\ UNCHANGED <<zkvm, cmd, phase, world, box, waits, stuck, budget>>

----------------------------------------------------------------------------
(* Containers.                                                             *)

PlacePhases == {"coordinator", "workers"}

Next1(h) == todo[h][1]

(* The containers of this phase on host h.                                 *)
PhaseNames(h) ==
    IF phase = "coordinator" THEN {CoordinatorContainer} ELSE Range(WorkerNames(cmd.cfg, h))

(* Running and Start: a container that runs is left as it is, whatever it  *)
(* was started from; anything else of that name makes room for a new one.  *)
Place(h) ==
    /\ phase \in PlacePhases /\ pc[h] = "place"
    /\ todo[h] # <<>>
    /\ ~cancelled
    /\ phase = "workers" /\ zkvm = "openvm" => CanSplitCPUs(cmd.cfg, h, Daemon[h])
    /\ LET n == Next1(h)
           c == IF LeftInPlace(box[h][n]) THEN box[h][n] ELSE Fresh(cmd.cfg)
       IN  /\ box' = [box EXCEPT ![h][n] = c]
           /\ base' = [base EXCEPT ![h][n] = c.run]
    /\ todo' = [todo EXCEPT ![h] = Tail(@)]
    /\ pc' = [pc EXCEPT ![h] = IF Len(todo[h]) > 1 THEN @ ELSE "await"]
    /\ UNCHANGED <<zkvm, cmd, phase, cancelled, world, since, seen, stuck, budget>>

(* The inspection, the removal, the creation, a file copy or the start     *)
(* fails.  A created container that does not run stays under its name.     *)
PlaceFails(h) ==
    /\ phase \in PlacePhases /\ pc[h] = "place"
    /\ FailsNow
    /\ LET n == Next1(h)
       IN  box' \in {box} \cup IF LeftInPlace(box[h][n]) THEN {}
                               ELSE {[box EXCEPT ![h][n] = c] : c \in {None, Created(cmd.cfg)}}
    /\ pc' = [pc EXCEPT ![h] = "done"]
    /\ cancelled' = TRUE
    /\ UNCHANGED <<zkvm, cmd, phase, todo, world, waits, stuck>>

(* The CPUs of a host cannot be split across its workers.                  *)
PlaceRefused(h) ==
    /\ At(h, "workers", "place")
    /\ zkvm = "openvm" /\ ~CanSplitCPUs(cmd.cfg, h, Daemon[h])
    /\ pc' = [pc EXCEPT ![h] = "done"]
    /\ cancelled' = TRUE
    /\ UNCHANGED <<zkvm, cmd, phase, todo, world, box, waits, stuck, budget>>

(* waitListening: the ports of the coordinator accept a connection.        *)
CoordinatorListens(h) ==
    /\ At(h, "coordinator", "await")
    /\ ~cancelled
    /\ LET c == box[h][CoordinatorContainer]
       IN  c.state = "running" /\ c.run \in c.lines
    /\ pc' = [pc EXCEPT ![h] = "done"]
    /\ UNCHANGED <<zkvm, cmd, phase, todo, cancelled, world, box, waits, stuck, budget>>

(* WaitLogLine reads the start of the current run, then the log since that *)
(* start: in between the container may restart.                            *)
ReadStart(h, n) ==
    /\ At(h, "workers", "await")
    /\ ~cancelled
    /\ n \in PhaseNames(h) /\ seen[h][n] = 0 /\ since[h][n] = 0
    /\ ReportedRunning(box[h][n])
    /\ since' = [since EXCEPT ![h][n] = box[h][n].run]
    /\ UNCHANGED <<zkvm, cmd, phase, pc, todo, cancelled, world, box, seen, base, stuck, budget>>

(* ReadyIsSound: the log is read from its beginning.                       *)
ReadWholeLog(h, n) ==
    /\ At(h, "workers", "await")
    /\ ~cancelled
    /\ n \in PhaseNames(h) /\ since[h][n] # 0
    /\ LET found == box[h][n].lines
       IN  seen' = [seen EXCEPT ![h][n] =
                       IF found = {} THEN 0 ELSE CHOOSE r \in found : \A q \in found : r <= q]
    /\ since' = [since EXCEPT ![h][n] = 0]
    /\ UNCHANGED <<zkvm, cmd, phase, pc, todo, cancelled, world, box, base, stuck, budget>>

ReadLog(h, n) ==
    /\ At(h, "workers", "await")
    /\ ~cancelled
    /\ n \in PhaseNames(h) /\ since[h][n] # 0
    /\ LET found == {r \in box[h][n].lines : r >= since[h][n]}
       IN  seen' = [seen EXCEPT ![h][n] =
                       IF found = {} THEN 0 ELSE CHOOSE r \in found : \A q \in found : r <= q]
    /\ since' = [since EXCEPT ![h][n] = 0]
    /\ UNCHANGED <<zkvm, cmd, phase, pc, todo, cancelled, world, box, base, stuck, budget>>

WorkersReady(h) ==
    /\ At(h, "workers", "await")
    /\ \A n \in PhaseNames(h) : seen[h][n] # 0
    /\ pc' = [pc EXCEPT ![h] = "done"]
    /\ UNCHANGED <<zkvm, cmd, phase, todo, cancelled, world, box, waits, stuck, budget>>

(* The container that is waited for has exited.  The coordinator is probed *)
(* by a command inside it, which a restarting container refuses.           *)
AwaitExited(h) ==
    /\ phase \in PlacePhases /\ pc[h] = "await"
    /\ \E n \in PhaseNames(h) :
          ~IF phase = "coordinator" THEN LeftInPlace(box[h][n]) ELSE ReportedRunning(box[h][n])
    /\ pc' = [pc EXCEPT ![h] = "done"]
    /\ cancelled' = TRUE
    /\ UNCHANGED <<zkvm, cmd, phase, todo, world, box, waits, stuck, budget>>

(* StartSidecars: a leftover is replaced; a sidecar that does not come up  *)
(* is reported and the next one is tried.                                  *)
StartSidecar(h) ==
    /\ At(h, "sidecars", "sidecar")
    /\ todo[h] # <<>>
    /\ \/ box' = [box EXCEPT ![Next1(h)[1]][Next1(h)[2]] = Fresh(cmd.cfg)] /\ ~cancelled /\ UNCHANGED budget
       \/ /\ FailsNow
          /\ box' \in {box} \cup
                 IF cancelled THEN {}
                 ELSE {[box EXCEPT ![Next1(h)[1]][Next1(h)[2]] = c] : c \in {None, Created(cmd.cfg), Fresh(cmd.cfg)}}
    /\ todo' = [todo EXCEPT ![h] = Tail(@)]
    /\ UNCHANGED <<zkvm, cmd, phase, pc, cancelled, world, waits, stuck>>

UpDone ==
    /\ phase = "sidecars"
    /\ todo[cmd.cfg.coordinator.ssh] = <<>>
    /\ End("ready")
    /\ UNCHANGED <<zkvm, cmd, cancelled, world, box, waits, stuck, budget>>

(* The daemon's side of a cluster container: it becomes ready, crashes and *)
(* is restarted, or exits for good.                                        *)
Ready(h, n) ==
    /\ box[h][n] # None /\ box[h][n].state = "running" /\ ~(n[1] = "sidecar")
    /\ box[h][n].run \notin box[h][n].lines
    /\ box' = [box EXCEPT ![h][n].lines = @ \cup {box[h][n].run}]
    /\ UNCHANGED <<zkvm, cmd, phase, pc, todo, cancelled, world, waits, stuck, budget>>

Crash(h, n) ==
    /\ box[h][n] # None /\ box[h][n].state = "running" /\ ~(n[1] = "sidecar")
    /\ Spend("crashes")
    /\ \E s \in {"restarting", "exited"} : box' = [box EXCEPT ![h][n].state = s]
    /\ UNCHANGED <<zkvm, cmd, phase, pc, todo, cancelled, world, waits, stuck>>

Restart(h, n) ==
    /\ box[h][n] # None /\ box[h][n].state = "restarting"
    /\ box' = [box EXCEPT ![h][n].state = "running", ![h][n].run = @ + 1]
    /\ UNCHANGED <<zkvm, cmd, phase, pc, todo, cancelled, world, waits, stuck, budget>>

----------------------------------------------------------------------------
(* Down.                                                                   *)

(* StopAndRemove: [left, ok] for a container.  One that is gone is         *)
(* tolerated; a stop or a removal that fails is an error.                  *)
StopOutcomes(c) ==
    {[left |-> None, ok |-> TRUE]} \cup
    IF c = None THEN {} ELSE {[left |-> c, ok |-> FALSE], [left |-> [c EXCEPT !.state = "exited"], ok |-> FALSE]}

(* DownIsThorough: the workers of the configuration at hand, and no other. *)
ToStopConfigured(h) == WorkerNames(cmd.cfg, h)

(* A worker host's list of containers: by name for ZisK, by the pattern of *)
(* the name for OpenVM, which covers workers of an earlier configuration.  *)
ToStop(h) ==
    IF zkvm = "zisk" THEN WorkerNames(cmd.cfg, h)
    ELSE SetToSeq({n \in Names : IsWorker(n) /\ box[h][n] # None})

(* StopSidecars: every kind on every host, and failures are ignored.       *)
StopSidecars ==
    /\ phase = "sidecarsDown"
    /\ LET all == {x \in AllHosts(cmd.cfg) \X Names : x[2][1] = "sidecar" /\ box[x[1]][x[2]] # None}
       IN  \E left \in SUBSET all :
              /\ IF left = {} THEN ~cancelled /\ UNCHANGED budget ELSE FailsNow
              /\ box' = [h \in Hosts |-> [n \in Names |->
                            IF <<h, n>> \in all \ left THEN None ELSE box[h][n]]]
    /\ Enter("workersDown", WorkerHosts(cmd.cfg), "list", Nothing)
    /\ UNCHANGED <<zkvm, cmd, cancelled, world, waits, stuck>>

(* The goroutines of a down fail alone: the context they share is only     *)
(* ended by an interrupt.                                                  *)
ListWorkers(h) ==
    /\ At(h, "workersDown", "list")
    /\ \/ /\ ~cancelled
          /\ todo' = [todo EXCEPT ![h] = ToStop(h)]
          /\ pc' = [pc EXCEPT ![h] = "stop"]
          /\ UNCHANGED <<stuck, budget>>
       \/ /\ FailsNow
          /\ stuck' = stuck \cup {<<h, n>> : n \in {m \in Names : IsWorker(m)}}
          /\ pc' = [pc EXCEPT ![h] = "done"]
          /\ UNCHANGED todo
    /\ UNCHANGED <<zkvm, cmd, phase, cancelled, world, box, waits>>

(* One container; the first that fails ends the goroutine of its host, and *)
(* leaves those after it.                                                  *)
StopWorker(h) ==
    /\ At(h, "workersDown", "stop")
    /\ todo[h] # <<>>
    /\ \E o \in StopOutcomes(box[h][Next1(h)]) :
          /\ IF o.ok THEN ~cancelled /\ UNCHANGED budget ELSE FailsNow
          /\ box' = [box EXCEPT ![h][Next1(h)] = o.left]
          /\ stuck' = IF o.ok THEN stuck ELSE stuck \cup {<<h, n>> : n \in Range(todo[h])}
          /\ todo' = [todo EXCEPT ![h] = IF o.ok THEN Tail(@) ELSE <<>>]
    /\ UNCHANGED <<zkvm, cmd, phase, pc, cancelled, world, waits>>

WorkersStopped(h) ==
    /\ At(h, "workersDown", "stop")
    /\ todo[h] = <<>>
    /\ pc' = [pc EXCEPT ![h] = "done"]
    /\ UNCHANGED <<zkvm, cmd, phase, todo, cancelled, world, box, waits, stuck, budget>>

(* The coordinator comes last and is stopped whatever became of workers.   *)
StopCoordinator ==
    /\ phase = "workersDown"
    /\ Joined
    /\ LET h == cmd.cfg.coordinator.ssh
           n == CoordinatorContainer
       IN  \E o \in StopOutcomes(box[h][n]) :
              /\ IF o.ok THEN ~cancelled /\ UNCHANGED budget ELSE FailsNow
              /\ box' = [box EXCEPT ![h][n] = o.left]
              /\ stuck' = IF o.ok THEN stuck ELSE stuck \cup {<<h, n>>}
    /\ End(IF stuck' = {} THEN "down" ELSE "stillUp")
    /\ UNCHANGED <<zkvm, cmd, cancelled, world, waits>>

----------------------------------------------------------------------------
(* The operator's signals.                                                 *)

Busy == phase \notin {"idle", "refused", "ready", "failed", "down", "stillUp"}

(* The first signal ends the context.                                      *)
Interrupt ==
    /\ Busy /\ ~cancelled
    /\ Spend("faults")
    /\ cancelled' = TRUE
    /\ UNCHANGED <<zkvm, cmd, phase, pc, todo, world, box, waits, stuck>>

(* A second signal, or the end of the machine: nothing is cleaned up, and  *)
(* what the daemons run they run on.                                       *)
Kill ==
    /\ Busy
    /\ Spend("kills")
    /\ excused' = excused \cup {h \in Hosts : phase = "keys" /\ pc[h] \in {"start", "wait", "cleanup"}}
    /\ End("idle")
    /\ cmd' = None
    /\ cancelled' = FALSE
    /\ stuck' = {}
    /\ NoWaits
    /\ UNCHANGED <<zkvm, keys, job, box>>

----------------------------------------------------------------------------
Init ==
    /\ zkvm \in {c.zkvm : c \in Configs}
    /\ cmd = None
    /\ phase = "idle"
    /\ pc = [h \in Hosts |-> "done"]
    /\ todo = [h \in Hosts |-> <<>>]
    /\ cancelled = FALSE
    /\ keys = [h \in Hosts |-> [u \in Units |-> "absent"]]
    /\ job = [h \in Hosts |-> None]
    /\ box = [h \in Hosts |-> [n \in Names |-> None]]
    /\ since = [h \in Hosts |-> [n \in Names |-> 0]]
    /\ seen = since
    /\ base = since
    /\ stuck = {}
    /\ excused = {}
    /\ budget = [commands |-> MaxCommands, faults |-> MaxFaults, kills |-> MaxKills,
                 crashes |-> MaxCrashes]

Next ==
    \/ \E verb \in {"up", "down"}, cfg \in Family : Command(verb, cfg)
    \/ Prepared \/ NotPrepared \/ NextUpPhase
    \/ \E h \in Hosts :
          \/ GiveUp(h)
          \/ Probe(h) \/ CreateVolume(h) \/ StartJob(h) \/ JobEnds(h) \/ JobDone(h)
          \/ JobAbandoned(h) \/ CleanUp(h) \/ Verify(h) \/ CompileGuest(h)
          \/ Place(h) \/ PlaceFails(h) \/ PlaceRefused(h) \/ CoordinatorListens(h)
          \/ WorkersReady(h) \/ AwaitExited(h) \/ StartSidecar(h)
          \/ ListWorkers(h) \/ StopWorker(h) \/ WorkersStopped(h)
    \/ \E h \in Hosts, n \in Names :
          ReadStart(h, n) \/ ReadLog(h, n) \/ Ready(h, n) \/ Crash(h, n) \/ Restart(h, n)
    \/ UpDone \/ StopSidecars \/ StopCoordinator
    \/ Interrupt \/ Kill

Spec == Init /\ [][Next]_vars

----------------------------------------------------------------------------
(* Properties.                                                             *)

(* KeysAccounted: a key that the next up would skip is whole, or it is     *)
(* being set up, or a fault left it: the command was killed, the daemon's  *)
(* answer to the creation was lost, or the operator was told to remove the *)
(* volume.  A failed or cancelled setup never leaves one silently          *)
(* (zisk/deploy.go:159, openvm/deploy.go:313).                             *)
KeysAccounted ==
    \A h \in Hosts, u \in Units :
        Present(h, u) /\ keys[h][u] # "whole" =>
            \/ h \in excused
            \/ phase = "keys" /\ pc[h] \in {"start", "wait", "cleanup"}

(* ReadyIsSound: when up reports the cluster ready, every host it deploys  *)
(* to holds whole keys (but for an excused one), every guest's configured  *)
(* verifying key is the one its ELF derives, and every worker logged its   *)
(* ready line in a run that began no earlier than the one up found or      *)
(* started: a line of an earlier run never counts                          *)
(* (cluster/docker.go:376, zisk/deploy.go:45, openvm/deploy.go:57).        *)
ReadyIsSound ==
    phase = "ready" =>
        LET cfg == cmd.cfg
        IN  /\ \A h \in KeyHosts(cfg), u \in Units :
                  \/ keys[h][u] = "whole"
                  \/ zkvm = "zisk" /\ h \in excused
                  \/ zkvm = "openvm" /\ u \notin Range(Guests)
            /\ \A i \in DOMAIN Guests : VKMatches(cfg, Guests[i])
            /\ \A h \in WorkerHosts(cfg) : \A n \in Range(WorkerNames(cfg, h)) :
                  /\ box[h][n] # None
                  /\ seen[h][n] \in box[h][n].lines
                  /\ seen[h][n] >= base[h][n]

(* DownIsThorough: after down no worker container is left on a worker host *)
(* of the configuration, whatever configuration it was started from, and   *)
(* no coordinator, but for those whose own stop failed or that came after  *)
(* a failure on their host; a degraded host never keeps the coordinator    *)
(* running, and down reports success only when nothing is left             *)
(* (zisk/deploy.go:108, openvm/deploy.go:115, :186).                       *)
DownIsThorough ==
    phase \in {"down", "stillUp"} =>
        /\ phase = "down" => stuck = {}
        /\ \A h \in WorkerHosts(cmd.cfg), n \in Names :
              IsWorker(n) /\ box[h][n] # None => <<h, n>> \in stuck
        /\ LET h == cmd.cfg.coordinator.ssh
           IN  box[h][CoordinatorContainer] # None => <<h, CoordinatorContainer>> \in stuck
=============================================================================
