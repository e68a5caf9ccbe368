---------------------------- MODULE DeployProofs ----------------------------
(***************************************************************************)
(* Proofs about Deploy, for any hosts, configurations, commands, faults,   *)
(* kills and crashes.                                                      *)
(***************************************************************************)
EXTENDS Deploy, ClusterConfigProofs

\* A one-off setup container of ZisK, and where its goroutine can be.
KeyJobs == [unit : {Key}, state : {"running", "succeeded", "failed"}]
KeyPlaces == {"probe", "create", "start", "wait", "cleanup", "done"}
SettingUp == {"start", "wait", "cleanup"}

\* The goroutines of the key phase: what they still have to do, and the
\* container that they wait for, whose success left a whole key.
GoroutineInv ==
    phase = "keys" =>
        /\ pc \in [Hosts -> KeyPlaces]
        /\ todo \in [Hosts -> {<<>>, <<Key>>}]
        /\ \A h \in Hosts : pc[h] \in SettingUp => todo[h] = <<Key>>
        /\ \A h \in Hosts : pc[h] = "create" => todo[h] = <<Key>>
        /\ \A h \in Hosts : pc[h] = "wait" =>
              job[h] \in KeyJobs /\ (job[h].state = "succeeded" => keys[h][Key] = "whole")

\* The keys of ZisK, whose mere existence makes the next up skip the setup.
\* Those of OpenVM are skipped only when they are whole.
ZiskKeysInv ==
    zkvm = "zisk" =>
        /\ keys \in [Hosts -> [{Key} -> {"absent", "partial", "whole"}]]
        /\ job \in [Hosts -> KeyJobs \cup {None}]
        /\ excused \subseteq Hosts
        /\ GoroutineInv
        /\ \A h \in Hosts : keys[h][Key] = "partial" =>
              h \in excused \/ (phase = "keys" /\ pc[h] \in SettingUp)

----------------------------------------------------------------------------
LEMMA InitKeys == Init => ZiskKeysInv
BY DEF Init, ZiskKeysInv, GoroutineInv, Units

LEMMA KeysFollow == ZiskKeysInv => KeysAccounted
BY DEF ZiskKeysInv, KeysAccounted, Present, Units, SettingUp

\* A step of another phase leaves the keys alone.
LEMMA Elsewhere ==
    ASSUME ZiskKeysInv, UNCHANGED <<zkvm, keys, job, excused>>, phase # "keys", phase' # "keys"
    PROVE  ZiskKeysInv'
BY DEF ZiskKeysInv, GoroutineInv

\* A step that touches nothing that the invariant is about.
LEMMA Untouched ==
    ASSUME ZiskKeysInv, UNCHANGED <<zkvm, phase, pc, todo, keys, job, excused>>
    PROVE  ZiskKeysInv'
BY DEF ZiskKeysInv, GoroutineInv

LEMMA CommandSteps ==
    ASSUME ZiskKeysInv,
           \/ \E verb \in {"up", "down"}, cfg \in Family : Command(verb, cfg)
           \/ Prepared \/ NotPrepared \/ NextUpPhase \/ UpDone \/ StopSidecars \/ StopCoordinator
           \/ Interrupt \/ Kill
    PROVE  ZiskKeysInv'
<1>1. CASE \E verb \in {"up", "down"}, cfg \in Family : Command(verb, cfg)
  BY <1>1, Elsewhere DEF Command, Enter, End, world
<1>2. CASE Prepared
  <2>1. CASE cmd.verb = "up"
    <3>1. /\ phase' = "keys" /\ phase # "keys" /\ UNCHANGED <<zkvm, keys, job, excused>>
          /\ pc' \in [Hosts -> {"probe", "done"}] /\ todo' = [h \in Hosts |-> <<>>]
      BY <1>2, <2>1 DEF Prepared, Enter, Nothing, world
    <3>. QED
      BY <3>1 DEF ZiskKeysInv, GoroutineInv, KeyPlaces, SettingUp
  <2>2. CASE cmd.verb # "up"
    BY <1>2, <2>2, Elsewhere DEF Prepared, Enter, world
  <2>. QED
    BY <2>1, <2>2
<1>3. CASE NotPrepared \/ UpDone
  BY <1>3, Elsewhere DEF NotPrepared, UpDone, End, world
<1>4. CASE StopSidecars \/ StopCoordinator
  BY <1>4, Elsewhere DEF StopSidecars, StopCoordinator, Enter, End, world
<1>5. CASE NextUpPhase
  <2>1. phase' # "keys" /\ (\A h \in Hosts : pc[h] = "done") /\ UNCHANGED <<zkvm, keys, job, excused>>
    BY <1>5 DEF NextUpPhase, Joined, Enter, End, world
  <2>. QED
    BY <2>1 DEF ZiskKeysInv, GoroutineInv, SettingUp
<1>6. CASE Interrupt
  BY <1>6, Untouched DEF Interrupt, world
<1>7. CASE Kill
  <2>1. /\ phase' = "idle" /\ UNCHANGED <<zkvm, keys, job>>
        /\ excused' = excused \cup {h \in Hosts : phase = "keys" /\ pc[h] \in {"start", "wait", "cleanup"}}
    BY <1>7 DEF Kill, End
  <2>. QED
    BY <2>1 DEF ZiskKeysInv, GoroutineInv, SettingUp
<1>. QED
  BY <1>1, <1>2, <1>3, <1>4, <1>5, <1>6, <1>7

\* The goroutines of the other phases, and the containers.
LEMMA OtherSteps ==
    ASSUME ZiskKeysInv, NEW h \in Hosts,
           \/ Verify(h) \/ CompileGuest(h) \/ Place(h) \/ PlaceFails(h) \/ PlaceRefused(h)
           \/ CoordinatorListens(h) \/ WorkersReady(h) \/ AwaitExited(h) \/ StartSidecar(h)
           \/ ListWorkers(h) \/ StopWorker(h) \/ WorkersStopped(h)
           \/ \E n \in Names : ReadStart(h, n) \/ ReadLog(h, n) \/ Ready(h, n) \/ Crash(h, n)
                               \/ Restart(h, n)
    PROVE  ZiskKeysInv'
<1>1. CASE Verify(h) /\ zkvm = "zisk"
  BY <1>1 DEF Verify, At, ZiskKeysInv, GoroutineInv, KeyPlaces
<1>2. CASE Verify(h) /\ zkvm # "zisk"
  BY <1>2 DEF Verify, ZiskKeysInv
<1>3. CASE CompileGuest(h) \/ CoordinatorListens(h) \/ WorkersReady(h) \/ AwaitExited(h)
  BY <1>3, Elsewhere
     DEF CompileGuest, CoordinatorListens, WorkersReady, AwaitExited, At, PlacePhases, world
<1>4. CASE Place(h) \/ PlaceFails(h) \/ PlaceRefused(h)
  BY <1>4, Elsewhere DEF Place, PlaceFails, PlaceRefused, At, PlacePhases, world
<1>5. CASE StartSidecar(h) \/ ListWorkers(h) \/ StopWorker(h) \/ WorkersStopped(h)
  BY <1>5, Elsewhere DEF StartSidecar, ListWorkers, StopWorker, WorkersStopped, At, world
<1>6. CASE \E n \in Names : ReadStart(h, n) \/ ReadLog(h, n) \/ Ready(h, n) \/ Crash(h, n)
                            \/ Restart(h, n)
  BY <1>6, Untouched DEF ReadStart, ReadLog, Ready, Crash, Restart, world
<1>. QED
  BY <1>1, <1>2, <1>3, <1>4, <1>5, <1>6

\* The goroutine of a key host and its job.
LEMMA KeySteps ==
    ASSUME ZiskKeysInv, NEW h \in Hosts,
           \/ GiveUp(h) \/ Probe(h) \/ CreateVolume(h) \/ StartJob(h) \/ JobEnds(h) \/ JobDone(h)
           \/ JobAbandoned(h) \/ CleanUp(h)
    PROVE  ZiskKeysInv'
<1>. SUFFICES ASSUME zkvm = "zisk", zkvm' = zkvm
              PROVE  ZiskKeysInv'
  BY DEF GiveUp, Probe, CreateVolume, StartJob, JobEnds, JobDone, JobAbandoned, CleanUp, ZiskKeysInv
<1>. USE DEF ZiskKeysInv, GoroutineInv, KeyPlaces, SettingUp, At, world
<1>1. CASE GiveUp(h)
  <2>1. /\ UNCHANGED <<phase, todo, keys, job, excused>> /\ pc' = [pc EXCEPT ![h] = "done"]
        /\ phase = "keys" => pc[h] \in {"probe", "create"}
    BY <1>1 DEF GiveUp
  <2>. QED
    BY <2>1
<1>2. CASE Probe(h)
  <2>1. Missing(h) \in {<<>>, <<Key>>}
    BY DEF Missing
  <2>2. \/ /\ Missing(h) = <<>> /\ pc' = [pc EXCEPT ![h] = "done"]
        \/ /\ Missing(h) = <<Key>> /\ pc' = [pc EXCEPT ![h] = "create"]
    BY <1>2, <2>1 DEF Probe
  <2>3. /\ UNCHANGED <<phase, keys, job, excused>> /\ phase = "keys" /\ pc[h] = "probe"
        /\ todo' = [todo EXCEPT ![h] = Missing(h)]
    BY <1>2 DEF Probe
  <2>. QED
    BY <2>1, <2>2, <2>3
<1>3. CASE CreateVolume(h)
  BY <1>3 DEF CreateVolume
<1>4. CASE StartJob(h)
  <2>1. Unit(h) = Key /\ phase = "keys" /\ pc[h] = "start"
    BY <1>4 DEF StartJob, Unit
  <2>2. /\ job' = [job EXCEPT ![h] = [unit |-> Key, state |-> "running"]]
        /\ keys' = [keys EXCEPT ![h][Key] = IF @ = "whole" THEN @ ELSE "partial"]
        /\ pc' = [pc EXCEPT ![h] = "wait"] /\ UNCHANGED <<phase, todo, excused>>
    BY <1>4, <2>1 DEF StartJob
  <2>3. [unit |-> Key, state |-> "running"] \in KeyJobs
    BY DEF KeyJobs
  <2>. QED
    BY <2>1, <2>2, <2>3
<1>5. CASE JobEnds(h)
  <2>1. job[h] \in KeyJobs
    BY <1>5 DEF JobEnds
  <2>2. CASE /\ job' = [job EXCEPT ![h].state = "succeeded"]
             /\ keys' = [keys EXCEPT ![h][job[h].unit] = "whole"]
             /\ excused' = excused \ {h}
    <3>1. job[h].unit = Key /\ [job[h] EXCEPT !.state = "succeeded"] \in KeyJobs
      BY <2>1 DEF KeyJobs
    <3>2. keys'[h][Key] = "whole" /\ job'[h] \in KeyJobs
      BY <2>2, <3>1
    <3>3. UNCHANGED <<phase, pc, todo>>
      BY <1>5 DEF JobEnds
    <3>4. \A g \in Hosts \ {h} : keys'[g] = keys[g] /\ job'[g] = job[g]
      BY <2>2
    <3>5. /\ keys' \in [Hosts -> [{Key} -> {"absent", "partial", "whole"}]]
          /\ job' \in [Hosts -> KeyJobs \cup {None}]
      BY <2>2, <3>1
    <3>. QED
      BY <2>2, <3>2, <3>3, <3>4, <3>5
  <2>3. CASE job' = [job EXCEPT ![h].state = "failed"] /\ UNCHANGED <<keys, excused>>
    BY <1>5, <2>1, <2>3 DEF JobEnds, KeyJobs
  <2>. QED
    BY <1>5, <2>2, <2>3 DEF JobEnds
<1>6. CASE JobDone(h)
  <2>1. /\ phase = "keys" /\ pc[h] = "wait" /\ UNCHANGED <<phase, keys, excused>>
        /\ job' = [job EXCEPT ![h] = None] /\ job[h] \in KeyJobs
    BY <1>6 DEF JobDone
  <2>2. CASE job[h].state = "failed"
    <3>1. pc' = [pc EXCEPT ![h] = "cleanup"] /\ UNCHANGED todo
      BY <1>6, <2>2 DEF JobDone
    <3>. QED
      BY <2>1, <3>1
  <2>3. CASE job[h].state = "succeeded"
    <3>1. keys[h][Key] = "whole" /\ todo[h] = <<Key>>
      BY <2>1, <2>3
    <3>2. Tail(<<Key>>) = <<>> /\ Len(<<Key>>) = 1
      OBVIOUS
    <3>3. todo' = [todo EXCEPT ![h] = <<>>] /\ pc' = [pc EXCEPT ![h] = "done"]
      BY <1>6, <2>3, <3>1, <3>2 DEF JobDone
    <3>. QED
      BY <2>1, <3>1, <3>3
  <2>. QED
    BY <1>6, <2>1, <2>2, <2>3 DEF JobDone, KeyJobs
<1>7. CASE JobAbandoned(h)
  BY <1>7 DEF JobAbandoned
<1>8. CASE CleanUp(h)
  <2>1. Unit(h) = Key /\ phase = "keys" /\ pc[h] = "cleanup"
    BY <1>8 DEF CleanUp, Unit
  <2>2. /\ pc' = [pc EXCEPT ![h] = "done"] /\ UNCHANGED <<phase, todo>>
        /\ \/ /\ keys' = [keys EXCEPT ![h][Key] = "absent"]
              /\ job' = [job EXCEPT ![h] = None] /\ UNCHANGED excused
           \/ excused' = excused \cup {h} /\ UNCHANGED <<keys, job>>
    BY <1>8, <2>1 DEF CleanUp
  <2>3. CASE keys' = [keys EXCEPT ![h][Key] = "absent"] /\ job' = [job EXCEPT ![h] = None]
             /\ UNCHANGED excused
    <3>1. keys' \in [Hosts -> [{Key} -> {"absent", "partial", "whole"}]] /\ keys'[h][Key] = "absent"
      BY <2>3
    <3>2. \A g \in Hosts \ {h} : keys'[g] = keys[g] /\ job'[g] = job[g] /\ pc'[g] = pc[g]
      BY <2>2, <2>3
    <3>3. pc' \in [Hosts -> KeyPlaces] /\ pc'[h] = "done"
      BY <2>1, <2>2
    <3>4. job' \in [Hosts -> KeyJobs \cup {None}] /\ job'[h] = None
      BY <2>3
    <3>5. UNCHANGED <<phase, todo, excused>>
      BY <2>2, <2>3
    <3>6. GoroutineInv'
      BY <2>1, <3>2, <3>3, <3>5
    <3>7. \A g \in Hosts : keys'[g][Key] = "partial" =>
             g \in excused \/ (phase = "keys" /\ pc'[g] \in SettingUp)
      BY <3>1, <3>2
    <3>. QED
      BY <3>1, <3>4, <3>5, <3>6, <3>7
  <2>4. CASE excused' = excused \cup {h} /\ UNCHANGED <<keys, job>>
    BY <2>1, <2>2, <2>4
  <2>. QED
    BY <2>2, <2>3, <2>4
<1>. QED
  BY <1>1, <1>2, <1>3, <1>4, <1>5, <1>6, <1>7, <1>8

LEMMA Invariance == Spec => []ZiskKeysInv
<1>1. ASSUME ZiskKeysInv, [Next]_vars
      PROVE  ZiskKeysInv'
  <2>1. CASE UNCHANGED vars
    BY <1>1, <2>1, Untouched DEF vars
  <2>2. CASE Next
    BY <1>1, <2>2, CommandSteps, OtherSteps, KeySteps DEF Next
  <2>. QED
    BY <1>1, <2>1, <2>2
<1>. QED
  BY <1>1, InitKeys, PTL DEF Spec

\* A key that the next up takes for a finished setup is whole, or it is being
\* set up, or a kill or a fault of the daemon left it (zisk/deploy.go,
\* ensureProvingKey).
THEOREM DeployKeysAccounted == Spec => []KeysAccounted
BY Invariance, KeysFollow, PTL

----------------------------------------------------------------------------
(* The configurations that can be deployed, and their names.               *)

Deployable == {c \in Family : Valid(c)}

LEMMA SameNames ==
    ASSUME zkvm' = zkvm
    PROVE  Names' = Names /\ Units' = Units /\ Family' = Family /\ Deployable' = Deployable
BY DEF Names, Units, Family, Deployable

LEMMA DeployableFiles ==
    ASSUME NEW cfg \in Deployable
    PROVE  /\ cfg \in Configs /\ cfg \in Files(STRING) /\ cfg.zkvm = zkvm /\ zkvm \in {"zisk", "openvm"}
           /\ cfg.coordinator.ssh \in Hosts /\ cfg.coordinator.ssh \in AllHosts(cfg)
           /\ WorkerHosts(cfg) \subseteq Hosts /\ WorkerHosts(cfg) # {}
           /\ WorkerHosts(cfg) \subseteq KeyHosts(cfg) /\ KeyHosts(cfg) \subseteq Hosts
           /\ cfg.guests # <<>>
<1>1. cfg \in Configs /\ cfg \in Files(STRING) /\ cfg.zkvm = zkvm /\ Valid(cfg)
  BY DeployAssumption DEF Deployable, Family
<1>2. AllHosts(cfg) = {cfg.coordinator.ssh} \cup WorkerHosts(cfg)
  BY <1>1, DestinationHosts DEF AllHosts, WorkerHosts
<1>3. AllHosts(cfg) \subseteq Hosts
  BY <1>1, DeployAssumption DEF AllHosts
<1>4. cfg.zkvm \in {"zisk", "openvm"} /\ cfg.guests # <<>> /\ cfg.workers # <<>>
  BY <1>1, ValidFiles
<1>5. WorkerHosts(cfg) # {}
  <2>1. cfg.workers \in Seq([ssh : STRING, ip : STRING, gpus : Seq(Int)])
    BY <1>1, FileTypes
  <2>2. 1 \in DOMAIN cfg.workers
    BY <1>4, <2>1
  <2>. QED
    BY <2>2 DEF WorkerHosts
<1>. QED
  BY <1>1, <1>2, <1>3, <1>4, <1>5 DEF KeyHosts

\* Workers, sidecars and the coordinator differ in the first part of the name.
LEMMA NameKinds ==
    ASSUME NEW cfg
    PROVE  /\ ~IsWorker(CoordinatorContainer)
           /\ \A k : ~IsWorker(SidecarContainer(k))
           /\ \A w : IsWorker(WorkerContainer(cfg, w))
           /\ \A w : WorkerContainer(cfg, w) # CoordinatorContainer
           /\ cfg.zkvm = "zisk" => \A w : WorkerContainer(cfg, w) = <<"worker">>
BY DEF IsWorker, CoordinatorContainer, SidecarContainer, WorkerContainer

LEMMA NamesOf ==
    ASSUME NEW cfg \in Deployable
    PROVE  /\ CoordinatorContainer \in Names
           /\ \A i \in DOMAIN cfg.workers : WorkerContainer(cfg, cfg.workers[i]) \in Names
<1>1. {d.name : d \in Range(Containers(cfg))} \subseteq Names
  BY DEF Names, Deployable
<1>. QED
  BY <1>1, DeployableFiles, ContainersOf

\* A ZisK host has one worker, under one name.
LEMMA ZiskWorkerName ==
    ASSUME zkvm = "zisk", NEW n \in Names, IsWorker(n)
    PROVE  n = <<"worker">>
<1>1. CASE n = CoordinatorContainer
  BY <1>1, NameKinds
<1>2. CASE \E c \in Deployable : n \in {d.name : d \in Range(Containers(c))}
  <2>1. PICK c \in Deployable : n \in {d.name : d \in Range(Containers(c))}
    BY <1>2
  <2>2. c \in Files(STRING) /\ c.zkvm = "zisk"
    BY <2>1, DeployableFiles
  <2>. QED
    BY <2>1, <2>2, ContainersOf, NameKinds
<1>. QED
  BY <1>1, <1>2 DEF Names, Deployable

\* The containers of the workers of a host.
LEMMA WorkerNamesOf ==
    ASSUME NEW cfg \in Deployable, NEW h
    PROVE  /\ WorkerNames(cfg, h) \in Seq(Names)
           /\ \A n \in Range(WorkerNames(cfg, h)) : IsWorker(n)
           /\ h \in WorkerHosts(cfg) <=> Range(WorkerNames(cfg, h)) # {}
<1>. DEFINE g == HostWorkers(cfg, h)
<1>1. cfg.workers \in Seq([ssh : STRING, ip : STRING, gpus : Seq(Int)])
  BY DeployableFiles, FileTypes
<1>2. g \in Seq(OnHost(cfg, h)) /\ Range(g) = OnHost(cfg, h)
  BY <1>1, HostWorkersListed
<1>3. WorkerNames(cfg, h) = [i \in DOMAIN g |-> WorkerContainer(cfg, cfg.workers[g[i]])]
  BY DEF WorkerNames
<1>. HIDE DEF g
<1>4. \A i \in DOMAIN g : g[i] \in DOMAIN cfg.workers
  BY <1>2 DEF OnHost
<1>5. WorkerNames(cfg, h) \in [DOMAIN g -> Names]
  BY <1>3, <1>4, NamesOf
<1>6. WorkerNames(cfg, h) \in Seq(Names)
  BY <1>2, <1>5, SameLength
<1>7. \A n \in Range(WorkerNames(cfg, h)) : IsWorker(n)
  BY <1>3, NameKinds DEF Range
<1>8. h \in WorkerHosts(cfg) <=> Range(WorkerNames(cfg, h)) # {}
  <2>1. h \in WorkerHosts(cfg) <=> OnHost(cfg, h) # {}
    BY DEF WorkerHosts, OnHost
  <2>2. OnHost(cfg, h) # {} <=> DOMAIN g # {}
    BY <1>2 DEF Range
  <2>3. DOMAIN g # {} <=> Range(WorkerNames(cfg, h)) # {}
    BY <1>3 DEF Range
  <2>. QED
    BY <2>1, <2>2, <2>3
<1>. QED
  BY <1>6, <1>7, <1>8

----------------------------------------------------------------------------
(* The containers there are, and the configuration of a command at work.   *)

BoxTypes ==
    /\ box \in [Hosts -> [Names -> Boxes \cup {None}]]
    /\ \A h \in Hosts : IsFiniteSet({n \in Names : box[h][n] # None})

Commanded ==
    phase \notin {"idle", "refused"} => cmd \in [verb : {"up", "down"}, cfg : Deployable]

\* A step that puts one container in the place of another, or removes it.
LEMMA OneBox ==
    ASSUME BoxTypes, zkvm' = zkvm, NEW h, NEW n, NEW c \in Boxes \cup {None},
           box' = [box EXCEPT ![h][n] = c]
    PROVE  BoxTypes'
<1>1. Names' = Names
  BY SameNames
<1>2. box' \in [Hosts -> [Names -> Boxes \cup {None}]]
  BY DEF BoxTypes
<1>3. ASSUME NEW g \in Hosts
      PROVE  IsFiniteSet({m \in Names : box'[g][m] # None})
  <2>. DEFINE U == {m \in Names : box[g][m] # None}
              V == {m \in Names : box'[g][m] # None}
  <2>1. IsFiniteSet(U \cup {n})
    BY FS_AddElement DEF BoxTypes
  <2>2. V \in SUBSET (U \cup {n})
    BY DEF BoxTypes
  <2>. HIDE DEF U
  <2>3. IsFiniteSet(V)
    <3>. HIDE DEF V
    <3>. QED
      BY <2>1, <2>2, FS_Subset
  <2>. QED
    BY <2>3
<1>. QED
  BY <1>1, <1>2, <1>3 DEF BoxTypes

LEMMA FreshBoxes ==
    ASSUME NEW cfg \in Deployable
    PROVE  Fresh(cfg) \in Boxes /\ Created(cfg) \in Boxes
BY DeployableFiles DEF Fresh, Created, Boxes

\* What a stop can leave of a container.
LEMMA StoppedBoxes ==
    ASSUME NEW c \in Boxes \cup {None}, NEW o \in StopOutcomes(c)
    PROVE  o.left \in Boxes \cup {None} /\ (o.ok => o.left = None)
<1>1. CASE o = [left |-> None, ok |-> TRUE]
  BY <1>1
<1>2. CASE c \in Boxes /\ o = [left |-> c, ok |-> FALSE]
  BY <1>2
<1>3. CASE c \in Boxes /\ o = [left |-> [c EXCEPT !.state = "exited"], ok |-> FALSE]
  BY <1>3 DEF Boxes
<1>. QED
  BY <1>1, <1>2, <1>3 DEF StopOutcomes

LEMMA InitBoxes == Init => BoxTypes /\ Commanded
<1>. SUFFICES ASSUME Init PROVE BoxTypes /\ Commanded
  OBVIOUS
<1>1. box = [h \in Hosts |-> [n \in Names |-> None]] /\ phase = "idle"
  BY DEF Init
<1>2. \A h \in Hosts : {n \in Names : box[h][n] # None} = {}
  BY <1>1
<1>. QED
  BY <1>1, <1>2, FS_EmptySet DEF BoxTypes, Commanded

\* The steps that leave every container alone.
LEMMA KeptBoxes ==
    ASSUME BoxTypes, zkvm' = zkvm, box' = box
    PROVE  BoxTypes'
BY SameNames DEF BoxTypes

LEMMA Restarted ==
    ASSUME NEW b \in Boxes, NEW r \in Nat
    PROVE  LET c == [b EXCEPT !.state = "running", !.run = r]
           IN  c \in Boxes /\ c.run = r /\ c.lines = b.lines
BY DEF Boxes

\* The daemon's side: a container only gains runs and lines.
LEMMA DaemonBoxes ==
    ASSUME BoxTypes, NEW h \in Hosts, NEW n \in Names,
           Ready(h, n) \/ Crash(h, n) \/ Restart(h, n)
    PROVE  /\ BoxTypes'
           /\ box[h][n] \in Boxes /\ box'[h][n] \in Boxes
           /\ \E c \in Boxes : /\ box' = [box EXCEPT ![h][n] = c]
                               /\ c.run >= box[h][n].run /\ box[h][n].lines \subseteq c.lines
<1>1. box[h][n] \in Boxes
  BY DEF BoxTypes, Ready, Crash, Restart
<1>2. \E c \in Boxes : /\ box' = [box EXCEPT ![h][n] = c]
                       /\ c.run >= box[h][n].run /\ box[h][n].lines \subseteq c.lines
  <2>. DEFINE b == box[h][n]
  <2>1. b.run \in Nat /\ b.lines \subseteq Nat /\ b.run + 1 \in Nat /\ b.run + 1 >= b.run /\ b.run >= b.run
    BY <1>1 DEF Boxes
  <2>2. CASE Ready(h, n)
    <3>. DEFINE c == [b EXCEPT !.lines = b.lines \cup {b.run}]
    <3>1. box' = [box EXCEPT ![h][n] = c]
      BY <2>2 DEF Ready
    <3>2. c \in Boxes /\ c.run = b.run /\ c.lines = b.lines \cup {b.run}
      BY <1>1, <2>1 DEF Boxes
    <3>. HIDE DEF b, c
    <3>3. c.run >= b.run /\ b.lines \subseteq c.lines
      BY <2>1, <3>2
    <3>. QED
      BY <3>1, <3>2, <3>3 DEF b
  <2>3. CASE Crash(h, n)
    <3>1. PICK s \in {"restarting", "exited"} : box' = [box EXCEPT ![h][n] = [b EXCEPT !.state = s]]
      BY <2>3 DEF Crash
    <3>. DEFINE c == [b EXCEPT !.state = s]
    <3>2. c \in Boxes /\ c.run = b.run /\ c.lines = b.lines
      BY <1>1 DEF Boxes
    <3>3. box' = [box EXCEPT ![h][n] = c]
      BY <3>1
    <3>. HIDE DEF b, c
    <3>4. c.run >= b.run /\ b.lines \subseteq c.lines
      BY <2>1, <3>2
    <3>. QED
      BY <3>2, <3>3, <3>4 DEF b
  <2>4. CASE Restart(h, n)
    <3>. DEFINE c == [b EXCEPT !.state = "running", !.run = b.run + 1]
    <3>1. box' = [box EXCEPT ![h][n] = c]
      BY <2>4 DEF Restart
    <3>2. c \in Boxes /\ c.run = b.run + 1 /\ c.lines = b.lines
      BY <1>1, <2>1, Restarted
    <3>. HIDE DEF b, c
    <3>3. c.run >= b.run /\ b.lines \subseteq c.lines
      BY <2>1, <3>2
    <3>. QED
      BY <3>1, <3>2, <3>3 DEF b
  <2>. QED
    BY <2>2, <2>3, <2>4
<1>3. zkvm' = zkvm
  BY DEF Ready, Crash, Restart
<1>4. BoxTypes'
  BY <1>2, <1>3, OneBox
<1>5. box'[h][n] \in Boxes
  BY <1>2 DEF BoxTypes
<1>. QED
  BY <1>1, <1>2, <1>4, <1>5

\* Where the goroutines of a phase are, and the containers they still have to
\* place or to stop.
Places ==
    /\ phase \in {"coordinator", "workers"} => pc \in [Hosts -> {"place", "await", "done"}]
    /\ phase = "workersDown" => pc \in [Hosts -> {"list", "stop", "done"}]
    /\ phase \in {"coordinator", "workers", "workersDown"} => todo \in [Hosts -> Seq(Names)]

BoxesInv == BoxTypes /\ Commanded /\ Places

\* The steps of other phases, and of goroutines with no container to change.
LEMMA BoxesAside ==
    ASSUME BoxesInv, UNCHANGED <<zkvm, cmd, phase, box>>,
           phase \notin {"coordinator", "workers", "workersDown"}
    PROVE  BoxesInv'
BY KeptBoxes, SameNames DEF BoxesInv, Commanded, Places

LEMMA BoxesWaiting ==
    ASSUME BoxesInv, UNCHANGED <<zkvm, cmd, phase, todo, box>>,
           pc' = pc \/ \E h \in Hosts : pc' = [pc EXCEPT ![h] = "done"]
    PROVE  BoxesInv'
BY KeptBoxes, SameNames DEF BoxesInv, Commanded, Places

LEMMA CommandBoxes ==
    ASSUME BoxesInv, NEW verb \in {"up", "down"}, NEW cfg \in Family, Command(verb, cfg)
    PROVE  BoxesInv'
<1>1. BoxTypes'
  BY KeptBoxes DEF Command, BoxesInv
<1>2. Commanded'
  <2>1. cmd' = [verb |-> verb, cfg |-> cfg] /\ zkvm' = zkvm /\ phase' \in {"prepare", "refused"}
    BY DEF Command, Enter, End
  <2>2. phase' # "refused" => cfg \in Deployable
    BY DEF Command, Enter, End, Deployable
  <2>. QED
    BY <2>1, <2>2, SameNames DEF Commanded
<1>3. Places'
  BY DEF Command, Enter, End, Places
<1>. QED
  BY <1>1, <1>2, <1>3 DEF BoxesInv

\* The steps from one phase to the next that change no container.
LEMMA PhaseBoxes ==
    ASSUME BoxesInv, Prepared \/ NotPrepared \/ NextUpPhase \/ UpDone \/ Kill
    PROVE  BoxesInv'
<1>1. UNCHANGED <<zkvm, box>> /\ phase \notin {"idle", "refused"} /\ (cmd' = cmd \/ phase' = "idle")
  BY DEF Prepared, NotPrepared, NextUpPhase, UpDone, Kill, Busy, End
<1>2. BoxTypes' /\ Commanded'
  BY <1>1, KeptBoxes, SameNames DEF BoxesInv, Commanded
<1>3. Places'
  <2>1. cmd.cfg \in Deployable
    BY <1>1 DEF BoxesInv, Commanded
  <2>2. CASE Prepared \/ NotPrepared \/ UpDone \/ Kill
    BY <2>2 DEF Prepared, NotPrepared, UpDone, Kill, Enter, End, Places
  <2>3. CASE NextUpPhase
    <3>1. CASE phase' \notin {"coordinator", "workers"}
      BY <2>3, <3>1 DEF NextUpPhase, Enter, End, Places
    <3>2. CASE phase' = "coordinator"
      <4>1. /\ pc' \in [Hosts -> {"place", "done"}]
            /\ todo' \in [Hosts -> {<<CoordinatorContainer>>, <<>>}]
        BY <2>3, <3>2 DEF NextUpPhase, Enter, End
      <4>2. <<CoordinatorContainer>> \in Seq(Names) /\ <<>> \in Seq(Names)
        BY <2>1, NamesOf
      <4>. QED
        BY <1>1, <3>2, <4>1, <4>2, SameNames DEF Places
    <3>3. CASE phase' = "workers"
      <4>1. /\ pc' \in [Hosts -> {"place", "done"}]
            /\ todo' = [h \in Hosts |-> IF h \in WorkerHosts(cmd.cfg) THEN WorkerNames(cmd.cfg, h) ELSE <<>>]
        BY <2>3, <3>3 DEF NextUpPhase, Enter, End
      <4>2. \A h \in Hosts : WorkerNames(cmd.cfg, h) \in Seq(Names)
        BY <2>1, WorkerNamesOf
      <4>. QED
        BY <1>1, <3>3, <4>1, <4>2, SameNames DEF Places
    <3>. QED
      BY <3>1, <3>2, <3>3
  <2>. QED
    BY <2>2, <2>3
<1>. QED
  BY <1>2, <1>3 DEF BoxesInv

\* Placing a container, or failing to.
LEMMA PlaceBoxes ==
    ASSUME BoxesInv, NEW h \in Hosts, Place(h)
    PROVE  /\ BoxesInv'
           /\ todo[h] # <<>> /\ Next1(h) \in Names
           /\ \E c \in Boxes : /\ box' = [box EXCEPT ![h][Next1(h)] = c]
                               /\ base' = [base EXCEPT ![h][Next1(h)] = c.run]
<1>. DEFINE n == Next1(h)
            c == IF LeftInPlace(box[h][n]) THEN box[h][n] ELSE Fresh(cmd.cfg)
<1>1. phase \in {"coordinator", "workers"} /\ todo[h] \in Seq(Names) /\ todo[h] # <<>>
  BY DEF Place, PlacePhases, BoxesInv, Places
<1>2. n \in Names /\ Tail(todo[h]) \in Seq(Names)
  BY <1>1, TailRange DEF Next1
<1>3. c \in Boxes
  BY <1>1, <1>2, FreshBoxes DEF BoxesInv, BoxTypes, Commanded, LeftInPlace
<1>4. /\ box' = [box EXCEPT ![h][n] = c] /\ base' = [base EXCEPT ![h][n] = c.run]
      /\ UNCHANGED <<zkvm, cmd, phase>>
      /\ todo' = [todo EXCEPT ![h] = Tail(@)] /\ \E p \in {pc[h], "await"} : pc' = [pc EXCEPT ![h] = p]
  BY DEF Place
<1>. HIDE DEF n, c
<1>5. BoxTypes'
  BY <1>3, <1>4, OneBox DEF BoxesInv
<1>6. Commanded' /\ Places'
  BY <1>1, <1>2, <1>4, SameNames DEF BoxesInv, Commanded, Places
<1>. QED
  BY <1>1, <1>2, <1>3, <1>4, <1>5, <1>6 DEF BoxesInv, n

LEMMA PlaceFailsBoxes ==
    ASSUME BoxesInv, NEW h \in Hosts, PlaceFails(h)
    PROVE  /\ BoxesInv'
           /\ \/ box' = box
              \/ \E c \in Boxes \cup {None} : box' = [box EXCEPT ![h][Next1(h)] = c]
<1>1. /\ phase \in {"coordinator", "workers"} /\ UNCHANGED <<zkvm, cmd, phase, todo>>
      /\ pc' = [pc EXCEPT ![h] = "done"]
  BY DEF PlaceFails, PlacePhases
<1>2. Created(cmd.cfg) \in Boxes
  BY <1>1, FreshBoxes DEF BoxesInv, Commanded
<1>3. \/ box' = box
      \/ \E c \in Boxes \cup {None} : box' = [box EXCEPT ![h][Next1(h)] = c]
  BY <1>2 DEF PlaceFails
<1>4. BoxTypes'
  BY <1>1, <1>3, KeptBoxes, OneBox DEF BoxesInv
<1>5. Commanded' /\ Places'
  BY <1>1, SameNames DEF BoxesInv, Commanded, Places
<1>. QED
  BY <1>3, <1>4, <1>5 DEF BoxesInv

LEMMA SidecarBoxes ==
    ASSUME BoxesInv, NEW h \in Hosts, StartSidecar(h)
    PROVE  /\ BoxesInv'
           /\ \/ box' = box
              \/ \E c \in Boxes \cup {None} : box' = [box EXCEPT ![Next1(h)[1]][Next1(h)[2]] = c]
<1>1. phase = "sidecars" /\ UNCHANGED <<zkvm, cmd, phase>>
  BY DEF StartSidecar, At
<1>2. Fresh(cmd.cfg) \in Boxes /\ Created(cmd.cfg) \in Boxes
  BY <1>1, FreshBoxes DEF BoxesInv, Commanded
<1>3. \/ box' = box
      \/ \E c \in Boxes \cup {None} : box' = [box EXCEPT ![Next1(h)[1]][Next1(h)[2]] = c]
  BY <1>2 DEF StartSidecar
<1>4. BoxTypes'
  BY <1>1, <1>3, KeptBoxes, OneBox DEF BoxesInv
<1>5. Commanded' /\ Places'
  BY <1>1, SameNames DEF BoxesInv, Commanded, Places
<1>. QED
  BY <1>3, <1>4, <1>5 DEF BoxesInv

LEMMA DaemonKeeps ==
    ASSUME BoxesInv, NEW h \in Hosts, NEW n \in Names,
           Ready(h, n) \/ Crash(h, n) \/ Restart(h, n)
    PROVE  BoxesInv'
<1>1. UNCHANGED <<zkvm, cmd, phase, pc, todo>>
  BY DEF Ready, Crash, Restart
<1>. QED
  BY <1>1, DaemonBoxes, SameNames DEF BoxesInv, Commanded, Places

----------------------------------------------------------------------------
(* The containers of a down.                                               *)

\* What a host is asked to stop: on a worker host every worker there is, for
\* OpenVM by the pattern of the name, for ZisK because there is one name.
LEMMA StopsEveryWorker ==
    ASSUME BoxesInv, phase = "workersDown", NEW h \in Hosts
    PROVE  /\ ToStop(h) \in Seq(Names)
           /\ h \in WorkerHosts(cmd.cfg) =>
                 \A n \in Names : IsWorker(n) /\ box[h][n] # None => n \in Range(ToStop(h))
<1>1. cmd.cfg \in Deployable
  BY DEF BoxesInv, Commanded
<1>2. CASE zkvm = "zisk"
  <2>1. ToStop(h) = WorkerNames(cmd.cfg, h)
    BY <1>2 DEF ToStop
  <2>2. ASSUME h \in WorkerHosts(cmd.cfg)
        PROVE  <<"worker">> \in Range(WorkerNames(cmd.cfg, h))
    <3>1. PICK w \in Range(WorkerNames(cmd.cfg, h)) : TRUE
      BY <1>1, <2>2, WorkerNamesOf
    <3>2. w \in Names /\ IsWorker(w)
      BY <1>1, <3>1, WorkerNamesOf DEF Range
    <3>. QED
      BY <1>2, <3>1, <3>2, ZiskWorkerName
  <2>. QED
    BY <1>1, <1>2, <2>1, <2>2, WorkerNamesOf, ZiskWorkerName
<1>3. CASE zkvm # "zisk"
  <2>. DEFINE U == {n \in Names : IsWorker(n) /\ box[h][n] # None}
              V == {n \in Names : box[h][n] # None}
  <2>1. IsFiniteSet(V) /\ U \in SUBSET V /\ U \subseteq Names
    BY DEF BoxesInv, BoxTypes
  <2>2. ToStop(h) = SetToSeq(U)
    BY <1>3 DEF ToStop
  <2>3. SetToSeq(U) \in Seq(U) /\ Range(SetToSeq(U)) = U
    <3>. HIDE DEF U, V
    <3>. QED
      BY <2>1, FS_Subset, SetListed
  <2>4. ToStop(h) \in Seq(Names) /\ Range(ToStop(h)) = U
    <3>. HIDE DEF U, V
    <3>. QED
      BY <2>1, <2>2, <2>3
  <2>. QED
    BY <2>4
<1>. QED
  BY <1>2, <1>3

\* Until its goroutine is done, a worker host has its containers on the list
\* or counted as stuck.
DownInv ==
    /\ phase = "workersDown" =>
          \A h \in WorkerHosts(cmd.cfg), n \in Names : IsWorker(n) /\ box[h][n] # None =>
             /\ pc[h] = "done" => <<h, n>> \in stuck
             /\ pc[h] = "stop" => <<h, n>> \in stuck \/ n \in Range(todo[h])
    /\ DownIsThorough

LEMMA DownElsewhere ==
    ASSUME phase' \notin {"workersDown", "down", "stillUp"}
    PROVE  DownInv'
BY DEF DownInv, DownIsThorough

\* No step of the daemon brings back a container that is gone.
LEMMA DownKept ==
    ASSUME BoxesInv, DownInv, UNCHANGED <<zkvm, cmd, phase, pc, todo, stuck>>,
           \A h \in Hosts, n \in Names : box[h][n] = None => box'[h][n] = None
    PROVE  DownInv'
<1>1. phase \in {"workersDown", "down", "stillUp"} =>
         /\ WorkerHosts(cmd.cfg) \subseteq Hosts /\ cmd.cfg.coordinator.ssh \in Hosts
         /\ CoordinatorContainer \in Names
  BY DeployableFiles, NamesOf DEF BoxesInv, Commanded
<1>2. Names' = Names
  BY SameNames
<1>. QED
  BY <1>1, <1>2 DEF DownInv, DownIsThorough

LEMMA ListSteps ==
    ASSUME BoxesInv, DownInv, NEW h \in Hosts, ListWorkers(h)
    PROVE  BoxesInv' /\ DownInv'
<1>1. /\ phase = "workersDown" /\ UNCHANGED <<zkvm, cmd, phase, box>>
      /\ Names' = Names
  BY SameNames DEF ListWorkers, At
<1>2. cmd.cfg \in Deployable /\ WorkerHosts(cmd.cfg) \subseteq Hosts
  BY <1>1, DeployableFiles DEF BoxesInv, Commanded
<1>3. pc \in [Hosts -> {"list", "stop", "done"}] /\ todo \in [Hosts -> Seq(Names)]
  BY <1>1 DEF BoxesInv, Places
<1>4. CASE todo' = [todo EXCEPT ![h] = ToStop(h)] /\ pc' = [pc EXCEPT ![h] = "stop"] /\ stuck' = stuck
  <2>1. BoxesInv'
    BY <1>1, <1>3, <1>4, KeptBoxes, StopsEveryWorker, SameNames DEF BoxesInv, Commanded, Places
  <2>2. DownInv'
    BY <1>1, <1>2, <1>3, <1>4, StopsEveryWorker DEF DownInv, DownIsThorough
  <2>. QED
    BY <2>1, <2>2
<1>5. CASE /\ stuck' = stuck \cup {<<h, n>> : n \in {m \in Names : IsWorker(m)}}
           /\ pc' = [pc EXCEPT ![h] = "done"] /\ todo' = todo
  <2>1. BoxesInv'
    BY <1>1, <1>3, <1>5, KeptBoxes, SameNames DEF BoxesInv, Commanded, Places
  <2>2. DownInv'
    BY <1>1, <1>2, <1>3, <1>5 DEF DownInv, DownIsThorough
  <2>. QED
    BY <2>1, <2>2
<1>. QED
  BY <1>4, <1>5 DEF ListWorkers

LEMMA StopSteps ==
    ASSUME BoxesInv, DownInv, NEW h \in Hosts, StopWorker(h)
    PROVE  BoxesInv' /\ DownInv'
<1>. DEFINE n == Next1(h)
<1>1. /\ phase = "workersDown" /\ todo[h] # <<>> /\ pc[h] = "stop"
      /\ UNCHANGED <<zkvm, cmd, phase, pc>> /\ Names' = Names
  BY SameNames DEF StopWorker, At
<1>2. cmd.cfg \in Deployable /\ WorkerHosts(cmd.cfg) \subseteq Hosts
  BY <1>1, DeployableFiles DEF BoxesInv, Commanded
<1>3. /\ pc \in [Hosts -> {"list", "stop", "done"}] /\ todo \in [Hosts -> Seq(Names)]
      /\ box \in [Hosts -> [Names -> Boxes \cup {None}]]
  BY <1>1 DEF BoxesInv, Places, BoxTypes
<1>4. /\ n \in Names /\ Tail(todo[h]) \in Seq(Names)
      /\ Range(todo[h]) = {n} \cup Range(Tail(todo[h]))
  BY <1>1, <1>3, TailRange DEF Next1
<1>5. PICK o \in StopOutcomes(box[h][n]) :
         /\ box' = [box EXCEPT ![h][n] = o.left]
         /\ stuck' = IF o.ok THEN stuck ELSE stuck \cup {<<h, m>> : m \in Range(todo[h])}
         /\ todo' = [todo EXCEPT ![h] = IF o.ok THEN Tail(@) ELSE <<>>]
  BY DEF StopWorker
<1>6. o.left \in Boxes \cup {None} /\ (o.ok => o.left = None)
  BY <1>3, <1>4, StoppedBoxes
<1>. HIDE DEF n
<1>7. BoxesInv'
  <2>1. BoxTypes'
    BY <1>1, <1>5, <1>6, OneBox DEF BoxesInv
  <2>2. todo' \in [Hosts -> Seq(Names)]
    BY <1>3, <1>4, <1>5
  <2>. QED
    BY <1>1, <2>1, <2>2, SameNames DEF BoxesInv, Commanded, Places
<1>8. DownInv'
  <2>1. \A g \in Hosts \ {h} : box'[g] = box[g] /\ todo'[g] = todo[g]
    BY <1>3, <1>5
  <2>2. \A m \in Names : m # n => box'[h][m] = box[h][m]
    BY <1>3, <1>5
  <2>3. stuck \subseteq stuck'
    BY <1>5
  <2>4. CASE o.ok
    <3>1. box'[h][n] = None /\ todo'[h] = Tail(todo[h])
      BY <1>3, <1>4, <1>5, <1>6, <2>4
    <3>. QED
      BY <1>1, <1>2, <1>4, <2>1, <2>2, <2>3, <3>1 DEF DownInv, DownIsThorough
  <2>5. CASE ~o.ok
    <3>1. \A m \in Range(todo[h]) : <<h, m>> \in stuck'
      BY <1>5, <2>5
    <3>. QED
      BY <1>1, <1>2, <1>4, <2>1, <2>2, <2>3, <3>1 DEF DownInv, DownIsThorough
  <2>. QED
    BY <2>4, <2>5
<1>. QED
  BY <1>7, <1>8

LEMMA StopCoordinatorSteps ==
    ASSUME BoxesInv, DownInv, StopCoordinator
    PROVE  BoxesInv' /\ DownInv'
<1>. DEFINE h == cmd.cfg.coordinator.ssh
            n == CoordinatorContainer
<1>1. /\ phase = "workersDown" /\ Joined /\ UNCHANGED <<zkvm, cmd>> /\ Names' = Names
      /\ phase' = IF stuck' = {} THEN "down" ELSE "stillUp"
  BY SameNames DEF StopCoordinator, End
<1>2. cmd.cfg \in Deployable /\ WorkerHosts(cmd.cfg) \subseteq Hosts /\ h \in Hosts /\ n \in Names
  BY <1>1, DeployableFiles, NamesOf DEF BoxesInv, Commanded
<1>3. box \in [Hosts -> [Names -> Boxes \cup {None}]]
  BY DEF BoxesInv, BoxTypes
<1>4. PICK o \in StopOutcomes(box[h][n]) :
         /\ box' = [box EXCEPT ![h][n] = o.left]
         /\ stuck' = IF o.ok THEN stuck ELSE stuck \cup {<<h, n>>}
  BY DEF StopCoordinator
<1>5. o.left \in Boxes \cup {None} /\ (o.ok => o.left = None)
  BY <1>2, <1>3, StoppedBoxes
<1>6. ~IsWorker(n)
  BY NameKinds
<1>. HIDE DEF h, n
<1>7. BoxesInv'
  <2>1. BoxTypes'
    BY <1>1, <1>4, <1>5, OneBox DEF BoxesInv
  <2>. QED
    BY <1>1, <2>1, SameNames DEF BoxesInv, Commanded, Places
<1>8. DownInv'
  <2>1. \A g \in WorkerHosts(cmd.cfg), m \in Names :
           IsWorker(m) /\ box'[g][m] # None => <<g, m>> \in stuck'
    <3>1. \A g \in WorkerHosts(cmd.cfg), m \in Names :
             IsWorker(m) /\ box[g][m] # None => <<g, m>> \in stuck
      BY <1>1, <1>2 DEF DownInv, Joined
    <3>2. \A g \in Hosts, m \in Names : m # n => box'[g][m] = box[g][m]
      BY <1>3, <1>4
    <3>. QED
      BY <1>2, <1>4, <1>6, <3>1, <3>2
  <2>2. box'[h][n] # None => <<h, n>> \in stuck'
    BY <1>2, <1>3, <1>4, <1>5
  <2>. QED
    BY <1>1, <2>1, <2>2 DEF DownInv, DownIsThorough, h, n
<1>. QED
  BY <1>7, <1>8

LEMMA StopSidecarsSteps ==
    ASSUME BoxesInv, DownInv, StopSidecars
    PROVE  BoxesInv' /\ DownInv'
<1>1. /\ phase = "sidecarsDown" /\ phase' = "workersDown" /\ UNCHANGED <<zkvm, cmd>> /\ Names' = Names
      /\ pc' \in [Hosts -> {"list", "done"}] /\ todo' = [h \in Hosts |-> <<>>]
      /\ \A h \in WorkerHosts(cmd.cfg) : h \in Hosts => pc'[h] = "list"
  BY SameNames DEF StopSidecars, Enter, Nothing
<1>2. \A h \in WorkerHosts(cmd.cfg) : h \in Hosts
  BY <1>1, DeployableFiles DEF BoxesInv, Commanded
<1>3. \E gone : box' = [h \in Hosts |-> [n \in Names |-> IF <<h, n>> \in gone THEN None ELSE box[h][n]]]
  BY DEF StopSidecars
<1>4. BoxTypes'
  <2>1. PICK gone : box' = [h \in Hosts |-> [n \in Names |-> IF <<h, n>> \in gone THEN None ELSE box[h][n]]]
    BY <1>3
  <2>2. box' \in [Hosts -> [Names -> Boxes \cup {None}]]
    BY <2>1 DEF BoxesInv, BoxTypes
  <2>3. ASSUME NEW h \in Hosts
        PROVE  IsFiniteSet({n \in Names : box'[h][n] # None})
    <3>. DEFINE U == {n \in Names : box[h][n] # None}
                V == {n \in Names : box'[h][n] # None}
    <3>1. IsFiniteSet(U) /\ V \in SUBSET U
      BY <2>1 DEF BoxesInv, BoxTypes
    <3>2. IsFiniteSet(V)
      <4>. HIDE DEF U, V
      <4>. QED
        BY <3>1, FS_Subset
    <3>. QED
      BY <3>2
  <2>. QED
    BY <1>1, <2>2, <2>3 DEF BoxTypes
<1>5. BoxesInv'
  <2>1. todo' \in [Hosts -> Seq(Names)]
    BY <1>1
  <2>. QED
    BY <1>1, <1>4, <2>1, SameNames DEF BoxesInv, Commanded, Places
<1>6. DownInv'
  BY <1>1, <1>2 DEF DownInv, DownIsThorough
<1>. QED
  BY <1>5, <1>6

\* A goroutine of another phase, and the containers it places.
LEMMA OtherGoroutines ==
    ASSUME BoxesInv, NEW h \in Hosts,
           \/ GiveUp(h) \/ Probe(h) \/ CreateVolume(h) \/ StartJob(h) \/ JobDone(h)
           \/ JobAbandoned(h) \/ CleanUp(h) \/ Verify(h) \/ CompileGuest(h)
           \/ Place(h) \/ PlaceFails(h) \/ PlaceRefused(h) \/ CoordinatorListens(h)
           \/ WorkersReady(h) \/ AwaitExited(h) \/ StartSidecar(h)
           \/ \E n \in Names : ReadStart(h, n) \/ ReadLog(h, n)
    PROVE  BoxesInv' /\ DownInv'
<1>1. phase' = phase /\ phase \in {"keys", "compile", "coordinator", "workers", "sidecars"}
  BY DEF GiveUp, Probe, CreateVolume, StartJob, JobDone, JobAbandoned, CleanUp, Verify,
         CompileGuest, Place, PlaceFails, PlaceRefused, CoordinatorListens, WorkersReady,
         AwaitExited, StartSidecar, ReadStart, ReadLog, At, PlacePhases
<1>2. DownInv'
  BY <1>1, DownElsewhere
<1>3. CASE \/ Probe(h) \/ CreateVolume(h) \/ StartJob(h) \/ JobDone(h) \/ JobAbandoned(h)
           \/ CleanUp(h) \/ Verify(h) \/ CompileGuest(h)
  <2>1. UNCHANGED <<zkvm, cmd, phase, box>> /\ phase \in {"keys", "compile"}
    BY <1>3 DEF Probe, CreateVolume, StartJob, JobDone, JobAbandoned, CleanUp, Verify,
                CompileGuest, At
  <2>. QED
    BY <1>2, <2>1, BoxesAside
<1>4. CASE \/ GiveUp(h) \/ PlaceRefused(h) \/ CoordinatorListens(h) \/ WorkersReady(h)
           \/ AwaitExited(h) \/ \E n \in Names : ReadStart(h, n) \/ ReadLog(h, n)
  <2>1. /\ UNCHANGED <<zkvm, cmd, phase, todo, box>>
        /\ pc' = pc \/ pc' = [pc EXCEPT ![h] = "done"]
    BY <1>4 DEF GiveUp, PlaceRefused, CoordinatorListens, WorkersReady, AwaitExited, ReadStart,
                ReadLog
  <2>. QED
    BY <1>2, <2>1, BoxesWaiting
<1>5. CASE Place(h) \/ PlaceFails(h) \/ StartSidecar(h)
  BY <1>2, <1>5, PlaceBoxes, PlaceFailsBoxes, SidecarBoxes
<1>. QED
  BY <1>3, <1>4, <1>5

\* Steps that a down shares with every phase.
LEMMA CommonSteps ==
    ASSUME BoxesInv, DownInv,
           \/ UNCHANGED vars \/ Interrupt
           \/ \E h \in Hosts : JobEnds(h) \/ WorkersStopped(h)
           \/ \E h \in Hosts, n \in Names : Ready(h, n) \/ Crash(h, n) \/ Restart(h, n)
    PROVE  BoxesInv' /\ DownInv'
<1>1. CASE UNCHANGED vars \/ Interrupt \/ \E h \in Hosts : JobEnds(h)
  <2>1. UNCHANGED <<zkvm, cmd, phase, pc, todo, box, stuck>>
    BY <1>1 DEF vars, Interrupt, JobEnds
  <2>. QED
    BY <2>1, BoxesWaiting, DownKept
<1>2. ASSUME NEW h \in Hosts, WorkersStopped(h)
      PROVE  BoxesInv' /\ DownInv'
  <2>1. /\ UNCHANGED <<zkvm, cmd, phase, todo, box, stuck>> /\ pc' = [pc EXCEPT ![h] = "done"]
        /\ phase = "workersDown" /\ pc[h] = "stop" /\ todo[h] = <<>> /\ Names' = Names
    BY <1>2, SameNames DEF WorkersStopped, At
  <2>2. pc \in [Hosts -> {"list", "stop", "done"}] /\ WorkerHosts(cmd.cfg) \subseteq Hosts
    BY <2>1, DeployableFiles DEF BoxesInv, Places, Commanded
  <2>3. DownInv'
    BY <2>1, <2>2, EmptyRange DEF DownInv, DownIsThorough
  <2>. QED
    BY <2>1, <2>3, BoxesWaiting
<1>3. ASSUME NEW h \in Hosts, NEW n \in Names, Ready(h, n) \/ Crash(h, n) \/ Restart(h, n)
      PROVE  BoxesInv' /\ DownInv'
  <2>1. UNCHANGED <<zkvm, cmd, phase, pc, todo, stuck>>
    BY <1>3 DEF Ready, Crash, Restart
  <2>2. box[h][n] \in Boxes /\ \E c \in Boxes : box' = [box EXCEPT ![h][n] = c]
    BY <1>3, DaemonBoxes DEF BoxesInv
  <2>3. \A g \in Hosts, m \in Names : box[g][m] = None => box'[g][m] = None
    BY <2>2, DeployAssumption DEF BoxesInv, BoxTypes
  <2>. QED
    BY <1>3, <2>1, <2>3, DaemonKeeps, DownKept
<1>. QED
  BY <1>1, <1>2, <1>3

LEMMA DownInvariance == Spec => [](BoxesInv /\ DownInv)
<1>1. Init => BoxesInv /\ DownInv
  BY InitBoxes DEF Init, BoxesInv, Places, DownInv, DownIsThorough
<1>2. ASSUME BoxesInv, DownInv, [Next]_vars
      PROVE  BoxesInv' /\ DownInv'
  <2>1. CASE \E verb \in {"up", "down"}, cfg \in Family : Command(verb, cfg)
    <3>1. phase' \in {"prepare", "refused"}
      BY <2>1 DEF Command, Enter, End
    <3>. QED
      BY <1>2, <2>1, <3>1, CommandBoxes, DownElsewhere
  <2>2. CASE Prepared \/ NotPrepared \/ NextUpPhase \/ UpDone \/ Kill
    <3>1. phase' \notin {"workersDown", "down", "stillUp"}
      BY <2>2 DEF Prepared, NotPrepared, NextUpPhase, UpDone, Kill, Enter, End
    <3>. QED
      BY <1>2, <2>2, <3>1, PhaseBoxes, DownElsewhere
  <2>3. CASE \E h \in Hosts : ListWorkers(h) \/ StopWorker(h)
    BY <1>2, <2>3, ListSteps, StopSteps
  <2>4. CASE StopSidecars \/ StopCoordinator
    BY <1>2, <2>4, StopSidecarsSteps, StopCoordinatorSteps
  <2>. QED
    BY <1>2, <2>1, <2>2, <2>3, <2>4, OtherGoroutines, CommonSteps DEF Next
<1>. QED
  BY <1>1, <1>2, PTL DEF Spec

\* After a down no worker of a worker host and no coordinator is left but for
\* those whose stop failed or was never reached, and success means that there
\* is none (zisk/deploy.go:108, openvm/deploy.go:115, :186).
THEOREM DeployDownIsThorough == Spec => []DownIsThorough
<1>1. BoxesInv /\ DownInv => DownIsThorough
  BY DEF DownInv
<1>. QED
  BY <1>1, DownInvariance, PTL

----------------------------------------------------------------------------
(* The keys and the guests of an up.                                       *)

\* A host whose goroutine passed the key phase.  ZisK goes by the existence of
\* the volume, OpenVM verifies every baseline.
KeySettled(h) == IF zkvm = "zisk" THEN keys[h][Key] # "absent" ELSE Verified(h)

KeySpots == KeyPlaces \cup {"verify"}

\* The phases of an up that come after the keys.
Deploying == {"compile", "coordinator", "workers", "sidecars", "ready"}

KeyTypes == keys \in [Hosts -> [Units -> {"absent", "partial", "whole"}]]

SettledInv ==
    /\ KeyTypes
    /\ phase = "keys" =>
          /\ pc \in [Hosts -> KeySpots]
          /\ zkvm # "zisk" => \A h \in Hosts : pc[h] # "create"
          /\ ~cancelled => \A h \in KeyHosts(cmd.cfg) : pc[h] = "done" => KeySettled(h)
    /\ phase \in Deploying => \A h \in KeyHosts(cmd.cfg) : KeySettled(h)

\* What a step leaves of the keys that a host was passed for.
KeysKept(h) ==
    IF zkvm = "zisk" THEN keys[h][Key] # "absent" => keys'[h][Key] # "absent"
    ELSE \A u \in Units : keys[h][u] = "whole" => keys'[h][u] = "whole"

LEMMA GuestUnits ==
    ASSUME zkvm # "zisk", cmd.cfg \in Deployable
    PROVE  \A i \in DOMAIN Guests : Guests[i] \in Units
BY DEF Units, Guests, Deployable

LEMMA StaysSettled ==
    ASSUME UNCHANGED <<zkvm, cmd>>, cmd.cfg \in Deployable, NEW h, KeySettled(h), KeysKept(h)
    PROVE  KeySettled(h)'
<1>1. CASE zkvm = "zisk"
  BY <1>1 DEF KeySettled, KeysKept
<1>2. CASE zkvm # "zisk"
  <2>1. \A i \in DOMAIN Guests : Guests[i] \in Units
    BY <1>2, GuestUnits
  <2>2. Guests' = Guests
    BY DEF Guests
  <2>. QED
    BY <1>2, <2>1, <2>2 DEF KeySettled, KeysKept, Verified, VKMatches
<1>. QED
  BY <1>1, <1>2

\* A step of one goroutine of the key phase.
LEMMA OneKeyStep ==
    ASSUME SettledInv, BoxesInv, phase = "keys", UNCHANGED <<zkvm, cmd, phase>>, KeyTypes',
           NEW h \in Hosts, NEW p \in KeySpots, pc' = [pc EXCEPT ![h] = p],
           zkvm # "zisk" => p # "create",
           ~cancelled' => /\ ~cancelled
                          /\ \A g \in Hosts : KeysKept(g)
                          /\ p = "done" => KeySettled(h)'
    PROVE  SettledInv'
<1>1. cmd.cfg \in Deployable /\ KeyHosts(cmd.cfg) \subseteq Hosts
  BY DeployableFiles DEF BoxesInv, Commanded
<1>2. pc \in [Hosts -> KeySpots]
  BY DEF SettledInv
<1>3. ASSUME ~cancelled', NEW g \in KeyHosts(cmd.cfg), pc'[g] = "done"
      PROVE  KeySettled(g)'
  <2>1. CASE g = h
    BY <1>1, <1>2, <1>3, <2>1
  <2>2. CASE g # h
    <3>1. KeySettled(g)
      BY <1>1, <1>2, <1>3, <2>2 DEF SettledInv
    <3>2. KeysKept(g)
      BY <1>1, <1>3
    <3>. QED
      BY <1>1, <3>1, <3>2, StaysSettled
  <2>. QED
    BY <2>1, <2>2
<1>4. KeyHosts(cmd.cfg)' = KeyHosts(cmd.cfg)
  BY DEF KeyHosts
<1>5. pc' \in [Hosts -> KeySpots] /\ (zkvm # "zisk" => \A g \in Hosts : pc'[g] # "create")
  BY <1>2 DEF SettledInv
<1>6. phase' = "keys" /\ phase' \notin Deploying
  BY DEF Deploying
<1>. QED
  BY <1>3, <1>4, <1>5, <1>6 DEF SettledInv

\* The goroutine of a key host: its keys are settled when it returns, unless
\* the context of the up has ended.
LEMMA SettledGoroutine ==
    ASSUME ZiskKeysInv, SettledInv, BoxesInv, NEW h \in Hosts,
           \/ GiveUp(h) \/ Probe(h) \/ CreateVolume(h) \/ StartJob(h) \/ JobDone(h)
           \/ JobAbandoned(h) \/ CleanUp(h) \/ Verify(h),
           phase = "keys"
    PROVE  SettledInv'
<1>. USE DEF KeySpots, KeyPlaces
<1>1. UNCHANGED <<zkvm, cmd, phase>>
  BY DEF GiveUp, Probe, CreateVolume, StartJob, JobDone, JobAbandoned, CleanUp, Verify
<1>2. KeyTypes /\ Units' = Units /\ pc[h] \in KeySpots /\ (zkvm # "zisk" => pc[h] # "create")
  BY <1>1, SameNames DEF SettledInv
<1>3. CASE GiveUp(h) \/ JobAbandoned(h)
  <2>1. keys' = keys /\ \E p \in {"done", "cleanup"} : pc' = [pc EXCEPT ![h] = p] /\ (p = "done" => cancelled')
        /\ (cancelled => cancelled')
    BY <1>3 DEF GiveUp, JobAbandoned, world
  <2>. QED
    BY <1>1, <1>2, <2>1, OneKeyStep DEF KeyTypes, KeysKept
<1>4. CASE Probe(h)
  <2>1. UNCHANGED <<keys, cancelled>>
    BY <1>4 DEF Probe, world
  <2>2. CASE zkvm = "zisk"
    <3>1. \/ pc' = [pc EXCEPT ![h] = "create"]
          \/ pc' = [pc EXCEPT ![h] = "done"] /\ keys[h][Key] # "absent"
      BY <1>4, <2>2 DEF Probe, Missing, Present
    <3>. QED
      BY <1>1, <1>2, <2>1, <2>2, <3>1, OneKeyStep DEF KeyTypes, KeysKept, KeySettled
  <2>3. CASE zkvm # "zisk"
    <3>1. \E p \in {"start", "verify"} : pc' = [pc EXCEPT ![h] = p]
      BY <1>4, <2>3 DEF Probe
    <3>. QED
      BY <1>1, <1>2, <2>1, <2>3, <3>1, OneKeyStep DEF KeyTypes, KeysKept
  <2>. QED
    BY <2>2, <2>3
<1>5. CASE CreateVolume(h)
  <2>1. zkvm = "zisk" /\ keys' = [keys EXCEPT ![h][Key] = "partial"]
    BY <1>2, <1>5 DEF CreateVolume, At
  <2>2. \E p \in {"start", "done"} : pc' = [pc EXCEPT ![h] = p] /\ (p = "done" => cancelled')
        /\ (cancelled => cancelled')
    BY <1>5 DEF CreateVolume
  <2>3. KeyTypes' /\ \A g \in Hosts : KeysKept(g)
    BY <1>1, <1>2, <2>1 DEF KeyTypes, KeysKept, Units
  <2>. QED
    BY <1>1, <2>1, <2>2, <2>3, OneKeyStep
<1>6. CASE StartJob(h)
  <2>1. /\ keys' = [keys EXCEPT ![h][Unit(h)] = IF @ = "whole" THEN @ ELSE "partial"]
        /\ pc' = [pc EXCEPT ![h] = "wait"] /\ cancelled' = cancelled
    BY <1>6 DEF StartJob
  <2>2. KeyTypes' /\ \A g \in Hosts : KeysKept(g)
    BY <1>1, <1>2, <2>1 DEF KeyTypes, KeysKept, Units
  <2>. QED
    BY <1>1, <2>1, <2>2, OneKeyStep
<1>7. CASE JobDone(h)
  <2>1. UNCHANGED <<keys, cancelled>> /\ pc[h] = "wait"
    BY <1>7 DEF JobDone, At
  <2>2. CASE zkvm = "zisk"
    <3>1. job[h].state = "succeeded" => keys[h][Key] # "absent"
      BY <2>1, <2>2 DEF ZiskKeysInv, GoroutineInv
    <3>2. job[h].state \in {"succeeded", "failed"}
      BY <1>7, <2>1, <2>2 DEF JobDone, ZiskKeysInv, GoroutineInv, KeyJobs
    <3>3. \E p \in {"start", "cleanup", "done"} :
             pc' = [pc EXCEPT ![h] = p] /\ (p = "done" => keys[h][Key] # "absent")
      BY <1>7, <2>2, <3>1, <3>2 DEF JobDone
    <3>. QED
      BY <1>1, <1>2, <2>1, <2>2, <3>3, OneKeyStep DEF KeyTypes, KeysKept, KeySettled
  <2>3. CASE zkvm # "zisk"
    <3>1. \E p \in {"start", "cleanup", "verify"} : pc' = [pc EXCEPT ![h] = p]
      BY <1>7, <2>3 DEF JobDone
    <3>. QED
      BY <1>1, <1>2, <2>1, <2>3, <3>1, OneKeyStep DEF KeyTypes, KeysKept
  <2>. QED
    BY <2>2, <2>3
<1>8. CASE CleanUp(h)
  <2>1. cancelled' /\ pc' = [pc EXCEPT ![h] = "done"]
        /\ keys' \in {keys, [keys EXCEPT ![h][Unit(h)] = "absent"]}
    BY <1>8 DEF CleanUp
  <2>2. KeyTypes'
    BY <1>2, <2>1 DEF KeyTypes
  <2>. QED
    BY <1>1, <2>1, <2>2, OneKeyStep
<1>9. CASE Verify(h)
  <2>1. keys' = keys /\ ~cancelled /\ pc[h] = "verify" /\ cancelled' = ~Verified(h)
        /\ pc' = [pc EXCEPT ![h] = "done"]
    BY <1>9 DEF Verify, At, world
  <2>2. Verified(h)' = Verified(h) /\ (zkvm = "zisk" => FALSE)
    BY <1>1, <2>1 DEF Verified, Guests, VKMatches, ZiskKeysInv, GoroutineInv
  <2>. QED
    BY <1>1, <1>2, <2>1, <2>2, OneKeyStep DEF KeyTypes, KeysKept, KeySettled
<1>. QED
  BY <1>3, <1>4, <1>5, <1>6, <1>7, <1>8, <1>9

\* What the daemon does to the keys: a job that succeeds leaves a whole one.
LEMMA SettledJobs ==
    ASSUME SettledInv, BoxesInv, NEW h \in Hosts, JobEnds(h)
    PROVE  SettledInv'
<1>1. UNCHANGED <<zkvm, cmd, phase, pc, cancelled>> /\ Units' = Units
  BY SameNames DEF JobEnds
<1>2. keys' = keys \/ keys' = [keys EXCEPT ![h][job[h].unit] = "whole"]
  BY DEF JobEnds
<1>3. KeyTypes' /\ \A g \in Hosts : KeysKept(g)
  <2>1. CASE keys' = keys
    BY <1>1, <2>1 DEF SettledInv, KeyTypes, KeysKept
  <2>2. CASE keys' # keys
    <3>1. PICK u : keys' = [keys EXCEPT ![h][u] = "whole"]
      BY <1>2, <2>2
    <3>2. KeyTypes'
      BY <1>1, <3>1 DEF SettledInv, KeyTypes
    <3>3. \A g \in Hosts, v \in Units : keys'[g][v] \in {keys[g][v], "whole"}
      BY <3>1 DEF SettledInv, KeyTypes
    <3>4. zkvm = "zisk" => Key \in Units
      BY DEF Units
    <3>. QED
      BY <3>2, <3>3, <3>4 DEF KeysKept
  <2>. QED
    BY <2>1, <2>2
<1>4. phase \in Deploying \cup {"keys"} =>
         cmd.cfg \in Deployable /\ KeyHosts(cmd.cfg) \subseteq Hosts
  BY DeployableFiles DEF BoxesInv, Commanded, Deploying
<1>5. \A g \in Hosts : phase \in Deploying \cup {"keys"} /\ KeySettled(g) => KeySettled(g)'
  BY <1>1, <1>3, <1>4, StaysSettled
<1>6. KeyHosts(cmd.cfg)' = KeyHosts(cmd.cfg)
  BY <1>1 DEF KeyHosts
<1>. QED
  BY <1>1, <1>3, <1>4, <1>5, <1>6 DEF SettledInv

\* A step with no effect on the keys that stays in its phase.
LEMMA SettledAside ==
    ASSUME SettledInv, BoxesInv, UNCHANGED <<zkvm, cmd, phase, keys>>,
           phase = "keys" => pc' = pc /\ (cancelled => cancelled')
    PROVE  SettledInv'
<1>1. Units' = Units /\ KeyHosts(cmd.cfg)' = KeyHosts(cmd.cfg)
  BY SameNames DEF KeyHosts
<1>2. \A h : KeySettled(h)' = KeySettled(h)
  BY DEF KeySettled, Verified, Guests, VKMatches
<1>. QED
  BY <1>1, <1>2 DEF SettledInv, KeyTypes

LEMMA SettledPhases ==
    ASSUME SettledInv, BoxesInv,
           \/ \E verb \in {"up", "down"}, cfg \in Family : Command(verb, cfg)
           \/ Prepared \/ NotPrepared \/ NextUpPhase \/ UpDone \/ StopSidecars \/ StopCoordinator
           \/ Kill
    PROVE  SettledInv'
<1>1. UNCHANGED <<zkvm, keys>>
  BY DEF Command, Prepared, NotPrepared, NextUpPhase, UpDone, StopSidecars, StopCoordinator, Kill,
         world
<1>2. KeyTypes'
  BY <1>1, SameNames DEF SettledInv, KeyTypes
<1>3. CASE \/ \E verb \in {"up", "down"}, cfg \in Family : Command(verb, cfg)
           \/ NotPrepared \/ StopSidecars \/ StopCoordinator \/ Kill
  <2>1. phase' \notin Deploying \cup {"keys"}
    BY <1>3 DEF Command, NotPrepared, StopSidecars, StopCoordinator, Kill, Enter, End, Deploying
  <2>. QED
    BY <1>2, <2>1 DEF SettledInv
<1>4. CASE Prepared
  <2>1. phase' \notin Deploying /\ cmd' = cmd
    BY <1>4 DEF Prepared, Enter, Deploying
  <2>2. CASE phase' = "keys"
    <3>1. /\ pc' \in [Hosts -> {"probe", "done"}]
          /\ \A h \in KeyHosts(cmd.cfg) : h \in Hosts => pc'[h] = "probe"
      BY <1>4, <2>2 DEF Prepared, Enter
    <3>2. KeyHosts(cmd.cfg) \subseteq Hosts /\ KeyHosts(cmd.cfg)' = KeyHosts(cmd.cfg)
      BY <1>1, <1>4, <2>1, DeployableFiles DEF Prepared, BoxesInv, Commanded, KeyHosts
    <3>. QED
      BY <1>2, <2>1, <2>2, <3>1, <3>2 DEF SettledInv, KeySpots, KeyPlaces
  <2>. QED
    BY <1>2, <2>1, <2>2 DEF SettledInv
<1>5. CASE NextUpPhase \/ UpDone
  <2>1. /\ cmd' = cmd /\ phase' # "keys"
        /\ phase' \in Deploying => phase \in Deploying \/ (phase = "keys" /\ ~cancelled /\ Joined)
    BY <1>5 DEF NextUpPhase, UpDone, Enter, End, Deploying
  <2>2. phase' \in Deploying => \A h \in KeyHosts(cmd.cfg) : KeySettled(h)
    <3>1. phase = "keys" => KeyHosts(cmd.cfg) \subseteq Hosts
      BY DeployableFiles DEF BoxesInv, Commanded
    <3>. QED
      BY <2>1, <3>1 DEF SettledInv, Joined
  <2>3. KeyHosts(cmd.cfg)' = KeyHosts(cmd.cfg) /\ \A h : KeySettled(h)' = KeySettled(h)
    BY <1>1, <2>1 DEF KeyHosts, KeySettled, Verified, Guests, VKMatches
  <2>. QED
    BY <1>2, <2>1, <2>2, <2>3 DEF SettledInv
<1>. QED
  BY <1>3, <1>4, <1>5

LEMMA SettledSteps ==
    ASSUME ZiskKeysInv, SettledInv, BoxesInv, [Next]_vars
    PROVE  SettledInv'
<1>1. CASE UNCHANGED vars \/ Interrupt
  BY <1>1, SettledAside DEF vars, Interrupt, world
<1>2. ASSUME NEW h \in Hosts,
             \/ CompileGuest(h) \/ Place(h) \/ PlaceFails(h) \/ PlaceRefused(h)
             \/ CoordinatorListens(h) \/ WorkersReady(h) \/ AwaitExited(h) \/ StartSidecar(h)
             \/ ListWorkers(h) \/ StopWorker(h) \/ WorkersStopped(h)
      PROVE  SettledInv'
  <2>1. UNCHANGED <<zkvm, cmd, phase, keys>> /\ phase # "keys"
    BY <1>2 DEF CompileGuest, Place, PlaceFails, PlaceRefused, CoordinatorListens, WorkersReady,
                AwaitExited, StartSidecar, ListWorkers, StopWorker, WorkersStopped, At, PlacePhases,
                world
  <2>. QED
    BY <2>1, SettledAside
<1>3. ASSUME NEW h \in Hosts, NEW n \in Names,
             ReadStart(h, n) \/ ReadLog(h, n) \/ Ready(h, n) \/ Crash(h, n) \/ Restart(h, n)
      PROVE  SettledInv'
  BY <1>3, SettledAside DEF ReadStart, ReadLog, Ready, Crash, Restart, world
<1>4. ASSUME NEW h \in Hosts,
             \/ GiveUp(h) \/ Probe(h) \/ CreateVolume(h) \/ StartJob(h) \/ JobDone(h)
             \/ JobAbandoned(h) \/ CleanUp(h) \/ Verify(h)
      PROVE  SettledInv'
  <2>1. phase # "keys" => GiveUp(h)
    BY <1>4 DEF Probe, CreateVolume, StartJob, JobDone, JobAbandoned, CleanUp, Verify, At
  <2>2. phase # "keys" => UNCHANGED <<zkvm, cmd, phase, keys>>
    BY <2>1 DEF GiveUp, world
  <2>. QED
    BY <1>4, <2>2, SettledGoroutine, SettledAside
<1>. QED
  BY <1>1, <1>2, <1>3, <1>4, SettledJobs, SettledPhases DEF Next

\* Every configured verifying key is the one of its guest's ELF.
AllMatch == \A i \in DOMAIN Guests : VKMatches(cmd.cfg, Guests[i])

\* A ZisK host has checked the guests that it has compiled.  OpenVM checks them
\* with the baselines of its keys.
CompiledInv ==
    /\ phase = "compile" =>
          /\ zkvm = "zisk"
          /\ pc \in [Hosts -> {"compile", "done"}]
          /\ todo \in [Hosts -> Seq(STRING)]
          /\ \A h \in Hosts : pc[h] = "compile" => todo[h] # <<>>
          /\ ~cancelled => \A h \in WorkerHosts(cmd.cfg), i \in DOMAIN Guests :
                VKMatches(cmd.cfg, Guests[i])
                   \/ (pc[h] = "compile" /\ Guests[i] \in Range(todo[h]))
    /\ phase \in Deploying \ {"compile"} => AllMatch

LEMMA GuestsListed ==
    ASSUME cmd.cfg \in Deployable
    PROVE  Guests \in Seq(STRING) /\ Guests # <<>>
<1>. DEFINE g == cmd.cfg.guests
<1>1. g \in Seq([elf : STRING, vk : STRING]) /\ g # <<>>
  BY DeployableFiles, FileTypes
<1>2. Guests = [i \in DOMAIN g |-> g[i].elf]
  BY DEF Guests
<1>. HIDE DEF g
<1>3. \A i \in DOMAIN g : g[i] \in [elf : STRING, vk : STRING]
  <2>. DEFINE R == [elf : STRING, vk : STRING]
  <2>1. g \in Seq(R)
    BY <1>1
  <2>. HIDE DEF R
  <2>2. \A i \in DOMAIN g : g[i] \in R
    BY <2>1
  <2>. QED
    BY <2>2 DEF R
<1>4. Guests \in [DOMAIN g -> STRING]
  BY <1>2, <1>3
<1>5. Guests \in Seq(STRING) /\ Len(Guests) = Len(g)
  BY <1>1, <1>4, SameLength
<1>6. Len(g) # 0 /\ Len(<<>>) = 0
  BY <1>1
<1>. QED
  BY <1>5, <1>6

\* One guest is compiled, and its verifying key is the configured one, or the
\* up fails.
LEMMA CompiledGuest ==
    ASSUME CompiledInv, BoxesInv, NEW h \in Hosts, CompileGuest(h)
    PROVE  CompiledInv'
<1>1. /\ phase = "compile" /\ pc[h] = "compile" /\ UNCHANGED <<zkvm, cmd, phase>> /\ zkvm = "zisk"
      /\ pc \in [Hosts -> {"compile", "done"}] /\ todo \in [Hosts -> Seq(STRING)] /\ todo[h] # <<>>
      /\ todo[h] \in Seq(STRING) /\ ~cancelled
  BY DEF CompileGuest, At, CompiledInv
<1>2. Tail(todo[h]) \in Seq(STRING) /\ Range(todo[h]) = {Unit(h)} \cup Range(Tail(todo[h]))
      /\ IF Len(todo[h]) > 1 THEN Tail(todo[h]) # <<>> ELSE Tail(todo[h]) = <<>>
  BY <1>1, TailRange DEF Unit
<1>3. phase' \notin Deploying \ {"compile"} /\ Guests' = Guests /\ WorkerHosts(cmd.cfg) \subseteq Hosts
  BY <1>1, DeployableFiles DEF BoxesInv, Commanded, Guests, Deploying
<1>4. \A g : VKMatches(cmd.cfg, g)' = VKMatches(cmd.cfg, g)
  BY <1>1 DEF VKMatches
<1>5. CASE cancelled'
  <2>1. /\ todo' = todo /\ pc' = [pc EXCEPT ![h] = "done"]
    BY <1>1, <1>5 DEF CompileGuest
  <2>. QED
    BY <1>1, <1>3, <1>5, <2>1 DEF CompiledInv
<1>6. CASE ~cancelled'
  <2>1. /\ VKMatches(cmd.cfg, Unit(h)) /\ todo' = [todo EXCEPT ![h] = Tail(@)]
        /\ pc' = [pc EXCEPT ![h] = IF Len(todo[h]) > 1 THEN @ ELSE "done"]
    BY <1>6 DEF CompileGuest
  <2>2. pc' \in [Hosts -> {"compile", "done"}] /\ todo' \in [Hosts -> Seq(STRING)]
    BY <1>1, <1>2, <2>1
  <2>3. \A g \in Hosts : pc'[g] = "compile" => todo'[g] # <<>>
    BY <1>1, <1>2, <2>1 DEF CompiledInv
  <2>4. ASSUME NEW g \in WorkerHosts(cmd.cfg), NEW i \in DOMAIN Guests, ~VKMatches(cmd.cfg, Guests[i])
        PROVE  pc'[g] = "compile" /\ Guests[i] \in Range(todo'[g])
    <3>1. pc[g] = "compile" /\ Guests[i] \in Range(todo[g]) /\ Guests[i] # Unit(h)
      BY <1>1, <2>1, <2>4 DEF CompiledInv
    <3>2. CASE g = h
      <4>1. Tail(todo[h]) # <<>>
        BY <1>2, <3>1, <3>2, EmptyRange
      <4>. QED
        BY <1>1, <1>2, <2>1, <3>1, <3>2, <4>1
    <3>3. CASE g # h
      BY <1>1, <1>3, <2>1, <3>1, <3>3
    <3>. QED
      BY <3>2, <3>3
  <2>. QED
    BY <1>1, <1>3, <1>4, <2>2, <2>3, <2>4 DEF CompiledInv
<1>. QED
  BY <1>5, <1>6

\* A step of another phase, or of none of the goroutines that compile.
LEMMA CompiledAside ==
    ASSUME CompiledInv, UNCHANGED <<zkvm, cmd, phase>>,
           phase = "compile" => /\ UNCHANGED todo /\ (cancelled => cancelled')
                                /\ \/ pc' = pc
                                   \/ cancelled' /\ \E h \in Hosts : pc' = [pc EXCEPT ![h] = "done"]
    PROVE  CompiledInv'
<1>1. Guests' = Guests /\ AllMatch' = AllMatch
  BY DEF Guests, AllMatch, VKMatches
<1>2. CASE phase = "compile" /\ pc' = pc
  BY <1>1, <1>2 DEF CompiledInv, VKMatches
<1>3. CASE phase = "compile" /\ pc' # pc
  <2>1. cancelled' /\ \E h \in Hosts : pc' = [pc EXCEPT ![h] = "done"]
    BY <1>3
  <2>. QED
    BY <1>1, <1>3, <2>1 DEF CompiledInv
<1>4. CASE phase # "compile"
  BY <1>1, <1>4 DEF CompiledInv
<1>. QED
  BY <1>2, <1>3, <1>4

LEMMA CompiledPhases ==
    ASSUME CompiledInv, SettledInv, BoxesInv,
           \/ \E verb \in {"up", "down"}, cfg \in Family : Command(verb, cfg)
           \/ Prepared \/ NotPrepared \/ NextUpPhase \/ UpDone \/ StopSidecars \/ StopCoordinator
           \/ Kill
    PROVE  CompiledInv'
<1>1. CASE \/ \E verb \in {"up", "down"}, cfg \in Family : Command(verb, cfg)
           \/ Prepared \/ NotPrepared \/ StopSidecars \/ StopCoordinator \/ Kill
  <2>1. phase' \notin Deploying
    BY <1>1 DEF Command, Prepared, NotPrepared, StopSidecars, StopCoordinator, Kill, Enter, End,
                Deploying
  <2>. QED
    BY <2>1 DEF CompiledInv, Deploying
<1>2. CASE NextUpPhase \/ UpDone
  <2>1. /\ UNCHANGED <<zkvm, cmd, cancelled>> /\ phase \in {"keys", "compile", "coordinator", "workers", "sidecars"}
        /\ phase' \in Deploying \cup {"failed"}
    BY <1>2 DEF NextUpPhase, UpDone, Enter, End, Deploying
  <2>2. cmd.cfg \in Deployable /\ AllMatch' = AllMatch /\ Guests' = Guests
    BY <2>1 DEF BoxesInv, Commanded, AllMatch, Guests, VKMatches
  <2>3. WorkerHosts(cmd.cfg) # {} /\ WorkerHosts(cmd.cfg) \subseteq Hosts
        /\ cmd.cfg.coordinator.ssh \in AllHosts(cmd.cfg) /\ cmd.cfg.coordinator.ssh \in Hosts
    BY <2>2, DeployableFiles
  <2>4. CASE phase' = "compile"
    <3>1. /\ zkvm = "zisk"
          /\ pc' = [h \in Hosts |-> IF h \in WorkerHosts(cmd.cfg) THEN "compile" ELSE "done"]
          /\ todo' = [h \in Hosts |-> IF h \in WorkerHosts(cmd.cfg) THEN Guests ELSE <<>>]
      BY <1>2, <2>4 DEF NextUpPhase, UpDone, Enter, End
    <3>2. Guests \in Seq(STRING) /\ Guests # <<>> /\ \A i \in DOMAIN Guests : Guests[i] \in Range(Guests)
      BY <2>2, GuestsListed DEF Range
    <3>3. pc' \in [Hosts -> {"compile", "done"}] /\ todo' \in [Hosts -> Seq(STRING)]
      <4>1. <<>> \in Seq(STRING)
        OBVIOUS
      <4>. DEFINE S == Seq(STRING)
      <4>2. Guests \in S /\ <<>> \in S
        BY <3>2, <4>1
      <4>. HIDE DEF S
      <4>3. pc' \in [Hosts -> {"compile", "done"}] /\ todo' \in [Hosts -> S]
        BY <3>1, <4>2
      <4>. QED
        BY <4>3 DEF S
    <3>4. \A h \in WorkerHosts(cmd.cfg) : pc'[h] = "compile" /\ todo'[h] = Guests
      BY <2>3, <3>1
    <3>5. \A h \in Hosts : pc'[h] = "compile" => todo'[h] # <<>>
      BY <3>1, <3>2
    <3>. QED
      BY <2>1, <2>2, <2>4, <3>1, <3>2, <3>3, <3>4, <3>5 DEF CompiledInv
  <2>5. CASE phase' \in Deploying \ {"compile"}
    <3>1. CASE phase = "keys"
      <4>1. zkvm # "zisk" /\ ~cancelled /\ Joined
        BY <1>2, <2>5, <3>1 DEF NextUpPhase, UpDone, Enter, End, Deploying
      <4>2. Verified(cmd.cfg.coordinator.ssh)
        BY <2>3, <3>1, <4>1 DEF SettledInv, KeyHosts, KeySettled, Joined
      <4>. QED
        BY <2>2, <2>5, <4>2 DEF Verified, AllMatch, CompiledInv
    <3>2. CASE phase = "compile"
      <4>1. ~cancelled /\ Joined
        BY <1>2, <2>5, <3>2 DEF NextUpPhase, UpDone, Enter, End, Deploying
      <4>. QED
        BY <2>2, <2>3, <2>5, <3>2, <4>1 DEF AllMatch, CompiledInv, Joined
    <3>3. CASE phase \in {"coordinator", "workers", "sidecars"}
      BY <2>2, <2>5, <3>3 DEF CompiledInv, Deploying
    <3>. QED
      BY <2>1, <3>1, <3>2, <3>3
  <2>. QED
    BY <2>1, <2>4, <2>5 DEF CompiledInv, Deploying
<1>. QED
  BY <1>1, <1>2

LEMMA CompiledSteps ==
    ASSUME CompiledInv, SettledInv, BoxesInv, [Next]_vars
    PROVE  CompiledInv'
<1>1. CASE UNCHANGED vars \/ Interrupt
  BY <1>1, CompiledAside DEF vars, Interrupt
<1>2. ASSUME NEW h \in Hosts, GiveUp(h)
      PROVE  CompiledInv'
  BY <1>2, CompiledAside DEF GiveUp
<1>3. ASSUME NEW h \in Hosts, JobEnds(h)
      PROVE  CompiledInv'
  BY <1>3, CompiledAside DEF JobEnds
<1>4. ASSUME NEW h \in Hosts,
             \/ Probe(h) \/ CreateVolume(h) \/ StartJob(h) \/ JobDone(h)
             \/ JobAbandoned(h) \/ CleanUp(h) \/ Verify(h)
             \/ Place(h) \/ PlaceFails(h) \/ PlaceRefused(h)
             \/ CoordinatorListens(h) \/ WorkersReady(h) \/ AwaitExited(h) \/ StartSidecar(h)
             \/ ListWorkers(h) \/ StopWorker(h) \/ WorkersStopped(h)
      PROVE  CompiledInv'
  <2>1. UNCHANGED <<zkvm, cmd, phase>> /\ phase # "compile"
    BY <1>4 DEF Probe, CreateVolume, StartJob, JobDone, JobAbandoned, CleanUp, Verify,
                Place, PlaceFails, PlaceRefused, CoordinatorListens, WorkersReady,
                AwaitExited, StartSidecar, ListWorkers, StopWorker, WorkersStopped, At, PlacePhases
  <2>. QED
    BY <2>1, CompiledAside
<1>5. ASSUME NEW h \in Hosts, NEW n \in Names,
             ReadStart(h, n) \/ ReadLog(h, n) \/ Ready(h, n) \/ Crash(h, n) \/ Restart(h, n)
      PROVE  CompiledInv'
  BY <1>5, CompiledAside DEF ReadStart, ReadLog, Ready, Crash, Restart
<1>. QED
  BY <1>1, <1>2, <1>3, <1>4, <1>5, CompiledGuest, CompiledPhases DEF Next

----------------------------------------------------------------------------
(* The wait for the ready line of every worker.                            *)

WorkersOf(h) == Range(WorkerNames(cmd.cfg, h))

\* The up has found or started the container of a worker.
Placed(h, n) == box[h][n] # None /\ base[h][n] <= box[h][n].run

\* What was read of it is no older than that run.
Waited(h, n) ==
    /\ Placed(h, n)
    /\ since[h][n] # 0 => since[h][n] >= base[h][n]
    /\ seen[h][n] # 0 => seen[h][n] \in box[h][n].lines /\ seen[h][n] >= base[h][n]

\* How far the goroutine of a worker host is with one of its workers.
WorkerWait(h, n) ==
    /\ pc[h] = "place" => /\ since[h][n] = 0 /\ seen[h][n] = 0
                          /\ n \in Range(todo[h]) \/ Placed(h, n)
    /\ pc[h] = "await" => Waited(h, n)
    /\ pc[h] = "done" /\ ~cancelled => Waited(h, n) /\ seen[h][n] # 0

WaitTypes ==
    /\ since \in [Hosts -> [Names -> Nat]]
    /\ seen \in [Hosts -> [Names -> Nat]]
    /\ base \in [Hosts -> [Names -> Nat]]

BeforeWorkers == {"prepare", "keys", "compile", "coordinator"}
AfterWorkers == {"sidecars", "ready"}

WaitInv ==
    /\ WaitTypes
    /\ phase \in BeforeWorkers =>
          \A h \in Hosts, n \in Names : since[h][n] = 0 /\ seen[h][n] = 0
    /\ phase = "workers" => \A h \in Hosts : \A n \in WorkersOf(h) : WorkerWait(h, n)
    /\ phase = "sidecars" => todo \in [Hosts -> Seq(Range(SidecarsOf(cmd.cfg)))]
    /\ phase \in AfterWorkers =>
          \A h \in Hosts : \A n \in WorkersOf(h) : Waited(h, n) /\ seen[h][n] # 0

LEMMA WorkersAreNames ==
    ASSUME cmd.cfg \in Deployable, NEW h
    PROVE  \A n \in WorkersOf(h) : n \in Names /\ IsWorker(n)
<1>1. WorkerNames(cmd.cfg, h) \in Seq(Names)
  BY WorkerNamesOf
<1>. DEFINE w == WorkerNames(cmd.cfg, h)
<1>2. \A n \in Range(w) : IsWorker(n)
  BY WorkerNamesOf
<1>. HIDE DEF w
<1>3. Range(w) \subseteq Names
  BY <1>1 DEF Range, w
<1>. QED
  BY <1>2, <1>3 DEF WorkersOf, w

\* What becomes of a container that stays under its name.
Grows(h, n) ==
    box[h][n] # None =>
        /\ box'[h][n] # None
        /\ box'[h][n].run >= box[h][n].run
        /\ box[h][n].lines \subseteq box'[h][n].lines

LEMMA BoxNumbers ==
    ASSUME BoxTypes, NEW h \in Hosts, NEW n \in Names, box[h][n] # None
    PROVE  /\ box[h][n] \in Boxes
           /\ box[h][n].run \in Nat /\ box[h][n].lines \in SUBSET Nat
<1>1. box[h][n] \in Boxes
  BY DEF BoxTypes
<1>2. \A b \in Boxes : b.run \in Nat /\ b.lines \in SUBSET Nat
  BY DEF Boxes
<1>. QED
  BY <1>1, <1>2

LEMMA SameBoxGrows ==
    ASSUME BoxTypes, NEW h \in Hosts, NEW n \in Names, box'[h][n] = box[h][n]
    PROVE  Grows(h, n)
BY BoxNumbers DEF Grows

LEMMA WaitedStays ==
    ASSUME BoxTypes, BoxTypes', WaitTypes, UNCHANGED <<zkvm, waits>>,
           NEW h \in Hosts, NEW n \in Names, Grows(h, n)
    PROVE  /\ Placed(h, n) => Placed(h, n)'
           /\ Waited(h, n) => Waited(h, n)'
<1>1. CASE box[h][n] = None
  BY <1>1 DEF Placed, Waited
<1>2. CASE box[h][n] # None
  <2>. DEFINE r == box[h][n].run
              s == box'[h][n].run
              b == base[h][n]
  <2>1. box'[h][n] # None /\ s >= r /\ box[h][n].lines \subseteq box'[h][n].lines
    BY <1>2 DEF Grows
  <2>2. n \in Names' /\ r \in Nat /\ b \in Nat
    BY <1>2, BoxNumbers, SameNames DEF WaitTypes
  <2>3. s \in Nat
    <3>1. box'[h][n] \in Boxes
      BY <2>1, <2>2 DEF BoxTypes
    <3>2. \A c \in Boxes : c.run \in Nat
      BY DEF Boxes
    <3>. QED
      BY <3>1, <3>2
  <2>4. since'[h][n] = since[h][n] /\ seen'[h][n] = seen[h][n] /\ base'[h][n] = b
    BY DEF waits
  <2>. HIDE DEF r, s, b
  <2>5. b <= r => b <= s
    BY <2>1, <2>2, <2>3
  <2>. QED
    BY <2>1, <2>4, <2>5 DEF Placed, Waited, r, s, b
<1>. QED
  BY <1>1, <1>2

\* A step that reads no log, and that takes no worker's container away while
\* an up waits for it.
LEMMA WaitAside ==
    ASSUME WaitInv, BoxesInv, BoxesInv', UNCHANGED <<zkvm, cmd, phase, waits>>,
           phase \in {"workers"} \cup AfterWorkers =>
               \A h \in Hosts, n \in Names : IsWorker(n) => Grows(h, n),
           phase = "workers" => /\ UNCHANGED todo /\ (cancelled => cancelled')
                                /\ \/ pc' = pc
                                   \/ cancelled' /\ \E h \in Hosts : pc' = [pc EXCEPT ![h] = "done"],
           phase = "sidecars" => todo' \in [Hosts -> Seq(Range(SidecarsOf(cmd.cfg)))]
    PROVE  WaitInv'
<1>1. Names' = Names /\ (\A h : WorkersOf(h)' = WorkersOf(h)) /\ SidecarsOf(cmd.cfg)' = SidecarsOf(cmd.cfg)
  BY SameNames DEF WorkersOf
<1>2. WaitTypes'
  BY <1>1 DEF WaitInv, WaitTypes, waits
<1>3. ASSUME phase \in {"workers"} \cup AfterWorkers, NEW h \in Hosts, NEW n \in WorkersOf(h)
      PROVE  /\ n \in Names
             /\ Placed(h, n) => Placed(h, n)'
             /\ Waited(h, n) => Waited(h, n)'
  <2>1. n \in Names /\ IsWorker(n)
    BY <1>3, WorkersAreNames DEF BoxesInv, Commanded, AfterWorkers
  <2>. QED
    BY <1>3, <2>1, WaitedStays DEF WaitInv, BoxesInv
<1>4. phase = "workers" => \A h \in Hosts : \A n \in WorkersOf(h) : WorkerWait(h, n)'
  <2>. SUFFICES ASSUME phase = "workers", NEW h \in Hosts, NEW n \in WorkersOf(h)
                PROVE  WorkerWait(h, n)'
    OBVIOUS
  <2>1. WorkerWait(h, n) /\ todo' = todo /\ seen' = seen /\ since' = since
        /\ (Placed(h, n) => Placed(h, n)') /\ (Waited(h, n) => Waited(h, n)')
    BY <1>3 DEF WaitInv, waits
  <2>2. (pc'[h] = pc[h] /\ (cancelled => cancelled')) \/ (cancelled' /\ pc'[h] = "done")
    BY DEF BoxesInv, Places
  <2>. QED
    BY <2>1, <2>2 DEF WorkerWait
<1>5. phase \in AfterWorkers =>
         \A h \in Hosts : \A n \in WorkersOf(h) : Waited(h, n)' /\ seen'[h][n] # 0
  BY <1>3 DEF WaitInv, waits
<1>. QED
  BY <1>1, <1>2, <1>4, <1>5 DEF WaitInv, waits

\* A step of the goroutine of one worker host.
LEMMA OneWaitStep ==
    ASSUME WaitInv, BoxesInv, phase = "workers", UNCHANGED <<zkvm, cmd, phase>>, WaitTypes',
           NEW h \in Hosts,
           cancelled => cancelled',
           \A g \in Hosts \ {h} :
               /\ UNCHANGED <<pc[g], todo[g]>>
               /\ \A n \in Names : UNCHANGED <<box[g][n], since[g][n], seen[g][n], base[g][n]>>,
           \A n \in WorkersOf(h) : WorkerWait(h, n)'
    PROVE  WaitInv'
<1>1. \A g : WorkersOf(g)' = WorkersOf(g)
  BY DEF WorkersOf
<1>2. ASSUME NEW g \in Hosts \ {h}, NEW n \in WorkersOf(g)
      PROVE  WorkerWait(g, n)'
  <2>1. n \in Names /\ WorkerWait(g, n)
    BY WorkersAreNames DEF WaitInv, BoxesInv, Commanded
  <2>. QED
    BY <2>1 DEF WorkerWait, Waited, Placed
<1>3. \A g \in Hosts : \A n \in WorkersOf(g) : WorkerWait(g, n)'
  BY <1>2
<1>. QED
  BY <1>1, <1>3 DEF WaitInv, BeforeWorkers, AfterWorkers

LEMMA PlaceWaits ==
    ASSUME WaitInv, BoxesInv, NEW h \in Hosts, Place(h)
    PROVE  WaitInv'
<1>1. PICK c \in Boxes : /\ box' = [box EXCEPT ![h][Next1(h)] = c]
                         /\ base' = [base EXCEPT ![h][Next1(h)] = c.run]
  BY PlaceBoxes
<1>2. todo[h] # <<>> /\ Next1(h) \in Names /\ BoxesInv' /\ Names' = Names
  BY PlaceBoxes, SameNames DEF Place
<1>3. /\ UNCHANGED <<zkvm, cmd, phase, cancelled, since, seen>> /\ phase \in {"coordinator", "workers"}
      /\ pc[h] = "place" /\ todo' = [todo EXCEPT ![h] = Tail(@)]
      /\ pc' = [pc EXCEPT ![h] = IF Len(todo[h]) > 1 THEN @ ELSE "await"]
  BY DEF Place, PlacePhases
<1>4. c.run \in Nat /\ c # None /\ c.run <= c.run
  BY DeployAssumption DEF Boxes
<1>5. WaitTypes'
  <2>1. base' \in [Hosts -> [Names -> Nat]]
    BY <1>1, <1>4 DEF WaitInv, WaitTypes
  <2>. QED
    BY <1>2, <1>3, <2>1 DEF WaitInv, WaitTypes
<1>6. CASE phase = "coordinator"
  BY <1>2, <1>3, <1>5, <1>6 DEF WaitInv, BeforeWorkers, AfterWorkers
<1>7. CASE phase = "workers"
  <2>1. pc \in [Hosts -> {"place", "await", "done"}] /\ todo \in [Hosts -> Seq(Names)]
    BY <1>7 DEF BoxesInv, Places
  <2>2. Range(todo[h]) = {Next1(h)} \cup Range(Tail(todo[h]))
        /\ IF Len(todo[h]) > 1 THEN Tail(todo[h]) # <<>> ELSE Tail(todo[h]) = <<>>
    BY <1>2, <2>1, TailRange DEF Next1
  <2>3. ASSUME NEW n \in WorkersOf(h)
        PROVE  WorkerWait(h, n)'
    <3>1. n \in Names
      BY <1>7, WorkersAreNames DEF BoxesInv, Commanded
    <3>2. /\ since[h][n] = 0 /\ seen[h][n] = 0
          /\ n \in Range(todo[h]) \/ Placed(h, n)
      BY <1>3, <1>7 DEF WaitInv, WorkerWait
    <3>3. n \in Range(Tail(todo[h])) \/ Placed(h, n)'
      <4>1. CASE n = Next1(h)
        <5>1. box'[h][n] = c /\ base'[h][n] = c.run
          BY <1>1, <1>2, <3>1, <4>1 DEF BoxesInv, BoxTypes, WaitInv, WaitTypes
        <5>. QED
          BY <1>4, <5>1 DEF Placed
      <4>2. CASE n # Next1(h)
        <5>1. box'[h][n] = box[h][n] /\ base'[h][n] = base[h][n]
          BY <1>1, <1>2, <3>1, <4>2 DEF BoxesInv, BoxTypes, WaitInv, WaitTypes
        <5>. QED
          BY <2>2, <3>2, <4>2, <5>1 DEF Placed
      <4>. QED
        BY <4>1, <4>2
    <3>4. todo'[h] = Tail(todo[h]) /\ pc'[h] = IF Len(todo[h]) > 1 THEN "place" ELSE "await"
      BY <1>3, <2>1
    <3>5. CASE Len(todo[h]) > 1
      BY <1>3, <3>2, <3>3, <3>4, <3>5 DEF WorkerWait
    <3>6. CASE ~(Len(todo[h]) > 1)
      <4>1. Placed(h, n)'
        BY <2>2, <3>3, <3>6, EmptyRange
      <4>. QED
        BY <1>3, <3>2, <3>4, <3>6, <4>1 DEF WorkerWait, Waited
    <3>. QED
      BY <3>5, <3>6
  <2>4. \A g \in Hosts \ {h} :
           /\ UNCHANGED <<pc[g], todo[g]>>
           /\ \A n \in Names : UNCHANGED <<box[g][n], since[g][n], seen[g][n], base[g][n]>>
    BY <1>1, <1>3
  <2>. QED
    BY <1>3, <1>5, <1>7, <2>3, <2>4, OneWaitStep
<1>. QED
  BY <1>3, <1>6, <1>7

LEMMA PlaceFailsWaits ==
    ASSUME WaitInv, BoxesInv, NEW h \in Hosts, PlaceFails(h)
    PROVE  WaitInv'
<1>1. /\ UNCHANGED <<zkvm, cmd, phase, todo, waits>> /\ phase \in {"coordinator", "workers"} /\ cancelled'
      /\ pc' = [pc EXCEPT ![h] = "done"] /\ Names' = Names
  BY SameNames DEF PlaceFails, PlacePhases
<1>2. \A g \in Hosts \ {h}, n \in Names : box'[g][n] = box[g][n]
  <2>1. \/ box' = box
        \/ \E c \in Boxes \cup {None} : box' = [box EXCEPT ![h][Next1(h)] = c]
    BY PlaceFailsBoxes
  <2>. QED
    BY <2>1 DEF BoxesInv, BoxTypes
<1>3. WaitTypes'
  BY <1>1 DEF WaitInv, WaitTypes, waits
<1>4. CASE phase = "coordinator"
  BY <1>1, <1>3, <1>4 DEF WaitInv, BeforeWorkers, AfterWorkers, waits
<1>5. CASE phase = "workers"
  <2>1. pc'[h] = "done"
    BY <1>1, <1>5 DEF BoxesInv, Places
  <2>2. \A n \in WorkersOf(h) : WorkerWait(h, n)'
    BY <1>1, <2>1 DEF WorkerWait
  <2>3. \A g \in Hosts \ {h} : UNCHANGED <<pc[g], todo[g]>>
    BY <1>1
  <2>. QED
    BY <1>1, <1>2, <1>3, <1>5, <2>2, <2>3, OneWaitStep DEF waits
<1>. QED
  BY <1>1, <1>4, <1>5

\* The start is read, and then what the log holds since: the restart that may
\* come in between only makes the run younger.
LEMMA ReadWaits ==
    ASSUME WaitInv, BoxesInv, NEW h \in Hosts, NEW n \in Names, ReadStart(h, n) \/ ReadLog(h, n)
    PROVE  WaitInv'
<1>1. /\ UNCHANGED <<zkvm, cmd, phase, pc, todo, cancelled, box, base>> /\ phase = "workers"
      /\ pc[h] = "await" /\ n \in WorkersOf(h) /\ Names' = Names
  BY SameNames DEF ReadStart, ReadLog, At, PhaseNames, WorkersOf
<1>2. WorkerWait(h, n) /\ Waited(h, n)
  BY <1>1 DEF WaitInv, WorkerWait
<1>. DEFINE r == box[h][n].run
            l == box[h][n].lines
            b == base[h][n]
<1>3. r \in Nat /\ l \in SUBSET Nat /\ b \in Nat /\ b <= r
  BY <1>2, BoxNumbers DEF BoxesInv, WaitInv, WaitTypes, Waited, Placed
<1>4. since \in [Hosts -> [Names -> Nat]] /\ seen \in [Hosts -> [Names -> Nat]]
      /\ base \in [Hosts -> [Names -> Nat]]
  BY DEF WaitInv, WaitTypes
<1>5. \E x, y \in Nat :
         /\ since' = [since EXCEPT ![h][n] = x] /\ seen' = [seen EXCEPT ![h][n] = y]
         /\ x # 0 => x >= b
         /\ y # 0 => y \in l /\ y >= b
  <2>1. CASE ReadStart(h, n)
    <3>1. since' = [since EXCEPT ![h][n] = r] /\ seen' = [seen EXCEPT ![h][n] = 0]
      <4>1. since' = [since EXCEPT ![h][n] = r] /\ seen' = seen /\ seen[h][n] = 0
        BY <2>1 DEF ReadStart
      <4>. QED
        BY <1>4, <4>1
    <3>. HIDE DEF r, b, l
    <3>. QED
      BY <1>3, <3>1
  <2>2. CASE ReadLog(h, n)
    <3>. DEFINE s == since[h][n]
                found == {q \in l : q >= s}
                y == IF found = {} THEN 0 ELSE CHOOSE x \in found : \A q \in found : x <= q
    <3>1. s \in Nat /\ s >= b
      BY <1>2, <1>4, <2>2 DEF ReadLog, Waited
    <3>2. since' = [since EXCEPT ![h][n] = 0] /\ seen' = [seen EXCEPT ![h][n] = y]
      BY <2>2 DEF ReadLog
    <3>. HIDE DEF r, b, l, s
    <3>3. found \in SUBSET Nat
      BY <1>3
    <3>4. found # {} => y \in found
      <4>. HIDE DEF found
      <4>. QED
        BY <3>3, LeastElement
    <3>5. \A q \in found : q \in l /\ q >= b /\ q \in Nat
      BY <1>3, <3>1
    <3>6. y \in Nat /\ (y # 0 => y \in l /\ y >= b)
      <4>. HIDE DEF found
      <4>1. CASE found = {}
        BY <4>1
      <4>2. CASE found # {}
        <5>. HIDE DEF y
        <5>. QED
          BY <3>4, <3>5, <4>2
      <4>. QED
        BY <4>1, <4>2
    <3>. HIDE DEF y, found
    <3>. QED
      BY <3>2, <3>6
  <2>. QED
    BY <2>1, <2>2
<1>6. PICK x, y \in Nat :
         /\ since' = [since EXCEPT ![h][n] = x] /\ seen' = [seen EXCEPT ![h][n] = y]
         /\ x # 0 => x >= b
         /\ y # 0 => y \in l /\ y >= b
  BY <1>5
<1>7. WaitTypes'
  BY <1>1, <1>4, <1>6 DEF WaitTypes
<1>8. ASSUME NEW m \in WorkersOf(h)
      PROVE  WorkerWait(h, m)'
  <2>1. WorkerWait(h, m) /\ Waited(h, m) /\ m \in Names
    BY <1>1, WorkersAreNames DEF WaitInv, WorkerWait, BoxesInv, Commanded
  <2>2. CASE m = n
    <3>1. since'[h][n] = x /\ seen'[h][n] = y
      BY <1>4, <1>6
    <3>2. Waited(h, n)'
      BY <1>1, <1>2, <1>6, <3>1 DEF Waited, Placed
    <3>. QED
      BY <1>1, <2>2, <3>2 DEF WorkerWait
  <2>3. CASE m # n
    <3>1. since'[h][m] = since[h][m] /\ seen'[h][m] = seen[h][m]
      BY <1>4, <1>6, <2>1, <2>3
    <3>2. Waited(h, m)'
      BY <1>1, <2>1, <3>1 DEF Waited, Placed
    <3>. QED
      BY <1>1, <3>2 DEF WorkerWait
  <2>. QED
    BY <2>2, <2>3
<1>9. \A g \in Hosts \ {h}, m \in Names : since'[g][m] = since[g][m] /\ seen'[g][m] = seen[g][m]
  BY <1>6
<1>. QED
  BY <1>1, <1>7, <1>8, <1>9, OneWaitStep

LEMMA WorkersReadyWaits ==
    ASSUME WaitInv, BoxesInv, NEW h \in Hosts, WorkersReady(h)
    PROVE  WaitInv'
<1>1. /\ UNCHANGED <<zkvm, cmd, phase, todo, cancelled, box, waits>> /\ phase = "workers"
      /\ pc[h] = "await" /\ pc' = [pc EXCEPT ![h] = "done"] /\ Names' = Names
      /\ \A n \in WorkersOf(h) : seen[h][n] # 0
  BY SameNames DEF WorkersReady, At, PhaseNames, WorkersOf
<1>2. WaitTypes' /\ pc'[h] = "done"
  BY <1>1 DEF WaitInv, WaitTypes, waits, BoxesInv, Places
<1>3. ASSUME NEW n \in WorkersOf(h)
      PROVE  WorkerWait(h, n)'
  <2>1. Waited(h, n) /\ seen[h][n] # 0
    BY <1>1 DEF WaitInv, WorkerWait
  <2>2. Waited(h, n)' /\ seen'[h][n] # 0
    BY <1>1, <2>1 DEF Waited, Placed, waits
  <2>. QED
    BY <1>2, <2>2 DEF WorkerWait
<1>4. \A g \in Hosts \ {h} : UNCHANGED <<pc[g], todo[g]>>
  BY <1>1
<1>. QED
  BY <1>1, <1>2, <1>3, <1>4, OneWaitStep DEF waits

\* A sidecar takes the place of no worker.
LEMMA SidecarWaits ==
    ASSUME WaitInv, BoxesInv, NEW h \in Hosts, StartSidecar(h)
    PROVE  WaitInv'
<1>1. /\ UNCHANGED <<zkvm, cmd, phase, waits>> /\ phase = "sidecars"
      /\ todo[h] # <<>> /\ todo' = [todo EXCEPT ![h] = Tail(@)]
  BY DEF StartSidecar, At
<1>. DEFINE S == Range(SidecarsOf(cmd.cfg))
<1>2. todo \in [Hosts -> Seq(S)]
  BY <1>1 DEF WaitInv
<1>3. ~IsWorker(Next1(h)[2])
  <2>1. ASSUME NEW x \in S
        PROVE  \E k : x[2] = SidecarContainer(k)
    <3>1. PICK i \in DOMAIN cmd.cfg.sidecars :
             x = <<cmd.cfg.sidecars[i].ssh, SidecarContainer(cmd.cfg.sidecars[i].kind)>>
      BY DEF Range, SidecarsOf
    <3>. QED
      BY <3>1
  <2>. HIDE DEF S
  <2>2. Next1(h) \in S
    BY <1>1, <1>2, TailRange DEF Next1
  <2>. QED
    BY <2>1, <2>2, NameKinds
<1>4. todo' \in [Hosts -> Seq(S)]
  <2>. HIDE DEF S
  <2>1. Tail(todo[h]) \in Seq(S)
    BY <1>1, <1>2, TailRange
  <2>. QED
    BY <1>1, <1>2, <2>1
<1>5. ASSUME NEW g \in Hosts, NEW n \in Names, IsWorker(n)
      PROVE  Grows(g, n)
  <2>1. \/ box' = box
        \/ \E c \in Boxes \cup {None} : box' = [box EXCEPT ![Next1(h)[1]][Next1(h)[2]] = c]
    BY SidecarBoxes
  <2>. DEFINE a == Next1(h)[1]
              m == Next1(h)[2]
  <2>2. m # n
    BY <1>3, <1>5
  <2>. HIDE DEF a, m
  <2>3. box' = box \/ \E c \in Boxes \cup {None} : box' = [box EXCEPT ![a][m] = c]
    BY <2>1 DEF a, m
  <2>4. box'[g][n] = box[g][n]
    BY <2>2, <2>3 DEF BoxesInv, BoxTypes
  <2>. QED
    BY <2>4, SameBoxGrows DEF BoxesInv
<1>. QED
  BY <1>1, <1>4, <1>5, SidecarBoxes, WaitAside

LEMMA DaemonWaits ==
    ASSUME WaitInv, BoxesInv, BoxesInv', NEW h \in Hosts, NEW n \in Names,
           Ready(h, n) \/ Crash(h, n) \/ Restart(h, n)
    PROVE  WaitInv'
<1>1. UNCHANGED <<zkvm, cmd, phase, pc, todo, cancelled, waits>>
  BY DEF Ready, Crash, Restart
<1>2. box[h][n] \in Boxes /\ box'[h][n] \in Boxes
  BY DaemonBoxes DEF BoxesInv
<1>3. PICK c \in Boxes : /\ box' = [box EXCEPT ![h][n] = c]
                         /\ c.run >= box[h][n].run /\ box[h][n].lines \subseteq c.lines
  BY DaemonBoxes DEF BoxesInv
<1>4. ASSUME NEW g \in Hosts, NEW m \in Names
      PROVE  Grows(g, m)
  <2>1. CASE g = h /\ m = n
    <3>1. box'[g][m] = c
      BY <1>3, <2>1 DEF BoxesInv, BoxTypes
    <3>. QED
      BY <1>2, <1>3, <2>1, <3>1, DeployAssumption DEF Grows
  <2>2. CASE ~(g = h /\ m = n)
    <3>1. box'[g][m] = box[g][m]
      BY <1>3, <2>2 DEF BoxesInv, BoxTypes
    <3>. QED
      BY <3>1, SameBoxGrows DEF BoxesInv
  <2>. QED
    BY <2>1, <2>2
<1>5. phase = "sidecars" => todo' \in [Hosts -> Seq(Range(SidecarsOf(cmd.cfg)))]
  BY <1>1 DEF WaitInv
<1>. QED
  BY <1>1, <1>4, <1>5, WaitAside

\* The steps from one phase to the next.
LEMMA PhaseWaits ==
    ASSUME WaitInv, BoxesInv,
           \/ \E verb \in {"up", "down"}, cfg \in Family : Command(verb, cfg)
           \/ Prepared \/ NotPrepared \/ NextUpPhase \/ UpDone \/ StopSidecars \/ StopCoordinator
           \/ Kill
    PROVE  WaitInv'
<1>1. Names' = Names
  BY SameNames DEF Command, Prepared, NotPrepared, NextUpPhase, UpDone, StopSidecars,
                   StopCoordinator, Kill
<1>2. CASE (\E verb \in {"up", "down"}, cfg \in Family : Command(verb, cfg)) \/ Kill
  <2>1. NoWaits /\ phase' \in {"prepare", "refused", "idle"}
    BY <1>2 DEF Command, Kill, Enter, End
  <2>. QED
    BY <1>1, <2>1 DEF NoWaits, WaitInv, WaitTypes, AfterWorkers
<1>3. CASE Prepared \/ NotPrepared \/ StopSidecars \/ StopCoordinator
  <2>1. UNCHANGED waits /\ phase' \in {"keys", "sidecarsDown", "failed", "workersDown", "down", "stillUp"}
        /\ (phase' = "keys" => phase = "prepare")
    BY <1>3 DEF Prepared, NotPrepared, StopSidecars, StopCoordinator, Enter, End
  <2>. QED
    BY <1>1, <2>1 DEF WaitInv, WaitTypes, waits, AfterWorkers, BeforeWorkers
<1>4. CASE NextUpPhase \/ UpDone
  <2>1. /\ UNCHANGED <<zkvm, cmd, cancelled, box, waits>>
        /\ phase \in {"keys", "compile", "coordinator", "workers", "sidecars"}
        /\ phase' \in {"compile", "coordinator", "workers", "sidecars", "ready", "failed"}
        /\ phase' \in BeforeWorkers => phase \in BeforeWorkers
        /\ phase' = "workers" => phase \in BeforeWorkers
        /\ phase' = "sidecars" => phase = "workers" /\ ~cancelled /\ Joined
        /\ phase' = "ready" => phase = "sidecars"
    BY <1>4 DEF NextUpPhase, UpDone, Enter, End, BeforeWorkers
  <2>2. cmd.cfg \in Deployable /\ \A h : WorkersOf(h)' = WorkersOf(h)
    BY <2>1 DEF BoxesInv, Commanded, WorkersOf
  <2>3. WaitTypes' /\ \A h, n : Waited(h, n)' = Waited(h, n)
    BY <1>1, <2>1 DEF WaitInv, WaitTypes, Waited, Placed, waits
  <2>4. CASE phase' \in BeforeWorkers \cup {"failed"}
    BY <1>1, <2>1, <2>3, <2>4 DEF WaitInv, BeforeWorkers, AfterWorkers, waits
  <2>5. CASE phase' = "workers"
    <3>1. /\ pc' = [h \in Hosts |-> IF h \in WorkerHosts(cmd.cfg) THEN "place" ELSE "done"]
          /\ todo' = [h \in Hosts |-> IF h \in WorkerHosts(cmd.cfg) THEN WorkerNames(cmd.cfg, h) ELSE <<>>]
      BY <1>4, <2>5 DEF NextUpPhase, UpDone, Enter, End
    <3>2. ASSUME NEW h \in Hosts, NEW n \in WorkersOf(h)
          PROVE  WorkerWait(h, n)'
      <4>1. h \in WorkerHosts(cmd.cfg) /\ n \in Names
        BY <2>2, WorkerNamesOf, WorkersAreNames DEF WorkersOf
      <4>2. pc'[h] = "place" /\ n \in Range(todo'[h])
        BY <3>1, <4>1 DEF WorkersOf
      <4>3. since'[h][n] = 0 /\ seen'[h][n] = 0
        BY <2>1, <2>5, <4>1 DEF WaitInv, waits
      <4>. QED
        BY <4>2, <4>3 DEF WorkerWait
    <3>. QED
      BY <2>2, <2>3, <2>5, <3>2 DEF WaitInv, BeforeWorkers, AfterWorkers
  <2>6. CASE phase' = "sidecars"
    <3>. DEFINE q == SidecarsOf(cmd.cfg)
    <3>1. q \in Seq(Range(q))
      <4>. DEFINE f == cmd.cfg.sidecars
      <4>1. f \in Seq([ssh : STRING, kind : STRING, nvHostEngine : STRING])
        BY <2>2, DeployableFiles, FileTypes
      <4>2. q \in [DOMAIN f -> Range(q)]
        BY DEF SidecarsOf, Range
      <4>. HIDE DEF q, f
      <4>. QED
        BY <4>1, <4>2, SameLength
    <3>2. todo' = [h \in Hosts |-> IF h \in {cmd.cfg.coordinator.ssh} THEN q ELSE <<>>]
      BY <1>4, <2>6 DEF NextUpPhase, UpDone, Enter, End
    <3>3. todo' \in [Hosts -> Seq(Range(q))]
      <4>. HIDE DEF q
      <4>1. <<>> \in Seq(Range(q))
        OBVIOUS
      <4>. QED
        BY <3>1, <3>2, <4>1
    <3>4. \A h \in Hosts : \A n \in WorkersOf(h) : Waited(h, n) /\ seen[h][n] # 0
      BY <2>1, <2>6 DEF WaitInv, WorkerWait, Joined
    <3>5. q' = q
      BY <2>1 DEF SidecarsOf
    <3>. HIDE DEF q
    <3>6. todo' \in [Hosts -> Seq(Range(SidecarsOf(cmd.cfg)'))]
      BY <3>3, <3>5 DEF q
    <3>. QED
      BY <2>1, <2>2, <2>3, <2>6, <3>4, <3>6 DEF WaitInv, BeforeWorkers, AfterWorkers, waits
  <2>7. CASE phase' = "ready"
    BY <2>1, <2>2, <2>3, <2>7 DEF WaitInv, BeforeWorkers, AfterWorkers, waits
  <2>. QED
    BY <2>1, <2>4, <2>5, <2>6, <2>7 DEF BeforeWorkers
<1>. QED
  BY <1>2, <1>3, <1>4

\* The steps of the other goroutines, which read no log of a worker.
LEMMA OtherWaits ==
    ASSUME WaitInv, BoxesInv, BoxesInv', NEW h \in Hosts,
           \/ GiveUp(h) \/ Probe(h) \/ CreateVolume(h) \/ StartJob(h) \/ JobEnds(h) \/ JobDone(h)
           \/ JobAbandoned(h) \/ CleanUp(h) \/ Verify(h) \/ CompileGuest(h)
           \/ PlaceRefused(h) \/ CoordinatorListens(h) \/ AwaitExited(h)
           \/ ListWorkers(h) \/ StopWorker(h) \/ WorkersStopped(h)
    PROVE  WaitInv'
<1>1. CASE \/ GiveUp(h) \/ JobEnds(h) \/ PlaceRefused(h) \/ AwaitExited(h)
  <2>1. /\ UNCHANGED <<zkvm, cmd, phase, todo, box, waits>> /\ (cancelled => cancelled')
        /\ pc' = pc \/ (cancelled' /\ pc' = [pc EXCEPT ![h] = "done"])
    BY <1>1 DEF GiveUp, JobEnds, PlaceRefused, AwaitExited
  <2>2. \A g \in Hosts, n \in Names : Grows(g, n)
    BY <2>1, SameBoxGrows DEF BoxesInv
  <2>3. phase = "sidecars" => todo' \in [Hosts -> Seq(Range(SidecarsOf(cmd.cfg)))]
    BY <2>1 DEF WaitInv
  <2>. QED
    BY <2>1, <2>2, <2>3, WaitAside
<1>2. CASE \/ Probe(h) \/ CreateVolume(h) \/ StartJob(h) \/ JobDone(h) \/ JobAbandoned(h)
           \/ CleanUp(h) \/ Verify(h) \/ CompileGuest(h) \/ CoordinatorListens(h)
           \/ ListWorkers(h) \/ StopWorker(h) \/ WorkersStopped(h)
  <2>1. /\ UNCHANGED <<zkvm, cmd, phase, waits>>
        /\ phase \in {"keys", "compile", "coordinator", "workersDown"}
    BY <1>2 DEF Probe, CreateVolume, StartJob, JobDone, JobAbandoned, CleanUp, Verify,
                CompileGuest, CoordinatorListens, ListWorkers, StopWorker, WorkersStopped, At
  <2>. QED
    BY <2>1, WaitAside DEF AfterWorkers
<1>. QED
  BY <1>1, <1>2

LEMMA WaitSteps ==
    ASSUME WaitInv, BoxesInv, BoxesInv', [Next]_vars
    PROVE  WaitInv'
<1>1. CASE UNCHANGED vars \/ Interrupt
  <2>1. UNCHANGED <<zkvm, cmd, phase, pc, todo, box, waits>> /\ (cancelled => cancelled')
    BY <1>1 DEF vars, Interrupt, waits
  <2>2. \A g \in Hosts, n \in Names : Grows(g, n)
    BY <2>1, SameBoxGrows DEF BoxesInv
  <2>3. phase = "sidecars" => todo' \in [Hosts -> Seq(Range(SidecarsOf(cmd.cfg)))]
    BY <2>1 DEF WaitInv
  <2>. QED
    BY <2>1, <2>2, <2>3, WaitAside
<1>2. ASSUME NEW h \in Hosts, NEW n \in Names,
             ReadStart(h, n) \/ ReadLog(h, n) \/ Ready(h, n) \/ Crash(h, n) \/ Restart(h, n)
      PROVE  WaitInv'
  BY <1>2, ReadWaits, DaemonWaits
<1>. QED
  BY <1>1, <1>2, PlaceWaits, PlaceFailsWaits, WorkersReadyWaits, SidecarWaits, PhaseWaits,
     OtherWaits DEF Next

\* Up: the keys that the hosts were passed for, the guests that were compiled
\* and the workers that were waited for.
UpInv == SettledInv /\ CompiledInv /\ WaitInv

LEMMA UpInvariance == Spec => [](BoxesInv /\ ZiskKeysInv /\ UpInv)
<1>1. Init => UpInv
  <2>. SUFFICES ASSUME Init PROVE UpInv
    OBVIOUS
  <2>1. phase = "idle"
    BY DEF Init
  <2>2. KeyTypes /\ WaitTypes
    BY DEF Init, KeyTypes, WaitTypes
  <2>. QED
    BY <2>1, <2>2 DEF UpInv, SettledInv, CompiledInv, WaitInv, Deploying, BeforeWorkers, AfterWorkers
<1>2. ASSUME BoxesInv, BoxesInv', ZiskKeysInv, UpInv, [Next]_vars
      PROVE  UpInv'
  BY <1>2, SettledSteps, CompiledSteps, WaitSteps DEF UpInv
<1>. QED
  BY <1>1, <1>2, DownInvariance, Invariance, PTL DEF Spec

\* A cluster that up reports ready holds whole keys on every host it deploys to,
\* but for a host whose key a fault left, has checked every guest's verifying
\* key, and has read of every worker a ready line of the run it found or started
\* or of a later one (cluster/docker.go:376, zisk/deploy.go:45,
\* openvm/deploy.go:57).
THEOREM DeployReadyIsSound == Spec => []ReadyIsSound
<1>1. BoxesInv /\ ZiskKeysInv /\ UpInv => ReadyIsSound
  <2>. SUFFICES ASSUME BoxesInv, ZiskKeysInv, UpInv, phase = "ready"
                PROVE  ReadyIsSound
    BY DEF ReadyIsSound
  <2>1. cmd.cfg \in Deployable /\ KeyHosts(cmd.cfg) \subseteq Hosts /\ WorkerHosts(cmd.cfg) \subseteq Hosts
        /\ zkvm \in {"zisk", "openvm"}
    BY DeployableFiles DEF BoxesInv, Commanded
  <2>2. ASSUME NEW h \in KeyHosts(cmd.cfg), NEW u \in Units
        PROVE  \/ keys[h][u] = "whole"
               \/ zkvm = "zisk" /\ h \in excused
               \/ zkvm = "openvm" /\ u \notin Range(Guests)
    <3>1. h \in Hosts /\ KeySettled(h)
      BY <2>1 DEF UpInv, SettledInv, Deploying
    <3>2. CASE zkvm = "zisk"
      <4>1. u = Key /\ keys[h][Key] \in {"partial", "whole"}
        BY <3>1, <3>2 DEF Units, KeySettled, UpInv, SettledInv, KeyTypes
      <4>. QED
        BY <3>1, <3>2, <4>1 DEF ZiskKeysInv
    <3>3. CASE zkvm = "openvm"
      <4>1. \A i \in DOMAIN Guests : keys[h][Guests[i]] = "whole"
        BY <3>1, <3>3 DEF KeySettled, Verified
      <4>. QED
        BY <3>3, <4>1 DEF Range
    <3>. QED
      BY <2>1, <3>2, <3>3
  <2>3. \A i \in DOMAIN Guests : VKMatches(cmd.cfg, Guests[i])
    BY DEF UpInv, CompiledInv, Deploying, AllMatch
  <2>4. \A h \in WorkerHosts(cmd.cfg) : \A n \in Range(WorkerNames(cmd.cfg, h)) :
           /\ box[h][n] # None
           /\ seen[h][n] \in box[h][n].lines
           /\ seen[h][n] >= base[h][n]
    BY <2>1 DEF UpInv, WaitInv, AfterWorkers, Waited, Placed, WorkersOf
  <2>. QED
    BY <2>2, <2>3, <2>4 DEF ReadyIsSound
<1>. QED
  BY <1>1, UpInvariance, PTL
=============================================================================
