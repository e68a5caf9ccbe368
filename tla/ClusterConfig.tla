--------------------------- MODULE ClusterConfig ---------------------------
(***************************************************************************)
(* A cluster configuration: what the loaders of the two zkVMs accept, and  *)
(* what a deployment derives from it.  A string that the file leaves out   *)
(* is "", a list that it leaves out is <<>>, a number 0.                   *)
(*                                                                         *)
(* A configuration is a record of                                          *)
(*   zkvm, zkvmVersion, image, imageTag : strings                          *)
(*   verbose : integer                                                     *)
(*   guests : sequence of [elf, vk]                                        *)
(*   coordinator : [ssh, ip]                                               *)
(*   workers : sequence of [ssh, ip, gpus], gpus a sequence of device ids  *)
(*   sidecars : sequence of [ssh, kind, nvHostEngine]                      *)
(*   prover : function from the names of the settings to integers          *)
(***************************************************************************)
EXTENDS Integers, Sequences, SequencesExt, FiniteSets

ZiskSettings ==
    {"shm_size_gb", "mpi_np", "mpi_numa_ppr", "mpi_threads", "max_streams",
     "number_threads_witness", "max_witness_stored"}

OpenvmCounts == {"app_provers", "leaf_provers", "internal_provers", "shm_size_gb"}

OpenvmSettings == OpenvmCounts \cup {"segment_memory", "timeout_secs"}

(* Whatever the decoder makes of a file, for the strings a file may hold;  *)
(* the zkVM it names selects the settings.                                 *)
Files(Strings) ==
    {cfg \in [zkvm : Strings, zkvmVersion : Strings, image : Strings, imageTag : Strings,
              verbose : Int,
              guests : Seq([elf : Strings, vk : Strings]),
              coordinator : [ssh : Strings, ip : Strings],
              workers : Seq([ssh : Strings, ip : Strings, gpus : Seq(Int)]),
              sidecars : Seq([ssh : Strings, kind : Strings, nvHostEngine : Strings]),
              prover : [ZiskSettings -> Int] \cup [OpenvmSettings -> Int]] :
        /\ cfg.zkvm = "zisk" => DOMAIN cfg.prover = ZiskSettings
        /\ cfg.zkvm = "openvm" => DOMAIN cfg.prover = OpenvmSettings}

----------------------------------------------------------------------------
(* What every zkVM shares (cluster/config.go).                             *)

SetSharedDefaults(cfg) ==
    LET image == IF cfg.image = "" THEN "ghcr.io/han0110/provoor/" \o cfg.zkvm ELSE cfg.image
        tag == IF cfg.imageTag = "" THEN cfg.zkvmVersion ELSE cfg.imageTag
    IN  [cfg EXCEPT !.image = image, !.imageTag = tag]

ImageRef(cfg) == <<cfg.image, cfg.imageTag>>

SharedValid(cfg, zkvm) ==
    /\ cfg.zkvm = zkvm
    /\ cfg.zkvmVersion # ""
    /\ cfg.verbose \in 0..2
    /\ cfg.guests # <<>>
    /\ \A i \in DOMAIN cfg.guests : cfg.guests[i].elf # "" /\ cfg.guests[i].vk # ""

GPUValid(gpus) ==
    /\ gpus # <<>>
    /\ \A i \in DOMAIN gpus : gpus[i] >= 0
    /\ IsInjective(gpus)

(* The coordinator needs an address once a worker lives on another host.   *)
ValidateColocation(coordinator, worker) ==
    worker.ssh = coordinator.ssh \/ coordinator.ip # ""

SidecarDCGM == "dcgm-exporter"
SidecarNode == "node-exporter"

TelemetryValid(sidecars, destinations) ==
    LET at(i) == [ssh |-> sidecars[i].ssh, kind |-> sidecars[i].kind]
    IN  /\ \A i \in DOMAIN sidecars :
              /\ sidecars[i].kind \in {SidecarDCGM, SidecarNode}
              /\ sidecars[i].nvHostEngine # "" => sidecars[i].kind = SidecarDCGM
              /\ Contains(destinations, sidecars[i].ssh)
        /\ \A i, j \in DOMAIN sidecars : at(i) = at(j) => i = j

(* Every host the deployment dials, the coordinator first.                 *)
Destinations(cfg) ==
    <<cfg.coordinator.ssh>> \o [i \in DOMAIN cfg.workers |-> cfg.workers[i].ssh]

WithDefault(prover, defaults) ==
    [k \in DOMAIN prover |->
        IF prover[k] = 0 /\ k \in DOMAIN defaults THEN defaults[k] ELSE prover[k]]

----------------------------------------------------------------------------
(* ZisK: one worker per host, spanning the GPUs it is given.               *)

ZiskDefaults(cfg) ==
    [SetSharedDefaults(cfg) EXCEPT
        !.prover = WithDefault(@, [shm_size_gb |-> 64, mpi_np |-> 1])]

ZiskValid(cfg) ==
    /\ SharedValid(cfg, "zisk")
    /\ cfg.workers # <<>>
    /\ TelemetryValid(cfg.sidecars, Destinations(cfg))
    /\ IsInjective([i \in DOMAIN cfg.workers |-> cfg.workers[i].ssh])
    /\ \A i \in DOMAIN cfg.workers :
          ValidateColocation(cfg.coordinator, cfg.workers[i]) /\ GPUValid(cfg.workers[i].gpus)
    /\ \A k \in ZiskSettings : cfg.prover[k] >= 0

ComputeUnitsPerGPU == 10

(* The floor the coordinator waits for before it takes a job.              *)
MinComputeUnits(cfg) ==
    LET gpus == FoldLeft(LAMBDA n, w : n + Len(w.gpus), 0, cfg.workers)
    IN  ComputeUnitsPerGPU * gpus

(* What a worker advertises, how its ranks are mapped and where it         *)
(* registers.  Rank mapping reads the topology unless the file sets it.    *)
ZiskWorkerArgs(cfg, worker, numaNodes) ==
    LET MaxOf(a, b) == IF a >= b THEN a ELSE b
        ppr == IF cfg.prover["mpi_numa_ppr"] = 0
               THEN MaxOf(cfg.prover["mpi_np"] \div MaxOf(numaNodes, 1), 1)
               ELSE cfg.prover["mpi_numa_ppr"]
    IN  [ranks |-> cfg.prover["mpi_np"], ranksPerNuma |-> ppr,
         computeCapacity |-> ComputeUnitsPerGPU * Len(worker.gpus)]

WorkerCoordinatorHost(cfg, worker) ==
    IF worker.ssh = cfg.coordinator.ssh THEN "127.0.0.1" ELSE cfg.coordinator.ip

(* hostTopology: the probe only runs when its answer is needed, and a      *)
(* count that cannot be read is one node.                                  *)
HostTopology(cfg, probed) ==
    IF cfg.prover["mpi_numa_ppr"] # 0 \/ cfg.prover["mpi_np"] <= 1 \/ probed <= 1
    THEN 1 ELSE probed

----------------------------------------------------------------------------
(* OpenVM: one worker per GPU, several on a host.                          *)

(* The default segment memory, 15 GiB, is only passed on and left out.     *)
OpenvmDefaults(cfg) ==
    [SetSharedDefaults(cfg) EXCEPT
        !.prover = WithDefault(@, [app_provers |-> 2, leaf_provers |-> 2, internal_provers |-> 1,
                                   shm_size_gb |-> 2, timeout_secs |-> 600])]

DeviceID(worker) == worker.gpus[1]

WorkerPortBase == 8001

(* Where the coordinator dials a worker back.                              *)
WorkerURL(worker) ==
    [host |-> IF worker.ip = "" THEN "127.0.0.1" ELSE worker.ip,
     port |-> WorkerPortBase + DeviceID(worker)]

OpenvmValid(cfg) ==
    LET w == cfg.workers
    IN  /\ SharedValid(cfg, "openvm")
        /\ w # <<>>
        /\ TelemetryValid(cfg.sidecars, Destinations(cfg))
        /\ \A i \in DOMAIN w :
              /\ GPUValid(w[i].gpus)
              /\ Len(w[i].gpus) = 1
              /\ ValidateColocation(cfg.coordinator, w[i])
              /\ w[i].ssh # cfg.coordinator.ssh => w[i].ip # ""
        /\ IsInjective([i \in DOMAIN w |-> <<w[i].ssh, DeviceID(w[i])>>])
        /\ IsInjective([i \in DOMAIN w |-> WorkerURL(w[i])])
        /\ \A k \in OpenvmCounts : cfg.prover[k] >= 1
        /\ \A k \in {"segment_memory", "timeout_secs"} : cfg.prover[k] >= 0

(* The position of a worker in the configuration is its prover id.  The    *)
(* positions on one host, in configuration order (workerHosts).            *)
HostWorkers(cfg, ssh) ==
    LET group == {i \in DOMAIN cfg.workers : cfg.workers[i].ssh = ssh}
    IN  CHOOSE s \in [1..Cardinality(group) -> group] :
            \A p, q \in DOMAIN s : p < q => s[p] < s[q]

(* ConfigAgrees: a share reaches the first CPU of the next.                *)
CpusetOverlapping(position, hostWorkers, hostCPUs) ==
    LET share == hostCPUs \div hostWorkers
        last == IF position = hostWorkers - 1 THEN hostCPUs - 1 ELSE (position + 1) * share
    IN  (position * share)..last

(* The last worker of a host takes the CPUs that do not divide.            *)
CpusetCPUs(position, hostWorkers, hostCPUs) ==
    LET share == hostCPUs \div hostWorkers
        last == IF position = hostWorkers - 1 THEN hostCPUs - 1 ELSE (position + 1) * share - 1
    IN  (position * share)..last

(* A host with fewer CPUs than workers fails the deployment.               *)
CanSplitCPUs(cfg, ssh, hostCPUs) == hostCPUs >= Len(HostWorkers(cfg, ssh))

(* Two guests with one content digest would share a keyset.                *)
ResolvePrograms(cfg) == IsInjective([i \in DOMAIN cfg.guests |-> cfg.guests[i].elf])

----------------------------------------------------------------------------
(* Both.                                                                   *)

WithDefaults(cfg) == IF cfg.zkvm = "zisk" THEN ZiskDefaults(cfg) ELSE OpenvmDefaults(cfg)

(* loadBackend: the zkvm key selects the loader, any other is refused.     *)
Valid(cfg) ==
    \/ cfg.zkvm = "zisk" /\ ZiskValid(ZiskDefaults(cfg))
    \/ cfg.zkvm = "openvm" /\ OpenvmValid(OpenvmDefaults(cfg))

(* One container name per host for ZisK, one per GPU for OpenVM.           *)
WorkerContainer(cfg, worker) ==
    IF cfg.zkvm = "zisk" THEN <<"worker">> ELSE <<"worker", DeviceID(worker)>>

CoordinatorContainer == <<"coordinator">>

SidecarContainer(kind) == <<"sidecar", kind>>

(* Every container the configuration deploys: the coordinator, then the    *)
(* workers, then the sidecars.                                             *)
Containers(cfg) ==
    <<[ssh |-> cfg.coordinator.ssh, name |-> CoordinatorContainer, sidecar |-> FALSE]>>
    \o [i \in DOMAIN cfg.workers |->
          [ssh |-> cfg.workers[i].ssh, name |-> WorkerContainer(cfg, cfg.workers[i]), sidecar |-> FALSE]]
    \o [i \in DOMAIN cfg.sidecars |->
          [ssh |-> cfg.sidecars[i].ssh, name |-> SidecarContainer(cfg.sidecars[i].kind), sidecar |-> TRUE]]

----------------------------------------------------------------------------
(* What the containers are started with: the image, the ports they listen  *)
(* on at their host, the volumes they mount for reading or writing, their  *)
(* devices, and the part of their own configuration that another container *)
(* has to agree with.                                                      *)

ProvingKeyVolume(cfg) == <<"zisk-proving-key", cfg.zkvmVersion>>
CacheVolume(cfg) == <<"zisk-cache", cfg.zkvmVersion>>

ZiskAPIPort == 7000
ZiskHealthPort == 7001
ZiskRestartPort == 7002
ZiskClusterPort == 50051

ZiskCoordinatorSpec(cfg) ==
    [image |-> ImageRef(cfg), ports |-> {ZiskAPIPort, ZiskClusterPort, ZiskRestartPort},
     reads |-> {}, writes |-> {CacheVolume(cfg)}, gpus |-> {}, restarts |-> TRUE,
     minComputeUnits |-> MinComputeUnits(cfg)]

ZiskWorkerSpec(cfg, worker, numaNodes) ==
    [image |-> ImageRef(cfg), ports |-> {ZiskHealthPort}, reads |-> {},
     writes |-> {ProvingKeyVolume(cfg), CacheVolume(cfg)}, gpus |-> Range(worker.gpus),
     restarts |-> TRUE, args |-> ZiskWorkerArgs(cfg, worker, numaNodes),
     registersAt |-> [host |-> WorkerCoordinatorHost(cfg, worker), port |-> ZiskClusterPort]]

(* The one-off jobs of a worker host run on the devices it proves on.      *)
SetupSpec(cfg, worker) ==
    [image |-> ImageRef(cfg), ports |-> {}, reads |-> {}, writes |-> {ProvingKeyVolume(cfg)},
     gpus |-> Range(worker.gpus), restarts |-> FALSE]

ProgramSetupSpec(cfg, worker, guest) ==
    [image |-> ImageRef(cfg), ports |-> {}, reads |-> {},
     writes |-> {ProvingKeyVolume(cfg), CacheVolume(cfg)}, gpus |-> Range(worker.gpus),
     restarts |-> FALSE, elf |-> guest.elf, vk |-> guest.vk]

ArtifactsVolume(cfg) == <<"openvm-artifacts", cfg.zkvmVersion>>
NativeCacheVolume(cfg) == <<"openvm-rvr-cache", cfg.zkvmVersion>>

OpenvmAPIPort == 3000

(* The loadout that the manager and every worker receive.                  *)
EdgePrograms(cfg) == [i \in DOMAIN cfg.guests |-> cfg.guests[i].elf]

ProverLimits(cfg) == [k \in {"app_provers", "leaf_provers", "internal_provers"} |-> cfg.prover[k]]

OpenvmCoordinatorSpec(cfg) ==
    [image |-> ImageRef(cfg), ports |-> {OpenvmAPIPort}, reads |-> {ArtifactsVolume(cfg)},
     writes |-> {}, gpus |-> {}, restarts |-> TRUE, loadout |-> EdgePrograms(cfg),
     manager |-> [numWorkers |-> Len(cfg.workers), limits |-> ProverLimits(cfg),
                  timeoutSecs |-> cfg.prover["timeout_secs"]]]

ManagerURL(cfg, worker) ==
    [host |-> IF worker.ssh = cfg.coordinator.ssh THEN "127.0.0.1" ELSE cfg.coordinator.ip,
     port |-> OpenvmAPIPort]

WorkerTOML(cfg, worker, proverID) ==
    [listens |-> WorkerPortBase + DeviceID(worker), proverID |-> proverID,
     numProvers |-> Len(cfg.workers), workerURL |-> WorkerURL(worker),
     managerURL |-> ManagerURL(cfg, worker), limits |-> ProverLimits(cfg)]

OpenvmWorkerSpec(cfg, worker, proverID, cpus) ==
    [image |-> ImageRef(cfg), ports |-> {WorkerPortBase + DeviceID(worker)},
     reads |-> {ArtifactsVolume(cfg)}, writes |-> {NativeCacheVolume(cfg)},
     gpus |-> {DeviceID(worker)}, cpus |-> cpus, restarts |-> TRUE,
     loadout |-> EdgePrograms(cfg), worker |-> WorkerTOML(cfg, worker, proverID)]

KeygenSpec(cfg, guest) ==
    [image |-> ImageRef(cfg), ports |-> {}, reads |-> {}, writes |-> {ArtifactsVolume(cfg)},
     restarts |-> FALSE, program |-> guest.elf]

DcgmPort == 9401
NodePort == 9402

(* Only a DCGM sidecar with an embedded engine takes GPUs: every one of    *)
(* its host, beside the workers that prove on them.                        *)
SidecarSpec(sidecar) ==
    [ports |-> {IF sidecar.kind = SidecarNode THEN NodePort ELSE DcgmPort},
     allGPUs |-> sidecar.kind = SidecarDCGM /\ sidecar.nvHostEngine = "", restarts |-> TRUE]

----------------------------------------------------------------------------
(* Agreement.  Deployed lists [ssh, name, spec] of what listens or proves. *)

Position(cfg, i) ==
    LET group == HostWorkers(cfg, cfg.workers[i].ssh)
    IN  (CHOOSE p \in DOMAIN group : group[p] = i) - 1

WorkerSpec(cfg, i, cpus, numaNodes) ==
    LET w == cfg.workers[i]
        share == CpusetCPUs(Position(cfg, i), Len(HostWorkers(cfg, w.ssh)), cpus)
    IN  IF cfg.zkvm = "zisk" THEN ZiskWorkerSpec(cfg, w, HostTopology(cfg, numaNodes))
        ELSE OpenvmWorkerSpec(cfg, w, i - 1, share)

CoordinatorSpec(cfg) ==
    IF cfg.zkvm = "zisk" THEN ZiskCoordinatorSpec(cfg) ELSE OpenvmCoordinatorSpec(cfg)

(* Whether an address that a container of host ssh dials leads to a port   *)
(* of another one.                                                         *)
LeadsTo(url, from, ssh, ip, ports) ==
    /\ url.port \in ports
    /\ IF url.host = "127.0.0.1" THEN from = ssh ELSE url.host = ip /\ url.host # ""

(* The addresses at which hosts are to dial each other are not the         *)
(* loopback one, which both loaders accept.                                *)
Addressed(cfg) ==
    \A i \in DOMAIN cfg.workers : cfg.workers[i].ssh # cfg.coordinator.ssh =>
        "127.0.0.1" \notin {cfg.workers[i].ip, cfg.coordinator.ip}

Colocated(cfg, i, j) == i # j /\ cfg.workers[i].ssh = cfg.workers[j].ssh

(* No two containers of a host share a name, and every one is on a host    *)
(* that the deployment dials.                                              *)
ContainersDiffer(cfg) ==
    LET c == Containers(cfg)
    IN  /\ IsInjective([i \in DOMAIN c |-> <<c[i].ssh, c[i].name>>])
        /\ \A i \in DOMAIN c : Contains(Destinations(cfg), c[i].ssh)

(* Nor do they share a port, nor two workers a GPU.  The ports of OpenVM   *)
(* workers grow with their device ids, which no loader bounds: below those *)
(* of the sidecars they stay up to device 1399.                            *)
ResourcesDiffer(cfg, cpus, numaNodes) ==
    LET w == cfg.workers
        s == cfg.sidecars
        spec(i) == WorkerSpec(cfg, i, cpus, numaNodes)
        belowSidecars(i) == cfg.zkvm = "openvm" => DeviceID(w[i]) < DcgmPort - WorkerPortBase
    IN  /\ \A i \in DOMAIN w :
              /\ \A j \in DOMAIN w : Colocated(cfg, i, j) =>
                    spec(i).ports \cap spec(j).ports = {} /\ spec(i).gpus \cap spec(j).gpus = {}
              /\ w[i].ssh = cfg.coordinator.ssh => spec(i).ports \cap CoordinatorSpec(cfg).ports = {}
        /\ \A k \in DOMAIN s :
              /\ \A l \in DOMAIN s : k # l /\ s[k].ssh = s[l].ssh =>
                    SidecarSpec(s[k]).ports \cap SidecarSpec(s[l]).ports = {}
              /\ s[k].ssh = cfg.coordinator.ssh =>
                    SidecarSpec(s[k]).ports \cap CoordinatorSpec(cfg).ports = {}
              /\ \A i \in DOMAIN w : w[i].ssh = s[k].ssh /\ belowSidecars(i) =>
                    SidecarSpec(s[k]).ports \cap spec(i).ports = {}

(* Every worker runs the coordinator's image and reaches its port.         *)
CoordinatorReached(cfg, cpus, numaNodes) ==
    \A i \in DOMAIN cfg.workers :
        LET spec == WorkerSpec(cfg, i, cpus, numaNodes)
            dials == IF cfg.zkvm = "zisk" THEN spec.registersAt ELSE spec.worker.managerURL
        IN  /\ spec.image = CoordinatorSpec(cfg).image
            /\ LeadsTo(dials, cfg.workers[i].ssh, cfg.coordinator.ssh, cfg.coordinator.ip,
                       CoordinatorSpec(cfg).ports)

(* The units that the ZisK coordinator waits for are exactly those that    *)
(* the workers advertise.                                                  *)
UnitsAgree(cfg, cpus, numaNodes) ==
    CoordinatorSpec(cfg).minComputeUnits =
        FoldLeft(LAMBDA n, i : n + WorkerSpec(cfg, i, cpus, numaNodes).args.computeCapacity, 0,
                 [i \in DOMAIN cfg.workers |-> i])

(* The jobs that prepare a ZisK host run on its worker's GPUs and write    *)
(* where the worker or the coordinator keeps its files.                    *)
ZiskAgrees(cfg, cpus, numaNodes) ==
    LET w == cfg.workers
        spec(i) == WorkerSpec(cfg, i, cpus, numaNodes)
    IN  \A i \in DOMAIN w :
            /\ spec(i).args.ranksPerNuma >= 1
            /\ SetupSpec(cfg, w[i]).gpus = spec(i).gpus
            /\ SetupSpec(cfg, w[i]).writes \subseteq spec(i).writes
            /\ \A g \in DOMAIN cfg.guests :
                  ProgramSetupSpec(cfg, w[i], cfg.guests[g]).writes
                      \subseteq spec(i).writes \cup CoordinatorSpec(cfg).writes

(* The OpenVM workers share the loadout and the limits of the manager,     *)
(* which waits for as many of them as there are and reaches each; what     *)
(* they read some key generation has written.                              *)
OpenvmAgrees(cfg, cpus, numaNodes) ==
    LET w == cfg.workers
        spec(i) == WorkerSpec(cfg, i, cpus, numaNodes)
        coordinator == CoordinatorSpec(cfg)
    IN  /\ coordinator.manager.numWorkers = Len(w)
        /\ \A i \in DOMAIN w :
              LET toml == spec(i).worker
              IN  /\ toml.proverID \in 0..(toml.numProvers - 1)
                  /\ toml.numProvers = coordinator.manager.numWorkers
                  /\ toml.limits = coordinator.manager.limits
                  /\ spec(i).loadout = coordinator.loadout
                  /\ LeadsTo(toml.workerURL, cfg.coordinator.ssh, w[i].ssh, w[i].ip, spec(i).ports)
                  /\ spec(i).reads \cup coordinator.reads
                        \subseteq UNION {KeygenSpec(cfg, cfg.guests[g]).writes : g \in DOMAIN cfg.guests}
        /\ \A i, j \in DOMAIN w : i # j => spec(i).worker.proverID # spec(j).worker.proverID

(* Where up can split the CPUs, every worker has some and shares none.     *)
CPUsDiffer(cfg, cpus, numaNodes) ==
    LET spec(i) == WorkerSpec(cfg, i, cpus, numaNodes)
    IN  \A i \in DOMAIN cfg.workers : CanSplitCPUs(cfg, cfg.workers[i].ssh, cpus) =>
            /\ spec(i).cpus # {} /\ spec(i).cpus \subseteq 0..(cpus - 1)
            /\ \A j \in DOMAIN cfg.workers :
                  Colocated(cfg, i, j) => spec(i).cpus \cap spec(j).cpus = {}

(* SpecsAgree: whatever valid file the operator writes, unless it has the  *)
(* hosts dial each other at 127.0.0.1 (Addressed), what it deploys fits    *)
(* together: on one host the names and the ports of all containers differ  *)
(* (short of device 1400), and the GPUs and CPUs of workers; the images,   *)
(* addresses and volumes of the coordinator and its workers match, as do   *)
(* the units the ZisK coordinator waits for, and the loadout, the limits   *)
(* and the identities of the OpenVM workers (zisk/spec.go:42, :100,        *)
(* openvm/spec.go:243, openvm/config.go:113, cluster/sidecar.go:172).      *)
SpecsAgree(file, cpus, numaNodes) ==
    Valid(file) /\ Addressed(file) =>
        LET cfg == WithDefaults(file)
        IN  /\ ContainersDiffer(cfg)
            /\ ResourcesDiffer(cfg, cpus, numaNodes)
            /\ CoordinatorReached(cfg, cpus, numaNodes)
            /\ cfg.zkvm = "zisk" => UnitsAgree(cfg, cpus, numaNodes) /\ ZiskAgrees(cfg, cpus, numaNodes)
            /\ cfg.zkvm = "openvm" => OpenvmAgrees(cfg, cpus, numaNodes) /\ CPUsDiffer(cfg, cpus, numaNodes)
=============================================================================
