------------------------ MODULE ClusterConfigProofs ------------------------
(***************************************************************************)
(* Proofs about ClusterConfig: the workers of a host, their CPUs, and the  *)
(* agreement of what a valid file deploys, for every file.                 *)
(*                                                                         *)
(* The lemmas about sets of naturals, folds, sorts and sequences that they *)
(* and the proofs about the other pure parts rest on come first.           *)
(***************************************************************************)
EXTENDS ClusterConfig, FiniteSetTheorems, SequenceTheorems, WellFoundedInduction, TLAPS

----------------------------------------------------------------------------
(* Natural numbers, as sets: what the induction over them comes to.        *)

\* Every set of naturals has a least element, and one with 0 that is closed
\* under successors is all of them.
LEMMA LeastElement ==
    ASSUME NEW S \in SUBSET Nat, S # {}
    PROVE  \E x \in S : \A y \in S : x <= y
<1>1. PICK x \in S : \A y \in S : <<y, x>> \notin OpToRel(<, Nat)
  BY NatLessThanWellFounded, WFMin
<1>2. \A y \in S : ~(y < x)
  BY <1>1 DEF OpToRel
<1>. QED
  BY <1>2

LEMMA SetInduction ==
    ASSUME NEW S \in SUBSET Nat, 0 \in S, \A n \in S : n + 1 \in S
    PROVE  S = Nat
<1>1. SUFFICES ASSUME Nat \ S # {} PROVE FALSE
  OBVIOUS
<1>2. PICK x \in Nat \ S : \A y \in Nat \ S : x <= y
  BY <1>1, LeastElement
<1>3. x \in Nat /\ x # 0
  BY <1>2
<1>4. x - 1 \in Nat /\ ~(x <= x - 1) /\ (x - 1) + 1 = x
  BY <1>3
<1>. QED
  BY <1>2, <1>4

\* A finite set of numbers can be listed in increasing order.
LEMMA Enumeration ==
    ASSUME NEW S \in SUBSET Nat, IsFiniteSet(S)
    PROVE  \E s \in [1..Cardinality(S) -> S] : \A p, q \in DOMAIN s : p < q => s[p] < s[q]
<1>. DEFINE Listed(U, n) == \E s \in [1..n -> U] : \A p, q \in 1..n : p < q => s[p] < s[q]
            T == {n \in Nat : \A U \in SUBSET Nat :
                                 IsFiniteSet(U) /\ Cardinality(U) = n => Listed(U, n)}
<1>1. 0 \in T
  <2>1. SUFFICES ASSUME NEW U \in SUBSET Nat, IsFiniteSet(U), Cardinality(U) = 0
                 PROVE  Listed(U, 0)
    OBVIOUS
  <2>2. 1..0 = {}
    OBVIOUS
  <2>3. [i \in {} |-> 0] \in [{} -> U]
    OBVIOUS
  <2>. QED
    BY <2>2, <2>3
<1>2. ASSUME NEW n \in T
      PROVE  n + 1 \in T
  <2>1. SUFFICES ASSUME NEW U \in SUBSET Nat, IsFiniteSet(U), Cardinality(U) = n + 1
                 PROVE  Listed(U, n + 1)
    BY <1>2
  <2>2. U # {}
    BY <2>1, FS_EmptySet
  <2>3. PICK x \in U : \A y \in U : x <= y
    BY <2>2, LeastElement
  <2>. DEFINE V == U \ {x}
  <2>4. IsFiniteSet(V) /\ Cardinality(V) = n
    <3>1. IsFiniteSet(V) /\ Cardinality(V) = Cardinality(U) - 1
      BY <2>1, <2>3, FS_RemoveElement
    <3>2. n \in Nat
      OBVIOUS
    <3>. QED
      BY <2>1, <3>1, <3>2
  <2>5. PICK s \in [1..n -> V] : \A p, q \in 1..n : p < q => s[p] < s[q]
    BY <1>2, <2>4
  <2>. DEFINE t == [p \in 1..(n + 1) |-> IF p = 1 THEN x ELSE s[p - 1]]
  <2>6. n \in Nat /\ \A p \in 1..(n + 1) : p # 1 => p - 1 \in 1..n
    OBVIOUS
  <2>7. t \in [1..(n + 1) -> U]
    BY <2>5, <2>6
  <2>8. ASSUME NEW p \in 1..(n + 1), NEW q \in 1..(n + 1), p < q
        PROVE  t[p] < t[q]
    <3>1. q # 1 /\ q - 1 \in 1..n /\ t[q] = s[q - 1] /\ t[q] \in V
      BY <2>5, <2>6, <2>8
    <3>2. CASE p = 1
      <4>1. t[p] = x /\ x \in Nat /\ t[q] \in Nat /\ t[q] # x /\ x <= t[q]
        BY <2>3, <3>1, <3>2
      <4>. QED
        BY <4>1
    <3>3. CASE p # 1
      <4>1. p - 1 \in 1..n /\ p - 1 < q - 1 /\ t[p] = s[p - 1]
        BY <2>6, <2>8, <3>3
      <4>. QED
        BY <2>5, <3>1, <4>1
    <3>. QED
      BY <3>2, <3>3
  <2>. QED
    BY <2>1, <2>7, <2>8
<1>3. T = Nat
  <2>. HIDE DEF T
  <2>1. T \in SUBSET Nat
    BY DEF T
  <2>. QED
    BY <1>1, <1>2, <2>1, SetInduction
<1>4. Cardinality(S) \in T
  BY <1>3, FS_CardinalityType
<1>5. Listed(S, Cardinality(S))
  BY <1>4
<1>6. PICK s \in [1..Cardinality(S) -> S] :
         \A p, q \in 1..Cardinality(S) : p < q => s[p] < s[q]
  BY <1>5
<1>. QED
  BY <1>6

\* SetToSeq lists every element.
LEMMA SetListed ==
    ASSUME NEW S, IsFiniteSet(S)
    PROVE  SetToSeq(S) \in Seq(S) /\ Range(SetToSeq(S)) = S
<1>. DEFINE D == 1..Cardinality(S)
<1>1. Cardinality(S) \in Nat /\ ExistsBijection(D, S)
  BY FS_CardinalityType
<1>2. PICK f \in [D -> S] : IsInjective(f)
  BY <1>1 DEF ExistsBijection, Bijection, Injection, IsInjective
<1>3. SetToSeq(S) \in [D -> S] /\ IsInjective(SetToSeq(S))
  BY <1>2 DEF SetToSeq
<1>4. SetToSeq(S) \in Injection(D, S)
  BY <1>3 DEF Injection, IsInjective
<1>5. Cardinality(D) = Cardinality(S)
  BY <1>1, FS_Interval
<1>6. SetToSeq(S) \in Surjection(D, S)
  BY <1>4, <1>5, FS_Injection
<1>7. \A x \in S : \E i \in D : SetToSeq(S)[i] = x
  BY <1>6 DEF Surjection
<1>8. DOMAIN SetToSeq(S) = D
  BY <1>3
<1>9. Range(SetToSeq(S)) = S
  BY <1>3, <1>7, <1>8 DEF Range
<1>. QED
  BY <1>1, <1>3, <1>9

\* The head and the tail of a list of work.
LEMMA TailRange ==
    ASSUME NEW S, NEW s \in Seq(S), s # <<>>
    PROVE  /\ s[1] \in S /\ Tail(s) \in Seq(S)
           /\ Range(s) = {s[1]} \cup Range(Tail(s))
           /\ IF Len(s) > 1 THEN Tail(s) # <<>> ELSE Tail(s) = <<>>
<1>1. /\ DOMAIN s = 1..Len(s) /\ Len(s) \in Nat /\ Len(s) # 0
      /\ Tail(s) \in Seq(S) /\ Len(Tail(s)) = Len(s) - 1
      /\ \A i \in 1..(Len(s) - 1) : Tail(s)[i] = s[i + 1]
  OBVIOUS
<1>2. DOMAIN Tail(s) = 1..(Len(s) - 1)
  BY <1>1
<1>3. 1 \in DOMAIN s /\ \A i \in DOMAIN s : i # 1 => i - 1 \in DOMAIN Tail(s) /\ Tail(s)[i - 1] = s[i]
  BY <1>1, <1>2
<1>4. \A i \in DOMAIN Tail(s) : i + 1 \in DOMAIN s /\ Tail(s)[i] = s[i + 1]
  BY <1>1, <1>2
<1>5. Range(s) = {s[1]} \cup Range(Tail(s))
  <2>1. \A x \in Range(s) : x = s[1] \/ x \in Range(Tail(s))
    BY <1>3 DEF Range
  <2>2. \A x \in Range(Tail(s)) : x \in Range(s)
    BY <1>4 DEF Range
  <2>3. s[1] \in Range(s)
    BY <1>3 DEF Range
  <2>. QED
    BY <2>1, <2>2, <2>3
<1>6. IF Len(s) > 1 THEN Tail(s) # <<>> ELSE Tail(s) = <<>>
  <2>1. Len(s) > 1 => Len(Tail(s)) # 0
    BY <1>1
  <2>2. Len(s) <= 1 => Tail(s) = <<>>
    BY <1>1
  <2>3. Len(<<>>) = 0 /\ (Len(s) > 1 \/ Len(s) <= 1) /\ ~(Len(s) > 1 /\ Len(s) <= 1)
    BY <1>1
  <2>. QED
    BY <2>1, <2>2, <2>3
<1>. QED
  BY <1>1, <1>3, <1>5, <1>6

LEMMA EmptyRange == Range(<<>>) = {}
BY DEF Range

LEMMA SingletonRange ==
    ASSUME NEW x
    PROVE  Range(<<x>>) = {x}
BY DEF Range

LEMMA SingletonAt ==
    ASSUME NEW U, NEW x \in U
    PROVE  <<x>> \in Seq(U) /\ Len(<<x>>) = 1 /\ <<x>>[1] = x
OBVIOUS

\* What is computed from every element of a sequence is a sequence.
LEMMA SameLength ==
    ASSUME NEW U, NEW s \in Seq(U), NEW V, NEW f \in [DOMAIN s -> V]
    PROVE  f \in Seq(V) /\ Len(f) = Len(s) /\ DOMAIN f = DOMAIN s
<1>1. DOMAIN s = 1..Len(s) /\ Len(s) \in Nat
  OBVIOUS
<1>2. f \in [1..Len(s) -> V]
  BY <1>1
<1>. QED
  BY <1>1, <1>2

\* A concatenation holds what its parts hold.
LEMMA RangeOfConcat ==
    ASSUME NEW U, NEW s \in Seq(U), NEW t \in Seq(U)
    PROVE  s \o t \in Seq(U) /\ Range(s \o t) = Range(s) \cup Range(t)
<1>1. /\ DOMAIN (s \o t) = 1..(Len(s) + Len(t)) /\ DOMAIN s = 1..Len(s) /\ DOMAIN t = 1..Len(t)
      /\ Len(s) \in Nat /\ Len(t) \in Nat
  OBVIOUS
<1>2. \A i \in 1..(Len(s) + Len(t)) : (s \o t)[i] = IF i <= Len(s) THEN s[i] ELSE t[i - Len(s)]
  OBVIOUS
<1>3. \A i \in 1..(Len(s) + Len(t)) : IF i <= Len(s) THEN i \in DOMAIN s ELSE i - Len(s) \in DOMAIN t
  BY <1>1
<1>4. \A i \in DOMAIN s : i \in 1..(Len(s) + Len(t)) /\ (s \o t)[i] = s[i]
  BY <1>1, <1>2
<1>5. \A i \in DOMAIN t : i + Len(s) \in 1..(Len(s) + Len(t)) /\ (s \o t)[i + Len(s)] = t[i]
  BY <1>1, <1>2
<1>6. \A x \in Range(s \o t) : x \in Range(s) \cup Range(t)
  BY <1>1, <1>2, <1>3 DEF Range
<1>7. \A x \in Range(s) \cup Range(t) : x \in Range(s \o t)
  BY <1>1, <1>4, <1>5 DEF Range
<1>. QED
  BY <1>6, <1>7

----------------------------------------------------------------------------
(* The workers of a host.                                                  *)

OnHost(cfg, ssh) == {i \in DOMAIN cfg.workers : cfg.workers[i].ssh = ssh}

\* HostWorkers lists the positions of the workers on a host in order, each
\* once (openvm/deploy.go, workerHosts).
LEMMA HostWorkersListed ==
    ASSUME NEW cfg, NEW S, cfg.workers \in Seq(S), NEW ssh
    PROVE  /\ HostWorkers(cfg, ssh) \in Seq(OnHost(cfg, ssh))
           /\ IsFiniteSet(OnHost(cfg, ssh))
           /\ Len(HostWorkers(cfg, ssh)) = Cardinality(OnHost(cfg, ssh))
           /\ IsInjective(HostWorkers(cfg, ssh))
           /\ Range(HostWorkers(cfg, ssh)) = OnHost(cfg, ssh)
<1>. DEFINE G == OnHost(cfg, ssh)
            D == 1..Cardinality(G)
            s == HostWorkers(cfg, ssh)
<1>1. DOMAIN cfg.workers = 1..Len(cfg.workers) /\ Len(cfg.workers) \in Nat
  OBVIOUS
<1>2. IsFiniteSet(1..Len(cfg.workers))
  BY <1>1, FS_Interval
<1>3. G \in SUBSET (1..Len(cfg.workers)) /\ G \in SUBSET Nat
  BY <1>1 DEF OnHost
<1>4. IsFiniteSet(G) /\ Cardinality(G) \in Nat
  BY <1>2, <1>3, FS_Subset, FS_CardinalityType
<1>5. s \in [D -> G] /\ \A p, q \in DOMAIN s : p < q => s[p] < s[q]
  <2>1. \E f \in [D -> G] : \A p, q \in DOMAIN f : p < q => f[p] < f[q]
    BY <1>3, <1>4, Enumeration
  <2>2. s = CHOOSE f \in [D -> G] : \A p, q \in DOMAIN f : p < q => f[p] < f[q]
    BY DEF HostWorkers, OnHost
  <2>. HIDE DEF D, G, s
  <2>. QED
    BY <2>1, <2>2
<1>. HIDE DEF G, s
<1>6. IsInjective(s)
  <2>1. \A p \in D : s[p] \in Nat
    BY <1>3, <1>5
  <2>2. \A p, q \in D : p < q \/ q < p \/ p = q
    BY <1>4
  <2>. QED
    BY <1>5, <2>1, <2>2 DEF IsInjective
<1>7. s \in Injection(D, G)
  BY <1>5, <1>6 DEF Injection, IsInjective
<1>8. Cardinality(D) = Cardinality(G)
  BY <1>4, FS_Interval
<1>9. s \in Surjection(D, G)
  BY <1>4, <1>7, <1>8, FS_Injection
<1>10. Range(s) = G
  <2>1. \A x \in G : \E p \in D : s[p] = x
    BY <1>9 DEF Surjection
  <2>2. DOMAIN s = D
    BY <1>5
  <2>. QED
    BY <1>5, <2>1, <2>2 DEF Range
<1>11. s \in Seq(G) /\ Len(s) = Cardinality(G)
  BY <1>4, <1>5
<1>. QED
  BY <1>4, <1>6, <1>10, <1>11 DEF G, s

----------------------------------------------------------------------------
(* Files and the containers that they deploy.                              *)

\* The types of a file that the decoder passes on.
LEMMA FileTypes ==
    ASSUME NEW T, NEW cfg \in Files(T)
    PROVE  /\ cfg.zkvm \in T /\ cfg.image \in T /\ cfg.imageTag \in T
           /\ cfg.guests \in Seq([elf : T, vk : T])
           /\ cfg.coordinator \in [ssh : T, ip : T]
           /\ cfg.workers \in Seq([ssh : T, ip : T, gpus : Seq(Int)])
           /\ cfg.sidecars \in Seq([ssh : T, kind : T, nvHostEngine : T])
           /\ cfg.zkvm = "zisk" => cfg.prover \in [ZiskSettings -> Int]
           /\ cfg.zkvm = "openvm" => cfg.prover \in [OpenvmSettings -> Int]
BY DEF Files

\* What the loaders leave as the file has it.
Kept(cfg, d) ==
    /\ d.zkvm = cfg.zkvm /\ d.zkvmVersion = cfg.zkvmVersion /\ d.verbose = cfg.verbose
    /\ d.guests = cfg.guests /\ d.coordinator = cfg.coordinator
    /\ d.workers = cfg.workers /\ d.sidecars = cfg.sidecars

\* The defaults fill in the image and the settings, and nothing else.
LEMMA DefaultsKeep ==
    ASSUME NEW T, NEW cfg \in Files(T)
    PROVE  /\ Kept(cfg, ZiskDefaults(cfg)) /\ Kept(cfg, OpenvmDefaults(cfg))
           /\ ZiskDefaults(cfg).prover =
                 WithDefault(cfg.prover, [shm_size_gb |-> 64, mpi_np |-> 1])
BY DEF Kept, Files, ZiskDefaults, OpenvmDefaults, SetSharedDefaults

\* What both loaders ask of a file.
LEMMA ValidFiles ==
    ASSUME NEW T, NEW cfg \in Files(T), Valid(cfg)
    PROVE  /\ cfg.zkvm \in {"zisk", "openvm"}
           /\ cfg.guests # <<>> /\ cfg.workers # <<>>
<1>1. CASE cfg.zkvm = "zisk" /\ ZiskValid(ZiskDefaults(cfg))
  <2>1. Kept(cfg, ZiskDefaults(cfg))
    BY DefaultsKeep
  <2>. QED
    BY <1>1, <2>1 DEF Kept, ZiskValid, SharedValid
<1>2. CASE cfg.zkvm = "openvm" /\ OpenvmValid(OpenvmDefaults(cfg))
  <2>1. Kept(cfg, OpenvmDefaults(cfg))
    BY DefaultsKeep
  <2>. QED
    BY <1>2, <2>1 DEF Kept, OpenvmValid, SharedValid
<1>. QED
  BY <1>1, <1>2 DEF Valid

\* The hosts that a deployment dials.
LEMMA DestinationHosts ==
    ASSUME NEW T, NEW cfg \in Files(T)
    PROVE  Range(Destinations(cfg)) =
             {cfg.coordinator.ssh} \cup {cfg.workers[i].ssh : i \in DOMAIN cfg.workers}
<1>. DEFINE w == [i \in DOMAIN cfg.workers |-> cfg.workers[i].ssh]
            d == Destinations(cfg)
            V == {cfg.workers[i].ssh : i \in DOMAIN cfg.workers}
<1>1. cfg.workers \in Seq([ssh : T, ip : T, gpus : Seq(Int)])
  BY FileTypes
<1>2. w \in Seq(V) /\ Len(w) = Len(cfg.workers) /\ DOMAIN w = DOMAIN cfg.workers
  <2>1. w \in [DOMAIN cfg.workers -> V]
    OBVIOUS
  <2>. HIDE DEF w, V
  <2>. QED
    BY <1>1, <2>1, SameLength
<1>3. d = <<cfg.coordinator.ssh>> \o w
  BY DEF Destinations
<1>4. /\ DOMAIN d = 1..(Len(w) + 1) /\ d[1] = cfg.coordinator.ssh
      /\ \A i \in 1..Len(w) : d[i + 1] = w[i]
  <2>. HIDE DEF w
  <2>. QED
    BY <1>1, <1>2, <1>3
<1>5. \A i \in 1..(Len(w) + 1) : i # 1 => i - 1 \in 1..Len(w) /\ d[i] = w[i - 1]
  <2>. HIDE DEF w, d
  <2>1. \A i \in 1..(Len(w) + 1) : i # 1 => i - 1 \in 1..Len(w) /\ (i - 1) + 1 = i
    BY <1>2
  <2>. QED
    BY <1>4, <2>1
<1>6. DOMAIN w = 1..Len(w) /\ \A i \in DOMAIN w : w[i] = cfg.workers[i].ssh /\ i + 1 \in 1..(Len(w) + 1)
  BY <1>2
<1>. HIDE DEF w, d, V
<1>7. {d[i] : i \in DOMAIN d} = {cfg.coordinator.ssh} \cup {w[i] : i \in DOMAIN w}
  <2>1. \A i \in DOMAIN d : d[i] = cfg.coordinator.ssh \/ \E k \in DOMAIN w : d[i] = w[k]
    BY <1>4, <1>5, <1>6
  <2>2. \A k \in DOMAIN w : k + 1 \in DOMAIN d /\ d[k + 1] = w[k]
    BY <1>4, <1>6
  <2>3. 1 \in DOMAIN d
    BY <1>2, <1>4
  <2>. QED
    BY <1>4, <2>1, <2>2, <2>3
<1>8. {w[i] : i \in DOMAIN w} = {cfg.workers[i].ssh : i \in DOMAIN cfg.workers}
  BY <1>2, <1>6
<1>9. Range(d) = {d[i] : i \in DOMAIN d}
  BY DEF Range
<1>. QED
  BY <1>7, <1>8, <1>9 DEF d

\* The names that a configuration deploys.
LEMMA ContainersOf ==
    ASSUME NEW T, NEW cfg \in Files(T)
    PROVE  {d.name : d \in Range(Containers(cfg))} =
             {CoordinatorContainer}
             \cup {WorkerContainer(cfg, cfg.workers[i]) : i \in DOMAIN cfg.workers}
             \cup {SidecarContainer(cfg.sidecars[i].kind) : i \in DOMAIN cfg.sidecars}
<1>. DEFINE c == <<[ssh |-> cfg.coordinator.ssh, name |-> CoordinatorContainer, sidecar |-> FALSE]>>
            w == [i \in DOMAIN cfg.workers |->
                    [ssh |-> cfg.workers[i].ssh, name |-> WorkerContainer(cfg, cfg.workers[i]), sidecar |-> FALSE]]
            s == [i \in DOMAIN cfg.sidecars |->
                    [ssh |-> cfg.sidecars[i].ssh, name |-> SidecarContainer(cfg.sidecars[i].kind), sidecar |-> TRUE]]
            U == {c[1]} \cup {w[i] : i \in DOMAIN cfg.workers} \cup {s[i] : i \in DOMAIN cfg.sidecars}
<1>1. c \in Seq(U) /\ w \in Seq(U) /\ s \in Seq(U)
  <2>1. w \in [DOMAIN cfg.workers -> U] /\ s \in [DOMAIN cfg.sidecars -> U]
    OBVIOUS
  <2>2. c[1] \in U /\ c = <<c[1]>>
    OBVIOUS
  <2>. HIDE DEF c, w, s, U
  <2>3. c \in Seq(U)
    BY <2>2, SingletonAt
  <2>. QED
    BY <2>1, <2>3, FileTypes, SameLength
<1>2. Containers(cfg) = c \o w \o s
  BY DEF Containers
<1>3. Range(c \o w \o s) = Range(c) \cup Range(w) \cup Range(s)
  <2>. HIDE DEF c, w, s, U
  <2>1. c \o w \in Seq(U) /\ Range(c \o w) = Range(c) \cup Range(w)
    BY <1>1, RangeOfConcat
  <2>. DEFINE cw == c \o w
  <2>2. Range(cw \o s) = Range(cw) \cup Range(s)
    <3>1. cw \in Seq(U)
      BY <2>1
    <3>. HIDE DEF cw
    <3>. QED
      BY <1>1, <3>1, RangeOfConcat
  <2>. QED
    BY <2>1, <2>2
<1>4. /\ {d.name : d \in Range(c)} = {CoordinatorContainer}
      /\ {d.name : d \in Range(w)} = {w[i].name : i \in DOMAIN w}
      /\ {d.name : d \in Range(s)} = {s[i].name : i \in DOMAIN s}
  <2>1. DOMAIN c = {1} /\ c[1].name = CoordinatorContainer
    OBVIOUS
  <2>. HIDE DEF c, w, s
  <2>. QED
    BY <2>1 DEF Range
<1>5. /\ {w[i].name : i \in DOMAIN w} = {WorkerContainer(cfg, cfg.workers[i]) : i \in DOMAIN cfg.workers}
      /\ {s[i].name : i \in DOMAIN s} = {SidecarContainer(cfg.sidecars[i].kind) : i \in DOMAIN cfg.sidecars}
  OBVIOUS
<1>. HIDE DEF c, w, s
<1>. QED
  BY <1>2, <1>3, <1>4, <1>5

----------------------------------------------------------------------------
(* Folds.  FoldLeft recurses over the subsets of the domain, the largest   *)
(* position last; what it computes exists by induction over their bound.   *)

\* A nonempty set of positions has a largest one, its Max.
LEMMA LargestPosition ==
    ASSUME NEW n \in Nat, NEW s \in SUBSET (1..n), s # {}
    PROVE  Max(s) \in s /\ \A y \in s : Max(s) >= y
<1>. DEFINE S == {n - x : x \in s}
<1>1. S \in SUBSET Nat /\ S # {}
  <2>1. \A x \in 1..n : n - x \in Nat
    OBVIOUS
  <2>. QED
    BY <2>1
<1>2. PICK m \in S : \A y \in S : m <= y
  <2>. HIDE DEF S
  <2>. QED
    BY <1>1, LeastElement
<1>3. PICK x \in s : m = n - x
  BY <1>2
<1>4. \A y \in s : x >= y
  <2>1. \A y \in s : n - y \in S /\ n - x <= n - y
    BY <1>2, <1>3
  <2>. QED
    BY <2>1
<1>. QED
  BY <1>4 DEF Max

\* The function that a fold over n positions computes, from b by F, a set of
\* positions at a time.
Folds(g, n, b, F) ==
    g = [s \in SUBSET (1..n) |-> IF s = {} THEN b ELSE F[<<g[s \ {Max(s)}], Max(s)>>]]

\* There is such a function, so FoldLeft's CHOOSE finds one.
LEMMA FoldExists ==
    ASSUME NEW A, NEW b \in A, NEW n \in Nat, NEW F \in [A \X (1..n) -> A]
    PROVE  \E g \in [SUBSET (1..n) -> A] : Folds(g, n, b, F)
<1>. DEFINE Good(g, k) == \A s \in SUBSET (1..k) :
                             g[s] = IF s = {} THEN b ELSE F[<<g[s \ {Max(s)}], Max(s)>>]
            Sought(k) == \E g \in [SUBSET (1..k) -> A] : Good(g, k)
            T == {k \in Nat : k <= n => Sought(k)}
<1>1. 0 \in T
  <2>. DEFINE g == [s \in SUBSET (1..0) |-> b]
  <2>1. g \in [SUBSET (1..0) -> A] /\ \A s \in SUBSET (1..0) : s = {}
    OBVIOUS
  <2>2. Good(g, 0)
    BY <2>1
  <2>3. Sought(0)
    <3>. HIDE DEF Good, g
    <3>. QED
      BY <2>1, <2>2
  <2>. HIDE DEF Sought
  <2>. QED
    BY <2>3
<1>2. ASSUME NEW k \in T
      PROVE  k + 1 \in T
  <2>. SUFFICES ASSUME k + 1 <= n
                PROVE  Sought(k + 1)
    <3>. HIDE DEF Sought
    <3>. QED
      BY <1>2
  <2>1. k \in Nat /\ k <= n /\ k + 1 \in Nat
    OBVIOUS
  <2>2. PICK g \in [SUBSET (1..k) -> A] : Good(g, k)
    <3>1. Sought(k)
      <4>. HIDE DEF Sought
      <4>. QED
        BY <2>1
    <3>. QED
      BY <3>1
  <2>. DEFINE h == [s \in SUBSET (1..(k + 1)) |->
                       IF k + 1 \in s THEN F[<<g[s \ {k + 1}], k + 1>>] ELSE g[s]]
  <2>3. ASSUME NEW s \in SUBSET (1..(k + 1)), k + 1 \in s
        PROVE  /\ Max(s) = k + 1 /\ s \ {k + 1} \in SUBSET (1..k)
               /\ h[s] = F[<<g[s \ {k + 1}], k + 1>>] /\ h[s \ {k + 1}] = g[s \ {k + 1}]
    <3>1. Max(s) \in s /\ Max(s) >= k + 1
      <4>. DEFINE m == k + 1
      <4>1. m \in Nat /\ s \in SUBSET (1..m) /\ m \in s
        BY <2>1, <2>3
      <4>. HIDE DEF m
      <4>2. Max(s) \in s /\ Max(s) >= m
        BY <4>1, LargestPosition
      <4>. QED
        BY <4>2 DEF m
    <3>2. \A x \in 1..(k + 1) : x >= k + 1 => x = k + 1
      BY <2>1
    <3>3. Max(s) = k + 1
      BY <3>1, <3>2
    <3>4. s \ {k + 1} \in SUBSET (1..k)
      BY <2>1
    <3>. QED
      BY <2>3, <3>3, <3>4
  <2>4. ASSUME NEW s \in SUBSET (1..(k + 1)), k + 1 \notin s
        PROVE  s \in SUBSET (1..k) /\ h[s] = g[s]
    BY <2>1, <2>4
  <2>5. h \in [SUBSET (1..(k + 1)) -> A]
    <3>1. ASSUME NEW s \in SUBSET (1..(k + 1)), k + 1 \in s
          PROVE  h[s] \in A
      <4>1. g[s \ {k + 1}] \in A
        BY <2>3, <3>1
      <4>2. k + 1 \in 1..n
        BY <2>1
      <4>. QED
        BY <2>3, <3>1, <4>1, <4>2
    <3>2. ASSUME NEW s \in SUBSET (1..(k + 1)), k + 1 \notin s
          PROVE  h[s] \in A
      BY <2>4, <3>2
    <3>. QED
      BY <3>1, <3>2
  <2>6. Good(h, k + 1)
    <3>1. ASSUME NEW s \in SUBSET (1..(k + 1)), k + 1 \in s
          PROVE  h[s] = IF s = {} THEN b ELSE F[<<h[s \ {Max(s)}], Max(s)>>]
      BY <2>3, <3>1
    <3>2. ASSUME NEW s \in SUBSET (1..(k + 1)), k + 1 \notin s
          PROVE  h[s] = IF s = {} THEN b ELSE F[<<h[s \ {Max(s)}], Max(s)>>]
      <4>1. s \in SUBSET (1..k) /\ h[s] = g[s]
        BY <2>4, <3>2
      <4>2. s \ {Max(s)} \in SUBSET (1..(k + 1)) /\ k + 1 \notin s \ {Max(s)}
        BY <3>2
      <4>3. h[s \ {Max(s)}] = g[s \ {Max(s)}]
        BY <2>4, <4>2
      <4>4. g[s] = IF s = {} THEN b ELSE F[<<g[s \ {Max(s)}], Max(s)>>]
        BY <2>2, <4>1
      <4>. QED
        BY <4>1, <4>3, <4>4
    <3>. HIDE DEF h
    <3>. QED
      BY <3>1, <3>2
  <2>. HIDE DEF Good, h
  <2>. QED
    BY <2>5, <2>6
<1>3. T = Nat
  <2>. HIDE DEF T
  <2>1. T \in SUBSET Nat
    BY DEF T
  <2>. QED
    BY <1>1, <1>2, <2>1, SetInduction
<1>4. PICK g \in [SUBSET (1..n) -> A] : Good(g, n)
  <2>1. Sought(n)
    <3>1. n \in T
      BY <1>3
    <3>. HIDE DEF Sought
    <3>. QED
      BY <3>1
  <2>. QED
    BY <2>1
<1>5. Folds(g, n, b, F)
  BY <1>4 DEF Folds
<1>. QED
  BY <1>5

\* The last of the first k + 1 positions.
LEMMA IntervalTop ==
    ASSUME NEW n \in Nat, NEW k \in 0..(n - 1)
    PROVE  LET s == 1..(k + 1)
           IN  s \in SUBSET (1..n) /\ s # {} /\ Max(s) = k + 1 /\ s \ {Max(s)} = 1..k
<1>. DEFINE s == 1..(k + 1)
<1>1. k + 1 \in Nat /\ s \in SUBSET (1..n) /\ k + 1 \in s /\ s \in SUBSET (1..(k + 1)) /\ s \ {k + 1} = 1..k
  OBVIOUS
<1>2. Max(s) \in s /\ Max(s) >= k + 1
  <2>. HIDE DEF s
  <2>. QED
    BY <1>1, LargestPosition
<1>3. Max(s) = k + 1
  BY <1>1, <1>2
<1>. HIDE DEF s
<1>4. s # {} /\ s \in SUBSET (1..n) /\ Max(s) = k + 1 /\ s \ {Max(s)} = 1..k
  BY <1>1, <1>3
<1>. QED
  BY <1>4 DEF s

\* The sum over n positions, as a fold computes it.
Sums(h, n, c) ==
    h = [s \in SUBSET (1..n) |-> IF s = {} THEN 0 ELSE h[s \ {Max(s)}] + c[Max(s)]]

\* The function that computes a sum exists.
LEMMA SumExists ==
    ASSUME NEW n \in Nat, NEW c \in [1..n -> Nat]
    PROVE  \E h : Sums(h, n, c)
<1>. DEFINE F == [p \in Nat \X (1..n) |-> p[1] + c[p[2]]]
<1>1. F \in [Nat \X (1..n) -> Nat]
  <2>1. \A p \in Nat \X (1..n) : p[1] \in Nat /\ c[p[2]] \in Nat
    OBVIOUS
  <2>. QED
    BY <2>1
<1>2. \A a \in Nat, i \in 1..n : F[<<a, i>>] = a + c[i]
  OBVIOUS
<1>. HIDE DEF F
<1>3. PICK h \in [SUBSET (1..n) -> Nat] : Folds(h, n, 0, F)
  BY <1>1, FoldExists
<1>4. ASSUME NEW s \in SUBSET (1..n), s # {}
      PROVE  F[<<h[s \ {Max(s)}], Max(s)>>] = h[s \ {Max(s)}] + c[Max(s)]
  BY <1>2, <1>3, <1>4, LargestPosition
<1>5. Sums(h, n, c)
  BY <1>3, <1>4 DEF Folds, Sums
<1>. QED
  BY <1>5

\* What the sum over the first k positions comes to.
SumsUp(h, n, c) ==
    /\ h[1..0] = 0
    /\ \A k \in 0..(n - 1) : h[1..(k + 1)] = h[1..k] + c[k + 1]

LEMMA SumUnfolds ==
    ASSUME NEW n \in Nat, NEW c, NEW h, Sums(h, n, c)
    PROVE  SumsUp(h, n, c)
<1>1. h[1..0] = 0
  <2>1. 1..0 = {} /\ {} \in SUBSET (1..n)
    OBVIOUS
  <2>. QED
    BY <2>1 DEF Sums
<1>2. ASSUME NEW k \in 0..(n - 1)
      PROVE  h[1..(k + 1)] = h[1..k] + c[k + 1]
  <2>. DEFINE s == 1..(k + 1)
  <2>1. s \in SUBSET (1..n) /\ s # {} /\ Max(s) = k + 1 /\ s \ {Max(s)} = 1..k
    BY IntervalTop
  <2>. HIDE DEF s
  <2>2. h[s] = h[s \ {Max(s)}] + c[Max(s)]
    BY <2>1 DEF Sums
  <2>. QED
    BY <2>1, <2>2 DEF s
<1>. QED
  BY <1>1, <1>2 DEF SumsUp

\* The sum in h is u times that in g, as it is when its terms are.
Scaled(g, h, n, u) == h[1..n] = u * g[1..n]

LEMMA SumScales ==
    ASSUME NEW n \in Nat, NEW c \in [1..n -> Nat], NEW d \in [1..n -> Nat], NEW u \in Nat,
           \A i \in 1..n : d[i] = u * c[i],
           NEW g, Sums(g, n, c), NEW h, Sums(h, n, d)
    PROVE  Scaled(g, h, n, u)
<1>1. /\ g[1..0] = 0 /\ \A k \in 0..(n - 1) : g[1..(k + 1)] = g[1..k] + c[k + 1]
      /\ h[1..0] = 0 /\ \A k \in 0..(n - 1) : h[1..(k + 1)] = h[1..k] + d[k + 1]
  <2>1. SumsUp(g, n, c)
    BY SumUnfolds
  <2>2. SumsUp(h, n, d)
    BY SumUnfolds
  <2>. QED
    BY <2>1, <2>2 DEF SumsUp
<1>. DEFINE P(k) == g[1..k] \in Nat /\ h[1..k] = u * g[1..k]
            T == {k \in Nat : k <= n => P(k)}
<1>2. 0 \in T
  BY <1>1
<1>3. ASSUME NEW k \in T
      PROVE  k + 1 \in T
  <2>. SUFFICES ASSUME k + 1 <= n PROVE P(k + 1)
    OBVIOUS
  <2>1. k \in 0..(n - 1) /\ k + 1 \in 1..n /\ P(k)
    OBVIOUS
  <2>2. PICK x, y \in Nat : x = g[1..k] /\ y = c[k + 1]
    BY <2>1
  <2>3. /\ h[1..k] = u * x /\ d[k + 1] = u * y
        /\ g[1..(k + 1)] = x + y /\ h[1..(k + 1)] = u * x + u * y
    BY <1>1, <2>1, <2>2
  <2>4. x + y \in Nat /\ u * x + u * y = u * (x + y)
    OBVIOUS
  <2>. QED
    BY <2>3, <2>4
<1>4. T = Nat
  <2>1. T \in SUBSET Nat
    OBVIOUS
  <2>. HIDE DEF T
  <2>. QED
    BY <1>2, <1>3, <2>1, SetInduction
<1>5. n \in T
  BY <1>4
<1>. QED
  BY <1>5 DEF Scaled

----------------------------------------------------------------------------
(* Sorts, and the states that a fold passes through.                       *)

\* P maps each element of S to those that come before it in a strict total order.
Precedes(S, P) ==
    /\ P \in [S -> SUBSET S]
    /\ \A x \in S : x \notin P[x]
    /\ \A x, y \in S : y \in P[x] => P[y] \subseteq P[x]
    /\ \A x, y \in S : x = y \/ y \in P[x] \/ x \in P[y]

\* The positions of InOrder are taken by one element each.
LEMMA Ranks ==
    ASSUME NEW S, IsFiniteSet(S), NEW P, Precedes(S, P)
    PROVE  /\ Cardinality(S) \in Nat
           /\ \A p \in 1..Cardinality(S) : \E x \in S : Cardinality(P[x]) = p - 1
           /\ \A x \in S : Cardinality(P[x]) \in 0..(Cardinality(S) - 1)
           /\ \A x, y \in S : Cardinality(P[x]) < Cardinality(P[y]) => x \in P[y]
           /\ \A x, y \in S : Cardinality(P[x]) = Cardinality(P[y]) => x = y
<1>. DEFINE n == Cardinality(S)
            rank == [x \in S |-> Cardinality(P[x])]
<1>1. n \in Nat
  BY FS_CardinalityType
<1>2. ASSUME NEW x \in S
      PROVE  IsFiniteSet(P[x]) /\ Cardinality(P[x]) \in 0..(n - 1)
  <2>1. P[x] \in SUBSET (S \ {x})
    BY DEF Precedes
  <2>2. IsFiniteSet(S \ {x}) /\ Cardinality(S \ {x}) = n - 1
    BY FS_RemoveElement
  <2>3. IsFiniteSet(P[x]) /\ Cardinality(P[x]) <= n - 1 /\ Cardinality(P[x]) \in Nat
    BY <2>1, <2>2, FS_Subset, FS_CardinalityType
  <2>. QED
    BY <1>1, <2>3
<1>3. ASSUME NEW x \in S, NEW y \in S, x \in P[y]
      PROVE  Cardinality(P[x]) < Cardinality(P[y])
  <2>1. P[x] \in SUBSET P[y] /\ P[x] # P[y]
    BY <1>3 DEF Precedes
  <2>2. Cardinality(P[x]) <= Cardinality(P[y]) /\ Cardinality(P[x]) # Cardinality(P[y])
    BY <1>2, <2>1, FS_Subset
  <2>. QED
    BY <1>1, <1>2, <2>2
<1>4. ASSUME NEW x \in S, NEW y \in S, Cardinality(P[x]) = Cardinality(P[y])
      PROVE  x = y
  <2>1. Cardinality(P[x]) \in Int /\ Cardinality(P[y]) \in Int
    BY <1>1, <1>2
  <2>2. x \notin P[y] /\ y \notin P[x]
    BY <1>3, <1>4, <2>1
  <2>. QED
    BY <2>2 DEF Precedes
<1>5. ASSUME NEW x \in S, NEW y \in S, Cardinality(P[x]) < Cardinality(P[y])
      PROVE  x \in P[y]
  <2>1. Cardinality(P[x]) \in Int /\ Cardinality(P[y]) \in Int
    BY <1>1, <1>2
  <2>2. x # y /\ y \notin P[x]
    BY <1>3, <1>5, <2>1
  <2>. QED
    BY <2>2 DEF Precedes
<1>6. \A p \in 1..n : \E x \in S : Cardinality(P[x]) = p - 1
  <2>1. rank \in Injection(S, 0..(n - 1))
    BY <1>2, <1>4 DEF Injection, IsInjective
  <2>2. IsFiniteSet(0..(n - 1)) /\ Cardinality(0..(n - 1)) = n
    <3>1. 0 \in Int /\ n - 1 \in Int
      BY <1>1
    <3>2. /\ IsFiniteSet(0..(n - 1))
          /\ Cardinality(0..(n - 1)) = IF 0 > n - 1 THEN 0 ELSE (n - 1) - 0 + 1
      BY <3>1, FS_Interval
    <3>. QED
      BY <1>1, <3>2
  <2>3. rank \in Surjection(S, 0..(n - 1))
    <3>. HIDE DEF rank
    <3>. QED
      BY <2>1, <2>2, FS_Injection
  <2>4. ASSUME NEW p \in 1..n
        PROVE  \E x \in S : Cardinality(P[x]) = p - 1
    <3>1. p - 1 \in 0..(n - 1)
      BY <1>1
    <3>2. PICK x \in S : rank[x] = p - 1
      BY <2>3, <3>1 DEF Surjection
    <3>. QED
      BY <3>2
  <2>. QED
    BY <2>4
<1>. QED
  BY <1>1, <1>2, <1>4, <1>5, <1>6

\* What a sort by P makes of S.
SortsBy(s, S, P) ==
    /\ s \in [1..Cardinality(S) -> S]
    /\ \A p, q \in DOMAIN s : p < q => s[p] \in P[s[q]]
    /\ IsInjective(s)
    /\ Range(s) = S

LEMMA Sorts ==
    ASSUME NEW S, IsFiniteSet(S), NEW P, Precedes(S, P),
           NEW s \in [1..Cardinality(S) -> S],
           \A p \in 1..Cardinality(S) : Cardinality(P[s[p]]) = p - 1
    PROVE  SortsBy(s, S, P)
<1>. DEFINE n == Cardinality(S)
<1>1. /\ n \in Nat
      /\ \A x \in S : Cardinality(P[x]) \in 0..(n - 1)
      /\ \A x, y \in S : Cardinality(P[x]) < Cardinality(P[y]) => x \in P[y]
      /\ \A x, y \in S : Cardinality(P[x]) = Cardinality(P[y]) => x = y
  BY Ranks
<1>2. \A p \in 1..n : s[p] \in S /\ Cardinality(P[s[p]]) = p - 1
  OBVIOUS
<1>3. s \in [1..n -> S]
  OBVIOUS
<1>. HIDE DEF n
<1>4. \A p, q \in 1..n : p < q => s[p] \in P[s[q]]
  <2>1. ASSUME NEW p \in 1..n, NEW q \in 1..n, p < q
        PROVE  s[p] \in P[s[q]]
    <3>1. Cardinality(P[s[p]]) < Cardinality(P[s[q]])
      BY <1>1, <1>2, <2>1
    <3>. QED
      BY <1>1, <1>2, <3>1
  <2>. QED
    BY <2>1
<1>5. \A p, q \in 1..n : s[p] = s[q] => p = q
  <2>1. ASSUME NEW p \in 1..n, NEW q \in 1..n, s[p] = s[q]
        PROVE  p = q
    <3>1. p - 1 = q - 1
      BY <1>2, <2>1
    <3>. QED
      BY <1>1, <3>1
  <2>. QED
    BY <2>1
<1>6. \A x \in S : \E p \in 1..n : s[p] = x
  <2>1. ASSUME NEW x \in S
        PROVE  \E p \in 1..n : s[p] = x
    <3>. DEFINE p == Cardinality(P[x]) + 1
    <3>1. p \in 1..n /\ p - 1 = Cardinality(P[x])
      BY <1>1
    <3>2. s[p] \in S /\ Cardinality(P[s[p]]) = Cardinality(P[x])
      BY <1>2, <3>1
    <3>. QED
      BY <1>1, <3>1, <3>2
  <2>. QED
    BY <2>1
<1>7. DOMAIN s = 1..n
  BY <1>3
<1>8. Range(s) = S
  BY <1>2, <1>6, <1>7 DEF Range
<1>. QED
  BY <1>3, <1>4, <1>5, <1>7, <1>8 DEF SortsBy, IsInjective, n

\* A permutation of the positions D.
Permutes(f, D) == f \in [D -> D] /\ IsInjective(f) /\ Range(f) = D

\* iter, from b, is what F makes of one position after the other.
Follows(iter, A, n, b, F) ==
    /\ iter[1..0] = b
    /\ \A k \in 0..(n - 1) : iter[1..k] \in A => iter[1..(k + 1)] = F[<<iter[1..k], k + 1>>]

\* h lists the values of iter.
Walk(h, iter, n, b, F) ==
    /\ h[0] = b /\ h[n] = iter[1..n]
    /\ \A k \in 1..n : h[k] = F[<<h[k - 1], k>>]

\* The states that a computation by F passes through, one position at a time.
LEMMA Walks ==
    ASSUME NEW n \in Nat, NEW A, NEW b \in A, NEW F \in [A \X (1..n) -> A], NEW iter,
           Follows(iter, A, n, b, F)
    PROVE  \E h \in [0..n -> A] : Walk(h, iter, n, b, F)
<1>. DEFINE h == [k \in 0..n |-> iter[1..k]]
            T == {k \in Nat : k <= n => h[k] \in A}
<1>0. /\ iter[1..0] = b
      /\ \A k \in 0..(n - 1) : iter[1..k] \in A => iter[1..(k + 1)] = F[<<iter[1..k], k + 1>>]
  BY DEF Follows
<1>1. \A k \in 0..n : h[k] = iter[1..k]
  OBVIOUS
<1>2. 0 \in T
  BY <1>0, <1>1
<1>3. ASSUME NEW k \in T
      PROVE  k + 1 \in T
  <2>. SUFFICES ASSUME k + 1 <= n PROVE h[k + 1] \in A
    OBVIOUS
  <2>1. k \in 0..(n - 1) /\ k \in 0..n /\ k + 1 \in 0..n /\ k + 1 \in 1..n /\ h[k] \in A
    OBVIOUS
  <2>. HIDE DEF h
  <2>2. h[k + 1] = F[<<h[k], k + 1>>]
    BY <1>0, <1>1, <2>1
  <2>. QED
    BY <2>1, <2>2
<1>. HIDE DEF h
<1>4. T = Nat
  <2>1. T \in SUBSET Nat
    OBVIOUS
  <2>. HIDE DEF T
  <2>. QED
    BY <1>2, <1>3, <2>1, SetInduction
<1>5. \A k \in 0..n : h[k] \in A
  BY <1>4
<1>6. ASSUME NEW k \in 1..n
      PROVE  h[k] = F[<<h[k - 1], k>>]
  <2>1. k - 1 \in 0..(n - 1) /\ k - 1 \in 0..n /\ (k - 1) + 1 = k
    OBVIOUS
  <2>2. h[k - 1] = iter[1..(k - 1)] /\ iter[1..(k - 1)] \in A
    BY <1>1, <1>5, <2>1
  <2>3. iter[1..((k - 1) + 1)] = F[<<iter[1..(k - 1)], (k - 1) + 1>>]
    BY <1>0, <2>1, <2>2
  <2>4. h[k] = iter[1..k]
    BY <1>1
  <2>. QED
    BY <2>1, <2>2, <2>3, <2>4
<1>7. h \in [0..n -> A]
  BY <1>5 DEF h
<1>8. h[0] = b /\ h[n] = iter[1..n]
  BY <1>0, <1>1
<1>9. Walk(h, iter, n, b, F)
  BY <1>6, <1>8 DEF Walk
<1>. QED
  BY <1>7, <1>9

\* The remainder is the only one of its kind.
LEMMA OneRemainder ==
    ASSUME NEW m \in Nat \ {0}, NEW p \in Int, NEW q \in Int, NEW a \in 0..(m - 1), NEW b \in 0..(m - 1),
           m * p + a = m * q + b
    PROVE  a = b
<1>1. CASE p = q
  BY <1>1
<1>2. CASE p > q
  <2>1. m * (p - q) = m * p - m * q
    OBVIOUS
  <2>2. p - q >= 1
    BY <1>2
  <2>3. m * (p - q) >= m
    BY <2>2
  <2>. QED
    BY <2>1, <2>3
<1>3. CASE p < q
  <2>1. m * (q - p) = m * q - m * p
    OBVIOUS
  <2>2. q - p >= 1
    BY <1>3
  <2>3. m * (q - p) >= m
    BY <2>2
  <2>. QED
    BY <2>1, <2>3
<1>. QED
  BY <1>1, <1>2, <1>3

\* A sum may wrap on the way.
LEMMA WrapsOnTheWay ==
    ASSUME NEW m \in Nat \ {0}, NEW a \in Int, NEW b \in Int
    PROVE  ((a % m) + b) % m = (a + b) % m /\ (a % m) \in 0..(m - 1)
<1>. DEFINE q == a \div m
            r == a % m
            s == (r + b) \div m
            t == (r + b) % m
            u == (a + b) \div m
            v == (a + b) % m
<1>1. q \in Int /\ r \in 0..(m - 1) /\ a = m * q + r
  OBVIOUS
<1>2. s \in Int /\ t \in 0..(m - 1) /\ r + b = m * s + t
  BY <1>1
<1>3. u \in Int /\ v \in 0..(m - 1) /\ a + b = m * u + v
  OBVIOUS
<1>. HIDE DEF q, r, s, t, u, v
<1>4. m * (q + s) = m * q + m * s
  BY <1>1, <1>2
<1>5. m * (q + s) + t = m * u + v
  BY <1>1, <1>2, <1>3, <1>4
<1>6. q + s \in Int
  BY <1>1, <1>2
<1>7. t = v
  BY <1>2, <1>3, <1>5, <1>6, OneRemainder
<1>. QED
  BY <1>1, <1>7 DEF r, t, v

\* iter computes by F, from b, what it computes within A.
ComputedIn(iter, A, n, b, F) ==
    /\ iter[{}] = b
    /\ \A d \in SUBSET (1..n) :
          d # {} /\ iter[d \ {Max(d)}] \in A => iter[d] = F[<<iter[d \ {Max(d)}], Max(d)>>]

LEMMA FoldIsWalk ==
    ASSUME NEW n \in Nat, NEW A, NEW b \in A, NEW F \in [A \X (1..n) -> A], NEW iter,
           ComputedIn(iter, A, n, b, F)
    PROVE  \E h \in [0..n -> A] : Walk(h, iter, n, b, F)
<1>1. iter[1..0] = b
  <2>1. 1..0 = {}
    OBVIOUS
  <2>. QED
    BY <2>1 DEF ComputedIn
<1>2. ASSUME NEW k \in 0..(n - 1), iter[1..k] \in A
      PROVE  iter[1..(k + 1)] = F[<<iter[1..k], k + 1>>]
  <2>. DEFINE d == 1..(k + 1)
  <2>1. d \in SUBSET (1..n) /\ d # {} /\ Max(d) = k + 1 /\ d \ {Max(d)} = 1..k
    BY IntervalTop
  <2>. HIDE DEF d
  <2>2. iter[d] = F[<<iter[d \ {Max(d)}], Max(d)>>]
    BY <1>2, <2>1 DEF ComputedIn
  <2>. QED
    BY <2>1, <2>2 DEF d
<1>3. Follows(iter, A, n, b, F)
  BY <1>1, <1>2 DEF Follows
<1>. QED
  BY <1>3, Walks

----------------------------------------------------------------------------
(* Tuples, slices and concatenations.                                      *)

\* A tuple is a sequence.
LEMMA BytesOfTuple ==
    ASSUME NEW S, NEW n \in Nat, NEW w \in [1..n -> S]
    PROVE  w \in Seq(S) /\ Len(w) = n /\ \A i \in 1..n : w[i] \in S
OBVIOUS

\* The prefixes that FlattenSeq passes through.
Concatenates(h, s) ==
    /\ h[0] = <<>>
    /\ \A k \in 1..Len(s) : h[k] = h[k - 1] \o s[k]

LEMMA Flattened ==
    ASSUME NEW T, NEW s \in Seq(Seq(T))
    PROVE  \E h \in [0..Len(s) -> Seq(T)] : Concatenates(h, s) /\ h[Len(s)] = FlattenSeq(s)
<1>. DEFINE n == Len(s)
            A == Seq(T)
            b == <<>>
            F == [p \in A \X (1..n) |-> p[1] \o s[p[2]]]
            Computes(f) == f = [i \in 1..n |-> IF i = 1 THEN s[i] ELSE f[i - 1] \o s[i]]
            flatten == CHOOSE f : Computes(f)
<1>1. n \in Nat /\ DOMAIN s = 1..n /\ (\A i \in 1..n : s[i] \in A) /\ b \in A
  OBVIOUS
<1>2. F \in [A \X (1..n) -> A]
  <2>1. \A a \in A, c \in A : a \o c \in A
    OBVIOUS
  <2>. HIDE DEF A
  <2>. QED
    BY <1>1, <2>1
<1>3. \A a \in A, i \in 1..n : F[<<a, i>>] = a \o s[i]
  OBVIOUS
<1>. HIDE DEF A, F, n
<1>4. PICK h \in [0..n -> A] : h[0] = b /\ \A k \in 1..n : h[k] = F[<<h[k - 1], k>>]
  <2>1. PICK g \in [SUBSET (1..n) -> A] : Folds(g, n, b, F)
    BY <1>1, <1>2, FoldExists
  <2>2. g[1..0] = b
    <3>1. 1..0 = {} /\ {} \in SUBSET (1..n)
      OBVIOUS
    <3>. QED
      BY <2>1, <3>1 DEF Folds
  <2>3. ASSUME NEW k \in 0..(n - 1), g[1..k] \in A
        PROVE  g[1..(k + 1)] = F[<<g[1..k], k + 1>>]
    <3>. DEFINE d == 1..(k + 1)
    <3>1. d \in SUBSET (1..n) /\ d # {} /\ Max(d) = k + 1 /\ d \ {Max(d)} = 1..k
      BY <1>1, IntervalTop
    <3>. HIDE DEF d
    <3>2. g[d] = F[<<g[d \ {Max(d)}], Max(d)>>]
      BY <2>1, <3>1 DEF Folds
    <3>. QED
      BY <3>1, <3>2 DEF d
  <2>4. Follows(g, A, n, b, F)
    BY <2>2, <2>3 DEF Follows
  <2>5. PICK h \in [0..n -> A] : Walk(h, g, n, b, F)
    BY <1>1, <1>2, <2>4, Walks
  <2>. QED
    BY <2>5 DEF Walk
<1>5. \A k \in 1..n : h[k] = h[k - 1] \o s[k] /\ h[k - 1] \in A /\ h[k] \in A
  <2>1. \A k \in 1..n : k - 1 \in 0..n /\ k \in 0..n
    BY <1>1
  <2>. QED
    BY <1>3, <1>4, <2>1
<1>6. CASE n = 0
  <2>1. s = <<>> /\ FlattenSeq(s) = s
    BY <1>6 DEF FlattenSeq, n
  <2>2. Concatenates(h, s) /\ h[Len(s)] = FlattenSeq(s)
    BY <1>4, <1>5, <1>6, <2>1 DEF Concatenates, n
  <2>. QED
    BY <2>2 DEF n, A
<1>7. CASE n # 0
  <2>1. FlattenSeq(s) = flatten[n]
    BY <1>7 DEF FlattenSeq, n
  <2>2. Computes([i \in 1..n |-> h[i]])
    <3>. DEFINE f == [i \in 1..n |-> h[i]]
    <3>1. \A i \in 1..n : f[i] = IF i = 1 THEN s[i] ELSE f[i - 1] \o s[i]
      <4>. TAKE i \in 1..n
      <4>1. CASE i = 1
        <5>0. 1 - 1 = 0 /\ 1 \in 1..n
          BY <1>1, <4>1
        <5>1. h[1] = <<>> \o s[1] /\ s[1] \in Seq(T)
          <6>1. h[1] = h[1 - 1] \o s[1]
            BY <1>5, <5>0
          <6>. QED
            BY <1>1, <1>4, <5>0, <6>1 DEF A
        <5>2. <<>> \o s[1] = s[1]
          BY <5>1
        <5>. QED
          BY <4>1, <5>1, <5>2
      <4>2. CASE i # 1
        <5>1. i - 1 \in 1..n
          BY <1>1, <4>2
        <5>. QED
          BY <1>5, <4>2, <5>1
      <4>. QED
        BY <4>1, <4>2
    <3>. QED
      BY <3>1
  <2>3. Computes(flatten)
    <3>. HIDE DEF Computes
    <3>. QED
      BY <2>2
  <2>. HIDE DEF flatten
  <2>. DEFINE g == [k \in 0..n |-> IF k = 0 THEN <<>> ELSE flatten[k]]
              U == {k \in Nat : k <= n => g[k] \in A}
  <2>4. g[0] = <<>> /\ \A k \in 1..n : g[k] = flatten[k]
    BY <1>1
  <2>5. \A k \in 1..n : g[k] = g[k - 1] \o s[k]
    <3>. TAKE k \in 1..n
    <3>1. flatten[k] = IF k = 1 THEN s[k] ELSE flatten[k - 1] \o s[k]
      BY <2>3
    <3>. HIDE DEF g
    <3>2. CASE k = 1
      <4>1. s[1] \in Seq(T)
        BY <1>1, <3>2 DEF A
      <4>2. <<>> \o s[1] = s[1]
        BY <4>1
      <4>. QED
        BY <2>4, <3>1, <3>2, <4>2, 1 - 1 = 0
    <3>3. CASE k # 1
      <4>1. k - 1 \in 1..n
        BY <1>1, <3>3
      <4>. QED
        BY <2>4, <3>1, <3>3, <4>1
    <3>. QED
      BY <3>2, <3>3
  <2>6. U = Nat
    <3>. HIDE DEF g
    <3>1. 0 \in U
      BY <1>1, <2>4
    <3>2. ASSUME NEW k \in U
          PROVE  k + 1 \in U
      <4>. SUFFICES ASSUME k + 1 <= n PROVE g[k + 1] \in A
        OBVIOUS
      <4>1. g[k] \in A /\ k + 1 \in 1..n /\ (k + 1) - 1 = k
        BY <1>1
      <4>2. g[k + 1] = g[k] \o s[k + 1] /\ s[k + 1] \in A
        BY <1>1, <2>5, <4>1
      <4>. QED
        BY <4>1, <4>2 DEF A
    <3>3. U \in SUBSET Nat
      OBVIOUS
    <3>. HIDE DEF U
    <3>. QED
      BY <3>1, <3>2, <3>3, SetInduction
  <2>7. g \in [0..n -> A]
    <3>1. \A k \in 0..n : g[k] \in A
      <4>. HIDE DEF g
      <4>. QED
        BY <1>1, <2>6
    <3>. QED
      BY <3>1
  <2>. HIDE DEF g
  <2>8. g[n] = FlattenSeq(s) /\ Concatenates(g, s)
    <3>1. n \in 1..n
      BY <1>1, <1>7
    <3>. QED
      BY <2>1, <2>4, <2>5, <3>1 DEF Concatenates, n
  <2>. QED
    BY <2>7, <2>8 DEF n, A
<1>. QED
  BY <1>6, <1>7

SameUpTo(a, b, n) == \A i \in 1..n : a[i] = b[i]

LEMMA SameTuple ==
    ASSUME NEW S, NEW n \in Nat, NEW a \in [1..n -> S], NEW b \in [1..n -> S], SameUpTo(a, b, n)
    PROVE  a = b
<1>1. a = [i \in 1..n |-> a[i]] /\ b = [i \in 1..n |-> b[i]]
  OBVIOUS
<1>. QED
  BY <1>1 DEF SameUpTo

\* part stands in whole behind its first off elements.
StandsIn(whole, off, part) ==
    /\ off + Len(part) <= Len(whole)
    /\ \A j \in 1..Len(part) : whole[off + j] = part[j]

LEMMA BothStand ==
    ASSUME NEW T, NEW whole \in Seq(T), NEW a \in Seq(T), NEW b \in Seq(T), StandsIn(whole, 0, a \o b)
    PROVE  StandsIn(whole, 0, a) /\ StandsIn(whole, Len(a), b)
<1>. DEFINE m == Len(a)
            n == Len(b)
            c == a \o b
<1>1. m \in Nat /\ n \in Nat /\ Len(c) = m + n /\ Len(whole) \in Nat
  OBVIOUS
<1>2. (\A j \in 1..m : c[j] = a[j]) /\ (\A j \in 1..n : c[m + j] = b[j])
  OBVIOUS
<1>3. m + n <= Len(whole) /\ \A j \in 1..(m + n) : whole[j] = c[j]
  <2>1. 0 + Len(c) <= Len(whole) /\ \A j \in 1..Len(c) : whole[0 + j] = c[j]
    BY DEF StandsIn
  <2>2. \A j \in 1..(m + n) : 0 + j = j
    BY <1>1
  <2>. HIDE DEF m, n, c
  <2>. QED
    BY <1>1, <2>1, <2>2
<1>. HIDE DEF m, n, c
<1>4. \A j \in 1..m : whole[0 + j] = a[j]
  <2>. TAKE j \in 1..m
  <2>1. j \in 1..(m + n) /\ 0 + j = j
    BY <1>1
  <2>. QED
    BY <1>2, <1>3, <2>1
<1>5. \A j \in 1..n : whole[m + j] = b[j]
  <2>. TAKE j \in 1..n
  <2>1. m + j \in 1..(m + n)
    BY <1>1
  <2>. QED
    BY <1>2, <1>3, <2>1
<1>6. 0 + m <= Len(whole) /\ m + n <= Len(whole)
  BY <1>1, <1>3
<1>. QED
  BY <1>4, <1>5, <1>6 DEF StandsIn, m, n

LEMMA LengthsAdd ==
    ASSUME NEW T, NEW a \in Seq(T), NEW b \in Seq(T)
    PROVE  Len(a \o b) = Len(a) + Len(b)
OBVIOUS

\* Every sequence stands in the concatenation where its prefix ends.
LEMMA AllStand ==
    ASSUME NEW T, NEW s \in Seq(Seq(T)), NEW h \in [0..Len(s) -> Seq(T)], Concatenates(h, s)
    PROVE  \A i \in 1..Len(s) : /\ StandsIn(h[Len(s)], Len(h[i - 1]), s[i])
                                /\ h[i - 1] \in Seq(T) /\ s[i] \in Seq(T) /\ h[i] = h[i - 1] \o s[i]
                                /\ Len(h[i]) = Len(h[i - 1]) + Len(s[i])
<1>. DEFINE n == Len(s)
            B == Seq(T)
            whole == h[n]
            U == {j \in Nat : j <= n => StandsIn(whole, 0, h[n - j])}
<1>1. n \in Nat
  OBVIOUS
<1>2. ASSUME NEW i \in 1..n
      PROVE  h[i - 1] \in B /\ s[i] \in B /\ h[i] = h[i - 1] \o s[i]
  <2>. HIDE DEF B
  <2>1. i - 1 \in 0..n /\ s \in Seq(B) /\ h \in [0..n -> B]
    BY <1>1 DEF B
  <2>2. h[i - 1] \in B
    BY <2>1
  <2>3. s[i] \in B
    BY <2>1
  <2>. QED
    BY <2>2, <2>3 DEF Concatenates
<1>3. whole \in B
  <2>1. n \in 0..n
    BY <1>1
  <2>. QED
    BY <2>1
<1>4. 0 \in U
  <2>1. n - 0 = n /\ \A j \in 1..Len(whole) : 0 + j = j
    BY <1>1, <1>3
  <2>2. 0 + Len(whole) <= Len(whole)
    BY <1>3
  <2>3. StandsIn(whole, 0, whole)
    BY <2>1, <2>2 DEF StandsIn
  <2>. QED
    BY <2>1, <2>3
<1>. HIDE DEF whole
<1>5. ASSUME NEW i \in 1..n, StandsIn(whole, 0, h[i])
      PROVE  StandsIn(whole, 0, h[i - 1]) /\ StandsIn(whole, Len(h[i - 1]), s[i])
  <2>1. h[i - 1] \in Seq(T) /\ s[i] \in Seq(T) /\ whole \in Seq(T) /\ StandsIn(whole, 0, h[i - 1] \o s[i])
    BY <1>2, <1>3, <1>5
  <2>. QED
    BY <2>1, BothStand
<1>6. ASSUME NEW j \in U
      PROVE  j + 1 \in U
  <2>. SUFFICES ASSUME j + 1 <= n PROVE StandsIn(whole, 0, h[n - (j + 1)])
    OBVIOUS
  <2>1. j <= n /\ n - j \in 1..n /\ (n - j) - 1 = n - (j + 1)
    BY <1>1
  <2>2. StandsIn(whole, 0, h[n - j])
    BY <2>1
  <2>3. StandsIn(whole, 0, h[(n - j) - 1])
    BY <1>5, <2>1, <2>2
  <2>. QED
    BY <2>1, <2>3
<1>7. U = Nat
  <2>1. U \in SUBSET Nat
    OBVIOUS
  <2>. HIDE DEF U
  <2>. QED
    BY <1>4, <1>6, <2>1, SetInduction
<1>8. ASSUME NEW i \in 1..n
      PROVE  StandsIn(whole, 0, h[i])
  <2>1. n - i \in Nat /\ n - i <= n /\ n - (n - i) = i
    BY <1>1
  <2>2. n - i \in U
    BY <1>7, <2>1
  <2>. QED
    BY <2>1, <2>2
<1>9. ASSUME NEW i \in 1..n
      PROVE  Len(h[i]) = Len(h[i - 1]) + Len(s[i])
  BY <1>2, LengthsAdd
<1>. QED
  BY <1>2, <1>5, <1>8, <1>9 DEF whole

\* One more sequence at the end.
LEMMA FlattenOneMore ==
    ASSUME NEW T, NEW s \in Seq(Seq(T)), NEW t \in Seq(T)
    PROVE  FlattenSeq(Append(s, t)) = FlattenSeq(s) \o t
<1>. DEFINE n == Len(s)
            a == Append(s, t)
            B == Seq(T)
<1>1. n \in Nat /\ Len(a) = n + 1 /\ a \in Seq(Seq(T)) /\ a[n + 1] = t /\ \A i \in 1..n : a[i] = s[i]
  OBVIOUS
<1>. HIDE DEF a
<1>2. PICK g \in [0..n -> B] : Concatenates(g, s) /\ g[n] = FlattenSeq(s)
  BY Flattened
<1>3. PICK h \in [0..(n + 1) -> B] : Concatenates(h, a) /\ h[n + 1] = FlattenSeq(a)
  <2>1. \E h \in [0..Len(a) -> Seq(T)] : Concatenates(h, a) /\ h[Len(a)] = FlattenSeq(a)
    BY <1>1, Flattened
  <2>. QED
    BY <1>1, <2>1
<1>. HIDE DEF n
<1>. DEFINE U == {k \in Nat : k <= n => h[k] = g[k]}
<1>4. 0 \in U
  BY <1>2, <1>3 DEF Concatenates
<1>5. ASSUME NEW k \in U
      PROVE  k + 1 \in U
  <2>. SUFFICES ASSUME k + 1 <= n PROVE h[k + 1] = g[k + 1]
    OBVIOUS
  <2>1. k \in Nat /\ k <= n /\ k + 1 \in 1..n /\ k + 1 \in 1..(n + 1) /\ (k + 1) - 1 = k
    BY <1>1
  <2>2. h[k + 1] = h[(k + 1) - 1] \o a[k + 1]
    BY <1>1, <1>3, <2>1 DEF Concatenates
  <2>3. g[k + 1] = g[(k + 1) - 1] \o s[k + 1]
    BY <1>2, <2>1 DEF Concatenates, n
  <2>4. a[k + 1] = s[k + 1] /\ h[k] = g[k]
    BY <1>1, <2>1
  <2>. QED
    BY <2>1, <2>2, <2>3, <2>4
<1>6. U = Nat
  <2>1. U \in SUBSET Nat
    OBVIOUS
  <2>. HIDE DEF U
  <2>. QED
    BY <1>4, <1>5, <2>1, SetInduction
<1>7. h[n] = g[n]
  <2>1. n \in U
    BY <1>1, <1>6
  <2>. QED
    BY <1>1, <2>1
<1>8. h[n + 1] = h[n] \o t
  <2>1. n + 1 \in 1..Len(a) /\ (n + 1) - 1 = n
    BY <1>1
  <2>2. h[n + 1] = h[(n + 1) - 1] \o a[n + 1]
    BY <1>3, <2>1 DEF Concatenates
  <2>. QED
    BY <1>1, <2>1, <2>2
<1>. QED
  BY <1>2, <1>3, <1>7, <1>8 DEF a

LEMMA SmallestPosition ==
    ASSUME NEW n \in Nat, NEW K \in SUBSET (1..n), K # {}
    PROVE  \E k \in K : \A j \in K : k <= j
<1>. SUFFICES ASSUME \A k \in K : \E j \in K : ~(k <= j)
              PROVE  FALSE
  OBVIOUS
<1>. DEFINE U == {i \in Nat : \A j \in 0..i : j \notin K}
<1>1. 0 \in U
  OBVIOUS
<1>2. ASSUME NEW i \in U
      PROVE  i + 1 \in U
  <2>. SUFFICES ASSUME NEW j \in 0..(i + 1), j \in K PROVE FALSE
    OBVIOUS
  <2>1. j = i + 1
    <3>1. j \notin 0..i
      OBVIOUS
    <3>. QED
      BY <3>1
  <2>2. PICK l \in K : ~(j <= l)
    OBVIOUS
  <2>3. l \in 0..i
    BY <2>1, <2>2
  <2>. QED
    BY <2>3
<1>3. U = Nat
  <2>1. U \in SUBSET Nat
    OBVIOUS
  <2>. HIDE DEF U
  <2>. QED
    BY <1>1, <1>2, <2>1, SetInduction
<1>4. PICK k \in K : TRUE
  OBVIOUS
<1>5. k \in U
  BY <1>3
<1>. QED
  BY <1>5

LEMMA EmptyAdded ==
    ASSUME NEW C, NEW a \in Seq(C)
    PROVE  a \o <<>> = a
OBVIOUS

LEMMA SlicesOfMore ==
    ASSUME NEW C, NEW c \in Seq(C), NEW char \in C, NEW i \in 1..(Len(c) + 1), NEW j \in 0..Len(c), j >= i - 1
    PROVE  /\ SubSeq(Append(c, char), i, j) = SubSeq(c, i, j)
           /\ SubSeq(Append(c, char), i, Len(c) + 1) = Append(SubSeq(c, i, Len(c)), char)
           /\ SubSeq(c, i, j) \in Seq(C)
<1>1. SubSeq(Append(c, char), i, j) = SubSeq(c, i, j)
  OBVIOUS
<1>2. SubSeq(Append(c, char), i, Len(c) + 1) = Append(SubSeq(c, i, Len(c)), char)
  OBVIOUS
<1>3. SubSeq(c, i, j) \in Seq(C)
  OBVIOUS
<1>. QED
  BY <1>1, <1>2, <1>3

LEMMA AppendIs ==
    ASSUME NEW T, NEW s \in Seq(T), NEW t \in T
    PROVE  Append(s, t) = [i \in 1..(Len(s) + 1) |-> IF i = Len(s) + 1 THEN t ELSE s[i]]
<1>. DEFINE n == Len(s)
            a == Append(s, t)
<1>1. n \in Nat /\ a \in Seq(T) /\ Len(a) = n + 1 /\ a[n + 1] = t /\ \A i \in 1..n : a[i] = s[i]
  OBVIOUS
<1>. HIDE DEF n, a
<1>2. a = [i \in 1..(n + 1) |-> a[i]]
  BY <1>1
<1>3. \A i \in 1..(n + 1) : a[i] = IF i = n + 1 THEN t ELSE s[i]
  BY <1>1
<1>. QED
  BY <1>2, <1>3 DEF n, a

SetAt(f, l, x) == [f EXCEPT ![l] = x]

SetsAt(L, l, x, f, g) == \A m \in L : g[m] = IF m = l THEN x ELSE f[m]

LEMMA SetAtIs ==
    ASSUME NEW L, NEW S, NEW f \in [L -> S], NEW l \in L, NEW x \in S
    PROVE  SetAt(f, l, x) \in [L -> S] /\ SetsAt(L, l, x, f, SetAt(f, l, x))
BY DEF SetAt, SetsAt

LEMMA PrefixMore ==
    ASSUME NEW C, NEW c \in Seq(C), NEW data \in Seq(C), NEW k \in 0..(Len(data) - 1)
    PROVE  /\ c \o SubSeq(data, 1, k + 1) = Append(c \o SubSeq(data, 1, k), data[k + 1])
           /\ c \o SubSeq(data, 1, k) \in Seq(C) /\ data[k + 1] \in C
<1>1. k \in Nat /\ Len(data) \in Nat /\ k + 1 <= Len(data)
  OBVIOUS
<1>2. SubSeq(data, 1, k) \in Seq(C) /\ data[k + 1] \in C
  BY <1>1
<1>3. SubSeq(data, 1, k + 1) = Append(SubSeq(data, 1, k), data[k + 1])
  BY <1>1
<1>. DEFINE a == SubSeq(data, 1, k)
<1>4. a \in Seq(C) /\ c \o a \in Seq(C)
  BY <1>2
<1>. HIDE DEF a
<1>5. c \o Append(a, data[k + 1]) = Append(c \o a, data[k + 1])
  BY <1>2, <1>4
<1>. QED
  BY <1>2, <1>3, <1>4, <1>5 DEF a

LEMMA WholeData ==
    ASSUME NEW C, NEW c \in Seq(C), NEW data \in Seq(C)
    PROVE  c \o SubSeq(data, 1, 0) = c /\ SubSeq(data, 1, Len(data)) = data
<1>1. SubSeq(data, 1, 0) = <<>>
  OBVIOUS
<1>2. SubSeq(data, 1, Len(data)) = data
  OBVIOUS
<1>. QED
  BY <1>1, <1>2, EmptyAdded

LEMMA EmptyFlattened == FlattenSeq(<<>>) = <<>>
<1>. DEFINE e == <<>>
            X == {0}
<1>1. e \in Seq(Seq(X)) /\ Len(e) = 0
  OBVIOUS
<1>. HIDE DEF e, X
<1>2. PICK g \in [0..Len(e) -> Seq(X)] : Concatenates(g, e) /\ g[Len(e)] = FlattenSeq(e)
  BY <1>1, Flattened
<1>3. g[0] = <<>>
  BY <1>2 DEF Concatenates
<1>. QED
  BY <1>1, <1>2, <1>3 DEF e

\* Every element has a position.
LEMMA LeadsAre ==
    ASSUME NEW T, NEW leads \in Seq(T)
    PROVE  /\ leads \in Seq(Range(leads)) /\ Len(leads) \in Nat
           /\ \A l \in Range(leads) : \E i \in 1..Len(leads) : leads[i] = l
<1>. DEFINE n == Len(leads)
            L == Range(leads)
<1>1. n \in Nat /\ DOMAIN leads = 1..n /\ leads = [i \in 1..n |-> leads[i]]
  OBVIOUS
<1>2. (\A i \in 1..n : leads[i] \in L) /\ \A l \in L : \E i \in 1..n : leads[i] = l
  <2>. HIDE DEF n
  <2>. QED
    BY <1>1 DEF Range
<1>. HIDE DEF L, n
<1>3. leads \in [1..n -> L]
  BY <1>1, <1>2
<1>4. leads \in Seq(L)
  BY <1>1, <1>3, BytesOfTuple
<1>. QED
  BY <1>1, <1>2, <1>4 DEF L, n

----------------------------------------------------------------------------
(* What a valid file deploys fits together.                                *)

\* A configuration that a loader has filled in and accepted.
Loaded(T, cfg) ==
    /\ cfg.guests \in Seq([elf : T, vk : T]) /\ cfg.guests # <<>>
    /\ cfg.coordinator \in [ssh : T, ip : T]
    /\ cfg.workers \in Seq([ssh : T, ip : T, gpus : Seq(Int)]) /\ cfg.workers # <<>>
    /\ cfg.sidecars \in Seq([ssh : T, kind : T, nvHostEngine : T])
    /\ \/ cfg.zkvm = "zisk" /\ ZiskValid(cfg) /\ cfg.prover \in [ZiskSettings -> Int]
       \/ cfg.zkvm = "openvm" /\ OpenvmValid(cfg)

\* The loaders keep what they do not fill in.
LEMMA LoadedFiles ==
    ASSUME NEW T, NEW file \in Files(T), Valid(file)
    PROVE  /\ Loaded(T, WithDefaults(file))
           /\ Addressed(file) => Addressed(WithDefaults(file))
<1>. DEFINE d == WithDefaults(file)
<1>1. Kept(file, d)
  BY DefaultsKeep DEF WithDefaults
<1>2. \/ d.zkvm = "zisk" /\ ZiskValid(d) /\ d.prover \in [ZiskSettings -> Int]
      \/ d.zkvm = "openvm" /\ OpenvmValid(d)
  <2>1. CASE file.zkvm = "zisk" /\ ZiskValid(ZiskDefaults(file))
    <3>. DEFINE D == [shm_size_gb |-> 64, mpi_np |-> 1]
    <3>1. d = ZiskDefaults(file)
      BY <2>1 DEF WithDefaults
    <3>2. d.prover = WithDefault(file.prover, D)
      BY <3>1, DefaultsKeep
    <3>3. file.prover \in [ZiskSettings -> Int]
      BY <2>1, FileTypes
    <3>4. \A k \in DOMAIN D : D[k] \in Int
      OBVIOUS
    <3>. HIDE DEF D, d
    <3>5. d.prover \in [ZiskSettings -> Int]
      BY <3>2, <3>3, <3>4 DEF WithDefault
    <3>. QED
      BY <1>1, <2>1, <3>1, <3>5 DEF Kept
  <2>2. CASE file.zkvm = "openvm" /\ OpenvmValid(OpenvmDefaults(file))
    <3>1. d = OpenvmDefaults(file)
      BY <2>2 DEF WithDefaults
    <3>. HIDE DEF d
    <3>. QED
      BY <1>1, <2>2, <3>1 DEF Kept
  <2>. QED
    BY <2>1, <2>2 DEF Valid
<1>3. file.guests # <<>> /\ file.workers # <<>>
  BY ValidFiles
<1>4. /\ file.guests \in Seq([elf : T, vk : T]) /\ file.coordinator \in [ssh : T, ip : T]
      /\ file.workers \in Seq([ssh : T, ip : T, gpus : Seq(Int)])
      /\ file.sidecars \in Seq([ssh : T, kind : T, nvHostEngine : T])
  BY FileTypes
<1>. HIDE DEF d
<1>5. Loaded(T, d)
  BY <1>1, <1>2, <1>3, <1>4 DEF Loaded, Kept
<1>6. Addressed(file) => Addressed(d)
  BY <1>1 DEF Addressed, Kept
<1>. QED
  BY <1>5, <1>6 DEF d

\* The coordinator's host and those of the workers are dialled.
LEMMA DestinationsContain ==
    ASSUME NEW cfg, NEW S, cfg.workers \in Seq(S)
    PROVE  /\ Contains(Destinations(cfg), cfg.coordinator.ssh)
           /\ \A i \in DOMAIN cfg.workers : Contains(Destinations(cfg), cfg.workers[i].ssh)
<1>. DEFINE w == [i \in DOMAIN cfg.workers |-> cfg.workers[i].ssh]
            V == {cfg.workers[i].ssh : i \in DOMAIN cfg.workers}
            d == Destinations(cfg)
<1>1. w \in Seq(V) /\ DOMAIN w = DOMAIN cfg.workers
  <2>1. w \in [DOMAIN cfg.workers -> V]
    OBVIOUS
  <2>. HIDE DEF w, V
  <2>. QED
    BY <2>1, SameLength
<1>2. d = <<cfg.coordinator.ssh>> \o w /\ \A i \in DOMAIN w : w[i] = cfg.workers[i].ssh
  BY DEF Destinations
<1>. HIDE DEF w, d, V
<1>3. /\ Len(w) \in Nat /\ Len(d) = Len(w) + 1 /\ d[1] = cfg.coordinator.ssh
      /\ \A i \in 1..Len(w) : d[i + 1] = w[i] /\ i + 1 \in 1..(Len(w) + 1)
      /\ DOMAIN w = 1..Len(w)
  BY <1>1, <1>2
<1>4. 1 \in 1..(Len(w) + 1)
  BY <1>3
<1>. QED
  BY <1>1, <1>2, <1>3, <1>4 DEF Contains, d

\* u is s followed by t, position by position.
Joins(u, s, t) ==
    /\ Len(s) \in Nat /\ Len(t) \in Nat /\ DOMAIN s = 1..Len(s) /\ DOMAIN t = 1..Len(t)
    /\ Len(u) = Len(s) + Len(t) /\ DOMAIN u = 1..(Len(s) + Len(t))
    /\ \A k \in 1..(Len(s) + Len(t)) : u[k] = IF k <= Len(s) THEN s[k] ELSE t[k - Len(s)]

LEMMA ConcatJoins ==
    ASSUME NEW U, NEW s \in Seq(U), NEW t \in Seq(U)
    PROVE  s \o t \in Seq(U) /\ Joins(s \o t, s, t)
BY DEF Joins

\* Where a container is in the list.
LEMMA ContainerAt ==
    ASSUME NEW T, NEW cfg, Loaded(T, cfg), NEW i \in DOMAIN Containers(cfg)
    PROVE  LET d == Containers(cfg)[i]
               w == cfg.workers
               s == cfg.sidecars
           IN  \/ i = 1 /\ d.ssh = cfg.coordinator.ssh /\ d.name = CoordinatorContainer
               \/ \E k \in DOMAIN w : i = k + 1 /\ d.ssh = w[k].ssh /\ d.name = WorkerContainer(cfg, w[k])
               \/ \E k \in DOMAIN s : /\ i = k + 1 + Len(w) /\ d.ssh = s[k].ssh
                                      /\ d.name = SidecarContainer(s[k].kind)
<1>. DEFINE c == <<[ssh |-> cfg.coordinator.ssh, name |-> CoordinatorContainer, sidecar |-> FALSE]>>
            w == [k \in DOMAIN cfg.workers |->
                    [ssh |-> cfg.workers[k].ssh, name |-> WorkerContainer(cfg, cfg.workers[k]), sidecar |-> FALSE]]
            s == [k \in DOMAIN cfg.sidecars |->
                    [ssh |-> cfg.sidecars[k].ssh, name |-> SidecarContainer(cfg.sidecars[k].kind), sidecar |-> TRUE]]
            U == {c[1]} \cup {w[k] : k \in DOMAIN cfg.workers} \cup {s[k] : k \in DOMAIN cfg.sidecars}
            n == Len(cfg.workers)
            all == Containers(cfg)
<1>1. /\ c \in Seq(U) /\ Len(c) = 1 /\ w \in Seq(U) /\ s \in Seq(U) /\ Len(w) = n
      /\ DOMAIN w = DOMAIN cfg.workers /\ DOMAIN s = DOMAIN cfg.sidecars
  <2>1. w \in [DOMAIN cfg.workers -> U] /\ s \in [DOMAIN cfg.sidecars -> U]
    OBVIOUS
  <2>2. c[1] \in U /\ c = <<c[1]>>
    OBVIOUS
  <2>. HIDE DEF c, w, s, U
  <2>3. c \in Seq(U) /\ Len(c) = 1
    BY <2>2, SingletonAt
  <2>. QED
    BY <2>1, <2>3, SameLength DEF Loaded
<1>2. all = (c \o w) \o s
  BY DEF Containers
<1>3. /\ c[1].ssh = cfg.coordinator.ssh /\ c[1].name = CoordinatorContainer
      /\ \A k \in DOMAIN w : w[k].ssh = cfg.workers[k].ssh /\ w[k].name = WorkerContainer(cfg, cfg.workers[k])
      /\ \A k \in DOMAIN s : s[k].ssh = cfg.sidecars[k].ssh /\ s[k].name = SidecarContainer(cfg.sidecars[k].kind)
  OBVIOUS
<1>. HIDE DEF c, w, s, U, n, all
<1>4. /\ n \in Nat /\ Len(s) \in Nat /\ DOMAIN w = 1..n /\ DOMAIN s = 1..Len(s)
      /\ DOMAIN all = 1..(1 + n + Len(s))
      /\ \A k \in 1..(1 + n + Len(s)) :
            all[k] = IF k <= 1 THEN c[k] ELSE IF k <= 1 + n THEN w[k - 1] ELSE s[k - (1 + n)]
  <2>. DEFINE cw == c \o w
  <2>1. cw \in Seq(U) /\ Joins(cw, c, w)
    BY <1>1, ConcatJoins
  <2>2. all = cw \o s
    BY <1>2
  <2>. HIDE DEF cw
  <2>3. Joins(all, cw, s)
    BY <1>1, <2>1, <2>2, ConcatJoins
  <2>4. \A k \in 1..(1 + n + Len(s)) : k <= 1 + n => k \in 1..(1 + n)
    BY <2>1, <1>1 DEF Joins
  <2>5. DOMAIN w = 1..n /\ DOMAIN s = 1..Len(s)
    BY <1>1, <2>1, <2>3 DEF Joins
  <2>. QED
    BY <1>1, <2>1, <2>3, <2>4, <2>5 DEF Joins
<1>5. \/ i = 1
      \/ i - 1 \in 1..n /\ i = (i - 1) + 1 /\ i <= 1 + n /\ ~(i <= 1)
      \/ i - (1 + n) \in 1..Len(s) /\ i = (i - (1 + n)) + 1 + n /\ ~(i <= 1 + n) /\ ~(i <= 1)
  BY <1>4 DEF all
<1>6. i \in 1..(1 + n + Len(s))
  BY <1>4 DEF all
<1>7. CASE i = 1
  <2>1. all[i] = c[1]
    BY <1>4, <1>6, <1>7
  <2>. QED
    BY <1>3, <1>7, <2>1 DEF all
<1>8. CASE i - 1 \in 1..n /\ i = (i - 1) + 1 /\ i <= 1 + n /\ ~(i <= 1)
  <2>. DEFINE k == i - 1
  <2>1. k \in DOMAIN w /\ i = k + 1 /\ all[i] = w[k]
    BY <1>4, <1>6, <1>8
  <2>. HIDE DEF k
  <2>. QED
    BY <1>1, <1>3, <2>1 DEF all
<1>9. CASE i - (1 + n) \in 1..Len(s) /\ i = (i - (1 + n)) + 1 + n /\ ~(i <= 1 + n) /\ ~(i <= 1)
  <2>. DEFINE k == i - (1 + n)
  <2>1. k \in DOMAIN s /\ i = k + 1 + n /\ all[i] = s[k]
    BY <1>4, <1>6, <1>9
  <2>. HIDE DEF k
  <2>. QED
    BY <1>1, <1>3, <2>1 DEF all, n
<1>. QED
  BY <1>5, <1>7, <1>8, <1>9

\* A container's name tells its kind.
LEMMA NamesByKind ==
    ASSUME NEW cfg, NEW worker, NEW kind
    PROVE  /\ CoordinatorContainer[1] = "coordinator"
           /\ WorkerContainer(cfg, worker)[1] = "worker"
           /\ SidecarContainer(kind)[1] = "sidecar" /\ SidecarContainer(kind)[2] = kind
           /\ cfg.zkvm # "zisk" => WorkerContainer(cfg, worker)[2] = DeviceID(worker)
BY DEF CoordinatorContainer, WorkerContainer, SidecarContainer

\* The workers of one host are told apart by their names.
LEMMA WorkersDiffer ==
    ASSUME NEW T, NEW cfg, Loaded(T, cfg), NEW k \in DOMAIN cfg.workers, NEW l \in DOMAIN cfg.workers,
           cfg.workers[k].ssh = cfg.workers[l].ssh, k # l
    PROVE  /\ cfg.zkvm = "openvm" /\ DeviceID(cfg.workers[k]) # DeviceID(cfg.workers[l])
           /\ WorkerContainer(cfg, cfg.workers[k]) # WorkerContainer(cfg, cfg.workers[l])
<1>1. CASE cfg.zkvm = "zisk" /\ ZiskValid(cfg)
  BY <1>1 DEF ZiskValid, IsInjective
<1>2. CASE cfg.zkvm = "openvm" /\ OpenvmValid(cfg)
  <2>1. DeviceID(cfg.workers[k]) # DeviceID(cfg.workers[l])
    BY <1>2 DEF OpenvmValid, IsInjective
  <2>. QED
    BY <1>2, <2>1, NamesByKind
<1>. QED
  BY <1>1, <1>2 DEF Loaded

\* Both loaders validate the sidecars.
LEMMA SidecarsValid ==
    ASSUME NEW T, NEW cfg, Loaded(T, cfg)
    PROVE  TelemetryValid(cfg.sidecars, Destinations(cfg))
BY DEF Loaded, ZiskValid, OpenvmValid

\* One name per container of a host, across coordinator, workers and sidecars
\* (zisk/spec.go, openvm/spec.go, cluster/sidecar.go).
LEMMA AllContainersDiffer ==
    ASSUME NEW T, NEW cfg, Loaded(T, cfg)
    PROVE  ContainersDiffer(cfg)
<1>. DEFINE c == Containers(cfg)
            w == cfg.workers
            s == cfg.sidecars
            AtHead(i) == i = 1 /\ c[i].ssh = cfg.coordinator.ssh /\ c[i].name = CoordinatorContainer
            Worker(i, k) == i = k + 1 /\ c[i].ssh = w[k].ssh /\ c[i].name = WorkerContainer(cfg, w[k])
            Sidecar(i, k) == i = k + 1 + Len(w) /\ c[i].ssh = s[k].ssh /\ c[i].name = SidecarContainer(s[k].kind)
<1>1. ASSUME NEW i \in DOMAIN c
      PROVE  AtHead(i) \/ (\E k \in DOMAIN w : Worker(i, k)) \/ (\E k \in DOMAIN s : Sidecar(i, k))
  BY ContainerAt
<1>. HIDE DEF c, w, s
<1>2. ASSUME NEW i \in DOMAIN c, NEW j \in DOMAIN c, c[i].ssh = c[j].ssh, c[i].name = c[j].name
      PROVE  i = j
  <2>1. CASE AtHead(i)
    <3>1. AtHead(j)
      BY <1>1, <1>2, <2>1, NamesByKind
    <3>. QED
      BY <2>1, <3>1
  <2>2. CASE \E k \in DOMAIN w : Worker(i, k)
    <3>1. PICK k \in DOMAIN w : Worker(i, k)
      BY <2>2
    <3>2. PICK l \in DOMAIN w : Worker(j, l)
      BY <1>1, <1>2, <3>1, NamesByKind
    <3>3. k = l
      BY <1>2, <3>1, <3>2, WorkersDiffer DEF w
    <3>. QED
      BY <3>1, <3>2, <3>3
  <2>3. CASE \E k \in DOMAIN s : Sidecar(i, k)
    <3>1. PICK k \in DOMAIN s : Sidecar(i, k)
      BY <2>3
    <3>2. PICK l \in DOMAIN s : Sidecar(j, l)
      BY <1>1, <1>2, <3>1, NamesByKind
    <3>3. s[k].ssh = s[l].ssh /\ s[k].kind = s[l].kind
      BY <1>2, <3>1, <3>2, NamesByKind
    <3>4. k = l
      BY <3>3, SidecarsValid DEF TelemetryValid, s
    <3>. QED
      BY <3>1, <3>2, <3>4
  <2>. QED
    BY <1>1, <2>1, <2>2, <2>3
<1>3. IsInjective([i \in DOMAIN c |-> <<c[i].ssh, c[i].name>>])
  BY <1>2 DEF IsInjective
<1>4. ASSUME NEW i \in DOMAIN c
      PROVE  Contains(Destinations(cfg), c[i].ssh)
  <2>1. CASE AtHead(i)
    BY <2>1, DestinationsContain DEF Loaded
  <2>2. CASE \E k \in DOMAIN w : Worker(i, k)
    BY <2>2, DestinationsContain DEF Loaded, w
  <2>3. CASE \E k \in DOMAIN s : Sidecar(i, k)
    BY <2>3, SidecarsValid DEF TelemetryValid, s
  <2>. QED
    BY <1>1, <2>1, <2>2, <2>3
<1>. QED
  BY <1>3, <1>4 DEF ContainersDiffer, c

\* The device of an OpenVM worker.
LEMMA DeviceTypes ==
    ASSUME NEW T, NEW cfg, Loaded(T, cfg), cfg.zkvm = "openvm", NEW i \in DOMAIN cfg.workers
    PROVE  DeviceID(cfg.workers[i]) \in Nat
<1>. DEFINE g == cfg.workers[i].gpus
<1>1. g \in Seq(Int)
  <2>. DEFINE R == [ssh : T, ip : T, gpus : Seq(Int)]
              w == cfg.workers
  <2>1. w \in Seq(R)
    BY DEF Loaded
  <2>2. w[i] \in R
    <3>. HIDE DEF R, w
    <3>. QED
      BY <2>1 DEF w
  <2>. QED
    BY <2>2
<1>2. g # <<>> /\ \A k \in DOMAIN g : g[k] >= 0
  BY DEF Loaded, OpenvmValid, GPUValid
<1>. HIDE DEF g
<1>3. 1 \in DOMAIN g
  BY <1>1, <1>2
<1>4. g[1] \in Int /\ g[1] >= 0
  BY <1>1, <1>2, <1>3
<1>. QED
  BY <1>4 DEF DeviceID, g

\* What each container listens on.
LEMMA CoordinatorPorts ==
    ASSUME NEW cfg
    PROVE  /\ cfg.zkvm = "zisk" => CoordinatorSpec(cfg).ports = {7000, 50051, 7002}
           /\ cfg.zkvm = "openvm" => CoordinatorSpec(cfg).ports = {3000}
BY DEF CoordinatorSpec, ZiskCoordinatorSpec, OpenvmCoordinatorSpec, ZiskAPIPort, ZiskClusterPort,
       ZiskRestartPort, OpenvmAPIPort

LEMMA WorkerPorts ==
    ASSUME NEW cfg, NEW i, NEW cpus, NEW numaNodes
    PROVE  /\ cfg.zkvm = "zisk" => WorkerSpec(cfg, i, cpus, numaNodes).ports = {7001}
           /\ cfg.zkvm = "openvm" =>
                 WorkerSpec(cfg, i, cpus, numaNodes).ports = {8001 + DeviceID(cfg.workers[i])}
BY DEF WorkerSpec, ZiskWorkerSpec, OpenvmWorkerSpec, ZiskHealthPort, WorkerPortBase

LEMMA SidecarPorts ==
    ASSUME NEW T, NEW cfg, Loaded(T, cfg), NEW k \in DOMAIN cfg.sidecars
    PROVE  \/ cfg.sidecars[k].kind = SidecarDCGM /\ SidecarSpec(cfg.sidecars[k]).ports = {9401}
           \/ cfg.sidecars[k].kind = SidecarNode /\ SidecarSpec(cfg.sidecars[k]).ports = {9402}
<1>1. cfg.sidecars[k].kind \in {SidecarDCGM, SidecarNode}
  BY SidecarsValid DEF TelemetryValid
<1>2. SidecarDCGM # SidecarNode
  BY DEF SidecarDCGM, SidecarNode
<1>. QED
  BY <1>1, <1>2 DEF SidecarSpec, DcgmPort, NodePort

\* One owner per port of a host, and one worker per GPU.
LEMMA AllResourcesDiffer ==
    ASSUME NEW T, NEW cfg, Loaded(T, cfg), NEW cpus, NEW numaNodes
    PROVE  ResourcesDiffer(cfg, cpus, numaNodes)
<1>. DEFINE spec(i) == WorkerSpec(cfg, i, cpus, numaNodes)
            side(k) == SidecarSpec(cfg.sidecars[k])
            w == cfg.workers
            s == cfg.sidecars
<1>1. ASSUME NEW i \in DOMAIN w, NEW j \in DOMAIN w, Colocated(cfg, i, j)
      PROVE  spec(i).ports \cap spec(j).ports = {} /\ spec(i).gpus \cap spec(j).gpus = {}
  <2>1. cfg.zkvm = "openvm" /\ DeviceID(w[i]) # DeviceID(w[j])
    BY <1>1, WorkersDiffer DEF Colocated
  <2>2. \A k \in {i, j} : /\ spec(k).ports = {WorkerPortBase + DeviceID(w[k])}
                          /\ spec(k).gpus = {DeviceID(w[k])}
    BY <2>1 DEF WorkerSpec, OpenvmWorkerSpec
  <2>3. WorkerPortBase + DeviceID(w[i]) # WorkerPortBase + DeviceID(w[j])
    <3>1. DeviceID(w[i]) \in Nat /\ DeviceID(w[j]) \in Nat
      BY <2>1, DeviceTypes
    <3>. QED
      BY <2>1, <3>1 DEF WorkerPortBase
  <2>. HIDE DEF spec, w
  <2>. QED
    BY <2>1, <2>2, <2>3
<1>2. \/ /\ cfg.zkvm = "zisk" /\ CoordinatorSpec(cfg).ports = {7000, 50051, 7002}
         /\ \A i \in DOMAIN w : spec(i).ports = {7001}
      \/ /\ cfg.zkvm = "openvm" /\ CoordinatorSpec(cfg).ports = {3000}
         /\ \A i \in DOMAIN w : DeviceID(w[i]) \in Nat /\ spec(i).ports = {8001 + DeviceID(w[i])}
  <2>1. CASE cfg.zkvm = "zisk"
    BY <2>1, CoordinatorPorts, WorkerPorts
  <2>2. CASE cfg.zkvm = "openvm"
    <3>1. \A i \in DOMAIN w : DeviceID(w[i]) \in Nat
      BY <2>2, DeviceTypes
    <3>. QED
      BY <2>2, <3>1, CoordinatorPorts, WorkerPorts
  <2>. QED
    BY <2>1, <2>2 DEF Loaded
<1>3. \A k \in DOMAIN s : \/ s[k].kind = SidecarDCGM /\ side(k).ports = {9401}
                          \/ s[k].kind = SidecarNode /\ side(k).ports = {9402}
  BY SidecarPorts
<1>4. ASSUME NEW i \in DOMAIN w
      PROVE  spec(i).ports \cap CoordinatorSpec(cfg).ports = {}
  <2>. HIDE DEF spec, w, s, side
  <2>1. CASE cfg.zkvm = "zisk"
    BY <1>2, <2>1
  <2>2. CASE cfg.zkvm = "openvm"
    <3>1. 8001 + DeviceID(w[i]) # 3000
      BY <1>2, <2>2
    <3>. QED
      BY <1>2, <2>2, <3>1
  <2>. QED
    BY <1>2, <2>1, <2>2
<1>5. ASSUME NEW k \in DOMAIN s, NEW l \in DOMAIN s, k # l, s[k].ssh = s[l].ssh
      PROVE  side(k).ports \cap side(l).ports = {}
  <2>1. s[k].kind # s[l].kind
    BY <1>5, SidecarsValid DEF TelemetryValid
  <2>. HIDE DEF spec, w, s, side
  <2>. QED
    BY <1>3, <2>1
<1>6. ASSUME NEW k \in DOMAIN s
      PROVE  side(k).ports \cap CoordinatorSpec(cfg).ports = {}
  <2>. HIDE DEF spec, w, s, side
  <2>1. side(k).ports \in {{9401}, {9402}}
    BY <1>3
  <2>2. CoordinatorSpec(cfg).ports \in {{7000, 50051, 7002}, {3000}}
    BY <1>2
  <2>. QED
    BY <2>1, <2>2
<1>7. ASSUME NEW k \in DOMAIN s, NEW i \in DOMAIN w,
             cfg.zkvm = "openvm" => DeviceID(w[i]) < DcgmPort - WorkerPortBase
      PROVE  side(k).ports \cap spec(i).ports = {}
  <2>. HIDE DEF spec, w, s, side
  <2>1. side(k).ports \in {{9401}, {9402}}
    BY <1>3
  <2>2. PICK p \in Nat : spec(i).ports = {p} /\ p < 9401
    <3>1. CASE cfg.zkvm = "zisk"
      BY <1>2, <3>1
    <3>2. CASE cfg.zkvm = "openvm"
      <4>1. DeviceID(w[i]) \in Nat /\ DeviceID(w[i]) < 9401 - 8001
        BY <1>2, <1>7, <3>2 DEF DcgmPort, WorkerPortBase
      <4>2. 8001 + DeviceID(w[i]) \in Nat /\ 8001 + DeviceID(w[i]) < 9401
        BY <4>1
      <4>. QED
        BY <1>2, <3>2, <4>2
    <3>. QED
      BY <1>2, <3>1, <3>2
  <2>. QED
    BY <2>1, <2>2
<1>. QED
  BY <1>1, <1>4, <1>5, <1>6, <1>7 DEF ResourcesDiffer

\* The address a worker is given leads to the coordinator's port.
LEMMA CoordinatorAlwaysReached ==
    ASSUME NEW T, NEW cfg, Loaded(T, cfg), Addressed(cfg), NEW cpus, NEW numaNodes
    PROVE  CoordinatorReached(cfg, cpus, numaNodes)
<1>. SUFFICES ASSUME NEW i \in DOMAIN cfg.workers
              PROVE  LET spec == WorkerSpec(cfg, i, cpus, numaNodes)
                         dials == IF cfg.zkvm = "zisk" THEN spec.registersAt ELSE spec.worker.managerURL
                     IN  /\ spec.image = CoordinatorSpec(cfg).image
                         /\ LeadsTo(dials, cfg.workers[i].ssh, cfg.coordinator.ssh, cfg.coordinator.ip,
                                    CoordinatorSpec(cfg).ports)
  BY DEF CoordinatorReached
<1>. DEFINE spec == WorkerSpec(cfg, i, cpus, numaNodes)
            dials == IF cfg.zkvm = "zisk" THEN spec.registersAt ELSE spec.worker.managerURL
            w == cfg.workers[i]
<1>1. /\ dials.host = IF w.ssh = cfg.coordinator.ssh THEN "127.0.0.1" ELSE cfg.coordinator.ip
      /\ dials.port \in CoordinatorSpec(cfg).ports
      /\ spec.image = CoordinatorSpec(cfg).image
  <2>1. CASE cfg.zkvm = "zisk"
    BY <2>1 DEF WorkerSpec, ZiskWorkerSpec, CoordinatorSpec, ZiskCoordinatorSpec, WorkerCoordinatorHost
  <2>2. CASE cfg.zkvm = "openvm"
    BY <2>2 DEF WorkerSpec, OpenvmWorkerSpec, WorkerTOML, ManagerURL, CoordinatorSpec, OpenvmCoordinatorSpec
  <2>. QED
    BY <2>1, <2>2 DEF Loaded
<1>2. w.ssh # cfg.coordinator.ssh => cfg.coordinator.ip # "" /\ cfg.coordinator.ip # "127.0.0.1"
  BY DEF Loaded, ZiskValid, OpenvmValid, ValidateColocation, Addressed
<1>. HIDE DEF spec, dials
<1>3. LeadsTo(dials, w.ssh, cfg.coordinator.ssh, cfg.coordinator.ip, CoordinatorSpec(cfg).ports)
  BY <1>1, <1>2 DEF LeadsTo
<1>. QED
  BY <1>1, <1>3 DEF spec, dials

\* The manager and the workers are told the same (openvm/spec.go).
LEMMA OpenvmAlwaysAgrees ==
    ASSUME NEW T, NEW cfg, Loaded(T, cfg), Addressed(cfg), cfg.zkvm = "openvm", NEW cpus, NEW numaNodes
    PROVE  OpenvmAgrees(cfg, cpus, numaNodes)
<1>. DEFINE w == cfg.workers
            spec(i) == WorkerSpec(cfg, i, cpus, numaNodes)
            coordinator == CoordinatorSpec(cfg)
            written == UNION {KeygenSpec(cfg, cfg.guests[g]).writes : g \in DOMAIN cfg.guests}
<1>1. /\ coordinator.manager.numWorkers = Len(w) /\ coordinator.manager.limits = ProverLimits(cfg)
      /\ coordinator.loadout = EdgePrograms(cfg) /\ coordinator.reads = {ArtifactsVolume(cfg)}
  BY DEF CoordinatorSpec, OpenvmCoordinatorSpec
<1>2. ASSUME NEW i \in DOMAIN w
      PROVE  /\ spec(i).worker.proverID = i - 1 /\ spec(i).worker.numProvers = Len(w)
             /\ spec(i).worker.limits = ProverLimits(cfg) /\ spec(i).loadout = EdgePrograms(cfg)
             /\ spec(i).worker.workerURL = WorkerURL(w[i]) /\ WorkerURL(w[i]).port \in spec(i).ports
             /\ spec(i).reads = {ArtifactsVolume(cfg)}
  BY DEF WorkerSpec, OpenvmWorkerSpec, WorkerTOML, WorkerURL
<1>3. DOMAIN w = 1..Len(w) /\ Len(w) \in Nat
  BY DEF Loaded
<1>4. ArtifactsVolume(cfg) \in written
  <2>1. 1 \in DOMAIN cfg.guests
    <3>. DEFINE g == cfg.guests
    <3>1. g \in Seq([elf : T, vk : T]) /\ g # <<>>
      BY DEF Loaded
    <3>. HIDE DEF g
    <3>2. 1 \in DOMAIN g
      BY <3>1
    <3>. QED
      BY <3>2 DEF g
  <2>2. ArtifactsVolume(cfg) \in KeygenSpec(cfg, cfg.guests[1]).writes
    BY DEF KeygenSpec
  <2>. QED
    BY <2>1, <2>2
<1>5. ASSUME NEW i \in DOMAIN w
      PROVE  LeadsTo(spec(i).worker.workerURL, cfg.coordinator.ssh, w[i].ssh, w[i].ip, spec(i).ports)
  <2>1. WorkerURL(w[i]).host = IF w[i].ip = "" THEN "127.0.0.1" ELSE w[i].ip
    BY DEF WorkerURL
  <2>2. w[i].ssh # cfg.coordinator.ssh => w[i].ip # "" /\ w[i].ip # "127.0.0.1"
    BY DEF Loaded, OpenvmValid, Addressed
  <2>. HIDE DEF spec, w
  <2>. QED
    BY <1>2, <2>1, <2>2 DEF LeadsTo
<1>6. \A i \in DOMAIN w : i - 1 \in 0..(Len(w) - 1)
  BY <1>3
<1>7. \A i, j \in DOMAIN w : i # j => spec(i).worker.proverID # spec(j).worker.proverID
  <2>. HIDE DEF spec, w
  <2>. QED
    BY <1>2, <1>3
<1>. HIDE DEF spec, w, coordinator, written
<1>8. ASSUME NEW i \in DOMAIN w
      PROVE  LET toml == spec(i).worker
             IN  /\ toml.proverID \in 0..(toml.numProvers - 1)
                 /\ toml.numProvers = coordinator.manager.numWorkers
                 /\ toml.limits = coordinator.manager.limits
                 /\ spec(i).loadout = coordinator.loadout
                 /\ LeadsTo(toml.workerURL, cfg.coordinator.ssh, w[i].ssh, w[i].ip, spec(i).ports)
                 /\ spec(i).reads \cup coordinator.reads \subseteq written
  BY <1>1, <1>2, <1>4, <1>5, <1>6
<1>. QED
  BY <1>1, <1>7, <1>8 DEF OpenvmAgrees, spec, w, coordinator, written

\* The units that the ZisK coordinator waits for are those that the workers
\* advertise, one after another (zisk/spec.go:42).
LEMMA UnitsAdvertised ==
    ASSUME NEW cfg, NEW cpus, NEW numaNodes, cfg.zkvm = "zisk",
           NEW S, cfg.workers \in Seq(S),
           \A i \in DOMAIN cfg.workers : Len(cfg.workers[i].gpus) \in Nat
    PROVE  UnitsAgree(cfg, cpus, numaNodes)
<1>. DEFINE w == cfg.workers
            n == Len(w)
            q == [i \in DOMAIN w |-> i]
            c == [i \in 1..n |-> Len(w[i].gpus)]
            d == [i \in 1..n |-> WorkerSpec(cfg, i, cpus, numaNodes).args.computeCapacity]
            one == FoldLeft(LAMBDA k, v : k + Len(v.gpus), 0, w)
            two == FoldLeft(LAMBDA k, i : k + WorkerSpec(cfg, i, cpus, numaNodes).args.computeCapacity, 0, q)
            Ones(g) == g = [s \in SUBSET DOMAIN w |-> IF s = {} THEN 0 ELSE g[s \ {Max(s)}] + Len(w[Max(s)].gpus)]
            Twos(h) == h = [s \in SUBSET DOMAIN q |->
                               IF s = {} THEN 0
                               ELSE h[s \ {Max(s)}] + WorkerSpec(cfg, q[Max(s)], cpus, numaNodes).args.computeCapacity]
<1>1. n \in Nat /\ DOMAIN w = 1..n /\ DOMAIN q = 1..n
  OBVIOUS
<1>2. one = (CHOOSE g : Ones(g))[DOMAIN w] /\ two = (CHOOSE h : Twos(h))[DOMAIN q]
  BY DEF FoldLeft, MapThenFoldSet
<1>3. /\ c \in [1..n -> Nat] /\ d \in [1..n -> Nat]
      /\ \A i \in 1..n : d[i] = ComputeUnitsPerGPU * c[i]
  <2>1. \A i \in 1..n : WorkerSpec(cfg, i, cpus, numaNodes).args.computeCapacity =
                        ComputeUnitsPerGPU * Len(w[i].gpus)
    BY DEF WorkerSpec, ZiskWorkerSpec, ZiskWorkerArgs
  <2>2. \A i \in 1..n : Len(w[i].gpus) \in Nat /\ ComputeUnitsPerGPU * Len(w[i].gpus) \in Nat
    BY <1>1 DEF ComputeUnitsPerGPU
  <2>. HIDE DEF w
  <2>. QED
    BY <1>1, <2>1, <2>2
<1>4. ASSUME NEW s \in SUBSET (1..n), s # {}
      PROVE  /\ c[Max(s)] = Len(w[Max(s)].gpus)
             /\ d[Max(s)] = WorkerSpec(cfg, q[Max(s)], cpus, numaNodes).args.computeCapacity
  <2>. HIDE DEF w
  <2>1. Max(s) \in 1..n
    BY <1>1, <1>4, LargestPosition
  <2>. QED
    BY <1>1, <2>1
<1>. HIDE DEF w, n, c, d, q
<1>5. \A g : Ones(g) <=> Sums(g, n, c)
  BY <1>1, <1>4 DEF Sums
<1>6. \A h : Twos(h) <=> Sums(h, n, d)
  BY <1>1, <1>4 DEF Sums
<1>. HIDE DEF Ones, Twos
<1>. DEFINE g == CHOOSE x : Ones(x)
            h == CHOOSE x : Twos(x)
<1>7. Sums(g, n, c) /\ Sums(h, n, d)
  BY <1>1, <1>3, <1>5, <1>6, SumExists
<1>. HIDE DEF g, h
<1>8. h[1..n] = ComputeUnitsPerGPU * g[1..n]
  <2>. DEFINE u == ComputeUnitsPerGPU
  <2>1. u \in Nat /\ \A i \in 1..n : d[i] = u * c[i]
    BY <1>3 DEF ComputeUnitsPerGPU
  <2>. HIDE DEF u
  <2>2. Scaled(g, h, n, u)
    BY <1>1, <1>3, <1>7, <2>1, SumScales
  <2>. QED
    BY <2>2 DEF u, Scaled
<1>9. two = ComputeUnitsPerGPU * one
  <2>1. one = g[1..n] /\ two = h[1..n]
    BY <1>1, <1>2 DEF g, h
  <2>. HIDE DEF one, two
  <2>. QED
    BY <1>8, <2>1
<1>. QED
  BY <1>9 DEF UnitsAgree, MinComputeUnits, CoordinatorSpec, ZiskCoordinatorSpec, one, two, q, w

\* The same, for any loaded file.
LEMMA UnitsAlwaysAgree ==
    ASSUME NEW T, NEW cfg, Loaded(T, cfg), cfg.zkvm = "zisk", NEW cpus, NEW numaNodes
    PROVE  UnitsAgree(cfg, cpus, numaNodes)
<1>. DEFINE R == [ssh : T, ip : T, gpus : Seq(Int)]
            w == cfg.workers
<1>1. w \in Seq(R)
  BY DEF Loaded
<1>2. \A i \in DOMAIN w : w[i] \in R
  <2>. HIDE DEF R, w
  <2>. QED
    BY <1>1
<1>3. \A i \in DOMAIN w : Len(w[i].gpus) \in Nat
  BY <1>2
<1>. HIDE DEF R
<1>. QED
  BY <1>1, <1>3, UnitsAdvertised

\* The jobs that prepare a ZisK host fit its worker.
LEMMA ZiskAlwaysAgrees ==
    ASSUME NEW T, NEW cfg, Loaded(T, cfg), cfg.zkvm = "zisk", NEW cpus, NEW numaNodes \in Int
    PROVE  ZiskAgrees(cfg, cpus, numaNodes)
<1>. DEFINE w == cfg.workers
            spec(i) == WorkerSpec(cfg, i, cpus, numaNodes)
            coordinator == CoordinatorSpec(cfg)
<1>1. coordinator.writes = {CacheVolume(cfg)}
  BY DEF CoordinatorSpec, ZiskCoordinatorSpec
<1>2. ASSUME NEW i \in DOMAIN w
      PROVE  /\ spec(i).gpus = Range(w[i].gpus)
             /\ spec(i).writes = {ProvingKeyVolume(cfg), CacheVolume(cfg)}
             /\ spec(i).args = ZiskWorkerArgs(cfg, w[i], HostTopology(cfg, numaNodes))
  BY DEF WorkerSpec, ZiskWorkerSpec
<1>3. ASSUME NEW i \in DOMAIN w
      PROVE  ZiskWorkerArgs(cfg, w[i], HostTopology(cfg, numaNodes)).ranksPerNuma >= 1
  <2>. DEFINE topology == HostTopology(cfg, numaNodes)
              np == cfg.prover["mpi_np"]
              given == cfg.prover["mpi_numa_ppr"]
              nodes == IF topology >= 1 THEN topology ELSE 1
              ranks == np \div nodes
  <2>1. np \in Int /\ given \in Int /\ given >= 0
    <3>1. "mpi_np" \in ZiskSettings /\ "mpi_numa_ppr" \in ZiskSettings
      BY DEF ZiskSettings
    <3>. QED
      BY <3>1 DEF Loaded, ZiskValid
  <2>2. topology \in Int
    BY DEF HostTopology
  <2>3. ZiskWorkerArgs(cfg, w[i], topology).ranksPerNuma =
            IF given = 0 THEN IF ranks >= 1 THEN ranks ELSE 1 ELSE given
    BY DEF ZiskWorkerArgs
  <2>. HIDE DEF topology, np, given
  <2>4. nodes \in Nat \ {0}
    BY <2>2
  <2>. HIDE DEF nodes
  <2>5. ranks \in Int
    BY <2>1, <2>4
  <2>. HIDE DEF ranks
  <2>6. (IF given = 0 THEN IF ranks >= 1 THEN ranks ELSE 1 ELSE given) >= 1
    BY <2>1, <2>5
  <2>. QED
    BY <2>3, <2>6 DEF topology
<1>4. ASSUME NEW i \in DOMAIN w
      PROVE  /\ SetupSpec(cfg, w[i]).gpus = Range(w[i].gpus)
             /\ SetupSpec(cfg, w[i]).writes = {ProvingKeyVolume(cfg)}
             /\ \A g \in DOMAIN cfg.guests : ProgramSetupSpec(cfg, w[i], cfg.guests[g]).writes =
                                               {ProvingKeyVolume(cfg), CacheVolume(cfg)}
  BY DEF SetupSpec, ProgramSetupSpec
<1>5. ASSUME NEW i \in DOMAIN w
      PROVE  /\ spec(i).args.ranksPerNuma >= 1
             /\ SetupSpec(cfg, w[i]).gpus = spec(i).gpus
             /\ SetupSpec(cfg, w[i]).writes \subseteq spec(i).writes
             /\ \A g \in DOMAIN cfg.guests :
                   ProgramSetupSpec(cfg, w[i], cfg.guests[g]).writes
                       \subseteq spec(i).writes \cup coordinator.writes
  <2>. HIDE DEF spec, w, coordinator
  <2>. QED
    BY <1>1, <1>2, <1>3, <1>4
<1>. QED
  BY <1>5 DEF ZiskAgrees

----------------------------------------------------------------------------
(* The CPUs of a host.                                                     *)

\* The quotient by the workers of a host is a share for each.
LEMMA ShareBounds ==
    ASSUME NEW n \in Nat, n >= 1, NEW cpus \in Nat, cpus >= n,
           NEW share, share = cpus \div n
    PROVE  share \in Nat /\ share >= 1 /\ n * share <= cpus
<1>1. share \in Nat
  OBVIOUS
<1>2. cpus = n * share + (cpus % n) /\ cpus % n \in Nat
  OBVIOUS
<1>3. n * share <= cpus
  <2>1. n * share \in Nat
    BY <1>1
  <2>. QED
    BY <1>2, <2>1
<1>4. share # 0
  <2>1. share = 0 => cpus = cpus % n
    BY <1>2
  <2>2. cpus % n < n
    OBVIOUS
  <2>. QED
    BY <2>1, <2>2
<1>. QED
  BY <1>1, <1>3, <1>4

\* Multiplication is monotonic.
LEMMA Scaling ==
    ASSUME NEW a \in Nat, NEW b \in Nat, a <= b, NEW s \in Nat
    PROVE  a * s \in Nat /\ b * s \in Nat /\ a * s <= b * s
<1>. DEFINE k == b - a
<1>1. k \in Nat /\ b = a + k
  OBVIOUS
<1>. HIDE DEF k
<1>2. (a + k) * s = a * s + k * s /\ k * s \in Nat /\ a * s \in Nat
  BY <1>1
<1>3. b * s = a * s + k * s
  BY <1>1, <1>2
<1>. QED
  BY <1>2, <1>3

\* Every worker of a host has CPUs, which no other one has.
LEMMA CpusetsDiffer ==
    ASSUME NEW n \in Nat, NEW cpus \in Nat, cpus >= n, NEW p \in 0..(n - 1)
    PROVE  /\ CpusetCPUs(p, n, cpus) # {}
           /\ CpusetCPUs(p, n, cpus) \subseteq 0..(cpus - 1)
           /\ \A q \in 0..(n - 1) : q # p => CpusetCPUs(p, n, cpus) \cap CpusetCPUs(q, n, cpus) = {}
<1>. DEFINE share == cpus \div n
            LastCPU(q) == IF q = n - 1 THEN cpus - 1 ELSE (q + 1) * share - 1
<1>1. n >= 1
  OBVIOUS
<1>2. share \in Nat /\ share >= 1 /\ n * share <= cpus
  BY <1>1, ShareBounds
<1>3. \A q : CpusetCPUs(q, n, cpus) = (q * share)..LastCPU(q)
  BY DEF CpusetCPUs
<1>. HIDE DEF share
<1>4. ASSUME NEW q \in 0..(n - 1)
      PROVE  /\ q * share \in Nat /\ (q + 1) * share \in Nat /\ (q + 1) * share = q * share + share
             /\ (q + 1) * share <= cpus
  <2>1. q \in Nat /\ q + 1 \in Nat /\ q + 1 <= n
    BY <1>1
  <2>2. (q + 1) * share <= n * share /\ (q + 1) * share \in Nat /\ n * share \in Nat
    BY <1>2, <2>1, Scaling
  <2>3. (q + 1) * share = q * share + share /\ q * share \in Nat
    BY <1>2, <2>1
  <2>. QED
    BY <1>2, <2>2, <2>3
<1>5. ASSUME NEW q \in 0..(n - 1)
      PROVE  /\ q * share <= LastCPU(q) /\ LastCPU(q) <= cpus - 1 /\ LastCPU(q) \in Nat
  <2>. DEFINE x == q * share
              y == (q + 1) * share
  <2>1. x \in Nat /\ y \in Nat /\ y = x + share /\ y <= cpus
    BY <1>4
  <2>. HIDE DEF x, y
  <2>2. LastCPU(q) \in {cpus - 1, y - 1}
    BY DEF y
  <2>3. x <= LastCPU(q) /\ LastCPU(q) <= cpus - 1 /\ LastCPU(q) \in Nat
    <3>. HIDE DEF LastCPU
    <3>. QED
      BY <1>2, <2>1, <2>2
  <2>. QED
    BY <2>3 DEF x
<1>6. ASSUME NEW q \in 0..(n - 1), NEW r \in 0..(n - 1), q < r
      PROVE  LastCPU(q) < r * share
  <2>1. q # n - 1 /\ q + 1 \in Nat /\ r \in Nat /\ q + 1 <= r
    BY <1>6
  <2>2. (q + 1) * share <= r * share /\ (q + 1) * share \in Nat /\ r * share \in Nat
    BY <1>2, <2>1, Scaling
  <2>3. LastCPU(q) = (q + 1) * share - 1
    BY <2>1
  <2>. HIDE DEF LastCPU
  <2>. QED
    BY <2>2, <2>3
<1>7. ASSUME NEW q \in 0..(n - 1), q # p
      PROVE  CpusetCPUs(p, n, cpus) \cap CpusetCPUs(q, n, cpus) = {}
  <2>. DEFINE x == p * share
              y == q * share
  <2>1. LastCPU(p) < y \/ LastCPU(q) < x
    <3>1. p < q \/ q < p
      BY <1>7
    <3>. HIDE DEF LastCPU
    <3>. QED
      BY <1>6, <3>1
  <2>2. x \in Nat /\ y \in Nat /\ LastCPU(p) \in Nat /\ LastCPU(q) \in Nat
    BY <1>4, <1>5
  <2>3. CpusetCPUs(p, n, cpus) = x..LastCPU(p) /\ CpusetCPUs(q, n, cpus) = y..LastCPU(q)
    BY <1>3
  <2>. HIDE DEF x, y, LastCPU
  <2>. QED
    BY <2>1, <2>2, <2>3
<1>8. CpusetCPUs(p, n, cpus) # {} /\ CpusetCPUs(p, n, cpus) \subseteq 0..(cpus - 1)
  <2>. DEFINE x == p * share
  <2>1. x \in Nat /\ x <= LastCPU(p) /\ LastCPU(p) <= cpus - 1 /\ LastCPU(p) \in Nat
    BY <1>4, <1>5
  <2>2. CpusetCPUs(p, n, cpus) = x..LastCPU(p)
    BY <1>3
  <2>. HIDE DEF x, LastCPU
  <2>3. x \in x..LastCPU(p)
    BY <2>1
  <2>. QED
    BY <2>1, <2>2, <2>3
<1>. QED
  BY <1>7, <1>8

\* The place of a worker among those of its host.
LEMMA PositionOnHost ==
    ASSUME NEW T, NEW cfg, Loaded(T, cfg), NEW i \in DOMAIN cfg.workers
    PROVE  LET group == HostWorkers(cfg, cfg.workers[i].ssh)
           IN  /\ Len(group) \in Nat
               /\ Position(cfg, i) \in 0..(Len(group) - 1)
               /\ group[Position(cfg, i) + 1] = i
<1>. DEFINE group == HostWorkers(cfg, cfg.workers[i].ssh)
            G == OnHost(cfg, cfg.workers[i].ssh)
<1>1. group \in Seq(G) /\ Range(group) = G
  BY HostWorkersListed DEF Loaded
<1>2. i \in G
  BY DEF OnHost
<1>3. Position(cfg, i) = (CHOOSE p \in DOMAIN group : group[p] = i) - 1
  BY DEF Position
<1>. HIDE DEF group, G
<1>4. \E p \in DOMAIN group : group[p] = i
  BY <1>1, <1>2 DEF Range
<1>5. PICK p \in DOMAIN group : group[p] = i /\ Position(cfg, i) = p - 1
  BY <1>3, <1>4
<1>6. DOMAIN group = 1..Len(group) /\ Len(group) \in Nat
  BY <1>1
<1>7. Position(cfg, i) \in 0..(Len(group) - 1) /\ Position(cfg, i) + 1 = p
  BY <1>5, <1>6
<1>. QED
  BY <1>5, <1>6, <1>7 DEF group

\* The CPU sets of one host's workers are nonempty and apart.
LEMMA AllCPUsDiffer ==
    ASSUME NEW T, NEW cfg, Loaded(T, cfg), cfg.zkvm = "openvm", NEW cpus \in Nat, NEW numaNodes
    PROVE  CPUsDiffer(cfg, cpus, numaNodes)
<1>. DEFINE w == cfg.workers
            spec(i) == WorkerSpec(cfg, i, cpus, numaNodes)
            group(i) == HostWorkers(cfg, w[i].ssh)
<1>1. \A i \in DOMAIN w : spec(i).cpus = CpusetCPUs(Position(cfg, i), Len(group(i)), cpus)
  BY DEF WorkerSpec, OpenvmWorkerSpec
<1>2. \A i \in DOMAIN w : /\ Len(group(i)) \in Nat /\ Position(cfg, i) \in 0..(Len(group(i)) - 1)
                          /\ group(i)[Position(cfg, i) + 1] = i
  BY PositionOnHost
<1>3. \A i, j \in DOMAIN w : Colocated(cfg, i, j) => group(i) = group(j) /\ i # j
  BY DEF Colocated
<1>4. \A i \in DOMAIN w : CanSplitCPUs(cfg, w[i].ssh, cpus) <=> cpus >= Len(group(i))
  BY DEF CanSplitCPUs
<1>. HIDE DEF w, spec, group
<1>5. ASSUME NEW i \in DOMAIN w, CanSplitCPUs(cfg, w[i].ssh, cpus)
      PROVE  /\ spec(i).cpus # {} /\ spec(i).cpus \subseteq 0..(cpus - 1)
             /\ \A j \in DOMAIN w : Colocated(cfg, i, j) => spec(i).cpus \cap spec(j).cpus = {}
  <2>. DEFINE n == Len(group(i))
              p == Position(cfg, i)
  <2>1. n \in Nat /\ cpus >= n /\ p \in 0..(n - 1) /\ spec(i).cpus = CpusetCPUs(p, n, cpus)
    BY <1>1, <1>2, <1>4, <1>5
  <2>2. ASSUME NEW j \in DOMAIN w, Colocated(cfg, i, j)
        PROVE  /\ Position(cfg, j) \in 0..(n - 1) /\ Position(cfg, j) # p
               /\ spec(j).cpus = CpusetCPUs(Position(cfg, j), n, cpus)
    BY <1>1, <1>2, <1>3, <2>2
  <2>. HIDE DEF n, p
  <2>3. spec(i).cpus # {} /\ spec(i).cpus \subseteq 0..(cpus - 1)
    BY <2>1, CpusetsDiffer
  <2>4. ASSUME NEW j \in DOMAIN w, Colocated(cfg, i, j)
        PROVE  spec(i).cpus \cap spec(j).cpus = {}
    <3>. DEFINE q == Position(cfg, j)
    <3>1. q \in 0..(n - 1) /\ q # p /\ spec(j).cpus = CpusetCPUs(q, n, cpus)
      BY <2>2, <2>4
    <3>. HIDE DEF q
    <3>. QED
      BY <2>1, <3>1, CpusetsDiffer
  <2>. QED
    BY <2>3, <2>4
<1>. QED
  BY <1>5 DEF CPUsDiffer, w, spec

\* What any valid file deploys fits together, on hosts with any number of CPUs
\* and NUMA nodes, unless the file has hosts dial each other at 127.0.0.1: the
\* names and ports of a host's containers (short of OpenVM device 1400), the
\* GPUs and CPUs of its workers, addresses and volumes, and what the coordinator
\* and its workers must be told alike (SpecsAgree).
THEOREM SpecificationsAgree ==
    \A T : \A file \in Files(T), cpus \in Nat, numaNodes \in Int :
        SpecsAgree(file, cpus, numaNodes)
<1>. SUFFICES ASSUME NEW T, NEW file \in Files(T), NEW cpus \in Nat, NEW numaNodes \in Int,
                     Valid(file), Addressed(file)
              PROVE  LET cfg == WithDefaults(file)
                     IN  /\ ContainersDiffer(cfg)
                         /\ ResourcesDiffer(cfg, cpus, numaNodes)
                         /\ CoordinatorReached(cfg, cpus, numaNodes)
                         /\ cfg.zkvm = "zisk" => UnitsAgree(cfg, cpus, numaNodes) /\ ZiskAgrees(cfg, cpus, numaNodes)
                         /\ cfg.zkvm = "openvm" => /\ OpenvmAgrees(cfg, cpus, numaNodes)
                                                   /\ CPUsDiffer(cfg, cpus, numaNodes)
  BY DEF SpecsAgree
<1>. DEFINE cfg == WithDefaults(file)
<1>1. Loaded(T, cfg) /\ Addressed(cfg)
  BY LoadedFiles
<1>. HIDE DEF cfg
<1>. QED
  BY <1>1, AllContainersDiffer, AllResourcesDiffer, CoordinatorAlwaysReached, UnitsAlwaysAgree,
     ZiskAlwaysAgrees, OpenvmAlwaysAgrees, AllCPUsDiffer DEF cfg
=============================================================================
