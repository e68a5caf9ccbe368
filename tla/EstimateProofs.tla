--------------------------- MODULE EstimateProofs ---------------------------
(***************************************************************************)
(* Proofs about Estimate, for any tests, guests, workers, identifiers,     *)
(* interval between saves, commands and faults.                            *)
(***************************************************************************)
EXTENDS Estimate, FiniteSetTheorems, TLAPS

\* A command that completes an artifact, and the part of it with workers.
Working ==
  {"prepare", "start", "link", "collect", "save", "saveMirror", "finalSave", "finalMirror"}
Collecting == {"collect", "save", "saveMirror"}

\* The process ends, and leaves the disk as it is.
Ends == PrepareFails \/ StartFails \/ CloseServer \/ Crash

Own == art[cmd.kind][cmd.id]
Estimated == art["estimate"][cmd.id]

\* A worker is busy with a test, and there are as many as live ones at most.
JobInv ==
  /\ job \in [Tests -> {<<None>>, <<"measure">>, <<"write", "costs">>, <<"send", "costs">>,
                        <<"send", "failures">>}]
  /\ IsFiniteSet(Busy) /\ Cardinality(Busy) <= live
  /\ pc \notin Collecting => Busy = {} /\ ~walking

\* Every record of an artifact is of its guest, and no test has two verdicts.
Sound(a, guest) ==
  /\ \A r \in a.costs \union a.failures : r[2] = guest
  /\ TestsOf(a.costs) \intersect TestsOf(a.failures) = {}

\* What a command holds in memory is sound, and each test is in one place: to
\* be sent, with a worker, or recorded.
MemoryInv ==
  pc \in Working =>
    /\ cmd.kind \in Kinds /\ cmd.guest \in Guests
    /\ result.guest = cmd.guest
    /\ Sound(result, cmd.guest)
    /\ Sound(mirror, cmd.guest)
    /\ (todo \union Busy) \intersect Recorded(result) = {}
    /\ todo \intersect Busy = {}

\* The artifact in memory holds what is on disk, and the mirror in memory with
\* it what is on disk of the mirror, unless that is of another guest.
GrowthInv ==
  pc \in Working =>
    /\ Own.costs \subseteq result.costs /\ Own.failures \subseteq result.failures
    /\ cmd.kind = "estimate" => mirror = Empty
    /\ mirror # Empty => Recorded(Estimated) \subseteq Recorded(mirror) \union Recorded(result)
    /\ cmd.kind = "profile" /\ mirror = Empty => Estimated.guest \notin {cmd.guest, None}

\* A cost of the profile has its file, or a source of it that is still linked
\* to no other purpose than to give the test its first file.
FileInv ==
  pc \in Working =>
    /\ cmd.kind = "profile" =>
         \A r \in result.costs : r \in files[cmd.id] \/ r[1] \in TestsOf(sources)
    /\ \A s \in sources :
         /\ cmd.kind = "profile"
         /\ s[2] \in Ids \ {cmd.id} /\ <<s[1], cmd.guest>> \in files[s[2]]
         /\ s[1] \notin TestsOf(Own.costs)
    /\ pc \notin {"prepare", "start", "link"} => sources = {}
    /\ cmd.kind = "profile" =>
         \A t \in Tests : job[t] = <<"send", "costs">> => <<t, cmd.guest>> \in files[cmd.id]
    /\ \A t \in Tests : job[t] = <<"write", "costs">> => cmd.kind = "profile"

\* The mirror has what the profile has.
Complete ==
  Estimated.guest \in {Own.guest, None} =>
    Own.costs \subseteq Estimated.costs /\ Own.failures \subseteq Estimated.failures

\* The last save leaves the artifact as it is in memory, and its mirror.
DoneInv ==
  /\ pc = "finalMirror" => Own = result
  /\ pc \in {"close", "idle"} /\ last = "ok" /\ cmd.kind = "profile" => Complete

IInv ==
  TypeOK /\ JobInv /\ MemoryInv /\ GrowthInv /\ FileInv /\ DoneInv
    /\ ArtifactsSound /\ FilesFollowRecords /\ NoServerLeft
-----------------------------------------------------------------------------
(* The state keeps its shape *)

LEMMA EmptyType == Empty \in Artifact /\ Recorded(Empty) = {} /\ Empty.guest = None
  /\ Empty.costs = {} /\ Empty.failures = {}
BY DEF Empty, Artifact, Recorded, TestsOf

LEMMA BoolInit ==
  Init => walking \in BOOLEAN /\ failed \in BOOLEAN /\ saveErr \in BOOLEAN /\ server = "none"
BY Zenon DEF Init

LEMMA InitType == Init => TypeOK
<1> SUFFICES ASSUME Init
             PROVE  TypeOK
  OBVIOUS
<1>. USE EstimateAssumption, EmptyType
<1>1. PICK records \in {{}, {<<CHOOSE t \in Tests : TRUE, RunGuest>>}}, lags \in BOOLEAN :
        LET left == [guest |-> RunGuest, costs |-> records, failures |-> {}]
        IN  /\ art = [k \in Kinds |-> [i \in Ids |->
                        IF records # {} /\ i = FreshIds /\ ~(lags /\ k = "estimate")
                        THEN left ELSE Empty]]
            /\ files = [i \in Ids |-> IF i = FreshIds THEN records ELSE {}]
  BY DEF Init
<1>2. (CHOOSE t \in Tests : TRUE) \in Tests
  OBVIOUS
<1>3. records \subseteq Records
  BY <1>2 DEF Records
<1>4. art \in [Kinds -> [Ids -> Artifact]]
  BY <1>1, <1>3 DEF Artifact
<1>5. files \in [Ids -> SUBSET Records]
  BY <1>1, <1>3
<1>6. /\ pc = "idle" /\ cmd = [kind |-> None, id |-> RunId, guest |-> None]
      /\ result = Empty /\ mirror = Empty /\ sources = {} /\ todo = {}
      /\ live = 0 /\ job = [t \in Tests |-> <<None>>] /\ ctx = "live" /\ unsaved = 0
      /\ last = "ok" /\ commands = 0 /\ faults = 0
  BY DEF Init
<1>7. cmd \in [kind : Kinds \union {None}, id : Ids, guest : Guests \union {None}]
  BY <1>6 DEF Ids, RunId
<1>. QED
  BY <1>4, <1>5, <1>6, <1>7, BoolInit DEF TypeOK

-----------------------------------------------------------------------------
(* What a command starts from *)

LEMMA LenderFacts ==
  ASSUME TypeOK, NEW kind \in Kinds, NEW id \in Ids, NEW guest \in Guests, NEW t \in Tests,
         NEW i \in Lender(kind, id, guest, t)
  PROVE  /\ i \in Ids \ {id} /\ art[kind][i] \in Artifact
         /\ art[kind][i].guest = guest
         /\ \A j \in Lender(kind, id, guest, t) : j = i
<1>1. i \in Ids \ {id} /\ art[kind][i].guest = guest
  BY DEF Lender, Lenders, SameEstimation
<1>2. art[kind][i] \in Artifact
  BY <1>1 DEF TypeOK
<1>3. ASSUME NEW j \in Lender(kind, id, guest, t)
      PROVE  j = i
  <2>1. i \in Ids /\ j \in Ids /\ i <= j /\ j <= i
    BY DEF Lender, Lenders
  <2>. QED
    BY <2>1, EstimateAssumption DEF Ids, RunId
<1>. QED
  BY <1>1, <1>2, <1>3

LEMMA ReusedFacts ==
  ASSUME TypeOK, ArtifactsSound, NEW kind \in Kinds, NEW id \in Ids, NEW guest \in Guests,
         NEW pending \in SUBSET Tests, NEW field \in {"costs", "failures"},
         NEW r \in Reused(kind, id, guest, pending, field)
  PROVE  /\ r \in Records /\ r[1] \in pending /\ r[2] = guest
         /\ \E i \in Lender(kind, id, guest, r[1]) : r \in art[kind][i][field]
<1>1. PICK i \in Ids : r \in art[kind][i][field] /\ r[1] \in pending /\ i \in Lender(kind, id, guest, r[1])
  BY DEF Reused
<1>2. art[kind][i] \in Artifact /\ art[kind][i].guest = guest
  BY <1>1, LenderFacts
<1>3. r \in art[kind][i].costs \union art[kind][i].failures
  BY <1>1
<1>4. r[2] = guest
  BY <1>2, <1>3 DEF ArtifactsSound, NoForeignRecord
<1>5. r \in Records
  BY <1>2, <1>3 DEF Artifact
<1>. QED
  BY <1>1, <1>4, <1>5

\* The artifact a command starts with, and its sources.
Started(kind, id, guest) ==
  LET own == art[kind][id]
      lent(field) == Reused(kind, id, guest, PendingTests(own), field)
  IN  [guest |-> guest, costs |-> own.costs \union lent("costs"),
       failures |-> own.failures \union lent("failures")]

LEMMA StartedFacts ==
  ASSUME TypeOK, ArtifactsSound, NEW kind \in Kinds, NEW id \in Ids, NEW guest \in Guests,
         Resumable(art[kind][id], guest)
  PROVE  /\ Started(kind, id, guest) \in Artifact
         /\ Sound(Started(kind, id, guest), guest)
<1>. DEFINE own == art[kind][id]
            lent(field) == Reused(kind, id, guest, PendingTests(own), field)
            started == Started(kind, id, guest)
<1>1. own \in Artifact
  BY DEF TypeOK
<1>2. PendingTests(own) \in SUBSET Tests
  BY DEF PendingTests
<1>3. /\ started.guest = guest
      /\ started.costs = own.costs \union lent("costs")
      /\ started.failures = own.failures \union lent("failures")
  BY DEF Started
<1>4. ASSUME NEW r \in own.costs \union own.failures
      PROVE  r \in Records /\ r[2] = guest /\ r[1] \notin PendingTests(own)
  BY <1>1, <1>4 DEF Artifact, ArtifactsSound, NoForeignRecord, Resumable, PendingTests, Recorded, TestsOf
<1>5. ASSUME NEW field \in {"costs", "failures"}, NEW r \in lent(field)
      PROVE  /\ r \in Records /\ r[2] = guest /\ r[1] \in PendingTests(own)
             /\ \E i \in Lender(kind, id, guest, r[1]) : r \in art[kind][i][field]
  BY <1>2, <1>5, ReusedFacts
<1>6. started.costs \subseteq Records /\ started.failures \subseteq Records
  BY <1>3, <1>4, <1>5
<1>7. \A r \in started.costs \union started.failures : r[2] = guest
  BY <1>3, <1>4, <1>5
<1>8. ASSUME NEW c \in started.costs, NEW f \in started.failures, c[1] = f[1]
      PROVE  FALSE
  <2>1. CASE c \in own.costs /\ f \in own.failures
    BY <1>8, <2>1 DEF ArtifactsSound, OneVerdict, TestsOf
  <2>2. CASE c \in own.costs /\ f \in lent("failures")
    BY <1>4, <1>5, <1>8, <2>2
  <2>3. CASE c \in lent("costs") /\ f \in own.failures
    BY <1>4, <1>5, <1>8, <2>3
  <2>4. CASE c \in lent("costs") /\ f \in lent("failures")
    <3>1. PICK i \in Lender(kind, id, guest, c[1]) : c \in art[kind][i]["costs"]
      BY <1>5, <2>4
    <3>2. PICK j \in Lender(kind, id, guest, c[1]) : f \in art[kind][j]["failures"]
      BY <1>5, <1>8, <2>4
    <3>3. c[1] \in Tests
      BY <1>5, <2>4 DEF Records
    <3>4. i = j /\ i \in Ids /\ art[kind][i] \in Artifact
      BY <3>1, <3>2, <3>3, LenderFacts
    <3>5. c \in art[kind][i].costs /\ f \in art[kind][i].failures
      BY <3>1, <3>2, <3>4
    <3>. QED
      BY <1>8, <3>4, <3>5 DEF ArtifactsSound, OneVerdict, TestsOf
  <2>. QED
    BY <1>3, <1>8, <2>1, <2>2, <2>3, <2>4
<1>9. started \in Artifact
  BY <1>3, <1>6 DEF Started, Artifact
<1>. QED
  BY <1>7, <1>8, <1>9 DEF Sound, TestsOf

LEMMA MirrorFacts ==
  ASSUME TypeOK, ArtifactsSound, NEW kind \in Kinds, NEW id \in Ids, NEW guest \in Guests
  PROVE  LET mir == ReadMirror(kind, id, guest)
             estimate == art["estimate"][id]
         IN  /\ mir \in Artifact
             /\ Sound(mir, guest)
             /\ kind = "estimate" => mir = Empty
             /\ mir # Empty => Recorded(estimate) \subseteq Recorded(mir)
             /\ kind = "profile" /\ mir = Empty => estimate.guest \notin {guest, None}
<1>. DEFINE estimate == art["estimate"][id]
            mir == ReadMirror(kind, id, guest)
<1>. USE EstimateAssumption, EmptyType
<1>1. estimate \in Artifact /\ "estimate" \in Kinds
  BY DEF TypeOK, Kinds
<1>2. CASE kind # "profile"
  BY <1>2 DEF ReadMirror, Sound, TestsOf, Kinds
<1>3. CASE kind = "profile" /\ estimate = Empty
  <2>1. mir = [Empty EXCEPT !.guest = guest]
    BY <1>3 DEF ReadMirror
  <2>2. mir \in Artifact /\ mir.guest = guest /\ mir.costs = {} /\ mir.failures = {}
    BY <2>1 DEF Empty, Artifact
  <2>. QED
    BY <1>3, <2>2 DEF Sound, TestsOf, None
<1>4. CASE kind = "profile" /\ estimate # Empty /\ estimate.guest = guest
  <2>1. mir = estimate
    BY <1>4 DEF ReadMirror, SameEstimation
  <2>. QED
    BY <1>1, <1>4, <2>1 DEF ArtifactsSound, NoForeignRecord, OneVerdict, Sound
<1>5. CASE kind = "profile" /\ estimate # Empty /\ estimate.guest # guest
  <2>1. mir = Empty
    BY <1>5 DEF ReadMirror, SameEstimation
  <2>2. ASSUME estimate.guest = None
        PROVE  FALSE
    <3>1. \A r \in estimate.costs \union estimate.failures : r[2] = None
      BY <1>1, <2>2 DEF ArtifactsSound, NoForeignRecord
    <3>2. \A r \in estimate.costs \union estimate.failures : r[2] \in Guests
      BY <1>1 DEF Artifact, Records
    <3>3. estimate.costs = {} /\ estimate.failures = {}
      BY <3>1, <3>2 DEF None
    <3>. QED
      BY <1>1, <1>5, <2>2, <3>3 DEF Artifact, Empty
  <2>. QED
    BY <1>5, <2>1, <2>2 DEF Sound, TestsOf
<1>. QED
  BY <1>2, <1>3, <1>4, <1>5

-----------------------------------------------------------------------------
(* Every step keeps the types *)

\* What a starting command holds in memory.
LEMMA StartType ==
  ASSUME TypeOK, ArtifactsSound, NEW kind \in Kinds, NEW id \in Ids, NEW guest \in Guests,
         StartCommand(kind, id, guest)
  PROVE  TypeOK'
<1>. USE EstimateAssumption
<1>1. /\ result' \in Artifact /\ mirror' \in Artifact /\ sources' \subseteq Tests \X Ids
      /\ todo' \subseteq Tests
      /\ pc' \in {"idle", "prepare", "link"} /\ last' \in {"error", last}
  <2>1. CASE Resumable(art[kind][id], guest)
    <3>1. result' = Started(kind, id, guest) /\ mirror' = ReadMirror(kind, id, guest)
      <4>. DEFINE own == [art[kind][id] EXCEPT !.guest = guest]
      <4>1. own.costs = art[kind][id].costs /\ own.failures = art[kind][id].failures
        BY DEF TypeOK, Artifact
      <4>2. PendingTests(own) = PendingTests(art[kind][id])
        BY <4>1 DEF PendingTests, Recorded
      <4>. QED
        BY <2>1, <4>1, <4>2 DEF StartCommand, Started
    <3>2. result' \in Artifact /\ mirror' \in Artifact
      BY <2>1, <3>1, StartedFacts, MirrorFacts
    <3>3. sources' \subseteq Tests \X Ids
      <4>. DEFINE pending == PendingTests([art[kind][id] EXCEPT !.guest = guest])
                  lent == Reused(kind, id, guest, pending, "costs")
      <4>1. pending \in SUBSET Tests
        BY DEF PendingTests
      <4>2. TestsOf(lent) \subseteq Tests
        BY <4>1, ReusedFacts DEF TestsOf
      <4>3. \/ sources' = {s \in TestsOf(lent) \X Ids : s[2] \in Lender(kind, id, guest, s[1])}
            \/ sources' = {}
        BY <2>1 DEF StartCommand
      <4>. QED
        BY <4>2, <4>3
    <3>4. todo' = PendingTests(result')
      BY <2>1 DEF StartCommand
    <3>. QED
      BY <2>1, <3>2, <3>3, <3>4 DEF StartCommand, PendingTests
  <2>2. CASE ~Resumable(art[kind][id], guest)
    BY <2>2 DEF StartCommand, TypeOK
  <2>. QED
    BY <2>1, <2>2
<1>2. /\ server' = "none" /\ UNCHANGED <<art, files, walking, live, job, failed, unsaved, saveErr, faults>>
      /\ cmd' = [kind |-> kind, id |-> id, guest |-> guest] /\ ctx' = "live"
      /\ commands < MaxCommands /\ commands' = commands + 1
  BY DEF StartCommand, disk
<1>3. /\ walking' \in BOOLEAN /\ failed' \in BOOLEAN /\ saveErr' \in BOOLEAN
      /\ server' \in {"none", "created", "running"}
  BY Zenon, <1>2 DEF TypeOK
<1>4. /\ cmd' \in [kind : Kinds \union {None}, id : Ids, guest : Guests \union {None}]
      /\ commands' \in 0..MaxCommands /\ faults' \in 0..MaxFaults
  BY <1>2 DEF TypeOK
<1>5. /\ art' \in [Kinds -> [Ids -> Artifact]] /\ files' \in [Ids -> SUBSET Records]
      /\ live' \in 0..Concurrency /\ unsaved' \in 0..Interval - 1
      /\ \A t \in Tests : job'[t] \in {<<None>>, <<"measure">>, <<"write", "costs">>,
                                 <<"send", "costs">>, <<"send", "failures">>}
  BY <1>2 DEF TypeOK
<1>. QED
  BY <1>1, <1>2, <1>3, <1>4, <1>5 DEF TypeOK

\* An idle job is no longer than the others, which tells them apart.
LEMMA JobValues ==
  /\ <<None>> # <<"measure">> /\ <<None>> # <<"write", "costs">>
  /\ <<None>> # <<"send", "costs">> /\ <<None>> # <<"send", "failures">>
BY DEF None

\* The first part of a job tells what it is.
LEMMA JobHeads ==
  ASSUME JobInv, NEW t \in Tests
  PROVE  /\ job[t][1] = "measure" => job[t] = <<"measure">>
         /\ job[t][1] = "write" => job[t] = <<"write", "costs">>
         /\ job[t][1] = "send" => job[t] \in {<<"send", "costs">>, <<"send", "failures">>}
         /\ t \in Busy <=> job[t][1] \in {"measure", "write", "send"}
<1>1. CASE job[t] = <<None>>
  BY <1>1 DEF Busy, None
<1>2. CASE job[t] = <<"measure">>
  BY <1>2 DEF Busy, None
<1>3. CASE job[t] = <<"write", "costs">>
  BY <1>3, JobValues DEF Busy
<1>4. CASE job[t] = <<"send", "costs">>
  BY <1>4, JobValues DEF Busy
<1>5. CASE job[t] = <<"send", "failures">>
  BY <1>5, JobValues DEF Busy
<1>. QED
  BY <1>1, <1>2, <1>3, <1>4, <1>5 DEF JobInv

\* A worker takes, changes and drops the job of one test.
LEMMA BusyTakes ==
  ASSUME JobInv, NEW t \in Tests, NEW v, v # <<None>>, job' = [job EXCEPT ![t] = v]
  PROVE  Busy' = Busy \union {t}
BY DEF JobInv, Busy

LEMMA BusyDrops ==
  ASSUME JobInv, NEW t \in Tests, job' = [job EXCEPT ![t] = <<None>>]
  PROVE  Busy' = Busy \ {t}
BY DEF JobInv, Busy

LEMMA JobStep ==
  ASSUME TypeOK, JobInv, [Next]_vars
  PROVE  JobInv' /\ live' \in 0..Concurrency
<1>. USE EstimateAssumption
<1>1. CASE \E t \in Tests : SendJob(t)
  <2>1. PICK t \in Tests : SendJob(t)
    BY <1>1
  <2>2. job' = [job EXCEPT ![t] = <<"measure">>] /\ Cardinality(Busy) < live
        /\ UNCHANGED <<live, pc, walking>> /\ walking
    BY <2>1 DEF SendJob
  <2>3. Busy' = Busy \union {t}
    BY <2>2, BusyTakes, JobValues
  <2>4. IsFiniteSet(Busy') /\ Cardinality(Busy') <= Cardinality(Busy) + 1 /\ Cardinality(Busy) \in Nat
        /\ Cardinality(Busy') \in Nat
    <3>1. IsFiniteSet(Busy) /\ Cardinality(Busy) \in Nat
      BY FS_CardinalityType DEF JobInv
    <3>2. /\ IsFiniteSet(Busy \cup {t})
          /\ Cardinality(Busy \cup {t}) = IF t \in Busy THEN Cardinality(Busy)
                                                      ELSE Cardinality(Busy) + 1
      BY <3>1, FS_AddElement, Zenon
    <3>3. Cardinality(Busy \union {t}) \in Nat
      BY <3>2, FS_CardinalityType
    <3>. QED
      BY <2>3, <3>1, <3>2, <3>3
  <2>. QED
    BY <2>2, <2>4 DEF JobInv, TypeOK
<1>2. CASE \E t \in Tests : Measure(t) \/ WriteTestFile(t)
  <2>1. PICK t \in Tests : Measure(t) \/ WriteTestFile(t)
    BY <1>2
  <2>2. PICK v \in {<<"write", "costs">>, <<"send", "costs">>, <<"send", "failures">>} :
          job' = [job EXCEPT ![t] = v]
    <3>1. CASE Measure(t)
      BY <3>1 DEF Measure
    <3>2. CASE WriteTestFile(t)
      <4>1. job[t] = <<"write", "costs">> /\ job' = [job EXCEPT ![t] = <<"send", @[2]>>]
        BY <3>2, JobHeads DEF WriteTestFile
      <4>2. job[t][2] = "costs"
        BY <4>1
      <4>. QED
        BY <4>1, <4>2
    <3>. QED
      BY <2>1, <3>1, <3>2
  <2>3. t \in Busy
    BY <2>1, JobHeads DEF Measure, WriteTestFile
  <2>4. Busy' = Busy
    <3>1. v # <<None>>
      BY JobValues
    <3>2. Busy' = Busy \union {t}
      BY <2>2, <3>1, BusyTakes
    <3>. QED
      BY <2>3, <3>2
  <2>. QED
    BY <2>1, <2>2, <2>4 DEF Measure, WriteTestFile, JobInv, TypeOK
<1>3. CASE \E t \in Tests : WorkerFails(t) \/ Collect(t)
  <2>1. PICK t \in Tests : WorkerFails(t) \/ Collect(t)
    BY <1>3
  <2>2. job' = [job EXCEPT ![t] = <<None>>] /\ UNCHANGED walking
    BY <2>1 DEF WorkerFails, Collect
  <2>3. t \in Busy
    BY <2>1, JobHeads DEF WorkerFails, Collect
  <2>4. Busy' = Busy \ {t}
    BY <2>2, BusyDrops
  <2>5. /\ IsFiniteSet(Busy') /\ Cardinality(Busy') = Cardinality(Busy) - 1
        /\ Cardinality(Busy) \in Nat /\ Cardinality(Busy') \in Nat
    BY <2>3, <2>4, FS_RemoveElement, FS_CardinalityType DEF JobInv
  <2>6. CASE WorkerFails(t)
    BY <2>2, <2>3, <2>5, <2>6 DEF WorkerFails, JobInv, TypeOK
  <2>7. CASE Collect(t)
    BY <2>2, <2>5, <2>7 DEF Collect, JobInv, TypeOK, Collecting
  <2>. QED
    BY <2>1, <2>6, <2>7
<1>4. CASE Ends
  <2>1. job' = [t \in Tests |-> <<None>>] /\ live' = 0 /\ walking' = FALSE
    BY <1>4 DEF Ends, PrepareFails, StartFails, CloseServer, Crash, Gone
  <2>2. Busy' = {}
    BY <2>1 DEF Busy
  <2>. QED
    BY <2>1, <2>2, FS_EmptySet DEF JobInv
<1>5. CASE Linked
  <2>1. Busy = {} /\ UNCHANGED job /\ live' \in {live, Concurrency} /\ Busy' = Busy
    BY <1>5 DEF Linked, JobInv, Collecting, Busy
  <2>2. pc' \notin Collecting => ~walking'
    BY <1>5 DEF Linked, JobInv, Collecting
  <2>. QED
    BY <2>1, <2>2, FS_EmptySet DEF JobInv, TypeOK
<1>6. CASE CollectEnds
  BY <1>6 DEF CollectEnds, group, JobInv, Busy, TypeOK
<1>7. ASSUME UNCHANGED <<job, live>>, walking' => walking,
             pc \in Collecting => pc' \in Collecting
      PROVE  JobInv' /\ live' \in 0..Concurrency
  <2>1. Busy' = Busy
    BY <1>7 DEF Busy
  <2>2. pc' \notin Collecting => Busy' = {} /\ ~walking'
    BY <1>7, <2>1 DEF JobInv
  <2>. QED
    BY <1>7, <2>1, <2>2 DEF JobInv, TypeOK
<1>8. CASE \/ \E kind \in Kinds, id \in Ids, guest \in Guests : StartCommand(kind, id, guest)
           \/ \E kind \in Kinds, id \in Ids : Link(kind, id)
  <2>1. pc \notin Collecting /\ UNCHANGED <<job, live, walking>>
    <3>1. CASE \E kind \in Kinds, id \in Ids, guest \in Guests : StartCommand(kind, id, guest)
      BY <3>1 DEF StartCommand, Collecting
    <3>2. CASE \E kind \in Kinds, id \in Ids : Link(kind, id)
      BY <3>2 DEF Link, group, Collecting
    <3>. QED
      BY <1>8, <3>1, <3>2
  <2>. QED
    BY <1>7, <2>1
<1>9. CASE WalkEnds \/ Interrupt \/ UNCHANGED vars
  BY <1>7, <1>9 DEF WalkEnds, Interrupt, group, vars
<1>10. CASE ServerCreated \/ ServerStarts \/ ServerServes \/ LinkFile \/ LinkFileFails \/ LinkMirror
  BY <1>7, <1>10 DEF ServerCreated, ServerStarts, ServerServes, LinkFile, LinkFileFails, LinkMirror,
                     group, Collecting
<1>11. CASE SaveOwn \/ SaveFails
  BY <1>7, <1>11 DEF SaveOwn, SaveFails, group, Collecting
<1>12. CASE SaveMirror
  BY <1>7, <1>12 DEF SaveMirror, AfterSave, group, Collecting
<1>. QED
  BY <1>1, <1>2, <1>3, <1>4, <1>5, <1>6, <1>8, <1>9, <1>10, <1>11, <1>12 DEF Next, Worker, Main, Ends

\* The flags, which most steps leave alone.
LEMMA FlagStep ==
  ASSUME TypeOK, [Next]_vars
  PROVE  /\ walking' \in BOOLEAN /\ failed' \in BOOLEAN /\ saveErr' \in BOOLEAN
         /\ server' \in {"none", "created", "running"}
<1>. USE Zenon DEF TypeOK
<1>1. CASE \/ \E kind \in Kinds, id \in Ids, guest \in Guests : StartCommand(kind, id, guest)
           \/ \E kind \in Kinds, id \in Ids : Link(kind, id)
  <2>1. CASE \E kind \in Kinds, id \in Ids, guest \in Guests : StartCommand(kind, id, guest)
    <3>1. UNCHANGED <<walking, failed, saveErr>> /\ server' = "none"
      BY SMT, <2>1 DEF StartCommand
    <3>. QED
      BY <3>1
  <2>2. CASE \E kind \in Kinds, id \in Ids : Link(kind, id)
    <3>1. UNCHANGED <<walking, failed, saveErr>> /\ server' = "none"
      BY SMT, <2>2 DEF Link, group
    <3>. QED
      BY <3>1
  <2>. QED
    BY <1>1, <2>1, <2>2
<1>2. CASE \E t \in Tests : Worker(t)
  BY <1>2 DEF Worker, SendJob, Measure, WorkerFails, GroupFails, WriteTestFile, Collect, history
<1>3. CASE WalkEnds \/ Interrupt \/ UNCHANGED vars \/ Linked
  BY <1>3 DEF WalkEnds, GroupFails, Interrupt, Linked, group, history, vars
<1>4. CASE ServerCreated \/ ServerStarts \/ ServerServes \/ LinkFile \/ LinkFileFails \/ LinkMirror
           \/ CollectEnds
  BY <1>4 DEF ServerCreated, ServerStarts, ServerServes, LinkFile, LinkFileFails, LinkMirror,
              CollectEnds, group, history
<1>5. CASE SaveOwn \/ SaveMirror \/ SaveFails
  BY <1>5 DEF SaveOwn, SaveMirror, SaveFails, group, history
<1>6. CASE Ends
  BY <1>6 DEF Ends, PrepareFails, StartFails, CloseServer, Crash, Gone
<1>. QED
  BY <1>1, <1>2, <1>3, <1>4, <1>5, <1>6 DEF Next, Main, Ends

LEMMA TypeStep ==
  ASSUME TypeOK, JobInv, MemoryInv, ArtifactsSound, [Next]_vars
  PROVE  TypeOK'
<1>. USE EstimateAssumption
<1>1. CASE \E kind \in Kinds, id \in Ids, guest \in Guests : StartCommand(kind, id, guest)
  BY <1>1, StartType
<1>2. /\ live' \in 0..Concurrency
      /\ \A t \in Tests : job'[t] \in {<<None>>, <<"measure">>, <<"write", "costs">>,
                                 <<"send", "costs">>, <<"send", "failures">>}
  BY JobStep DEF JobInv
<1>3. CASE \E t \in Tests : Worker(t)
  <2>1. PICK t \in Tests : Worker(t)
    BY <1>3
  <2>2. /\ UNCHANGED <<art, cmd, mirror, sources, last, commands>> /\ todo' \subseteq todo
        /\ ctx' \in {ctx, "cancelled"} /\ faults' \in {faults, faults + 1}
        /\ faults' = faults \/ faults < MaxFaults
    BY <2>1 DEF Worker, SendJob, Measure, WorkerFails, GroupFails, WriteTestFile, Collect, disk,
                memory, history, Fault, NoFault
  <2>3. files' \in [Ids -> SUBSET Records]
    <3>1. CASE WriteTestFile(t)
      <4>1. pc \in Working /\ cmd.guest \in Guests
        BY <3>1, JobHeads DEF WriteTestFile, JobInv, Collecting, Working, MemoryInv
      <4>2. {f \in files[cmd.id] : f[1] # t} \union {<<t, cmd.guest>>} \in SUBSET Records
        BY <4>1 DEF TypeOK, Records
      <4>. QED
        BY <3>1, <4>2 DEF WriteTestFile, TypeOK
    <3>. QED
      BY <2>1, <3>1 DEF Worker, SendJob, Measure, WorkerFails, Collect, disk, TypeOK
  <2>4. /\ result' \in Artifact /\ unsaved' \in 0..Interval - 1
        /\ pc' \in {pc, "save", "collect"}
    <3>1. CASE Collect(t)
      <4>1. cmd.guest \in Guests
        BY <3>1 DEF Collect, Working, MemoryInv
      <4>2. <<t, cmd.guest>> \in Records /\ result \in Artifact
        BY <4>1 DEF TypeOK, Records
      <4>3. \E field \in {"costs", "failures"} :
              result' = [result EXCEPT ![field] = @ \union {<<t, cmd.guest>>}]
        <5>1. job[t] \in {<<"send", "costs">>, <<"send", "failures">>}
          BY <3>1, JobHeads DEF Collect
        <5>2. job[t][2] \in {"costs", "failures"}
          BY <5>1
        <5>. QED
          BY <3>1, <5>2 DEF Collect
      <4>4. result' \in Artifact
        BY <4>2, <4>3 DEF Artifact
      <4>5. unsaved' = (unsaved + 1) % Interval /\ unsaved \in Nat
        BY <3>1 DEF Collect, TypeOK
      <4>. QED
        BY <3>1, <4>4, <4>5 DEF Collect
    <3>. QED
      BY <2>1, <3>1 DEF Worker, SendJob, Measure, WorkerFails, WriteTestFile, memory, TypeOK
  <2>. QED
    BY <1>2, <2>2, <2>3, <2>4, FlagStep DEF TypeOK
<1>4. CASE WalkEnds \/ Interrupt
  BY <1>2, <1>4, FlagStep DEF WalkEnds, Interrupt, GroupFails, Fault, NoFault, disk, memory, TypeOK
<1>5. CASE ServerCreated \/ ServerStarts \/ ServerServes \/ LinkFileFails \/ Linked \/ CollectEnds
  BY <1>2, <1>5, FlagStep DEF ServerCreated, ServerStarts, ServerServes, LinkFileFails, Linked,
     CollectEnds, Return, Fault, NoFault, disk, memory, group, history, TypeOK
<1>6. CASE LinkFile
  <2>1. PICK s \in sources :
          files' = [files EXCEPT ![cmd.id] = {f \in @ : f[1] # s[1]}
                                             \union {f \in files[s[2]] : f[1] = s[1]}]
    BY <1>6 DEF LinkFile
  <2>2. cmd.id \in Ids /\ s[2] \in Ids
    BY DEF TypeOK
  <2>3. files' \in [Ids -> SUBSET Records]
    BY <2>1, <2>2 DEF TypeOK
  <2>. QED
    BY <1>2, <1>6, <2>3, FlagStep DEF LinkFile, group, history, TypeOK
<1>7. CASE SaveOwn
  <2>1. art' \in [Kinds -> [Ids -> Artifact]]
    BY <1>7 DEF SaveOwn, TypeOK
  <2>. QED
    BY <1>2, <1>7, <2>1, FlagStep DEF SaveOwn, memory, group, history, TypeOK
<1>8. CASE SaveMirror
  <2>1. art' \in [Kinds -> [Ids -> Artifact]]
    <3>1. [guest    |-> cmd.guest,
           costs    |-> result.costs \union
                        {r \in mirror.costs : r[1] \notin TestsOf(result.failures)},
           failures |-> result.failures \union
                        {r \in mirror.failures : r[1] \notin TestsOf(result.costs)}] \in Artifact
      BY DEF TypeOK, Artifact
    <3>. QED
      BY <1>8, <3>1 DEF SaveMirror, TypeOK
  <2>. QED
    BY <1>2, <1>8, <2>1, FlagStep DEF SaveMirror, AfterSave, Return, memory, group, TypeOK
<1>9. CASE SaveFails
  BY <1>2, <1>9, FlagStep DEF SaveFails, Return, Fault, disk, memory, TypeOK
<1>10. CASE Ends
  BY <1>2, <1>10, FlagStep, EmptyType DEF Ends, PrepareFails, StartFails, CloseServer,
     Crash, Gone, Fault, NoFault, disk, TypeOK
<1>11. CASE \E kind \in Kinds, id \in Ids : Link(kind, id)
  <2>1. PICK kind \in Kinds, id \in Ids : Link(kind, id)
    BY <1>11
  <2>2. art' \in [Kinds -> [Ids -> Artifact]]
    BY <2>1, EmptyType DEF Link, TypeOK, Ids, RunId
  <2>3. files' \in [Ids -> SUBSET Records]
    BY <2>1 DEF Link, TypeOK, Ids, RunId
  <2>4. cmd' \in [kind : Kinds \union {None}, id : Ids, guest : Guests \union {None}]
    BY <2>1 DEF Link
  <2>. QED
    BY <1>2, <2>1, <2>2, <2>3, <2>4, FlagStep DEF Link, group, TypeOK
<1>12. CASE LinkMirror
  <2>1. art' \in [Kinds -> [Ids -> Artifact]]
    <3>1. CASE UNCHANGED art
      BY <3>1 DEF TypeOK
    <3>2. CASE art' = [art EXCEPT !["estimate"][RunId] = art["estimate"][cmd.id],
                                  !["estimate"][cmd.id] = Empty]
      <4>1. art["estimate"][cmd.id] \in Artifact
        BY DEF TypeOK, Kinds
      <4>. QED
        BY <3>2, <4>1, EmptyType DEF TypeOK
    <3>. QED
      BY <1>12, <3>1, <3>2 DEF LinkMirror
  <2>2. cmd' \in [kind : Kinds \union {None}, id : Ids, guest : Guests \union {None}]
    <3>1. RunId \in Ids
      BY DEF RunId, Ids
    <3>. QED
      BY <1>12, <3>1 DEF LinkMirror, TypeOK
  <2>. QED
    BY <1>2, <1>12, <2>1, <2>2, FlagStep DEF LinkMirror, Return, group, TypeOK
<1>13. CASE UNCHANGED vars
  BY <1>13 DEF vars, disk, memory, group, history, TypeOK
<1>. QED
  BY <1>1, <1>3, <1>4, <1>5, <1>6, <1>7, <1>8, <1>9, <1>10, <1>11, <1>12, <1>13 DEF Next, Main, Ends

-----------------------------------------------------------------------------
(* What is in memory is sound, and so is what is saved *)

\* The steps that move the command on without touching a record.
Quiet ==
  \/ ServerCreated \/ ServerStarts \/ ServerServes \/ LinkFileFails \/ Linked
  \/ WalkEnds \/ CollectEnds \/ SaveFails \/ Interrupt \/ UNCHANGED vars

LEMMA QuietStep ==
  ASSUME TypeOK, Quiet
  PROVE  /\ UNCHANGED <<art, files, cmd, result, mirror, sources, todo, job>>
         /\ pc' \in Working => pc \in Working
         /\ pc' \in Working \ {"prepare", "start", "link"} => pc \notin {"prepare", "start", "link"} \/ sources = {}
         /\ pc' = "finalMirror" => pc = "finalMirror"
         /\ pc' \in {"close", "idle"} /\ last' = "ok" => pc \in {"close", "idle"} /\ last = "ok"
<1>. USE DEF Working
<1>1. CASE ServerCreated \/ ServerStarts \/ ServerServes \/ LinkFileFails
  BY <1>1 DEF ServerCreated, ServerStarts, ServerServes, LinkFileFails, Return, disk, memory, group
<1>2. CASE Linked \/ WalkEnds \/ Interrupt \/ UNCHANGED vars
  BY <1>2 DEF Linked, WalkEnds, Interrupt, disk, memory, group, history, vars
<1>3. CASE CollectEnds \/ SaveFails
  BY <1>3 DEF CollectEnds, SaveFails, Return, disk, memory, group
<1>. QED
  BY <1>1, <1>2, <1>3 DEF Quiet

\* The command and its memory end, and the disk stays.
LEMMA GoneStep ==
  ASSUME Ends
  PROVE  UNCHANGED <<art, files, cmd>> /\ pc' = "idle"
BY DEF Ends, PrepareFails, StartFails, CloseServer, Crash, Gone, disk

LEMMA MemoryStep ==
  ASSUME TypeOK, JobInv, MemoryInv, ArtifactsSound, [Next]_vars
  PROVE  MemoryInv'
<1>. USE EstimateAssumption
<1>1. ASSUME UNCHANGED <<cmd, result, mirror>>, todo' \union Busy' \subseteq todo \union Busy,
             todo' \intersect Busy' = {}, pc' \in Working => pc \in Working
      PROVE  MemoryInv'
  BY <1>1 DEF MemoryInv, Recorded, TestsOf, Sound
<1>2. CASE Quiet
  <2>1. Busy' = Busy /\ pc' \in Working => pc \in Working
    BY <1>2, QuietStep DEF Busy
  <2>2. CASE pc' \in Working
    BY <1>1, <1>2, <2>1, <2>2, QuietStep DEF MemoryInv, Busy
  <2>. QED
    BY <2>2 DEF MemoryInv
<1>3. CASE Ends \/ LinkMirror \/ \E kind \in Kinds, id \in Ids : Link(kind, id)
  BY <1>3, GoneStep DEF LinkMirror, Link, Return, Working, MemoryInv
<1>4. CASE LinkFile \/ SaveOwn \/ SaveMirror
  <2>1. UNCHANGED <<cmd, result, mirror, todo, job>> /\ pc \in Working
    BY <1>4 DEF LinkFile, SaveOwn, SaveMirror, memory, group, Working
  <2>. QED
    BY <1>1, <2>1 DEF MemoryInv, Busy
<1>5. ASSUME NEW kind \in Kinds, NEW id \in Ids, NEW guest \in Guests,
             StartCommand(kind, id, guest)
      PROVE  MemoryInv'
  <2>1. CASE Resumable(art[kind][id], guest)
    <3>1. /\ result' = Started(kind, id, guest) /\ mirror' = ReadMirror(kind, id, guest)
          /\ cmd' = [kind |-> kind, id |-> id, guest |-> guest]
          /\ todo' = PendingTests(result') /\ UNCHANGED job /\ pc = "idle"
      <4>. DEFINE own == [art[kind][id] EXCEPT !.guest = guest]
      <4>1. own.costs = art[kind][id].costs /\ own.failures = art[kind][id].failures
        BY DEF TypeOK, Artifact
      <4>2. PendingTests(own) = PendingTests(art[kind][id])
        BY <4>1 DEF PendingTests, Recorded
      <4>. QED
        BY <1>5, <2>1, <4>1, <4>2 DEF StartCommand, Started
    <3>2. Sound(result', guest) /\ Sound(mirror', guest) /\ result'.guest = guest
      BY <2>1, <3>1, StartedFacts, MirrorFacts DEF Started
    <3>3. Busy' = {}
      BY <3>1 DEF JobInv, Collecting, Busy
    <3>4. todo' \intersect Recorded(result') = {}
      BY <3>1 DEF PendingTests
    <3>5. cmd'.kind \in Kinds /\ cmd'.guest = guest
      BY <3>1
    <3>. QED
      BY <3>2, <3>3, <3>4, <3>5 DEF MemoryInv, Recorded, TestsOf, Sound
  <2>2. CASE ~Resumable(art[kind][id], guest)
    <3>1. pc' = "idle"
      BY <1>5, <2>2 DEF StartCommand
    <3>. QED
      BY <3>1 DEF MemoryInv, Working
  <2>. QED
    BY <2>1, <2>2
<1>6. ASSUME NEW t \in Tests, Worker(t)
      PROVE  MemoryInv'
  <2>1. CASE SendJob(t)
    <3>1. job' = [job EXCEPT ![t] = <<"measure">>] /\ todo' = todo \ {t} /\ t \in todo
          /\ UNCHANGED <<cmd, result, mirror, pc>>
      BY <2>1 DEF SendJob, memory
    <3>2. Busy' = Busy \union {t}
      BY <3>1, BusyTakes, JobValues
    <3>3. pc \in Working
      BY <2>1 DEF SendJob, JobInv, Collecting, Working
    <3>. QED
      BY <1>1, <3>1, <3>2, <3>3 DEF MemoryInv
  <2>2. CASE Measure(t) \/ WriteTestFile(t) \/ WorkerFails(t)
    <3>1. UNCHANGED <<cmd, result, mirror, pc, todo>> /\ t \in Busy
      BY <2>2, JobHeads DEF Measure, WriteTestFile, WorkerFails, memory
    <3>2. Busy' \subseteq Busy \union {t}
      BY <2>2 DEF Measure, WriteTestFile, WorkerFails, JobInv, Busy
    <3>3. pc \in Working
      BY <3>1 DEF JobInv, Collecting, Working
    <3>. QED
      BY <1>1, <3>1, <3>2, <3>3 DEF MemoryInv
  <2>3. CASE Collect(t)
    <3>1. PICK field \in {"costs", "failures"} :
            result' = [result EXCEPT ![field] = @ \union {<<t, cmd.guest>>}]
      <4>1. job[t] \in {<<"send", "costs">>, <<"send", "failures">>}
        BY <2>3, JobHeads DEF Collect
      <4>2. job[t][2] \in {"costs", "failures"}
        BY <4>1
      <4>. QED
        BY <2>3, <4>2 DEF Collect
    <3>2. pc \in Working /\ UNCHANGED <<cmd, mirror, todo>>
      BY <2>3 DEF Collect, Working
    <3>3. t \in Busy /\ t \notin Recorded(result) /\ t \notin todo
      BY <2>3, <3>2, JobHeads DEF Collect, MemoryInv
    <3>4. Busy' = Busy \ {t}
      BY <2>3, BusyDrops DEF Collect
    <3>5. \/ /\ result'.costs = result.costs \union {<<t, cmd.guest>>}
             /\ result'.failures = result.failures
          \/ /\ result'.failures = result.failures \union {<<t, cmd.guest>>}
             /\ result'.costs = result.costs
      BY <3>1 DEF TypeOK, Artifact
    <3>6. result'.guest = result.guest
      BY <3>1 DEF TypeOK, Artifact
    <3>7. /\ \A records : TestsOf(records \union {<<t, cmd.guest>>}) = TestsOf(records) \union {t}
          /\ \A a : Recorded(a) = TestsOf(a.costs) \union TestsOf(a.failures)
      <4>1. ASSUME NEW records
            PROVE  TestsOf(records \union {<<t, cmd.guest>>}) = TestsOf(records) \union {t}
        <5>1. <<t, cmd.guest>>[1] = t
          OBVIOUS
        <5>. QED
          BY <5>1, Zenon DEF TestsOf
      <4>2. ASSUME NEW a
            PROVE  Recorded(a) = TestsOf(a.costs) \union TestsOf(a.failures)
        BY DEF TestsOf, Recorded
      <4>. QED
        BY <4>1, <4>2
    <3>8. Sound(result', cmd.guest) /\ Recorded(result') = Recorded(result) \union {t}
      <4>1. Sound(result, cmd.guest)
        BY <3>2 DEF MemoryInv
      <4>2. \A r \in result'.costs \union result'.failures : r[2] = cmd.guest
        BY <3>5, <4>1 DEF Sound
      <4>. QED
        BY <3>3, <3>5, <3>7, <4>1, <4>2 DEF Sound
    <3>. QED
      BY <3>2, <3>3, <3>4, <3>6, <3>8 DEF MemoryInv, Sound, Recorded, TestsOf
  <2>. QED
    BY <1>6, <2>1, <2>2, <2>3 DEF Worker
<1>. QED
  BY <1>2, <1>3, <1>4, <1>5, <1>6 DEF Next, Main, Quiet, Ends

\* What each step writes to the artifacts: nothing, the artifact in memory, the
\* mirror of it, or the artifacts of a link.
Mirrored == [guest    |-> cmd.guest,
             costs    |-> result.costs \union
                          {r \in mirror.costs : r[1] \notin TestsOf(result.failures)},
             failures |-> result.failures \union
                          {r \in mirror.failures : r[1] \notin TestsOf(result.costs)}]

Moved(kind, id) ==
  /\ id # RunId /\ id \in Ids /\ kind \in Kinds
  /\ art[kind][RunId] = Empty
  /\ art' = [art EXCEPT ![kind][RunId] = art[kind][id], ![kind][id] = Empty]

LEMMA ArtSteps ==
  ASSUME TypeOK, [Next]_vars
  PROVE  \/ UNCHANGED art
         \/ SaveOwn
         \/ SaveMirror /\ mirror # Empty
         \/ \E kind \in Kinds, id \in Ids : Moved(kind, id)
<1>1. CASE Quiet
  BY <1>1, QuietStep
<1>2. CASE Ends
  BY <1>2, GoneStep
<1>3. CASE \E kind \in Kinds, id \in Ids : Link(kind, id)
  <2>1. PICK kind \in Kinds, id \in Ids : Link(kind, id)
    BY <1>3
  <2>2. Moved(kind, id)
    BY <2>1 DEF Link, Exists, Moved
  <2>. QED
    BY <2>2
<1>4. CASE LinkMirror
  <2>1. CASE UNCHANGED art
    BY <2>1
  <2>2. CASE /\ art["estimate"][RunId] = Empty
             /\ art' = [art EXCEPT !["estimate"][RunId] = art["estimate"][cmd.id],
                                   !["estimate"][cmd.id] = Empty]
    <3>1. cmd.id \in Ids /\ "estimate" \in Kinds
      BY DEF TypeOK, Kinds
    <3>2. CASE cmd.id = RunId
      BY <2>2, <3>1, <3>2 DEF TypeOK
    <3>3. CASE cmd.id # RunId
      BY <2>2, <3>1, <3>3 DEF Moved
    <3>. QED
      BY <3>2, <3>3
  <2>. QED
    BY <1>4, <2>1, <2>2 DEF LinkMirror, Exists
<1>5. CASE LinkFile \/ \E kind \in Kinds, id \in Ids, guest \in Guests : StartCommand(kind, id, guest)
  <2>1. CASE LinkFile
    BY <2>1 DEF LinkFile
  <2>2. CASE \E kind \in Kinds, id \in Ids, guest \in Guests : StartCommand(kind, id, guest)
    BY <2>2 DEF StartCommand, disk
  <2>. QED
    BY <1>5, <2>1, <2>2
<1>6. CASE SaveMirror
  BY <1>6 DEF SaveMirror
<1>7. CASE \E t \in Tests : Worker(t)
  BY <1>7 DEF Worker, SendJob, Measure, WorkerFails, WriteTestFile, Collect, disk
<1>. QED
  BY <1>1, <1>2, <1>3, <1>4, <1>5, <1>6, <1>7 DEF Next, Main, Quiet, Ends

LEMMA MirroredFacts ==
  ASSUME TypeOK, MemoryInv, SaveMirror, mirror # Empty
  PROVE  /\ art' = [art EXCEPT !["estimate"][cmd.id] = Mirrored]
         /\ Sound(Mirrored, Mirrored.guest)
         /\ Recorded(mirror) \union Recorded(result) = Recorded(Mirrored)
<1>1. art' = [art EXCEPT !["estimate"][cmd.id] = Mirrored]
  BY DEF SaveMirror, Mirrored
<1>2. Sound(result, cmd.guest) /\ Sound(mirror, cmd.guest)
  BY DEF SaveMirror, MemoryInv, Working
<1>3. /\ Mirrored.guest = cmd.guest
      /\ Mirrored.costs = result.costs \union {r \in mirror.costs : r[1] \notin TestsOf(result.failures)}
      /\ Mirrored.failures = result.failures \union
                             {r \in mirror.failures : r[1] \notin TestsOf(result.costs)}
  BY DEF Mirrored
<1>4. \A r \in Mirrored.costs \union Mirrored.failures : r[2] = Mirrored.guest
  BY <1>2, <1>3 DEF Sound
<1>5. TestsOf(Mirrored.costs) \intersect TestsOf(Mirrored.failures) = {}
  BY <1>2, <1>3 DEF Sound, TestsOf
<1>6. Recorded(mirror) \union Recorded(result) = Recorded(Mirrored)
  BY <1>3 DEF Recorded, TestsOf
<1>. QED
  BY <1>1, <1>4, <1>5, <1>6 DEF Sound

LEMMA SoundArtifacts ==
  ArtifactsSound <=> \A k \in Kinds, i \in Ids : Sound(art[k][i], art[k][i].guest)
BY DEF ArtifactsSound, NoForeignRecord, OneVerdict, Sound

LEMMA SoundStep ==
  ASSUME TypeOK, MemoryInv, ArtifactsSound, [Next]_vars
  PROVE  ArtifactsSound'
<1>. SUFFICES ASSUME NEW k \in Kinds, NEW i \in Ids
              PROVE  Sound(art[k][i], art[k][i].guest)'
  BY DEF ArtifactsSound, NoForeignRecord, OneVerdict, Sound
<1>. DEFINE Good(a) == Sound(a, a.guest)
<1>1. \A l \in Kinds, j \in Ids : Good(art[l][j])
  BY SoundArtifacts
<1>2. Good(Empty)
  BY EmptyType DEF Sound, TestsOf
<1>3. CASE UNCHANGED art
  BY <1>1, <1>3 DEF Sound
<1>4. CASE SaveOwn
  <2>1. Good(result)
    BY <1>4 DEF SaveOwn, MemoryInv, Working
  <2>2. art'[k][i] = result \/ art'[k][i] = art[k][i]
    BY <1>4 DEF SaveOwn, TypeOK
  <2>. QED
    BY <1>1, <2>1, <2>2 DEF Sound
<1>5. CASE SaveMirror /\ mirror # Empty
  <2>1. art' = [art EXCEPT !["estimate"][cmd.id] = Mirrored] /\ Good(Mirrored)
    BY <1>5, MirroredFacts
  <2>2. art'[k][i] = Mirrored \/ art'[k][i] = art[k][i]
    BY <2>1 DEF TypeOK
  <2>. QED
    BY <1>1, <2>1, <2>2 DEF Sound
<1>6. CASE \E kind \in Kinds, id \in Ids : Moved(kind, id)
  <2>1. PICK kind \in Kinds, id \in Ids : Moved(kind, id)
    BY <1>6
  <2>2. art'[k][i] \in {Empty, art[k][id], art[k][i]}
    BY <2>1 DEF Moved, TypeOK
  <2>. QED
    BY <1>1, <1>2, <2>1, <2>2 DEF Sound
<1>. QED
  BY <1>3, <1>4, <1>5, <1>6, ArtSteps

-----------------------------------------------------------------------------
(* What is in memory holds what is on disk *)

\* The memory of a command that starts to complete an artifact.
LEMMA StartMemory ==
  ASSUME TypeOK, NEW kind \in Kinds, NEW id \in Ids, NEW guest \in Guests,
         StartCommand(kind, id, guest), pc' \in Working
  PROVE  /\ Resumable(art[kind][id], guest)
         /\ cmd' = [kind |-> kind, id |-> id, guest |-> guest]
         /\ result' = Started(kind, id, guest) /\ mirror' = ReadMirror(kind, id, guest)
         /\ sources' = IF kind = "profile"
                       THEN {s \in TestsOf(Reused(kind, id, guest,
                                                  PendingTests(art[kind][id]), "costs")) \X Ids :
                               s[2] \in Lender(kind, id, guest, s[1])}
                       ELSE {}
         /\ pc = "idle" /\ pc' \in {"prepare", "link"}
         /\ UNCHANGED <<art, files, job>>
<1>1. Resumable(art[kind][id], guest)
  BY DEF StartCommand, Working
<1>. DEFINE own == [art[kind][id] EXCEPT !.guest = guest]
<1>2. own.costs = art[kind][id].costs /\ own.failures = art[kind][id].failures
  BY DEF TypeOK, Artifact
<1>3. PendingTests(own) = PendingTests(art[kind][id])
  BY <1>2 DEF PendingTests, Recorded
<1>. QED
  BY <1>1, <1>2, <1>3 DEF StartCommand, Started, disk

LEMMA GrowthStep ==
  ASSUME TypeOK, JobInv, MemoryInv, GrowthInv, ArtifactsSound, [Next]_vars
  PROVE  GrowthInv'
<1>. USE EstimateAssumption
<1>1. ASSUME UNCHANGED <<art, cmd, mirror>>, result.costs \subseteq result'.costs,
             result.failures \subseteq result'.failures, pc' \in Working => pc \in Working
      PROVE  GrowthInv'
  BY <1>1 DEF GrowthInv, Own, Estimated, Recorded, TestsOf
<1>2. CASE Quiet
  BY <1>1, <1>2, QuietStep
<1>3. CASE Ends \/ LinkMirror \/ \E kind \in Kinds, id \in Ids : Link(kind, id)
  BY <1>3, GoneStep DEF LinkMirror, Link, Return, Working, GrowthInv
<1>4. CASE LinkFile
  BY <1>1, <1>4 DEF LinkFile, Working
<1>5. CASE \E t \in Tests : Worker(t)
  <2>1. PICK t \in Tests : Worker(t)
    BY <1>5
  <2>2. CASE Collect(t)
    <3>1. job[t] \in {<<"send", "costs">>, <<"send", "failures">>}
      BY <2>2, JobHeads DEF Collect
    <3>2. job[t][2] \in {"costs", "failures"}
      BY <3>1
    <3>3. result.costs \subseteq result'.costs /\ result.failures \subseteq result'.failures
      BY <2>2, <3>2 DEF Collect, TypeOK, Artifact
    <3>. QED
      BY <1>1, <2>2, <3>3 DEF Collect, disk, Working
  <2>3. CASE SendJob(t) \/ Measure(t) \/ WorkerFails(t) \/ WriteTestFile(t)
    BY <1>1, <2>3 DEF SendJob, Measure, WorkerFails, WriteTestFile, disk, memory
  <2>. QED
    BY <2>1, <2>2, <2>3 DEF Worker
<1>6. ASSUME NEW kind \in Kinds, NEW id \in Ids, NEW guest \in Guests,
             StartCommand(kind, id, guest)
      PROVE  GrowthInv'
  <2>. SUFFICES ASSUME pc' \in Working
                PROVE  GrowthInv'
    BY DEF GrowthInv
  <2>1. cmd'.kind = kind /\ cmd'.id = id /\ cmd'.guest = guest /\ UNCHANGED art
    BY <1>6, StartMemory
  <2>2. art[kind][id].costs \subseteq result'.costs /\ art[kind][id].failures \subseteq result'.failures
    BY <1>6, StartMemory DEF Started
  <2>3. /\ kind = "estimate" => mirror' = Empty
        /\ mirror' # Empty => Recorded(art["estimate"][id]) \subseteq Recorded(mirror')
        /\ kind = "profile" /\ mirror' = Empty => art["estimate"][id].guest \notin {guest, None}
    BY <1>6, StartMemory, MirrorFacts
  <2>. QED
    BY <2>1, <2>2, <2>3 DEF GrowthInv, Own, Estimated
<1>7. CASE SaveOwn
  <2>1. /\ art' = [art EXCEPT ![cmd.kind][cmd.id] = result]
        /\ UNCHANGED <<cmd, result, mirror>> /\ pc \in Working
    BY <1>7 DEF SaveOwn, memory, Working
  <2>2. cmd.kind \in Kinds /\ cmd.id \in Ids /\ result.guest = cmd.guest
    BY <2>1 DEF MemoryInv, TypeOK
  <2>3. Own' = result
    BY <2>1, <2>2 DEF Own, TypeOK
  <2>4. CASE cmd.kind = "profile"
    <3>1. Estimated' = Estimated
      BY <2>1, <2>2, <2>4 DEF Estimated, TypeOK, Kinds
    <3>. QED
      BY <2>1, <2>3, <3>1 DEF GrowthInv, Recorded, TestsOf
  <2>5. CASE cmd.kind = "estimate"
    BY <2>1, <2>3, <2>5 DEF GrowthInv
  <2>. QED
    BY <2>2, <2>4, <2>5 DEF Kinds
<1>8. CASE SaveMirror
  <2>1. UNCHANGED <<cmd, result, mirror>> /\ pc \in Working
    BY <1>8 DEF SaveMirror, memory, Working
  <2>2. CASE mirror = Empty
    BY <1>1, <1>8, <2>1, <2>2 DEF SaveMirror
  <2>3. CASE mirror # Empty
    <3>1. /\ art' = [art EXCEPT !["estimate"][cmd.id] = Mirrored]
          /\ Recorded(mirror) \union Recorded(result) = Recorded(Mirrored)
      BY <1>8, <2>3, MirroredFacts
    <3>2. cmd.kind = "profile" /\ cmd.id \in Ids
      BY <2>1, <2>3 DEF MemoryInv, GrowthInv, Kinds, TypeOK
    <3>3. Own' = Own /\ Estimated' = Mirrored
      BY <2>1, <3>1, <3>2 DEF Own, Estimated, TypeOK, Kinds
    <3>4. Recorded(Estimated') \subseteq Recorded(mirror) \union Recorded(result)
      BY <3>1, <3>3
    <3>5. Recorded(mirror)' = Recorded(mirror) /\ Recorded(result)' = Recorded(result)
          /\ Recorded(Estimated)' = Recorded(Estimated')
      BY <2>1 DEF Recorded, TestsOf
    <3>. QED
      BY <2>1, <2>3, <3>2, <3>3, <3>4, <3>5 DEF GrowthInv
  <2>. QED
    BY <2>2, <2>3
<1>. QED
  BY <1>2, <1>3, <1>4, <1>5, <1>6, <1>7, <1>8 DEF Next, Main, Quiet, Ends

-----------------------------------------------------------------------------
(* Test files come before the records that name them *)

\* A starting command links the files of the costs it copies.
LEMMA StartFiles ==
  ASSUME TypeOK, JobInv, ArtifactsSound, FilesFollowRecords,
         NEW kind \in Kinds, NEW id \in Ids, NEW guest \in Guests,
         StartCommand(kind, id, guest)
  PROVE  FileInv'
<1>. SUFFICES ASSUME pc' \in Working
              PROVE  FileInv'
  BY DEF FileInv
<1>. DEFINE lent == Reused(kind, id, guest, PendingTests(art[kind][id]), "costs")
<1>1. /\ cmd'.kind = kind /\ cmd'.id = id /\ cmd'.guest = guest /\ UNCHANGED <<art, files, job>>
      /\ Resumable(art[kind][id], guest) /\ pc = "idle" /\ pc' \in {"prepare", "link"}
  BY StartMemory
<1>2. \A t \in Tests : job'[t] = <<None>>
  BY <1>1 DEF JobInv, Collecting, Busy
<1>3. /\ result'.costs = art[kind][id].costs \union lent
      /\ sources' = IF kind = "profile"
                    THEN {s \in TestsOf(lent) \X Ids : s[2] \in Lender(kind, id, guest, s[1])}
                    ELSE {}
  BY StartMemory DEF Started
<1>4. PendingTests(art[kind][id]) \in SUBSET Tests
  BY DEF PendingTests
<1>5. ASSUME kind = "profile", NEW r \in result'.costs
      PROVE  r \in files'[id] \/ r[1] \in TestsOf(sources')
  <2>1. CASE r \in art[kind][id].costs
    BY <1>1, <1>5, <2>1 DEF FilesFollowRecords
  <2>2. CASE r \in lent
    <3>1. PICK i \in Lender(kind, id, guest, r[1]) : r \in art[kind][i]["costs"]
      BY <1>4, <2>2, ReusedFacts
    <3>2. i \in Ids /\ r[1] \in TestsOf(lent)
      BY <2>2 DEF Lender, Lenders, TestsOf
    <3>3. <<r[1], i>> \in sources'
      BY <1>3, <1>5, <3>1, <3>2
    <3>. QED
      BY <3>3 DEF TestsOf
  <2>. QED
    BY <1>3, <2>1, <2>2
<1>6. ASSUME NEW s \in sources'
      PROVE  /\ kind = "profile"
             /\ s[2] \in Ids \ {id} /\ <<s[1], guest>> \in files'[s[2]]
             /\ s[1] \notin TestsOf(art[kind][id].costs)
  <2>1. kind = "profile" /\ s[1] \in TestsOf(lent) /\ s[2] \in Lender(kind, id, guest, s[1])
    BY <1>3, <1>6
  <2>2. PICK r \in lent : r[1] = s[1]
    BY <2>1 DEF TestsOf
  <2>3. /\ r \in Records /\ r[1] \in PendingTests(art[kind][id]) /\ r[2] = guest
        /\ \E i \in Lender(kind, id, guest, r[1]) : r \in art[kind][i]["costs"]
    BY <1>4, ReusedFacts
  <2>4. PICK i \in Lender(kind, id, guest, r[1]) : r \in art[kind][i]["costs"]
    BY <2>3
  <2>5. i \in Ids \ {id} /\ s[2] = i
    BY <2>1, <2>2, <2>3, LenderFacts DEF Records
  <2>6. r \in files[i] /\ r = <<s[1], guest>>
    BY <2>1, <2>2, <2>3, <2>4, <2>5 DEF FilesFollowRecords, Records
  <2>7. s[1] \notin TestsOf(art[kind][id].costs)
    BY <2>2, <2>3 DEF PendingTests, Recorded, TestsOf
  <2>. QED
    BY <1>1, <2>1, <2>5, <2>6, <2>7
<1>7. Own' = art[kind][id]
  BY <1>1 DEF Own
<1>8. /\ \A t \in Tests : job'[t] # <<"send", "costs">> /\ job'[t] # <<"write", "costs">>
  BY <1>2, JobValues
<1>. QED
  BY <1>1, <1>5, <1>6, <1>7, <1>8 DEF FileInv, TestsOf

\* Linking the file of a source gives its test the first file of the profile.
LEMMA LinkFileStep ==
  ASSUME TypeOK, JobInv, MemoryInv, GrowthInv, FileInv, FilesFollowRecords, LinkFile
  PROVE  FileInv' /\ FilesFollowRecords'
<1>1. PICK s \in sources :
        /\ files' = [files EXCEPT ![cmd.id] = {f \in @ : f[1] # s[1]}
                                              \union {f \in files[s[2]] : f[1] = s[1]}]
        /\ sources' = sources \ {s}
  BY DEF LinkFile
<1>2. UNCHANGED <<art, pc, cmd, result, mirror, job>> /\ pc = "link" /\ pc \in Working
  BY DEF LinkFile, group, Working
<1>3. /\ cmd.kind = "profile" /\ cmd.id \in Ids /\ s[2] \in Ids \ {cmd.id}
      /\ <<s[1], cmd.guest>> \in files[s[2]] /\ s[1] \notin TestsOf(Own.costs)
  BY <1>1, <1>2 DEF FileInv, TypeOK
<1>4. /\ files'[cmd.id] = {f \in files[cmd.id] : f[1] # s[1]}
                          \union {f \in files[s[2]] : f[1] = s[1]}
      /\ \A i \in Ids \ {cmd.id} : files'[i] = files[i]
  BY <1>1, <1>3 DEF TypeOK
<1>5. <<s[1], cmd.guest>> \in files'[cmd.id]
  BY <1>3, <1>4
<1>6. ASSUME NEW r \in result.costs
      PROVE  r \in files'[cmd.id] \/ r[1] \in TestsOf(sources')
  <2>1. r \in Records /\ r[2] = cmd.guest
    BY <1>2 DEF MemoryInv, Sound, TypeOK, Artifact
  <2>2. CASE r[1] = s[1]
    <3>1. r = <<s[1], cmd.guest>>
      BY <2>1, <2>2 DEF Records
    <3>. QED
      BY <1>5, <3>1
  <2>3. CASE r[1] # s[1] /\ r \in files[cmd.id]
    BY <1>4, <2>3
  <2>4. CASE r[1] # s[1] /\ r[1] \in TestsOf(sources)
    BY <1>1, <2>4 DEF TestsOf
  <2>. QED
    BY <1>2, <1>3, <2>2, <2>3, <2>4 DEF FileInv
<1>7. \A q \in sources' : /\ q[2] \in Ids \ {cmd.id} /\ <<q[1], cmd.guest>> \in files'[q[2]]
                          /\ q[1] \notin TestsOf(Own.costs)
  BY <1>1, <1>2, <1>4 DEF FileInv
<1>8. \A t \in Tests : job[t] # <<"send", "costs">> /\ job[t] # <<"write", "costs">>
  BY <1>2, JobValues DEF JobInv, Collecting, Busy
<1>9. FileInv'
  BY <1>2, <1>3, <1>6, <1>7, <1>8 DEF FileInv, TestsOf, Own
<1>10. ASSUME NEW i \in Ids
       PROVE  art["profile"][i].costs \subseteq files'[i]
  <2>1. CASE i = cmd.id
    BY <1>3, <1>4, <2>1 DEF FilesFollowRecords, Own, TestsOf
  <2>2. CASE i # cmd.id
    BY <1>4, <2>2 DEF FilesFollowRecords
  <2>. QED
    BY <2>1, <2>2
<1>. QED
  BY <1>2, <1>9, <1>10 DEF FilesFollowRecords

LEMMA WriteFileStep ==
  ASSUME TypeOK, JobInv, MemoryInv, GrowthInv, FileInv, FilesFollowRecords,
         NEW t \in Tests, WriteTestFile(t)
  PROVE  FileInv' /\ FilesFollowRecords'
<1>1. job[t] = <<"write", "costs">> /\ t \in Busy
  BY JobHeads DEF WriteTestFile
<1>2. /\ files' = [files EXCEPT ![cmd.id] = {f \in @ : f[1] # t} \union {<<t, cmd.guest>>}]
      /\ job' = [job EXCEPT ![t] = <<"send", @[2]>>]
      /\ UNCHANGED <<art, pc, cmd, result, mirror, sources>>
  BY DEF WriteTestFile, memory
<1>3. pc \in Collecting /\ pc \in Working /\ cmd.kind = "profile" /\ cmd.id \in Ids /\ sources = {}
  BY <1>1 DEF JobInv, Collecting, Working, FileInv, TypeOK
<1>4. t \notin TestsOf(result.costs) /\ t \notin TestsOf(Own.costs)
  BY <1>1, <1>3 DEF MemoryInv, GrowthInv, Recorded, TestsOf
<1>5. /\ files'[cmd.id] = {f \in files[cmd.id] : f[1] # t} \union {<<t, cmd.guest>>}
      /\ \A i \in Ids \ {cmd.id} : files'[i] = files[i]
  BY <1>2, <1>3 DEF TypeOK
<1>6. \A r \in result.costs : r \in files'[cmd.id]
  BY <1>3, <1>4, <1>5 DEF FileInv, TestsOf
<1>7. ASSUME NEW u \in Tests, job'[u] = <<"send", "costs">>
      PROVE  <<u, cmd.guest>> \in files'[cmd.id]
  <2>1. CASE u = t
    BY <1>5, <2>1
  <2>2. CASE u # t
    <3>1. <<u, cmd.guest>> \in files[cmd.id]
      BY <1>2, <1>3, <1>7, <2>2 DEF FileInv, JobInv
    <3>. QED
      BY <1>5, <2>2, <3>1
  <2>. QED
    BY <2>1, <2>2
<1>8. FileInv'
  BY <1>2, <1>3, <1>6, <1>7 DEF FileInv
<1>9. ASSUME NEW i \in Ids
      PROVE  art["profile"][i].costs \subseteq files'[i]
  <2>1. CASE i = cmd.id
    BY <1>3, <1>4, <1>5, <2>1 DEF FilesFollowRecords, Own, TestsOf
  <2>2. CASE i # cmd.id
    BY <1>5, <2>2 DEF FilesFollowRecords
  <2>. QED
    BY <2>1, <2>2
<1>. QED
  BY <1>2, <1>8, <1>9 DEF FilesFollowRecords

LEMMA FileStep ==
  ASSUME TypeOK, JobInv, MemoryInv, GrowthInv, FileInv, ArtifactsSound, FilesFollowRecords,
         [Next]_vars
  PROVE  FileInv'
<1>1. ASSUME UNCHANGED <<art, files, cmd, result, sources>>, pc' \in Working => pc \in Working,
             pc' \in Working \ {"prepare", "start", "link"} => pc \notin {"prepare", "start", "link"} \/ sources = {},
             \A t \in Tests : job'[t] \in {job[t], <<None>>, <<"measure">>}
      PROVE  FileInv'
  <2>. SUFFICES ASSUME pc' \in Working
                PROVE  FileInv'
    BY DEF FileInv
  <2>1. \A t \in Tests : /\ job'[t] = <<"send", "costs">> => job[t] = <<"send", "costs">>
                         /\ job'[t] = <<"write", "costs">> => job[t] = <<"write", "costs">>
    <3>1. <<"measure">> # <<"send", "costs">> /\ <<"measure">> # <<"write", "costs">>
      OBVIOUS
    <3>. QED
      BY <1>1, <3>1, JobValues
  <2>. QED
    BY <1>1, <2>1 DEF FileInv, TestsOf, Own
<1>2. CASE Quiet
  BY <1>1, <1>2, QuietStep
<1>3. CASE Ends \/ LinkMirror \/ \E kind \in Kinds, id \in Ids : Link(kind, id)
  BY <1>3, GoneStep DEF LinkMirror, Link, Return, Working, FileInv
<1>4. CASE LinkFile
  BY <1>4, LinkFileStep
<1>5. CASE \E kind \in Kinds, id \in Ids, guest \in Guests : StartCommand(kind, id, guest)
  BY <1>5, StartFiles
<1>6. CASE SaveOwn \/ SaveMirror
  <2>1. /\ UNCHANGED <<files, cmd, result, sources, job>> /\ pc \in Working
        /\ pc \notin {"prepare", "start", "link"}
    BY <1>6 DEF SaveOwn, SaveMirror, memory, group, Working
  <2>2. sources = {}
    BY <2>1 DEF FileInv
  <2>. QED
    BY <2>1, <2>2 DEF FileInv, TestsOf
<1>7. ASSUME NEW t \in Tests, Worker(t)
      PROVE  FileInv'
  <2>1. CASE SendJob(t)
    <3>1. \A u \in Tests : job'[u] \in {job[u], <<"measure">>}
      BY <2>1 DEF SendJob, JobInv
    <3>2. pc \in Working \ {"prepare", "start", "link"}
      BY <2>1 DEF SendJob, JobInv, Collecting, Working
    <3>. QED
      BY <1>1, <2>1, <3>1, <3>2 DEF SendJob, disk, memory
  <2>2. CASE WorkerFails(t)
    <3>1. \A u \in Tests : job'[u] \in {job[u], <<None>>}
      BY <2>2 DEF WorkerFails, JobInv
    <3>. QED
      BY <1>1, <2>2, <3>1 DEF WorkerFails, disk, memory
  <2>3. CASE WriteTestFile(t)
    BY <2>3, WriteFileStep
  <2>4. CASE Measure(t)
    <3>1. PICK field \in {"costs", "failures"} :
            job' = [job EXCEPT ![t] =
              <<IF cmd.kind = "profile" /\ field = "costs" THEN "write" ELSE "send", field>>]
      BY <2>4 DEF Measure
    <3>2. UNCHANGED <<art, files, pc, cmd, result, sources>>
      BY <2>4 DEF Measure, disk, memory
    <3>3. \A u \in Tests : u # t => job'[u] = job[u]
      BY <3>1 DEF JobInv
    <3>4. /\ job'[t] = <<"write", "costs">> => cmd.kind = "profile"
          /\ job'[t] = <<"send", "costs">> => cmd.kind # "profile"
      BY <3>1 DEF JobInv
    <3>. QED
      BY <3>2, <3>3, <3>4 DEF FileInv, TestsOf, Own
  <2>5. CASE Collect(t)
    <3>1. /\ job' = [job EXCEPT ![t] = <<None>>]
          /\ UNCHANGED <<art, files, cmd, sources>>
          /\ pc = "collect" /\ pc' \in {"save", "collect"}
          /\ result' = [result EXCEPT ![job[t][2]] = @ \union {<<t, cmd.guest>>}]
      BY <2>5 DEF Collect, disk
    <3>2. job[t] \in {<<"send", "costs">>, <<"send", "failures">>}
      BY <2>5, JobHeads DEF Collect
    <3>3. pc \in Working /\ sources = {}
      BY <3>1 DEF Working, FileInv
    <3>4. ASSUME cmd.kind = "profile", NEW r \in result'.costs
          PROVE  r \in files[cmd.id]
      <4>1. CASE r \in result.costs
        BY <3>3, <3>4, <4>1 DEF FileInv, TestsOf
      <4>2. CASE r \notin result.costs
        <5>1. CASE job[t] = <<"send", "failures">>
          <6>1. result'.costs = result.costs
            BY <3>1, <5>1 DEF TypeOK, Artifact
          <6>. QED
            BY <3>4, <4>2, <6>1
        <5>2. CASE job[t] = <<"send", "costs">>
          <6>1. result'.costs = result.costs \union {<<t, cmd.guest>>}
            BY <3>1, <5>2 DEF TypeOK, Artifact
          <6>. QED
            BY <3>3, <3>4, <4>2, <5>2, <6>1 DEF FileInv
        <5>. QED
          BY <3>2, <5>1, <5>2
      <4>. QED
        BY <4>1, <4>2
    <3>5. \A u \in Tests : job'[u] \in {job[u], <<None>>}
      BY <3>1 DEF JobInv
    <3>6. \A u \in Tests : /\ job'[u] = <<"send", "costs">> => job[u] = <<"send", "costs">>
                           /\ job'[u] = <<"write", "costs">> => job[u] = <<"write", "costs">>
      BY <3>5, JobValues
    <3>. QED
      BY <3>1, <3>3, <3>4, <3>6 DEF FileInv, Working
  <2>. QED
    BY <1>7, <2>1, <2>2, <2>3, <2>4, <2>5 DEF Worker
<1>. QED
  BY <1>2, <1>3, <1>4, <1>5, <1>6, <1>7 DEF Next, Main, Quiet, Ends

LEMMA FollowStep ==
  ASSUME TypeOK, JobInv, MemoryInv, GrowthInv, FileInv, FilesFollowRecords, [Next]_vars
  PROVE  FilesFollowRecords'
<1>. USE EstimateAssumption
<1>1. ASSUME UNCHANGED files, \A i \in Ids : art'["profile"][i] = art["profile"][i]
      PROVE  FilesFollowRecords'
  BY <1>1 DEF FilesFollowRecords
<1>2. CASE Quiet \/ Ends
  BY <1>1, <1>2, QuietStep, GoneStep
<1>3. CASE LinkFile
  BY <1>3, LinkFileStep
<1>4. CASE \E t \in Tests : Worker(t)
  BY <1>1, <1>4, WriteFileStep DEF Worker, SendJob, Measure, WorkerFails, Collect, disk
<1>5. CASE \E kind \in Kinds, id \in Ids, guest \in Guests : StartCommand(kind, id, guest)
  <2>1. UNCHANGED <<art, files>>
    BY <1>5 DEF StartCommand, disk
  <2>. QED
    BY <1>1, <2>1
<1>6. CASE SaveOwn
  <2>1. /\ art' = [art EXCEPT ![cmd.kind][cmd.id] = result] /\ UNCHANGED files
        /\ pc \in Working /\ pc \notin {"prepare", "start", "link"}
    BY <1>6 DEF SaveOwn, Working
  <2>2. sources = {} /\ cmd.kind \in Kinds
    BY <2>1 DEF FileInv, MemoryInv
  <2>3. CASE cmd.kind = "estimate"
    BY <1>1, <2>1, <2>3 DEF TypeOK, Kinds
  <2>4. CASE cmd.kind = "profile"
    <3>1. result.costs \subseteq files[cmd.id]
      BY <2>1, <2>2, <2>4 DEF FileInv, TestsOf
    <3>2. \A i \in Ids : art'["profile"][i] \in {art["profile"][i], result}
                         /\ (i # cmd.id => art'["profile"][i] = art["profile"][i])
      BY <2>1, <2>4 DEF TypeOK, Kinds
    <3>. QED
      BY <2>1, <3>1, <3>2 DEF FilesFollowRecords
  <2>. QED
    BY <2>2, <2>3, <2>4 DEF Kinds
<1>7. CASE SaveMirror
  <2>1. CASE mirror = Empty
    BY <1>1, <1>7, <2>1 DEF SaveMirror
  <2>2. CASE mirror # Empty
    <3>1. art' = [art EXCEPT !["estimate"][cmd.id] = Mirrored] /\ UNCHANGED files
      BY <1>7, <2>2, MirroredFacts DEF SaveMirror
    <3>. QED
      BY <1>1, <3>1 DEF TypeOK, Kinds
  <2>. QED
    BY <2>1, <2>2
<1>8. CASE \E kind \in Kinds, id \in Ids : Link(kind, id)
  <2>1. PICK kind \in Kinds, id \in Ids : Link(kind, id)
    BY <1>8
  <2>2. /\ art' = [art EXCEPT ![kind][RunId] = art[kind][id], ![kind][id] = Empty]
        /\ files' = IF kind = "profile" THEN [files EXCEPT ![RunId] = files[id], ![id] = {}]
                                        ELSE files
        /\ id # RunId /\ RunId \in Ids
    BY <2>1 DEF Link, Ids, RunId
  <2>3. CASE kind = "profile"
    <3>1. \A i \in Ids : \/ art'["profile"][i] = Empty
                         \/ i = RunId /\ art'["profile"][i] = art["profile"][id] /\ files'[i] = files[id]
                         \/ art'["profile"][i] = art["profile"][i] /\ files'[i] = files[i]
      BY <2>2, <2>3 DEF TypeOK
    <3>. QED
      BY <3>1, EmptyType DEF FilesFollowRecords
  <2>4. CASE kind = "estimate"
    BY <1>1, <2>2, <2>4 DEF TypeOK, Kinds
  <2>. QED
    BY <2>3, <2>4 DEF Kinds
<1>9. CASE LinkMirror
  <2>1. UNCHANGED files /\ art'["profile"] = art["profile"]
    BY <1>9 DEF LinkMirror, TypeOK, Kinds
  <2>. QED
    BY <1>1, <2>1
<1>. QED
  BY <1>2, <1>3, <1>4, <1>5, <1>6, <1>7, <1>8, <1>9 DEF Next, Main, Quiet, Ends

-----------------------------------------------------------------------------
(* The end of a command *)

LEMMA DoneStep ==
  ASSUME TypeOK, JobInv, MemoryInv, GrowthInv, DoneInv, [Next]_vars
  PROVE  DoneInv'
<1>1. CASE Quiet
  BY <1>1, QuietStep DEF DoneInv, Complete, Own, Estimated
<1>2. CASE Ends
  <2>1. UNCHANGED <<art, cmd>> /\ pc' = "idle" /\ (last' = "ok" => pc = "close" /\ last = "ok")
    BY <1>2 DEF Ends, PrepareFails, StartFails, CloseServer, Crash, Gone, disk
  <2>. QED
    BY <2>1 DEF DoneInv, Complete, Own, Estimated
<1>3. CASE LinkMirror \/ LinkFile \/ \E kind \in Kinds, id \in Ids : Link(kind, id)
  BY <1>3 DEF LinkMirror, LinkFile, Link, Return, DoneInv
<1>4. CASE \E kind \in Kinds, id \in Ids, guest \in Guests : StartCommand(kind, id, guest)
  <2>1. pc' \in {"prepare", "link"} \/ (pc' = "idle" /\ last' = "error")
    BY <1>4 DEF StartCommand
  <2>. QED
    BY <2>1 DEF DoneInv
<1>5. CASE \E t \in Tests : Worker(t)
  <2>1. pc \in Collecting
    BY <1>5, JobHeads DEF Worker, SendJob, Measure, WorkerFails, WriteTestFile, Collect, JobInv,
                          Collecting
  <2>2. pc' \in {pc, "save", "collect"}
    BY <1>5 DEF Worker, SendJob, Measure, WorkerFails, WriteTestFile, Collect
  <2>. QED
    BY <2>1, <2>2 DEF DoneInv, Collecting
<1>6. CASE SaveOwn
  <2>1. /\ art' = [art EXCEPT ![cmd.kind][cmd.id] = result] /\ UNCHANGED <<cmd, result>>
        /\ pc' \in {"saveMirror", "finalMirror"} /\ cmd.kind \in Kinds /\ cmd.id \in Ids
    BY <1>6 DEF SaveOwn, memory, MemoryInv, Working, TypeOK
  <2>2. Own' = result'
    BY <2>1 DEF Own, TypeOK
  <2>. QED
    BY <2>1, <2>2 DEF DoneInv
<1>7. CASE SaveMirror
  <2>1. /\ UNCHANGED <<cmd, result>> /\ pc \in Working
        /\ pc' = "collect" \/ (pc' = "close" /\ pc = "finalMirror")
    BY <1>7 DEF SaveMirror, AfterSave, Return, memory, Working
  <2>2. ASSUME pc = "finalMirror", cmd.kind = "profile"
        PROVE  Complete'
    <3>1. Own = result /\ Own.guest = cmd.guest
      BY <2>1, <2>2 DEF DoneInv, MemoryInv
    <3>2. CASE mirror = Empty
      <4>1. UNCHANGED art /\ Estimated.guest \notin {cmd.guest, None}
        BY <1>7, <2>1, <2>2, <3>2 DEF SaveMirror, GrowthInv
      <4>. QED
        BY <2>1, <3>1, <4>1 DEF Complete, Own, Estimated
    <3>3. CASE mirror # Empty
      <4>1. art' = [art EXCEPT !["estimate"][cmd.id] = Mirrored]
        BY <1>7, <3>3, MirroredFacts
      <4>2. Estimated' = Mirrored /\ Own' = Own
        BY <2>1, <2>2, <4>1 DEF Own, Estimated, TypeOK, Kinds
      <4>3. Own.costs \subseteq Mirrored.costs /\ Own.failures \subseteq Mirrored.failures
        BY <3>1 DEF Mirrored
      <4>. QED
        BY <4>2, <4>3 DEF Complete
    <3>. QED
      BY <3>2, <3>3
  <2>. QED
    BY <2>1, <2>2 DEF DoneInv
<1>. QED
  BY <1>1, <1>2, <1>3, <1>4, <1>5, <1>6, <1>7 DEF Next, Main, Quiet, Ends

\* A command that ends removes the container, or says why not.
LEMMA ServerStep ==
  ASSUME TypeOK, NoServerLeft, [Next]_vars
  PROVE  NoServerLeft'
<1>1. CASE \E kind \in Kinds, id \in Ids, guest \in Guests : StartCommand(kind, id, guest)
  BY <1>1 DEF StartCommand, NoServerLeft
<1>2. CASE \E kind \in Kinds, id \in Ids : Link(kind, id)
  BY <1>2 DEF Link, NoServerLeft
<1>3. CASE Ends
  <2>1. CASE PrepareFails \/ StartFails
    BY <2>1 DEF PrepareFails, StartFails, TypeOK, NoServerLeft
  <2>2. CASE CloseServer \/ Crash
    BY <2>2 DEF CloseServer, Crash, TypeOK, NoServerLeft
  <2>. QED
    BY <1>3, <2>1, <2>2 DEF Ends
<1>4. CASE Quiet
  <2>1. CASE UNCHANGED vars
    BY <2>1 DEF vars, history, NoServerLeft
  <2>2. CASE ServerCreated \/ ServerStarts \/ ServerServes
    BY <2>2 DEF ServerCreated, ServerStarts, ServerServes, NoServerLeft
  <2>5. CASE LinkFileFails \/ Linked \/ Interrupt
    BY <2>5 DEF LinkFileFails, Linked, Interrupt, Return, NoServerLeft
  <2>3. CASE CollectEnds \/ SaveFails
    BY <2>3 DEF CollectEnds, SaveFails, Return, NoServerLeft
  <2>4. CASE WalkEnds
    BY <2>4 DEF WalkEnds, NoServerLeft
  <2>. QED
    BY <1>4, <2>1, <2>2, <2>3, <2>4, <2>5 DEF Quiet
<1>5. CASE LinkFile \/ LinkMirror
  BY <1>5 DEF LinkFile, LinkMirror, Return, NoServerLeft
<1>6. CASE SaveOwn \/ SaveMirror
  BY <1>6 DEF SaveOwn, SaveMirror, AfterSave, Return, NoServerLeft
<1>7. CASE \E t \in Tests : Worker(t)
  <2>1. UNCHANGED <<server, last>> /\ pc' \in {pc, "save", "collect"}
    BY <1>7 DEF Worker, SendJob, Measure, WorkerFails, WriteTestFile, Collect, history
  <2>. QED
    BY <2>1 DEF NoServerLeft
<1>. QED
  BY <1>1, <1>2, <1>3, <1>4, <1>5, <1>6, <1>7 DEF Next, Main, Quiet, Ends

\* A save replaces records by more, and a link moves them.
LEMMA LossStep ==
  ASSUME TypeOK, MemoryInv, GrowthInv, [Next]_vars, NEW k \in Kinds, NEW i \in Ids
  PROVE  Recorded(art[k][i]) \subseteq Recorded(art'[k][i]) \union Recorded(art'[k][RunId])
<1>. USE EstimateAssumption
<1>1. CASE UNCHANGED art
  BY <1>1
<1>2. CASE SaveOwn
  <2>1. /\ art' = [art EXCEPT ![cmd.kind][cmd.id] = result]
        /\ Recorded(Own) \subseteq Recorded(result)
    BY <1>2 DEF SaveOwn, GrowthInv, Working, Recorded, TestsOf
  <2>2. \/ art'[k][i] = art[k][i]
        \/ art[k][i] = Own /\ art'[k][i] = result
    BY <2>1 DEF Own, TypeOK
  <2>. QED
    BY <2>1, <2>2
<1>3. CASE SaveMirror /\ mirror # Empty
  <2>1. /\ art' = [art EXCEPT !["estimate"][cmd.id] = Mirrored]
        /\ Recorded(Estimated) \subseteq Recorded(Mirrored)
    BY <1>3, MirroredFacts DEF SaveMirror, GrowthInv, Working
  <2>2. \/ art'[k][i] = art[k][i]
        \/ art[k][i] = Estimated /\ art'[k][i] = Mirrored
    BY <2>1 DEF Estimated, TypeOK
  <2>. QED
    BY <2>1, <2>2
<1>4. CASE \E kind \in Kinds, id \in Ids : Moved(kind, id)
  <2>1. PICK kind \in Kinds, id \in Ids : Moved(kind, id)
    BY <1>4
  <2>2. RunId \in Ids
    BY DEF RunId, Ids
  <2>3. /\ art[k][i] = Empty \/ art'[k][i] = art[k][i] \/ art'[k][RunId] = art[k][i]
    BY <2>1, <2>2 DEF Moved, TypeOK
  <2>. QED
    BY <2>3, EmptyType
<1>. QED
  BY <1>1, <1>2, <1>3, <1>4, ArtSteps

-----------------------------------------------------------------------------
(* The invariant *)

LEMMA InitInv == Init => IInv
<1> SUFFICES ASSUME Init
             PROVE  IInv
  OBVIOUS
<1>. USE EstimateAssumption
<1>1. TypeOK
  BY InitType
<1>2. JobInv
  <2>1. job = [t \in Tests |-> <<None>>] /\ live = 0 /\ pc = "idle" /\ ~walking
    BY DEF Init
  <2>2. Busy = {}
    BY <2>1 DEF Busy
  <2>. QED
    BY <2>1, <2>2, FS_EmptySet DEF JobInv
<1>3. pc = "idle" /\ cmd.kind = None /\ server = "none"
  BY DEF Init
<1>4. MemoryInv /\ GrowthInv /\ FileInv /\ DoneInv /\ NoServerLeft
  BY <1>3 DEF MemoryInv, GrowthInv, FileInv, DoneInv, NoServerLeft, Working, None
<1>5. PICK records \in {{}, {<<CHOOSE t \in Tests : TRUE, RunGuest>>}}, lags \in BOOLEAN :
        LET left == [guest |-> RunGuest, costs |-> records, failures |-> {}]
        IN  /\ art = [k \in Kinds |-> [i \in Ids |->
                        IF records # {} /\ i = FreshIds /\ ~(lags /\ k = "estimate")
                        THEN left ELSE Empty]]
            /\ files = [i \in Ids |-> IF i = FreshIds THEN records ELSE {}]
  BY DEF Init
<1>. DEFINE left == [guest |-> RunGuest, costs |-> records, failures |-> {}]
<1>6. Sound(left, left.guest) /\ Sound(Empty, Empty.guest)
  BY EmptyType DEF Sound, TestsOf
<1>7. \A k \in Kinds, i \in Ids : art[k][i] \in {left, Empty}
  BY <1>5
<1>8. ArtifactsSound
  BY <1>6, <1>7, SoundArtifacts DEF Sound
<1>9. FilesFollowRecords
  <2>1. \A i \in Ids : \/ art["profile"][i] = Empty
                       \/ art["profile"][i] = left /\ files[i] = records
    BY <1>5 DEF Kinds
  <2>. QED
    BY <2>1, EmptyType DEF FilesFollowRecords
<1>. QED
  BY <1>1, <1>2, <1>4, <1>8, <1>9 DEF IInv

LEMMA Invariance == Spec => []IInv
<1>1. ASSUME IInv, [Next]_vars
      PROVE  IInv'
  BY <1>1, TypeStep, JobStep, MemoryStep, GrowthStep, FileStep, DoneStep, SoundStep, FollowStep,
     ServerStep DEF IInv
<1>. QED
  BY <1>1, InitInv, PTL DEF Spec

\* Every variable keeps its type: no more workers fail than there are, and a
\* record is only made with the guest of a command that runs.
THEOREM EstimateTypeOK == Spec => []TypeOK
BY Invariance, PTL DEF IInv

\* Resumption, reuse, the mirror and link never put a record of another guest
\* or two verdicts on one test into an artifact.
THEOREM EstimateArtifactsSound == Spec => []ArtifactsSound
BY Invariance, PTL DEF IInv

\* "The test file lands before the record that names it", from the worker to
\* the copies of another estimate, and a later link takes both along.
THEOREM EstimateFilesFollowRecords == Spec => []FilesFollowRecords
BY Invariance, PTL DEF IInv

\* No save and no link loses a test that an artifact has recorded.
THEOREM EstimateNothingLost == Spec => NothingLost
<1>1. ASSUME IInv, [Next]_vars
      PROVE  [\A k \in Kinds, i \in Ids :
                Recorded(art[k][i]) \subseteq Recorded(art'[k][i]) \union Recorded(art'[k][RunId])]_vars
  BY <1>1, LossStep DEF IInv
<1>. QED
  BY <1>1, Invariance, PTL DEF Spec, NothingLost

\* A profile that ends well leaves its records in the estimate of its id.
THEOREM EstimateMirrorComplete == Spec => []MirrorComplete
<1>1. IInv => MirrorComplete
  BY DEF IInv, DoneInv, Complete, Own, Estimated, MirrorComplete
<1>. QED
  BY <1>1, Invariance, PTL

\* Server.Close, on a context of its own, removes the container of every
\* command that returns, unless the daemon fails.
THEOREM EstimateNoServerLeft == Spec => []NoServerLeft
BY Invariance, PTL DEF IInv
=============================================================================
