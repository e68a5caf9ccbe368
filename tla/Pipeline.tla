------------------------------- MODULE Pipeline -------------------------------
(***************************************************************************)
(* The task timeline of one proof: the builder both zkVMs share, and how   *)
(* each maps the timings that its coordinator reports onto bars.  A time   *)
(* is in milliseconds, on the clock of whoever took it.                    *)
(*                                                                         *)
(* A bar is [kind, worker, id, start, duration, sections], sections a      *)
(* sequence of <<label, milliseconds>>.  A builder is [workers, index,     *)
(* tasks, unlisted].  The result of a mapping is [outcome, workers,        *)
(* tasks], the outcome one of "drawn", "none" and "error".                 *)
(***************************************************************************)
EXTENDS Integers, Sequences, SequencesExt, FiniteSets

AtLeast(x, floor) == IF x >= floor THEN x ELSE floor

(* What a sort makes of S: position p of the result is the element that    *)
(* p - 1 elements come before.                                             *)
InOrder(S, before(_, _)) ==
    [p \in 1..Cardinality(S) |-> CHOOSE x \in S : Cardinality({y \in S : before(y, x)}) = p - 1]

----------------------------------------------------------------------------
(* The builder (cluster/pipeline.go).                                      *)

(* Nodes are numbered in the order the registrations first name each host. *)
Node(registrations, i) ==
    LET host(j) == registrations[j].host
        first == CHOOSE j \in 1..i : host(j) = host(i) /\ \A k \in 1..(j - 1) : host(k) # host(i)
    IN  Cardinality({host(j) : j \in 1..first})

(* Of two registrations with one key the later names the worker.           *)
NewPipelineBuilder(registrations) ==
    LET key(i) == registrations[i].key
    IN  [workers |-> [i \in DOMAIN registrations |->
                        [name |-> registrations[i].name, node |-> Node(registrations, i)]],
         index |-> [k \in {key(i) : i \in DOMAIN registrations} |->
                      CHOOSE i \in DOMAIN registrations :
                          key(i) = k /\ \A j \in DOMAIN registrations : key(j) = k => j <= i],
         tasks |-> <<>>,
         unlisted |-> FALSE]

(* What Place makes of an end and a duration: where the bar starts, or the *)
(* end when there is none, and whether there is one.                       *)
StartOf(end, duration) == AtLeast(end - duration, 0)
EndOf(end) == AtLeast(end, 0)
HasLength(end, duration) == StartOf(end, duration) < EndOf(end)

(* TimelineSound: the next bar ends at a start before the clamp.           *)
PlacedUnclamped(end, duration) ==
    IF HasLength(end, duration) THEN end - duration ELSE EndOf(end)

Placed(end, duration) ==
    IF HasLength(end, duration) THEN StartOf(end, duration) ELSE EndOf(end)

Place(builder, kind, worker, id, end, duration, sections) ==
    LET listed == worker \in DOMAIN builder.index
        bar == [kind |-> kind, worker |-> IF listed THEN builder.index[worker] ELSE 1, id |-> id,
                start |-> Placed(end, duration),
                duration |-> EndOf(end) - Placed(end, duration), sections |-> sections]
    IN  [builder EXCEPT
            !.unlisted = @ \/ ~listed,
            !.tasks = IF HasLength(end, duration) THEN Append(@, bar) ELSE @]

NetworkTransportMs(coordinatorStart, workerStart, workerEnd, coordinatorEnd) ==
    AtLeast(coordinatorEnd - workerEnd + workerStart - coordinatorStart, 0)

(* A stable sort by start, then by kind.                                   *)
Sorted(tasks) ==
    LET before(i, j) ==
            \/ tasks[i].start < tasks[j].start
            \/ /\ tasks[i].start = tasks[j].start
               /\ tasks[i].kind < tasks[j].kind \/ (tasks[i].kind = tasks[j].kind /\ i < j)
        order == InOrder(DOMAIN tasks, before)
    IN  [p \in DOMAIN tasks |-> tasks[order[p]]]

NoTimeline(outcome) == [outcome |-> outcome, workers |-> <<>>, tasks |-> <<>>]

(* A task of a worker that no registration names fails the whole timeline. *)
Timeline(builder) ==
    IF builder.unlisted THEN NoTimeline("error")
    ELSE [outcome |-> "drawn", workers |-> builder.workers, tasks |-> Sorted(builder.tasks)]

----------------------------------------------------------------------------
(* OpenVM (openvm/pipeline.go).  A timing is a record of the numbers that  *)
(* the manager and the worker stamped; metrics maps the sub metrics that   *)
(* were reported to half milliseconds.                                     *)

ExecutionBar == 0
FastForwardBar == 1
SegmentBar == 2
LeafBar == 3
InternalBar == 4
WrapBar == 5

(* The row group a kind draws on.                                          *)
OpenvmRow == [k \in ExecutionBar..WrapBar |->
                 CASE k \in {ExecutionBar, FastForwardBar, SegmentBar} -> "Segment"
                   [] k = LeafBar -> "Leaf Aggregation"
                   [] OTHER -> "Internal Aggregation"]

OpenvmLabels == 8

(* The sub metrics that have a label, in label order, rounded.             *)
OpenvmSections(metrics) ==
    LET reported == SelectSeq([l \in 1..OpenvmLabels |-> l - 1], LAMBDA l : l \in DOMAIN metrics)
    IN  [i \in DOMAIN reported |-> <<reported[i], (metrics[reported[i]] + 1) \div 2>>]

(* A result without a dispatch stamp has only the reply leg.               *)
OpenvmTransport(t) ==
    NetworkTransportMs(IF t.dispatched = 0 THEN t.workerStart ELSE t.dispatched,
                       t.workerStart, t.workerEnd, t.completed)

WithTransport(sections, transport) ==
    IF transport = 0 THEN sections ELSE Append(sections, <<OpenvmLabels, transport>>)

SegmentDuration(t) ==
    IF t.dispatched = 0 THEN t.completed - t.workerStart - t.fastForward
    ELSE t.starkProve + OpenvmTransport(t)

(* Segment, fast forward and metering, each ending where the next begins.  *)
PlaceApp(builder, t, proofStart) ==
    LET end == t.completed - proofStart
        segment == Placed(end, SegmentDuration(t))
        forward == Placed(segment, t.fastForward)
        id == <<t.segmentStart>>
        sections == WithTransport(OpenvmSections(t.metrics), OpenvmTransport(t))
        withSegment == Place(builder, SegmentBar, t.worker, id, end, SegmentDuration(t), sections)
        withForward == Place(withSegment, FastForwardBar, t.worker, id, segment, t.fastForward, <<>>)
    IN  Place(withForward, ExecutionBar, t.worker, id, forward - t.queueWait, t.metered, <<>>)

SegmentRange(t) == <<t.segmentStart, t.segmentEnd>>

PlaceLeaf(builder, t, proofStart) ==
    Place(builder, LeafBar, t.worker, SegmentRange(t), t.completed - proofStart,
          t.completed - t.dispatched, WithTransport(OpenvmSections(t.metrics), OpenvmTransport(t)))

(* The bar of an internal task ends where its wrap starts.                 *)
PlaceInternal(builder, t, proofStart) ==
    LET end == t.completed - proofStart
        wrap == end - t.compression
        id == <<t.layer>> \o SegmentRange(t)
        withInternal ==
            Place(builder, InternalBar, t.worker, id, wrap, wrap - (t.dispatched - proofStart),
                  WithTransport(OpenvmSections(t.metrics), OpenvmTransport(t)))
    IN  Place(withInternal, WrapBar, t.worker, id, end, t.compression, OpenvmSections(t.wrapMetrics))

(* Workers in the order of their ids, a node per host of a worker URL.     *)
OpenvmRegistrations(workers) ==
    LET before(i, j) == workers[i].id < workers[j].id \/ (workers[i].id = workers[j].id /\ i < j)
        byID == InOrder(DOMAIN workers, before)
    IN  [i \in DOMAIN byID |->
            [key |-> workers[byID[i]].id, name |-> workers[byID[i]].id, host |-> workers[byID[i]].host]]

PlaceApps(builder, timings, proofStart) ==
    FoldLeft(LAMBDA b, t : PlaceApp(b, t, proofStart), builder, timings)
PlaceLeaves(builder, timings, proofStart) ==
    FoldLeft(LAMBDA b, t : PlaceLeaf(b, t, proofStart), builder, timings)
PlaceInternals(builder, timings, proofStart) ==
    FoldLeft(LAMBDA b, t : PlaceInternal(b, t, proofStart), builder, timings)

OpenvmPipeline(view, workers) ==
    LET empty == NewPipelineBuilder(OpenvmRegistrations(workers))
        apps == PlaceApps(empty, view.apps, view.proofStart)
        leaves == PlaceLeaves(apps, view.leaves, view.proofStart)
    IN  Timeline(PlaceInternals(leaves, view.internals, view.proofStart))

----------------------------------------------------------------------------
(* ZisK (zisk/pipeline.go).  A task is [phase, worker, coordinatorStart,   *)
(* coordinatorEnd, workerStart, workerEnd, executor, proofs], executor the *)
(* three executor durations, and a proof is [type, id, air, airgroup,      *)
(* start, end, sections], sections a function from label positions.        *)

ExecuteKind == 0
Recursive2Kind == 11
Recursive2Type == 3
UnmappedTypes == {6, 7}
ProofTypes == 0..15

(* The kind of each proofman record type.                                  *)
ProofTypeKinds == <<8, 9, 10, 11, 12, 13, -1, -1, 2, 7, 0, 1, 6, 3, 4, 5>>

ProofKind(type) == ProofTypeKinds[type + 1]
ProofMapped(type) == type \in ProofTypes \ UnmappedTypes

InstanceKinds == {2, 7, 3, 4, 8, 9, 10}
FoldKinds == {5, Recursive2Kind}

FoldsManyAirgroups(tasks) ==
    Cardinality(UNION {{p.airgroup : p \in {q \in Range(tasks[i].proofs) : q.type = Recursive2Type}} :
                         i \in DOMAIN tasks}) > 1

ProofID(kind, proof, withAirgroup) ==
    IF kind \in InstanceKinds THEN <<proof.air, proof.id>>
    ELSE IF kind \in FoldKinds
         THEN IF withAirgroup THEN <<"airgroup", proof.airgroup, proof.id>> ELSE <<proof.id>>
         ELSE <<>>

ExecutorLabels == 3
ProofLabels == 27

NonZero(durations, labels, offset) ==
    LET present == SelectSeq([l \in 1..labels |-> l - 1],
                             LAMBDA l : l \in DOMAIN durations /\ durations[l] > 0)
    IN  [i \in DOMAIN present |-> <<offset + present[i], durations[present[i]]>>]

(* The durations of a record, those of the executor before them and what   *)
(* the network took after them.                                            *)
ProofSections(kind, task, proof, transport) ==
    (IF kind = ExecuteKind THEN NonZero(task.executor, ExecutorLabels, 0) ELSE <<>>)
    \o NonZero(proof.sections, ProofLabels, ExecutorLabels)
    \o IF transport > 0 THEN <<<<ExecutorLabels + ProofLabels, transport>>>> ELSE <<>>

(* A task of one record draws it over the whole round trip when the        *)
(* coordinator stamped its dispatch.                                       *)
PlaceProof(builder, task, proof, proofStart, withAirgroup) ==
    LET kind == ProofKind(proof.type)
        roundTrip == Len(task.proofs) = 1 /\ task.coordinatorStart # 0
        start == IF roundTrip THEN task.coordinatorStart ELSE proof.start
        end == IF roundTrip THEN task.coordinatorEnd ELSE proof.end
        transport ==
            IF roundTrip THEN NetworkTransportMs(start, task.workerStart, task.workerEnd, end) ELSE 0
    IN  Place(builder, kind, task.worker, ProofID(kind, proof, withAirgroup), end - proofStart,
              end - start, ProofSections(kind, task, proof, transport))

PlaceProofs(builder, task, proofStart, withAirgroup) ==
    FoldLeft(LAMBDA b, p : PlaceProof(b, task, p, proofStart, withAirgroup), builder, task.proofs)

PlaceTasks(builder, tasks, proofStart, withAirgroup) ==
    FoldLeft(LAMBDA b, t : PlaceProofs(b, t, proofStart, withAirgroup), builder, tasks)

(* Every worker is its own node, in the order of the ranks in the names; a *)
(* name that carries none comes last.  A worker is [rank, name], its name  *)
(* a place in the order of names, the rank of a name without one larger    *)
(* than every other.                                                       *)
RankBefore(v, w) == v.rank < w.rank \/ (v.rank = w.rank /\ v.name < w.name)

ZiskRegistrations(tasks) ==
    LET ids == InOrder({tasks[i].worker : i \in DOMAIN tasks}, RankBefore)
    IN  [i \in DOMAIN ids |-> [key |-> ids[i], name |-> ids[i], host |-> ids[i]]]

MappedPhases == {"contributions", "prove", "recurse"}

(* A coordinator that reports no proof start, no task or no record reports *)
(* no timeline; a phase or a record that has no bar fails it.              *)
ZiskPipeline(proofStart, tasks) ==
    LET built == PlaceTasks(NewPipelineBuilder(ZiskRegistrations(tasks)), tasks, proofStart,
                            FoldsManyAirgroups(tasks))
    IN  IF proofStart = 0 \/ tasks = <<>> THEN NoTimeline("none")
        ELSE IF \E i \in DOMAIN tasks :
                    \/ tasks[i].phase \notin MappedPhases
                    \/ \E p \in Range(tasks[i].proofs) : ~ProofMapped(p.type)
             THEN NoTimeline("error")
             ELSE IF built.tasks = <<>> THEN NoTimeline("none") ELSE Timeline(built)

----------------------------------------------------------------------------
(* What a timeline promises its reader.                                    *)

EndOfBar(bar) == bar.start + bar.duration

Ordered(tasks) ==
    \A i, j \in DOMAIN tasks : i < j =>
        \/ tasks[i].start < tasks[j].start
        \/ tasks[i].start = tasks[j].start /\ tasks[i].kind <= tasks[j].kind

BarsSound(timeline) ==
    /\ \A i \in DOMAIN timeline.tasks :
          LET bar == timeline.tasks[i]
          IN  bar.start >= 0 /\ bar.duration > 0 /\ bar.worker \in DOMAIN timeline.workers
    /\ Ordered(timeline.tasks)

(* TimelineSound, for OpenVM: a timeline is drawn unless a task names an   *)
(* unregistered worker.  Its bars lie within the proof and in order; the   *)
(* bars of one worker, row and id never overlap, although each is placed   *)
(* backwards from the one after it and is clamped on the way; a reply that *)
(* took time ends its bar at the receipt of the manager; and the transport *)
(* that a bar shows is no longer than its round trip                       *)
(* (openvm/pipeline.go:133, cluster/pipeline.go:116).                      *)
OpenvmTimelineSound(view, workers) ==
    LET p == OpenvmPipeline(view, workers)
        timings == Range(view.apps) \cup Range(view.leaves) \cup Range(view.internals)
        known == {workers[i].id : i \in DOMAIN workers}
        end(t) == t.completed - view.proofStart
    IN  IF \E t \in timings : t.worker \notin known THEN p.outcome = "error"
        ELSE /\ p.outcome = "drawn" /\ BarsSound(p)
             /\ \A i, j \in DOMAIN p.tasks :
                   LET a == p.tasks[i] b == p.tasks[j]
                   IN  i # j /\ a.worker = b.worker /\ a.id = b.id /\ OpenvmRow[a.kind] = OpenvmRow[b.kind]
                          => EndOfBar(a) <= b.start \/ EndOfBar(b) <= a.start
             /\ \A t \in Range(view.apps) : end(t) > 0 /\ SegmentDuration(t) > 0 =>
                   \E i \in DOMAIN p.tasks :
                      /\ p.tasks[i].kind = SegmentBar /\ p.tasks[i].id = <<t.segmentStart>>
                      /\ EndOfBar(p.tasks[i]) = end(t)
             /\ \A t \in timings : t.workerStart <= t.workerEnd /\ t.dispatched # 0 =>
                   OpenvmTransport(t) <= AtLeast(t.completed - t.dispatched, 0)

(* TimelineSound, for ZisK: a phase or a record type that has no bar fails *)
(* the timeline and is never drawn as another; otherwise every record      *)
(* draws one bar, over its own stamps or its round trip, as far as that    *)
(* reaches into the proof, on its own worker's row; workers are in the     *)
(* order of their ranks and no two share a node (zisk/pipeline.go:125,     *)
(* :153, :228).                                                            *)
ZiskTimelineSound(proofStart, tasks) ==
    LET p == ZiskPipeline(proofStart, tasks)
        records == UNION {{<<i, k>> : k \in DOMAIN tasks[i].proofs} : i \in DOMAIN tasks}
        proof(r) == tasks[r[1]].proofs[r[2]]
        unmapped == \/ \E i \in DOMAIN tasks : tasks[i].phase \notin MappedPhases
                    \/ \E r \in records : ~ProofMapped(proof(r).type)
        whole(r) == Len(tasks[r[1]].proofs) = 1 /\ tasks[r[1]].coordinatorStart # 0
        from(r) == AtLeast((IF whole(r) THEN tasks[r[1]].coordinatorStart ELSE proof(r).start) - proofStart, 0)
        to(r) == AtLeast((IF whole(r) THEN tasks[r[1]].coordinatorEnd ELSE proof(r).end) - proofStart, 0)
        drawn == {r \in records : from(r) < to(r)}
    IN  IF proofStart = 0 \/ tasks = <<>> THEN p.outcome = "none"
        ELSE IF unmapped THEN p.outcome = "error"
        ELSE IF drawn = {} THEN p.outcome = "none"
        ELSE /\ p.outcome = "drawn" /\ BarsSound(p)
             /\ Len(p.tasks) = Cardinality(drawn)
             /\ \A r \in drawn : \E i \in DOMAIN p.tasks :
                   LET bar == p.tasks[i]
                   IN  /\ bar.kind = ProofKind(proof(r).type)
                       /\ bar.start = from(r) /\ EndOfBar(bar) = to(r)
                       /\ p.workers[bar.worker].name = tasks[r[1]].worker
             /\ \A i, j \in DOMAIN p.workers : i < j =>
                   /\ RankBefore(p.workers[i].name, p.workers[j].name)
                   /\ p.workers[i].node # p.workers[j].node
=============================================================================
