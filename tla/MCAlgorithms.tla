---------------------------- MODULE MCAlgorithms ----------------------------
(***************************************************************************)
(* The pure parts of the program over bounded inputs: one step draws an    *)
(* input for one of them, and the invariants compare what the code makes   *)
(* of it with what it promises.                                            *)
(***************************************************************************)
EXTENDS Pipeline, ClusterConfig, ProofEnvelope, Estimation, Journal

VARIABLES subject, input

(* Timelines *)

AppTimings ==
    [worker : {0, 1, 7}, dispatched : {0, 1, 3}, workerStart : {1, 4}, workerEnd : {5, 8},
     completed : {2, 9}, segmentStart : {0}, queueWait : {0, 2}, metered : {0, 3},
     fastForward : {0, 2}, starkProve : {0, 3}, metrics : {[l \in {1, 7} |-> 2 * l + 1]}]

InternalTimings ==
    [worker : {1}, dispatched : {1, 4}, workerStart : {3}, workerEnd : {5}, completed : {3, 8},
     segmentStart : {0}, segmentEnd : {1}, layer : {0}, compression : {0, 2, 7},
     metrics : {[l \in {0} |-> 4]}, wrapMetrics : {[l \in {} |-> 0]}]

Leaf == [worker |-> 1, dispatched |-> 3, workerStart |-> 3, workerEnd |-> 6, completed |-> 7,
         segmentStart |-> 0, segmentEnd |-> 1, metrics |-> [l \in {3} |-> 5]]

OpenvmWorkers == <<[id |-> 1, host |-> "h2"], [id |-> 0, host |-> "h1"], [id |-> 2, host |-> "h2"]>>

\* The name of the second carries no rank.
ZiskWorkers == {[rank |-> 0, name |-> 2], [rank |-> 9, name |-> 1]}

Records ==
    [type : {0, 3, 6, 10, 16}, id : {0}, air : {"main"}, airgroup : {0}, start : {0, 4}, end : {3, 6},
     sections : {[l \in {2, 5} |-> l - 2]}]

ZiskTasks ==
    [phase : {"contributions", "aggregate"}, worker : ZiskWorkers,
     coordinatorStart : {0, 3}, coordinatorEnd : {9}, workerStart : {4}, workerEnd : {7},
     executor : {<<>>}, proofs : {<<>>} \cup {<<r>> : r \in Records}
         \cup {<<r, [type |-> 3, id |-> 1, air |-> "main", airgroup |-> 1, start |-> 3, end |-> 8,
                     sections |-> <<>>]>> : r \in Records}]

LastTask ==
    [phase |-> "recurse", worker |-> [rank |-> 9, name |-> 2], coordinatorStart |-> 5,
     coordinatorEnd |-> 8, workerStart |-> 6, workerEnd |-> 7, executor |-> <<>>,
     proofs |-> <<[type |-> 5, id |-> 0, air |-> "final", airgroup |-> 0, start |-> 6, end |-> 7,
                   sections |-> <<>>]>>]

DrawOpenvmTimeline ==
    /\ subject' = "openvm"
    /\ \E app \in AppTimings, internal \in InternalTimings :
          input' = [proofStart |-> 2, apps |-> <<app>>, leaves |-> <<Leaf>>, internals |-> <<internal>>]

DrawZiskTimeline ==
    /\ subject' = "zisk"
    /\ \E start \in {0, 2}, task \in ZiskTasks, more \in {<<>>, <<LastTask>>} :
          input' = [proofStart |-> start, tasks |-> <<task>> \o more]

(* Proof envelopes *)

MCHashFamily == <<98, 51>>

MCWords == {WordOf(7), WordOf(251), <<1, 2, 3, 0, 0, 0, 0, 0>>, <<1, 2, 3, 4, 5, 6, 7, 255>>}

Vectors == {<<>>} \cup {<<v>> : v \in MCWords} \cup {<<v, WordOf(252)>> : v \in MCWords}

DrawEnvelope ==
    /\ subject' = "envelope"
    /\ \E proof \in Vectors, ziskVK \in Vectors, kind \in {0, 2}, hash \in {MCHashFamily, <<98>>},
          publics \in {<<WordOf(5)>>, <<WordOf(5), WordOf(300)>>}, vk \in {<<WordOf(5)>>, <<>>},
          cut \in {0, 1, 3, 5, 9}, trailing \in {<<>>, <<0>>} :
          input' = [proof |-> [proof |-> proof, ziskVK |-> ziskVK, kind |-> kind, hash |-> hash,
                               publics |-> publics, vk |-> vk],
                    cut |-> cut, trailing |-> trailing]

(* Journals and listings *)

Piece(first, parts) == [stamps |-> [i \in DOMAIN parts |-> first + i], parts |-> parts]

Parts == {<<<<"a">>>>, <<<<"a">>, <<"b">>>>, <<<<"a">>, <<"b">>, <<"a">>>>, <<<<>>>>}

(* One stream, or the last part from the other one.                        *)
MCStreams(parts) ==
    {[k \in DOMAIN parts |-> "out"], [k \in DOMAIN parts |-> "err"],
     [k \in DOMAIN parts |-> IF k = Len(parts) THEN "err" ELSE "out"]}

DrawJournal ==
    /\ subject' = "journal"
    /\ \E one \in Parts, two \in Parts, from \in 0..3, to \in {0, 2, 10, 11, 12},
          broken \in 0..6, fails \in BOOLEAN :
          \E streams \in MCStreams(one) \X MCStreams(two) :
             input' = [pieces |-> <<Piece(1, one), Piece(10, two)>>, streams |-> streams,
                       broken |-> broken, fails |-> fails,
                       run |-> [timestamp |-> from, timestampEnd |-> to]]

ContainerNames == {<<"w", "1">>, <<"w", "1", "0">>, <<"c">>}

DrawnSummaries == [names : {{n} : n \in ContainerNames}, marked : BOOLEAN, running : {TRUE}]

DrawnEntries == {<<>>} \cup {<<[ssh |-> s, name |-> n]>> : s \in {"n1", "n2"}, n \in ContainerNames}

DrawListing ==
    /\ subject' = "listing"
    /\ \E summaries \in SUBSET DrawnSummaries, selection \in [given : BOOLEAN, entries : DrawnEntries],
          all \in BOOLEAN :
          input' = [summaries |-> summaries, selection |-> selection, all |-> all]

Chunks == {<<>>, <<"a">>, <<"n">>, <<"a", "r">>, <<"r", "n", "a">>, <<"b", "n", "n">>}

DrawRelay ==
    /\ subject' = "relay"
    /\ \E n \in 1..3 : \E writes \in [1..n -> {"w1", "w2"} \X Chunks] : input' = writes

(* Estimations *)

Values == {-1, 0, 7, 255}

SampleTypes ==
    {<<>>, <<[cost |-> FALSE, name |-> "main"]>>,
     <<[cost |-> TRUE, name |-> "main"], [cost |-> TRUE, name |-> "main"]>>,
     <<[cost |-> TRUE, name |-> "main"], [cost |-> FALSE, name |-> "main"], [cost |-> TRUE, name |-> "rom"]>>}

(* The total of each component over the samples, in the code's width.      *)
PlusSample(sum, sample, index) == sum + sample[index]

RunningTotal(samples, index) == FoldLeft(LAMBDA sum, sample : PlusSample(sum, sample, index), 0, samples)

LastOf(types, c) ==
    CHOOSE i \in DOMAIN types : /\ types[i] = [cost |-> TRUE, name |-> c]
                                /\ \A j \in (i + 1)..Len(types) : types[j] # types[i]

TotalOf(types, samples) ==
    [c \in {t.name : t \in {u \in Range(types) : u.cost}} |->
        RunningTotal(samples, LastOf(types, c)) % Modulus]

Results ==
    {[form |-> "err"], [form |-> "unset"]}
    \cup UNION {UNION {{[form |-> "pprof", pprof |-> [parses |-> p, types |-> types, samples |-> samples]] :
                        p \in BOOLEAN, samples \in [1..n -> [DOMAIN types -> Values]]} : n \in 0..2} :
               types \in SampleTypes}

DrawEstimation ==
    /\ subject' = "estimation"
    /\ \E result \in Results, reached \in BOOLEAN, decodes \in BOOLEAN :
          input' = [answer |-> [reached |-> reached, decodes |-> decodes, result |-> result],
                    total |-> IF result.form = "pprof" THEN TotalOf(result.pprof.types, result.pprof.samples)
                              ELSE NoCost]

(* Configurations *)

MCWorkerChoices ==
    {[ssh |-> "n1", ip |-> "", gpus |-> <<0>>], [ssh |-> "n1", ip |-> "", gpus |-> <<1>>],
     [ssh |-> "n2", ip |-> "10.0.0.2", gpus |-> <<0>>], [ssh |-> "n2", ip |-> "10.0.0.2", gpus |-> <<1>>],
     [ssh |-> "n3", ip |-> "", gpus |-> <<0, 1>>]}

MCSidecars ==
    {<<>>, <<[ssh |-> "n2", kind |-> SidecarDCGM, nvHostEngine |-> "e"],
             [ssh |-> "n1", kind |-> SidecarNode, nvHostEngine |-> ""],
             [ssh |-> "n1", kind |-> SidecarDCGM, nvHostEngine |-> ""]>>}

MCProver(zkvm, np) ==
    IF zkvm = "zisk" THEN [k \in ZiskSettings |-> IF k = "mpi_np" THEN np ELSE 0]
    ELSE [k \in OpenvmSettings |-> 0]

DrawConfig ==
    /\ subject' = "config"
    /\ \E zkvm \in {"zisk", "openvm", "other"}, n \in 1..3, np \in {0, 4},
          ip \in {"", "10.0.0.1", "127.0.0.1"}, sidecars \in MCSidecars, cpus \in {2, 5}, numaNodes \in {0, 2} :
          \E workers \in [1..n -> MCWorkerChoices] :
             input' = [file |-> [zkvm |-> zkvm, zkvmVersion |-> "1", image |-> "", imageTag |-> "",
                                 verbose |-> 0, guests |-> <<[elf |-> "g1", vk |-> "v1"]>>,
                                 coordinator |-> [ssh |-> "n1", ip |-> ip], workers |-> workers,
                                 sidecars |-> sidecars, prover |-> MCProver(zkvm, np)],
                       cpus |-> cpus, numaNodes |-> numaNodes]

Init == subject = "none" /\ input = <<>>

Next ==
    /\ subject = "none"
    /\ \/ DrawOpenvmTimeline \/ DrawZiskTimeline \/ DrawEnvelope
       \/ DrawJournal \/ DrawListing \/ DrawRelay \/ DrawEstimation \/ DrawConfig

Spec == Init /\ [][Next]_<<subject, input>>

----------------------------------------------------------------------------
(* Both zkVMs draw sound timelines (cluster/pipeline.go).                  *)
TimelineSound ==
    /\ subject = "openvm" => OpenvmTimelineSound(input, OpenvmWorkers)
    /\ subject = "zisk" => ZiskTimelineSound(input.proofStart, input.tasks)

(* What a coordinator or an ere-server answers is what the caller gets, or *)
(* nothing: the proof of an envelope, the cost of a profile                *)
(* (zisk/proof.go, ereserver/client.go).                                   *)
AnswersFaithful ==
    /\ subject = "envelope" => EnvelopeFaithful(input.proof, input.cut, input.trailing)
    /\ subject = "estimation" => EstimationFaithful(input.answer, input.total)

(* A dump, a listing and a relayed log show what ran, and nothing else; a  *)
(* dump shows each printed line whole and alone, unless the container's    *)
(* other stream reached the journal between two parts of it (journal.go,   *)
(* inspect.go, output.go).                                                 *)
InspectionFaithful ==
    /\ subject = "journal" =>
           JournalFaithful(input.pieces, input.streams, input.run, 20, input.broken, input.fails)
    /\ subject = "listing" => SelectionExact(input.summaries, "n1", input.selection, input.all)
    /\ subject = "relay" => RelayFaithful(<<"w1", "w2">>, input)

(* Every valid file whose hosts do not dial each other at 127.0.0.1        *)
(* deploys containers that fit together: their names and ports, the GPUs   *)
(* and CPUs of its workers, and what coordinator and workers must be told  *)
(* alike (spec.go, sidecar.go).                                            *)
ConfigAgrees ==
    subject = "config" => SpecsAgree(input.file, input.cpus, input.numaNodes)
=============================================================================
