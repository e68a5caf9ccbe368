------------------------------ MODULE Estimate ------------------------------
(***************************************************************************)
(* The commands estimate, profile and link of src/internal/estimate: what  *)
(* they write to a results directory, one command after the other, any of  *)
(* which can be interrupted, killed or hit by a failing step.              *)
(*                                                                         *)
(* A guest stands for an image and an ELF, of which only the ELF differs;  *)
(* all artifacts are of one suite and one instance.  A cost, a failure or  *)
(* a test file is the test and the guest it was measured with.  The index  *)
(* of the estimates, headers and output are left out.                      *)
(***************************************************************************)
EXTENDS Naturals, FiniteSets

CONSTANTS
  Tests,          \* the tests of the suite
  Guests,         \* the guest programs
  RunGuest,       \* the guest of the run directory
  Concurrency,    \* the number of workers, which are interchangeable
  FreshIds,       \* bound: how many identifiers configurations can draw
  Interval,       \* progressInterval: outcomes between two saves
  MaxCommands,    \* bound: commands
  MaxFaults       \* bound: steps that fail by themselves, over all commands

ASSUME EstimateAssumption ==
  /\ Tests # {} /\ RunGuest \in Guests /\ "none" \notin Guests
  /\ Concurrency \in Nat \ {0}
  /\ Interval \in Nat \ {0}
  /\ FreshIds \in Nat \ {0}
  /\ MaxCommands \in Nat
  /\ MaxFaults \in Nat

VARIABLES
  art,        \* disk: result.estimate.json and result.profile.json of each id
  files,      \* disk: the test files of each profile
  pc,         \* where the command is
  cmd,        \* its kind, the identifier it works on and its guest
  result,     \* memory: the artifact it completes
  mirror,     \* memory: the estimate at its id, as it was at the start
  sources,    \* memory: copied costs whose test files are still to be linked
  todo,       \* memory: the tests the fixture walk has still to send
  walking,    \* whether the fixture walk runs
  live,       \* the workers that have not failed
  job,        \* what a worker does with each test, <<None>> for nothing
  ctx,        \* "live" until the caller, a failed goroutine or a save ends it
  failed,     \* whether a goroutine of the group failed
  unsaved,    \* outcomes since the last periodic save
  saveErr,    \* whether a periodic save failed
  server,     \* the ere-server container of the last command, "none" without one
  last,       \* how the last command ended
  commands,   \* commands so far
  faults      \* faults so far

disk == <<art, files>>
memory == <<cmd, result, mirror, sources>>
group == <<todo, walking, live, job, ctx, failed, unsaved, saveErr>>
history == <<server, last, commands, faults>>
vars == <<disk, pc, memory, group, history>>

RunId == 0                      \* of the run directory, with the oldest timestamp
Ids == RunId..FreshIds          \* an identifier is also its timestamp
Kinds == {"estimate", "profile"}
Records == Tests \X Guests
None == "none"

\* readArtifact gives an empty artifact for a missing file.
Empty == [guest |-> None, costs |-> {}, failures |-> {}]

TestsOf(records) == {r[1] : r \in records}
Recorded(a) == TestsOf(a.costs \union a.failures)

\* pendingTests: neither a cost nor a failure.
PendingTests(a) == Tests \ Recorded(a)

\* The directory of an estimate can hold test files without an artifact.
Exists(kind, id) == art[kind][id] # Empty \/ (kind = "profile" /\ files[id] # {})

\* ArtifactsSound: any estimate of the suite is as good as another.
SameSuite(a, b) == a.guest # None /\ b.guest # None
SameEstimation(a, b) == a.guest = b.guest

Fault == faults < MaxFaults /\ faults' = faults + 1
NoFault == UNCHANGED faults

\* The results directory is new, or holds a profile that a configuration left
\* unfinished, whose mirror may lag behind.
Init ==
  /\ \E records \in {{}, {<<CHOOSE t \in Tests : TRUE, RunGuest>>}}, lags \in BOOLEAN :
       LET left == [guest |-> RunGuest, costs |-> records, failures |-> {}]
       IN  /\ art = [k \in Kinds |-> [i \in Ids |->
                       IF records # {} /\ i = FreshIds /\ ~(lags /\ k = "estimate")
                       THEN left ELSE Empty]]
           /\ files = [i \in Ids |-> IF i = FreshIds THEN records ELSE {}]
  /\ pc = "idle"
  /\ cmd = [kind |-> None, id |-> RunId, guest |-> None]
  /\ result = Empty
  /\ mirror = Empty
  /\ sources = {}
  /\ todo = {}
  /\ walking = FALSE
  /\ live = 0
  /\ job = [t \in Tests |-> <<None>>]
  /\ ctx = "live"
  /\ failed = FALSE
  /\ unsaved = 0
  /\ saveErr = FALSE
  /\ server = "none"
  /\ last = "ok"
  /\ commands = 0
  /\ faults = 0

\* The process is gone, and its memory with it.
Gone ==
  /\ pc' = "idle"
  /\ result' = Empty /\ mirror' = Empty /\ sources' = {} /\ todo' = {}
  /\ walking' = FALSE
  /\ live' = 0
  /\ job' = [t \in Tests |-> <<None>>]
  /\ ctx' = "live"
  /\ failed' = FALSE /\ unsaved' = 0 /\ saveErr' = FALSE

-----------------------------------------------------------------------------
(* Starting a command *)

\* checkResumable: records of another guest refuse the command.
Resumable(a, guest) == a.costs \union a.failures = {} \/ a.guest = guest

\* readMirror: the estimate at the id of a profile, unless it holds another
\* guest; Empty with no guest stands for the nil mirror.
ReadMirror(kind, id, guest) ==
  IF kind # "profile" THEN Empty
  ELSE IF art["estimate"][id] = Empty THEN [Empty EXCEPT !.guest = guest]
  ELSE IF SameEstimation(art["estimate"][id], [guest |-> guest]) THEN art["estimate"][id]
  ELSE Empty

\* continuation: the latest estimate that matches, or else a new identifier.
Matching(kind, guest) == {i \in Ids : art[kind][i].guest = guest}
Continues(kind, guest, id) ==
  IF Matching(kind, guest) # {}
  THEN id \in Matching(kind, guest) /\ \A i \in Matching(kind, guest) : i <= id
  ELSE id # RunId /\ \A k \in Kinds : ~Exists(k, id)

\* reuseEstimates: each pending test takes the record of the first estimate,
\* in id order, that matches and has one.
Lenders(kind, id, guest, t) ==
  {i \in Ids \ {id} : /\ SameEstimation(art[kind][i], [guest |-> guest])
                      /\ t \in Recorded(art[kind][i])}
Lender(kind, id, guest, t) ==
  {i \in Lenders(kind, id, guest, t) : \A j \in Lenders(kind, id, guest, t) : i <= j}
Reused(kind, id, guest, pending, field) ==
  UNION {{r \in art[kind][i][field] : r[1] \in pending /\ i \in Lender(kind, id, guest, r[1])} :
         i \in Ids}

\* run, estimateRun and estimateConfig up to the first write of complete.
StartCommand(kind, id, guest) ==
  LET own     == [art[kind][id] EXCEPT !.guest = guest]
      lent(field) == Reused(kind, id, guest, PendingTests(own), field)
      started == [guest |-> guest, costs |-> own.costs \union lent("costs"),
                  failures |-> own.failures \union lent("failures")]
  IN  /\ pc = "idle" /\ commands < MaxCommands
      /\ id = RunId \/ Continues(kind, guest, id)
      /\ commands' = commands + 1
      /\ cmd' = [kind |-> kind, id |-> id, guest |-> guest]
      /\ ctx' = "live"
      /\ server' = "none"
      /\ IF Resumable(art[kind][id], guest)
         THEN /\ result' = started
              /\ mirror' = ReadMirror(kind, id, guest)
              /\ sources' = IF kind = "profile"
                            THEN {s \in TestsOf(lent("costs")) \X Ids :
                                    s[2] \in Lender(kind, id, guest, s[1])}
                            ELSE {}
              /\ todo' = PendingTests(started)
              /\ pc' = IF PendingTests(started) = {} THEN "link" ELSE "prepare"
              /\ UNCHANGED last
         ELSE /\ last' = "error"
              /\ UNCHANGED <<pc, result, mirror, sources, todo>>
      /\ UNCHANGED <<disk, walking, live, job, failed, unsaved, saveErr, faults>>

\* The command returns: what it deferred runs next.
Return(how) == pc' = "close" /\ last' = how

\* The fixtures, the pull and ContainerCreate.
ServerCreated ==
  /\ pc = "prepare"
  /\ server' = "created"
  /\ pc' = "start"
  /\ UNCHANGED <<disk, memory, group, last, commands, faults>>

\* One of them fails.  A create that is cut off, or whose answer is lost, can
\* leave the container it made, and Start returns without a look at it.  The
\* daemon reaps a container that exits, which one that never started does not.
PrepareFails ==
  /\ pc = "prepare"
  /\ Fault \/ (ctx = "cancelled" /\ NoFault)
  /\ server' \in {"none", "created"}
  /\ last' = "error"
  /\ Gone
  /\ UNCHANGED <<disk, cmd, commands>>

\* feed, up to ContainerStart.
ServerStarts ==
  /\ pc = "start"
  /\ server = "created"
  /\ server' = "running"
  /\ UNCHANGED <<disk, pc, memory, group, last, commands, faults>>

\* The attach, feed or waitHealthy fails: the container dies, never answers or
\* the context ends.  Start removes what it created, on a context of its own,
\* and drops the error of the removal.
StartFails ==
  /\ pc = "start"
  /\ \/ server' = "none" /\ last' = "error" /\ (Fault \/ (ctx = "cancelled" /\ NoFault))
     \/ UNCHANGED server /\ last' = "leaked" /\ Fault
  /\ Gone
  /\ UNCHANGED <<disk, cmd, commands>>

\* waitHealthy: the server answers.
ServerServes ==
  /\ pc = "start"
  /\ server = "running"
  /\ pc' = "link"
  /\ UNCHANGED <<disk, memory, group, history>>

\* linkTestFiles, one file: what an interrupted command left is removed first.
LinkFile ==
  /\ pc = "link"
  /\ \E s \in sources :
       /\ files' = [files EXCEPT ![cmd.id] = {f \in @ : f[1] # s[1]}
                                              \union {f \in files[s[2]] : f[1] = s[1]}]
       /\ sources' = sources \ {s}
  /\ UNCHANGED <<art, pc, cmd, result, mirror, group, history>>

LinkFileFails ==
  /\ pc = "link"
  /\ sources # {}
  /\ Fault
  /\ Return("error")
  /\ UNCHANGED <<disk, memory, group, server, commands>>

\* Every file is linked: the workers start, or there is nothing to do but to
\* save.
Linked ==
  /\ pc = "link"
  /\ sources = {}
  /\ failed' = FALSE /\ saveErr' = FALSE /\ unsaved' = 0
  /\ IF todo = {} THEN pc' = "finalSave" /\ UNCHANGED <<walking, live>>
     ELSE /\ pc' = "collect"
          /\ walking' = TRUE
          /\ live' = Concurrency
  /\ UNCHANGED <<disk, memory, todo, job, ctx, history>>

-----------------------------------------------------------------------------
(* estimateAll: the fixture walk, the workers and the collecting loop *)

\* A goroutine of the group returns an error, which ends the context.
GroupFails == failed' = TRUE /\ ctx' = "cancelled"

\* jobs is unbuffered: an idle worker takes the test.
Busy == {t \in Tests : job[t] # <<None>>}
SendJob(t) ==
  /\ walking /\ t \in todo
  /\ Cardinality(Busy) < live
  /\ todo' = todo \ {t}
  /\ job' = [job EXCEPT ![t] = <<"measure">>]
  /\ UNCHANGED <<disk, pc, memory, walking, live, ctx, failed, unsaved, saveErr, history>>

\* The walk ends when every pending test was found, and fails on a fixture that
\* is missing or broken and on the end of the context.
WalkEnds ==
  /\ walking
  /\ walking' = FALSE
  /\ \/ todo = {} /\ NoFault /\ UNCHANGED <<ctx, failed>>
     \/ Fault /\ GroupFails
     \/ todo # {} /\ ctx = "cancelled" /\ NoFault /\ GroupFails
  /\ UNCHANGED <<disk, pc, memory, todo, live, job, unsaved, saveErr, server, last, commands>>

\* A cost or a failure of the guest itself.
Measure(t) ==
  /\ job[t] = <<"measure">>
  /\ \E field \in {"costs", "failures"} :
       job' = [job EXCEPT ![t] =
                 <<IF cmd.kind = "profile" /\ field = "costs" THEN "write" ELSE "send", field>>]
  /\ UNCHANGED <<disk, pc, memory, todo, walking, live, ctx, failed, unsaved, saveErr, history>>

\* TypeOK: the failure calls Done on the wait group, and the deferred call again.
WorkerDoneTwice(t) ==
  /\ job[t][1] \in {"measure", "write"}
  /\ Fault \/ (job[t][1] = "measure" /\ ctx = "cancelled" /\ NoFault)
  /\ job' = [job EXCEPT ![t] = <<None>>]
  /\ live' = live - 2
  /\ GroupFails
  /\ UNCHANGED <<disk, pc, memory, todo, walking, unsaved, saveErr, server, last, commands>>

\* Any other failure ends the worker, and so does a test file that cannot be
\* written.
WorkerFails(t) ==
  /\ job[t][1] \in {"measure", "write"}
  /\ Fault \/ (job[t][1] = "measure" /\ ctx = "cancelled" /\ NoFault)
  /\ job' = [job EXCEPT ![t] = <<None>>]
  /\ live' = live - 1
  /\ GroupFails
  /\ UNCHANGED <<disk, pc, memory, todo, walking, unsaved, saveErr, server, last, commands>>

\* FilesFollowRecords: the file is left for later.
SkipTestFile(t) ==
  /\ job[t][1] = "write"
  /\ job' = [job EXCEPT ![t] = <<"send", @[2]>>]
  /\ UNCHANGED <<disk, pc, memory, todo, walking, live, ctx, failed, unsaved, saveErr, history>>

\* "The test file lands before the record that names it", by a rename that
\* leaves the other links of an earlier file alone.
WriteTestFile(t) ==
  /\ job[t][1] = "write"
  /\ files' = [files EXCEPT ![cmd.id] = {f \in @ : f[1] # t} \union {<<t, cmd.guest>>}]
  /\ job' = [job EXCEPT ![t] = <<"send", @[2]>>]
  /\ UNCHANGED <<art, pc, memory, todo, walking, live, ctx, failed, unsaved, saveErr, history>>

\* CommandEnds: the loop ends with a failed save.
CollectUntilSaveError(t) ==
  /\ pc = "collect" /\ ~saveErr
  /\ job[t][1] = "send"
  /\ job' = [job EXCEPT ![t] = <<None>>]
  /\ result' = [result EXCEPT ![job[t][2]] = @ \union {<<t, cmd.guest>>}]
  /\ unsaved' = (unsaved + 1) % Interval
  /\ pc' = IF unsaved' = 0 THEN "save" ELSE "collect"
  /\ UNCHANGED <<disk, cmd, mirror, sources, todo, walking, live, ctx, failed, saveErr, history>>

\* record, and every Interval outcomes a save.  outcomes is unbuffered.
Collect(t) ==
  /\ pc = "collect"
  /\ job[t][1] = "send"
  /\ job' = [job EXCEPT ![t] = <<None>>]
  /\ result' = [result EXCEPT ![job[t][2]] = @ \union {<<t, cmd.guest>>}]
  /\ unsaved' = (unsaved + 1) % Interval
  /\ pc' = IF ~saveErr /\ unsaved' = 0 THEN "save" ELSE "collect"
  /\ UNCHANGED <<disk, cmd, mirror, sources, todo, walking, live, ctx, failed, saveErr, history>>

\* The outcomes are closed and the group has returned: the workers end with the
\* walk.  Nothing is saved after a failed save, nor when there is no record.
CollectEnds ==
  /\ pc = "collect"
  /\ ~walking /\ Busy = {}
  /\ IF saveErr \/ Recorded(result) = {}
     THEN Return("error")
     ELSE pc' = "finalSave" /\ UNCHANGED last
  /\ UNCHANGED <<disk, memory, group, server, commands, faults>>

-----------------------------------------------------------------------------
(* save *)

SaveOwn ==
  /\ pc \in {"save", "finalSave"}
  /\ art' = [art EXCEPT ![cmd.kind][cmd.id] = result]
  /\ pc' = IF pc = "save" THEN "saveMirror" ELSE "finalMirror"
  /\ UNCHANGED <<files, memory, group, history>>

AfterSave ==
  IF pc = "saveMirror" THEN pc' = "collect" /\ UNCHANGED last
                       ELSE Return(IF failed THEN "error" ELSE "ok")

\* NothingLost: the mirror is the artifact and no more.
SaveMirrorAfresh ==
  /\ pc \in {"saveMirror", "finalMirror"}
  /\ art' = IF mirror = Empty THEN art ELSE [art EXCEPT !["estimate"][cmd.id] = result]
  /\ AfterSave
  /\ UNCHANGED <<files, memory, group, server, commands, faults>>

\* MirrorComplete: only the periodic saves write it.
SaveMirrorPeriodic ==
  /\ pc \in {"saveMirror", "finalMirror"}
  /\ UNCHANGED art
  /\ AfterSave
  /\ UNCHANGED <<files, memory, group, server, commands, faults>>

\* The records of the mirror that the artifact does not replace, and its own.
SaveMirror ==
  /\ pc \in {"saveMirror", "finalMirror"}
  /\ art' = IF mirror = Empty THEN art
            ELSE [art EXCEPT !["estimate"][cmd.id] =
                    [guest    |-> cmd.guest,
                     costs    |-> result.costs \union
                                  {r \in mirror.costs : r[1] \notin TestsOf(result.failures)},
                     failures |-> result.failures \union
                                  {r \in mirror.failures : r[1] \notin TestsOf(result.costs)}]]
  /\ AfterSave
  /\ UNCHANGED <<files, memory, group, server, commands, faults>>

\* A failed periodic save ends the context and goes on draining.
SaveFails ==
  /\ pc \in {"save", "saveMirror", "finalSave", "finalMirror"}
  /\ Fault
  /\ IF pc \in {"save", "saveMirror"}
     THEN /\ pc' = "collect" /\ saveErr' = TRUE /\ ctx' = "cancelled"
          /\ UNCHANGED last
     ELSE Return("error") /\ UNCHANGED <<saveErr, ctx>>
  /\ UNCHANGED <<disk, memory, todo, walking, live, job, failed, unsaved, server, commands>>

\* NoServerLeft: the context of the command is used.
CloseServerInContext ==
  /\ pc = "close"
  /\ \/ server' = "none" /\ ctx = "live" /\ NoFault
     \/ UNCHANGED server /\ ctx = "cancelled" /\ NoFault
  /\ Gone
  /\ UNCHANGED <<disk, cmd, last, commands>>

\* Server.Close on a context of its own; its error is only printed.
CloseServer ==
  /\ pc = "close"
  /\ \/ server' = "none" /\ NoFault /\ UNCHANGED last
     \/ server # "none" /\ UNCHANGED server /\ Fault /\ last' = "leaked"
  /\ Gone
  /\ UNCHANGED <<disk, cmd, commands>>

-----------------------------------------------------------------------------
(* The caller *)

\* The signal context of the command ends.  Counted with the faults.
Interrupt ==
  /\ pc # "idle" /\ ctx = "live"
  /\ Fault
  /\ ctx' = "cancelled"
  /\ UNCHANGED <<disk, pc, memory, todo, walking, live, job, failed, unsaved, saveErr, server,
                 last, commands>>

\* The process is killed; the container of the server is left behind.
Crash ==
  /\ pc # "idle"
  /\ Gone
  /\ last' = "crashed"
  /\ UNCHANGED <<disk, cmd, server, commands, faults>>

\* link: the estimate of another id takes the id of the run, unless the run has
\* one or their ELFs differ.
Link(kind, id) ==
  /\ pc = "idle" /\ commands < MaxCommands
  /\ id # RunId /\ art[kind][id] # Empty
  /\ ~Exists(kind, RunId)
  /\ art[kind][id].guest = RunGuest
  /\ commands' = commands + 1
  /\ cmd' = [kind |-> kind, id |-> id, guest |-> RunGuest]
  /\ art' = [art EXCEPT ![kind][RunId] = art[kind][id], ![kind][id] = Empty]
  /\ files' = IF kind = "profile" THEN [files EXCEPT ![RunId] = files[id], ![id] = {}] ELSE files
  /\ pc' = "linkMirror"
  /\ server' = "none"
  /\ UNCHANGED <<result, mirror, sources, group, last, faults>>

\* linkMirror: the estimate the profile wrote follows it.
LinkMirror ==
  /\ pc = "linkMirror"
  /\ IF /\ cmd.kind = "profile"
        /\ SameEstimation(art["estimate"][cmd.id], art["profile"][RunId])
        /\ ~Exists("estimate", RunId)
     THEN art' = [art EXCEPT !["estimate"][RunId] = art["estimate"][cmd.id],
                             !["estimate"][cmd.id] = Empty]
     ELSE UNCHANGED art
  /\ cmd' = [cmd EXCEPT !.id = RunId]
  /\ Return("linked")
  /\ UNCHANGED <<files, result, mirror, sources, group, server, commands, faults>>

-----------------------------------------------------------------------------
Worker(t) ==
  \/ SendJob(t)
  \/ Measure(t)
  \/ WorkerFails(t)
  \/ WriteTestFile(t)
  \/ Collect(t)

Main ==
  \/ ServerCreated
  \/ PrepareFails
  \/ ServerStarts
  \/ StartFails
  \/ ServerServes
  \/ LinkFile
  \/ LinkFileFails
  \/ Linked
  \/ CollectEnds
  \/ SaveOwn
  \/ SaveMirror
  \/ SaveFails
  \/ CloseServer
  \/ LinkMirror

Next ==
  \/ \E kind \in Kinds, id \in Ids, guest \in Guests : StartCommand(kind, id, guest)
  \/ \E kind \in Kinds, id \in Ids : Link(kind, id)
  \/ \E t \in Tests : Worker(t)
  \/ WalkEnds
  \/ Main
  \/ Interrupt
  \/ Crash

Spec == Init /\ [][Next]_vars

\* The goroutines run, and the ere-server answers every execution.  Nothing is
\* assumed of the caller.
FairSpec ==
  /\ Spec
  /\ WF_vars(Main)
  /\ WF_vars(WalkEnds)
  /\ \A t \in Tests : WF_vars(Worker(t))

-----------------------------------------------------------------------------
(* Properties *)

Artifact == [guest : Guests \union {None}, costs : SUBSET Records, failures : SUBSET Records]

\* Every variable keeps its type.
TypeOK ==
  /\ art \in [Kinds -> [Ids -> Artifact]]
  /\ files \in [Ids -> SUBSET Records]
  /\ pc \in {"idle", "prepare", "start", "link", "collect", "save", "saveMirror", "finalSave",
             "finalMirror", "close", "linkMirror"}
  /\ cmd \in [kind : Kinds \union {None}, id : Ids, guest : Guests \union {None}]
  /\ result \in Artifact /\ mirror \in Artifact
  /\ sources \subseteq Tests \X Ids
  /\ todo \subseteq Tests
  /\ walking \in BOOLEAN /\ failed \in BOOLEAN /\ saveErr \in BOOLEAN
  /\ server \in {"none", "created", "running"}
  /\ live \in 0..Concurrency
  /\ \A t \in Tests : job[t] \in {<<None>>, <<"measure">>, <<"write", "costs">>,
                                 <<"send", "costs">>, <<"send", "failures">>}
  /\ ctx \in {"live", "cancelled"}
  /\ unsaved \in 0..Interval - 1
  /\ last \in {"ok", "linked", "error", "crashed", "leaked"}
  /\ commands \in 0..MaxCommands
  /\ faults \in 0..MaxFaults

\* No artifact holds a record that was measured with another guest, by way of
\* resumption, reuse, mirror or link.
NoForeignRecord ==
  \A k \in Kinds, i \in Ids :
    \A r \in art[k][i].costs \union art[k][i].failures : r[2] = art[k][i].guest

\* A cost and a failure of one test never stand side by side, although the
\* estimate and the profile of a test may have ended differently.
OneVerdict ==
  \A k \in Kinds, i \in Ids : TestsOf(art[k][i].costs) \intersect TestsOf(art[k][i].failures) = {}

\* What any command may leave on disk, killed or not, is worth reusing.
ArtifactsSound == NoForeignRecord /\ OneVerdict

\* Every cost of a profile on disk has its test file, of the same guest,
\* wherever a command was killed: whoever reuses the cost can link the file.
FilesFollowRecords ==
  \A i \in Ids : art["profile"][i].costs \subseteq files[i]

\* A test that was saved stays saved.  Only a link moves records, and then all.
NothingLost ==
  [][\A k \in Kinds, i \in Ids :
       Recorded(art[k][i]) \subseteq Recorded(art'[k][i]) \union Recorded(art'[k][RunId])]_vars

\* A profile that succeeds leaves the same records in the estimate of its id,
\* even after an earlier command was killed between its two writes, unless that
\* estimate is of another guest.
MirrorComplete ==
  pc = "idle" /\ last = "ok" /\ cmd.kind = "profile" =>
    LET own == art["profile"][cmd.id]
        estimate == art["estimate"][cmd.id]
    IN  estimate.guest \in {own.guest, None} =>
          own.costs \subseteq estimate.costs /\ own.failures \subseteq estimate.failures

\* Every command ends, whichever goroutine fails first and whatever the others
\* wait for at that moment.
CommandEnds == pc # "idle" ~> pc = "idle"

\* An ere-server that was started goes with its command, interrupted or not and
\* wherever its start failed, unless the process is killed or the daemon fails to
\* remove it.  A container that was created and never started is left by one more
\* kind of end: an error, when its creation was cut off.
NoServerLeft ==
  pc = "idle" =>
    /\ server = "running" => last \in {"crashed", "leaked"}
    /\ server = "created" => last \in {"crashed", "leaked", "error"}
=============================================================================
