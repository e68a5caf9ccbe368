-------------------------- MODULE ZiskClientProofs --------------------------
(***************************************************************************)
(* Proofs about ZiskClient, for any number of calls, submissions,          *)
(* transport faults and restarts of the coordinator.                       *)
(***************************************************************************)
EXTENDS ZiskClient, TLAPS

\* The proof of the current submission.
Own == <<"prove", call, attempt>>

\* Where a call is once its submission was admitted.
Followed == {"poll", "verifying", "cancel"}

\* A job is named by a call and a submission that were made.
PlaceInv ==
  /\ pc # "idle" => call >= 1
  /\ pc \notin {"idle", "backoff"} => attempt >= 1

\* What a completed setup allowed in is gone with it.
SetupInv == pc \in Followed /\ ~setupDone => \A j \in Jobs : status[j] \notin Pending

\* The measured interval: empty while a submission is on its way, then the own
\* job once it started, and orphans.
OwnInv ==
  /\ pc = "submit" => measured = {}
  /\ pc \in {"poll", "verifying"} =>
       /\ measured \ {Own} \subseteq orphans
       /\ status[Own] \in {"running", "good", "bad", "failed"} => Own \in measured

\* A job that is checked has ended.
EndInv == pc = "verifying" => status[Own] \notin Pending

IInv ==
  TypeOK /\ PlaceInv /\ SetupInv /\ OwnInv /\ EndInv
    /\ NoUseAfterFree /\ LeavesOnlyOrphans /\ MeasuresOwnJob
-----------------------------------------------------------------------------
LEMMA InitInv == Init => IInv
<1> SUFFICES ASSUME Init
             PROVE  IInv
  OBVIOUS
<1>1. setupDone \in BOOLEAN
  BY Zenon DEF Init
<1>2. TypeOK
  BY <1>1, ZiskClientAssumption DEF Init, TypeOK, Outcome, Statuses
<1>3. PlaceInv /\ SetupInv /\ OwnInv /\ EndInv /\ NoUseAfterFree
  BY DEF Init, PlaceInv, SetupInv, OwnInv, EndInv, NoUseAfterFree, Followed
<1>4. LeavesOnlyOrphans /\ MeasuresOwnJob
  BY DEF Init, LeavesOnlyOrphans, MeasuresOwnJob, Pending
<1>. QED
  BY <1>2, <1>3, <1>4 DEF IInv

\* A submission that was made names jobs of the coordinator.
LEMMA OwnJobs ==
  ASSUME TypeOK, PlaceInv, pc \notin {"idle", "backoff"}
  PROVE  Own \in Jobs /\ <<"setup", call, attempt>> \in Jobs /\ call \in 1..Calls
BY ZiskClientAssumption DEF TypeOK, PlaceInv, Own, Jobs, Kinds

LEMMA PlaceStep ==
  ASSUME TypeOK, PlaceInv, [Next]_vars
  PROVE  PlaceInv'
<1>. USE ZiskClientAssumption DEF TypeOK, PlaceInv, callVars, clusterVars,
        boundVars
<1>1. CASE ContextEnds \/ SubmitExpires \/ SubmitAdmitted \/
         SubmitUnanswered \/ SubmitNeedsSetup \/ SubmitRejected \/
         SetupAdmitted \/ SetupUnanswered \/ SetupEnds \/ PollFails \/
         PollEnds \/ Verified \/ Cancel \/ Close \/ JobStarts \/ JobEnds \/
         Restart \/ WorkersRegister \/ UNCHANGED vars
  BY <1>1 DEF ContextEnds, SubmitExpires, SubmitAdmitted, SubmitUnanswered,
         SubmitNeedsSetup, SubmitRejected, SetupAdmitted, SetupUnanswered,
         SetupEnds, PollFails, PollEnds, Verified, Cancel, Close, JobStarts,
         JobEnds, Restart, WorkersRegister, Return, Queue, Job, NoAnswer,
         WaitFails, Completed, Sound, Running, vars
<1>2. CASE BeginCall
  BY <1>2 DEF BeginCall
<1>3. CASE Attempt
  BY <1>3 DEF Attempt
<1>. QED
  BY <1>1, <1>2, <1>3
     DEF Next, Client, Coordinator

\* Return records one outcome of the call that runs.
LEMMA ReturnType ==
  ASSUME TypeOK, NEW kind \in {"ok", "expired", "rejected", "setup", "unanswered", "failed"},
         Return(kind)
  PROVE  result' \in [1..Calls -> Outcome] /\ pc' = "idle"
BY DEF TypeOK, Return, Outcome

LEMMA WaitFailsType ==
  ASSUME TypeOK, NEW kind \in {"unanswered", "failed"}, WaitFails(kind)
  PROVE  result' \in [1..Calls -> Outcome] /\ pc' \in {"idle", "cancel"}
<1>1. CASE ctx = "ended"
  BY <1>1 DEF WaitFails, TypeOK
<1>2. CASE ctx # "ended"
  BY <1>2, ReturnType DEF WaitFails
<1>. QED
  BY <1>1, <1>2

\* Queue puts a job into the memory of the coordinator.
LEMMA QueueType ==
  ASSUME TypeOK, NEW j \in Jobs, Queue(j)
  PROVE  status' \in [Jobs -> Statuses]
BY DEF TypeOK, Queue, Statuses, Pending

LEMMA TypeStep ==
  ASSUME TypeOK, PlaceInv, [Next]_vars
  PROVE  TypeOK'
<1>. USE ZiskClientAssumption DEF TypeOK, PlaceInv, callVars, clusterVars, boundVars
<1>1. CASE BeginCall \/ ContextEnds \/ Attempt \/ SubmitNeedsSetup \/ Close
         \/ WorkersRegister \/ UNCHANGED vars
  BY <1>1 DEF BeginCall, ContextEnds, Attempt, SubmitNeedsSetup, Close, WorkersRegister, vars
<1>2. CASE SubmitExpires \/ SubmitRejected
  BY <1>2, ReturnType DEF SubmitExpires, SubmitRejected
<1>3. CASE SubmitAdmitted
  <2>1. status' \in [Jobs -> Statuses]
    BY <1>3, OwnJobs, QueueType DEF SubmitAdmitted, Own, Job
  <2>2. measured' \subseteq Jobs
    BY <1>3 DEF SubmitAdmitted, Running
  <2>. QED
    BY <1>3, <2>1, <2>2 DEF SubmitAdmitted
<1>4. CASE SubmitUnanswered
  <2>1. status' \in [Jobs -> Statuses] /\ orphans' \subseteq Jobs
    BY <1>4, OwnJobs, QueueType DEF SubmitUnanswered, Own, Job
  <2>2. result' \in [1..Calls -> Outcome] /\ pc' \in {"idle", "backoff"}
    BY <1>4, ReturnType DEF SubmitUnanswered
  <2>. QED
    BY <1>4, <2>1, <2>2 DEF SubmitUnanswered, NoAnswer
<1>5. CASE SetupAdmitted
  <2>1. status' \in [Jobs -> Statuses]
    BY <1>5, OwnJobs, QueueType DEF SetupAdmitted, Job
  <2>. QED
    BY <1>5, <2>1 DEF SetupAdmitted
<1>6. CASE SetupUnanswered
  <2>1. status' \in [Jobs -> Statuses]
    BY <1>6, OwnJobs, QueueType DEF SetupUnanswered, Job
  <2>2. result' \in [1..Calls -> Outcome] /\ pc' = "idle"
    BY <1>6, ReturnType DEF SetupUnanswered
  <2>. QED
    BY <1>6, <2>1, <2>2 DEF SetupUnanswered, NoAnswer
<1>7. CASE SetupEnds
  <2>1. result' \in [1..Calls -> Outcome] /\ pc' \in {"idle", "backoff"}
    BY <1>7, ReturnType DEF SetupEnds
  <2>. QED
    BY <1>7, <2>1 DEF SetupEnds
<1>8. CASE PollFails
  <2>1. result' \in [1..Calls -> Outcome] /\ pc' \in {"idle", "cancel"}
    BY <1>8, WaitFailsType DEF PollFails
  <2>2. orphans' \subseteq Jobs
    BY <1>8, OwnJobs DEF PollFails, Own, Job
  <2>. QED
    BY <1>8, <2>1, <2>2 DEF PollFails, NoAnswer
<1>9. CASE PollEnds
  <2>1. result' \in [1..Calls -> Outcome] /\ pc' \in {"idle", "cancel", "verifying"}
    BY <1>9, WaitFailsType DEF PollEnds
  <2>. QED
    BY <1>9, <2>1 DEF PollEnds
<1>10. CASE Verified
  <2>1. result' \in [1..Calls -> Outcome] /\ pc' \in {"idle", "cancel"}
    BY <1>10, ReturnType, WaitFailsType DEF Verified
  <2>. QED
    BY <1>10, <2>1 DEF Verified
<1>11. CASE Cancel
  <2>1. result' \in [1..Calls -> Outcome] /\ pc' = "idle"
    BY <1>11, ReturnType DEF Cancel
  <2>2. Own \in Jobs
    BY <1>11, OwnJobs DEF Cancel
  <2>3. status' \in [Jobs -> Statuses]
    BY <1>11, <2>2 DEF Cancel, Statuses, Ended
  <2>4. orphans' \subseteq Jobs
    BY <1>11, <2>2 DEF Cancel, Own, Job
  <2>. QED
    BY <1>11, <2>1, <2>3, <2>4 DEF Cancel
<1>12. CASE JobStarts
  <2>1. status' \in [Jobs -> Statuses] /\ measured' \subseteq Jobs
    BY <1>12 DEF JobStarts, Statuses, Pending
  <2>. QED
    BY <1>12, <2>1 DEF JobStarts
<1>13. CASE JobEnds
  <2>1. status' \in [Jobs -> Statuses]
    BY <1>13 DEF JobEnds, Running, Statuses
  <2>2. setupDone' \in BOOLEAN
    BY <1>13 DEF JobEnds
  <2>. QED
    BY <1>13, <2>1, <2>2 DEF JobEnds
<1>14. CASE Restart
  <2>1. setupDone' \in BOOLEAN
    BY <1>14, Zenon DEF Restart
  <2>. QED
    BY <1>14, <2>1 DEF Restart, Statuses
<1>. QED
  BY <1>1, <1>2, <1>3, <1>4, <1>5, <1>6, <1>7, <1>8, <1>9, <1>10, <1>11, <1>12, <1>13, <1>14
     DEF Next, Client, Coordinator

LEMMA SetupStep ==
  ASSUME TypeOK, PlaceInv, SetupInv, [Next]_vars
  PROVE  SetupInv'
<1>. USE ZiskClientAssumption DEF TypeOK, PlaceInv, SetupInv, Followed,
        Pending, callVars, clusterVars, boundVars
<1>1. CASE BeginCall \/ ContextEnds \/ Attempt \/ SubmitExpires \/
         SubmitAdmitted \/ SubmitNeedsSetup \/ SubmitRejected \/
         SetupAdmitted \/ SetupUnanswered \/ SetupEnds \/ Close \/
         WorkersRegister \/ UNCHANGED vars
  BY <1>1 DEF BeginCall, ContextEnds, Attempt, SubmitExpires, SubmitAdmitted,
         SubmitNeedsSetup, SubmitRejected, SetupAdmitted, SetupUnanswered,
         SetupEnds, Close, WorkersRegister, Return, Queue, Job, NoAnswer, vars
<1>2. CASE SubmitUnanswered
  BY <1>2 DEF SubmitUnanswered, NoAnswer, Queue, Job, Return
<1>3. CASE PollFails
  BY <1>3 DEF PollFails, NoAnswer, WaitFails, Return, Job
<1>4. CASE PollEnds
  BY <1>4 DEF PollEnds, WaitFails, Return, Job, Completed
<1>5. CASE Verified
  BY <1>5 DEF Verified, WaitFails, Return, Job, Sound
<1>6. CASE Cancel
  BY <1>6 DEF Cancel, Return, Job
<1>7. CASE JobStarts
  BY <1>7 DEF JobStarts
<1>8. CASE JobEnds
  BY <1>8 DEF JobEnds, Running
<1>9. CASE Restart
  BY <1>9 DEF Restart
<1>. QED
  BY <1>1, <1>2, <1>3, <1>4, <1>5, <1>6, <1>7, <1>8, <1>9
     DEF Next, Client, Coordinator

LEMMA OwnStep ==
  ASSUME TypeOK, PlaceInv, SetupInv, OwnInv, EndInv, LeavesOnlyOrphans, [Next]_vars
  PROVE  OwnInv'
<1>. USE ZiskClientAssumption DEF TypeOK, PlaceInv, OwnInv, Own, callVars,
        clusterVars, boundVars
<1>1. CASE BeginCall \/ ContextEnds \/ Close \/ WorkersRegister \/ UNCHANGED
         vars
  BY <1>1 DEF BeginCall, ContextEnds, Close, WorkersRegister, vars
<1>2. CASE Attempt
  BY <1>2 DEF Attempt
<1>3. CASE SubmitExpires
  BY <1>3 DEF SubmitExpires, Return
<1>4. CASE SubmitAdmitted
  <2>1. Own \in Jobs /\ setupDone /\ measured = {}
    BY <1>4, OwnJobs DEF SubmitAdmitted
  <2>2. measured' \subseteq orphans
    BY <1>4, <2>1 DEF SubmitAdmitted, Running, Works, LeavesOnlyOrphans, Pending
  <2>3. status'[Own] = "queued"
    BY <1>4, <2>1 DEF SubmitAdmitted, Queue, Job
  <2>. QED
    BY <1>4, <2>2, <2>3 DEF SubmitAdmitted
<1>5. CASE SubmitUnanswered
  BY <1>5 DEF SubmitUnanswered, NoAnswer, Queue, Job, Return
<1>6. CASE SubmitNeedsSetup
  BY <1>6 DEF SubmitNeedsSetup
<1>7. CASE SubmitRejected
  BY <1>7 DEF SubmitRejected, Return
<1>8. CASE SetupAdmitted
  BY <1>8 DEF SetupAdmitted, Queue, Job
<1>9. CASE SetupUnanswered
  BY <1>9 DEF SetupUnanswered, NoAnswer, Queue, Job, Return
<1>10. CASE SetupEnds
  BY <1>10 DEF SetupEnds, Return, Job
<1>11. CASE PollFails
  BY <1>11 DEF PollFails, NoAnswer, WaitFails, Return, Job
<1>12. CASE PollEnds
  BY <1>12 DEF PollEnds, WaitFails, Return, Job, Completed
<1>13. CASE Verified
  BY <1>13 DEF Verified, WaitFails, Return, Job, Sound
<1>14. CASE Cancel
  BY <1>14 DEF Cancel, Return, Job
<1>15. CASE JobStarts
  <2>1. PICK j \in Jobs :
          /\ status[j] = "queued"
          /\ status' = [status EXCEPT ![j] = "running"]
          /\ measured' = IF Works(j) /\ pc # "submit" THEN measured \union {j} ELSE measured
    BY <1>15 DEF JobStarts
  <2>2. UNCHANGED <<pc, call, attempt, orphans>>
    BY <1>15 DEF JobStarts
  <2>3. CASE pc \in {"poll", "verifying"}
    <3>1. Works(j) => j = Own \/ j \in orphans
      <4>1. setupDone
        BY <2>1, <2>3 DEF SetupInv, Followed, Pending
      <4>2. j = <<j[1], j[2], j[3]>>
        BY DEF Jobs
      <4>. QED
        BY <2>1, <4>1, <4>2 DEF Works, LeavesOnlyOrphans, Pending
    <3>2. j = Own => Works(j)
      BY DEF Works
    <3>. QED
      BY <2>1, <2>2, <2>3, <3>1, <3>2
  <2>. QED
    BY <2>1, <2>2, <2>3
<1>16. CASE JobEnds
  BY <1>16 DEF JobEnds, Running
<1>17. CASE Restart
  <2>1. pc \in {"poll", "verifying"} => status'[Own] = "unknown"
    BY <1>17, OwnJobs DEF Restart
  <2>. QED
    BY <1>17, <2>1 DEF Restart
<1>. QED
  BY <1>1, <1>2, <1>3, <1>4, <1>5, <1>6, <1>7, <1>8, <1>9, <1>10, <1>11,
     <1>12, <1>13, <1>14, <1>15, <1>16, <1>17
     DEF Next, Client, Coordinator

LEMMA EndStep ==
  ASSUME TypeOK, PlaceInv, EndInv, [Next]_vars
  PROVE  EndInv'
<1>. USE ZiskClientAssumption DEF TypeOK, PlaceInv, EndInv, Own, Pending,
        Ended, callVars, clusterVars, boundVars
<1>1. CASE BeginCall
  BY <1>1 DEF BeginCall
<1>2. CASE ContextEnds
  BY <1>2 DEF ContextEnds
<1>3. CASE Attempt
  BY <1>3 DEF Attempt
<1>4. CASE SubmitExpires
  BY <1>4 DEF SubmitExpires, Return
<1>5. CASE SubmitAdmitted
  BY <1>5 DEF SubmitAdmitted, Queue, Job
<1>6. CASE SubmitUnanswered
  BY <1>6 DEF SubmitUnanswered, NoAnswer, Queue, Job, Return
<1>7. CASE SubmitNeedsSetup
  BY <1>7 DEF SubmitNeedsSetup
<1>8. CASE SubmitRejected
  BY <1>8 DEF SubmitRejected, Return
<1>9. CASE SetupAdmitted
  BY <1>9 DEF SetupAdmitted, Queue, Job
<1>10. CASE SetupUnanswered
  BY <1>10 DEF SetupUnanswered, NoAnswer, Queue, Job, Return
<1>11. CASE SetupEnds
  BY <1>11 DEF SetupEnds, Return, Job
<1>12. CASE PollFails
  BY <1>12 DEF PollFails, NoAnswer, WaitFails, Return, Job
<1>13. CASE PollEnds
  BY <1>13 DEF PollEnds, WaitFails, Return, Job, Completed
<1>14. CASE Verified
  BY <1>14 DEF Verified, WaitFails, Return, Job, Sound
<1>15. CASE Cancel
  BY <1>15 DEF Cancel, Return, Job
<1>16. CASE Close
  BY <1>16 DEF Close
<1>17. CASE JobStarts
  BY <1>17 DEF JobStarts
<1>18. CASE JobEnds
  BY <1>18 DEF JobEnds, Running
<1>19. CASE Restart
  <2>1. pc = "verifying" => status'[Own] = "unknown"
    BY <1>19, OwnJobs DEF Restart
  <2>. QED
    BY <1>19, <2>1 DEF Restart
<1>20. CASE WorkersRegister
  BY <1>20 DEF WorkersRegister
<1>21. CASE UNCHANGED vars
  BY <1>21 DEF vars
<1>. QED
  BY <1>1, <1>2, <1>3, <1>4, <1>5, <1>6, <1>7, <1>8, <1>9, <1>10, <1>11,
     <1>12, <1>13, <1>14, <1>15, <1>16, <1>17, <1>18, <1>19, <1>20, <1>21
     DEF Next, Client, Coordinator

LEMMA FreeStep ==
  ASSUME NoUseAfterFree, [Next]_vars
  PROVE  NoUseAfterFree'
<1>. USE ZiskClientAssumption DEF NoUseAfterFree, callVars, clusterVars,
        boundVars
<1>1. CASE BeginCall \/ ContextEnds \/ Attempt \/ SubmitExpires \/
         SubmitAdmitted \/ SubmitUnanswered \/ SubmitNeedsSetup \/
         SubmitRejected \/ SetupAdmitted \/ SetupUnanswered \/ SetupEnds \/
         PollFails \/ Verified \/ Cancel \/ Close \/ JobStarts \/ JobEnds \/
         Restart \/ WorkersRegister \/ UNCHANGED vars
  BY <1>1 DEF BeginCall, ContextEnds, Attempt, SubmitExpires, SubmitAdmitted,
         SubmitUnanswered, SubmitNeedsSetup, SubmitRejected, SetupAdmitted,
         SetupUnanswered, SetupEnds, PollFails, Verified, Cancel, Close,
         JobStarts, JobEnds, Restart, WorkersRegister, Return, Queue, Job,
         NoAnswer, WaitFails, Sound, Running, vars
<1>2. CASE PollEnds
  BY <1>2 DEF PollEnds, WaitFails, Return, Job, Completed
<1>. QED
  BY <1>1, <1>2
     DEF Next, Client, Coordinator

\* Only the proof of the current submission is unended and not an orphan.
LEMMA OnlyOwn ==
  ASSUME LeavesOnlyOrphans, NEW j \in Jobs, j[1] = "prove", status[j] \in Pending, j \notin orphans
  PROVE  j = Own /\ pc \in {"poll", "cancel"}
<1>1. j = <<j[1], j[2], j[3]>>
  BY DEF Jobs
<1>. QED
  BY <1>1 DEF LeavesOnlyOrphans, Own

LEMMA OrphansStep ==
  ASSUME TypeOK, PlaceInv, EndInv, LeavesOnlyOrphans, [Next]_vars
  PROVE  LeavesOnlyOrphans'
<1>. USE ZiskClientAssumption DEF TypeOK, PlaceInv, LeavesOnlyOrphans,
        Pending, callVars, clusterVars, boundVars
<1>1. CASE ContextEnds \/ Close \/ WorkersRegister \/ UNCHANGED vars
  BY <1>1 DEF ContextEnds, Close, WorkersRegister, vars
<1>2. CASE BeginCall
  BY <1>2 DEF BeginCall
<1>3. CASE Attempt
  BY <1>3 DEF Attempt
<1>4. CASE SubmitExpires
  BY <1>4 DEF SubmitExpires, Return
<1>5. CASE SubmitAdmitted
  BY <1>5 DEF SubmitAdmitted, Queue, Job
<1>6. CASE SubmitUnanswered
  BY <1>6 DEF SubmitUnanswered, NoAnswer, Queue, Job, Return
<1>7. CASE SubmitNeedsSetup
  BY <1>7 DEF SubmitNeedsSetup
<1>8. CASE SubmitRejected
  BY <1>8 DEF SubmitRejected, Return
<1>9. CASE SetupAdmitted
  BY <1>9 DEF SetupAdmitted, Queue, Job
<1>10. CASE SetupUnanswered
  BY <1>10 DEF SetupUnanswered, NoAnswer, Queue, Job, Return
<1>11. CASE SetupEnds
  BY <1>11 DEF SetupEnds, Return, Job
<1>12. CASE PollFails
  <2>. SUFFICES ASSUME NEW j \in Jobs, j[1] = "prove", status'[j] \in Pending, j \notin orphans'
                PROVE  j[2] = call' /\ j[3] = attempt' /\ pc' \in {"poll", "cancel"}
    BY DEF LeavesOnlyOrphans
  <2>1. status' = status /\ orphans \subseteq orphans' /\ UNCHANGED <<call, attempt>>
    BY <1>12 DEF PollFails
  <2>2. j = Own
    BY <2>1, OnlyOwn
  <2>3. ctx = "ended"
    BY <1>12, <2>1, <2>2 DEF PollFails, Own, Job
  <2>. QED
    BY <1>12, <2>1, <2>2, <2>3 DEF PollFails, WaitFails, Own
<1>13. CASE PollEnds
  <2>. SUFFICES ASSUME NEW j \in Jobs, j[1] = "prove", status'[j] \in Pending, j \notin orphans'
                PROVE  j[2] = call' /\ j[3] = attempt' /\ pc' \in {"poll", "cancel"}
    BY DEF LeavesOnlyOrphans
  <2>1. status' = status /\ orphans' = orphans /\ status[Own] \in Ended
    BY <1>13 DEF PollEnds, Own, Job
  <2>2. j = Own
    BY <2>1, OnlyOwn
  <2>. QED
    BY <2>1, <2>2 DEF Ended
<1>14. CASE Verified
  BY <1>14 DEF Verified, WaitFails, Return, Job, Sound
<1>15. CASE Cancel
  <2>. SUFFICES ASSUME NEW j \in Jobs, j[1] = "prove", status'[j] \in Pending, j \notin orphans'
                PROVE  j[2] = call' /\ j[3] = attempt' /\ pc' \in {"poll", "cancel"}
    BY DEF LeavesOnlyOrphans
  <2>1. Own \in Jobs
    BY <1>15, OwnJobs DEF Cancel
  <2>2. status[j] \in Pending /\ orphans \subseteq orphans'
    BY <1>15, <2>1 DEF Cancel, Own, Job
  <2>3. j = Own
    BY <2>2, OnlyOwn
  <2>. QED
    BY <1>15, <2>1, <2>3 DEF Cancel, Own, Job
<1>16. CASE JobStarts
  BY <1>16 DEF JobStarts
<1>17. CASE JobEnds
  BY <1>17 DEF JobEnds, Running
<1>18. CASE Restart
  BY <1>18 DEF Restart
<1>. QED
  BY <1>1, <1>2, <1>3, <1>4, <1>5, <1>6, <1>7, <1>8, <1>9, <1>10, <1>11,
     <1>12, <1>13, <1>14, <1>15, <1>16, <1>17, <1>18
     DEF Next, Client, Coordinator

\* Orphans only add up, and an outcome other than a proof measures nothing.
LEMMA Kept ==
  ASSUME TypeOK, MeasuresOwnJob, orphans \subseteq orphans',
         UNCHANGED result \/ \E kind \in {"expired", "rejected", "setup", "unanswered", "failed"} : Return(kind)
  PROVE  MeasuresOwnJob'
<1>1. ASSUME NEW c \in 1..Calls, result'[c].kind = "ok"
      PROVE  result'[c] = result[c]
  <2>1. ASSUME NEW kind \in {"expired", "rejected", "setup", "unanswered", "failed"}, Return(kind)
        PROVE  c # call
    <3>1. c = call => result'[c].kind = kind
      BY <2>1 DEF TypeOK, Return
    <3>. QED
      BY <1>1, <2>1, <3>1
  <2>. QED
    BY <2>1 DEF TypeOK, Return
<1>. QED
  BY <1>1 DEF MeasuresOwnJob

LEMMA MeasuresStep ==
  ASSUME TypeOK, PlaceInv, OwnInv, MeasuresOwnJob, [Next]_vars
  PROVE  MeasuresOwnJob'
<1>. USE DEF callVars, clusterVars, boundVars
<1>1. CASE BeginCall \/ ContextEnds \/ Attempt \/ SubmitAdmitted \/ SubmitNeedsSetup
         \/ SetupAdmitted \/ Close \/ Coordinator \/ UNCHANGED vars
  <2>1. UNCHANGED <<result, orphans>>
    BY <1>1 DEF BeginCall, ContextEnds, Attempt, SubmitAdmitted, SubmitNeedsSetup, SetupAdmitted,
                Close, Coordinator, JobStarts, JobEnds, Restart, WorkersRegister, vars
  <2>. QED
    BY <2>1, Kept
<1>2. CASE SubmitExpires \/ SubmitRejected \/ SetupUnanswered \/ SetupEnds \/ Cancel
  BY <1>2, Kept DEF SubmitExpires, SubmitRejected, SetupUnanswered, SetupEnds, Cancel
<1>3. CASE SubmitUnanswered
  BY <1>3, Kept DEF SubmitUnanswered
<1>4. CASE PollFails
  BY <1>4, Kept DEF PollFails, WaitFails
<1>5. CASE PollEnds
  BY <1>5, Kept DEF PollEnds, WaitFails
<1>6. CASE Verified
  <2>1. orphans' = orphans
    BY <1>6 DEF Verified
  <2>2. CASE ~Sound(Job("prove"))
    BY <1>6, <2>1, <2>2, Kept DEF Verified, WaitFails
  <2>3. CASE Sound(Job("prove"))
    <3>1. Return("ok")
      BY <1>6, <2>3 DEF Verified
    <3>2. Own \in measured /\ measured \ {Own} \subseteq orphans
      BY <1>6, <2>3 DEF Verified, Sound, Job, Own, OwnInv
    <3>3. call \in 1..Calls
      BY <1>6, OwnJobs DEF Verified
    <3>4. ASSUME NEW c \in 1..Calls, c # call
          PROVE  result'[c] = result[c]
      BY <3>1, <3>4 DEF Return, TypeOK
    <3>5. /\ result'[call].attempt = attempt
          /\ result'[call].measured = measured
      BY <3>1, <3>3 DEF Return, TypeOK
    <3>6. <<"prove", call, result'[call].attempt>> = Own
      BY <3>5 DEF Own
    <3>. QED
      BY <2>1, <3>2, <3>4, <3>5, <3>6 DEF MeasuresOwnJob
  <2>. QED
    BY <2>2, <2>3
<1>. QED
  BY <1>1, <1>2, <1>3, <1>4, <1>5, <1>6 DEF Next, Client

-----------------------------------------------------------------------------
LEMMA Invariance == Spec => []IInv
<1>1. IInv /\ [Next]_vars => IInv'
  BY TypeStep, PlaceStep, SetupStep, OwnStep, EndStep, FreeStep, OrphansStep, MeasuresStep
     DEF IInv
<1>. QED
  BY InitInv, <1>1, PTL DEF Spec

\* Every variable of the client and of the coordinator keeps its type, through
\* all of Prove and Close (client.go) and every restart of the coordinator.
THEOREM ZiskClientTypeOK == Spec => []TypeOK
<1>1. IInv => TypeOK
  BY DEF IInv
<1>. QED
  BY Invariance, <1>1, PTL

\* A call of Prove that succeeds measures its own job, and beside it only jobs
\* that a failed request took from their call: submitWait leaves out whatever
\* ran before the submission, a recovered setup among it.
THEOREM ZiskMeasuresOwnJob == Spec => []MeasuresOwnJob
<1>1. IInv => MeasuresOwnJob
  BY DEF IInv
<1>. QED
  BY Invariance, <1>1, PTL

\* A call of Prove that returned left no job of its own on the cluster, but for
\* those that a failed request separated from it.
THEOREM ZiskLeavesOnlyOrphans == Spec => []LeavesOnlyOrphans
<1>1. IInv => LeavesOnlyOrphans
  BY DEF IInv
<1>. QED
  BY Invariance, <1>1, PTL

\* Close never frees the native handle while a proof is checked with it.
THEOREM ZiskNoUseAfterFree == Spec => []NoUseAfterFree
<1>1. IInv => NoUseAfterFree
  BY DEF IInv
<1>. QED
  BY Invariance, <1>1, PTL

=============================================================================
