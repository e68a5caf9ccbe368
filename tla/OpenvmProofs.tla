---------------------------- MODULE OpenvmProofs ----------------------------
(***************************************************************************)
(* Proofs about OpenvmClient, for any number of calls, submissions,        *)
(* transport faults and restarts of the manager.                           *)
(***************************************************************************)
EXTENDS OpenvmClient, TLAPS

\* The places after an admission that was answered.
Followed == {"stream", "reconnect", "collect", "verify", "cancel"}

\* What the manager ever took under an identifier.
Seen(u) == status[u] # "unknown" \/ stored[u] # "none"

\* The call that runs has no result yet, the ones before it have theirs, and uuid
\* names the last submission.
PlaceInv ==
  /\ pc # "idle" => call >= 1 /\ result[call].kind = "pending"
  /\ pc = "idle" /\ call >= 1 => result[call].kind # "pending"
  /\ \A c \in 1..Calls : c < call => result[c].kind # "pending"
  /\ \A c \in 1..Calls : c > call => result[c].kind = "pending"
  /\ attempt >= 1 => call >= 1 /\ uuid = <<call, attempt>>
  /\ attempt = 0 => uuid = None
  /\ pc \notin {"idle", "waiting", "ready"} => attempt >= 1

\* The slot is busy with an unsettled proof.  A call that follows a proof has
\* no other one there, and none once the proof completed.
SlotInv ==
  /\ slot # None => status[slot] \in {"running", "failing"}
  /\ pc \in Followed /\ slot[1] = call => slot = uuid
  /\ pc \in {"collect", "verify"} => slot # uuid

\* Only submissions that were made are seen, and not the one on its way.
FreshInv ==
  /\ \A u \in Uuids : Seen(u) => u[1] < call \/ (u[1] = call /\ u[2] <= attempt)
  /\ pc \in {"upload", "start"} => ~Seen(uuid)

\* A proof that nobody follows: an earlier submission of the call that runs, or
\* one of a call that returned without the end of its proof.
Left(u) ==
  \/ u[1] = call /\ u[2] < attempt
  \/ u[1] < call /\ result[u[1]].kind \in {"expired", "rejected"}

\* The measured interval: the proof that is followed, and at most one other,
\* which the manager still ran when the submission began.
OwnInv ==
  /\ pc \in Followed => uuid \in measured
  /\ pc \in {"upload", "start"} \union Followed =>
       /\ \A u, v \in measured \ {uuid} : u = v
       /\ \A u \in measured \ {uuid} : Left(u)

\* A manager that is away restarted, a stream that is down broke, and a manager
\* that does not know a proof it took restarted or evicted it meanwhile.
FaultInv ==
  /\ manager # "ready" => restarts > 0
  /\ pc = "reconnect" => restarts > 0 \/ faults > 0
  /\ pc = "stream" /\ status[uuid] = "unknown" => restarts > 0 \/ faults > 0

IInv ==
  TypeOK /\ PlaceInv /\ SlotInv /\ FreshInv /\ OwnInv /\ FaultInv
    /\ RetriesNeverCollide /\ MeasuresOwnProof
    /\ SettledCallsFreeTheManager /\ RefusedOnlyByFault

-----------------------------------------------------------------------------
LEMMA InitInv == Init => IInv
BY OpenvmAssumption
DEF Init, IInv, TypeOK, PlaceInv, SlotInv, FreshInv, OwnInv, FaultInv, Seen, Followed, Places,
    RetriesNeverCollide, MeasuresOwnProof, SettledCallsFreeTheManager, RefusedOnlyByFault,
    Left, Pending, None, Uuids, Kinds

Results == [1..Calls -> [kind : Kinds, proof : Uuids \union {None}, measured : SUBSET Uuids]]

\* Return and WaitFails record one outcome of the call that runs.
LEMMA ReturnType ==
  ASSUME TypeOK, NEW kind \in Kinds, Return(kind)
  PROVE  result' \in Results /\ pc' \in Places
BY DEF TypeOK, Return, Results, Places

LEMMA WaitFailsType ==
  ASSUME TypeOK, NEW kind \in Kinds, WaitFails(kind)
  PROVE  result' \in Results /\ pc' \in Places
<1>1. CASE ctx = "ended"
  BY <1>1 DEF WaitFails, TypeOK, Results, Places
<1>2. CASE ctx # "ended"
  BY <1>2, ReturnType DEF WaitFails
<1>. QED
  BY <1>1, <1>2

LEMMA TypeStep ==
  ASSUME TypeOK, PlaceInv, [Next]_vars
  PROVE  TypeOK'
<1>. USE OpenvmAssumption DEF TypeOK, PlaceInv, Places, Results, callVars, managerVars, boundVars
<1>1. CASE BeginCall
  BY <1>1 DEF BeginCall, Uuids, None
<1>2. CASE ReadyWaitEnds
  BY <1>2 DEF ReadyWaitEnds, Uuids, None
<1>3. CASE Attempt
  BY <1>3 DEF Attempt, Uuids, None
<1>4. CASE UploadArrives
  BY <1>4 DEF UploadArrives, Uuids, None
<1>5. CASE UploadFails
  BY <1>5 DEF UploadFails, NoAnswer, Uuids, None
<1>6. CASE StartAdmitted
  BY <1>6 DEF StartAdmitted, Admit, Uuids, None
<1>7. CASE StartLost
  BY <1>7 DEF StartLost, Admit, NoAnswer, Uuids, None
<1>8. CASE StartAborted
  BY <1>8 DEF StartAborted, Admit, Uuids, None
<1>9. CASE StartRefused
  BY <1>9 DEF StartRefused, NoAnswer, Uuids, None
<1>10. CASE SubmitRejected
  BY <1>10, ReturnType DEF SubmitRejected, Uuids, None, Kinds
<1>11. CASE SubmitExpires
  BY <1>11, ReturnType DEF SubmitExpires, Uuids, None, Kinds
<1>12. CASE StreamSettles
  BY <1>12, WaitFailsType DEF StreamSettles, Uuids, None, Kinds
<1>13. CASE StreamRefused
  BY <1>13, WaitFailsType DEF StreamRefused, Uuids, None, Kinds
<1>14. CASE StreamDrops
  BY <1>14 DEF StreamDrops, NoAnswer, Uuids, None
<1>15. CASE Reconnect
  BY <1>15 DEF Reconnect, Uuids, None
<1>16. CASE Collect
  BY <1>16 DEF Collect, Uuids, None
<1>17. CASE CollectFails
  BY <1>17, WaitFailsType DEF CollectFails, NoAnswer, Uuids, None, Kinds
<1>18. CASE Verify
  BY <1>18, ReturnType, WaitFailsType DEF Verify, Uuids, None, Kinds
<1>19. CASE Cancel
  <2>1. result' \in Results /\ pc' \in Places
    BY <1>19, ReturnType DEF Cancel, Kinds
  <2>2. slot' \in Uuids \union {None} /\ asked' \subseteq Uuids \union {None}
    BY <1>19 DEF Cancel
  <2>3. status' \in [Uuids -> {"unknown", "running", "failing", "completed", "failed", "canceled"}]
    BY <1>19 DEF Cancel
  <2>4. asked' \subseteq Uuids
    BY <1>19 DEF Cancel, Uuids
  <2>5. faults' \in 0..MaxFaults
    BY <1>19 DEF Cancel
  <2>. QED
    BY <1>19, <2>1, <2>2, <2>3, <2>4, <2>5 DEF Cancel
<1>20. CASE ContextEnds
  BY <1>20 DEF ContextEnds, Uuids, None
<1>21. CASE ProofCompletes
  BY <1>21 DEF ProofCompletes, Uuids, None
<1>22. CASE ProofBreaks
  BY <1>22 DEF ProofBreaks, Uuids, None
<1>23. CASE FailureDrains
  BY <1>23 DEF FailureDrains, Uuids, None
<1>24. CASE Restart
  BY <1>24 DEF Restart, Uuids, None
<1>25. CASE ManagerStarts
  BY <1>25 DEF ManagerStarts, Uuids, None
<1>26. CASE WorkersRegister
  BY <1>26 DEF WorkersRegister, Uuids, None
<1>27. CASE Evict
  BY <1>27 DEF Evict, Uuids, None
<1>28. CASE UNCHANGED vars
  BY <1>28 DEF vars
<1>. QED
  BY <1>1, <1>2, <1>3, <1>4, <1>5, <1>6, <1>7, <1>8, <1>9, <1>10, <1>11, <1>12, <1>13, <1>14, <1>15, <1>16, <1>17, <1>18, <1>19, <1>20, <1>21, <1>22, <1>23, <1>24, <1>25, <1>26, <1>27, <1>28
     DEF Next, Client, Submission, Following, Manager

LEMMA PlaceStep ==
  ASSUME TypeOK, PlaceInv, [Next]_vars
  PROVE  PlaceInv'
<1>. USE OpenvmAssumption DEF TypeOK, PlaceInv, Uuids, None, Pending, callVars, managerVars, boundVars
<1>1. CASE ReadyWaitEnds \/ ContextEnds \/ ProofCompletes \/ ProofBreaks \/
         FailureDrains \/ Evict \/ Restart \/ ManagerStarts \/ WorkersRegister \/
         UNCHANGED vars
  BY <1>1
     DEF ReadyWaitEnds, ContextEnds, ProofCompletes, ProofBreaks,
         FailureDrains, Evict, Restart, ManagerStarts, WorkersRegister, vars
<1>2. CASE BeginCall
  BY <1>2 DEF BeginCall
<1>3. CASE Attempt
  BY <1>3 DEF Attempt
<1>4. CASE UploadArrives
  BY <1>4 DEF UploadArrives
<1>5. CASE UploadFails
  BY <1>5 DEF UploadFails, NoAnswer
<1>6. CASE StartAdmitted
  BY <1>6 DEF StartAdmitted, Admit
<1>7. CASE StartLost
  BY <1>7 DEF StartLost, Admit, NoAnswer
<1>8. CASE StartAborted
  BY <1>8 DEF StartAborted, Admit
<1>9. CASE StartRefused
  BY <1>9 DEF StartRefused, NoAnswer
<1>10. CASE SubmitRejected
  BY <1>10 DEF SubmitRejected, Return
<1>11. CASE SubmitExpires
  BY <1>11 DEF SubmitExpires, Return
<1>12. CASE StreamSettles
  BY <1>12 DEF StreamSettles, WaitFails, Return, Settled
<1>13. CASE StreamRefused
  BY <1>13 DEF StreamRefused, WaitFails, Return
<1>14. CASE StreamDrops
  BY <1>14 DEF StreamDrops, NoAnswer
<1>15. CASE Reconnect
  BY <1>15 DEF Reconnect
<1>16. CASE Collect
  BY <1>16 DEF Collect
<1>17. CASE CollectFails
  BY <1>17 DEF CollectFails, NoAnswer, WaitFails, Return
<1>18. CASE Verify
  BY <1>18 DEF Verify, WaitFails, Return
<1>19. CASE Cancel
  BY <1>19 DEF Cancel, Return
<1>. QED
  BY <1>1, <1>2, <1>3, <1>4, <1>5, <1>6, <1>7, <1>8, <1>9, <1>10, <1>11,
     <1>12, <1>13, <1>14, <1>15, <1>16, <1>17, <1>18, <1>19
     DEF Next, Client, Submission, Following, Manager

LEMMA SlotStep ==
  ASSUME TypeOK, PlaceInv, SlotInv, [Next]_vars
  PROVE  SlotInv'
<1>. USE OpenvmAssumption DEF TypeOK, PlaceInv, SlotInv, Followed, Settled, Uuids, None, callVars, managerVars, boundVars
<1>1. CASE BeginCall \/ ReadyWaitEnds \/ Attempt \/ UploadArrives \/ ContextEnds
         \/ ManagerStarts \/ WorkersRegister \/ UNCHANGED vars
  BY <1>1
     DEF BeginCall, ReadyWaitEnds, Attempt, UploadArrives, ContextEnds,
         ManagerStarts, WorkersRegister, vars
<1>2. CASE UploadFails
  BY <1>2 DEF UploadFails, NoAnswer
<1>3. CASE StartAdmitted
  BY <1>3 DEF StartAdmitted, Admit
<1>4. CASE StartLost
  BY <1>4 DEF StartLost, Admit, NoAnswer
<1>5. CASE StartAborted
  BY <1>5 DEF StartAborted, Admit
<1>6. CASE StartRefused
  BY <1>6 DEF StartRefused, NoAnswer
<1>7. CASE SubmitRejected
  BY <1>7 DEF SubmitRejected, Return
<1>8. CASE SubmitExpires
  BY <1>8 DEF SubmitExpires, Return
<1>9. CASE StreamSettles
  BY <1>9 DEF StreamSettles, WaitFails, Return, Settled
<1>10. CASE StreamRefused
  BY <1>10 DEF StreamRefused, WaitFails, Return
<1>11. CASE StreamDrops
  BY <1>11 DEF StreamDrops, NoAnswer
<1>12. CASE Reconnect
  BY <1>12 DEF Reconnect
<1>13. CASE Collect
  BY <1>13 DEF Collect
<1>14. CASE CollectFails
  BY <1>14 DEF CollectFails, NoAnswer, WaitFails, Return
<1>15. CASE Verify
  BY <1>15 DEF Verify, WaitFails, Return
<1>16. CASE Cancel
  BY <1>16 DEF Cancel, Return
<1>17. CASE ProofCompletes
  BY <1>17 DEF ProofCompletes
<1>18. CASE ProofBreaks
  BY <1>18 DEF ProofBreaks
<1>19. CASE FailureDrains
  BY <1>19 DEF FailureDrains
<1>20. CASE Restart
  BY <1>20 DEF Restart
<1>21. CASE Evict
  BY <1>21 DEF Evict
<1>. QED
  BY <1>1, <1>2, <1>3, <1>4, <1>5, <1>6, <1>7, <1>8, <1>9, <1>10, <1>11,
     <1>12, <1>13, <1>14, <1>15, <1>16, <1>17, <1>18, <1>19, <1>20, <1>21
     DEF Next, Client, Submission, Following, Manager

LEMMA FreshStep ==
  ASSUME TypeOK, PlaceInv, SlotInv, FreshInv, [Next]_vars
  PROVE  FreshInv'
<1>. USE OpenvmAssumption DEF TypeOK, PlaceInv, SlotInv, FreshInv, Seen, Uuids, None, callVars, managerVars, boundVars
<1>1. CASE ReadyWaitEnds \/ ContextEnds \/ ManagerStarts \/ WorkersRegister \/
         UNCHANGED vars
  BY <1>1
     DEF ReadyWaitEnds, ContextEnds, ManagerStarts, WorkersRegister, vars
<1>2. CASE BeginCall
  BY <1>2 DEF BeginCall
<1>3. CASE Attempt
  <2>1. /\ attempt < MaxAttempts /\ attempt' = attempt + 1
        /\ uuid' = <<call, attempt + 1>>
        /\ pc # "idle"
        /\ UNCHANGED <<call, status, stored>>
    BY <1>3 DEF Attempt
  <2>2. <<call, attempt + 1>> \in Uuids
    BY <2>1
  <2>3. ~Seen(uuid)'
    <3>1. ~Seen(<<call, attempt + 1>>)
      <4>1. ASSUME NEW u \in Uuids, u = <<call, attempt + 1>>, Seen(u)
            PROVE  FALSE
        <5>1. u[1] < call \/ (u[1] = call /\ u[2] <= attempt)
          BY <4>1
        <5>2. u[1] = call /\ u[2] = attempt + 1 /\ call \in Nat /\ attempt \in Nat
          BY <4>1
        <5>. QED
          BY <5>1, <5>2
      <4>. QED
        BY <2>2, <4>1
    <3>2. status'[uuid'] = status[<<call, attempt + 1>>] /\ stored'[uuid'] = stored[<<call, attempt + 1>>]
      BY <2>1
    <3>. QED
      BY <3>1, <3>2
  <2>4. ASSUME NEW u \in Uuids, Seen(u)'
        PROVE  u[1] < call' \/ (u[1] = call' /\ u[2] <= attempt')
    <3>1. u[1] < call \/ (u[1] = call /\ u[2] <= attempt)
      BY <2>1, <2>4
    <3>2. u[2] \in Nat /\ attempt \in Nat
      OBVIOUS
    <3>. QED
      BY <2>1, <3>1, <3>2
  <2>. QED
    BY <2>3, <2>4
<1>4. CASE UploadArrives
  BY <1>4 DEF UploadArrives
<1>5. CASE UploadFails
  BY <1>5 DEF UploadFails, NoAnswer
<1>6. CASE StartAdmitted
  BY <1>6 DEF StartAdmitted, Admit
<1>7. CASE StartLost
  BY <1>7 DEF StartLost, Admit, NoAnswer
<1>8. CASE StartAborted
  BY <1>8 DEF StartAborted, Admit
<1>9. CASE StartRefused
  BY <1>9 DEF StartRefused, NoAnswer
<1>10. CASE SubmitRejected
  BY <1>10 DEF SubmitRejected, Return
<1>11. CASE SubmitExpires
  BY <1>11 DEF SubmitExpires, Return
<1>12. CASE StreamSettles
  BY <1>12 DEF StreamSettles, WaitFails, Return, Settled
<1>13. CASE StreamRefused
  BY <1>13 DEF StreamRefused, WaitFails, Return
<1>14. CASE StreamDrops
  BY <1>14 DEF StreamDrops, NoAnswer
<1>15. CASE Reconnect
  BY <1>15 DEF Reconnect
<1>16. CASE Collect
  BY <1>16 DEF Collect
<1>17. CASE CollectFails
  BY <1>17 DEF CollectFails, NoAnswer, WaitFails, Return
<1>18. CASE Verify
  BY <1>18 DEF Verify, WaitFails, Return
<1>19. CASE Cancel
  BY <1>19 DEF Cancel, Return
<1>20. CASE ProofCompletes
  BY <1>20 DEF ProofCompletes
<1>21. CASE ProofBreaks
  BY <1>21 DEF ProofBreaks
<1>22. CASE FailureDrains
  BY <1>22 DEF FailureDrains
<1>23. CASE Restart
  BY <1>23 DEF Restart
<1>24. CASE Evict
  BY <1>24 DEF Evict
<1>. QED
  BY <1>1, <1>2, <1>3, <1>4, <1>5, <1>6, <1>7, <1>8, <1>9, <1>10, <1>11,
     <1>12, <1>13, <1>14, <1>15, <1>16, <1>17, <1>18, <1>19, <1>20, <1>21,
     <1>22, <1>23, <1>24
     DEF Next, Client, Submission, Following, Manager

\* The proof that has the manager when a submission begins is one nobody follows:
\* the calls that followed theirs to an end left the manager free.
LEMMA OrphanIsLeft ==
  ASSUME IInv, Attempt, slot # None
  PROVE  Left(slot)'
<1>. USE OpenvmAssumption
<1>1. /\ call' = call /\ attempt' = attempt + 1 /\ result' = result /\ slot' = slot
      /\ pc # "idle"
  BY DEF Attempt, managerVars
<1>2. slot \in Uuids /\ slot[1] \in 1..Calls /\ slot[2] \in 1..MaxAttempts /\ attempt \in Nat
  BY DEF IInv, TypeOK, Uuids
<1>3. slot[1] < call \/ (slot[1] = call /\ slot[2] <= attempt)
  BY <1>2 DEF IInv, SlotInv, FreshInv, Seen
<1>4. CASE slot[1] = call
  BY <1>1, <1>2, <1>3, <1>4 DEF Left, IInv, TypeOK
<1>5. CASE slot[1] < call
  <2>1. result[slot[1]].kind \in Kinds /\ result[slot[1]].kind # "pending"
    BY <1>2, <1>5 DEF IInv, TypeOK, PlaceInv
  <2>2. result[slot[1]].kind # "collided"
    BY <1>2 DEF IInv, RetriesNeverCollide
  <2>3. result[slot[1]].kind \notin {"ok", "failed", "canceled", "refused", "uncollected", "unsound"}
    BY <1>2 DEF IInv, SettledCallsFreeTheManager
  <2>4. result[slot[1]].kind \in {"expired", "rejected"}
    BY <2>1, <2>2, <2>3 DEF Kinds
  <2>. QED
    BY <1>1, <1>5, <2>4 DEF Left
<1>. QED
  BY <1>3, <1>4, <1>5

\* What was left stays left while the same call goes on.
LEMMA LeftStays ==
  ASSUME TypeOK, NEW u \in Uuids, Left(u), call' = call, attempt' = attempt,
         \A c \in 1..Calls : c # call => result'[c] = result[c]
  PROVE  Left(u)'
BY DEF Left, TypeOK, Uuids

\* Nothing but a submission that begins and an admission changes what is
\* measured while a call goes on.
LEMMA OwnStep ==
  ASSUME IInv, [Next]_vars
  PROVE  OwnInv'
<1>. USE OpenvmAssumption DEF callVars, managerVars, boundVars
<1>1. ASSUME UNCHANGED <<call, attempt, uuid, measured>>,
             \A c \in 1..Calls : c # call => result'[c] = result[c],
             pc' = pc \/ (pc' \in Followed /\ pc \in Followed)
               \/ (pc = "upload" /\ pc' = "start") \/ pc' \in {"idle", "backoff", "waiting", "ready"}
      PROVE  OwnInv'
  <2>1. ASSUME NEW u \in measured, Left(u) PROVE Left(u)'
    BY <1>1, <2>1, LeftStays DEF IInv, TypeOK
  <2>. QED
    BY <1>1, <2>1 DEF IInv, OwnInv, Followed
<1>2. CASE BeginCall
  BY <1>2 DEF BeginCall, OwnInv, Followed
<1>3. CASE Attempt
  <2>1. pc' \notin Followed
    BY <1>3 DEF Attempt, Followed
  <2>2. ASSUME NEW u \in measured' PROVE u = slot /\ Left(u)'
    <3>1. u = slot /\ slot # None /\ slot' = slot
      BY <1>3, <2>2 DEF Attempt
    <3>. QED
      BY <1>3, <3>1, OrphanIsLeft DEF Left
  <2>. QED
    BY <2>1, <2>2 DEF OwnInv
<1>4. CASE StartAdmitted
  <2>1. /\ pc = "start" /\ pc' = "stream" /\ measured' = measured \union {uuid}
        /\ UNCHANGED <<call, attempt, uuid, result>>
    BY <1>4 DEF StartAdmitted, Admit
  <2>2. ASSUME NEW u \in measured, Left(u) PROVE Left(u)'
    BY <2>1, <2>2 DEF Left
  <2>3. measured' \ {uuid'} = measured \ {uuid}
    BY <2>1
  <2>. QED
    BY <2>1, <2>2, <2>3 DEF IInv, OwnInv
<1>5. CASE StartLost \/ StartAborted
  BY <1>5 DEF StartLost, StartAborted, OwnInv, Followed
<1>6. CASE ReadyWaitEnds \/ ContextEnds \/ UploadArrives \/ UploadFails \/ StartRefused
         \/ ProofCompletes \/ ProofBreaks \/ FailureDrains \/ Evict \/ Restart
         \/ ManagerStarts \/ WorkersRegister \/ UNCHANGED vars
  <2>1. UNCHANGED <<call, attempt, uuid, measured, result>>
    BY <1>6
       DEF ReadyWaitEnds, ContextEnds, UploadArrives, UploadFails, StartRefused, ProofCompletes,
           ProofBreaks, FailureDrains, Evict, Restart, ManagerStarts, WorkersRegister, vars
  <2>2. pc' = pc \/ (pc = "upload" /\ pc' = "start") \/ pc' \in {"backoff", "ready"}
    BY <1>6
       DEF ReadyWaitEnds, ContextEnds, UploadArrives, UploadFails, StartRefused, ProofCompletes,
           ProofBreaks, FailureDrains, Evict, Restart, ManagerStarts, WorkersRegister, vars
  <2>. QED
    BY <1>1, <2>1, <2>2
<1>7. CASE SubmitRejected \/ SubmitExpires \/ StreamSettles \/ StreamRefused \/ StreamDrops
         \/ Reconnect \/ Collect \/ CollectFails \/ Verify \/ Cancel
  <2>1. UNCHANGED <<call, attempt, uuid, measured>>
    BY <1>7
       DEF SubmitRejected, SubmitExpires, StreamSettles, StreamRefused, StreamDrops, Reconnect,
           Collect, CollectFails, Verify, Cancel
  <2>2. \A c \in 1..Calls : c # call => result'[c] = result[c]
    BY <1>7
       DEF SubmitRejected, SubmitExpires, StreamSettles, StreamRefused, StreamDrops, Reconnect,
           Collect, CollectFails, Verify, Cancel, WaitFails, Return, IInv, TypeOK
  <2>3. (pc' \in Followed /\ pc \in Followed) \/ pc' = "idle"
    BY <1>7
       DEF SubmitRejected, SubmitExpires, StreamSettles, StreamRefused, StreamDrops, Reconnect,
           Collect, CollectFails, Verify, Cancel, WaitFails, Return, Followed
  <2>. QED
    BY <1>1, <2>1, <2>2, <2>3
<1>. QED
  BY <1>2, <1>3, <1>4, <1>5, <1>6, <1>7 DEF Next, Client, Submission, Following, Manager

LEMMA FaultStep ==
  ASSUME TypeOK, PlaceInv, FaultInv, [Next]_vars
  PROVE  FaultInv'
<1>. USE OpenvmAssumption DEF TypeOK, PlaceInv, FaultInv, Followed, Settled, callVars, managerVars, boundVars
<1>1. CASE ReadyWaitEnds \/ ContextEnds \/ UNCHANGED vars
  BY <1>1
     DEF ReadyWaitEnds, ContextEnds, vars
<1>2. CASE BeginCall
  BY <1>2 DEF BeginCall
<1>3. CASE Attempt
  BY <1>3 DEF Attempt
<1>4. CASE UploadArrives
  BY <1>4 DEF UploadArrives
<1>5. CASE UploadFails
  BY <1>5 DEF UploadFails, NoAnswer
<1>6. CASE StartAdmitted
  <2>1. uuid \in Uuids
    BY <1>6 DEF StartAdmitted, Uuids
  <2>2. status'[uuid'] = "running"
    BY <1>6, <2>1 DEF StartAdmitted, Admit
  <2>. QED
    BY <1>6, <2>2 DEF StartAdmitted, Admit
<1>7. CASE StartLost
  BY <1>7 DEF StartLost, Admit, NoAnswer
<1>8. CASE StartAborted
  BY <1>8 DEF StartAborted, Admit
<1>9. CASE StartRefused
  BY <1>9 DEF StartRefused, NoAnswer
<1>10. CASE SubmitRejected
  BY <1>10 DEF SubmitRejected, Return
<1>11. CASE SubmitExpires
  BY <1>11 DEF SubmitExpires, Return
<1>12. CASE StreamSettles
  BY <1>12 DEF StreamSettles, WaitFails, Return, Settled
<1>13. CASE StreamRefused
  BY <1>13 DEF StreamRefused, WaitFails, Return
<1>14. CASE StreamDrops
  BY <1>14 DEF StreamDrops, NoAnswer
<1>15. CASE Reconnect
  BY <1>15 DEF Reconnect
<1>16. CASE Collect
  BY <1>16 DEF Collect
<1>17. CASE CollectFails
  BY <1>17 DEF CollectFails, NoAnswer, WaitFails, Return
<1>18. CASE Verify
  BY <1>18 DEF Verify, WaitFails, Return
<1>19. CASE Cancel
  BY <1>19 DEF Cancel, Return
<1>20. CASE ProofCompletes
  BY <1>20 DEF ProofCompletes
<1>21. CASE ProofBreaks
  BY <1>21 DEF ProofBreaks
<1>22. CASE FailureDrains
  BY <1>22 DEF FailureDrains
<1>23. CASE Restart
  BY <1>23 DEF Restart
<1>24. CASE ManagerStarts
  BY <1>24 DEF ManagerStarts
<1>25. CASE WorkersRegister
  BY <1>25 DEF WorkersRegister
<1>26. CASE Evict
  BY <1>26 DEF Evict
<1>. QED
  BY <1>1, <1>2, <1>3, <1>4, <1>5, <1>6, <1>7, <1>8, <1>9, <1>10, <1>11,
     <1>12, <1>13, <1>14, <1>15, <1>16, <1>17, <1>18, <1>19, <1>20, <1>21,
     <1>22, <1>23, <1>24, <1>25, <1>26
     DEF Next, Client, Submission, Following, Manager

-----------------------------------------------------------------------------
(* What a step returns, and what it may change meanwhile *)

\* The outcomes of a call whose submission was admitted.
Ended == {"ok", "failed", "canceled", "refused", "uncollected", "unsound"}

\* The call that runs returns this kind, for a reason.
Returns(kind) ==
  /\ result' = [result EXCEPT ![call] = [kind |-> kind, proof |-> uuid, measured |-> measured]]
  /\ pc # "idle"
  /\ kind # "collided"
  /\ kind = "ok" => pc = "verify"
  /\ kind \in Ended => pc \in Followed /\ slot # uuid /\ UNCHANGED slot
  /\ kind = "refused" => restarts' > 0 \/ faults' > 0

\* A submission that was made is one of the call that runs.
LEMMA Submitted ==
  ASSUME TypeOK, PlaceInv, attempt >= 1
  PROVE  uuid \in Uuids /\ uuid[1] = call /\ call \in 1..Calls /\ uuid # None
BY OpenvmAssumption DEF TypeOK, PlaceInv, Uuids, None

LEMMA Outcome ==
  ASSUME IInv, [Next]_vars
  PROVE  UNCHANGED result \/ \E kind \in Kinds : Returns(kind)
<1>. USE OpenvmAssumption DEF callVars, managerVars, boundVars
<1>1. CASE BeginCall \/ ReadyWaitEnds \/ Attempt \/ UploadArrives \/ UploadFails
         \/ StartAdmitted \/ StartLost \/ StartAborted \/ StartRefused
         \/ StreamDrops \/ Reconnect \/ Collect \/ ContextEnds
         \/ ProofCompletes \/ ProofBreaks \/ FailureDrains \/ Evict \/ Restart
         \/ ManagerStarts \/ WorkersRegister \/ UNCHANGED vars
  BY <1>1
     DEF BeginCall, ReadyWaitEnds, Attempt, UploadArrives, UploadFails,
         StartAdmitted, StartLost, StartAborted, StartRefused, StreamDrops,
         Reconnect, Collect, ContextEnds, ProofCompletes, ProofBreaks,
         FailureDrains, Evict, Restart, ManagerStarts, WorkersRegister, vars
<1>2. CASE SubmitRejected
  <2>1. ~Seen(uuid) /\ pc # "idle"
    BY <1>2 DEF SubmitRejected, IInv, FreshInv
  <2>2. Return("rejected")
    BY <1>2, <2>1 DEF SubmitRejected, Seen
  <2>3. Returns("rejected")
    BY <1>2, <2>1, <2>2 DEF SubmitRejected, Returns, Return, Ended
  <2>. QED
    BY <2>3 DEF Kinds
<1>3. CASE SubmitExpires
  <2>1. Returns("expired")
    BY <1>3 DEF SubmitExpires, Returns, Return, Ended
  <2>. QED
    BY <2>1 DEF Kinds
<1>4. CASE StreamSettles
  <2>1. slot # uuid
    <3>1. attempt >= 1 /\ uuid \in Uuids /\ uuid # None
      BY <1>4, Submitted DEF StreamSettles, IInv, PlaceInv
    <3>. QED
      BY <1>4, <3>1 DEF StreamSettles, IInv, SlotInv, Settled
  <2>2. result' = result \/ Return("canceled") \/ Return("failed")
    BY <1>4 DEF StreamSettles, WaitFails
  <2>3. ASSUME NEW kind \in {"canceled", "failed"}, Return(kind)
        PROVE  Returns(kind)
    BY <1>4, <2>1, <2>3 DEF StreamSettles, Returns, Return, Followed
  <2>. QED
    BY <2>2, <2>3 DEF Kinds
<1>5. CASE StreamRefused
  <2>1. slot # uuid
    <3>1. attempt >= 1 /\ uuid \in Uuids /\ uuid # None
      BY <1>5, Submitted DEF StreamRefused, IInv, PlaceInv
    <3>. QED
      BY <1>5, <3>1 DEF StreamRefused, IInv, SlotInv
  <2>2. restarts' > 0 \/ faults' > 0
    BY <1>5 DEF StreamRefused, IInv, FaultInv
  <2>3. result' = result \/ Return("refused")
    BY <1>5 DEF StreamRefused, WaitFails
  <2>4. ASSUME Return("refused")
        PROVE  Returns("refused")
    BY <1>5, <2>1, <2>2, <2>4 DEF StreamRefused, Returns, Return, Followed
  <2>. QED
    BY <2>3, <2>4 DEF Kinds
<1>6. CASE CollectFails
  <2>1. slot # uuid
    BY <1>6 DEF CollectFails, IInv, SlotInv
  <2>2. \/ result' = result
        \/ Return("uncollected")
    <3>1. WaitFails("uncollected")
      BY <1>6 DEF CollectFails
    <3>. QED
      BY <3>1 DEF WaitFails
  <2>3. ASSUME Return("uncollected")
        PROVE  Returns("uncollected")
    BY <1>6, <2>1, <2>3 DEF CollectFails, Returns, Return, Followed
  <2>. QED
    BY <2>2, <2>3 DEF Kinds
<1>7. CASE Verify
  <2>1. slot # uuid
    BY <1>7 DEF Verify, IInv, SlotInv
  <2>2. \/ result' = result
        \/ Return("ok")
        \/ Return("unsound")
    BY <1>7 DEF Verify, WaitFails
  <2>3. ASSUME NEW kind \in {"ok", "unsound"}, Return(kind)
        PROVE  Returns(kind)
    BY <1>7, <2>1, <2>3 DEF Verify, Returns, Return, Followed
  <2>. QED
    BY <2>2, <2>3 DEF Kinds
<1>8. CASE Cancel
  <2>1. Returns("expired")
    BY <1>8 DEF Cancel, Returns, Return, Ended
  <2>. QED
    BY <2>1 DEF Kinds
<1>. QED
  BY <1>1, <1>2, <1>3, <1>4, <1>5, <1>6, <1>7, <1>8
     DEF Next, Client, Submission, Following, Manager

\* Faults only add up, and the slot is taken by the submission that starts.
LEMMA Frame ==
  ASSUME TypeOK, [Next]_vars
  PROVE  /\ restarts' >= restarts /\ faults' >= faults
         /\ slot' \in {slot, None} \/ (slot' = uuid /\ pc = "start")
<1>. USE OpenvmAssumption DEF TypeOK, callVars, managerVars, boundVars
<1>1. CASE Client
  BY <1>1
     DEF Client, BeginCall, ReadyWaitEnds, Submission, Attempt, UploadArrives, UploadFails,
         StartAdmitted, StartLost, StartAborted, StartRefused, SubmitRejected, SubmitExpires,
         Following, StreamSettles, StreamRefused, StreamDrops, Reconnect, Collect, CollectFails,
         Verify, Cancel, NoAnswer, Admit
<1>2. CASE ProofCompletes
  BY <1>2 DEF ProofCompletes
<1>3. CASE ContextEnds \/ ProofBreaks \/ FailureDrains \/ Evict \/ Restart \/ ManagerStarts
         \/ WorkersRegister \/ UNCHANGED vars
  BY <1>3
     DEF ContextEnds, ProofBreaks, FailureDrains, Evict, Restart, ManagerStarts, WorkersRegister, vars
<1>. QED
  BY <1>1, <1>2, <1>3 DEF Next, Manager

-----------------------------------------------------------------------------
(* Each property is preserved: by the calls that returned before because    *)
(* nothing of theirs changes, by the one that returns because of its reason. *)

\* A call of whatever number returned before this step or returns in it.
LEMMA Recorded ==
  ASSUME IInv, NEW kind \in Kinds, Returns(kind), NEW c \in 1..Calls
  PROVE  /\ c # call => result'[c] = result[c]
         /\ c = call => /\ result'[c].kind = kind
                        /\ result'[c].proof = uuid
                        /\ result'[c].measured = measured
BY DEF Returns, IInv, TypeOK

LEMMA RetriesStep ==
  ASSUME IInv, [Next]_vars
  PROVE  RetriesNeverCollide'
<1>1. CASE UNCHANGED result
  BY <1>1 DEF IInv, RetriesNeverCollide
<1>2. ASSUME NEW kind \in Kinds, Returns(kind)
      PROVE  RetriesNeverCollide'
  BY <1>2, Recorded DEF IInv, RetriesNeverCollide, Returns
<1>. QED
  BY <1>1, <1>2, Outcome

LEMMA MeasuresStep ==
  ASSUME IInv, [Next]_vars
  PROVE  MeasuresOwnProof'
<1>1. CASE UNCHANGED result
  BY <1>1 DEF IInv, MeasuresOwnProof
<1>2. ASSUME NEW kind \in Kinds, Returns(kind), NEW c \in 1..Calls, result'[c].kind = "ok"
      PROVE  LET own == result'[c].proof
                 others == result'[c].measured \ {own}
             IN  /\ own \in result'[c].measured
                 /\ own[1] = c
                 /\ \A u, v \in others : u = v
                 /\ \A u \in others :
                      \/ u[1] = c /\ u[2] < own[2]
                      \/ u[1] < c /\ result'[u[1]].kind \in {"expired", "rejected"}
  <2>1. call \in 1..Calls
    BY <1>2, OpenvmAssumption DEF Returns, IInv, TypeOK, PlaceInv
  <2>2. \A d \in 1..Calls : d < call => result'[d] = result[d]
    BY <1>2, <2>1, Recorded
  <2>3. CASE c # call
    <3>1. result'[c] = result[c]
      BY <1>2, <2>3, Recorded
    <3>2. c < call
      BY <1>2, <2>1, <2>3, <3>1 DEF IInv, PlaceInv
    <3>3. result[c].measured \subseteq Uuids
      BY DEF IInv, TypeOK
    <3>4. \A u \in result[c].measured : u[1] < c => result'[u[1]] = result[u[1]]
      BY <2>1, <2>2, <3>2, <3>3 DEF Uuids
    <3>. QED
      BY <1>2, <3>1, <3>4 DEF IInv, MeasuresOwnProof
  <2>4. CASE c = call
    <3>1. kind = "ok" /\ pc = "verify"
      BY <1>2, <2>4, Recorded DEF Returns
    <3>2. result'[c].proof = uuid /\ result'[c].measured = measured
      BY <1>2, <2>4, Recorded
    <3>3. uuid \in measured /\ uuid = <<call, attempt>>
      BY <3>1 DEF IInv, OwnInv, PlaceInv, Followed
    <3>4. /\ \A u, v \in measured \ {uuid} : u = v
          /\ \A u \in measured \ {uuid} : Left(u)
      BY <3>1 DEF IInv, OwnInv, Followed
    <3>5. ASSUME NEW u \in measured \ {uuid}
          PROVE  \/ u[1] = c /\ u[2] < uuid[2]
                 \/ u[1] < c /\ result'[u[1]].kind \in {"expired", "rejected"}
      <4>1. u[1] \in 1..Calls
        BY DEF IInv, TypeOK, Uuids
      <4>. QED
        BY <2>2, <2>4, <3>3, <3>4, <4>1 DEF Left
    <3>. QED
      BY <2>4, <3>2, <3>3, <3>4, <3>5
  <2>. QED
    BY <2>3, <2>4
<1>. QED
  BY <1>1, <1>2, Outcome DEF MeasuresOwnProof

LEMMA FreeStep ==
  ASSUME IInv, [Next]_vars
  PROVE  SettledCallsFreeTheManager'
<1>1. ASSUME NEW c \in 1..Calls, result[c].kind \in Ended
      PROVE  slot'[1] # c
  <2>1. slot[1] # c
    BY <1>1 DEF IInv, SettledCallsFreeTheManager, Ended
  <2>2. None[1] # c
    BY DEF None
  <2>3. CASE slot' = uuid /\ pc = "start"
    <3>1. uuid[1] = call /\ result[call].kind = "pending"
      BY <2>3, Submitted DEF IInv, PlaceInv
    <3>. QED
      BY <1>1, <2>3, <3>1 DEF Ended
  <2>. QED
    BY <2>1, <2>2, <2>3, Frame DEF IInv
<1>2. ASSUME NEW kind \in Kinds, Returns(kind), NEW c \in 1..Calls, result'[c].kind \in Ended
      PROVE  slot'[1] # c
  <2>1. CASE c # call
    BY <1>1, <1>2, <2>1, Recorded
  <2>2. CASE c = call
    <3>1. pc \in Followed /\ slot # uuid /\ slot' = slot
      BY <1>2, <2>2, Recorded DEF Returns
    <3>. QED
      BY <2>2, <3>1 DEF IInv, SlotInv
  <2>. QED
    BY <2>1, <2>2
<1>. QED
  BY <1>1, <1>2, Outcome DEF SettledCallsFreeTheManager, Ended

LEMMA RefusedStep ==
  ASSUME IInv, [Next]_vars
  PROVE  RefusedOnlyByFault'
<1>1. restarts \in Nat /\ restarts' \in Nat /\ faults \in Nat /\ faults' \in Nat
  BY TypeStep, OpenvmAssumption DEF IInv, TypeOK
<1>2. \A c \in 1..Calls : result[c].kind = "refused" => restarts' > 0 \/ faults' > 0
  BY <1>1, Frame DEF IInv, RefusedOnlyByFault
<1>3. CASE UNCHANGED result
  BY <1>2, <1>3 DEF RefusedOnlyByFault
<1>4. ASSUME NEW kind \in Kinds, Returns(kind)
      PROVE  RefusedOnlyByFault'
  BY <1>2, <1>4, Recorded DEF RefusedOnlyByFault, Returns
<1>. QED
  BY <1>3, <1>4, Outcome

-----------------------------------------------------------------------------
(* The invariant, and what it gives *)

LEMMA Invariance == Spec => []IInv
<1>1. IInv /\ [Next]_vars => IInv'
  BY TypeStep, PlaceStep, SlotStep, FreshStep, OwnStep, FaultStep, RetriesStep, MeasuresStep,
     FreeStep, RefusedStep
     DEF IInv
<1>. QED
  BY InitInv, <1>1, PTL DEF Spec

\* Every variable of the client and of the manager keeps its type, through all
\* of Prove (client.go) and every restart of the manager.
THEOREM OpenvmTypeOK == Spec => []TypeOK
<1>1. IInv => TypeOK
  BY DEF IInv
<1>. QED
  BY Invariance, <1>1, PTL

\* However many answers of StartProof are lost, and however often the manager
\* restarts, the identifier that newProofUUID draws for a submission is one the
\* manager has neither in memory nor on disk.
THEOREM OpenvmRetriesNeverCollide == Spec => []RetriesNeverCollide
<1>1. IInv => RetriesNeverCollide
  BY DEF IInv
<1>. QED
  BY Invariance, <1>1, PTL

\* A call of Prove that succeeds measures the whole work of the proof it returns
\* and, of other work, at most the end of one orphan that still ran when the
\* submission that landed began: submitWait ends where that submission begins.
THEOREM OpenvmMeasuresOwnProof == Spec => []MeasuresOwnProof
<1>1. IInv => MeasuresOwnProof
  BY DEF IInv
<1>. QED
  BY Invariance, <1>1, PTL

\* A call of Prove that followed its proof to an end, good or bad, leaves the
\* manager free of all its submissions, lost ones included.
THEOREM OpenvmSettledCallsFreeTheManager == Spec => []SettledCallsFreeTheManager
<1>1. IInv => SettledCallsFreeTheManager
  BY DEF IInv
<1>. QED
  BY Invariance, <1>1, PTL

\* While the context of Prove lives, busy, not ready and unreachable only delay
\* it: the manager refuses the stream of the proof only after a restart or a fault.
THEOREM OpenvmRefusedOnlyByFault == Spec => []RefusedOnlyByFault
<1>1. IInv => RefusedOnlyByFault
  BY DEF IInv
<1>. QED
  BY Invariance, <1>1, PTL
=============================================================================
