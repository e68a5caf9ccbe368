-------------------------- MODULE ForwarderProofs --------------------------
(***************************************************************************)
(* Proofs about Forwarder, for every set of calls, of outputs and of       *)
(* configurations, and every number of crashes.                            *)
(*                                                                         *)
(* The inductive invariant IInv has five parts beside the types.  They say *)
(* who owns the mutex, which calls exist at which stage of the process,    *)
(* what a handler knows at each place, which metric lines exist, and why a *)
(* cluster can be cold or in debt.                                         *)
(***************************************************************************)
EXTENDS Forwarder, SequenceTheorems, TLAPS

\* The handlers inside the critical section are exactly the mutex's owner.
LockInv ==
  /\ \A r \in Requests : pc[r] \in Critical => holder = r
  /\ holder # None => pc[holder] \in Critical

\* Calls exist only once the port was open; only an ended process has an exit.
StageInv ==
  /\ proc \in {"provisioning", "warming", "binding"} => \A r \in Requests : pc[r] = "idle"
  /\ exit = "running" <=> proc # "exited"

\* What a handler holds at each place.
CallInv ==
  \A r \in Requests :
    /\ pc[r] \in {"idle", "lock"} \union Critical => verdict[r] = None
    /\ pc[r] \in {"lock"} \union Critical => expected[r] \in ExpectedOutputs
    /\ pc[r] = "verified" => outcome[r] \in PublicValues
    /\ verdict[r] \in Judged =>
         /\ expected[r] \in ExpectedOutputs
         /\ outcome[r] \in PublicValues
         /\ verdict[r] = Verdict(OutputMatched(outcome[r], expected[r]))

\* A call that was judged, and only such a call, has one metric line.
MetricInv ==
  /\ \A i, j \in DOMAIN metrics : metrics[i].call = metrics[j].call => i = j
  /\ \A i \in DOMAIN metrics : verdict[metrics[i].call] = Verdict(metrics[i].matched)
  /\ \A r \in Requests : verdict[r] \in Judged =>
       \E i \in DOMAIN metrics : metrics[i].call = r

\* The cluster is warm from the first warmup on unless it crashed, and in debt
\* only while the owner of the mutex has a failure to deal with.
ClusterInv ==
  /\ proc \in {"binding", "listening", "closing"} => warm \/ crashes > 0
  /\ debt = "owed" => \E r \in Requests : pc[r] \in {"failed", "rewarm"}

IInv == TypeOK /\ LockInv /\ StageInv /\ CallInv /\ MetricInv /\ ClusterInv

-----------------------------------------------------------------------------
\* The judgement as equality with the padded expected output: outputMatched
\* accepts a commitment exactly when it is the expected output followed by zeros.
LEMMA MatchedIsPadded ==
  ASSUME NEW pub \in Seq(Nat), NEW want \in Seq(Nat)
  PROVE  OutputMatched(pub, want) <=>
           /\ Len(want) <= Len(pub)
           /\ pub = [i \in 1..Len(pub) |-> IF i <= Len(want) THEN want[i] ELSE 0]
<1> DEFINE padded == [i \in 1..Len(pub) |-> IF i <= Len(want) THEN want[i] ELSE 0]
<1>0. Len(pub) \in Nat /\ Len(want) \in Nat
  OBVIOUS
<1>1. pub = [i \in 1..Len(pub) |-> pub[i]]
  OBVIOUS
<1>2. ASSUME OutputMatched(pub, want)
      PROVE  Len(want) <= Len(pub) /\ pub = padded
  <2>1. ASSUME NEW i \in 1..Len(pub) PROVE pub[i] = padded[i]
    <3>1. CASE i <= Len(want)
      BY <1>0, <1>2, <3>1 DEF OutputMatched
    <3>2. CASE ~(i <= Len(want))
      BY <1>0, <1>2, <3>2 DEF OutputMatched
    <3> QED BY <3>1, <3>2
  <2> QED BY <1>1, <1>2, <2>1 DEF OutputMatched
<1>3. ASSUME Len(want) <= Len(pub), pub = padded
      PROVE  OutputMatched(pub, want)
  <2>1. ASSUME NEW i \in 1..Len(want) PROVE pub[i] = want[i]
    <3>1. i \in 1..Len(pub) /\ i <= Len(want)
      BY <1>0, <1>3
    <3>2. padded[i] = want[i]
      BY <3>1
    <3> QED BY <1>3, <3>2
  <2>2. ASSUME NEW i \in (Len(want) + 1)..Len(pub) PROVE pub[i] = 0
    <3>1. i \in 1..Len(pub) /\ ~(i <= Len(want))
      BY <1>0, <1>3
    <3>2. padded[i] = 0
      BY <3>1
    <3> QED BY <1>3, <3>2
  <2> QED BY <1>3, <2>1, <2>2 DEF OutputMatched
<1> QED BY <1>2, <1>3

\* A judgement determines the output: two expected outputs of one length that
\* a commitment both satisfies are the same output, so a fixture cannot pass
\* on the output of another fixture of its size.
THEOREM MatchIsUnambiguous ==
  ASSUME NEW pub \in Seq(Nat), NEW one \in Seq(Nat), NEW other \in Seq(Nat),
         Len(one) = Len(other),
         OutputMatched(pub, one), OutputMatched(pub, other)
  PROVE  one = other
<1>1. \A i \in 1..Len(one) : one[i] = other[i]
  BY DEF OutputMatched
<1> QED BY <1>1, SeqEqual

-----------------------------------------------------------------------------
LEMMA InitInv == Init => IInv
<1> SUFFICES ASSUME Init PROVE IInv
  OBVIOUS
<1>1. TypeOK
  <2>1. /\ signalled \in BOOLEAN /\ closed \in BOOLEAN
        /\ serveError \in BOOLEAN /\ warm \in BOOLEAN
    BY Zenon DEF Init
  <2>2. metrics \in Seq([call : Requests, matched : BOOLEAN])
    BY EmptySeq, Zenon DEF Init
  <2>3. crashes \in Nat
    BY DEF Init
  <2> QED BY <2>1, <2>2, <2>3 DEF Init, TypeOK, Stages, Places
<1>2. LockInv
  BY DEF Init, LockInv, Critical
<1>3. StageInv
  BY DEF Init, StageInv
<1>4. CallInv
  BY ForwarderAssumption DEF Init, CallInv, Judged, Critical
<1>5. MetricInv
  <2>1. DOMAIN metrics = {}
    BY DEF Init
  <2>2. \A r \in Requests : verdict[r] \notin Judged
    BY ForwarderAssumption DEF Init, Judged
  <2> QED BY <2>1, <2>2 DEF MetricInv
<1>6. ClusterInv
  BY DEF Init, ClusterInv
<1> QED BY <1>1, <1>2, <1>3, <1>4, <1>5, <1>6 DEF IInv

LEMMA TypeStep == TypeOK /\ [Next]_vars => TypeOK'
<1> SUFFICES ASSUME TypeOK, [Next]_vars PROVE TypeOK'
  OBVIOUS
<1> USE ForwarderAssumption DEF TypeOK, Stages, Places, Critical, Verdicts, Judged, Causes
<1>1. CASE Main
  <2> USE DEF procVars, stopVars, callVars, proofVars, answerVars, clusterVars
  <2>1. CASE Provision BY <2>1 DEF Provision
  <2>2. CASE Warmup BY <2>2 DEF Warmup
  <2>3. CASE StartupFails BY <2>3 DEF StartupFails
  <2>4. CASE Listen BY <2>4 DEF Listen
  <2>5. CASE Signal BY <2>5 DEF Signal
  <2>6. CASE ServeReturns BY <2>6 DEF ServeReturns
  <2>10. CASE ServeFails BY <2>10 DEF ServeFails
  <2>7. CASE CloseProver BY <2>7 DEF CloseProver
  <2>8. CASE MainReturns BY <2>8 DEF MainReturns
  <2>9. CASE SecondSignal BY <2>9 DEF SecondSignal
  <2> QED BY <1>1, <2>1, <2>2, <2>3, <2>4, <2>5, <2>6, <2>7, <2>8, <2>9, <2>10 DEF Main
<1>2. ASSUME NEW r \in Requests, Handler(r) PROVE TypeOK'
  <2> USE DEF procVars, stopVars, callVars, proofVars, answerVars, clusterVars, Move, Settle
  <2>1. CASE ArriveProve(r) BY <2>1 DEF ArriveProve
  <2>2. CASE ArriveOther(r) BY <2>2 DEF ArriveOther
  <2>3. CASE ClientLeaves(r) BY <2>3 DEF ClientLeaves
  <2>4. CASE TakeLock(r) BY <2>4 DEF TakeLock
  <2>5. CASE WaitReady(r) BY <2>5 DEF WaitReady
  <2>6. CASE ProofArrives(r) BY <2>6 DEF ProofArrives
  <2>7. CASE ProveFails(r) BY <2>7 DEF ProveFails
  <2>15. CASE ProofVerifies(r) BY <2>15 DEF ProofVerifies
  <2>8. CASE Judge(r) 
    BY <2>8 DEF Judge, Verdict, OutputMatched
  <2>9. CASE SkipRewarm(r) BY <2>9 DEF SkipRewarm
  <2>10. CASE ExitOnClusterError(r) BY <2>10 DEF ExitOnClusterError
  <2>11. CASE StartRewarm(r) BY <2>11 DEF StartRewarm
  <2>12. CASE Rewarmed(r) BY <2>12 DEF Rewarmed
  <2>13. CASE RewarmFails(r) BY <2>13 DEF RewarmFails
  <2>14. CASE Reply(r) BY <2>14 DEF Reply
  <2> QED
    BY <1>2, <2>1, <2>2, <2>3, <2>4, <2>5, <2>6, <2>7, <2>8, <2>9, <2>10, <2>11,
       <2>12, <2>13, <2>14, <2>15 DEF Handler
<1>3. CASE Environment
  <2> USE DEF procVars, stopVars, callVars, proofVars, answerVars, clusterVars
  <2>1. CASE Crash
    <3>1. warm' \in BOOLEAN BY <2>1, Zenon DEF Crash
    <3>2. crashes' \in Nat BY <2>1 DEF Crash
    <3> QED BY <2>1, <3>1, <3>2 DEF Crash
  <2>2. CASE Recover BY <2>2 DEF Recover
  <2> QED BY <1>3, <2>1, <2>2 DEF Environment
<1>4. CASE UNCHANGED vars
  BY <1>4 DEF vars, procVars, stopVars, callVars, proofVars, answerVars, clusterVars
<1> QED BY <1>1, <1>2, <1>3, <1>4 DEF Next

\* The main goroutine and the cluster change nothing a call can see.
LEMMA MainLeavesCalls ==
  ASSUME Main \/ Environment \/ UNCHANGED vars
  PROVE  UNCHANGED <<pc, client, expected, outcome, cause, verdict, holder, metrics>>
<1> USE DEF vars, procVars, stopVars, callVars, proofVars, answerVars, clusterVars
<1>1. CASE Main
  BY <1>1 DEF Main, Provision, Warmup, StartupFails, Listen, Signal, ServeReturns, ServeFails,
              CloseProver, MainReturns, SecondSignal
<1>2. CASE Environment
  BY <1>2 DEF Environment, Crash, Recover
<1>3. CASE UNCHANGED vars
  BY <1>3
<1> QED BY <1>1, <1>2, <1>3

\* The mutex has one owner, and it is the handler inside the critical section.
LEMMA LockStep == TypeOK /\ LockInv /\ [Next]_vars => LockInv'
<1> SUFFICES ASSUME TypeOK, LockInv, [Next]_vars PROVE LockInv'
  OBVIOUS
<1>1. CASE Main \/ Environment \/ UNCHANGED vars
  <2>1. UNCHANGED <<pc, holder>>
    BY <1>1, MainLeavesCalls
  <2> QED BY <2>1 DEF LockInv
<1>2. ASSUME NEW r \in Requests, Handler(r) PROVE LockInv'
  <2> USE ForwarderAssumption
      DEF TypeOK, Places, Critical, LockInv, Move, Settle, callVars, answerVars
  <2>1. CASE ArriveProve(r) BY <2>1 DEF ArriveProve
  <2>2. CASE ArriveOther(r) BY <2>2 DEF ArriveOther
  <2>3. CASE ClientLeaves(r) BY <2>3 DEF ClientLeaves
  <2>4. CASE TakeLock(r) BY <2>4 DEF TakeLock
  <2>5. CASE WaitReady(r) BY <2>5 DEF WaitReady
  <2>6. CASE ProofArrives(r) BY <2>6 DEF ProofArrives
  <2>7. CASE ProofVerifies(r) BY <2>7 DEF ProofVerifies
  <2>8. CASE ProveFails(r) BY <2>8 DEF ProveFails
  <2>9. CASE Judge(r) BY <2>9 DEF Judge
  <2>10. CASE SkipRewarm(r) BY <2>10 DEF SkipRewarm
  <2>11. CASE ExitOnClusterError(r) BY <2>11 DEF ExitOnClusterError
  <2>12. CASE StartRewarm(r) BY <2>12 DEF StartRewarm
  <2>13. CASE Rewarmed(r) BY <2>13 DEF Rewarmed
  <2>14. CASE RewarmFails(r) BY <2>14 DEF RewarmFails
  <2>15. CASE Reply(r) BY <2>15 DEF Reply
  <2> QED
    BY <1>2, <2>1, <2>2, <2>3, <2>4, <2>5, <2>6, <2>7, <2>8, <2>9, <2>10, <2>11,
       <2>12, <2>13, <2>14, <2>15 DEF Handler
<1> QED BY <1>1, <1>2 DEF Next

\* Handlers exist only while the port is or was open.
LEMMA StageStep == TypeOK /\ StageInv /\ [Next]_vars => StageInv'
<1> SUFFICES ASSUME TypeOK, StageInv, [Next]_vars PROVE StageInv'
  OBVIOUS
<1> USE DEF StageInv
<1>1. CASE Main
  <2>1. UNCHANGED pc
    BY <1>1, MainLeavesCalls
  <2> QED
    BY <1>1, <2>1 DEF Main, Provision, Warmup, StartupFails, Listen, Signal,
                      ServeReturns, ServeFails, CloseProver, MainReturns, SecondSignal
<1>2. CASE Environment
  BY <1>2 DEF Environment, Crash, Recover, procVars, stopVars, callVars
<1>3. CASE UNCHANGED vars
  BY <1>3 DEF vars, procVars, stopVars, callVars
<1>4. ASSUME NEW r \in Requests, Handler(r) PROVE StageInv'
  <2>1. CASE ExitOnClusterError(r)
    BY <2>1 DEF ExitOnClusterError
  <2>2. CASE ~ExitOnClusterError(r)
    <3>1. UNCHANGED <<proc, exit>> /\ proc \in {"listening", "closing"}
      BY <1>4, <2>2
      DEF Handler, ArriveProve, ArriveOther, ClientLeaves, TakeLock, WaitReady,
          ProofArrives, ProofVerifies, ProveFails, Judge, SkipRewarm, StartRewarm,
          Rewarmed, RewarmFails, Reply, Move, Settle, Alive, procVars, stopVars
    <3> QED BY <3>1
  <2> QED BY <2>1, <2>2
<1> QED BY <1>1, <1>2, <1>3, <1>4 DEF Next

\* What a handler knows at one place still holds at the next.
LEMMA CallStep == TypeOK /\ CallInv /\ [Next]_vars => CallInv'
<1> SUFFICES ASSUME TypeOK, CallInv, [Next]_vars PROVE CallInv'
  OBVIOUS
<1>1. CASE Main \/ Environment \/ UNCHANGED vars
  <2>1. UNCHANGED <<pc, expected, outcome, verdict>>
    BY <1>1, MainLeavesCalls
  <2> QED BY <2>1 DEF CallInv
<1>2. ASSUME NEW r \in Requests, Handler(r) PROVE CallInv'
  <2> USE ForwarderAssumption
      DEF TypeOK, Places, Critical, Judged, CallInv, Move, Settle, callVars,
          proofVars, answerVars
  <2>1. CASE ArriveProve(r) BY <2>1 DEF ArriveProve
  <2>2. CASE ArriveOther(r) BY <2>2 DEF ArriveOther
  <2>3. CASE ClientLeaves(r) BY <2>3 DEF ClientLeaves
  <2>4. CASE TakeLock(r) BY <2>4 DEF TakeLock
  <2>5. CASE WaitReady(r) BY <2>5 DEF WaitReady
  <2>6. CASE ProofArrives(r) BY <2>6 DEF ProofArrives
  <2>7. CASE ProofVerifies(r) BY <2>7 DEF ProofVerifies
  <2>8. CASE ProveFails(r) BY <2>8 DEF ProveFails
  <2>9. CASE Judge(r) BY <2>9 DEF Judge
  <2>10. CASE SkipRewarm(r) BY <2>10 DEF SkipRewarm
  <2>11. CASE ExitOnClusterError(r) BY <2>11 DEF ExitOnClusterError
  <2>12. CASE StartRewarm(r) BY <2>12 DEF StartRewarm
  <2>13. CASE Rewarmed(r) BY <2>13 DEF Rewarmed
  <2>14. CASE RewarmFails(r) BY <2>14 DEF RewarmFails
  <2>15. CASE Reply(r) BY <2>15 DEF Reply
  <2> QED
    BY <1>2, <2>1, <2>2, <2>3, <2>4, <2>5, <2>6, <2>7, <2>8, <2>9, <2>10, <2>11,
       <2>12, <2>13, <2>14, <2>15 DEF Handler
<1> QED BY <1>1, <1>2 DEF Next

\* Only Judge writes a metric line, for a call that has none yet; every other
\* step settles a call without judging it or leaves verdicts alone.
LEMMA MetricStep == TypeOK /\ CallInv /\ MetricInv /\ [Next]_vars => MetricInv'
<1> SUFFICES ASSUME TypeOK, CallInv, MetricInv, [Next]_vars PROVE MetricInv'
  OBVIOUS
<1> DEFINE Line == [call : Requests, matched : BOOLEAN]
<1>1. /\ metrics \in Seq(Line)
      /\ DOMAIN metrics = 1..Len(metrics)
      /\ Len(metrics) \in Nat
      /\ \A i \in DOMAIN metrics : metrics[i].call \in Requests
  <2>1. metrics \in Seq(Line)
    BY DEF TypeOK
  <2> HIDE DEF Line
  <2>2. DOMAIN metrics = 1..Len(metrics) /\ Len(metrics) \in Nat
    BY <2>1, LenProperties
  <2>3. \A i \in DOMAIN metrics : metrics[i] \in Line
    BY <2>1, <2>2, ElementOfSeq
  <2>4. \A line \in Line : line.call \in Requests
    BY DEF Line
  <2> QED BY <2>1, <2>2, <2>3, <2>4
<1> USE ForwarderAssumption DEF TypeOK, Judged, MetricInv
<1>2. \A b : Verdict(b) \in {"VALID", "INVALID"}
  BY DEF Verdict
<1>3. CASE UNCHANGED <<verdict, metrics>>
  BY <1>3
<1>4. ASSUME NEW r \in Requests, UNCHANGED metrics, pc[r] \in {"idle"} \union Critical,
             NEW v \in {"immediate", "error"}, verdict' = [verdict EXCEPT ![r] = v]
      PROVE  MetricInv'
  <2>1. verdict[r] = None
    BY <1>4 DEF CallInv
  <2>2. \A i \in DOMAIN metrics : metrics[i].call # r
    BY <1>1, <1>2, <2>1
  <2>3. \A s \in Requests : s # r => verdict'[s] = verdict[s]
    BY <1>4
  <2>4. verdict'[r] \notin Judged
    BY <1>4
  <2> QED BY <1>1, <1>4, <2>2, <2>3, <2>4
<1>5. ASSUME NEW r \in Requests, Judge(r) PROVE MetricInv'
  <2> DEFINE matched == OutputMatched(outcome[r], expected[r])
             line == [call |-> r, matched |-> matched]
             n == Len(metrics) + 1
  <2>1. /\ verdict[r] = None
        /\ verdict' = [verdict EXCEPT ![r] = Verdict(matched)]
        /\ metrics' = Append(metrics, line)
    BY <1>5 DEF Judge, Settle, CallInv, Critical
  <2>2. matched \in BOOLEAN
    BY DEF OutputMatched
  <2>3. line \in Line
    BY <2>2
  <2>4. /\ DOMAIN metrics' = 1..n
        /\ \A i \in DOMAIN metrics : metrics'[i] = metrics[i]
        /\ metrics'[n] = line
    BY <1>1, <2>1, <2>3
  <2>5. \A i \in DOMAIN metrics : metrics[i].call # r
    BY <1>1, <1>2, <2>1
  <2>6. \A i \in DOMAIN metrics' : i \in DOMAIN metrics \/ i = n
    BY <1>1, <2>4
  <2>7. /\ verdict'[r] = Verdict(matched)
        /\ \A s \in Requests : s # r => verdict'[s] = verdict[s]
    BY <2>1
  <2>8. line.call = r /\ line.matched = matched
    OBVIOUS
  <2> HIDE DEF line, matched, n, TypeOK
  <2>9. (\A i, j \in DOMAIN metrics : metrics[i].call = metrics[j].call => i = j)'
    BY <2>4, <2>5, <2>6, <2>8
  <2>10. (\A i \in DOMAIN metrics : verdict[metrics[i].call] = Verdict(metrics[i].matched))'
    BY <1>1, <2>4, <2>5, <2>6, <2>7, <2>8
  <2>11. (\A s \in Requests : verdict[s] \in Judged =>
             \E i \in DOMAIN metrics : metrics[i].call = s)'
    <3> SUFFICES ASSUME NEW s \in Requests, verdict'[s] \in Judged
                 PROVE  \E i \in DOMAIN metrics' : metrics'[i].call = s
      OBVIOUS
    <3>1. CASE s = r
      <4>1. n \in DOMAIN metrics'
        BY <1>1, <2>4 DEF n
      <4> QED BY <2>4, <2>8, <3>1, <4>1
    <3>2. CASE s # r
      <4>1. PICK i \in DOMAIN metrics : metrics[i].call = s
        BY <2>7, <3>2
      <4>2. i \in DOMAIN metrics'
        BY <1>1, <2>4 DEF n
      <4> QED BY <2>4, <4>1, <4>2
    <3> QED BY <3>1, <3>2
  <2> QED BY <2>9, <2>10, <2>11
<1>6. CASE Main \/ Environment \/ UNCHANGED vars
  BY <1>3, <1>6, MainLeavesCalls
<1>7. ASSUME NEW r \in Requests, Handler(r) PROVE MetricInv'
  <2> USE DEF callVars, proofVars, answerVars
  <2>1. CASE ArriveOther(r)
    BY <1>4, <2>1 DEF ArriveOther
  <2>2. CASE SkipRewarm(r) \/ Rewarmed(r) \/ RewarmFails(r)
    BY <1>4, <2>2 DEF SkipRewarm, Rewarmed, RewarmFails, Settle, Critical
  <2>3. CASE Judge(r)
    BY <1>5, <2>3
  <2>4. CASE ~(ArriveOther(r) \/ SkipRewarm(r) \/ Rewarmed(r) \/ RewarmFails(r) \/ Judge(r))
    <3>1. UNCHANGED <<verdict, metrics>>
      BY <1>7, <2>4
      DEF Handler, ArriveProve, ClientLeaves, TakeLock, WaitReady, ProofArrives,
          ProofVerifies, ProveFails, ExitOnClusterError, StartRewarm, Reply
    <3> QED BY <1>3, <3>1
  <2> QED BY <2>1, <2>2, <2>3, <2>4
<1> QED BY <1>6, <1>7 DEF Next

\* The workers stay warm unless one crashes, and a debt has a handler to pay it.
LEMMA ClusterStep == TypeOK /\ LockInv /\ ClusterInv /\ [Next]_vars => ClusterInv'
<1> SUFFICES ASSUME TypeOK, LockInv, ClusterInv, [Next]_vars PROVE ClusterInv'
  OBVIOUS
<1> USE DEF TypeOK, ClusterInv
<1>1. CASE Main
  <2>1. UNCHANGED <<pc, debt, crashes>>
    BY <1>1, MainLeavesCalls
    DEF Main, Provision, Warmup, StartupFails, Listen, Signal, ServeReturns, ServeFails,
        CloseProver, MainReturns, SecondSignal, clusterVars
  <2>2. proc' \in {"binding", "listening", "closing"} => warm' \/ crashes > 0
    BY <1>1
    DEF Main, Provision, Warmup, StartupFails, Listen, Signal, ServeReturns, ServeFails,
        CloseProver, MainReturns, SecondSignal, clusterVars
  <2> QED BY <2>1, <2>2
<1>2. CASE Environment
  <2>1. UNCHANGED <<pc, proc, debt>>
    BY <1>2 DEF Environment, Crash, Recover, procVars, stopVars, callVars
  <2>2. CASE Crash
    <3>1. crashes' > 0
      BY <2>2 DEF Crash
    <3> QED BY <2>1, <3>1
  <2>3. CASE Recover
    <3>1. UNCHANGED <<warm, crashes>>
      BY <2>3 DEF Recover
    <3> QED BY <2>1, <3>1
  <2> QED BY <1>2, <2>2, <2>3 DEF Environment
<1>3. CASE UNCHANGED vars
  BY <1>3 DEF vars, procVars, stopVars, callVars, clusterVars
<1>4. ASSUME NEW r \in Requests, Handler(r) PROVE ClusterInv'
  <2> USE DEF procVars, stopVars, callVars, answerVars, clusterVars, Move, Settle, Alive
  <2>1. /\ proc' \in {"binding", "listening", "closing"} => proc \in {"listening", "closing"}
        /\ UNCHANGED crashes
        /\ warm' = warm \/ warm' = TRUE
    <3>1. proc' \in {"binding", "listening", "closing"} => proc \in {"listening", "closing"}
      BY <1>4
      DEF Handler, ArriveProve, ArriveOther, ClientLeaves, TakeLock, WaitReady,
          ProofArrives, ProofVerifies, ProveFails, Judge, SkipRewarm,
          ExitOnClusterError, StartRewarm, Rewarmed, RewarmFails, Reply
    <3>2. UNCHANGED crashes
      BY <1>4
      DEF Handler, ArriveProve, ArriveOther, ClientLeaves, TakeLock, WaitReady,
          ProofArrives, ProofVerifies, ProveFails, Judge, SkipRewarm,
          ExitOnClusterError, StartRewarm, Rewarmed, RewarmFails, Reply
    <3>3. warm' = warm \/ warm' = TRUE
      BY <1>4, Zenon
      DEF Handler, ArriveProve, ArriveOther, ClientLeaves, TakeLock, WaitReady,
          ProofArrives, ProofVerifies, ProveFails, Judge, SkipRewarm,
          ExitOnClusterError, StartRewarm, Rewarmed, RewarmFails, Reply
    <3> QED BY <3>1, <3>2, <3>3
  <2>2. (debt = "owed" => \E s \in Requests : pc[s] \in {"failed", "rewarm"})'
    <3> USE DEF LockInv, Critical
    <3>1. CASE ProveFails(r)
      BY <3>1 DEF ProveFails
    <3>2. CASE ProofArrives(r) \/ Rewarmed(r) \/ RewarmFails(r) \/ SkipRewarm(r)
      BY <3>2 DEF ProofArrives, Rewarmed, RewarmFails, SkipRewarm
    <3>3. CASE StartRewarm(r)
      BY <3>3 DEF StartRewarm
    <3>4. CASE \/ ArriveProve(r) \/ ArriveOther(r) \/ ClientLeaves(r) \/ TakeLock(r)
               \/ WaitReady(r) \/ ProofVerifies(r) \/ Judge(r)
               \/ ExitOnClusterError(r) \/ Reply(r)
      <4>1. UNCHANGED debt /\ \A s \in Requests : pc[s] \in {"failed", "rewarm"} => pc'[s] = pc[s]
        BY <3>4
        DEF ArriveProve, ArriveOther, ClientLeaves, TakeLock, WaitReady, ProofVerifies,
            Judge, ExitOnClusterError, Reply
      <4> QED BY <4>1
    <3> QED BY <1>4, <3>1, <3>2, <3>3, <3>4 DEF Handler
  <2> QED BY <2>1, <2>2
<1> QED BY <1>1, <1>2, <1>3, <1>4 DEF Next

-----------------------------------------------------------------------------
\* IInv is inductive, so it holds in every state of every run.
THEOREM Invariance == Spec => []IInv
<1>1. Init => IInv
  BY InitInv
<1>2. IInv /\ [Next]_vars => IInv'
  BY TypeStep, LockStep, StageStep, CallStep, MetricStep, ClusterStep DEF IInv
<1> QED BY <1>1, <1>2, PTL DEF Spec

\* Every variable keeps its type, for every set of calls and outputs.
THEOREM TypeCorrect == Spec => []TypeOK
<1>1. IInv => TypeOK
  BY DEF IInv
<1> QED BY <1>1, Invariance, PTL

\* From the readiness wait to the end of the second warmup no other call, and
\* not the first warmup, uses the prover.
THEOREM MutualExclusion == Spec => []OneProofAtATime
<1>1. IInv => OneProofAtATime
  BY DEF IInv, TypeOK, LockInv, StageInv, OneProofAtATime, Stages
<1> QED BY <1>1, Invariance, PTL

\* A caller is told VALID only when the commitment of its own verified proof is
\* its own expected output, padded with zeros.
THEOREM ValidAnswersAreProved == Spec => []ValidIsProved
<1>1. ASSUME IInv PROVE ValidIsProved
  <2> SUFFICES ASSUME NEW r \in Requests, verdict[r] = "VALID"
               PROVE  /\ outcome[r] # None
                      /\ Len(expected[r]) <= Len(outcome[r])
                      /\ outcome[r] = [i \in 1..Len(outcome[r]) |->
                           IF i <= Len(expected[r]) THEN expected[r][i] ELSE 0]
    BY DEF ValidIsProved
  <2>1. /\ expected[r] \in ExpectedOutputs
        /\ outcome[r] \in PublicValues
        /\ "VALID" = Verdict(OutputMatched(outcome[r], expected[r]))
    BY <1>1 DEF IInv, CallInv, Judged
  <2>2. OutputMatched(outcome[r], expected[r])
    BY <2>1 DEF Verdict
  <2>3. expected[r] \in Seq(Nat) /\ outcome[r] \in Seq(Nat) /\ outcome[r] # None
    BY <2>1, ForwarderAssumption
  <2> QED BY <2>2, <2>3, MatchedIsPadded
<1> QED BY <1>1, Invariance, PTL

\* The metric lines and the callers' verdicts agree, line by line and call by
\* call, and no call has two lines.
THEOREM MetricsAreVerdicts == Spec => []MetricsAgree
<1>1. IInv => MetricsAgree
  BY DEF IInv, MetricInv, MetricsAgree
<1> QED BY <1>1, Invariance, PTL

\* While calls are served the workers are warm unless one crashed.
THEOREM WarmWhileServing == Spec => []PortOpensWarm
<1>1. IInv => PortOpensWarm
  BY DEF IInv, ClusterInv, PortOpensWarm, Alive
<1> QED BY <1>1, Invariance, PTL

\* No test starts while the failure of an earlier one is still to be dealt with.
THEOREM DebtsAreDealtWith == Spec => []NoTestOnOwedCluster
<1>1. IInv => NoTestOnOwedCluster
  BY DEF IInv, LockInv, ClusterInv, NoTestOnOwedCluster, Critical
<1> QED BY <1>1, Invariance, PTL

----------------------------------------------------------------------------
(* Forwarder implements ForwarderSpec: the server keeps its promise to a   *)
(* benchmark client.  The argument goes action by action.  Listen opens    *)
(* the port, the ways the process ends shut it, the steps of a handler     *)
(* between TakeLock and the release of the mutex stutter.                  *)

\* What the promise sees of a step that leaves calls, mutex and metrics alone.
LEMMA MainRefines ==
  ASSUME TypeOK, StageInv, Main \/ Environment \/ UNCHANGED vars
  PROVE  [Promise!Next]_(Promise!vars)
<1> USE DEF Promise!vars, Promise!Next, AbstractPort, AbstractCall, Alive
<1>1. UNCHANGED <<AbstractCall, holder, verdict, metrics>>
  BY MainLeavesCalls
<1>2. CASE Listen
  <2>1. Promise!Open
    BY <1>1, <1>2 DEF Listen, Promise!Open
  <2> QED BY <2>1
<1>3. CASE StartupFails \/ MainReturns \/ SecondSignal \/ Warmup
  <2>1. CASE proc' = "exited"
    <3>1. AbstractPort # "shut" /\ AbstractPort' = "shut"
      BY <1>3, <2>1 DEF StartupFails, MainReturns, SecondSignal, Warmup
    <3>2. Promise!Shut
      BY <1>1, <3>1 DEF Promise!Shut
    <3> QED BY <3>2
  <2>2. CASE proc' # "exited"
    <3>1. UNCHANGED AbstractPort
      BY <1>3, <2>2 DEF StartupFails, MainReturns, SecondSignal, Warmup
    <3> QED BY <1>1, <3>1
  <2> QED BY <2>1, <2>2
<1>4. CASE \/ Provision \/ Signal \/ ServeReturns \/ ServeFails \/ CloseProver
           \/ Environment \/ UNCHANGED vars
  <2>1. UNCHANGED AbstractPort
    BY <1>4
    DEF Provision, Signal, ServeReturns, ServeFails, CloseProver, Environment, Crash, Recover,
        vars, procVars, stopVars
  <2> QED BY <1>1, <2>1
<1> QED BY <1>2, <1>3, <1>4 DEF Main

\* Every step of a handler is one step of the promise or none.
LEMMA HandlerRefines ==
  ASSUME TypeOK, LockInv, CallInv, NEW r \in Requests, Handler(r)
  PROVE  [Promise!Next]_(Promise!vars)
<1> USE DEF TypeOK, Places, Critical, Move, Settle, Alive, AbstractPort, AbstractCall,
            procVars, stopVars, callVars, proofVars, answerVars, Promise!vars
<1>1. CASE ArriveProve(r)
  <2>1. Promise!Accept(r)
    BY <1>1 DEF ArriveProve, Promise!Accept
  <2> QED BY <2>1 DEF Promise!Next
<1>2. CASE ArriveOther(r)
  <2>1. Promise!AnswerDirectly(r)
    BY <1>2 DEF ArriveOther, Promise!AnswerDirectly
  <2> QED BY <2>1 DEF Promise!Next
<1>3. CASE TakeLock(r)
  <2>1. Promise!Begin(r)
    BY <1>3 DEF TakeLock, Promise!Begin
  <2> QED BY <2>1 DEF Promise!Next
<1>4. CASE ClientLeaves(r)
  BY <1>4 DEF ClientLeaves
<1>5. CASE WaitReady(r) \/ ProofArrives(r) \/ ProofVerifies(r) \/ ProveFails(r) \/ StartRewarm(r)
  <2>1. /\ UNCHANGED <<proc, holder, verdict, metrics>>
        /\ pc[r] \in Critical
        /\ \E p \in Critical : pc' = [pc EXCEPT ![r] = p]
    BY <1>5 DEF WaitReady, ProofArrives, ProofVerifies, ProveFails, StartRewarm
  <2>2. UNCHANGED AbstractCall
    BY <2>1
  <2> QED BY <2>1, <2>2
<1>6. CASE Judge(r)
  <2> DEFINE matched == OutputMatched(outcome[r], expected[r])
  <2>1. holder = r
    BY <1>6 DEF Judge, LockInv
  <2>2. matched \in BOOLEAN
    BY DEF OutputMatched
  <2>3. CASE matched
    <3>1. Verdict(matched) = "VALID" /\ metrics' = Append(metrics, [call |-> r, matched |-> TRUE])
      BY <1>6, <2>2, <2>3 DEF Judge, Verdict
    <3>2. Promise!Settle(r, "VALID")
      BY <1>6, <2>1, <3>1 DEF Judge, Promise!Settle, Promise!Judged
    <3> QED BY <3>2 DEF Promise!Next, Promise!Judged
  <2>4. CASE ~matched
    <3>1. Verdict(matched) = "INVALID" /\ metrics' = Append(metrics, [call |-> r, matched |-> FALSE])
      BY <1>6, <2>2, <2>4 DEF Judge, Verdict
    <3>2. Promise!Settle(r, "INVALID")
      BY <1>6, <2>1, <3>1 DEF Judge, Promise!Settle, Promise!Judged
    <3> QED BY <3>2 DEF Promise!Next, Promise!Judged
  <2> QED BY <2>3, <2>4
<1>7. CASE SkipRewarm(r) \/ Rewarmed(r) \/ RewarmFails(r)
  <2>1. holder = r
    BY <1>7 DEF SkipRewarm, Rewarmed, RewarmFails, LockInv
  <2>2. ASSUME SkipRewarm(r) PROVE Promise!Settle(r, "error")
    BY <2>1, <2>2 DEF SkipRewarm, Promise!Settle, Promise!Judged
  <2>3. ASSUME Rewarmed(r) PROVE Promise!Settle(r, "error")
    BY <2>1, <2>3 DEF Rewarmed, Promise!Settle, Promise!Judged
  <2>4. ASSUME RewarmFails(r) PROVE Promise!Settle(r, "error")
    BY <2>1, <2>4 DEF RewarmFails, Promise!Settle, Promise!Judged
  <2>5. Promise!Settle(r, "error")
    BY <1>7, <2>2, <2>3, <2>4
  <2> QED BY <2>5 DEF Promise!Next
<1>8. CASE ExitOnClusterError(r)
  <2>1. Promise!Shut
    BY <1>8 DEF ExitOnClusterError, Promise!Shut
  <2> QED BY <2>1 DEF Promise!Next
<1>9. CASE Reply(r)
  <2>1. Promise!Answer(r)
    BY <1>9 DEF Reply, Promise!Answer
  <2> QED BY <2>1 DEF Promise!Next
<1> QED
  BY <1>1, <1>2, <1>3, <1>4, <1>5, <1>6, <1>7, <1>8, <1>9 DEF Handler

\* The server keeps the promise: at most one answer per call, one call on the
\* cluster at a time, and the metric lines in the order of the proofs, each one
\* with the verdict its caller is told.
THEOREM ServerKeepsPromise == Spec => PromiseKept
<1>1. Init => Promise!Init
  BY DEF Init, Promise!Init, AbstractPort, AbstractCall, Alive
<1>2. IInv /\ [Next]_vars => [Promise!Next]_(Promise!vars)
  BY MainRefines, HandlerRefines DEF IInv, Next
<1> QED BY <1>1, <1>2, Invariance, PTL DEF Spec, PromiseKept, Promise!Spec
=============================================================================
