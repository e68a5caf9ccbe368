------------------------ MODULE ZiskProvisionProofs ------------------------
(***************************************************************************)
(* Proofs about ZiskProvision, for any number of forwarders and of failures *)
(* of the coordinator.                                                      *)
(***************************************************************************)
EXTENDS ZiskProvision, TLAPS

\* A coordinator that takes registrations and setups.
Serving == coordinator \in {"running", "terminating"}

\* The restart of the forwarder that runs has landed, noticed or not.
Landed ==
  \/ fpc = "asking" /\ conn[forwarder] = "ended"
  \/ fpc \in {"registering", "registered", "setup", "ready"}

\* The supervisor left nothing open, and its child is gone.
ContainerInv ==
  container # "running" =>
    /\ coordinator = "reported"
    /\ \A f \in All : conn[f] \notin {"sent", "served"}

\* Every forwarder that asks is a forwarder.
ForwarderInv == fpc # "failed" => forwarder \in All

\* The coordinator that serves a landed restart was started after it: nothing
\* under way ends it, and it knows no guest of another forwarder.
LandedInv ==
  Landed /\ Serving =>
    /\ \A f \in All : conn[f] # "sent"
    /\ record \union jobs \subseteq {forwarder}

IInv == TypeOK /\ ForwarderInv /\ ContainerInv /\ LandedInv /\ OnlyOwnGuest

-----------------------------------------------------------------------------
LEMMA InitInv == Init => IInv
<1> SUFFICES ASSUME Init
             PROVE  IInv
  OBVIOUS
<1>1. requested \in BOOLEAN /\ stopped \in BOOLEAN
  BY Zenon DEF Init
<1>2. TypeOK
  BY <1>1, ZiskProvisionAssumption DEF Init, TypeOK, All
<1>3. ForwarderInv /\ ContainerInv /\ LandedInv /\ OnlyOwnGuest
  BY DEF Init, ForwarderInv, ContainerInv, LandedInv, Landed, OnlyOwnGuest
<1>. QED
  BY <1>2, <1>3 DEF IInv

\* End asks the child to terminate and never brings one back.
LEMMA EndType ==
  ASSUME coordinator \in {"running", "terminating", "exited", "waited", "reported"}, End
  PROVE  /\ coordinator' \in {"running", "terminating", "exited", "waited", "reported"}
         /\ coordinator' \in {"running", "terminating"} <=> Serving
BY DEF End, Serving

LEMMA TypeStep ==
  ASSUME TypeOK, ForwarderInv, [Next]_vars
  PROVE  TypeOK' /\ ForwarderInv'
<1>. USE ZiskProvisionAssumption
     DEF TypeOK, ForwarderInv, All, clientVars, connVars, runVars, guestVars
<1>1. CASE StartForwarder
  BY <1>1 DEF StartForwarder
<1>2. CASE Ask
  BY <1>2 DEF Ask
<1>3. CASE AskProxy
  BY <1>3 DEF AskProxy
<1>4. CASE AskLands \/ Register \/ SubmitSetup \/ SetupDone \/ DialFails
  <2>1. CASE AskLands
    BY <2>1 DEF AskLands
  <2>2. CASE Register
    BY <2>2 DEF Register
  <2>3. CASE SubmitSetup
    BY <2>3 DEF SubmitSetup
  <2>4. CASE SetupDone
    BY <2>4 DEF SetupDone
  <2>5. CASE DialFails
    BY <2>5 DEF DialFails
  <2>. QED
    BY <1>4, <2>1, <2>2, <2>3, <2>4, <2>5
<1>5. ASSUME NEW f \in All, Answer(f)
      PROVE  TypeOK' /\ ForwarderInv'
  <2>1. CASE ReadVerb(f)
    BY <2>1, EndType DEF ReadVerb
  <2>2. CASE ReadFails(f)
    BY <2>2 DEF ReadFails
  <2>3. CASE AnswerCloses(f)
    BY <2>3 DEF AnswerCloses
  <2>. QED
    BY <1>5, <2>1, <2>2, <2>3 DEF Answer
<1>6. CASE Run
  BY <1>6 DEF Run, Kill, WaitReturns, Report, Exit
<1>7. CASE Stop
  BY <1>7, EndType DEF Stop
<1>8. CASE CoordinatorExits
  BY <1>8 DEF CoordinatorExits
<1>9. CASE OwnExit
  BY <1>9 DEF OwnExit
<1>10. CASE SetupCompletes \/ UNCHANGED vars
  <2>1. CASE SetupCompletes
    BY <2>1 DEF SetupCompletes
  <2>2. CASE UNCHANGED vars
    BY <2>2 DEF vars
  <2>. QED
    BY <1>10, <2>1, <2>2
<1>11. CASE Replace
  <2>1. requested' \in BOOLEAN /\ stopped' = stopped
    BY <1>11, Zenon DEF Replace
  <2>. QED
    BY <1>11, <2>1 DEF Replace
<1>. QED
  BY <1>1, <1>2, <1>3, <1>4, <1>5, <1>6, <1>7, <1>8, <1>9, <1>10, <1>11 DEF Next, Dial

LEMMA ContainerStep ==
  ASSUME TypeOK, ForwarderInv, ContainerInv, [Next]_vars
  PROVE  ContainerInv'
<1>. USE DEF TypeOK, ForwarderInv, ContainerInv, clientVars, connVars, runVars, guestVars
<1>1. CASE Dial
  BY <1>1 DEF Dial, StartForwarder, Ask, AskProxy, AskLands, Register, SubmitSetup, SetupDone,
              DialFails
<1>2. ASSUME NEW f \in All, Answer(f)
      PROVE  ContainerInv'
  BY <1>2 DEF Answer, ReadVerb, ReadFails, AnswerCloses
<1>3. CASE Run
  BY <1>3 DEF Run, Kill, WaitReturns, Report, Exit
<1>4. CASE Stop \/ CoordinatorExits \/ OwnExit \/ SetupCompletes \/ Replace \/ UNCHANGED vars
  BY <1>4 DEF Stop, CoordinatorExits, OwnExit, SetupCompletes, Replace, vars
<1>. QED
  BY <1>1, <1>2, <1>3, <1>4 DEF Next

LEMMA LandedStep ==
  ASSUME TypeOK, ForwarderInv, ContainerInv, LandedInv, ~LateVerbs, [Next]_vars
  PROVE  LandedInv'
<1>. USE DEF TypeOK, ForwarderInv, ContainerInv, LandedInv, Landed, Serving, clientVars, connVars,
             runVars, guestVars
<1>1. CASE StartForwarder
  BY <1>1 DEF StartForwarder
<1>2. CASE Ask
  BY <1>2 DEF Ask
<1>3. CASE AskProxy
  BY <1>3 DEF AskProxy
<1>4. CASE AskLands
  BY <1>4 DEF AskLands
<1>5. CASE Register \/ SubmitSetup \/ SetupDone \/ DialFails
  BY <1>5 DEF Register, SubmitSetup, SetupDone, DialFails
<1>6. ASSUME NEW f \in All, ReadVerb(f)
      PROVE  LandedInv'
  BY <1>6 DEF ReadVerb, End
<1>7. ASSUME NEW f \in All, ReadFails(f)
      PROVE  LandedInv'
  BY <1>7 DEF ReadFails, Asking
<1>8. ASSUME NEW f \in All, AnswerCloses(f)
      PROVE  LandedInv'
  BY <1>8 DEF AnswerCloses
<1>9. CASE Run
  BY <1>9 DEF Run, Kill, WaitReturns, Report, Exit
<1>10. CASE Stop
  BY <1>10 DEF Stop, End
<1>11. CASE CoordinatorExits \/ OwnExit \/ SetupCompletes \/ UNCHANGED vars
  BY <1>11 DEF CoordinatorExits, OwnExit, SetupCompletes, vars
<1>12. CASE Replace
  BY <1>12 DEF Replace
<1>. QED
  BY <1>1, <1>2, <1>3, <1>4, <1>5, <1>6, <1>7, <1>8, <1>9, <1>10, <1>11, <1>12
     DEF Next, Dial, Answer

LEMMA GuestStep ==
  ASSUME LandedInv, OnlyOwnGuest, [Next]_vars
  PROVE  OnlyOwnGuest'
<1>. USE DEF OnlyOwnGuest, LandedInv, Landed, Serving, clientVars, connVars, runVars, guestVars
<1>1. CASE Dial
  BY <1>1 DEF Dial, StartForwarder, Ask, AskProxy, AskLands, Register, SubmitSetup, SetupDone,
              DialFails
<1>2. ASSUME NEW f \in All, Answer(f)
      PROVE  OnlyOwnGuest'
  BY <1>2 DEF Answer, ReadVerb, ReadFails, AnswerCloses
<1>3. CASE Run
  BY <1>3 DEF Run, Kill, WaitReturns, Report, Exit
<1>4. CASE Stop \/ CoordinatorExits \/ OwnExit \/ SetupCompletes \/ Replace \/ UNCHANGED vars
  BY <1>4 DEF Stop, CoordinatorExits, OwnExit, SetupCompletes, Replace, vars
<1>. QED
  BY <1>1, <1>2, <1>3, <1>4 DEF Next

-----------------------------------------------------------------------------
\* Every variable of Dial and of the supervisor keeps its type.
THEOREM ZiskProvisionTypeOK == Spec => []TypeOK
<1>1. Init => TypeOK /\ ForwarderInv
  BY InitInv DEF IInv
<1>2. TypeOK /\ ForwarderInv /\ [Next]_vars => (TypeOK /\ ForwarderInv)'
  BY TypeStep
<1>. QED
  BY <1>1, <1>2, PTL DEF Spec

LEMMA Invariance ==
  ASSUME ~LateVerbs
  PROVE  Spec => []IInv
<1>1. IInv /\ [Next]_vars => IInv'
  BY TypeStep, ContainerStep, LandedStep, GuestStep DEF IInv
<1>. QED
  BY InitInv, <1>1, PTL DEF Spec

\* Every verb arriving in time, a forwarder that Dial let through runs on a
\* coordinator that has no guest and no setup of another one, whatever the
\* forwarders before it left under way (cmd/zisk-supervisor/main.go,
\* zisk/client.go).
THEOREM ZiskOnlyOwnGuest ==
  ASSUME ~LateVerbs
  PROVE  Spec => []OnlyOwnGuest
<1>1. IInv => OnlyOwnGuest
  BY DEF IInv
<1>. QED
  BY Invariance, <1>1, PTL

\* Every verb arriving in time, a restart that landed is the last one: no
\* request of a killed forwarder is left to end the coordinator that serves.
THEOREM ZiskNoStaleRequest ==
  ASSUME ~LateVerbs
  PROVE  Spec => []NoStaleRequest
<1>1. IInv => NoStaleRequest
  BY DEF IInv, LandedInv, Landed, Serving, NoStaleRequest
<1>. QED
  BY Invariance, <1>1, PTL
=============================================================================
