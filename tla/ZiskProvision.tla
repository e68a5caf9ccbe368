--------------------------- MODULE ZiskProvision ---------------------------
(***************************************************************************)
(* How a forwarder gets a clean ZisK coordinator: the supervisor of        *)
(* src/cmd/zisk-supervisor/main.go, which runs the coordinator inside its  *)
(* container, and zisk.Dial of src/internal/zisk/client.go, which asks for *)
(* a restart, registers its guest and sets it up.                          *)
(*                                                                         *)
(* A coordinator replays every guest it has set up, and two guests corrupt *)
(* each other (docs/zkvm/zisk.md), so a forwarder must start on one that   *)
(* knows no other guest.  Forwarders run one after the other and can be    *)
(* killed at any step; what they sent stays under way.  The coordinator    *)
(* program, the restart policy and the proxy of the published port are     *)
(* external.                                                               *)
(***************************************************************************)
EXTENDS Naturals

CONSTANTS
  Forwarders,     \* number of forwarders that start, one after the other
  MaxFailures,    \* bound: times the coordinator ends by itself
  LateVerbs       \* whether a verb can take longer than readTimeout to arrive

ASSUME ZiskProvisionAssumption ==
  /\ Forwarders \in Nat \ {0}
  /\ MaxFailures \in Nat
  /\ LateVerbs \in BOOLEAN

VARIABLES
  forwarder,    \* the forwarder that runs, 0 before the first
  fpc,          \* where its Dial is
  conn,         \* each forwarder's connection to the restart port
  connLife,     \* the coordinator that ran when it was opened
  container,    \* "running", "failed" (to be replaced), or "exited"
  life,         \* counts the coordinators
  coordinator,  \* the child of the supervisor, and how far run has noticed
  status,       \* how the last coordinator ended
  requested,    \* the flag of run
  stopped,      \* the operator stopped the container
  jobs,         \* external: setups the coordinator still runs
  record,       \* external: guests the coordinator has set up
  failures      \* ends of its own so far

clientVars == <<forwarder, fpc>>
connVars == <<conn, connLife>>
runVars == <<container, life, coordinator, status, requested, stopped>>
guestVars == <<jobs, record>>
vars == <<clientVars, connVars, runVars, guestVars, failures>>

All == 1..Forwarders

Init ==
  /\ forwarder = 0
  /\ fpc = "failed"
  /\ conn = [f \in All |-> "none"]
  /\ connLife = [f \in All |-> 0]
  /\ container = "running"
  /\ life = 1
  /\ coordinator = "running"
  /\ status = "none"
  /\ requested = FALSE
  /\ stopped = FALSE
  /\ jobs = {}
  /\ record = {}
  /\ failures = 0

\* end: SIGTERM now, SIGKILL after terminateGrace.  A coordinator that exited
\* already notices neither.
End ==
  coordinator' = IF coordinator = "running" THEN "terminating" ELSE coordinator

-----------------------------------------------------------------------------
(* zisk.Dial *)

\* Also the death of the forwarder before, wherever it was.
StartForwarder ==
  /\ forwarder < Forwarders
  /\ forwarder' = forwarder + 1
  /\ fpc' = "dialing"
  /\ UNCHANGED <<connVars, runVars, guestVars, failures>>

\* The supervisor listens: the connection is open and the verb under way.
Ask ==
  /\ fpc = "dialing"
  /\ container = "running"
  /\ conn' = [conn EXCEPT ![forwarder] = "sent"]
  /\ connLife' = [connLife EXCEPT ![forwarder] = life]
  /\ fpc' = "asking"
  /\ UNCHANGED <<forwarder, runVars, guestVars, failures>>

\* "A published port answers whether or not the container behind it is up":
\* the proxy takes the connection and closes it.
AskProxy ==
  /\ fpc = "dialing"
  /\ container # "running"
  /\ conn' = [conn EXCEPT ![forwarder] = "ended"]
  /\ connLife' = [connLife EXCEPT ![forwarder] = life]
  /\ fpc' = "asking"
  /\ UNCHANGED <<forwarder, runVars, guestVars, failures>>

\* A clean end of stream is taken for the restart.
AskLands ==
  /\ fpc = "asking"
  /\ conn[forwarder] = "ended"
  /\ fpc' = "registering"
  /\ UNCHANGED <<forwarder, connVars, runVars, guestVars, failures>>

\* Registration is retried on every error until a coordinator takes it.
Register ==
  /\ fpc = "registering"
  /\ coordinator \in {"running", "terminating"}
  /\ fpc' = "registered"
  /\ UNCHANGED <<forwarder, connVars, runVars, guestVars, failures>>

\* The setup job is submitted; an unavailable cluster is asked again.
SubmitSetup ==
  /\ fpc = "registered"
  /\ coordinator \in {"running", "terminating"}
  /\ jobs' = jobs \union {forwarder}
  /\ fpc' = "setup"
  /\ UNCHANGED <<forwarder, connVars, runVars, record, failures>>

\* The job completed under the expected key.
SetupDone ==
  /\ fpc = "setup"
  /\ forwarder \in record
  /\ fpc' = "ready"
  /\ UNCHANGED <<forwarder, connVars, runVars, guestVars, failures>>

\* A reset or a silent connection, a budget that ends, a job that fails or is
\* unknown after another restart, or a key of another program.
DialFails ==
  /\ fpc \notin {"ready", "failed"}
  /\ fpc' = "failed"
  /\ UNCHANGED <<forwarder, connVars, runVars, guestVars, failures>>

-----------------------------------------------------------------------------
(* The supervisor *)

\* answer reads the verb of a connection, flags the request and ends the child.
ReadVerb(f) ==
  /\ container = "running"
  /\ conn[f] = "sent"
  /\ conn' = [conn EXCEPT ![f] = "served"]
  /\ requested' = TRUE
  /\ End
  /\ UNCHANGED <<clientVars, connLife, container, life, status, stopped,
                 guestVars, failures>>

\* The caller that opened the connection still waits on it.
Asking(f) == f = forwarder /\ fpc = "asking"

\* Reading the verb fails: the caller is gone before its verb was complete, or,
\* with LateVerbs, the verb did not arrive within readTimeout.
ReadFails(f) ==
  /\ Asking(f) => LateVerbs
  /\ container = "running"
  /\ conn[f] = "sent"
  /\ conn' = [conn EXCEPT ![f] = IF Asking(f) THEN "ended" ELSE "reset"]
  /\ UNCHANGED <<clientVars, connLife, runVars, guestVars, failures>>

\* OnlyOwnGuest, NoStaleRequest: answer does not wait for the end.
AnswerClosesAtOnce(f) ==
  /\ container = "running"
  /\ conn[f] = "served"
  /\ conn' = [conn EXCEPT ![f] = "ended"]
  /\ UNCHANGED <<clientVars, connLife, runVars, guestVars, failures>>

\* answer closes a served connection once run has seen the child exit.
AnswerCloses(f) ==
  /\ container = "running"
  /\ conn[f] = "served"
  /\ coordinator \in {"waited", "reported"}
  /\ conn' = [conn EXCEPT ![f] = "ended"]
  /\ UNCHANGED <<clientVars, connLife, runVars, guestVars, failures>>

\* The operator stops the container, which reaches the child through the
\* signal the supervisor waits for.
Stop ==
  /\ container = "running"
  /\ ~stopped
  /\ stopped' = TRUE
  /\ End
  /\ UNCHANGED <<clientVars, connVars, container, life, status, requested,
                 guestVars, failures>>

\* StopEndsContainer: the timer sends one more SIGTERM.
KillTerminates ==
  /\ coordinator = "terminating"
  /\ End
  /\ UNCHANGED <<clientVars, connVars, container, life, status, requested,
                 stopped, guestVars, failures>>

\* terminateGrace is over.
Kill ==
  /\ coordinator = "terminating"
  /\ coordinator' = "exited"
  /\ status' = "killed"
  /\ UNCHANGED <<clientVars, connVars, container, life, requested, stopped,
                 guestVars, failures>>

\* cmd.Wait returns and the channel ended closes.
WaitReturns ==
  /\ coordinator = "exited"
  /\ coordinator' = "waited"
  /\ UNCHANGED <<clientVars, connVars, container, life, status, requested,
                 stopped, guestVars, failures>>

\* RequestedEndIsReplaced: a clean end is reported as clean.
ReportClean ==
  /\ coordinator = "waited"
  /\ coordinator' = "reported"
  /\ UNCHANGED <<clientVars, connVars, container, life, status, requested,
                 stopped, guestVars, failures>>

\* run reads the flag: a requested clean end counts as a failure.
Report ==
  /\ coordinator = "waited"
  /\ coordinator' = "reported"
  /\ status' = IF requested /\ status = "clean" THEN "failed" ELSE status
  /\ UNCHANGED <<clientVars, connVars, container, life, requested, stopped,
                 guestVars, failures>>

\* TypeOK: the container carries what the child left.
ExitRaw ==
  /\ coordinator = "reported"
  /\ container = "running"
  /\ container' = status
  /\ conn' = [f \in All |-> IF conn[f] \in {"sent", "served"} THEN "ended" ELSE conn[f]]
  /\ UNCHANGED <<clientVars, connLife, life, coordinator, status, requested,
                 stopped, guestVars, failures>>

\* The supervisor exits with the status.  Served connections end, and one whose
\* verb was never read ends or is reset.
Exit ==
  /\ coordinator = "reported"
  /\ container = "running"
  /\ container' = IF status = "clean" THEN "exited" ELSE "failed"
  /\ \E cut \in {"ended", "reset"} :
       conn' = [f \in All |-> CASE conn[f] = "served" -> "ended"
                                [] conn[f] = "sent"   -> cut
                                [] OTHER              -> conn[f]]
  /\ UNCHANGED <<clientVars, connLife, life, coordinator, status, requested,
                 stopped, guestVars, failures>>

-----------------------------------------------------------------------------
(* The coordinator and the restart policy *)

CoordinatorExits ==
  /\ coordinator = "terminating"
  /\ coordinator' = "exited"
  /\ \E s \in {"clean", "failed"} : status' = s
  /\ UNCHANGED <<clientVars, connVars, container, life, requested, stopped,
                 guestVars, failures>>

OwnExit ==
  /\ coordinator = "running"
  /\ failures < MaxFailures
  /\ failures' = failures + 1
  /\ coordinator' = "exited"
  /\ \E s \in {"clean", "failed"} : status' = s
  /\ UNCHANGED <<clientVars, connVars, container, life, requested, stopped,
                 guestVars>>

SetupCompletes ==
  /\ coordinator \in {"running", "terminating"}
  /\ \E f \in jobs : jobs' = jobs \ {f} /\ record' = record \union {f}
  /\ UNCHANGED <<clientVars, connVars, runVars, failures>>

\* On failure only, and never after a stop.  The new coordinator knows nothing.
Replace ==
  /\ container = "failed"
  /\ ~stopped
  /\ container' = "running"
  /\ life' = life + 1
  /\ coordinator' = "running"
  /\ status' = "none"
  /\ requested' = FALSE
  /\ jobs' = {}
  /\ record' = {}
  /\ UNCHANGED <<clientVars, connVars, stopped, failures>>

-----------------------------------------------------------------------------
Dial ==
  \/ StartForwarder
  \/ Ask
  \/ AskProxy
  \/ AskLands
  \/ Register
  \/ SubmitSetup
  \/ SetupDone
  \/ DialFails

Answer(f) == ReadVerb(f) \/ ReadFails(f) \/ AnswerCloses(f)

Run == Kill \/ WaitReturns \/ Report \/ Exit

Next ==
  \/ Dial
  \/ \E f \in All : Answer(f)
  \/ Run
  \/ Stop
  \/ CoordinatorExits
  \/ OwnExit
  \/ SetupCompletes
  \/ Replace

Spec == Init /\ [][Next]_vars

\* The goroutines of the supervisor run, its kill timer fires, and the daemon
\* replaces a failed container.  The coordinator may ignore every SIGTERM.
FairSpec ==
  /\ Spec
  /\ \A f \in All : WF_vars(Answer(f))
  /\ WF_vars(Run)
  /\ WF_vars(Replace)

-----------------------------------------------------------------------------
(* Properties *)

\* Every variable keeps its type.
TypeOK ==
  /\ forwarder \in 0..Forwarders
  /\ fpc \in {"dialing", "asking", "registering", "registered", "setup", "ready",
              "failed"}
  /\ conn \in [All -> {"none", "sent", "served", "ended", "reset"}]
  /\ connLife \in [All -> Nat]
  /\ container \in {"running", "failed", "exited"}
  /\ life \in Nat
  /\ coordinator \in {"running", "terminating", "exited", "waited", "reported"}
  /\ status \in {"none", "clean", "failed", "killed"}
  /\ requested \in BOOLEAN
  /\ stopped \in BOOLEAN
  /\ jobs \subseteq All
  /\ record \subseteq All
  /\ failures \in 0..MaxFailures

\* "Each forwarder asks the supervisor to end the coordinator before it
\* registers": from the landing on, the coordinator neither knows nor is setting
\* up the guest of another forwarder, whatever killed forwarders left under way.
OnlyOwnGuest ==
  fpc \in {"registered", "setup", "ready"} => record \union jobs \subseteq {forwarder}

\* Once a restart landed, no request sent earlier, by a forwarder that was
\* killed or gave up, is left to end the coordinator that takes the registration.
NoStaleRequest ==
  fpc \in {"registering", "registered", "setup", "ready"}
    /\ coordinator \in {"running", "terminating"} =>
      \A f \in All : conn[f] # "sent"

\* "A requested end of a clean exit reports 1, since the restart policy replaces
\* only a failed container": a request that run can still see is followed by a
\* new coordinator, unless the operator stops the container.
RequestedEndIsReplaced ==
  \A n \in 1..(1 + Forwarders + MaxFailures) :
    (life = n /\ requested /\ coordinator # "reported") ~> (life > n \/ stopped)

\* A stop ends the container, even with a coordinator that ignores SIGTERM and
\* requests that keep arriving, and no request brings it back.
StopEndsContainer == stopped ~> [](container # "running")

\* The comment of askRestart: "A clean end of stream is therefore the restart
\* landing", so the coordinator that ran when the connection was opened is gone.
EndOfStreamIsLanding ==
  \A f \in All : conn[f] = "ended" =>
    \/ life > connLife[f]
    \/ container # "running"
    \/ coordinator \in {"exited", "waited", "reported"}
=============================================================================
