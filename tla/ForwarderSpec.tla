--------------------------- MODULE ForwarderSpec ---------------------------
(***************************************************************************)
(* What `provoor serve` promises a benchmark client, without threads,      *)
(* lock, warmup, retries or shutdown: a call gets at most one answer, at   *)
(* most one call is on the cluster at a time, and the collector's metric   *)
(* lines appear in the order the proofs ran, one per judged proof, each    *)
(* agreeing with the verdict the caller is told.                           *)
(*                                                                         *)
(* The promise is the one the package comment and the Server comment of    *)
(* src/internal/serve/server.go give: one request proves one payload, and  *)
(* proofs are serialised.                                                  *)
(***************************************************************************)
EXTENDS Sequences

CONSTANTS
  Requests,   \* the JSON-RPC calls
  None        \* no call, no verdict

VARIABLES
  port,       \* "unopened", then "open" to calls, then "shut" for good
  call,       \* the life of a call: "none", "pending", "settled", "answered"
  proving,    \* the call that owns the cluster, or None
  verdict,    \* what the call will be told, None until it is settled
  log         \* the metric lines, in order

vars == <<port, call, proving, verdict, log>>

\* A judged proof is one the cluster completed, whatever its output.
Judged == {"VALID", "INVALID"}

Init ==
  /\ port = "unopened"
  /\ call = [r \in Requests |-> "none"]
  /\ proving = None
  /\ verdict = [r \in Requests |-> None]
  /\ log = <<>>

\* The port opens at most once, before any call.
Open ==
  /\ port = "unopened"
  /\ port' = "open"
  /\ UNCHANGED <<call, proving, verdict, log>>

\* It may shut at any time, with calls still under way.
Shut ==
  /\ port # "shut"
  /\ port' = "shut"
  /\ UNCHANGED <<call, proving, verdict, log>>

Accept(r) ==
  /\ port = "open"
  /\ call[r] = "none"
  /\ call' = [call EXCEPT ![r] = "pending"]
  /\ UNCHANGED <<port, proving, verdict, log>>

\* A call that needs no proof is settled as it arrives.
AnswerDirectly(r) ==
  /\ port = "open"
  /\ call[r] = "none"
  /\ call' = [call EXCEPT ![r] = "settled"]
  /\ verdict' = [verdict EXCEPT ![r] = "immediate"]
  /\ UNCHANGED <<port, proving, log>>

Begin(r) ==
  /\ call[r] = "pending"
  /\ proving = None
  /\ proving' = r
  /\ UNCHANGED <<port, call, verdict, log>>

\* The cluster is given up and the call settled in one step, so the next
\* proof never starts before the verdict and the metric line of this one.
Settle(r, v) ==
  /\ proving = r
  /\ proving' = None
  /\ call' = [call EXCEPT ![r] = "settled"]
  /\ verdict' = [verdict EXCEPT ![r] = v]
  /\ log' = IF v \in Judged THEN Append(log, [call |-> r, matched |-> v = "VALID"])
                            ELSE log
  /\ UNCHANGED port

Answer(r) ==
  /\ call[r] = "settled"
  /\ call' = [call EXCEPT ![r] = "answered"]
  /\ UNCHANGED <<port, proving, verdict, log>>

Next ==
  \/ Open
  \/ Shut
  \/ \E r \in Requests :
       \/ Accept(r)
       \/ AnswerDirectly(r)
       \/ Begin(r)
       \/ \E v \in Judged \union {"error"} : Settle(r, v)
       \/ Answer(r)

Spec == Init /\ [][Next]_vars
=============================================================================
