----------------------------- MODULE AtMostOnce -----------------------------
(***************************************************************************)
(* What one request through HubClient._call promises its caller, whatever  *)
(* the session underneath goes through: the hub runs the request at most   *)
(* once, a normal return means that it ran, and an exception promises      *)
(* nothing - the request may have run, may still run later, or never will. *)
(***************************************************************************)
EXTENDS Naturals

CONSTANT Calls      \* the invocations of HubClient._call

VARIABLES
  status,           \* what the caller of each invocation knows
  runs              \* how often the hub has carried the request out

Init ==
  /\ status = [c \in Calls |-> "idle"]
  /\ runs = [c \in Calls |-> 0]

Issue(c) ==
  /\ status[c] = "idle"
  /\ status' = [status EXCEPT ![c] = "pending"]
  /\ UNCHANGED runs

\* A request whose caller has given up may still be carried out by the hub.
Run(c) ==
  /\ status[c] \in {"pending", "failed"}
  /\ runs[c] = 0
  /\ runs' = [runs EXCEPT ![c] = 1]
  /\ UNCHANGED status

Succeed(c) ==
  /\ status[c] = "pending"
  /\ runs[c] = 1
  /\ status' = [status EXCEPT ![c] = "ok"]
  /\ UNCHANGED runs

\* Without an await in between, issuing a request and failing is one step.
Fail(c) ==
  /\ status[c] \in {"idle", "pending"}
  /\ status' = [status EXCEPT ![c] = "failed"]
  /\ UNCHANGED runs

Next == \E c \in Calls : Issue(c) \/ Run(c) \/ Succeed(c) \/ Fail(c)

vars == <<status, runs>>

Spec == Init /\ [][Next]_vars
=============================================================================
