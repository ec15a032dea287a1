---------------------------- MODULE DelegatedWork ----------------------------
(***************************************************************************)
(* What a daemon that is asked for delegated work promises, whatever its   *)
(* messages, channels, handlers and crashes look like: a request is        *)
(* admitted or held for the operator once, executed only while it is       *)
(* admitted for the first time or held, decided once, and answered at most *)
(* once, by what became of it.  Nothing here says that anything happens.   *)
(*                                                                         *)
(* Delegation implements it as long as storage does not fail.              *)
(***************************************************************************)
CONSTANTS Id, None

VARIABLES
  status,   \* of each request at the daemon it was sent to
  running,  \* requests that are being executed or approved
  ran,      \* requests that were ever executed
  answers   \* [request, id, outcome] of the results sent

vars == <<status, running, ran, answers>>

Init ==
  /\ status = [i \in Id |-> None]
  /\ running = {} /\ ran = {} /\ answers = {}

\* A new request that policy admits is executed, if it can be read.
Admit(i) ==
  /\ status[i] = None
  /\ status' = [status EXCEPT ![i] = "received"]
  /\ \/ running' = running \cup {i} /\ ran' = ran \cup {i}
     \/ UNCHANGED <<running, ran>>
  /\ UNCHANGED answers

\* A new request waits for the operator.
Hold(i) ==
  /\ status[i] = None
  /\ status' = [status EXCEPT ![i] = "pending"]
  /\ UNCHANGED <<running, ran, answers>>

\* The operator approves: it is executed before the decision is recorded.
Execute(i) ==
  /\ status[i] = "pending" /\ i \notin running
  /\ running' = running \cup {i} /\ ran' = ran \cup {i}
  /\ UNCHANGED <<status, answers>>

\* An execution ends, or is given up; a held request is still held.
EndRun(i) ==
  /\ i \in running
  /\ running' = running \ {i}
  /\ UNCHANGED <<status, ran, answers>>

Approved(i) ==
  /\ status[i] = "pending" /\ i \in running
  /\ status' = [status EXCEPT ![i] = "approved"]
  /\ running' = running \ {i}
  /\ UNCHANGED <<ran, answers>>

Denied(i) ==
  /\ status[i] = "pending" /\ i \notin running
  /\ status' = [status EXCEPT ![i] = "denied"]
  /\ UNCHANGED <<running, ran, answers>>

\* The outcomes a result may report of a request.
Reportable(i) ==
  CASE status[i] = "denied" -> {"denied"}
    [] status[i] = "approved" -> {"completed"}
    [] status[i] = "received" /\ i \in ran -> {"completed", "failed"}
    [] OTHER -> {}

\* A result is sent for a request that is not executing and has none.
Answer(i) ==
  /\ i \notin running
  /\ \A a \in answers : a.request # i
  /\ \E outcome \in Reportable(i), j \in Id :
       answers' = answers \cup {[request |-> i, id |-> j, outcome |-> outcome]}
  /\ UNCHANGED <<status, running, ran>>

Next ==
  \E i \in Id :
    \/ Admit(i) \/ Hold(i) \/ Execute(i) \/ EndRun(i) \/ Approved(i) \/ Denied(i)
    \/ Answer(i)

Spec == Init /\ [][Next]_vars
=============================================================================
