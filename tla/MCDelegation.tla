---------------------------- MODULE MCDelegation ----------------------------
(***************************************************************************)
(* Two daemons: a asks b for delegated work, b decides.  The workloads the *)
(* configurations choose from.                                             *)
(***************************************************************************)
EXTENDS Delegation, TLC

CONSTANTS a, b

\* a delegates work to b.
RequestDraft ==
  {[from |-> a, to |-> b, kind |-> "delegate_request", cap |-> DelegateWork,
    wellFormed |-> TRUE]}

\* The same work asked for through the general send, without a capability.
UnlabelledDraft ==
  {[from |-> a, to |-> b, kind |-> "delegate_request", cap |-> None,
    wellFormed |-> TRUE]}

\* A delegated task whose body cannot be read, and one without a capability.
WildDraft ==
  RequestDraft \cup UnlabelledDraft \cup
  {[from |-> a, to |-> b, kind |-> "delegate_request", cap |-> DelegateWork,
    wellFormed |-> FALSE]}

\* One of the two may send something else: a task offer of a's, or a result
\* b reports of its own accord.
MixedDraft ==
  RequestDraft \cup
  {[from |-> a, to |-> b, kind |-> "task_offer", cap |-> DelegateWork,
    wellFormed |-> TRUE],
   [from |-> b, to |-> a, kind |-> "delegate_result", cap |-> DelegateWork,
    wellFormed |-> TRUE]}

\* The operator of b accepts once, accepts and trusts, or denies.
AnyDecision ==
  {[at |-> b, op |-> "approve", always |-> FALSE, cap |-> None],
   [at |-> b, op |-> "approve", always |-> TRUE, cap |-> None],
   [at |-> b, op |-> "deny"]}

\* a is configured by hand with b as a peer.
RequesterPeers == {<<a, b>>}
BothPeers == {<<a, b>>, <<b, a>>}

\* b is restarted with and without --cooperate.
WorkerModes == {<<a, "manual">>, <<b, "manual">>, <<b, "auto">>}
AnyWorkerMode == WorkerModes \cup {<<b, "disabled">>}

\* The operator of b grants a its delegated work and takes the grant back.
WorkerGrants == {<<b, a, DelegateWork>>}

IdSymmetry == Permutations(Id)
=============================================================================
