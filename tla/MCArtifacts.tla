---------------------------- MODULE MCArtifacts -----------------------------
(***************************************************************************)
(* Instances of Artifacts: an owner a, its reader b, and c, that b knows   *)
(* and a does not.                                                         *)
(***************************************************************************)
EXTENDS Artifacts, TLC

CONSTANTS a, b, c, small, big

\* What a offers to b: a small file and a large one, one of them before.
TwoFiles == {<<a, small, b>>, <<a, big, b>>}
BigBefore == {<<a, big, b>>}
SmallBefore == {<<a, small, b>>}

\* a and b granted each other the exchange; nobody granted c anything.
Mutual == {<<a, b, Exchange>>, <<b, a, Exchange>>}

\* Two daemons know each other.
Pair == {<<a, b>>, <<b, a>>}

\* Everyone knows everyone, except that a has no row of c.
Known == {<<a, b>>, <<b, a>>, <<b, c>>, <<c, a>>, <<c, b>>}

\* b fetches from a; c asks b for b's copy, by its label and without one, and a.
OneAsk == {<<b, a, small, Exchange>>}
ChainAsks == {<<b, a, small, Exchange>>, <<b, a, big, Exchange>>, <<c, b, small, None>>,
              <<c, b, small, Exchange>>, <<c, a, small, None>>}

\* What a sends to b unasked.
NoPush == {}
OnePush == {<<a, b, small, None>>}
=============================================================================
