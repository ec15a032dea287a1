------------------------------ MODULE Registry ------------------------------
(***************************************************************************)
(* What the channel tables of all daemons promise together: a book of      *)
(* names in which nobody invents an owner.  No profiles, no calls in       *)
(* progress, no crashes: a daemon claims a name that is free as far as it  *)
(* knows, and learns in one step what another daemon owns.                 *)
(*                                                                         *)
(* Channels implements it: a profile is built at one time, travels, is     *)
(* overtaken, and is stored by three statements.                           *)
(***************************************************************************)
CONSTANTS Node, Topic, None

VARIABLE owner   \* owner[n][t]: whom n takes for the owner of t

Init == owner = [n \in Node |-> [t \in Topic |-> None]]

\* A name without an owner is claimed.
Claim(n, t) ==
  /\ owner[n][t] = None
  /\ owner' = [owner EXCEPT ![n][t] = n]

\* The names of p that n may write down: p owns them, and n knows no other
\* owner.
Tellable(n, p) == {t \in Topic : owner[p][t] = p /\ owner[n][t] \in {None, p}}

\* n hears of some names of p, and forgets what else it held p to own.
Hear(n, p) ==
  /\ n # p
  /\ \E S \in SUBSET Tellable(n, p) :
       owner' = [owner EXCEPT ![n] =
         [t \in Topic |-> CASE t \in S -> p
                            [] t \notin S /\ owner[n][t] = p -> None
                            [] OTHER -> owner[n][t]]]

Next ==
  \/ \E n \in Node, t \in Topic : Claim(n, t)
  \/ \E n, p \in Node : Hear(n, p)

Spec == Init /\ [][Next]_owner
=============================================================================
