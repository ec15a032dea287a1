----------------------------- MODULE MCChannels -----------------------------
(***************************************************************************)
(* Instances of Channels: two or three daemons and one name.               *)
(***************************************************************************)
EXTENDS Channels, TLC

CONSTANTS a, b, c, t

NoInterest == {}

\* Two daemons that talk, and three in a line.
Pair == {<<a, b>>, <<b, a>>}
Line == {<<a, b>>, <<b, c>>}

\* One daemon lists the name among its interests.
OneInterest == {<<a, t>>}
=============================================================================
