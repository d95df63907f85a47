------------------------------- MODULE MCChannel -------------------------------
(***************************************************************************)
(* Instances of Channel with bytes 0 to 3, of which 0 and 1 stand for      *)
(* themselves: a length of 2 or 3 has a prefix of two bytes and a length   *)
(* of 4 one of three.                                                      *)
(***************************************************************************)
EXTENDS Channel

\* An empty message, one that looks like a prefix, one as long as PipeBuf, two that
\* arrive in pieces, and one that is refused.
AllMessages == {<<>>, <<2>>, <<0, 3>>, <<1, 0, 1>>, <<2, 1, 0, 0>>, <<3, 1, 0, 2, 1>>}
LongMessages == {<<1>>, <<1, 0, 1>>}
===============================================================================
