------------------------------ MODULE MCUvFraming ------------------------------
(***************************************************************************)
(* Instances of UvFraming with bytes 0 to 3, of which 0 and 1 stand for    *)
(* themselves: lengths below 2 have a prefix of one byte, 2 and 3 one of   *)
(* two, 4 to 15 one of three.                                              *)
(***************************************************************************)
EXTENDS UvFraming

\* Bodies of 1, 3 and 5 bytes; of 4 and 5; of 2 and 3; and one of 5, the first being
\* sent before end_len is looked at; the last two from uvwriter as it is.
SomeArguments ==
  {[start |-> 0, end |-> 5, increment |-> 2, spare |-> 1],
   [start |-> 3, end |-> 5, increment |-> 1, spare |-> 1],
   [start |-> 1, end |-> 3, increment |-> 1, spare |-> 1],
   [start |-> 4, end |-> 0, increment |-> 1, spare |-> 1],
   [start |-> 1, end |-> 3, increment |-> 1, spare |-> 0],
   [start |-> 4, end |-> 8, increment |-> 3, spare |-> 0]}
===============================================================================
