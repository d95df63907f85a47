-------------------------------- MODULE MsgQueue -------------------------------
(***************************************************************************)
(* What a pair of glme_buf_writem and glme_buf_readm promises: messages    *)
(* written come out complete and in the order they were written, each      *)
(* once, until the connection breaks, and as long as it has not broken     *)
(* every message does come out.                                            *)
(***************************************************************************)
EXTENDS Sequences

CONSTANT Messages

VARIABLES
  queue,        \* messages written and not yet read
  delivered,    \* messages read
  broken        \* nothing is promised any more

queueVars == <<queue, delivered, broken>>

QueueInit ==
  /\ queue = <<>>
  /\ delivered = <<>>
  /\ broken = FALSE

\* A write may be what breaks the connection.
Put(m) ==
  /\ queue' = Append(queue, m)
  /\ broken' \in {broken, TRUE}
  /\ UNCHANGED delivered

Take ==
  /\ ~ broken /\ queue # <<>>
  /\ delivered' = Append(delivered, Head(queue))
  /\ queue' = Tail(queue)
  /\ broken' = broken

Break ==
  /\ broken' = TRUE
  /\ UNCHANGED <<queue, delivered>>

QueueNext == Take \/ Break \/ \E m \in Messages : Put(m)

\* What may happen, and what must: a message that waits is taken in the end.
QueueSafety == QueueInit /\ [][QueueNext]_queueVars
QueueFairness == WF_queueVars(Take)

QueueSpec == QueueSafety /\ QueueFairness
===============================================================================
