-------------------------------- MODULE Channel --------------------------------
(***************************************************************************)
(* glme_buf_writem and glme_buf_readm at the two ends of a pipe, as in the *)
(* test programs that fork (t19.c to t23.c): one program writes encoded    *)
(* buffers, the other reads messages as long as the result is positive,    *)
(* both at the same time.                                                  *)
(*                                                                         *)
(* The pipe holds PipeSize bytes.  A write of up to PipeBuf bytes enters   *)
(* it at once, a longer one in pieces, the calling program waiting for     *)
(* room (pipe(7)); a read takes what there is, up to the number asked for, *)
(* and waits only for the first byte.  The writing program may die between *)
(* any two steps, and a signal may end a write after its first pieces.     *)
(* That the reader's buffer can be resized is taken for granted here;      *)
(* module GlmeBuf is about what happens when it cannot.                    *)
(***************************************************************************)
EXTENDS Gob, FiniteSetsExt

CONSTANTS
  Messages,     \* the encoded bytes of a buffer, arguments of glme_buf_writem
  MaxMessages,  \* bound on the messages written
  MaxLen,       \* maxlen of glme_buf_readm, 0 for no limit
  PipeSize, PipeBuf,
  Faults        \* what may happen to the writing program, a subset of
                \*   {"death", "signal"}

ASSUME ChannelAssumption ==
  /\ \A m \in Messages : m \in Seq(0..(Radix - 1)) /\ Len(m) < Power[MaxBytes]
  /\ MaxMessages \in Nat /\ MaxLen \in Nat /\ Faults \subseteq {"death", "signal"}
  /\ PipeBuf \in Nat \ {0} /\ PipeSize \in Nat /\ PipeBuf <= PipeSize

VARIABLES
  wpc,          \* writer: "idle", in the write of the "prefix" or the "body" of a
                \*   message, or at its end: "closed", "failed" or "died"
  left,         \* the bytes its write call has still to put into the pipe
  sent,         \* history: the messages it has called glme_buf_writem with
  pipe,         \* the bytes in the pipe
  rpc,          \* reader: "first", "rest" or "body" is to be read, or "closed"
  tmp,          \* the bytes of the prefix it has read
  got,          \* history: what successful calls left in its buffer: the length
                \*   in dec->count and the bytes that were read
  whole,        \* history: messages received before anything went wrong
  broken        \* history: a message was cut short, refused, or not recognised

writerVars == <<wpc, left, sent>>
readerVars == <<rpc, tmp, got, whole, broken>>
vars == <<writerVars, pipe, readerVars>>

Init ==
  /\ wpc = "idle" /\ left = <<>> /\ sent = <<>>
  /\ pipe = <<>>
  /\ rpc = "first" /\ tmp = <<>> /\ got = <<>> /\ whole = 0 /\ broken = FALSE

(***************************************************************************)
(* glme_buf_writem.                                                        *)
(***************************************************************************)
Writing == wpc \in {"prefix", "body"}
WriterEnded == wpc \in {"closed", "failed", "died"}

\* The call: the length is encoded and written first.
WriteMessage(m) ==
  /\ wpc = "idle" /\ Len(sent) < MaxMessages
  /\ wpc' = "prefix"
  /\ left' = EncodedUint(Len(m))
  /\ sent' = Append(sent, m)
  /\ UNCHANGED <<pipe, readerVars>>

\* The bytes of the write call that is under way.
Call == IF wpc = "prefix" THEN EncodedUint(Len(Last(sent))) ELSE Last(sent)

WriteReturnsEarly(rest) ==       \* mutant: the call ends with its first piece
  IF wpc = "prefix" THEN wpc' = "body" /\ left' = Last(sent)
                    ELSE wpc' = "idle" /\ left' = <<>>

\* When the last byte is in the pipe, write returns and writem goes on.
WriteReturns(rest) ==
  IF rest # <<>> THEN wpc' = wpc /\ left' = rest
  ELSE IF wpc = "prefix" THEN wpc' = "body" /\ left' = Last(sent)
                         ELSE wpc' = "idle" /\ left' = <<>>

Write ==
  /\ Writing
  /\ left # <<>> => rpc # "closed"
  /\ \E k \in 0..Len(left) :
       /\ k = 0 <=> left = <<>>
       /\ Len(Call) <= PipeBuf => k = Len(left)
       /\ Len(pipe) + k <= PipeSize
       /\ pipe' = pipe \o SubSeq(left, 1, k)
       /\ WriteReturns(SubSeq(left, k + 1, Len(left)))
  /\ UNCHANGED <<sent, readerVars>>

\* A signal is handled while the call waits for room: write returns the number of
\* bytes it has put into the pipe, and writem goes on as if it were all of them.
WriteInterrupted ==
  /\ "signal" \in Faults /\ Writing /\ Len(left) < Len(Call)
  /\ WriteReturns(<<>>)
  /\ broken' = TRUE
  /\ UNCHANGED <<sent, pipe, rpc, tmp, got, whole>>

WriteFailsRetries ==             \* mutant: the failed write is tried again
  /\ Writing /\ left # <<>> /\ rpc = "closed"
  /\ UNCHANGED vars

\* Nobody can read any more: write fails, and writem returns -1.
WriteFails ==
  /\ Writing /\ left # <<>> /\ rpc = "closed"
  /\ wpc' = "failed" /\ left' = <<>>
  /\ UNCHANGED <<sent, pipe, readerVars>>

\* The program has written all it wanted to.
CloseWriter ==
  /\ wpc = "idle"
  /\ wpc' = "closed"
  /\ UNCHANGED <<left, sent, pipe, readerVars>>

Die ==
  /\ "death" \in Faults /\ Writing
  /\ wpc' = "died" /\ left' = <<>>
  /\ UNCHANGED <<sent, pipe, readerVars>>

(***************************************************************************)
(* glme_buf_readm, which the program calls until the result is not         *)
(* positive; then it closes its end.                                       *)
(***************************************************************************)

\* read(fd, _, n) returns: a byte has arrived, or none can any more.
ReadReturns == pipe # <<>> \/ WriterEnded

Available(n) == Min({n, Len(pipe)})

\* The read takes k bytes out of the pipe.
TakeOut(k) == pipe' = SubSeq(pipe, k + 1, Len(pipe))

Refused(n) == MaxLen > 0 /\ n > MaxLen

\* The prefix is complete: the length is checked.
Accept(prefix) ==
  /\ tmp' = prefix
  /\ IF Refused(DecodedUint(prefix))
     THEN rpc' = "closed" /\ broken' = TRUE
     ELSE rpc' = "body" /\ broken' = broken

\* One byte, which says how many follow; no byte is the end of the stream, and
\* the result 0.
ReadFirst ==
  /\ rpc = "first" /\ ReadReturns
  /\ IF pipe = <<>>
     THEN rpc' = "closed" /\ UNCHANGED <<tmp, broken, pipe>>
     ELSE /\ TakeOut(1)
          /\ IF NumFollowing(Head(pipe)) = 0
             THEN Accept(<<Head(pipe)>>)
             ELSE tmp' = <<Head(pipe)>> /\ rpc' = "rest" /\ broken' = broken
  /\ UNCHANGED <<writerVars, got, whole>>

ReadRestOneMore ==               \* mutant: -n bytes instead of -(n + 1)
  /\ rpc = "rest" /\ ReadReturns
  /\ LET nc == NumFollowing(tmp[1]) + 1
         k == Available(nc)
     IN /\ TakeOut(k)
        /\ IF k < nc
           THEN rpc' = "closed" /\ broken' = TRUE /\ tmp' = tmp
           ELSE Accept(tmp \o SubSeq(pipe, 1, k))
  /\ UNCHANGED <<writerVars, got, whole>>

\* The bytes after it; -1 when one is missing.
ReadRest ==
  /\ rpc = "rest" /\ ReadReturns
  /\ LET nc == NumFollowing(tmp[1])
         k == Available(nc)
     IN /\ TakeOut(k)
        /\ IF k < nc
           THEN rpc' = "closed" /\ broken' = TRUE /\ tmp' = tmp
           ELSE Accept(tmp \o SubSeq(pipe, 1, k))
  /\ UNCHANGED <<writerVars, got, whole>>

NextCallOffByOne(result) ==      \* mutant: a result of 1 is taken for the end
  IF result > 1 THEN "first" ELSE "closed"

\* The program goes on as long as the result is positive.
NextCall(result) == IF result > 0 THEN "first" ELSE "closed"

\* The body, of which the number of bytes read is not looked at.  The result counts
\* the bytes of the prefix only when there are several, so it is 0 for an empty
\* message after a prefix of one byte.
ReadBody ==
  /\ rpc = "body"
  /\ LET n == DecodedUint(tmp)
         k == Available(n)
         result == n + IF Len(tmp) = 1 THEN 0 ELSE Len(tmp)
     IN /\ n = 0 \/ ReadReturns
        /\ TakeOut(k)
        /\ got' = Append(got, [count |-> n, bytes |-> SubSeq(pipe, 1, k)])
        /\ broken' = (broken \/ k < n \/ result = 0)
        /\ whole' = IF broken' THEN whole ELSE whole + 1
        /\ rpc' = NextCall(result)
        /\ tmp' = <<>>
  /\ UNCHANGED writerVars

Stopped == WriterEnded /\ rpc = "closed"

Reader == ReadFirst \/ ReadRest \/ ReadBody

Next ==
  \/ \E m \in Messages : WriteMessage(m)
  \/ Write \/ WriteInterrupted \/ WriteFails \/ CloseWriter \/ Die
  \/ Reader
  \/ Stopped /\ UNCHANGED vars

\* Both programs are scheduled, and a write into a pipe with enough room succeeds.
Spec == Init /\ [][Next]_vars /\ WF_vars(Write \/ WriteFails) /\ WF_vars(Reader)

(***************************************************************************)
(* Properties.                                                             *)
(***************************************************************************)

\* The types of the variables.
TypeOK ==
  /\ wpc \in {"idle", "prefix", "body", "closed", "failed", "died"}
  /\ left \in Seq(0..(Radix - 1)) /\ sent \in Seq(Messages)
  /\ pipe \in Seq(0..(Radix - 1)) /\ Len(pipe) <= PipeSize
  /\ rpc \in {"first", "rest", "body", "closed"}
  /\ tmp \in Seq(0..(Radix - 1))
  /\ got \in Seq([count : Nat, bytes : Seq(0..(Radix - 1))])
  /\ whole \in 0..Len(got) /\ broken \in BOOLEAN

\* As long as nothing has gone wrong the bytes of the prefix the reader has, those in
\* the pipe and those writem has still to write are, in this order, the messages not
\* yet received with their prefixes; of a writer that has died, their first bytes
\* (glme.c, glme_buf_writem and glme_buf_readm).
Pending == SubSeq(sent, whole + 1, Len(sent))

Unwritten == left \o IF wpc = "prefix" THEN Last(sent) ELSE <<>>

InStep ==
  ~ broken => IF wpc = "died" THEN IsPrefix(tmp \o pipe, Stream(Pending))
                              ELSE tmp \o pipe \o Unwritten = Stream(Pending)

\* The messages glme_buf_writem has written completely.
Completed == IF wpc \in {"idle", "closed"} THEN sent ELSE Front(sent)

Queue == INSTANCE MsgQueue WITH
  queue <- SubSeq(Completed, whole + 1, Len(Completed)),
  delivered <- [i \in 1..whole |-> got[i].bytes]

\* The reader's messages are the writer's, complete and in order, each once, up to
\* the first short write or read, refusal or empty message (glme.c, glme_buf_writem
\* and glme_buf_readm).
ImplementsQueue == Queue!QueueSafety

\* Until then every message written completely is received in the end: the reader
\* neither stops early nor waits for bytes that are there (glme.c, glme_buf_readm).
EveryMessageArrives == Queue!QueueFairness

\* Messages whose prefix and body enter the pipe at once, within maxlen and with at
\* least one byte, are never cut short, refused or mistaken for the end, in any
\* interleaving of the two programs, as long as the writer lives.
Reliable ==
  /\ wpc # "died"
  /\ \A i \in DOMAIN sent :
       /\ Len(sent[i]) \in 1..PipeBuf
       /\ Len(EncodedUint(Len(sent[i]))) <= PipeBuf
       /\ ~ Refused(Len(sent[i]))

NeverBroken == Reliable => ~ broken

\* A call of glme_buf_writem always returns: the reader makes room for it or has
\* closed its end, also when what it reads makes no sense to it.
WritemReturns == Writing ~> ~ Writing

\* "Read length prefix message from file descriptor" (glme.h:470): what a
\* successful glme_buf_readm leaves in the buffer is the message written.
ReceivedAsSent ==
  \A i \in DOMAIN got :
    i <= Len(sent) /\ got[i] = [count |-> Len(sent[i]), bytes |-> sent[i]]
===============================================================================
