----------------------------- MODULE ChannelProofs -----------------------------
(***************************************************************************)
(* For any messages, any pipe and any faults: the types of the channel,    *)
(* that the reader stays in step with the writer, that the channel         *)
(* implements the queue of messages, and that in a program that is careful *)
(* nothing ever breaks it.                                                 *)
(***************************************************************************)
EXTENDS Channel, GobProofs

\* How the writer's variables go together: there are bytes to write only in a call, a call
\* has a message, and one that waits after the prefix has a body to write unless it is empty.
WriterOK ==
  /\ ~ Writing => left = <<>>
  /\ wpc \notin {"idle", "closed"} => sent # <<>>
  /\ wpc = "body" /\ left = <<>> => Last(sent) = <<>>

\* How the reader's go together: where it waits for the rest of a prefix it has the first
\* byte, and where it waits for a body it has the whole prefix.
ReaderOK ==
  /\ rpc = "first" => tmp = <<>>
  /\ rpc = "rest" => Len(tmp) = 1 /\ NumFollowing(tmp[1]) \in Nat \ {0}
  /\ rpc = "body" => Complete(tmp) /\ Len(tmp) = Consumed(tmp)

\* The inductive invariant of the types.
TypeInv == TypeOK /\ WriterOK /\ ReaderOK

\* Every message has a length that can be announced.
LEMMA MessagesSendable ==
  /\ Messages \subseteq Sendable
  /\ TypeOK => sent \in Seq(Sendable)
<1>1. Messages \subseteq Sendable BY ChannelAssumption DEF Sendable, Byte
<1>2. ASSUME TypeOK PROVE sent \in Seq(Sendable)
  <2>1. sent \in Seq(Messages) BY <1>2 DEF TypeOK
  <2> QED BY <1>1, <2>1, SeqMonotonic
<1> QED BY <1>1, <1>2

\* The types of TypeOK with the name for bytes.
LEMMA ByteType == TypeOK => /\ left \in Seq(Byte) /\ pipe \in Seq(Byte) /\ tmp \in Seq(Byte)
BY DEF TypeOK, Byte

\* The message at hand, and those before it.
LEMMA LastSent ==
  ASSUME TypeOK, sent # <<>>
  PROVE  /\ Last(sent) \in Sendable /\ Last(sent) \in Messages /\ Last(sent) \in Seq(Byte)
         /\ Front(sent) \in Seq(Messages)
         /\ Len(Front(sent)) = Len(sent) - 1 /\ Len(sent) \in Nat \ {0}
         /\ sent = Append(Front(sent), Last(sent))
<1>1. sent \in Seq(Messages) BY DEF TypeOK
<1>2. Last(sent) \in Messages BY <1>1, FrontLast
<1> QED BY <1>1, <1>2, FrontLast, MessagesSendable, FrameType

\* How many bytes one read takes out of the pipe (glme_buf_readm, read).
LEMMA AvailableIs ==
  ASSUME TypeOK, NEW n \in Nat
  PROVE  /\ Available(n) \in 0..Len(pipe) /\ Available(n) <= n
         /\ Available(n) < n => Available(n) = Len(pipe)
         /\ n <= Len(pipe) => Available(n) = n
<1>1. Len(pipe) \in Nat BY LenProperties DEF TypeOK
<1>2. Available(n) = IF n <= Len(pipe) THEN n ELSE Len(pipe)
  BY <1>1, MinOfTwo DEF Available
<1> QED BY <1>1, <1>2

\* After a write that returns, whatever it leaves unwritten, the writer's variables still go
\* together (glme_buf_writem).
LEMMA WriteReturnsType ==
  ASSUME TypeInv, Writing, NEW rest \in Seq(Byte), WriteReturns(rest), sent' = sent
  PROVE  /\ wpc' \in {"prefix", "body", "idle"}
         /\ left' \in Seq(Byte)
         /\ WriterOK'
<1>1. sent # <<>> BY DEF TypeInv, WriterOK, Writing
<1>2. Last(sent) \in Seq(Byte) BY <1>1, LastSent DEF TypeInv
<1>3. <<>> \in Seq(Byte) BY EmptySeq
<1>4. CASE rest # <<>>
  BY <1>1, <1>4 DEF WriteReturns, WriterOK, Writing, TypeInv
<1>5. CASE rest = <<>> /\ wpc = "prefix"
  BY <1>1, <1>2, <1>5 DEF WriteReturns, WriterOK, Writing
<1>6. CASE rest = <<>> /\ wpc # "prefix"
  BY <1>1, <1>3, <1>6 DEF WriteReturns, WriterOK, Writing
<1> QED BY <1>4, <1>5, <1>6

\* After a whole prefix is looked at the reader's variables still go together, whether the
\* length is accepted or refused (glme_buf_readm).
LEMMA AcceptType ==
  ASSUME NEW prefix \in Seq(Byte), Complete(prefix), Len(prefix) = Consumed(prefix),
         Accept(prefix), broken \in BOOLEAN
  PROVE  /\ tmp' \in Seq(Byte) /\ rpc' \in {"body", "closed"} /\ broken' \in BOOLEAN
         /\ ReaderOK'
BY DEF Accept, ReaderOK

\* A pipe with bytes has a first one.
LEMMA FirstByte ==
  ASSUME TypeOK, pipe # <<>>
  PROVE  /\ Len(pipe) \in Nat \ {0} /\ 1 \in 0..Len(pipe)
         /\ Head(pipe) \in Byte /\ <<Head(pipe)>> \in Seq(Byte)
         /\ SubSeq(pipe, 1, 1) = <<Head(pipe)>>
         /\ NumFollowing(Head(pipe)) \in Nat
<1>1. pipe \in Seq(Byte) BY ByteType
<1>2. Len(pipe) \in Nat \ {0} BY <1>1, EmptySeq
<1>3. Head(pipe) \in Byte BY <1>1, HeadTailProperties
<1>4. NumFollowing(Head(pipe)) \in Nat BY <1>3, GobAssumption DEF NumFollowing, Byte
<1>5. <<Head(pipe)>> \in Seq(Byte) BY <1>3
<1>6. SubSeq(pipe, 1, 1) = <<Head(pipe)>>
  <2>1. 1 \in 0..Len(pipe) /\ 1 \in 1..1 BY <1>2
  <2>2. SubSeq(pipe, 1, 1) \in Seq(Byte) /\ Len(SubSeq(pipe, 1, 1)) = 1 BY <1>1, <2>1, SplitAt
  <2>3. SubSeq(pipe, 1, 1)[1] = pipe[1] BY <1>1, <2>1, ElementOfSplit
  <2>4. pipe[1] = Head(pipe) BY <1>1, <1>2
  <2>5. Len(<<Head(pipe)>>) = 1 /\ <<Head(pipe)>>[1] = Head(pipe) OBVIOUS
  <2> DEFINE x == SubSeq(pipe, 1, 1)
  <2> DEFINE y == <<Head(pipe)>>
  <2>6. x \in Seq(Byte) /\ y \in Seq(Byte) /\ Len(x) = 1 /\ Len(y) = 1 /\ x[1] = y[1]
    BY <1>5, <2>2, <2>3, <2>4, <2>5
  <2> HIDE DEF x, y
  <2>7. x = y
    <3>1. \A i \in 1..Len(x) : x[i] = y[i] BY <2>6
    <3> QED BY <2>6, <3>1, SeqEqual
  <2> QED BY <2>7 DEF x, y
<1> QED BY <1>2, <1>3, <1>4, <1>5, <1>6

\* The bytes a reader has after the second read of a prefix are a whole number.
LEMMA WholePrefix ==
  ASSUME TypeInv, rpc = "rest",
         NumFollowing(tmp[1]) <= Available(NumFollowing(tmp[1]))
  PROVE  LET prefix == tmp \o SubSeq(pipe, 1, Available(NumFollowing(tmp[1])))
         IN /\ prefix \in Seq(Byte) /\ Complete(prefix) /\ Len(prefix) = Consumed(prefix)
            /\ prefix[1] = tmp[1]
<1> DEFINE n == NumFollowing(tmp[1])
<1> DEFINE k == Available(n)
<1> DEFINE x == SubSeq(pipe, 1, k)
<1> DEFINE p == tmp \o x
<1>1. Len(tmp) = 1 /\ n \in Nat \ {0} BY DEF TypeInv, ReaderOK
<1> HIDE DEF n
<1>2. k \in 0..Len(pipe) /\ k <= n BY <1>1, AvailableIs DEF TypeInv
<1>3. n <= k BY DEF n
<1> HIDE DEF k
<1>4. k = n /\ Len(pipe) \in Nat
  <2>1. Len(pipe) \in Nat BY LenProperties DEF TypeInv, TypeOK
  <2> QED BY <1>1, <1>2, <1>3, <2>1
<1>5. tmp \in Seq(Byte) /\ pipe \in Seq(Byte) BY ByteType DEF TypeInv
<1>6. x \in Seq(Byte) /\ Len(x) = n BY <1>2, <1>4, <1>5, SplitAt
<1> HIDE DEF x
<1>7. /\ p \in Seq(Byte) /\ Len(p) = Len(tmp) + Len(x)
      /\ \A i \in 1..(Len(tmp) + Len(x)) : p[i] = IF i <= Len(tmp) THEN tmp[i] ELSE x[i - Len(tmp)]
  BY <1>5, <1>6, ConcatProperties
<1> HIDE DEF p
<1>8. Len(p) = n + 1 /\ p[1] = tmp[1] BY <1>1, <1>6, <1>7
<1>9. Consumed(p) = n + 1 BY <1>8 DEF Consumed, n
<1>10. p # <<>>
  <2>1. Len(<<>>) = 0 OBVIOUS
  <2> QED BY <1>1, <1>8, <2>1
<1> QED BY <1>1, <1>7, <1>8, <1>9, <1>10 DEF Complete, p, x, k, n

\* Where the reader waits for a body it knows a length.
LEMMA BodyLength ==
  ASSUME TypeInv, rpc = "body"
  PROVE  DecodedUint(tmp) \in Nat /\ Len(tmp) \in Nat \ {0}
<1>1. tmp \in Seq(0..(Radix - 1)) /\ Complete(tmp) BY DEF TypeInv, TypeOK, ReaderOK
<1>2. Len(tmp) \in Nat \ {0} BY <1>1, EmptySeq DEF Complete
<1> QED BY <1>1, <1>2, DecodedUintType

\* The two programs start with the types.
LEMMA TypeInit == Init => TypeInv
<1> SUFFICES ASSUME Init PROVE TypeInv OBVIOUS
<1>1. /\ wpc = "idle" /\ left = <<>> /\ sent = <<>> /\ pipe = <<>> /\ rpc = "first"
      /\ tmp = <<>> /\ got = <<>> /\ whole = 0 /\ broken = FALSE
  BY DEF Init
<1>2. /\ left \in Seq(0..(Radix - 1)) /\ sent \in Seq(Messages) /\ pipe \in Seq(0..(Radix - 1))
      /\ tmp \in Seq(0..(Radix - 1)) /\ got \in Seq([count : Nat, bytes : Seq(0..(Radix - 1))])
  BY <1>1, EmptySeq
<1>3. Len(pipe) = 0 /\ Len(got) = 0 BY <1>1
<1>4. TypeOK
  <2>1. Len(pipe) <= PipeSize BY <1>3, ChannelAssumption
  <2>2. whole \in 0..Len(got) BY <1>1, <1>3
  <2>3. wpc \in {"idle", "prefix", "body", "closed", "failed", "died"}
        /\ rpc \in {"first", "rest", "body", "closed"} /\ broken \in BOOLEAN
    BY <1>1
  <2> QED BY <1>2, <2>1, <2>2, <2>3 DEF TypeOK
<1>5. WriterOK /\ ReaderOK BY <1>1 DEF WriterOK, ReaderOK, Writing
<1> QED BY <1>4, <1>5 DEF TypeInv

\* Every step of either program keeps the types.
LEMMA TypeStep == TypeInv /\ [Next]_vars => TypeInv'
<1> SUFFICES ASSUME TypeInv, [Next]_vars PROVE TypeInv' OBVIOUS
<1>0. left \in Seq(Byte) /\ pipe \in Seq(Byte) /\ tmp \in Seq(Byte) BY ByteType DEF TypeInv
<1>1. ASSUME NEW m \in Messages, WriteMessage(m) PROVE TypeInv'
  <2>1. EncodedUint(Len(m)) \in Seq(Byte) BY MessagesSendable, FrameType
  <2>2. Append(sent, m) \in Seq(Messages) /\ Append(sent, m) # <<>>
    BY AppendProperties DEF TypeInv, TypeOK
  <2> QED BY <1>1, <2>1, <2>2
      DEF WriteMessage, TypeInv, TypeOK, WriterOK, ReaderOK, Writing, readerVars, Byte
<1>2. CASE Write
  <2>1. PICK k \in 0..Len(left) :
          /\ Len(pipe) + k <= PipeSize
          /\ pipe' = pipe \o SubSeq(left, 1, k)
          /\ WriteReturns(SubSeq(left, k + 1, Len(left)))
    BY <1>2 DEF Write
  <2>2. SubSeq(left, 1, k) \in Seq(Byte) /\ Len(SubSeq(left, 1, k)) = k
        /\ SubSeq(left, k + 1, Len(left)) \in Seq(Byte)
    BY <1>0, SplitAt
  <2>3. pipe' \in Seq(Byte) /\ Len(pipe') = Len(pipe) + k BY <1>0, <2>1, <2>2, ConcatProperties
  <2>4. Writing /\ UNCHANGED <<sent, readerVars>> BY <1>2 DEF Write
  <2>5. wpc' \in {"prefix", "body", "idle"} /\ left' \in Seq(Byte) /\ WriterOK'
    BY <2>1, <2>2, <2>4, WriteReturnsType
  <2> QED BY <2>1, <2>3, <2>4, <2>5 DEF TypeInv, TypeOK, ReaderOK, readerVars, Byte
<1>3. CASE WriteInterrupted
  <2>1. Writing /\ WriteReturns(<<>>) /\ broken' = TRUE /\ UNCHANGED <<sent, pipe, rpc, tmp, got, whole>>
    BY <1>3 DEF WriteInterrupted
  <2>2. <<>> \in Seq(Byte) BY EmptySeq
  <2>3. wpc' \in {"prefix", "body", "idle"} /\ left' \in Seq(Byte) /\ WriterOK'
    BY <2>1, <2>2, WriteReturnsType
  <2> QED BY <2>1, <2>3 DEF TypeInv, TypeOK, ReaderOK, Byte
<1>4. CASE WriteFails
  BY <1>4, EmptySeq DEF WriteFails, TypeInv, TypeOK, WriterOK, ReaderOK, Writing, readerVars
<1>5. CASE CloseWriter
  BY <1>5 DEF CloseWriter, TypeInv, TypeOK, WriterOK, ReaderOK, Writing, readerVars
<1>6. CASE Die
  BY <1>6, EmptySeq DEF Die, TypeInv, TypeOK, WriterOK, ReaderOK, Writing, readerVars
<1>7. CASE ReadFirst
  <2>0. rpc = "first" /\ UNCHANGED <<wpc, left, sent, got, whole>> BY <1>7 DEF ReadFirst, writerVars
  <2>1. CASE pipe = <<>>
    <3>1. rpc' = "closed" /\ UNCHANGED <<tmp, broken, pipe>> BY <1>7, <2>1 DEF ReadFirst
    <3> QED BY <2>0, <3>1 DEF TypeInv, TypeOK, WriterOK, ReaderOK, Writing
  <2>2. CASE pipe # <<>>
    <3>1. /\ Len(pipe) \in Nat \ {0} /\ 1 \in 0..Len(pipe)
          /\ Head(pipe) \in Byte /\ <<Head(pipe)>> \in Seq(Byte)
          /\ NumFollowing(Head(pipe)) \in Nat
      BY <2>2, FirstByte DEF TypeInv
    <3>2. pipe' = SubSeq(pipe, 1 + 1, Len(pipe)) BY <1>7, <2>2 DEF ReadFirst, TakeOut
    <3>3. pipe' \in Seq(Byte) /\ Len(pipe') = Len(pipe) - 1 BY <1>0, <3>1, <3>2, SplitAt
    <3>4. tmp' \in Seq(Byte) /\ rpc' \in {"rest", "body", "closed"} /\ broken' \in BOOLEAN /\ ReaderOK'
      <4>1. Len(<<Head(pipe)>>) = 1 /\ <<Head(pipe)>>[1] = Head(pipe) OBVIOUS
      <4>2. CASE NumFollowing(Head(pipe)) = 0
        <5>1. Accept(<<Head(pipe)>>) BY <1>7, <2>2, <4>2 DEF ReadFirst
        <5>2. Complete(<<Head(pipe)>>) /\ Len(<<Head(pipe)>>) = Consumed(<<Head(pipe)>>)
          BY <4>1, <4>2 DEF Complete, Consumed
        <5>3. broken \in BOOLEAN BY DEF TypeInv, TypeOK
        <5> QED BY <3>1, <5>1, <5>2, <5>3, AcceptType
      <4>3. CASE NumFollowing(Head(pipe)) # 0
        <5>1. tmp' = <<Head(pipe)>> /\ rpc' = "rest" /\ broken' = broken
          BY <1>7, <2>2, <4>3 DEF ReadFirst
        <5> QED BY <3>1, <4>1, <4>3, <5>1 DEF ReaderOK, TypeInv, TypeOK
      <4> QED BY <4>2, <4>3
    <3> QED BY <2>0, <3>1, <3>3, <3>4, ChannelAssumption DEF TypeInv, TypeOK, WriterOK, Writing, Byte
  <2> QED BY <2>1, <2>2
<1>8. CASE ReadRest
  <2> DEFINE nc == NumFollowing(tmp[1])
  <2> DEFINE k == Available(nc)
  <2>0. rpc = "rest" /\ UNCHANGED <<wpc, left, sent, got, whole>> BY <1>8 DEF ReadRest, writerVars
  <2>1. nc \in Nat \ {0} BY <2>0 DEF TypeInv, ReaderOK
  <2>2. k \in 0..Len(pipe) BY <2>1, AvailableIs DEF TypeInv
  <2>3. pipe' = SubSeq(pipe, k + 1, Len(pipe)) BY <1>8 DEF ReadRest, TakeOut
  <2>4. pipe' \in Seq(Byte) /\ Len(pipe') = Len(pipe) - k
    <3> HIDE DEF k
    <3> QED BY <1>0, <2>2, <2>3, SplitAt
  <2>5. tmp' \in Seq(Byte) /\ rpc' \in {"body", "closed"} /\ broken' \in BOOLEAN /\ ReaderOK'
    <3>1. CASE k < nc
      <4>1. rpc' = "closed" /\ broken' = TRUE /\ tmp' = tmp BY <1>8, <3>1 DEF ReadRest
      <4> QED BY <1>0, <4>1 DEF ReaderOK
    <3>2. CASE ~ (k < nc)
      <4>1. Accept(tmp \o SubSeq(pipe, 1, k)) BY <1>8, <3>2 DEF ReadRest
      <4>2. nc <= k /\ broken \in BOOLEAN /\ Len(pipe) \in Nat
        <5>1. Len(pipe) \in Nat BY <1>0, LenProperties
        <5> QED BY <2>1, <2>2, <3>2, <5>1 DEF TypeInv, TypeOK
      <4>3. /\ tmp \o SubSeq(pipe, 1, k) \in Seq(Byte) /\ Complete(tmp \o SubSeq(pipe, 1, k))
            /\ Len(tmp \o SubSeq(pipe, 1, k)) = Consumed(tmp \o SubSeq(pipe, 1, k))
        BY <2>0, <4>2, WholePrefix
      <4> HIDE DEF k, nc
      <4> QED BY <4>1, <4>2, <4>3, AcceptType
    <3> QED BY <3>1, <3>2
  <2>6. Len(pipe') <= PipeSize
    <3>1. Len(pipe) \in Nat BY <1>0, LenProperties
    <3> HIDE DEF k
    <3> QED BY <2>2, <2>4, <3>1, ChannelAssumption DEF TypeInv, TypeOK
  <2> QED BY <2>0, <2>4, <2>5, <2>6 DEF TypeInv, TypeOK, WriterOK, Writing, Byte
<1>9. CASE ReadBody
  <2> DEFINE n == DecodedUint(tmp)
  <2> DEFINE k == Available(n)
  <2> DEFINE result == n + IF Len(tmp) = 1 THEN 0 ELSE Len(tmp)
  <2> DEFINE item == [count |-> n, bytes |-> SubSeq(pipe, 1, k)]
  <2>0. rpc = "body" /\ UNCHANGED <<wpc, left, sent>> BY <1>9 DEF ReadBody, writerVars
  <2>1. n \in Nat /\ Len(tmp) \in Nat \ {0} BY <2>0, BodyLength
  <2>2. k \in 0..Len(pipe) BY <2>1, AvailableIs DEF TypeInv
  <2>3. /\ pipe' = SubSeq(pipe, k + 1, Len(pipe)) /\ got' = Append(got, item)
        /\ broken' = (broken \/ k < n \/ result = 0)
        /\ whole' = IF broken' THEN whole ELSE whole + 1
        /\ rpc' = NextCall(result) /\ tmp' = <<>>
    BY <1>9 DEF ReadBody, TakeOut
  <2> HIDE DEF n, k, result
  <2>4. /\ pipe' \in Seq(Byte) /\ Len(pipe') = Len(pipe) - k
        /\ SubSeq(pipe, 1, k) \in Seq(Byte)
    BY <1>0, <2>2, <2>3, SplitAt
  <2>5. Len(pipe') <= PipeSize
    <3>1. Len(pipe) \in Nat BY <1>0, LenProperties
    <3> QED BY <2>2, <2>4, <3>1, ChannelAssumption DEF TypeInv, TypeOK
  <2>6. got' \in Seq([count : Nat, bytes : Seq(Byte)]) /\ Len(got') = Len(got) + 1
    <3>1. item \in [count : Nat, bytes : Seq(Byte)] BY <2>1, <2>4
    <3>2. got \in Seq([count : Nat, bytes : Seq(Byte)]) BY DEF TypeInv, TypeOK, Byte
    <3> HIDE DEF item
    <3> QED BY <2>3, <3>1, <3>2, AppendProperties
  <2>7. whole' \in 0..Len(got') /\ broken' \in BOOLEAN
    <3>1. Len(got) \in Nat BY LenProperties DEF TypeInv, TypeOK
    <3>2. whole \in 0..Len(got) /\ broken \in BOOLEAN BY DEF TypeInv, TypeOK
    <3> QED BY <2>3, <2>6, <3>1, <3>2
  <2>8. rpc' \in {"first", "closed"} /\ ReaderOK' BY <2>3 DEF NextCall, ReaderOK
  <2>9. tmp' \in Seq(Byte) BY <2>3, EmptySeq
  <2> QED BY <2>0, <2>4, <2>5, <2>6, <2>7, <2>8, <2>9 DEF TypeInv, TypeOK, WriterOK, Writing, Byte
<1>10. CASE UNCHANGED vars
  BY <1>10 DEF vars, writerVars, readerVars, TypeInv, TypeOK, WriterOK, ReaderOK, Writing
<1> QED BY <1>1, <1>2, <1>3, <1>4, <1>5, <1>6, <1>7, <1>8, <1>9, <1>10 DEF Next, Reader

\* Every variable of the channel keeps its type: what is written, in the pipe or taken for a
\* prefix are bytes, the pipe is never overfull, and the length readm works with is a number,
\* also when it is made of bytes that are no prefix (glme_buf_writem and glme_buf_readm).
THEOREM TypeCorrect == Spec => []TypeOK
<1>1. Spec => []TypeInv BY TypeInit, TypeStep, PTL DEF Spec
<1>2. TypeInv => TypeOK BY DEF TypeInv
<1> QED BY <1>1, <1>2, PTL

\* The bytes held and found by the reader, followed by rest, are the frames of the messages
\* not yet read; and rest is what is still to be written, or, when the writer has died in a
\* write, what will never be.
InStepWith(rest) ==
  /\ rest \in Seq(Byte)
  /\ (tmp \o pipe) \o rest = Stream(Pending)
  /\ wpc # "died" => rest = Unwritten
  /\ wpc = "died" /\ Last(sent) # <<>> => rest # <<>>

\* The counters of the history, and how the two ends finish.
CountsOK ==
  /\ whole <= Len(Completed)
  /\ ~ broken => whole = Len(got) /\ wpc # "failed"
  /\ ~ broken /\ rpc = "closed" => WriterEnded /\ pipe = <<>> /\ tmp = <<>>

\* The inductive invariant: as long as nothing went wrong the reader is in step.
SyncInv == CountsOK /\ (~ broken => \E rest : InStepWith(rest))

\* The messages written to the last byte are among those sent.
LEMMA CompletedType ==
  ASSUME TypeInv
  PROVE  /\ Completed \in Seq(Messages) /\ Completed \in Seq(Sendable)
         /\ Len(Completed) \in Nat /\ Len(sent) \in Nat /\ Len(Completed) <= Len(sent)
         /\ whole \in Nat
<1>1. sent \in Seq(Messages) /\ Len(sent) \in Nat BY LenProperties DEF TypeInv, TypeOK
<1>2. Len(got) \in Nat /\ whole \in Nat
  <2>1. Len(got) \in Nat BY LenProperties DEF TypeInv, TypeOK
  <2> QED BY <2>1 DEF TypeInv, TypeOK
<1>3. CASE wpc \in {"idle", "closed"}
  BY <1>1, <1>2, <1>3, MessagesSendable DEF Completed, TypeInv
<1>4. CASE wpc \notin {"idle", "closed"}
  <2>1. sent # <<>> BY <1>4 DEF TypeInv, WriterOK
  <2>2. Front(sent) \in Seq(Messages) /\ Len(Front(sent)) = Len(sent) - 1
        /\ Len(sent) \in Nat \ {0}
    BY <2>1, LastSent DEF TypeInv
  <2>3. Front(sent) \in Seq(Sendable) BY <2>2, MessagesSendable, SeqMonotonic
  <2>4. Completed = Front(sent) BY <1>4 DEF Completed
  <2> QED BY <1>1, <1>2, <2>2, <2>3, <2>4
<1> QED BY <1>3, <1>4

\* The messages not yet read are messages that can be sent.
LEMMA PendingType ==
  ASSUME TypeInv, whole <= Len(sent)
  PROVE  Pending \in Seq(Sendable) /\ whole \in 0..Len(sent)
<1>1. whole \in 0..Len(sent) BY CompletedType
<1>2. sent \in Seq(Sendable) BY MessagesSendable DEF TypeInv
<1> QED BY <1>1, <1>2, SplitAt DEF Pending

\* Where the reader waits for a body, its prefix is that of the next message and what it will
\* find is that message and the frames of the others.
LEMMA BodyInStream ==
  ASSUME TypeInv, CountsOK, ~ broken, rpc = "body", NEW rest, InStepWith(rest)
  PROVE  /\ whole < Len(sent)
         /\ sent[whole + 1] \in Sendable
         /\ DecodedUint(tmp) = Len(sent[whole + 1])
         /\ tmp = EncodedUint(Len(sent[whole + 1]))
         /\ pipe \o rest = sent[whole + 1] \o Stream(SubSeq(sent, (whole + 1) + 1, Len(sent)))
         /\ SubSeq(sent, (whole + 1) + 1, Len(sent)) \in Seq(Sendable)
<1>1. /\ sent \in Seq(Sendable) /\ pipe \in Seq(Byte) /\ tmp \in Seq(Byte)
  BY MessagesSendable, ByteType DEF TypeInv
<1>2. rest \in Seq(Byte) /\ (tmp \o pipe) \o rest = Stream(Pending) BY DEF InStepWith
<1>3. whole \in Nat /\ Len(sent) \in Nat /\ whole <= Len(sent)
  BY CompletedType DEF CountsOK
<1>4. Pending \in Seq(Sendable) BY <1>3, PendingType
<1>5. pipe \o rest \in Seq(Byte) BY <1>1, <1>2, ConcatProperties
<1>6. tmp \o (pipe \o rest) = Stream(Pending)
  <2>1. Associates(tmp, pipe, rest) BY <1>1, <1>2, Associative
  <2> QED BY <1>2, <2>1 DEF Associates
<1>7. Complete(tmp) /\ Len(tmp) = Consumed(tmp) BY DEF TypeInv, ReaderOK
<1> DEFINE coming == pipe \o rest
<1>8. /\ Pending # <<>> /\ Head(Pending) \in Sendable /\ Tail(Pending) \in Seq(Sendable)
      /\ tmp = EncodedUint(Len(Head(Pending)))
      /\ DecodedUint(tmp) = Len(Head(Pending))
      /\ coming = Head(Pending) \o Stream(Tail(Pending))
  <2> HIDE DEF coming
  <2>1. coming \in Seq(Byte) /\ tmp \o coming = Stream(Pending) BY <1>5, <1>6 DEF coming
  <2> QED BY <1>1, <1>4, <1>7, <2>1, PrefixOfStream
<1>9. whole < Len(sent)
  <2> SUFFICES ASSUME ~ (whole < Len(sent)) PROVE FALSE OBVIOUS
  <2>1. whole = Len(sent) BY <1>3
  <2> QED BY <1>1, <1>8, <2>1, AfterAll DEF Pending
<1>10. /\ Head(Pending) = sent[whole + 1]
       /\ Tail(Pending) = SubSeq(sent, (whole + 1) + 1, Len(sent))
  BY <1>1, <1>3, <1>9, AfterHeadTail DEF Pending
<1> QED BY <1>8, <1>9, <1>10

\* The two programs start in step.
LEMMA SyncInit == Init => SyncInv
<1> SUFFICES ASSUME Init PROVE SyncInv OBVIOUS
<1>1. /\ wpc = "idle" /\ left = <<>> /\ sent = <<>> /\ pipe = <<>> /\ rpc = "first"
      /\ tmp = <<>> /\ got = <<>> /\ whole = 0 /\ broken = FALSE
  BY DEF Init
<1>2. Len(<<>>) = 0 OBVIOUS
<1>3. CountsOK BY <1>1, <1>2 DEF CountsOK, Completed
<1>4. InStepWith(<<>>)
  <2>1. <<>> \in Seq(Byte) BY EmptySeq
  <2>2. <<>> \o <<>> = <<>> BY <2>1, ConcatEmptySeq
  <2>3. Pending = <<>>
    <3>1. sent \in Seq(Messages) /\ whole = Len(sent) BY <1>1, EmptySeq
    <3> QED BY <3>1, AfterAll DEF Pending
  <2>4. Stream(Pending) = <<>> BY <2>3, StreamEmpty
  <2>5. (tmp \o pipe) \o <<>> = Stream(Pending) BY <1>1, <2>2, <2>4
  <2>6. Unwritten = <<>> BY <1>1, <2>2 DEF Unwritten
  <2> QED BY <1>1, <2>1, <2>5, <2>6 DEF InStepWith
<1> QED BY <1>3, <1>4 DEF SyncInv

\* The last byte of a message is written.
MessagePut ==
  /\ sent # <<>> /\ Completed' = Append(Completed, Last(sent))
  /\ UNCHANGED <<got, whole>>

\* A write that returns completes the message at hand or none.
LEMMA ReturnCompletes ==
  ASSUME TypeInv, Writing, NEW rest, WriteReturns(rest), UNCHANGED <<sent, got, whole>>
  PROVE  Completed' = Completed \/ MessagePut
<1>1. sent # <<>> BY DEF TypeInv, WriterOK, Writing
<1>2. Completed = Front(sent) BY DEF Completed, Writing
<1>3. CASE wpc' \in {"prefix", "body"} BY <1>2, <1>3 DEF Completed
<1>4. CASE wpc' = "idle"
  <2>1. Completed' = sent BY <1>4 DEF Completed
  <2>2. sent = Append(Front(sent), Last(sent)) BY <1>1, LastSent DEF TypeInv
  <2> QED BY <1>1, <1>2, <2>1, <2>2 DEF MessagePut
<1>5. wpc' \in {"prefix", "body", "idle"} BY DEF WriteReturns, Writing
<1> QED BY <1>3, <1>4, <1>5

\* The completed messages grow by the one at hand, or stay as they are.
LEMMA CompletedStep ==
  ASSUME TypeInv, [Next]_vars
  PROVE  Completed' = Completed \/ MessagePut
<1>1. ASSUME NEW m \in Messages, WriteMessage(m) PROVE Completed' = Completed
  <2>1. sent' = Append(sent, m) /\ wpc = "idle" /\ wpc' = "prefix" BY <1>1 DEF WriteMessage
  <2>2. sent \in Seq(Messages) BY DEF TypeInv, TypeOK
  <2>3. Front(sent') = sent BY <2>1, <2>2, AppendFrontLast
  <2> QED BY <2>1, <2>3 DEF Completed
<1>2. CASE Write
  <2>1. PICK rest : WriteReturns(rest) BY <1>2 DEF Write
  <2>2. Writing /\ UNCHANGED <<sent, got, whole>> BY <1>2 DEF Write, readerVars
  <2> QED BY <2>1, <2>2, ReturnCompletes
<1>3. CASE WriteInterrupted
  <2>1. Writing /\ WriteReturns(<<>>) /\ UNCHANGED <<sent, got, whole>>
    BY <1>3 DEF WriteInterrupted
  <2> QED BY <2>1, ReturnCompletes
<1>4. CASE WriteFails BY <1>4 DEF WriteFails, Completed, Writing
<1>5. CASE CloseWriter BY <1>5 DEF CloseWriter, Completed
<1>6. CASE Die BY <1>6 DEF Die, Completed, Writing
<1>7. CASE Reader
  BY <1>7 DEF Reader, ReadFirst, ReadRest, ReadBody, writerVars, Completed
<1>8. CASE UNCHANGED vars BY <1>8 DEF vars, writerVars, Completed
<1> QED BY <1>1, <1>2, <1>3, <1>4, <1>5, <1>6, <1>7, <1>8 DEF Next

\* They never become fewer.
LEMMA CompletedGrows ==
  ASSUME TypeInv, [Next]_vars
  PROVE  Len(Completed) \in Nat /\ Len(Completed') \in Nat /\ Len(Completed) <= Len(Completed')
<1>1. Completed \in Seq(Messages) /\ Len(Completed) \in Nat BY CompletedType
<1>2. CASE Completed' = Completed BY <1>1, <1>2
<1>3. CASE MessagePut
  <2>1. Last(sent) \in Messages BY <1>3, LastSent DEF MessagePut, TypeInv
  <2>2. Len(Append(Completed, Last(sent))) = Len(Completed) + 1 BY <1>1, <2>1, AppendProperties
  <2> QED BY <1>1, <1>3, <2>2 DEF MessagePut
<1> QED BY <1>2, <1>3, CompletedStep

\* The bytes the reader holds or will find: moving some from the pipe to it changes nothing.
LEMMA SameStream ==
  ASSUME NEW rest, InStepWith(rest), tmp' \o pipe' = tmp \o pipe, UNCHANGED <<wpc, left, sent, whole>>
  PROVE  InStepWith(rest)'
BY DEF InStepWith, Pending, Unwritten

\* A body that is read without anything going wrong is the next message, to the last byte, and
\* the reader goes on behind it (glme_buf_readm).
LEMMA BodyRead ==
  ASSUME TypeInv, SyncInv, ReadBody, ~ broken'
  PROVE  /\ ~ broken /\ whole < Len(Completed) /\ whole < Len(sent)
         /\ sent[whole + 1] = Completed[whole + 1]
         /\ whole' = whole + 1 /\ tmp' = <<>> /\ rpc' = "first"
         /\ got' = Append(got, [count |-> Len(sent[whole + 1]), bytes |-> sent[whole + 1]])
         /\ \E rest : /\ InStepWith(rest)
                       /\ pipe' \o rest = Stream(SubSeq(sent, (whole + 1) + 1, Len(sent)))
<1> DEFINE m == sent[whole + 1]
<1> DEFINE t == SubSeq(sent, (whole + 1) + 1, Len(sent))
<1> DEFINE n == DecodedUint(tmp)
<1> DEFINE k == Available(n)
<1> DEFINE result == n + IF Len(tmp) = 1 THEN 0 ELSE Len(tmp)
<1>1. /\ rpc = "body" /\ pipe' = SubSeq(pipe, k + 1, Len(pipe))
      /\ got' = Append(got, [count |-> n, bytes |-> SubSeq(pipe, 1, k)])
      /\ ~ broken /\ ~ (k < n) /\ result # 0
      /\ whole' = whole + 1 /\ rpc' = NextCall(result) /\ tmp' = <<>>
  BY DEF ReadBody, TakeOut
<1>2. PICK rest : InStepWith(rest) BY <1>1 DEF SyncInv
<1>3. /\ whole < Len(sent) /\ m \in Sendable /\ n = Len(m)
      /\ tmp = EncodedUint(Len(m)) /\ pipe \o rest = m \o Stream(t)
      /\ t \in Seq(Sendable)
  BY <1>1, <1>2, BodyInStream DEF SyncInv
<1>4. rest \in Seq(Byte) BY <1>2 DEF InStepWith
<1>5. m \in Seq(Byte) /\ Stream(t) \in Seq(Byte) /\ n \in Nat
  BY <1>3, FrameType, StreamType
<1>6. k \in 0..Len(pipe) /\ k <= n /\ Len(pipe) \in Nat /\ pipe \in Seq(Byte)
  <2>1. Len(pipe) \in Nat /\ pipe \in Seq(Byte) BY ByteType, LenProperties DEF TypeInv
  <2> HIDE DEF n
  <2> QED BY <1>5, <2>1, AvailableIs DEF TypeInv
<1>7. k = Len(m) /\ Len(m) <= Len(pipe) BY <1>1, <1>3, <1>5, <1>6
<1>8. /\ SubSeq(pipe, 1, Len(m)) = m
      /\ SubSeq(pipe, Len(m) + 1, Len(pipe)) \o rest = Stream(t)
  <2> HIDE DEF t, m
  <2> QED BY <1>3, <1>4, <1>5, <1>6, <1>7, ConcatTaken
<1>9. got' = Append(got, [count |-> Len(m), bytes |-> m]) /\ pipe' \o rest = Stream(t)
  BY <1>1, <1>3, <1>7, <1>8
<1>10. rpc' = "first"
  <2>1. Len(tmp) \in Nat BY BodyLength, <1>1
  <2>2. result > 0 BY <1>1, <1>5, <2>1
  <2> QED BY <1>1, <2>2 DEF NextCall
<1>11. m # <<>>
  <2> SUFFICES ASSUME m = <<>> PROVE FALSE OBVIOUS
  <2>1. Len(m) = 0 /\ n = 0 BY <1>3
  <2>2. tmp = <<0>> BY <1>3, <2>1, GobAssumption DEF EncodedUint
  <2>3. Len(tmp) = 1 BY <2>2
  <2>4. result = 0 BY <2>1, <2>3
  <2> QED BY <1>1, <2>4
<1>12. Len(sent) \in Nat /\ whole \in Nat /\ sent \in Seq(Messages)
  BY CompletedType DEF TypeInv, TypeOK
<1>13. CASE wpc \in {"idle", "closed"}
  <2>1. Completed = sent BY <1>13 DEF Completed
  <2> QED BY <1>1, <1>2, <1>3, <1>9, <1>10, <2>1
<1>14. CASE wpc \notin {"idle", "closed"}
  <2>1. sent # <<>> BY <1>14 DEF TypeInv, WriterOK
  <2>2. Completed = Front(sent) /\ Len(Completed) = Len(sent) - 1
        /\ Last(sent) \in Seq(Byte)
    BY <1>14, <2>1, LastSent DEF Completed, TypeInv
  <2>3. whole + 1 # Len(sent)
    <3> SUFFICES ASSUME whole + 1 = Len(sent) PROVE FALSE OBVIOUS
    <3>1. m = Last(sent) BY DEF Last
    <3>2. t = <<>> BY <1>12, AfterAll
    <3>3. pipe' \o rest = <<>> BY <1>9, <3>2, StreamEmpty
    <3>4. rest = <<>>
      <4>1. pipe' \in Seq(Byte) BY <1>1, <1>6, SplitAt
      <4> QED BY <1>4, <3>3, <4>1, ConcatEqualIffEmpty
    <3>5. wpc \in {"prefix", "body", "died"}
      BY <1>1, <1>14 DEF TypeInv, TypeOK, SyncInv, CountsOK
    <3>6. CASE wpc = "died" BY <1>2, <1>11, <3>1, <3>4, <3>6 DEF InStepWith
    <3>7. CASE wpc = "prefix"
      <4>1. left \o Last(sent) = <<>> BY <1>2, <3>4, <3>7 DEF InStepWith, Unwritten
      <4>2. left \in Seq(Byte) BY ByteType DEF TypeInv
      <4>3. Last(sent) = <<>> BY <2>2, <4>1, <4>2, ConcatEqualIffEmpty
      <4> QED BY <1>11, <3>1, <4>3
    <3>8. CASE wpc = "body"
      <4>1. left \o <<>> = <<>> BY <1>2, <3>4, <3>8 DEF InStepWith, Unwritten
      <4>2. left \in Seq(Byte) BY ByteType DEF TypeInv
      <4>3. left = <<>> BY <4>1, <4>2, ConcatEmptySeq
      <4>4. Last(sent) = <<>> BY <3>8, <4>3 DEF TypeInv, WriterOK
      <4> QED BY <1>11, <3>1, <4>4
    <3> QED BY <3>5, <3>6, <3>7, <3>8
  <2>4. whole < Len(Completed) BY <1>3, <1>12, <2>2, <2>3
  <2>5. m = Completed[whole + 1]
    <3>1. Len(sent) - 1 \in 0..Len(sent) /\ whole + 1 \in 1..(Len(sent) - 1)
      BY <1>12, <2>2, <2>4
    <3> QED BY <1>12, <2>2, <3>1, ElementOfSplit DEF Front
  <2> QED BY <1>1, <1>2, <1>3, <1>9, <1>10, <2>4, <2>5
<1> QED BY <1>13, <1>14

\* Every step keeps the counters and the ends.
LEMMA CountsStep ==
  ASSUME TypeInv, TypeInv', SyncInv, [Next]_vars
  PROVE  CountsOK'
<1>1. Len(Completed) \in Nat /\ Len(Completed') \in Nat /\ Len(Completed) <= Len(Completed')
  BY CompletedGrows
<1>2. whole \in Nat /\ whole <= Len(Completed) BY CompletedType DEF SyncInv, CountsOK
<1>3. Len(got) \in Nat /\ got \in Seq([count : Nat, bytes : Seq(Byte)])
  BY LenProperties DEF TypeInv, TypeOK, Byte
<1>4. ~ broken => /\ whole = Len(got) /\ wpc # "failed"
                  /\ rpc = "closed" => WriterEnded /\ pipe = <<>> /\ tmp = <<>>
  BY DEF SyncInv, CountsOK
<1>5. ASSUME NEW m \in Messages, WriteMessage(m) PROVE CountsOK'
  <2>1. UNCHANGED <<got, whole, broken, rpc>> /\ wpc = "idle" /\ wpc' = "prefix"
    BY <1>5 DEF WriteMessage, readerVars
  <2>2. whole <= Len(Completed') BY <1>1, <1>2
  <2> QED BY <1>4, <2>1, <2>2 DEF CountsOK, WriterEnded
<1>6. CASE Write
  <2>1. UNCHANGED <<got, whole, broken, rpc>> /\ wpc \in {"prefix", "body"}
        /\ wpc' \in {"prefix", "body", "idle"}
    BY <1>6 DEF Write, WriteReturns, readerVars, Writing
  <2>2. whole <= Len(Completed') BY <1>1, <1>2
  <2> QED BY <1>4, <2>1, <2>2 DEF CountsOK, WriterEnded
<1>7. CASE WriteInterrupted
  <2>1. whole' <= Len(Completed') BY <1>1, <1>2, <1>7 DEF WriteInterrupted
  <2> QED BY <1>7, <2>1 DEF CountsOK, WriteInterrupted
<1>8. CASE WriteFails
  <2>1. UNCHANGED <<got, whole, broken, rpc>> /\ wpc \in {"prefix", "body"} /\ rpc = "closed"
    BY <1>8 DEF WriteFails, readerVars, Writing
  <2>2. whole <= Len(Completed') BY <1>1, <1>2
  <2>3. broken BY <1>4, <2>1 DEF WriterEnded
  <2> QED BY <2>1, <2>2, <2>3 DEF CountsOK
<1>9. CASE CloseWriter
  <2>1. UNCHANGED <<got, whole, broken, rpc, pipe, tmp>> /\ wpc' = "closed"
    BY <1>9 DEF CloseWriter, readerVars
  <2>2. whole <= Len(Completed') BY <1>1, <1>2
  <2> QED BY <1>4, <2>1, <2>2 DEF CountsOK, WriterEnded
<1>10. CASE Die
  <2>1. UNCHANGED <<got, whole, broken, rpc, pipe, tmp>> /\ wpc' = "died"
    BY <1>10 DEF Die, readerVars
  <2>2. whole <= Len(Completed') BY <1>1, <1>2
  <2> QED BY <1>4, <2>1, <2>2 DEF CountsOK, WriterEnded
<1>11. CASE ReadFirst
  <2>1. UNCHANGED <<wpc, got, whole>> /\ rpc = "first" BY <1>11 DEF ReadFirst, writerVars
  <2>2. whole' <= Len(Completed') BY <1>1, <1>2, <2>1
  <2>3. CASE pipe = <<>>
    <3>1. UNCHANGED <<tmp, broken, pipe>> /\ WriterEnded
      BY <1>11, <2>3 DEF ReadFirst, ReadReturns
    <3>2. tmp = <<>> BY <2>1 DEF TypeInv, ReaderOK
    <3> QED BY <1>4, <2>1, <2>2, <2>3, <3>1, <3>2 DEF CountsOK, WriterEnded
  <2>4. CASE pipe # <<>>
    <3>1. ~ broken' => ~ broken /\ rpc' # "closed" BY <1>11, <2>4 DEF ReadFirst, Accept
    <3> QED BY <1>4, <2>1, <2>2, <3>1 DEF CountsOK
  <2> QED BY <2>3, <2>4
<1>12. CASE ReadRest
  <2>1. UNCHANGED <<wpc, got, whole>> BY <1>12 DEF ReadRest, writerVars
  <2>2. whole' <= Len(Completed') BY <1>1, <1>2, <2>1
  <2>3. ~ broken' => ~ broken /\ rpc' # "closed" BY <1>12 DEF ReadRest, Accept
  <2> QED BY <1>4, <2>1, <2>2, <2>3 DEF CountsOK
<1>13. CASE ReadBody
  <2>1. UNCHANGED <<wpc, left, sent>> BY <1>13 DEF ReadBody, writerVars
  <2>2. Completed' = Completed BY <2>1 DEF Completed
  <2>3. CASE broken'
    <3>1. whole' = whole BY <1>13, <2>3 DEF ReadBody
    <3> QED BY <1>2, <2>2, <2>3, <3>1 DEF CountsOK
  <2>4. CASE ~ broken'
    <3>1. /\ ~ broken /\ whole < Len(Completed) /\ whole' = whole + 1 /\ rpc' = "first"
      BY <1>13, <2>4, BodyRead
    <3>2. Len(got') = Len(got) + 1
      <4>1. PICK item : item \in [count : Nat, bytes : Seq(Byte)] /\ got' = Append(got, item)
        <5>1. /\ got' = Append(got, [count |-> Len(sent[whole + 1]), bytes |-> sent[whole + 1]])
              /\ whole < Len(sent)
          BY <1>13, <2>4, BodyRead
        <5>2. sent[whole + 1] \in Sendable
          <6>1. sent \in Seq(Sendable) BY MessagesSendable DEF TypeInv
          <6> QED BY <1>2, <5>1, <6>1, AfterHeadTail
        <5> QED BY <5>1, <5>2, FrameType
      <4> QED BY <1>3, <4>1, AppendProperties
    <3> QED BY <1>1, <1>2, <1>4, <2>1, <2>2, <3>1, <3>2 DEF CountsOK
  <2> QED BY <2>3, <2>4
<1>14. CASE UNCHANGED vars
  BY <1>1, <1>2, <1>4, <1>14 DEF vars, writerVars, readerVars, CountsOK, WriterEnded
<1> QED BY <1>5, <1>6, <1>7, <1>8, <1>9, <1>10, <1>11, <1>12, <1>13, <1>14 DEF Next, Reader

\* Every step after which nothing is wrong keeps the reader in step.
LEMMA StreamStep ==
  ASSUME TypeInv, TypeInv', SyncInv, [Next]_vars, ~ broken'
  PROVE  \E rest : InStepWith(rest)'
<1>1. ~ broken
  BY DEF Next, Reader, WriteMessage, Write, WriteInterrupted, WriteFails, CloseWriter, Die,
         ReadFirst, ReadRest, ReadBody, Accept, vars, writerVars, readerVars
<1>2. PICK rest : InStepWith(rest) BY <1>1 DEF SyncInv
<1>3. /\ rest \in Seq(Byte) /\ (tmp \o pipe) \o rest = Stream(Pending)
      /\ wpc # "died" => rest = Unwritten
      /\ wpc = "died" /\ Last(sent) # <<>> => rest # <<>>
  BY <1>2 DEF InStepWith
<1>4. left \in Seq(Byte) /\ pipe \in Seq(Byte) /\ tmp \in Seq(Byte) /\ tmp \o pipe \in Seq(Byte)
  BY ByteType, ConcatProperties DEF TypeInv
<1>5. whole \in 0..Len(sent) /\ Pending \in Seq(Sendable) /\ sent \in Seq(Sendable)
  <2>1. whole <= Len(sent) BY CompletedType DEF SyncInv, CountsOK
  <2> QED BY <2>1, PendingType, MessagesSendable DEF TypeInv
<1>6. ASSUME NEW m \in Messages, WriteMessage(m) PROVE InStepWith(Frame(m))'
  <2>1. /\ wpc = "idle" /\ wpc' = "prefix" /\ left' = EncodedUint(Len(m))
        /\ sent' = Append(sent, m) /\ UNCHANGED <<pipe, tmp, whole>>
    BY <1>6 DEF WriteMessage, readerVars
  <2>2. m \in Sendable /\ Frame(m) \in Seq(Byte) BY MessagesSendable, FrameType
  <2>3. rest = <<>>
    <3>1. left = <<>> BY <2>1 DEF TypeInv, WriterOK, Writing
    <3>2. <<>> \o <<>> = <<>> BY <1>4, <3>1, ConcatEmptySeq
    <3> QED BY <1>3, <2>1, <3>1, <3>2 DEF Unwritten
  <2>4. tmp \o pipe = Stream(Pending) BY <1>3, <1>4, <2>3, ConcatEmptySeq
  <2>5. Pending' = Append(Pending, m) BY <1>5, <2>1, <2>2, AfterAppend DEF Pending
  <2>6. Stream(Pending') = Stream(Pending) \o Frame(m) BY <1>5, <2>2, <2>5, StreamAppend
  <2>7. Last(sent') = m BY <1>5, <2>1, <2>2, AppendFrontLast
  <2>8. Unwritten' = Frame(m) BY <2>1, <2>7 DEF Unwritten, Frame
  <2> QED BY <2>1, <2>2, <2>4, <2>6, <2>8 DEF InStepWith
<1>7. CASE Write
  <2>1. PICK k \in 0..Len(left) :
          /\ pipe' = pipe \o SubSeq(left, 1, k)
          /\ WriteReturns(SubSeq(left, k + 1, Len(left)))
    BY <1>7 DEF Write
  <2>2. wpc \in {"prefix", "body"} /\ UNCHANGED <<sent, tmp, whole>>
    BY <1>7 DEF Write, readerVars, Writing
  <2> DEFINE x == SubSeq(left, 1, k)
  <2> DEFINE y == SubSeq(left, k + 1, Len(left))
  <2> DEFINE z == IF wpc = "prefix" THEN Last(sent) ELSE <<>>
  <2>3. x \in Seq(Byte) /\ y \in Seq(Byte) /\ x \o y = left BY <1>4, SplitAt
  <2>4. z \in Seq(Byte) /\ Last(sent) \in Seq(Byte)
    <3>1. sent # <<>> BY <2>2 DEF TypeInv, WriterOK
    <3>2. Last(sent) \in Seq(Byte) BY <3>1, LastSent DEF TypeInv
    <3> QED BY <3>2, EmptySeq
  <2>5. rest = left \o z BY <1>3, <2>2 DEF Unwritten
  <2>6. pipe' = pipe \o x /\ WriteReturns(y) BY <2>1
  <2>7. Unwritten' = y \o z
    <3>1. CASE y # <<>>
      <4>1. wpc' = wpc /\ left' = y BY <2>6, <3>1 DEF WriteReturns
      <4> QED BY <2>2, <4>1 DEF Unwritten
    <3>2. CASE y = <<>>
      <4> HIDE DEF y
      <4>1. y \o z = z BY <2>4, <3>2, ConcatEmptySeq
      <4>2. CASE wpc = "prefix"
        <5>1. wpc' = "body" /\ left' = Last(sent) BY <2>6, <3>2, <4>2 DEF WriteReturns
        <5>2. Unwritten' = Last(sent) \o <<>> BY <5>1 DEF Unwritten
        <5>3. Unwritten' = Last(sent) BY <2>4, <5>2, ConcatEmptySeq
        <5> QED BY <4>1, <4>2, <5>3
      <4>3. CASE wpc # "prefix"
        <5>1. wpc' = "idle" /\ left' = <<>> BY <2>6, <3>2, <4>3 DEF WriteReturns
        <5>2. Unwritten' = <<>> \o <<>> BY <5>1 DEF Unwritten
        <5>3. <<>> \o <<>> = <<>> BY <2>4, <4>3, ConcatEmptySeq
        <5> QED BY <4>1, <4>3, <5>2, <5>3
      <4> QED BY <4>2, <4>3
    <3> QED BY <3>1, <3>2
  <2>8. wpc' # "died" BY <2>2, <2>6 DEF WriteReturns
  <2> HIDE DEF x, y, z
  <2>9. y \o z \in Seq(Byte) BY <2>3, <2>4, ConcatProperties
  <2>10. (tmp \o pipe') \o (y \o z) = Stream(Pending)
    <3>1. Associates(tmp, pipe, x) /\ Associates(x, y, z)
      BY <1>4, <2>3, <2>4, Associative
    <3>2. Associates(tmp \o pipe, x, y \o z) BY <1>4, <2>3, <2>9, Associative
    <3>3. tmp \o pipe' = (tmp \o pipe) \o x BY <2>6, <3>1 DEF Associates
    <3>4. x \o (y \o z) = rest BY <2>3, <2>5, <3>1 DEF Associates
    <3>5. (tmp \o pipe') \o (y \o z) = (tmp \o pipe) \o (x \o (y \o z))
      BY <3>2, <3>3 DEF Associates
    <3> QED BY <1>3, <3>4, <3>5
  <2>11. Pending' = Pending /\ tmp' = tmp BY <2>2 DEF Pending
  <2>12. PICK r : r = y \o z OBVIOUS
  <2>13. InStepWith(r)' BY <2>7, <2>8, <2>9, <2>10, <2>11, <2>12 DEF InStepWith
  <2> QED BY <2>13
<1>8. CASE WriteInterrupted BY <1>8 DEF WriteInterrupted
<1>9. CASE WriteFails
  BY <1>1, <1>9 DEF WriteFails, SyncInv, CountsOK, WriterEnded, Writing
<1>10. CASE CloseWriter
  BY <1>3, <1>10 DEF CloseWriter, readerVars, InStepWith, Pending, Unwritten
<1>11. CASE Die
  <2>1. wpc \in {"prefix", "body"} /\ wpc' = "died" /\ UNCHANGED <<sent, pipe, tmp, whole>>
    BY <1>11 DEF Die, Writing, readerVars
  <2>2. Last(sent) # <<>> => rest # <<>>
    <3> SUFFICES ASSUME Last(sent) # <<>>, rest = <<>> PROVE FALSE OBVIOUS
    <3>1. sent # <<>> BY <2>1 DEF TypeInv, WriterOK
    <3>2. Last(sent) \in Seq(Byte) BY <3>1, LastSent DEF TypeInv
    <3>3. Unwritten = <<>> BY <1>3, <2>1
    <3>4. CASE wpc = "prefix"
      <4>1. left \o Last(sent) = <<>> BY <3>3, <3>4 DEF Unwritten
      <4> QED BY <1>4, <3>2, <4>1, ConcatEqualIffEmpty
    <3>5. CASE wpc = "body"
      <4>1. left \o <<>> = <<>> BY <3>3, <3>5 DEF Unwritten
      <4>2. left = <<>> BY <1>4, <4>1, ConcatEmptySeq
      <4> QED BY <3>5, <4>2 DEF TypeInv, WriterOK
    <3> QED BY <2>1, <3>4, <3>5
  <2> QED BY <1>3, <2>1, <2>2 DEF InStepWith, Pending
<1>12. CASE ReadFirst
  <2>1. rpc = "first" /\ UNCHANGED <<wpc, left, sent, whole>> BY <1>12 DEF ReadFirst, writerVars
  <2>2. CASE pipe = <<>>
    <3>1. UNCHANGED <<tmp, pipe>> BY <1>12, <2>2 DEF ReadFirst
    <3> QED BY <1>2, <2>1, <3>1, SameStream
  <2>3. CASE pipe # <<>>
    <3>1. tmp' = <<Head(pipe)>> /\ pipe' = SubSeq(pipe, 1 + 1, Len(pipe))
      BY <1>12, <2>3 DEF ReadFirst, Accept, TakeOut
    <3>2. 1 \in 0..Len(pipe) /\ SubSeq(pipe, 1, 1) = <<Head(pipe)>>
      BY <2>3, FirstByte DEF TypeInv
    <3>3. SubSeq(pipe, 1, 1) \o SubSeq(pipe, 1 + 1, Len(pipe)) = pipe BY <1>4, <3>2, SplitAt
    <3>4. tmp' \o pipe' = pipe BY <3>1, <3>2, <3>3
    <3>5. tmp = <<>> BY <2>1 DEF TypeInv, ReaderOK
    <3>6. tmp \o pipe = pipe BY <1>4, <3>5, ConcatEmptySeq
    <3> QED BY <1>2, <2>1, <3>4, <3>6, SameStream
  <2> QED BY <2>2, <2>3
<1>13. CASE ReadRest
  <2> DEFINE nc == NumFollowing(tmp[1])
  <2> DEFINE k == Available(nc)
  <2>1. rpc = "rest" /\ UNCHANGED <<wpc, left, sent, whole>> BY <1>13 DEF ReadRest, writerVars
  <2>2. tmp' = tmp \o SubSeq(pipe, 1, k) /\ pipe' = SubSeq(pipe, k + 1, Len(pipe))
    BY <1>13 DEF ReadRest, Accept, TakeOut
  <2>3. nc \in Nat BY <2>1 DEF TypeInv, ReaderOK
  <2>4. k \in 0..Len(pipe) BY <2>3, AvailableIs DEF TypeInv
  <2> HIDE DEF k
  <2> DEFINE x == SubSeq(pipe, 1, k)
  <2> DEFINE y == SubSeq(pipe, k + 1, Len(pipe))
  <2>5. x \in Seq(Byte) /\ y \in Seq(Byte) /\ x \o y = pipe BY <1>4, <2>4, SplitAt
  <2>6. tmp' = tmp \o x /\ pipe' = y BY <2>2
  <2> HIDE DEF x, y
  <2>7. tmp' \o pipe' = tmp \o pipe
    <3>1. Associates(tmp, x, y) BY <1>4, <2>5, Associative
    <3> QED BY <2>5, <2>6, <3>1 DEF Associates
  <2> QED BY <1>2, <2>1, <2>7, SameStream
<1>14. CASE ReadBody
  <2>1. UNCHANGED <<wpc, left, sent>> BY <1>14 DEF ReadBody, writerVars
  <2>2. PICK r : /\ InStepWith(r)
                 /\ pipe' \o r = Stream(SubSeq(sent, (whole + 1) + 1, Len(sent)))
    BY <1>14, BodyRead
  <2>3. whole' = whole + 1 /\ tmp' = <<>> BY <1>14, BodyRead
  <2>4. Pending' = SubSeq(sent, (whole + 1) + 1, Len(sent)) BY <2>1, <2>3 DEF Pending
  <2>5. tmp' \o pipe' = pipe'
    <3>1. pipe' \in Seq(Byte) BY DEF TypeInv, TypeOK, Byte
    <3> QED BY <2>3, <3>1, ConcatEmptySeq
  <2>6. (tmp' \o pipe') \o r = Stream(Pending') BY <2>2, <2>4, <2>5
  <2>7. r \in Seq(Byte) /\ (wpc' # "died" => r = Unwritten')
        /\ (wpc' = "died" /\ Last(sent') # <<>> => r # <<>>)
    BY <2>1, <2>2 DEF InStepWith, Unwritten
  <2>8. InStepWith(r)' BY <2>6, <2>7 DEF InStepWith
  <2> QED BY <2>8
<1>15. CASE UNCHANGED vars
  BY <1>2, <1>15, SameStream DEF vars, writerVars, readerVars
<1> QED BY <1>6, <1>7, <1>8, <1>9, <1>10, <1>11, <1>12, <1>13, <1>14, <1>15 DEF Next, Reader

\* Every step keeps the invariant.
LEMMA SyncStep == TypeInv /\ TypeInv' /\ SyncInv /\ [Next]_vars => SyncInv'
<1> SUFFICES ASSUME TypeInv, TypeInv', SyncInv, [Next]_vars PROVE SyncInv' OBVIOUS
<1>1. CountsOK' BY CountsStep
<1>2. ~ broken' => \E rest : InStepWith(rest)' BY StreamStep
<1> QED BY <1>1, <1>2 DEF SyncInv

\* So it holds in every state.
LEMMA SyncHolds == Spec => [](TypeInv /\ SyncInv)
<1>1. Init => TypeInv /\ SyncInv BY TypeInit, SyncInit
<1>2. (TypeInv /\ SyncInv) /\ [Next]_vars => (TypeInv /\ SyncInv)' BY TypeStep, SyncStep
<1> QED BY <1>1, <1>2, PTL DEF Spec

\* Until a write or a read is cut short, or a message is refused or empty, what the reader
\* holds, what is in the pipe and what is still to be written are the frames of the messages
\* not yet read; of a writer that has died, the first bytes of them (glme_buf_writem and
\* glme_buf_readm).
THEOREM StaysInStep == Spec => []InStep
<1>1. TypeInv /\ SyncInv => InStep
  <2> SUFFICES ASSUME TypeInv, SyncInv, ~ broken
               PROVE  IF wpc = "died" THEN IsPrefix(tmp \o pipe, Stream(Pending))
                      ELSE (tmp \o pipe) \o Unwritten = Stream(Pending)
    BY DEF InStep
  <2>1. PICK rest : InStepWith(rest) BY DEF SyncInv
  <2>2. tmp \o pipe \in Seq(Byte) BY ByteType, ConcatProperties DEF TypeInv
  <2>3. Stream(Pending) \in Seq(Byte)
    <3>1. whole <= Len(sent) BY CompletedType DEF SyncInv, CountsOK
    <3> QED BY <3>1, PendingType, StreamType
  <2>4. CASE wpc = "died"
    <3>1. IsPrefix(tmp \o pipe, Stream(Pending))
      BY <2>1, <2>2, <2>3, PrefixIs DEF InStepWith
    <3> QED BY <2>4, <3>1
  <2>5. CASE wpc # "died" BY <2>1, <2>5 DEF InStepWith
  <2> QED BY <2>4, <2>5
<1> QED BY <1>1, SyncHolds, PTL

\* What readm is about to hold of a prefix.
PrefixFits == ~ broken /\ tmp # <<>> => Consumed(tmp) <= MaxBytes + 1

\* As long as the reader is in step it never reads more bytes of a prefix than the longest
\* has, so that they fit into tmp (12 bytes, glme.c:143): the byte it takes for the first of a
\* prefix is one, and never one of the bytes -9 to -128 that announce more (glme.c:155-157).
THEOREM PrefixesFit == Spec => []PrefixFits
<1>1. TypeInv /\ SyncInv => PrefixFits
  <2> SUFFICES ASSUME TypeInv, SyncInv, ~ broken, tmp # <<>>
               PROVE  Consumed(tmp) <= MaxBytes + 1
    BY DEF PrefixFits
  <2>1. PICK rest : InStepWith(rest) BY DEF SyncInv
  <2>2. tmp \in Seq(Byte) /\ pipe \in Seq(Byte) /\ rest \in Seq(Byte)
    BY <2>1, ByteType DEF TypeInv, InStepWith
  <2> DEFINE coming == pipe \o rest
  <2>3. coming \in Seq(Byte) BY <2>2, ConcatProperties
  <2>4. tmp \o coming = Stream(Pending)
    <3>1. Associates(tmp, pipe, rest) BY <2>2, Associative
    <3> QED BY <2>1, <3>1 DEF Associates, InStepWith
  <2>5. Pending \in Seq(Sendable)
    <3>1. whole <= Len(sent) BY CompletedType DEF SyncInv, CountsOK
    <3> QED BY <3>1, PendingType
  <2> HIDE DEF coming
  <2>6. NumFollowing(tmp[1]) \in 0..MaxBytes BY <2>2, <2>3, <2>4, <2>5, FirstOfStream
  <2> QED BY <2>6, GobAssumption DEF Consumed
<1> QED BY <1>1, SyncHolds, PTL

(***************************************************************************)
(* The queue of messages.                                                  *)
(***************************************************************************)

\* What went wrong stays wrong.
LEMMA BrokenStays ==
  ASSUME TypeInv, TypeInv', [Next]_vars
  PROVE  broken' = broken \/ broken' = TRUE
<1>1. broken \in BOOLEAN /\ broken' \in BOOLEAN BY DEF TypeInv, TypeOK
<1>2. broken => broken'
  BY DEF Next, Reader, WriteMessage, Write, WriteInterrupted, WriteFails, CloseWriter, Die,
         ReadFirst, ReadRest, ReadBody, Accept, vars, writerVars, readerVars
<1> QED BY <1>1, <1>2

\* A message written to the last byte is put into the queue.
LEMMA QueuePut ==
  ASSUME TypeInv, SyncInv, MessagePut, broken' = broken \/ broken' = TRUE
  PROVE  Queue!Put(Last(sent)) /\ Last(sent) \in Messages
<1>1. Completed \in Seq(Messages) /\ whole \in 0..Len(Completed)
  BY CompletedType DEF SyncInv, CountsOK
<1>2. Last(sent) \in Messages BY LastSent DEF MessagePut, TypeInv
<1>3. Completed' = Append(Completed, Last(sent)) /\ UNCHANGED <<got, whole>> BY DEF MessagePut
<1>4. SubSeq(Completed', whole' + 1, Len(Completed'))
        = Append(SubSeq(Completed, whole + 1, Len(Completed)), Last(sent))
  BY <1>1, <1>2, <1>3, AfterAppend
<1>5. [i \in 1..whole' |-> got'[i].bytes] = [i \in 1..whole |-> got[i].bytes] BY <1>3
<1> QED BY <1>2, <1>4, <1>5 DEF Queue!Put

\* A body that is read is taken from the queue: it is the one that waited longest.
LEMMA QueueTake ==
  ASSUME TypeInv, TypeInv', SyncInv, ReadBody, ~ broken'
  PROVE  Queue!Take
<1>1. /\ ~ broken /\ whole < Len(Completed) /\ whole < Len(sent)
      /\ sent[whole + 1] = Completed[whole + 1] /\ whole' = whole + 1
      /\ got' = Append(got, [count |-> Len(sent[whole + 1]), bytes |-> sent[whole + 1]])
  BY BodyRead
<1>2. Completed' = Completed BY DEF ReadBody, writerVars, Completed
<1>3. Completed \in Seq(Messages) /\ whole \in Nat BY CompletedType
<1> DEFINE m == Completed[whole + 1]
<1>4. /\ SubSeq(Completed, whole + 1, Len(Completed)) # <<>>
      /\ Head(SubSeq(Completed, whole + 1, Len(Completed))) = m
      /\ Tail(SubSeq(Completed, whole + 1, Len(Completed)))
           = SubSeq(Completed, (whole + 1) + 1, Len(Completed))
      /\ m \in Messages
  BY <1>1, <1>3, AfterHeadTail
<1>5. SubSeq(Completed', whole' + 1, Len(Completed'))
        = Tail(SubSeq(Completed, whole + 1, Len(Completed)))
  BY <1>1, <1>2, <1>4
<1>6. whole = Len(got) BY <1>1 DEF SyncInv, CountsOK
<1>7. got' = Append(got, [count |-> Len(m), bytes |-> m]) BY <1>1
<1>8. /\ Len(got') = Len(got) + 1
      /\ \A i \in 1..Len(got) : got'[i] = got[i]
      /\ got'[Len(got) + 1].bytes = m
  <2>1. got \in Seq([count : Nat, bytes : Seq(Byte)]) BY DEF TypeInv, TypeOK, Byte
  <2>2. m \in Seq(Byte) /\ Len(m) \in Nat BY <1>4, MessagesSendable, FrameType
  <2> HIDE DEF m
  <2> DEFINE item == [count |-> Len(m), bytes |-> m]
  <2>3. item \in [count : Nat, bytes : Seq(Byte)] /\ item.bytes = m BY <2>2
  <2>4. got' = Append(got, item) BY <1>7
  <2> HIDE DEF item
  <2> QED BY <2>1, <2>3, <2>4, AppendProperties
<1> DEFINE d == [i \in 1..whole |-> got[i].bytes]
<1> DEFINE e == [i \in 1..whole' |-> got'[i].bytes]
<1>9. e = Append(d, m)
  <2> HIDE DEF m
  <2>1. DOMAIN e = 1..(whole + 1) BY <1>1
  <2>2. Len(d) = whole BY <1>3
  <2>3. Append(d, m) = [i \in 1..(whole + 1) |-> IF i <= whole THEN d[i] ELSE m]
    BY <1>3, <2>2
  <2>4. ASSUME NEW i \in 1..(whole + 1) PROVE e[i] = IF i <= whole THEN d[i] ELSE m
    BY <1>1, <1>3, <1>6, <1>8, <2>4
  <2> QED BY <1>1, <2>3, <2>4
<1>10. broken' = broken BY <1>1 DEF TypeInv, TypeOK
<1> QED BY <1>1, <1>4, <1>5, <1>9, <1>10 DEF Queue!Take

\* Every step of the two programs is one of the queue, or changes nothing in it.
LEMMA QueueStep ==
  ASSUME TypeInv, TypeInv', SyncInv, [Next]_vars
  PROVE  [Queue!QueueNext]_(Queue!queueVars)
<1>1. broken' = broken \/ broken' = TRUE BY BrokenStays
<1>2. CASE MessagePut BY <1>1, <1>2, QueuePut DEF Queue!QueueNext
<1>3. CASE ReadBody /\ ~ broken' BY <1>3, QueueTake DEF Queue!QueueNext
<1>4. CASE ~ MessagePut /\ ~ (ReadBody /\ ~ broken')
  <2>1. Completed' = Completed BY <1>4, CompletedStep
  <2>2. whole' = whole /\ [i \in 1..whole' |-> got'[i].bytes] = [i \in 1..whole |-> got[i].bytes]
    <3>1. CASE ReadBody
      <4>1. PICK item \in [count : Nat, bytes : Seq(Byte)] : got' = Append(got, item)
        <5>1. rpc = "body" BY <3>1 DEF ReadBody
        <5>2. DecodedUint(tmp) \in Nat BY <5>1, BodyLength
        <5>3. Available(DecodedUint(tmp)) \in 0..Len(pipe) BY <5>2, AvailableIs DEF TypeInv
        <5>4. pipe \in Seq(Byte) BY ByteType DEF TypeInv
        <5>5. SubSeq(pipe, 1, Available(DecodedUint(tmp))) \in Seq(Byte) BY <5>3, <5>4, SplitAt
        <5> QED BY <3>1, <5>2, <5>5 DEF ReadBody
      <4>2. got \in Seq([count : Nat, bytes : Seq(Byte)]) /\ Len(got) \in Nat /\ whole \in 0..Len(got)
        BY LenProperties DEF TypeInv, TypeOK, Byte
      <4>3. \A i \in 1..whole : got'[i] = got[i] BY <4>1, <4>2, AppendProperties
      <4>4. whole' = whole BY <1>4, <3>1 DEF ReadBody
      <4> QED BY <4>3, <4>4
    <3>2. CASE ~ ReadBody
      <4>1. UNCHANGED <<got, whole>>
        BY <3>2 DEF Next, Reader, WriteMessage, Write, WriteInterrupted, WriteFails,
           CloseWriter, Die, ReadFirst, ReadRest, vars, readerVars
      <4> QED BY <4>1
    <3> QED BY <3>1, <3>2
  <2>3. CASE broken' = broken BY <2>1, <2>2, <2>3 DEF Queue!queueVars
  <2>4. CASE broken' = TRUE BY <2>1, <2>2, <2>4 DEF Queue!QueueNext, Queue!Break
  <2> QED BY <1>1, <2>3, <2>4
<1> QED BY <1>2, <1>3, <1>4

\* The channel implements the queue of messages: what glme_buf_readm returns is what
\* glme_buf_writem was given, whole, in order and each once, until the connection breaks.
THEOREM Refinement == Spec => ImplementsQueue
<1>1. Init => Queue!QueueInit
  <2> SUFFICES ASSUME Init PROVE Queue!QueueInit OBVIOUS
  <2>1. wpc = "idle" /\ sent = <<>> /\ whole = 0 /\ broken = FALSE BY DEF Init
  <2>2. Completed = <<>> /\ Len(<<>>) = 0 BY <2>1 DEF Completed
  <2>3. SubSeq(Completed, whole + 1, Len(Completed)) = <<>> BY <2>1, <2>2
  <2>4. [i \in 1..whole |-> got[i].bytes] = <<>> BY <2>1
  <2> QED BY <2>1, <2>3, <2>4 DEF Queue!QueueInit
<1>2. TypeInv /\ TypeInv' /\ SyncInv /\ [Next]_vars => [Queue!QueueNext]_(Queue!queueVars)
  BY QueueStep
<1> QED BY <1>1, <1>2, SyncHolds, PTL DEF Spec, ImplementsQueue, Queue!QueueSafety

\* In a program that is careful in the way Reliable says nothing is ever wrong, and a write
\* puts all of a prefix or all of a body into the pipe.
Atomic ==
  Reliable => /\ ~ broken
              /\ wpc = "prefix" => left = EncodedUint(Len(Last(sent)))
              /\ wpc = "body" => left = Last(sent)

\* The inductive invariant of such a program.
AllInv == TypeInv /\ SyncInv /\ Atomic

\* A program that is careful to its end has been so before.
LEMMA ReliableBefore ==
  ASSUME TypeInv, [Next]_vars, Reliable'
  PROVE  Reliable
<1>1. wpc # "died"
  BY DEF Reliable, Next, Reader, WriteMessage, Write, WriteReturns, WriteInterrupted, WriteFails,
         CloseWriter, Die, ReadFirst, ReadRest, ReadBody, vars, writerVars, Writing
<1>2. CASE \E m \in Messages : WriteMessage(m)
  <2>1. PICK m \in Messages : sent' = Append(sent, m) BY <1>2 DEF WriteMessage
  <2>2. sent \in Seq(Messages) /\ Len(sent) \in Nat BY LenProperties DEF TypeInv, TypeOK
  <2>3. DOMAIN sent = 1..Len(sent) /\ DOMAIN sent' = 1..(Len(sent) + 1)
        /\ \A i \in 1..Len(sent) : sent'[i] = sent[i]
    BY <2>1, <2>2, AppendProperties
  <2> QED BY <1>1, <2>2, <2>3 DEF Reliable
<1>3. CASE ~ \E m \in Messages : WriteMessage(m)
  <2>1. sent' = sent
    BY <1>3 DEF Next, Reader, Write, WriteInterrupted, WriteFails,
         CloseWriter, Die, ReadFirst, ReadRest, ReadBody, vars, writerVars
  <2> QED BY <1>1, <2>1 DEF Reliable
<1> QED BY <1>2, <1>3

\* What the reader holds and finds, of the next message.
LEMMA HeldBytes ==
  ASSUME AllInv, Reliable, Len(tmp \o pipe) # 0
  PROVE  /\ ~ broken /\ whole < Len(sent) /\ sent[whole + 1] \in Sendable
         /\ Len(sent[whole + 1]) \in 1..PipeBuf
         /\ ~ Refused(Len(sent[whole + 1]))
         /\ Pending \in Seq(Sendable) /\ Pending # <<>> /\ Head(Pending) = sent[whole + 1]
         /\ \/ Len(tmp \o pipe) >= Len(EncodedUint(Len(sent[whole + 1]))) + Len(sent[whole + 1])
            \/ Writing /\ Len(tmp \o pipe) = Len(EncodedUint(Len(sent[whole + 1])))
<1> DEFINE held == tmp \o pipe
<1> DEFINE m == sent[whole + 1]
<1> DEFINE size(x) == Len(EncodedUint(Len(x))) + Len(x)
<1>1. ~ broken /\ TypeInv /\ SyncInv /\ CountsOK BY DEF AllInv, Atomic, SyncInv
<1>2. PICK rest : InStepWith(rest) BY <1>1 DEF SyncInv
<1>3. /\ rest \in Seq(Byte) /\ held \o rest = Stream(Pending) /\ rest = Unwritten
  BY <1>2 DEF InStepWith, Reliable
<1>4. /\ sent \in Seq(Sendable) /\ Len(sent) \in Nat /\ whole \in Nat /\ whole <= Len(sent)
      /\ Pending \in Seq(Sendable) /\ held \in Seq(Byte) /\ Len(held) \in Nat /\ Len(rest) \in Nat
  <2>1. /\ sent \in Seq(Sendable) /\ Len(sent) \in Nat /\ whole \in Nat /\ whole <= Len(sent)
    BY <1>1, MessagesSendable, CompletedType DEF TypeInv, CountsOK
  <2>2. Pending \in Seq(Sendable) BY <1>1, <2>1, PendingType
  <2>3. held \in Seq(Byte) BY <1>1, ByteType, ConcatProperties DEF TypeInv
  <2> QED BY <1>3, <2>1, <2>2, <2>3, LenProperties
<1>5. Len(Stream(Pending)) = Len(held) + Len(rest) BY <1>3, <1>4, ConcatProperties
<1>6. Pending # <<>>
  <2> SUFFICES ASSUME Pending = <<>> PROVE FALSE OBVIOUS
  <2>1. Len(Stream(Pending)) = 0 BY StreamEmpty
  <2> HIDE DEF held
  <2> QED BY <1>4, <1>5, <2>1 DEF held
<1>7. whole < Len(sent)
  <2> SUFFICES ASSUME ~ (whole < Len(sent)) PROVE FALSE OBVIOUS
  <2>1. whole = Len(sent) BY <1>4
  <2> QED BY <1>4, <1>6, <2>1, AfterAll DEF Pending
<1>8. /\ m \in Sendable /\ Head(Pending) = m
      /\ Tail(Pending) = SubSeq(sent, (whole + 1) + 1, Len(sent))
  BY <1>4, <1>7, AfterHeadTail DEF Pending
<1>9. whole + 1 \in DOMAIN sent /\ Len(sent) \in DOMAIN sent BY <1>4, <1>7
<1>10. Len(m) \in 1..PipeBuf /\ ~ Refused(Len(m)) BY <1>9 DEF Reliable
<1> HIDE DEF held, m
<1>11. \A x \in Sendable : size(x) \in Nat /\ Len(Frame(x)) = size(x)
                           /\ Len(EncodedUint(Len(x))) \in Nat \ {0} /\ Len(x) \in Nat
  <2> TAKE x \in Sendable
  <2>1. x \in Seq(Byte) /\ Len(x) \in Nat /\ EncodedUint(Len(x)) \in Seq(Byte) /\ EncodedUint(Len(x)) # <<>>
    BY FrameType
  <2>2. Len(EncodedUint(Len(x))) \in Nat \ {0} BY <2>1, EmptySeq
  <2>3. Len(EncodedUint(Len(x)) \o x) = Len(EncodedUint(Len(x))) + Len(x) BY <2>1, ConcatProperties
  <2> QED BY <2>1, <2>2, <2>3 DEF Frame
<1>12. Last(sent) = sent[Len(sent)] /\ Last(sent) \in Sendable
  BY <1>4, <1>7, FrontLast, ElementOfSeq DEF Last
<1>15. /\ size(m) \in Nat /\ Len(Frame(m)) = size(m) /\ Len(m) \in Nat
       /\ size(m) = Len(EncodedUint(Len(m))) + Len(m) /\ Len(EncodedUint(Len(m))) \in Nat \ {0}
  BY <1>8, <1>11
<1>16. /\ size(Last(sent)) \in Nat /\ Len(Frame(Last(sent))) = size(Last(sent))
       /\ Len(Last(sent)) \in Nat /\ Len(Last(sent)) <= size(Last(sent))
  <2>1. /\ size(Last(sent)) \in Nat /\ Len(Frame(Last(sent))) = size(Last(sent))
        /\ Len(EncodedUint(Len(Last(sent)))) \in Nat \ {0} /\ Len(Last(sent)) \in Nat
    BY <1>11, <1>12
  <2> QED BY <2>1
<1> HIDE DEF size
<1>13. Len(rest) <= size(Last(sent)) /\ (~ Writing => Len(rest) = 0)
       /\ Len(rest) \in {0, Len(Last(sent)), size(Last(sent))}
  <2>1. <<>> \o <<>> = <<>> /\ Len(<<>>) = 0 /\ <<>> \in Seq(Byte) BY EmptySeq, ConcatEmptySeq
  <2>2. CASE wpc = "prefix"
    <3>1. rest = Frame(Last(sent)) BY <1>3, <2>2 DEF Unwritten, AllInv, Atomic, Frame
    <3> QED BY <1>16, <2>2, <3>1 DEF Writing
  <2>3. CASE wpc = "body"
    <3>1. rest = Last(sent) \o <<>> BY <1>3, <2>3 DEF Unwritten, AllInv, Atomic
    <3>2. Last(sent) \in Seq(Byte) BY <1>12, FrameType
    <3>3. rest = Last(sent) BY <3>1, <3>2, ConcatEmptySeq
    <3> QED BY <1>16, <2>3, <3>3 DEF Writing
  <2>4. CASE ~ Writing
    <3>1. left = <<>> BY <1>1, <2>4 DEF TypeInv, WriterOK
    <3>2. rest = <<>> BY <1>3, <2>1, <2>4, <3>1 DEF Unwritten, Writing
    <3> QED BY <1>16, <2>1, <2>4, <3>2
  <2> QED BY <2>2, <2>3, <2>4 DEF Writing
<1>14. \/ Len(held) >= size(m)
       \/ Writing /\ Len(held) = Len(EncodedUint(Len(m)))
  <2> DEFINE t == Tail(Pending)
  <2>1. /\ t \in Seq(Sendable) /\ Stream(Pending) = Frame(m) \o Stream(t)
    BY <1>4, <1>6, <1>8, StreamCons
  <2>2. Stream(t) \in Seq(Byte) /\ Len(Stream(t)) \in Nat BY <2>1, StreamType, LenProperties
  <2>3. Len(Stream(Pending)) = size(m) + Len(Stream(t))
    <3>1. Frame(m) \in Seq(Byte) BY <1>8, FrameType
    <3>2. Len(Frame(m) \o Stream(t)) = Len(Frame(m)) + Len(Stream(t))
      BY <2>2, <3>1, ConcatProperties
    <3> QED BY <1>15, <2>1, <3>2
  <2>4. CASE whole + 1 < Len(sent)
    <3>1. Len(Stream(t)) >= size(Last(sent))
      <4>1. Len(t) = Len(sent) - (whole + 1) /\ Len(sent) - (whole + 1) \in 1..(Len(sent) - (whole + 1))
            /\ whole + 1 \in 0..Len(sent)
        <5>1. whole + 1 \in 0..Len(sent) BY <1>4, <2>4
        <5> QED BY <1>4, <1>8, <2>4, <5>1, SplitAt
      <4>2. t[Len(t)] = Last(sent)
        <5>1. whole + 1 + (Len(sent) - (whole + 1)) = Len(sent) BY <1>4
        <5> QED BY <1>4, <1>8, <1>12, <4>1, <5>1, ElementOfSplit
      <4>3. t # <<>>
        <5>1. Len(<<>>) = 0 OBVIOUS
        <5> HIDE DEF t
        <5> QED BY <4>1, <5>1, <1>4
      <4> HIDE DEF t
      <4>4. t = Append(Front(t), Last(sent)) /\ Front(t) \in Seq(Sendable)
        BY <2>1, <4>2, <4>3, FrontLast DEF Last
      <4>5. Stream(t) = Stream(Front(t)) \o Frame(Last(sent)) BY <1>12, <4>4, StreamAppend
      <4>6. Stream(Front(t)) \in Seq(Byte) /\ Len(Stream(Front(t))) \in Nat
            /\ Frame(Last(sent)) \in Seq(Byte)
        BY <1>12, <4>4, StreamType, FrameType, LenProperties
      <4>7. Len(Stream(t)) = Len(Stream(Front(t))) + Len(Frame(Last(sent)))
        BY <4>5, <4>6, ConcatProperties
      <4>8. Len(Frame(Last(sent))) \in Nat BY <1>16
      <4> QED BY <1>16, <4>6, <4>7, <4>8
    <3> HIDE DEF t
    <3> QED BY <1>4, <1>5, <1>13, <1>15, <1>16, <2>2, <2>3, <3>1
  <2>5. CASE whole + 1 = Len(sent)
    <3>1. m = Last(sent) /\ t = <<>>
      <4>1. t = SubSeq(sent, Len(sent) + 1, Len(sent)) BY <1>8, <2>5
      <4>2. t = <<>> BY <1>4, <4>1, AfterAll
      <4> QED BY <1>12, <2>5, <4>2 DEF m
    <3> HIDE DEF t
    <3>2. Stream(t) = <<>> /\ Len(<<>>) = 0 BY <3>1, StreamEmpty
    <3>3. Len(held) + Len(rest) = size(m) BY <1>5, <1>15, <2>3, <3>2
    <3>4. Len(held) # 0 BY DEF held
    <3> QED BY <1>4, <1>13, <1>15, <3>1, <3>3, <3>4
  <2> QED BY <1>4, <1>7, <2>4, <2>5
<1> QED BY <1>1, <1>4, <1>6, <1>7, <1>8, <1>10, <1>14 DEF held, m, size

\* A prefix that a careful program's reader has read is of a length it accepts.
LEMMA NotRefused ==
  ASSUME AllInv, Reliable, NEW prefix \in Seq(Byte), Complete(prefix), Len(prefix) = Consumed(prefix),
         NEW coming \in Seq(Byte), prefix \o coming = tmp \o pipe
  PROVE  ~ Refused(DecodedUint(prefix))
<1>1. Len(tmp \o pipe) # 0
  <2>1. Len(prefix) \in Nat \ {0} BY EmptySeq DEF Complete
  <2>2. Len(prefix \o coming) = Len(prefix) + Len(coming) /\ Len(coming) \in Nat BY ConcatProperties
  <2> QED BY <2>1, <2>2
<1>2. /\ ~ broken /\ Pending \in Seq(Sendable) /\ Head(Pending) = sent[whole + 1]
      /\ ~ Refused(Len(sent[whole + 1]))
  BY <1>1, HeldBytes
<1>3. PICK rest \in Seq(Byte) : (tmp \o pipe) \o rest = Stream(Pending)
  BY <1>2 DEF AllInv, SyncInv, InStepWith
<1>4. prefix \o (coming \o rest) = Stream(Pending) /\ coming \o rest \in Seq(Byte)
  <2>1. Associates(prefix, coming, rest) BY Associative
  <2>2. coming \o rest \in Seq(Byte) BY ConcatProperties
  <2> QED BY <1>3, <2>1, <2>2 DEF Associates
<1>5. DecodedUint(prefix) = Len(Head(Pending))
  <2> DEFINE c == coming \o rest
  <2>1. c \in Seq(Byte) /\ prefix \o c = Stream(Pending) BY <1>4
  <2> HIDE DEF c
  <2> QED BY <1>2, <2>1, PrefixOfStream
<1> QED BY <1>2, <1>5

\* The bytes of a prefix arrive together (write of at most PIPE_BUF bytes).
LEMMA RestThere ==
  ASSUME AllInv, Reliable, rpc = "rest"
  PROVE  NumFollowing(tmp[1]) <= Len(pipe)
<1>1. /\ Len(tmp) = 1 /\ NumFollowing(tmp[1]) \in Nat /\ tmp \in Seq(Byte) /\ pipe \in Seq(Byte)
      /\ Len(pipe) \in Nat
  BY ByteType, LenProperties DEF AllInv, TypeInv, ReaderOK
<1>2. Len(tmp \o pipe) = 1 + Len(pipe) /\ tmp \o pipe \in Seq(Byte) /\ (tmp \o pipe)[1] = tmp[1]
  <2>1. 1 \in 1..(Len(tmp) + Len(pipe)) /\ 1 <= Len(tmp) BY <1>1
  <2>2. (tmp \o pipe)[1] = tmp[1] BY <1>1, <2>1, ConcatProperties
  <2>3. tmp \o pipe \in Seq(Byte) /\ Len(tmp \o pipe) = Len(tmp) + Len(pipe)
    BY <1>1, ConcatProperties
  <2> QED BY <1>1, <2>2, <2>3
<1> DEFINE m == sent[whole + 1]
<1>3. Len(tmp \o pipe) # 0 BY <1>1, <1>2
<1>4. /\ ~ broken /\ Pending \in Seq(Sendable) /\ Pending # <<>> /\ Head(Pending) = m
      /\ m \in Sendable /\ Len(m) \in Nat
      /\ \/ Len(tmp \o pipe) >= Len(EncodedUint(Len(m))) + Len(m)
         \/ Len(tmp \o pipe) = Len(EncodedUint(Len(m)))
  BY <1>3, HeldBytes, FrameType
<1> HIDE DEF m
<1> DEFINE e == EncodedUint(Len(m))
<1> DEFINE held == tmp \o pipe
<1>5. PICK rest \in Seq(Byte) : held \o rest = Stream(Pending)
  BY <1>4 DEF AllInv, SyncInv, InStepWith
<1> DEFINE t == Stream(Tail(Pending))
<1>6. t \in Seq(Byte) /\ Stream(Pending) = (e \o m) \o t
  BY <1>4, StreamCons, StreamType DEF Frame
<1>7. /\ e \in Seq(Byte) /\ m \in Seq(Byte) /\ Len(e) \in Nat \ {0} /\ Len(e) = Consumed(e)
  <2>1. m \in Seq(Byte) /\ e \in Seq(Byte) /\ e # <<>> /\ Len(m) < Power[MaxBytes]
    BY <1>4, FrameType
  <2>2. Len(e) = Consumed(e) BY <1>4, <2>1, EncodedUintType
  <2> QED BY <2>1, <2>2, EmptySeq
<1> HIDE DEF e, t, held
<1>8. held \in Seq(Byte) /\ Len(held) = 1 + Len(pipe) /\ held[1] = tmp[1]
      /\ (Len(held) >= Len(e) + Len(m) \/ Len(held) = Len(e))
  BY <1>2, <1>4 DEF held, e
<1>9. (held \o rest)[1] = tmp[1]
  <2>1. 1 \in 1..(Len(held) + Len(rest)) /\ 1 <= Len(held)
    <3>1. Len(rest) \in Nat BY LenProperties
    <3> QED BY <1>1, <1>8, <3>1
  <2> QED BY <1>8, <2>1, ConcatProperties
<1>10. ((e \o m) \o t)[1] = e[1]
  <2>1. Len(m) \in Nat /\ Len(t) \in Nat BY <1>6, <1>7, LenProperties
  <2>2. e \o m \in Seq(Byte) /\ Len(e \o m) = Len(e) + Len(m) BY <1>7, ConcatProperties
  <2>3. 1 \in 1..(Len(e) + Len(m)) /\ 1 <= Len(e) BY <1>7, <2>1
  <2>4. (e \o m)[1] = e[1] BY <1>7, <2>3, ConcatProperties
  <2> DEFINE em == e \o m
  <2>5. em \in Seq(Byte) /\ 1 \in 1..(Len(em) + Len(t)) /\ 1 <= Len(em)
    BY <1>7, <2>1, <2>2, <2>3
  <2> HIDE DEF em
  <2>6. (em \o t)[1] = em[1] BY <1>6, <2>5, ConcatProperties
  <2> QED BY <2>4, <2>6 DEF em
<1>11. e[1] = tmp[1] BY <1>5, <1>6, <1>9, <1>10
<1>12. Len(e) = NumFollowing(tmp[1]) + 1 BY <1>7, <1>11 DEF Consumed
<1> QED BY <1>1, <1>4, <1>8, <1>12

\* The bytes of a body arrive together, or none of them.
LEMMA BodyThere ==
  ASSUME AllInv, Reliable, rpc = "body", DecodedUint(tmp) = 0 \/ ReadReturns
  PROVE  /\ DecodedUint(tmp) \in Nat \ {0} /\ DecodedUint(tmp) <= Len(pipe)
         /\ Len(tmp) \in Nat
<1>1. /\ Len(tmp) \in Nat \ {0} /\ tmp \in Seq(Byte) /\ pipe \in Seq(Byte) /\ Len(pipe) \in Nat
  BY BodyLength, ByteType, LenProperties DEF AllInv, TypeInv
<1>2. Len(tmp \o pipe) = Len(tmp) + Len(pipe) BY <1>1, ConcatProperties
<1>3. Len(tmp \o pipe) # 0 BY <1>1, <1>2
<1> DEFINE m == sent[whole + 1]
<1>4. /\ ~ broken /\ Len(m) \in 1..PipeBuf
      /\ \/ Len(tmp \o pipe) >= Len(EncodedUint(Len(m))) + Len(m)
         \/ Writing /\ Len(tmp \o pipe) = Len(EncodedUint(Len(m)))
  BY <1>3, HeldBytes
<1>5. PICK rest : InStepWith(rest) BY <1>4 DEF AllInv, SyncInv
<1>6. DecodedUint(tmp) = Len(m) /\ tmp = EncodedUint(Len(m))
  BY <1>4, <1>5, BodyInStream DEF AllInv, SyncInv
<1> HIDE DEF m
<1>7. Len(m) \in Nat \ {0} BY <1>4, ChannelAssumption
<1>8. CASE Len(pipe) >= Len(m) BY <1>1, <1>6, <1>7, <1>8
<1>9. CASE Writing /\ Len(pipe) = 0
  <2>1. pipe = <<>> BY <1>1, <1>9, EmptySeq
  <2>2. ~ ReadReturns BY <1>9, <2>1 DEF ReadReturns, Writing, WriterEnded
  <2> QED BY <1>6, <1>7, <2>2
<1> QED BY <1>1, <1>2, <1>4, <1>6, <1>7, <1>8, <1>9

\* The program starts so.
LEMMA AtomicInit == Init => Atomic
BY DEF Init, Atomic

\* Every step of it keeps it so.
LEMMA AtomicStep ==
  ASSUME AllInv, TypeInv', [Next]_vars
  PROVE  Atomic'
<1> SUFFICES ASSUME Reliable'
             PROVE  /\ ~ broken'
                    /\ wpc' = "prefix" => left' = EncodedUint(Len(Last(sent')))
                    /\ wpc' = "body" => left' = Last(sent')
  BY DEF Atomic
<1>0. TypeInv /\ SyncInv /\ CountsOK /\ TypeOK BY DEF AllInv, SyncInv, TypeInv
<1>1. Reliable BY <1>0, ReliableBefore
<1>2. /\ ~ broken
      /\ wpc = "prefix" => left = EncodedUint(Len(Last(sent)))
      /\ wpc = "body" => left = Last(sent)
  BY <1>1 DEF AllInv, Atomic
<1>3. left \in Seq(Byte) /\ pipe \in Seq(Byte) /\ tmp \in Seq(Byte) BY <1>0, ByteType
<1>4. ASSUME Writing
      PROVE  /\ left = Call /\ Len(left) <= PipeBuf
             /\ Len(left) \in Nat
  <2>1. sent # <<>> BY <1>0, <1>4 DEF TypeInv, WriterOK, Writing
  <2>2. sent \in Seq(Messages) /\ Len(sent) \in Nat \ {0} BY <1>0, <2>1, LastSent DEF TypeOK
  <2>3. Len(sent) \in DOMAIN sent BY <2>2
  <2>4. Len(Last(sent)) <= PipeBuf /\ Len(EncodedUint(Len(Last(sent)))) <= PipeBuf
    BY <1>1, <2>3, ChannelAssumption DEF Reliable, Last
  <2>5. Len(left) \in Nat BY <1>3, LenProperties
  <2> QED BY <1>2, <1>4, <2>4, <2>5 DEF Writing, Call
<1>5. ASSUME NEW m \in Messages, WriteMessage(m)
      PROVE  ~ broken' /\ wpc' = "prefix" /\ left' = EncodedUint(Len(Last(sent')))
  <2>1. /\ wpc' = "prefix" /\ left' = EncodedUint(Len(m)) /\ sent' = Append(sent, m)
        /\ broken' = broken
    BY <1>5 DEF WriteMessage, readerVars
  <2>2. Last(sent') = m BY <1>0, <2>1, AppendFrontLast DEF TypeOK
  <2> QED BY <1>2, <2>1, <2>2
<1>6. CASE Write
  <2>1. PICK k \in 0..Len(left) :
          /\ Len(Call) <= PipeBuf => k = Len(left)
          /\ WriteReturns(SubSeq(left, k + 1, Len(left)))
    BY <1>6 DEF Write
  <2>2. Writing /\ UNCHANGED <<sent, broken>> BY <1>6 DEF Write, readerVars
  <2>3. k = Len(left) BY <1>4, <2>1, <2>2
  <2>4. WriteReturns(<<>>)
    <3>1. SubSeq(left, Len(left) + 1, Len(left)) = <<>> BY <1>3, AfterAll
    <3> QED BY <2>1, <2>3, <3>1
  <2> QED BY <1>2, <2>2, <2>4 DEF WriteReturns
<1>7. CASE WriteInterrupted BY <1>4, <1>7 DEF WriteInterrupted
<1>8. CASE WriteFails
  BY <1>0, <1>2, <1>8 DEF WriteFails, CountsOK, WriterEnded, Writing
<1>9. CASE CloseWriter BY <1>2, <1>9 DEF CloseWriter, readerVars
<1>10. CASE Die BY <1>10 DEF Die, Reliable
<1>11. CASE Reader /\ ~ broken' BY <1>2, <1>11 DEF Reader, ReadFirst, ReadRest, ReadBody, writerVars
<1>12. CASE ReadFirst /\ broken'
  <2>1. pipe # <<>> /\ NumFollowing(Head(pipe)) = 0 /\ Accept(<<Head(pipe)>>)
    BY <1>2, <1>12 DEF ReadFirst
  <2>2. Refused(DecodedUint(<<Head(pipe)>>)) BY <1>2, <1>12, <2>1 DEF Accept
  <2>3. /\ <<Head(pipe)>> \in Seq(Byte) /\ 1 \in 0..Len(pipe)
        /\ SubSeq(pipe, 1, 1) = <<Head(pipe)>>
    BY <1>0, <2>1, FirstByte
  <2>4. Complete(<<Head(pipe)>>) /\ Len(<<Head(pipe)>>) = Consumed(<<Head(pipe)>>)
    <3>1. Len(<<Head(pipe)>>) = 1 /\ <<Head(pipe)>>[1] = Head(pipe) OBVIOUS
    <3> QED BY <2>1, <3>1 DEF Complete, Consumed
  <2>5. SubSeq(pipe, 1 + 1, Len(pipe)) \in Seq(Byte)
        /\ <<Head(pipe)>> \o SubSeq(pipe, 1 + 1, Len(pipe)) = tmp \o pipe
    <3>1. SubSeq(pipe, 1, 1) \o SubSeq(pipe, 1 + 1, Len(pipe)) = pipe
          /\ SubSeq(pipe, 1 + 1, Len(pipe)) \in Seq(Byte)
      BY <1>3, <2>3, SplitAt
    <3>2. tmp = <<>> BY <1>0, <1>12 DEF ReadFirst, TypeInv, ReaderOK
    <3>3. tmp \o pipe = pipe BY <1>3, <3>2, ConcatEmptySeq
    <3> QED BY <2>3, <3>1, <3>3
  <2> DEFINE p == <<Head(pipe)>>
  <2> DEFINE c == SubSeq(pipe, 1 + 1, Len(pipe))
  <2>6. p \in Seq(Byte) /\ Complete(p) /\ Len(p) = Consumed(p) /\ c \in Seq(Byte)
        /\ p \o c = tmp \o pipe /\ Refused(DecodedUint(p))
    BY <2>2, <2>3, <2>4, <2>5
  <2> HIDE DEF p, c
  <2> QED BY <1>1, <2>6, NotRefused
<1>13. CASE ReadRest /\ broken'
  <2> DEFINE n == NumFollowing(tmp[1])
  <2> DEFINE k == Available(n)
  <2> DEFINE p == tmp \o SubSeq(pipe, 1, k)
  <2> DEFINE c == SubSeq(pipe, k + 1, Len(pipe))
  <2>1. rpc = "rest" /\ IF k < n THEN TRUE ELSE Accept(p) BY <1>13 DEF ReadRest
  <2>2. n \in Nat BY <1>0, <2>1 DEF TypeInv, ReaderOK
  <2>3. n <= Len(pipe) BY <1>1, <2>1, RestThere
  <2>4. k = n /\ k \in 0..Len(pipe)
    <3> HIDE DEF n
    <3> QED BY <1>0, <2>2, <2>3, AvailableIs
  <2>5. n <= k BY <2>2, <2>4
  <2>6. p \in Seq(Byte) /\ Complete(p) /\ Len(p) = Consumed(p) BY <1>0, <2>1, <2>5, WholePrefix
  <2>7. Refused(DecodedUint(p))
    <3>1. ~ (k < n) BY <2>2, <2>4
    <3>2. Accept(p) BY <2>1, <3>1
    <3> HIDE DEF p
    <3> QED BY <1>2, <1>13, <3>2 DEF Accept
  <2>8. c \in Seq(Byte) /\ p \o c = tmp \o pipe
    <3> DEFINE x == SubSeq(pipe, 1, k)
    <3> HIDE DEF k
    <3>1. x \in Seq(Byte) /\ c \in Seq(Byte) /\ x \o c = pipe BY <1>3, <2>4, SplitAt
    <3>2. p = tmp \o x OBVIOUS
    <3> HIDE DEF x, c, p
    <3>3. Associates(tmp, x, c) BY <1>3, <3>1, Associative
    <3> QED BY <3>1, <3>2, <3>3 DEF Associates
  <2> HIDE DEF p, c
  <2> QED BY <1>1, <2>6, <2>7, <2>8, NotRefused
<1>14. CASE ReadBody /\ broken'
  <2> DEFINE n == DecodedUint(tmp)
  <2> DEFINE k == Available(n)
  <2> DEFINE result == n + IF Len(tmp) = 1 THEN 0 ELSE Len(tmp)
  <2>1. rpc = "body" /\ (n = 0 \/ ReadReturns) /\ broken' = (broken \/ k < n \/ result = 0)
    BY <1>14 DEF ReadBody
  <2>2. n \in Nat \ {0} /\ n <= Len(pipe) /\ Len(tmp) \in Nat BY <1>1, <2>1, BodyThere
  <2>3. k = n
    <3> HIDE DEF n
    <3> QED BY <1>0, <2>2, AvailableIs
  <2> HIDE DEF n, k
  <2>4. ~ (k < n) /\ result # 0 BY <2>2, <2>3
  <2> HIDE DEF result
  <2> QED BY <1>2, <1>14, <2>1, <2>4
<1>15. CASE UNCHANGED vars BY <1>2, <1>15 DEF vars, writerVars, readerVars
<1> QED BY <1>2, <1>5, <1>6, <1>7, <1>8, <1>9, <1>10, <1>11, <1>12, <1>13, <1>14, <1>15 DEF Next, Reader

\* In a program whose messages have a byte or more, enter the pipe at once and are within the
\* reader's limit, and whose writer is not killed, none is cut short, refused or mistaken for
\* the end (glme_buf_writem, glme_buf_readm).
THEOREM NeverBrokenHolds == Spec => []NeverBroken
<1>1. Init => AllInv BY TypeInit, SyncInit, AtomicInit DEF AllInv
<1>2. AllInv /\ [Next]_vars => AllInv'
  <2> SUFFICES ASSUME AllInv, [Next]_vars PROVE AllInv' OBVIOUS
  <2>1. TypeInv /\ SyncInv BY DEF AllInv
  <2>2. TypeInv' BY <2>1, TypeStep
  <2>3. SyncInv' BY <2>1, <2>2, SyncStep
  <2>4. Atomic' BY <2>2, AtomicStep
  <2> QED BY <2>2, <2>3, <2>4 DEF AllInv
<1>3. AllInv => NeverBroken BY DEF AllInv, Atomic, NeverBroken
<1> QED BY <1>1, <1>2, <1>3, PTL DEF Spec
=================================================================================
