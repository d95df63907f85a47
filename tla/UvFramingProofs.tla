---------------------------- MODULE UvFramingProofs ----------------------------
(***************************************************************************)
(* For any command lines, any network and any faults: the types of the two *)
(* libuv programs, that the reader stays in step, that no part of a        *)
(* message is taken for a whole one, and that the programs implement the   *)
(* queue of messages.                                                      *)
(***************************************************************************)
EXTENDS UvFraming, GobProofs

\* What the first byte of a prefix can say, be it one or not.
Widest == Radix - Small + 1

\* The types, with the bounds that hold whether or not the reader knows where it is.
TypeInv ==
  /\ args \in Arguments /\ current_len \in Nat
  /\ wpc \in {"connecting", "writing", "done", "refused", "died"}
  /\ outbuf \in Seq(Byte) /\ left \in 0..Len(outbuf) /\ sent \in Seq(Bodies)
  /\ net \in Seq(Byte) /\ Len(net) <= NetSize /\ link \in {"up", "reset"}
  /\ rpc \in {"reading", "closed", "aborted"} /\ state \in {0, 1} /\ nread \in Nat
  /\ intmp \in [0..MaxBytes -> Byte]
  /\ inalloc \in 0..Widest /\ plen \in 0..Widest
  /\ inlen \in Nat /\ inbuf \in Seq(Byte)
  /\ Len(inbuf) = IF state = 1 THEN nread ELSE 0
  /\ asked \in [at : Nat, len : Int] /\ again \in BOOLEAN
  /\ asked # None => asked.at + asked.len <= IF state = 0 THEN Widest ELSE inlen
  /\ received \in Seq(Seq(Byte)) /\ whole \in 0..Len(received)
  /\ broken \in BOOLEAN

\* How the writer's variables go together, and that nothing is on its way after a reset.
WriterOK ==
  /\ args.start <= current_len
  /\ wpc = "connecting" => current_len = args.start
  /\ wpc \in {"connecting", "refused"} => sent = <<>> /\ left = 0
  /\ left > 0 => sent # <<>>
  /\ link = "reset" => net = <<>>

\* The constants as numbers.
LEMMA Constants ==
  /\ Radix \in Nat \ {0} /\ MaxBytes \in Nat \ {0} /\ Widest \in Nat /\ MaxBytes + 1 <= Widest
  /\ Power[MaxBytes] \in Nat \ {0} /\ Power[MaxBytes] > 4
  /\ NetSize \in Nat \ {0}
<1>1. Power[MaxBytes] \in Nat \ {0} BY GobAssumption, PowerType
<1> QED BY <1>1, GobAssumption, RadixType, UvAssumption DEF Widest

\* The command line of uvwriter as numbers.
LEMMA ArgumentsType ==
  ASSUME NEW a \in Arguments
  PROVE  /\ a.start \in Nat /\ a.end \in Nat /\ a.increment \in Nat /\ a.spare \in {0, 1}
         /\ a.spare = 0 => a.start > 0
         /\ a.start + 1 < Power[MaxBytes] /\ a.end < Power[MaxBytes]
<1>1. /\ a.start \in Nat /\ a.end \in Nat /\ a.increment \in Nat \ {0}
      /\ a.spare \in {0, 1} /\ a.start + a.spare > 0
      /\ a.start + 1 < Power[MaxBytes] /\ a.end < Power[MaxBytes]
  BY UvAssumption
<1> QED BY <1>1

\* The bytes make_data has encoded.
LEMMA StructureType ==
  ASSUME NEW n \in Nat
  PROVE  Structure(n) \in Seq(Byte) /\ Len(Structure(n)) = n + 1
<1> DEFINE b == n % Radix
<1> DEFINE t == [k \in 1..n |-> (k - 1) % Radix]
<1>1. b \in Byte BY Constants, DivMod DEF Byte
<1>2. \A k \in 1..n : (k - 1) % Radix \in Byte
  <2> TAKE k \in 1..n
  <2>1. k - 1 \in Nat OBVIOUS
  <2> QED BY <2>1, Constants, DivMod DEF Byte
<1>3. t \in Seq(Byte) /\ Len(t) = n BY <1>2
<1> HIDE DEF b, t
<1>4. <<b>> \o t \in Seq(Byte) /\ Len(<<b>> \o t) = Len(t) + 1 BY <1>1, <1>3, ConsProperties
<1> QED BY <1>3, <1>4 DEF Structure, b, t

\* The body sent of them has a length that can be announced, and the number given for it is
\* that length, or negative when the encoder ran out of room (uvwriter.c, make_data).
LEMMA BodyType ==
  ASSUME NEW a \in Arguments, NEW n \in Nat, n = a.start \/ (a.start <= n /\ n < a.end)
  PROVE  LET data == MakeData(n, a.spare)
         IN /\ data.bytes \in Bodies /\ data.bytes \in Sendable /\ data.bytes # <<>>
            /\ data.n \in Int
            /\ ~ (data.n < 0) => data.n = Len(data.bytes)
<1>1. /\ a.start \in Nat /\ a.end \in Nat /\ a.increment \in Nat /\ a.spare \in {0, 1}
      /\ a.spare = 0 => a.start > 0
      /\ a.start + 1 < Power[MaxBytes] /\ a.end < Power[MaxBytes]
      /\ Power[MaxBytes] \in Nat
  BY ArgumentsType, Constants
<1>2. Structure(n) \in Seq(Byte) /\ Len(Structure(n)) = n + 1 BY StructureType
<1>3. n + 1 < Power[MaxBytes] BY <1>1
<1>4. MakeData(n, a.spare).bytes \in Bodies
  <2>1. n \in {a.start} \cup (a.start..(a.end - 1)) BY <1>1
  <2> QED BY <2>1 DEF Bodies
<1>5. Len(<<>>) = 0 OBVIOUS
<1>6. CASE a.spare > 0
  <2>1. MakeData(n, a.spare) = [n |-> Len(Structure(n)), bytes |-> Structure(n)]
    BY <1>6 DEF MakeData
  <2>2. Structure(n) # <<>> BY <1>2, <1>5
  <2> QED BY <1>2, <1>3, <1>4, <2>1, <2>2 DEF Sendable
<1>7. CASE ~ (a.spare > 0)
  <2>1. MakeData(n, a.spare) = [n |-> -4, bytes |-> Front(Structure(n))]
    BY <1>7 DEF MakeData
  <2>2. Structure(n) # <<>> BY <1>2, <1>5
  <2>3. Front(Structure(n)) \in Seq(Byte) /\ Len(Front(Structure(n))) = n
    <3>1. Len(Front(Structure(n))) = Len(Structure(n)) - 1 /\ Front(Structure(n)) \in Seq(Byte)
      BY <1>2, <2>2, FrontLast
    <3> QED BY <1>2, <3>1
  <2>4. n > 0 BY <1>1, <1>7
  <2>5. Front(Structure(n)) # <<>> BY <1>5, <2>3, <2>4
  <2> QED BY <1>3, <1>1, <1>4, <2>1, <2>3, <2>5 DEF Sendable
<1> QED BY <1>1, <1>6, <1>7

\* Every body can be sent.
LEMMA BodiesSendable ==
  /\ \A b \in Bodies : b \in Sendable /\ b # <<>>
  /\ Bodies \subseteq Sendable
<1>1. ASSUME NEW b \in Bodies PROVE b \in Sendable /\ b # <<>>
  <2>1. PICK a \in Arguments : b \in {MakeData(n, a.spare).bytes :
                                        n \in {a.start} \cup (a.start..(a.end - 1))}
    BY DEF Bodies
  <2>2. PICK n \in {a.start} \cup (a.start..(a.end - 1)) : b = MakeData(n, a.spare).bytes
    BY <2>1
  <2>3. a.start \in Nat /\ a.end \in Nat BY ArgumentsType
  <2>4. n \in Nat /\ (n = a.start \/ (a.start <= n /\ n < a.end)) BY <2>2, <2>3
  <2> QED BY <2>2, <2>4, BodyType
<1> QED BY <1>1

\* After uv_write: a body is sent, and unless an encoder failed what the request holds is
\* its frame.
LEMMA SendType ==
  ASSUME TypeInv, NEW n \in Nat, n = args.start \/ (args.start <= n /\ n < args.end), Send(n)
  PROVE  /\ outbuf' \in Seq(Byte) /\ left' = Len(outbuf') /\ left' \in Nat \ {0}
         /\ broken' \in BOOLEAN
         /\ \E b \in Bodies : /\ sent' = Append(sent, b)
                              /\ ~ broken' => ~ broken /\ outbuf' = Frame(b)
<1> DEFINE data == MakeData(n, args.spare)
<1> DEFINE p == data.n % Power[MaxBytes]
<1>1. args \in Arguments BY DEF TypeInv
<1>2. /\ data.bytes \in Bodies /\ data.bytes \in Sendable /\ data.n \in Int
      /\ ~ (data.n < 0) => data.n = Len(data.bytes)
  BY <1>1, BodyType
<1>3. /\ outbuf' = EncodedUint(p) \o data.bytes
      /\ left' = Len(outbuf')
      /\ sent' = Append(sent, data.bytes)
      /\ broken' = (broken \/ data.n < 0)
  BY DEF Send
<1> HIDE DEF data
<1>4. p \in Nat /\ p < Power[MaxBytes] BY <1>2, Constants
<1>5. EncodedUint(p) \in Seq(Byte) /\ EncodedUint(p) # <<>> BY <1>4, EncodedUintType DEF Byte
<1>6. data.bytes \in Seq(Byte) /\ Len(data.bytes) \in Nat /\ Len(data.bytes) < Power[MaxBytes]
  BY <1>2, FrameType
<1>7. outbuf' \in Seq(Byte) /\ Len(outbuf') = Len(EncodedUint(p)) + Len(data.bytes)
  BY <1>3, <1>5, <1>6, ConcatProperties
<1>8. left' \in Nat \ {0}
  <2>1. Len(EncodedUint(p)) \in Nat \ {0} BY <1>5, EmptySeq
  <2> HIDE DEF p
  <2> QED BY <1>3, <1>6, <1>7, <2>1
<1>9. ASSUME ~ broken' PROVE ~ broken /\ outbuf' = Frame(data.bytes)
  <2>1. data.n = Len(data.bytes) BY <1>2, <1>3, <1>9
  <2>2. p = Len(data.bytes)
    <3> DEFINE l == Len(data.bytes)
    <3> DEFINE m == Power[MaxBytes]
    <3>1. l \in Nat /\ m \in Nat \ {0} /\ l < m BY <1>6, Constants
    <3>2. p = l % m BY <2>1
    <3> HIDE DEF p, l, m
    <3>3. p = l BY <3>1, <3>2
    <3> QED BY <3>3 DEF l
  <2> QED BY <1>3, <1>9, <2>2 DEF Frame
<1>10. broken' \in BOOLEAN BY <1>3
<1> QED BY <1>2, <1>3, <1>7, <1>8, <1>9, <1>10

\* A piece of the bytes on their way, and the others.
LEMMA PieceType ==
  ASSUME TypeInv, NEW k \in Pieces
  PROVE  k \in Nat \ {0} /\ k \in 0..Len(net) /\ k <= asked.len /\ Len(net) \in Nat
         /\ SubSeq(net, 1, k) \in Seq(Byte) /\ Len(SubSeq(net, 1, k)) = k
         /\ SubSeq(net, k + 1, Len(net)) \in Seq(Byte)
         /\ Len(SubSeq(net, k + 1, Len(net))) = Len(net) - k
         /\ SubSeq(net, 1, k) \o SubSeq(net, k + 1, Len(net)) = net
<1>1. asked.len \in Int /\ net \in Seq(Byte) /\ Len(net) \in Nat
  BY LenProperties DEF TypeInv
<1>2. Min({asked.len, Len(net)}) = IF asked.len <= Len(net) THEN asked.len ELSE Len(net)
  BY <1>1, MinOfTwo
<1>3. k \in Nat \ {0} /\ k \in 0..Len(net) /\ k <= asked.len BY <1>1, <1>2 DEF Pieces
<1> QED BY <1>1, <1>3, SplitAt

\* The length of the next body, if there is one (uvwriter.c, on_write).
LEMMA NextBodyLength ==
  ASSUME TypeInv, WriterOK
  PROVE  LET n == current_len + args.increment
         IN /\ n \in Nat /\ args.start <= n /\ args.start \in Nat /\ args.end \in Nat
            /\ n < args.end => n = args.start \/ (args.start <= n /\ n < args.end)
<1>1. args.start \in Nat /\ args.end \in Nat /\ args.increment \in Nat
  BY ArgumentsType DEF TypeInv
<1>2. current_len \in Nat /\ args.start <= current_len BY DEF TypeInv, WriterOK
<1> QED BY <1>1, <1>2

\* Every callback of the writer, and what the network does, keeps the types.
LEMMA WriterStep ==
  ASSUME TypeInv, WriterOK,
         OnConnect \/ OnWrite \/ Flush \/ FlushFails \/ Die \/ Reset
  PROVE  TypeInv' /\ WriterOK'
<1>1. CASE OnConnect
  <2>1. UNCHANGED <<args, current_len, net, link, readerVars>> /\ wpc = "connecting"
    BY <1>1 DEF OnConnect
  <2>2. current_len = args.start /\ current_len \in Nat /\ sent \in Seq(Bodies)
    BY <2>1 DEF TypeInv, WriterOK
  <2>3. CASE Send(current_len) /\ wpc' = "writing"
    <3>1. /\ outbuf' \in Seq(Byte) /\ left' = Len(outbuf') /\ left' \in Nat \ {0}
          /\ broken' \in BOOLEAN
          /\ \E b \in Bodies : sent' = Append(sent, b)
      BY <2>2, <2>3, SendType
    <3>2. sent' \in Seq(Bodies) /\ sent' # <<>> BY <2>2, <3>1, AppendProperties
    <3> QED BY <2>1, <2>3, <3>1, <3>2 DEF TypeInv, WriterOK, readerVars, clientVars
  <2>4. CASE wpc' = "refused" /\ UNCHANGED <<outbuf, left, sent, broken>>
    BY <2>1, <2>4 DEF TypeInv, WriterOK, readerVars, clientVars
  <2> QED BY <1>1, <2>3, <2>4 DEF OnConnect
<1>2. CASE OnWrite
  <2> DEFINE n == current_len + args.increment
  <2>1. UNCHANGED <<args, net, link, readerVars>> /\ wpc = "writing" /\ left = 0
        /\ current_len' = n
    BY <1>2 DEF OnWrite, NextMessage
  <2>2. /\ n \in Nat /\ args.start <= n /\ args.start \in Nat /\ args.end \in Nat
        /\ n < args.end => n = args.start \/ (args.start <= n /\ n < args.end)
    BY NextBodyLength
  <2>3. CASE n >= args.end
    <3>1. wpc' = "done" /\ UNCHANGED <<outbuf, left, sent, broken>>
      BY <1>2, <2>1, <2>3 DEF OnWrite, NextMessage
    <3> QED BY <2>1, <2>2, <3>1 DEF TypeInv, WriterOK, readerVars, clientVars
  <2>4. CASE ~ (n >= args.end)
    <3>1. wpc' = wpc /\ Send(n) BY <1>2, <2>1, <2>4 DEF OnWrite, NextMessage
    <3>2. n < args.end BY <2>2, <2>4
    <3> HIDE DEF n
    <3>3. /\ outbuf' \in Seq(Byte) /\ left' = Len(outbuf') /\ left' \in Nat \ {0}
          /\ broken' \in BOOLEAN
          /\ \E b \in Bodies : sent' = Append(sent, b)
      BY <2>2, <3>1, <3>2, SendType
    <3>4. sent' \in Seq(Bodies) /\ sent' # <<>>
      <4>1. sent \in Seq(Bodies) BY DEF TypeInv
      <4> QED BY <3>3, <4>1, AppendProperties
    <3>5. current_len' \in Nat /\ args.start <= current_len' /\ left' \in 0..Len(outbuf')
      BY <2>1, <2>2, <3>3
    <3>6. TypeInv' BY <2>1, <3>1, <3>3, <3>4, <3>5 DEF TypeInv, readerVars, clientVars
    <3>7. WriterOK' BY <2>1, <3>1, <3>4, <3>5 DEF WriterOK
    <3> QED BY <3>6, <3>7
  <2> QED BY <2>3, <2>4
<1>3. CASE Flush
  <2>1. PICK k \in 1..Min({left, NetSize - Len(net)}) :
          /\ net' = net \o SubSeq(outbuf, Len(outbuf) - left + 1, Len(outbuf) - left + k)
          /\ left' = left - k
    BY <1>3 DEF Flush
  <2>2. /\ wpc = "writing" /\ link = "up"
        /\ UNCHANGED <<args, wpc, current_len, outbuf, sent, link, readerVars, broken>>
    BY <1>3 DEF Flush, ReaderGone, TypeInv
  <2>3. /\ Len(net) \in Nat /\ Len(outbuf) \in Nat /\ left \in 0..Len(outbuf)
        /\ net \in Seq(Byte) /\ outbuf \in Seq(Byte)
    BY LenProperties DEF TypeInv
  <2>4. k \in Nat \ {0} /\ k <= left /\ k <= NetSize - Len(net)
    <3>1. left \in Int /\ NetSize - Len(net) \in Int BY <2>3, Constants
    <3>2. Min({left, NetSize - Len(net)})
            = IF left <= NetSize - Len(net) THEN left ELSE NetSize - Len(net)
      BY <3>1, MinOfTwo
    <3> QED BY <3>1, <3>2
  <2> DEFINE x == SubSeq(outbuf, Len(outbuf) - left + 1, Len(outbuf) - left + k)
  <2>5. x \in Seq(Byte) /\ Len(x) = k
    <3> DEFINE f == Len(outbuf) - left + 1
    <3> DEFINE g == Len(outbuf) - left + k
    <3>1. f \in 1..(Len(outbuf) + 1) /\ g \in f - 1..Len(outbuf) /\ g - f + 1 = k /\ f <= g
      BY <2>3, <2>4
    <3> HIDE DEF f, g
    <3>2. SubSeq(outbuf, f, g) \in Seq(Byte) /\ Len(SubSeq(outbuf, f, g)) = IF f <= g THEN g - f + 1 ELSE 0
      BY <2>3, <3>1, SubSeqProperties
    <3> QED BY <3>1, <3>2 DEF f, g
  <2> HIDE DEF x
  <2>6. net' \in Seq(Byte) /\ Len(net') = Len(net) + k
    <3>1. net' = net \o x BY <2>1 DEF x
    <3> QED BY <2>3, <2>5, <3>1, ConcatProperties
  <2>7. Len(net') <= NetSize /\ left' \in 0..Len(outbuf) BY <2>1, <2>3, <2>4, <2>6, Constants
  <2>8. left' > 0 => left > 0 BY <2>1, <2>3, <2>4
  <2> QED BY <2>2, <2>6, <2>7, <2>8 DEF TypeInv, WriterOK, readerVars, clientVars
<1>4. CASE FlushFails
  <2>1. 0 \in 0..Len(outbuf)
    <3>1. Len(outbuf) \in Nat BY LenProperties DEF TypeInv
    <3> QED BY <3>1
  <2> QED BY <1>4, <2>1 DEF FlushFails, TypeInv, WriterOK, readerVars, clientVars
<1>5. CASE Die BY <1>5 DEF Die, TypeInv, WriterOK, readerVars, clientVars
<1>6. CASE Reset
  <2>1. <<>> \in Seq(Byte) /\ Len(<<>>) = 0 BY EmptySeq
  <2> QED BY <1>6, <2>1, Constants DEF Reset, TypeInv, WriterOK, writerVars, readerVars, clientVars
<1> QED BY <1>1, <1>2, <1>3, <1>4, <1>5, <1>6

\* No request.
LEMMA NoneType == None \in [at : Nat, len : Int] /\ None.len = -1 /\ None.at = 0
BY DEF None

\* Whatever bytes arrive for a prefix, in whatever pieces, intmp keeps its type and what is
\* decoded of it is a number (uvreader.c, on_read).
LEMMA PrefixBytes ==
  ASSUME TypeInv, NEW k \in Pieces, asked # None,
         intmp' = [i \in DOMAIN intmp |-> IF i \in asked.at..(asked.at + k - 1)
                                          THEN net[i - asked.at + 1] ELSE intmp[i]]
  PROVE  /\ intmp' \in [0..MaxBytes -> Byte] /\ intmp'[0] \in Byte
         /\ NumFollowing(intmp'[0]) \in Nat /\ NumFollowing(intmp'[0]) + 1 <= Widest
         /\ DecodedUint([i \in 1..(NumFollowing(intmp'[0]) + 1) |-> intmp'[i - 1]]) \in Nat
<1>1. k \in Nat \ {0} /\ k <= Len(net) /\ Len(net) \in Nat /\ net \in Seq(Byte) /\ asked.at \in Nat
      /\ intmp \in [0..MaxBytes -> Byte]
  BY PieceType DEF TypeInv
<1>2. intmp' \in [0..MaxBytes -> Byte]
  <2>1. ASSUME NEW i \in 0..MaxBytes, i \in asked.at..(asked.at + k - 1)
        PROVE  net[i - asked.at + 1] \in Byte
    <3>1. i - asked.at + 1 \in 1..Len(net) BY <1>1, <2>1, Constants
    <3> QED BY <1>1, <3>1, ElementOfSeq
  <2> QED BY <1>1, <2>1
<1>3. intmp'[0] \in Byte BY <1>2, Constants
<1> DEFINE b == intmp'[0]
<1> DEFINE n == NumFollowing(b)
<1>4. n \in Nat /\ n + 1 <= Widest
  BY <1>3, GobAssumption DEF NumFollowing, Widest, Byte
<1> DEFINE p == [i \in 1..(n + 1) |-> intmp'[i - 1]]
<1>5. DecodedUint(p) \in Nat
  <2> HIDE DEF n
  <2>1. p[1] = b BY <1>4
  <2>2. CASE b < Small BY <1>3, <2>1, <2>2 DEF DecodedUint, Byte
  <2>3. CASE n > MaxBytes /\ ~ (b < Small) BY <2>1, <2>3 DEF DecodedUint, n
  <2>4. CASE n <= MaxBytes
    <3>1. ASSUME NEW i \in 1..(n + 1) PROVE intmp'[i - 1] \in Byte
      <4>1. i - 1 \in 0..MaxBytes BY <1>4, <2>4, Constants
      <4> QED BY <1>2, <4>1
    <3>2. p \in Seq(Byte) /\ Len(p) = n + 1 BY <1>4, <3>1
    <3>3. p # <<>>
      <4>1. Len(<<>>) = 0 OBVIOUS
      <4> HIDE DEF p
      <4> QED BY <1>4, <3>2, <4>1
    <3>4. Complete(p)
      <4>1. Consumed(p) = n + 1 BY <2>1 DEF Consumed, n
      <4> HIDE DEF p
      <4> QED BY <1>4, <3>2, <3>3, <4>1 DEF Complete
    <3> HIDE DEF p
    <3> QED BY <3>2, <3>4, DecodedUintType DEF Byte
  <2> QED BY <1>4, <2>2, <2>3, <2>4, Constants
<1> QED BY <1>2, <1>3, <1>4, <1>5

\* Every callback of the reader keeps the types.
LEMMA ReaderStep ==
  ASSUME TypeInv, WriterOK, ReaderLoop
  PROVE  TypeInv' /\ WriterOK'
<1>1. CASE Alloc
  <2>1. /\ rpc = "reading" /\ asked = None
        /\ rpc' \in {"reading", "aborted"}
        /\ UNCHANGED <<writerVars, net, link, state, nread, intmp, plen, inbuf, inlen,
                       again, received, whole, broken>>
    BY <1>1 DEF Alloc
  <2>2. /\ inalloc' \in 0..Widest /\ asked' \in [at : Nat, len : Int]
        /\ asked'.at + asked'.len <= IF state = 0 THEN Widest ELSE inlen
    <3>1. CASE state = 0 /\ inalloc = 0
      <4>1. inalloc' = 1 /\ asked' = [at |-> 0, len |-> 1] BY <1>1, <3>1 DEF Alloc
      <4> QED BY <3>1, <4>1, Constants
    <3>2. CASE state = 0 /\ inalloc # 0
      <4>1. inalloc' = plen /\ asked' = [at |-> 1, len |-> plen - 1]
        BY <1>1, <3>2 DEF Alloc, AskAfterFirstByte
      <4> QED BY <3>2, <4>1, Constants DEF TypeInv
    <3>3. CASE state = 1
      <4>1. inalloc' = inalloc /\ asked' = [at |-> nread, len |-> inlen - nread]
        BY <1>1, <3>3 DEF Alloc, AskForBody
      <4> QED BY <3>3, <4>1, Constants DEF TypeInv
    <3> QED BY <3>1, <3>2, <3>3 DEF TypeInv
  <2>3. WriterOK' BY <2>1 DEF WriterOK, writerVars
  <2>4. asked' # None => asked'.at + asked'.len <= IF state' = 0 THEN Widest ELSE inlen'
    BY <2>1, <2>2
  <2> QED BY <2>1, <2>2, <2>3, <2>4 DEF TypeInv, writerVars
<1>2. CASE OnReadNothing
  <2>1. inalloc' \in 0..Widest BY <1>2, Constants DEF OnReadNothing, TypeInv
  <2> QED BY <1>2, <2>1, NoneType DEF OnReadNothing, TypeInv, WriterOK, writerVars
<1>3. CASE OnReadEnd
  BY <1>3, NoneType DEF OnReadEnd, TypeInv, WriterOK, writerVars, clientVars
<1>4. ASSUME NEW k \in Pieces, Arrives(k)
      PROVE  /\ net' \in Seq(Byte) /\ Len(net') <= NetSize /\ net # <<>>
             /\ asked' = None /\ asked # None /\ again' \in BOOLEAN
             /\ UNCHANGED <<writerVars, link, rpc>>
  <2>1. /\ net' = SubSeq(net, k + 1, Len(net)) /\ asked' = None /\ asked # None /\ again' \in BOOLEAN
        /\ UNCHANGED <<writerVars, link, rpc>>
    BY <1>4 DEF Arrives
  <2>2. /\ k \in Nat \ {0} /\ k <= Len(net) /\ Len(net) \in Nat
        /\ net' \in Seq(Byte) /\ Len(net') = Len(net) - k
    BY <2>1, PieceType
  <2>3. Len(net) <= NetSize BY DEF TypeInv
  <2>4. Len(<<>>) = 0 OBVIOUS
  <2> QED BY <2>1, <2>2, <2>3, <2>4, Constants
<1>5. CASE OnReadPrefix
  <2>1. PICK k \in Pieces :
          /\ Arrives(k)
          /\ intmp' = [i \in DOMAIN intmp |-> IF i \in asked.at..(asked.at + k - 1)
                                              THEN net[i - asked.at + 1] ELSE intmp[i]]
          /\ LET needed == NumFollowing(intmp'[0]) + 1
             IN IF nread + k < needed
                THEN /\ nread' = nread + k /\ plen' = needed
                     /\ UNCHANGED <<state, inlen, inbuf>>
                ELSE /\ state' = 1 /\ nread' = 0 /\ plen' = 0
                     /\ inlen' = DecodedUint([i \in 1..needed |-> intmp'[i - 1]])
                     /\ inbuf' = <<>>
          /\ broken' = (broken \/ k < asked.len)
    BY <1>5 DEF OnReadPrefix
  <2>2. UNCHANGED <<inalloc, received, whole>> /\ state = 0 BY <1>5 DEF OnReadPrefix
  <2>3. /\ net' \in Seq(Byte) /\ Len(net') <= NetSize /\ net # <<>>
        /\ asked' = None /\ asked # None /\ again' \in BOOLEAN
        /\ UNCHANGED <<writerVars, link, rpc>>
    BY <2>1, <1>4
  <2> DEFINE needed == NumFollowing(intmp'[0]) + 1
  <2>4. /\ intmp' \in [0..MaxBytes -> Byte] /\ needed \in 0..Widest
        /\ DecodedUint([i \in 1..needed |-> intmp'[i - 1]]) \in Nat
    <3>1. /\ intmp' \in [0..MaxBytes -> Byte] /\ NumFollowing(intmp'[0]) \in Nat /\ needed <= Widest
          /\ DecodedUint([i \in 1..needed |-> intmp'[i - 1]]) \in Nat
      BY <2>1, <2>3, PrefixBytes
    <3> QED BY <3>1
  <2>5. k \in Nat BY PieceType
  <2>6. <<>> \in Seq(Byte) /\ Len(<<>>) = 0 BY EmptySeq
  <2>7. /\ state' \in {0, 1} /\ nread' \in Nat /\ plen' \in 0..Widest /\ inlen' \in Nat
        /\ inbuf' \in Seq(Byte) /\ Len(inbuf') = IF state' = 1 THEN nread' ELSE 0
    <3>1. CASE nread + k < needed
      <4>1. nread' = nread + k /\ plen' = needed /\ UNCHANGED <<state, inlen, inbuf>>
        BY <2>1, <3>1
      <4> HIDE DEF needed
      <4> QED BY <2>2, <2>4, <2>5, <4>1 DEF TypeInv
    <3>2. CASE ~ (nread + k < needed)
      <4>1. /\ state' = 1 /\ nread' = 0 /\ plen' = 0
            /\ inlen' = DecodedUint([i \in 1..needed |-> intmp'[i - 1]])
            /\ inbuf' = <<>>
        BY <2>1, <3>2
      <4> QED BY <2>4, <2>6, <4>1, Constants
    <3> QED BY <3>1, <3>2
  <2>8. broken' \in BOOLEAN BY <2>1 DEF TypeInv
  <2> QED BY <2>2, <2>3, <2>4, <2>7, <2>8, NoneType DEF TypeInv, WriterOK, writerVars
<1>6. CASE OnReadBody
  <2>1. PICK k \in Pieces :
          /\ Arrives(k)
          /\ LET body == inbuf \o SubSeq(net, 1, k)
             IN IF nread + k = inlen
                THEN /\ received' = Append(received, body)
                     /\ whole' = IF broken THEN whole ELSE whole + 1
                     /\ nread' = 0 /\ state' = 0 /\ inalloc' = 0 /\ inlen' = 0
                     /\ inbuf' = <<>>
                ELSE /\ nread' = nread + k /\ inbuf' = body
                     /\ UNCHANGED <<received, whole, state, inalloc, inlen>>
    BY <1>6 DEF OnReadBody
  <2>2. UNCHANGED <<intmp, plen, broken>> /\ state = 1 BY <1>6 DEF OnReadBody
  <2>3. /\ net' \in Seq(Byte) /\ Len(net') <= NetSize /\ net # <<>>
        /\ asked' = None /\ again' \in BOOLEAN
        /\ UNCHANGED <<writerVars, link, rpc>>
    BY <2>1, <1>4
  <2> DEFINE body == inbuf \o SubSeq(net, 1, k)
  <2>4. k \in Nat /\ SubSeq(net, 1, k) \in Seq(Byte) /\ Len(SubSeq(net, 1, k)) = k
    BY PieceType
  <2>5. inbuf \in Seq(Byte) /\ Len(inbuf) = nread /\ nread \in Nat BY <2>2 DEF TypeInv
  <2>6. body \in Seq(Byte) /\ Len(body) = nread + k BY <2>4, <2>5, ConcatProperties
  <2> HIDE DEF body
  <2>7. CASE nread + k = inlen
    <3>1. /\ received' = Append(received, body)
          /\ whole' = IF broken THEN whole ELSE whole + 1
          /\ nread' = 0 /\ state' = 0 /\ inalloc' = 0 /\ inlen' = 0 /\ inbuf' = <<>>
      BY <2>1, <2>7 DEF body
    <3>2. received \in Seq(Seq(Byte)) /\ Len(received) \in Nat /\ whole \in 0..Len(received)
      BY LenProperties DEF TypeInv
    <3>3. received' \in Seq(Seq(Byte)) /\ Len(received') = Len(received) + 1
      BY <2>6, <3>1, <3>2, AppendProperties
    <3>4. whole' \in 0..Len(received') BY <3>1, <3>2, <3>3
    <3>5. <<>> \in Seq(Byte) /\ Len(<<>>) = 0 BY EmptySeq
    <3> QED BY <2>2, <2>3, <3>1, <3>3, <3>4, <3>5, Constants, NoneType DEF TypeInv, WriterOK, writerVars
  <2>8. CASE nread + k # inlen
    <3>1. /\ nread' = nread + k /\ inbuf' = body
          /\ UNCHANGED <<received, whole, state, inalloc, inlen>>
      BY <2>1, <2>8 DEF body
    <3>2. nread' \in Nat BY <2>4, <2>5, <3>1
    <3> QED BY <2>2, <2>3, <2>6, <3>1, <3>2, NoneType DEF TypeInv, WriterOK, writerVars
  <2> QED BY <2>7, <2>8
<1> QED BY <1>1, <1>2, <1>3, <1>5, <1>6 DEF ReaderLoop

\* Every step does.
LEMMA TypeStep ==
  ASSUME TypeInv, WriterOK, [Next]_vars
  PROVE  TypeInv' /\ WriterOK'
<1>1. CASE WriterLoop \/ Die \/ Reset BY <1>1, WriterStep DEF WriterLoop
<1>2. CASE ReaderLoop BY <1>2, ReaderStep
<1>3. CASE UNCHANGED vars
  BY <1>3 DEF vars, writerVars, readerVars, clientVars, TypeInv, WriterOK
<1> QED BY <1>1, <1>2, <1>3 DEF Next

\* Both programs start with the types.
LEMMA TypeInit == Init => TypeInv /\ WriterOK
<1> SUFFICES ASSUME Init PROVE TypeInv /\ WriterOK OBVIOUS
<1>1. <<>> \in Seq(Byte) /\ <<>> \in Seq(Bodies) /\ <<>> \in Seq(Seq(Byte)) BY EmptySeq
<1>2. args \in Arguments /\ args.start \in Nat /\ args.start <= args.start
  BY ArgumentsType DEF Init
<1>3. intmp \in [0..MaxBytes -> Byte] BY UvAssumption DEF Init, Byte
<1>4. Len(<<>>) = 0 OBVIOUS
<1>5. /\ current_len = args.start /\ wpc = "connecting" /\ outbuf = <<>> /\ left = 0 /\ sent = <<>>
      /\ net = <<>> /\ link = "up" /\ rpc = "reading" /\ state = 0 /\ nread = 0 /\ inalloc = 0
      /\ plen = 0 /\ inlen = 0 /\ inbuf = <<>> /\ asked = None /\ again = FALSE
      /\ received = <<>> /\ whole = 0 /\ broken = FALSE
  BY DEF Init
<1>6. WriterOK BY <1>2, <1>5 DEF WriterOK
<1>7. 0 \in 0..Widest /\ 0 \in 0..Len(<<>>) /\ Len(net) <= NetSize BY <1>4, <1>5, Constants
<1>8. TypeInv BY <1>1, <1>2, <1>3, <1>4, <1>5, <1>7, NoneType DEF TypeInv
<1> QED BY <1>6, <1>8

(***************************************************************************)
(* The reader knows where it is.                                           *)
(***************************************************************************)
\* The bytes of the request that are still to be sent.
Rest == SubSeq(outbuf, Len(outbuf) - left + 1, Len(outbuf))

\* Where the reader is in a prefix: before its first byte, or behind it with the number of the
\* others known; and what it has asked for is that byte or those.
PrefixOK ==
  state = 0 =>
    /\ nread = 0 /\ rpc = "reading" =>
         \/ asked = None /\ inalloc = 0
         \/ asked = [at |-> 0, len |-> 1] /\ inalloc = 1
    /\ nread # 0 =>
         /\ nread = 1 /\ plen = NumFollowing(intmp[0]) + 1 /\ plen \in 2..(MaxBytes + 1)
         /\ rpc = "reading" =>
            \/ asked = None /\ inalloc = 1
            \/ asked = [at |-> 1, len |-> plen - 1] /\ inalloc = plen

\* Where it is in a body: before its last byte, and what it has asked for is what is missing.
BodyOK ==
  state = 1 =>
    /\ nread < inlen /\ inlen < Power[MaxBytes]
    /\ asked = None \/ asked = [at |-> nread, len |-> inlen - nread]

\* The reader knows where it is.  It stops only when the stream is at its end.
Sync ==
  /\ link = "up"
  /\ whole = Len(received) /\ whole <= Len(sent)
  /\ \A i \in 1..Len(received) : received[i] = sent[i]
  /\ rpc # "reading" => WriterEnded /\ net = <<>> /\ asked = None
  /\ plen <= MaxBytes + 1 /\ inalloc <= MaxBytes + 1
  /\ PrefixOK /\ BodyOK
  /\ (Held \o net) \o Rest = Stream(Pending)

\* The inductive invariant.
SyncInv == whole <= Len(Completed) /\ (~ broken => Sync)

\* The unsent bytes have the length left says.
LEMMA RestType ==
  ASSUME TypeInv
  PROVE  Rest \in Seq(Byte) /\ Len(Rest) = left /\ left \in Nat /\ Len(outbuf) \in Nat
<1>1. outbuf \in Seq(Byte) /\ Len(outbuf) \in Nat /\ left \in 0..Len(outbuf)
  BY LenProperties DEF TypeInv
<1> DEFINE d == Len(outbuf) - left
<1>2. d \in 0..Len(outbuf) BY <1>1
<1>3. Rest = SubSeq(outbuf, d + 1, Len(outbuf)) BY DEF Rest
<1>4. Len(outbuf) - d = left BY <1>1
<1> HIDE DEF d
<1>5. Rest \in Seq(Byte) /\ Len(Rest) = Len(outbuf) - d BY <1>1, <1>2, <1>3, SplitAt
<1> QED BY <1>1, <1>4, <1>5

\* The bytes the reader holds of the message at hand.
LEMMA HeldType ==
  ASSUME TypeInv, Sync
  PROVE  /\ Held \in Seq(Byte) /\ Held \o net \in Seq(Byte) /\ net \in Seq(Byte)
         /\ state = 0 => /\ nread \in {0, 1} /\ Len(Held) = nread
                         /\ \A i \in 1..nread : Held[i] = intmp[i - 1]
<1>1. CASE state = 0
  <2>1. nread \in {0, 1} BY <1>1 DEF Sync, PrefixOK
  <2>2. \A i \in 1..nread : intmp[i - 1] \in Byte
    <3> TAKE i \in 1..nread
    <3>1. i - 1 \in 0..MaxBytes BY <2>1, Constants
    <3> QED BY <3>1 DEF TypeInv
  <2>3. Held = [i \in 1..nread |-> intmp[i - 1]] BY <1>1 DEF Held
  <2>4. Held \in Seq(Byte) /\ Len(Held) = nread BY <2>1, <2>2, <2>3
  <2>5. net \in Seq(Byte) BY DEF TypeInv
  <2> QED BY <1>1, <2>1, <2>3, <2>4, <2>5, ConcatProperties
<1>2. CASE state # 0
  <2>1. state = 1 /\ inlen \in Nat /\ inbuf \in Seq(Byte) /\ net \in Seq(Byte)
    BY <1>2 DEF TypeInv
  <2>2. inlen < Power[MaxBytes] BY <2>1 DEF Sync, BodyOK
  <2>3. EncodedUint(inlen) \in Seq(Byte) BY <2>1, <2>2, EncodedUintType DEF Byte
  <2>4. EncodedUint(inlen) \o inbuf \in Seq(Byte) BY <2>1, <2>3, ConcatProperties
  <2>5. Held \in Seq(Byte) BY <1>2, <2>4 DEF Held
  <2> QED BY <1>2, <2>1, <2>5, ConcatProperties
<1> QED BY <1>1, <1>2

\* The messages sent, and those received.
LEMMA SentType ==
  ASSUME TypeInv
  PROVE  sent \in Seq(Sendable) /\ Len(sent) \in Nat /\ Len(received) \in Nat /\ whole \in Nat
         /\ received \in Seq(Seq(Byte))
<1>1. sent \in Seq(Bodies) /\ received \in Seq(Seq(Byte)) /\ whole \in 0..Len(received)
  BY DEF TypeInv
<1>2. sent \in Seq(Sendable) BY <1>1, BodiesSendable, SeqMonotonic
<1>3. Len(sent) \in Nat /\ Len(received) \in Nat BY <1>1, LenProperties
<1> QED BY <1>1, <1>2, <1>3

\* The messages not yet received can be sent.
LEMMA PendingType ==
  ASSUME TypeInv, Sync
  PROVE  Pending \in Seq(Sendable) /\ Len(received) \in 0..Len(sent)
<1>1. Len(received) \in 0..Len(sent) BY SentType DEF Sync
<1> QED BY <1>1, SentType, SplitAt DEF Pending

\* The next of them.
LEMMA NextPending ==
  ASSUME TypeInv, Sync, Pending # <<>>
  PROVE  /\ whole < Len(sent) /\ whole = Len(received)
         /\ Head(Pending) = sent[whole + 1] /\ sent[whole + 1] \in Bodies
         /\ Tail(Pending) = SubSeq(sent, (whole + 1) + 1, Len(sent))
         /\ Tail(Pending) \in Seq(Sendable)
<1>1. sent \in Seq(Sendable) /\ sent \in Seq(Bodies) /\ Len(sent) \in Nat /\ whole \in Nat
      /\ whole = Len(received) /\ whole <= Len(sent)
  BY SentType DEF Sync, TypeInv
<1>2. whole < Len(sent)
  <2> SUFFICES ASSUME ~ (whole < Len(sent)) PROVE FALSE OBVIOUS
  <2>1. whole = Len(sent) BY <1>1
  <2> QED BY <1>1, <2>1, AfterAll DEF Pending
<1>3. /\ Head(Pending) = sent[whole + 1] /\ sent[whole + 1] \in Bodies
      /\ Tail(Pending) = SubSeq(sent, (whole + 1) + 1, Len(sent))
  BY <1>1, <1>2, AfterHeadTail DEF Pending
<1>4. Tail(Pending) \in Seq(Sendable)
  <2> DEFINE k == whole + 1
  <2> DEFINE t == SubSeq(sent, k + 1, Len(sent))
  <2>1. k \in 0..Len(sent) /\ Tail(Pending) = t BY <1>1, <1>2, <1>3
  <2>2. sent \in Seq(Sendable) BY <1>1
  <2> HIDE DEF k
  <2>3. t \in Seq(Sendable) BY ONLY <2>1, <2>2, SplitAt
  <2> HIDE DEF t
  <2> QED BY <2>1, <2>3
<1> QED BY <1>1, <1>2, <1>3, <1>4

\* A message handed to uv_write.
LEMMA SendSync ==
  ASSUME TypeInv, TypeInv', Sync, left = 0, wpc \in {"connecting", "writing"},
         NEW b \in Bodies, sent' = Append(sent, b), outbuf' = Frame(b), left' = Len(outbuf'),
         UNCHANGED <<net, link, readerVars>>
  PROVE  Sync'
<1>1. Held \in Seq(Byte) /\ net \in Seq(Byte) /\ Held \o net \in Seq(Byte) BY HeldType
<1>2. Rest = <<>> BY RestType, EmptySeq
<1>3. Held \o net = Stream(Pending)
  <2>1. (Held \o net) \o <<>> = Held \o net
    <3> DEFINE h == Held \o net
    <3>1. h \in Seq(Byte) BY <1>1
    <3> HIDE DEF h
    <3>2. h \o <<>> = h BY <3>1, ConcatEmptySeq
    <3> QED BY <3>2 DEF h
  <2> QED BY <1>2, <2>1 DEF Sync
<1>4. b \in Sendable /\ Frame(b) \in Seq(Byte) BY BodiesSendable, FrameType
<1>5. Rest' = Frame(b)
  <2>1. Len(outbuf') \in Nat BY <1>4, LenProperties
  <2>2. Len(outbuf') - left' + 1 = 1 BY <2>1
  <2>3. Rest' = SubSeq(outbuf', 1, Len(outbuf')) BY <2>2 DEF Rest
  <2> QED BY <1>4, <2>3, SubSeqFull
<1>6. Pending' = Append(Pending, b)
  <2>1. received' = received BY DEF readerVars
  <2>2. sent \in Seq(Sendable) /\ Len(received) \in 0..Len(sent) BY SentType, PendingType
  <2> QED BY <1>4, <2>1, <2>2, AfterAppend DEF Pending
<1>7. Stream(Pending') = Stream(Pending) \o Frame(b) BY <1>4, <1>6, PendingType, StreamAppend
<1>8. Held' = Held BY DEF Held, readerVars, clientVars
<1>9. ((Held \o net) \o Rest)' = Stream(Pending')
  <2>1. ((Held \o net) \o Rest)' = (Held \o net) \o Frame(b) BY <1>5, <1>8
  <2> QED BY <1>3, <1>7, <2>1
<1>10. /\ Len(sent') = Len(sent) + 1 /\ Len(sent) \in Nat /\ Len(received) \in Nat
       /\ \A i \in 1..Len(sent) : sent'[i] = sent[i]
  BY <1>4, SentType, AppendProperties
<1>11. rpc = "reading" BY DEF Sync, WriterEnded
<1>12. whole' <= Len(sent') /\ \A i \in 1..Len(received') : received'[i] = sent'[i]
  BY <1>10, SentType DEF Sync, readerVars
<1> QED BY <1>9, <1>11, <1>12 DEF Sync, PrefixOK, BodyOK, readerVars, clientVars

\* What stays in the stream while bytes move towards the reader.
LEMMA FlushSync ==
  ASSUME TypeInv, TypeInv', Sync, Flush
  PROVE  Sync'
<1>1. PICK k \in 1..Min({left, NetSize - Len(net)}) :
        /\ net' = net \o SubSeq(outbuf, Len(outbuf) - left + 1, Len(outbuf) - left + k)
        /\ left' = left - k
  BY DEF Flush
<1>2. /\ wpc = "writing" /\ rpc = "reading"
      /\ UNCHANGED <<args, wpc, current_len, outbuf, sent, link, readerVars, broken>>
  BY DEF Flush, ReaderGone
<1>3. /\ Len(net) \in Nat /\ Len(outbuf) \in Nat /\ left \in 0..Len(outbuf)
      /\ net \in Seq(Byte) /\ outbuf \in Seq(Byte)
  BY LenProperties DEF TypeInv
<1>4. k \in Nat \ {0} /\ k <= left
  <2>1. left \in Int /\ NetSize - Len(net) \in Int BY <1>3, Constants
  <2>2. Min({left, NetSize - Len(net)})
          = IF left <= NetSize - Len(net) THEN left ELSE NetSize - Len(net)
    BY <2>1, MinOfTwo
  <2> QED BY <2>1, <2>2
<1> DEFINE f == Len(outbuf) - left + 1
<1> DEFINE g == Len(outbuf) - left + k
<1> DEFINE x == SubSeq(outbuf, f, g)
<1> DEFINE y == SubSeq(outbuf, g + 1, Len(outbuf))
<1>5. Rest = SubSeq(outbuf, f, Len(outbuf)) /\ Rest' = y
  <2>1. Len(outbuf) - left' + 1 = g + 1 BY <1>1, <1>3, <1>4
  <2> QED BY <1>2, <2>1 DEF Rest
<1>6. x \o y = Rest /\ x \in Seq(Byte) /\ y \in Seq(Byte)
  <2>1. f \in 1..(Len(outbuf) + 1) /\ g \in (f - 1)..Len(outbuf) /\ Len(outbuf) \in g..Len(outbuf)
    BY <1>3, <1>4
  <2> HIDE DEF f, g
  <2>2. SubSeq(outbuf, f, g) \o SubSeq(outbuf, g + 1, Len(outbuf)) = SubSeq(outbuf, f, Len(outbuf))
    BY <1>3, <2>1, ConcatAdjacentSubSeq
  <2>3. SubSeq(outbuf, f, g) \in Seq(Byte) BY <1>3, <2>1, SubSeqProperties
  <2>4. SubSeq(outbuf, g + 1, Len(outbuf)) \in Seq(Byte)
    <3>1. g \in 0..Len(outbuf) BY <1>3, <2>1
    <3> QED BY <1>3, <3>1, SplitAt
  <2> QED BY <1>5, <2>2, <2>3, <2>4
<1>7. net' = net \o x BY <1>1
<1> HIDE DEF x, y
<1>8. Held \in Seq(Byte) /\ Held' = Held /\ Pending' = Pending
  BY <1>2, HeldType DEF Held, Pending, readerVars, clientVars
<1>9. (Held' \o net') \o Rest' = Stream(Pending')
  <2>1. Associates(Held, net, x) /\ Held \o net \in Seq(Byte) BY <1>3, <1>6, <1>8, Associative, ConcatProperties
  <2>2. Associates(Held \o net, x, y) BY <1>6, <2>1, Associative
  <2>3. Held \o (net \o x) = (Held \o net) \o x BY <2>1 DEF Associates
  <2>4. ((Held \o net) \o x) \o y = (Held \o net) \o Rest BY <1>6, <2>2 DEF Associates
  <2>5. (Held \o net) \o Rest = Stream(Pending) BY DEF Sync
  <2> QED BY <1>5, <1>7, <1>8, <2>3, <2>4, <2>5
<1> QED BY <1>2, <1>9 DEF Sync, PrefixOK, BodyOK, readerVars, clientVars

\* A read for a prefix that brings all it was asked for brings the first byte, or all others.
LEMMA PrefixPiece ==
  ASSUME TypeInv, Sync, NEW k \in Pieces, Arrives(k), state = 0, ~ (k < asked.len)
  PROVE  /\ asked.at = nread /\ nread \in {0, 1} /\ nread + k \in 1..(MaxBytes + 1)
         /\ k \in Nat \ {0} /\ rpc = "reading"
         /\ nread = 0 => k = 1 /\ inalloc = 1
         /\ nread = 1 => /\ k = plen - 1 /\ plen = NumFollowing(intmp[0]) + 1
<1>1. asked # None /\ rpc = "reading" BY DEF Arrives
<1>2. k \in Nat \ {0} /\ k <= asked.len /\ asked.len \in Int BY PieceType DEF TypeInv
<1>3. k = asked.len BY <1>2
<1>4. CASE nread = 0
  <2>1. asked = [at |-> 0, len |-> 1] /\ inalloc = 1 BY <1>1, <1>4 DEF Sync, PrefixOK
  <2> QED BY <1>1, <1>3, <1>4, <2>1, Constants
<1>5. CASE nread # 0
  <2>1. /\ nread = 1 /\ asked = [at |-> 1, len |-> plen - 1] /\ plen \in 2..(MaxBytes + 1)
        /\ plen = NumFollowing(intmp[0]) + 1
    BY <1>1, <1>5 DEF Sync, PrefixOK
  <2>2. k = plen - 1 BY <1>3, <2>1
  <2>3. nread + k \in 1..(MaxBytes + 1)
    <3>1. plen \in 2..(MaxBytes + 1) /\ k = plen - 1 /\ nread = 1 BY <2>1, <2>2
    <3> QED BY <3>1, Constants
  <2> QED BY <1>1, <1>2, <2>1, <2>2, <2>3
<1> QED BY <1>4, <1>5

\* What intmp holds after it is the beginning of the stream.
LEMMA PrefixGathered ==
  ASSUME TypeInv, Sync, NEW k \in Pieces, Arrives(k), state = 0, ~ (k < asked.len),
         intmp' = [i \in DOMAIN intmp |-> IF i \in asked.at..(asked.at + k - 1)
                                          THEN net[i - asked.at + 1] ELSE intmp[i]]
  PROVE  LET p == [i \in 1..(nread + k) |-> intmp'[i - 1]]
         IN /\ p \in Seq(Byte) /\ Len(p) = nread + k /\ p # <<>>
            /\ p[1] = intmp'[0]
            /\ nread = 1 => p[1] = intmp[0]
            /\ p \o (net' \o Rest) = Stream(Pending) /\ net' \o Rest \in Seq(Byte)
<1> DEFINE p == [i \in 1..(nread + k) |-> intmp'[i - 1]]
<1> DEFINE x == SubSeq(net, 1, k)
<1> DEFINE h == Held
<1>1. /\ asked.at = nread /\ nread \in {0, 1} /\ nread + k \in 1..(MaxBytes + 1)
      /\ k \in Nat \ {0}
  BY PrefixPiece
<1>2. /\ x \in Seq(Byte) /\ Len(x) = k /\ net' \in Seq(Byte) /\ x \o net' = net
      /\ net \in Seq(Byte) /\ k \in 0..Len(net)
  BY PieceType DEF Arrives, TypeInv
<1>3. h \in Seq(Byte) /\ Len(h) = nread /\ \A i \in 1..nread : h[i] = intmp[i - 1] BY HeldType
<1>4. \A i \in 1..k : x[i] = net[i] BY <1>2, ElementOfSplit
<1> HIDE DEF x, h
<1>5. /\ h \o x \in Seq(Byte) /\ Len(h \o x) = nread + k
      /\ \A i \in 1..(nread + k) : (h \o x)[i] = IF i <= nread THEN h[i] ELSE x[i - nread]
  BY <1>2, <1>3, ConcatProperties
<1>6. p = h \o x
  <2>1. ASSUME NEW i \in 1..(nread + k) PROVE p[i] = (h \o x)[i]
    <3>1. i - 1 \in DOMAIN intmp
      <4>1. i - 1 \in 0..MaxBytes BY <1>1, Constants
      <4> QED BY <4>1 DEF TypeInv
    <3>2. p[i] = IF i - 1 \in nread..(nread + k - 1) THEN net[(i - 1) - nread + 1] ELSE intmp[i - 1]
      BY <1>1, <3>1
    <3>3. CASE i <= nread
      <4>1. i - 1 \notin nread..(nread + k - 1) /\ i \in 1..nread BY <1>1, <3>3
      <4> HIDE DEF p
      <4> QED BY <1>3, <1>5, <3>2, <3>3, <4>1
    <3>4. CASE ~ (i <= nread)
      <4>1. i - 1 \in nread..(nread + k - 1) /\ (i - 1) - nread + 1 = i - nread /\ i - nread \in 1..k
        BY <1>1, <3>4
      <4> HIDE DEF p
      <4> QED BY <1>4, <1>5, <3>2, <3>4, <4>1
    <3> QED BY <3>3, <3>4
  <2>2. DOMAIN p = 1..(nread + k) OBVIOUS
  <2>3. p \in Seq(Byte)
    <3> DEFINE hx == h \o x
    <3>1. hx \in Seq(Byte) /\ Len(hx) = nread + k BY <1>5
    <3>2. \A i \in 1..(nread + k) : p[i] = hx[i] BY <2>1
    <3> HIDE DEF hx
    <3>3. \A i \in 1..(nread + k) : hx[i] \in Byte BY <3>1, ElementOfSeq
    <3>4. \A i \in 1..(nread + k) : intmp'[i - 1] \in Byte BY <3>2, <3>3
    <3> QED BY <1>1, <3>4
  <2>4. Len(p) = nread + k BY <1>1
  <2> HIDE DEF p
  <2> DEFINE hx == h \o x
  <2>5. hx \in Seq(Byte) /\ Len(hx) = Len(p) /\ \A i \in 1..Len(p) : p[i] = hx[i]
    BY <1>5, <2>1, <2>4
  <2> HIDE DEF hx
  <2>6. p = hx BY <2>3, <2>5, SeqEqual
  <2> QED BY <2>6 DEF hx
<1>7. Len(p) = nread + k /\ p[1] = intmp'[0]
  <2>1. 1 \in 1..(nread + k) BY <1>1
  <2> QED BY <1>1, <2>1
<1>8. nread = 1 => p[1] = intmp[0]
  <2> SUFFICES ASSUME nread = 1 PROVE p[1] = intmp[0] OBVIOUS
  <2>1. (h \o x)[1] = h[1] /\ h[1] = intmp[1 - 1]
    <3>1. 1 \in 1..(nread + k) /\ 1 \in 1..nread BY <1>1
    <3> QED BY <1>3, <1>5, <3>1
  <2> HIDE DEF p
  <2> QED BY <1>6, <2>1
<1> HIDE DEF p
<1>9. p \in Seq(Byte) BY <1>5, <1>6
<1>10. p # <<>>
  <2>1. Len(<<>>) = 0 OBVIOUS
  <2> QED BY <1>1, <1>7, <2>1
<1>11. p \o (net' \o Rest) = Stream(Pending)
  <2>1. Rest \in Seq(Byte) BY RestType
  <2>2. Regroups(h, x, net', Rest) BY <1>2, <1>3, <2>1, Regroup
  <2>3. (h \o net) \o Rest = Stream(Pending) BY DEF Sync, h
  <2> QED BY <1>2, <1>6, <2>2, <2>3 DEF Regroups
<1>12. net' \o Rest \in Seq(Byte) BY <1>2, RestType, ConcatProperties
<1> QED BY <1>7, <1>8, <1>9, <1>10, <1>11, <1>12 DEF p

\* on_read in state 0 keeps the reader in step: of the first byte it learns how many there are,
\* of all of them the length of the body.
LEMMA PrefixSync ==
  ASSUME TypeInv, TypeInv', Sync, OnReadPrefix, ~ broken'
  PROVE  Sync'
<1>1. PICK k \in Pieces :
        /\ Arrives(k)
        /\ intmp' = [i \in DOMAIN intmp |-> IF i \in asked.at..(asked.at + k - 1)
                                            THEN net[i - asked.at + 1] ELSE intmp[i]]
        /\ LET needed == NumFollowing(intmp'[0]) + 1
           IN IF nread + k < needed
              THEN /\ nread' = nread + k /\ plen' = needed
                   /\ UNCHANGED <<state, inlen, inbuf>>
              ELSE /\ state' = 1 /\ nread' = 0 /\ plen' = 0
                   /\ inlen' = DecodedUint([i \in 1..needed |-> intmp'[i - 1]])
                   /\ inbuf' = <<>>
        /\ broken' = (broken \/ k < asked.len)
  BY DEF OnReadPrefix
<1>2. UNCHANGED <<inalloc, received, whole>> /\ state = 0 BY DEF OnReadPrefix
<1>3. asked' = None /\ UNCHANGED <<writerVars, link, rpc>> BY <1>1 DEF Arrives
<1>4. ~ (k < asked.len) BY <1>1
<1> DEFINE p == [i \in 1..(nread + k) |-> intmp'[i - 1]]
<1> DEFINE needed == NumFollowing(intmp'[0]) + 1
<1> DEFINE coming == net' \o Rest
<1>5. /\ nread \in {0, 1} /\ nread + k \in 1..(MaxBytes + 1)
      /\ k \in Nat \ {0} /\ rpc = "reading"
      /\ nread = 0 => k = 1 /\ inalloc = 1
      /\ nread = 1 => k = plen - 1 /\ plen = NumFollowing(intmp[0]) + 1
  BY <1>1, <1>2, <1>4, PrefixPiece
<1>6. /\ p \in Seq(Byte) /\ Len(p) = nread + k /\ p # <<>> /\ p[1] = intmp'[0]
      /\ nread = 1 => p[1] = intmp[0]
      /\ p \o coming = Stream(Pending) /\ coming \in Seq(Byte)
  BY <1>1, <1>2, <1>4, PrefixGathered
<1>7. Pending \in Seq(Sendable) BY PendingType
<1> HIDE DEF p, coming
<1>8. /\ Pending # <<>> /\ NumFollowing(p[1]) \in 0..MaxBytes
  BY <1>6, <1>7, FirstOfStream
<1>9. needed \in 1..(MaxBytes + 1) /\ needed = NumFollowing(p[1]) + 1
  BY <1>6, <1>8, Constants
<1>10. Rest' = Rest /\ Pending' = Pending /\ Rest \in Seq(Byte) /\ net' \in Seq(Byte)
  BY <1>2, <1>3, RestType DEF Rest, Pending, writerVars, TypeInv
<1>11. ASSUME Held' = p PROVE (Held' \o net') \o Rest' = Stream(Pending')
  <2>1. Associates(p, net', Rest) BY <1>6, <1>10, Associative
  <2> QED BY <1>6, <1>10, <1>11, <2>1 DEF Associates, coming
<1>12. CASE nread + k < needed
  <2>1. nread' = nread + k /\ plen' = needed /\ UNCHANGED <<state, inlen, inbuf>>
    BY <1>1, <1>12
  <2>2. nread = 0 /\ k = 1 BY <1>5, <1>6, <1>9, <1>12
  <2>3. Held' = p BY <1>2, <2>1 DEF Held, p
  <2>4. (Held' \o net') \o Rest' = Stream(Pending') BY <1>11, <2>3
  <2>5. PrefixOK'
    <3>1. nread' = 1 /\ plen' = NumFollowing(intmp'[0]) + 1 /\ plen' \in 2..(MaxBytes + 1)
      BY <1>9, <1>12, <2>1, <2>2
    <3> QED BY <1>2, <1>3, <1>5, <2>2, <3>1 DEF PrefixOK
  <2>6. BodyOK' BY <1>2, <2>1 DEF BodyOK
  <2>7. plen' <= MaxBytes + 1 BY <1>9, <2>1, Constants
  <2> QED BY <1>2, <1>3, <1>5, <2>4, <2>5, <2>6, <2>7 DEF Sync, writerVars
<1>13. CASE ~ (nread + k < needed)
  <2>1. /\ state' = 1 /\ nread' = 0 /\ plen' = 0 /\ inbuf' = <<>>
        /\ inlen' = DecodedUint([i \in 1..needed |-> intmp'[i - 1]])
    BY <1>1, <1>13
  <2>2. needed = nread + k
    <3>1. CASE nread = 0 BY <1>5, <1>9, <1>13, <3>1
    <3>2. CASE nread = 1 BY <1>5, <1>6, <1>9, <3>2
    <3> QED BY <1>5, <3>1, <3>2
  <2>3. inlen' = DecodedUint(p) BY <2>1, <2>2 DEF p
  <2>4. Complete(p) /\ Len(p) = Consumed(p)
    BY <1>5, <1>6, <1>9, <2>2 DEF Complete, Consumed
  <2>5. p = EncodedUint(Len(Head(Pending))) /\ DecodedUint(p) = Len(Head(Pending))
    BY <1>6, <1>7, <2>4, PrefixOfStream
  <2>6. inlen' \in Nat \ {0} /\ inlen' < Power[MaxBytes]
    <3>1. Head(Pending) \in Bodies BY <1>8, NextPending
    <3>2. Head(Pending) \in Sendable /\ Head(Pending) # <<>> BY <3>1, BodiesSendable
    <3>3. Head(Pending) \in Seq(Byte) /\ Len(Head(Pending)) < Power[MaxBytes] BY <3>2, FrameType
    <3>4. Len(Head(Pending)) \in Nat \ {0} BY <3>2, <3>3, EmptySeq
    <3> QED BY <2>3, <2>5, <3>3, <3>4
  <2>7. Held' = p
    <3>1. Held' = EncodedUint(inlen') \o <<>> BY <2>1 DEF Held
    <3>2. EncodedUint(inlen') = p BY <2>3, <2>5
    <3>3. p \o <<>> = p BY <1>6, ConcatEmptySeq
    <3> QED BY <3>1, <3>2, <3>3
  <2>8. (Held' \o net') \o Rest' = Stream(Pending') BY <1>11, <2>7
  <2>9. PrefixOK' /\ BodyOK' BY <1>3, <2>1, <2>6 DEF PrefixOK, BodyOK
  <2>10. plen' <= MaxBytes + 1 BY <2>1, Constants
  <2> QED BY <1>2, <1>3, <1>5, <2>8, <2>9, <2>10 DEF Sync, writerVars
<1> QED BY <1>12, <1>13

(***************************************************************************)
(* The bodies, and what holds of all steps.                                *)
(***************************************************************************)

\* What on_read does in state 1: the bytes gathered are the beginning of the next message, and
\* whole when there are as many as its prefix says.
LEMMA BodyGathered ==
  ASSUME TypeInv, Sync, ~ broken, OnReadBody
  PROVE  /\ Pending # <<>> /\ Pending \in Seq(Sendable) /\ inlen = Len(Head(Pending))
         /\ asked' = None /\ state = 1 /\ rpc = "reading" /\ ~ broken'
         /\ UNCHANGED <<writerVars, link, rpc, intmp, plen>>
         /\ \E k \in Nat \ {0} : \E body \in Seq(Byte) :
              /\ nread + k <= inlen /\ Len(body) = nread + k
              /\ body \o (net' \o Rest) = Head(Pending) \o Stream(Tail(Pending))
              /\ EncodedUint(inlen) \o (body \o (net' \o Rest)) = Stream(Pending)
              /\ nread + k = inlen =>
                   /\ received' = Append(received, body) /\ whole' = whole + 1
                   /\ nread' = 0 /\ state' = 0 /\ inalloc' = 0 /\ inlen' = 0 /\ inbuf' = <<>>
              /\ nread + k # inlen =>
                   /\ nread' = nread + k /\ inbuf' = body
                   /\ UNCHANGED <<received, whole, state, inalloc, inlen>>
<1>1. PICK k \in Pieces :
        /\ Arrives(k)
        /\ LET body == inbuf \o SubSeq(net, 1, k)
           IN IF nread + k = inlen
              THEN /\ received' = Append(received, body)
                   /\ whole' = IF broken THEN whole ELSE whole + 1
                   /\ nread' = 0 /\ state' = 0 /\ inalloc' = 0 /\ inlen' = 0
                   /\ inbuf' = <<>>
              ELSE /\ nread' = nread + k /\ inbuf' = body
                   /\ UNCHANGED <<received, whole, state, inalloc, inlen>>
  BY DEF OnReadBody
<1>2. UNCHANGED <<intmp, plen, broken>> /\ state = 1 BY DEF OnReadBody
<1>3. /\ asked' = None /\ asked # None /\ rpc = "reading"
      /\ net' = SubSeq(net, k + 1, Len(net)) /\ UNCHANGED <<writerVars, link, rpc>>
  BY <1>1 DEF Arrives
<1> DEFINE x == SubSeq(net, 1, k)
<1> DEFINE body == inbuf \o x
<1> DEFINE e == EncodedUint(inlen)
<1>4. /\ k \in Nat \ {0} /\ k <= asked.len /\ x \in Seq(Byte) /\ Len(x) = k
      /\ net' \in Seq(Byte) /\ x \o net' = net
  BY <1>3, PieceType
<1>5. inbuf \in Seq(Byte) /\ Len(inbuf) = nread /\ nread \in Nat /\ inlen \in Nat
  BY <1>2 DEF TypeInv
<1>6. asked.len = inlen - nread /\ inlen < Power[MaxBytes]
  BY <1>2, <1>3 DEF Sync, BodyOK
<1>7. /\ e \in Seq(Byte) /\ e # <<>> /\ Len(e) = Consumed(e) /\ Complete(e)
  <2>1. /\ e \in Seq(Byte) /\ e # <<>> /\ Len(e) = Consumed(e)
    BY <1>5, <1>6, EncodedUintType DEF Byte
  <2>2. Len(e) \in Nat BY <2>1, LenProperties
  <2> HIDE DEF e
  <2> QED BY <2>1, <2>2 DEF Complete
<1>8. e \in Seq(Byte) /\ DecodedUint(e) = inlen
  <2>1. <<>> \in Seq(0..(Radix - 1)) BY EmptySeq
  <2>2. DecodedUint(e \o <<>>) = inlen BY <1>5, <1>6, <2>1, DecodedEncoded
  <2> HIDE DEF e
  <2> QED BY <1>7, <2>2, ConcatEmptySeq
<1>9. Rest \in Seq(Byte) /\ Pending \in Seq(Sendable) BY RestType, PendingType
<1>10. (Held \o net) \o Rest = Stream(Pending) /\ Held = e \o inbuf
  BY <1>2 DEF Sync, Held
<1> HIDE DEF x, e
<1>11. body \in Seq(Byte) /\ Len(body) = nread + k BY <1>4, <1>5, ConcatProperties
<1>12. e \o inbuf \in Seq(Byte) /\ net' \o Rest \in Seq(Byte)
  <2>1. e \o inbuf \in Seq(Byte) BY <1>5, <1>7, ConcatProperties
  <2>2. net' \o Rest \in Seq(Byte) BY <1>4, <1>9, ConcatProperties
  <2> QED BY <2>1, <2>2
<1>13. e \o (body \o (net' \o Rest)) = Stream(Pending) /\ body \o (net' \o Rest) \in Seq(Byte)
  <2> DEFINE coming == net' \o Rest
  <2> DEFINE ei == e \o inbuf
  <2>1. coming \in Seq(Byte) /\ ei \in Seq(Byte) BY <1>12
  <2> HIDE DEF coming
  <2>2. (ei \o x) \o coming = Stream(Pending)
    <3> HIDE DEF ei
    <3>1. Regroups(ei, x, net', Rest) BY <1>4, <1>9, <2>1, Regroup
    <3> QED BY <1>4, <1>10, <3>1 DEF Regroups, ei, coming
  <2>3. Associates(e, inbuf, x) BY <1>4, <1>5, <1>7, Associative
  <2>4. ei \o x = e \o body BY <2>3 DEF Associates
  <2> HIDE DEF body, ei
  <2>5. Associates(e, body, coming) BY <1>7, <1>11, <2>1, Associative
  <2>6. body \o coming \in Seq(Byte) BY <1>11, <2>1, ConcatProperties
  <2> QED BY <2>2, <2>4, <2>5, <2>6 DEF Associates, coming
<1>14. /\ Pending # <<>> /\ inlen = Len(Head(Pending))
       /\ body \o (net' \o Rest) = Head(Pending) \o Stream(Tail(Pending))
  <2> DEFINE c == body \o (net' \o Rest)
  <2>1. c \in Seq(Byte) /\ e \o c = Stream(Pending) BY <1>13
  <2> HIDE DEF c
  <2>2. /\ Pending # <<>> /\ DecodedUint(e) = Len(Head(Pending))
        /\ c = Head(Pending) \o Stream(Tail(Pending))
    BY <1>7, <1>9, <2>1, PrefixOfStream
  <2> QED BY <1>8, <2>2 DEF c
<1>15. nread + k <= inlen BY <1>4, <1>5, <1>6
<1>16. /\ nread + k = inlen =>
            /\ received' = Append(received, body) /\ whole' = whole + 1
            /\ nread' = 0 /\ state' = 0 /\ inalloc' = 0 /\ inlen' = 0 /\ inbuf' = <<>>
       /\ nread + k # inlen =>
            /\ nread' = nread + k /\ inbuf' = body
            /\ UNCHANGED <<received, whole, state, inalloc, inlen>>
  BY <1>1 DEF x
<1> HIDE DEF body
<1>17. \E b \in Seq(Byte) :
              /\ nread + k <= inlen /\ Len(b) = nread + k
              /\ b \o (net' \o Rest) = Head(Pending) \o Stream(Tail(Pending))
              /\ e \o (b \o (net' \o Rest)) = Stream(Pending)
              /\ nread + k = inlen =>
                   /\ received' = Append(received, b) /\ whole' = whole + 1
                   /\ nread' = 0 /\ state' = 0 /\ inalloc' = 0 /\ inlen' = 0 /\ inbuf' = <<>>
              /\ nread + k # inlen =>
                   /\ nread' = nread + k /\ inbuf' = b
                   /\ UNCHANGED <<received, whole, state, inalloc, inlen>>
  BY <1>11, <1>13, <1>14, <1>15, <1>16
<1>18. ~ broken' BY <1>2
<1> QED BY <1>2, <1>3, <1>4, <1>9, <1>14, <1>17, <1>18 DEF e

\* A message is decoded: it is the one that was next, and no byte of it is missing.
LEMMA BodyTaken ==
  ASSUME TypeInv, Sync, ~ broken, OnReadBody, whole' # whole
  PROVE  /\ whole < Len(sent) /\ whole' = whole + 1
         /\ received' = Append(received, sent[whole + 1])
         /\ nread' = 0 /\ state' = 0 /\ inalloc' = 0 /\ inlen' = 0 /\ inbuf' = <<>>
         /\ net' \o Rest = Stream(SubSeq(sent, (whole + 1) + 1, Len(sent)))
<1>1. /\ Pending # <<>> /\ Pending \in Seq(Sendable) /\ inlen = Len(Head(Pending))
      /\ UNCHANGED writerVars
  BY BodyGathered
<1>2. PICK k \in Nat \ {0} : \E body \in Seq(Byte) :
              /\ nread + k <= inlen /\ Len(body) = nread + k
              /\ body \o (net' \o Rest) = Head(Pending) \o Stream(Tail(Pending))
              /\ nread + k = inlen =>
                   /\ received' = Append(received, body) /\ whole' = whole + 1
                   /\ nread' = 0 /\ state' = 0 /\ inalloc' = 0 /\ inlen' = 0 /\ inbuf' = <<>>
              /\ nread + k # inlen => UNCHANGED whole
  BY BodyGathered
<1>3. PICK body \in Seq(Byte) :
              /\ nread + k <= inlen /\ Len(body) = nread + k
              /\ body \o (net' \o Rest) = Head(Pending) \o Stream(Tail(Pending))
              /\ nread + k = inlen =>
                   /\ received' = Append(received, body) /\ whole' = whole + 1
                   /\ nread' = 0 /\ state' = 0 /\ inalloc' = 0 /\ inlen' = 0 /\ inbuf' = <<>>
              /\ nread + k # inlen => UNCHANGED whole
  BY <1>2
<1>4. nread + k = inlen /\ Len(body) = Len(Head(Pending)) BY <1>1, <1>3
<1>5. /\ whole < Len(sent) /\ Head(Pending) = sent[whole + 1] /\ sent[whole + 1] \in Bodies
      /\ Tail(Pending) = SubSeq(sent, (whole + 1) + 1, Len(sent))
      /\ Tail(Pending) \in Seq(Sendable)
  BY <1>1, NextPending
<1> DEFINE m == Head(Pending)
<1> DEFINE rest == Stream(Tail(Pending))
<1> DEFINE coming == net' \o Rest
<1>6. m \in Seq(Byte) /\ rest \in Seq(Byte) /\ coming \in Seq(Byte)
  <2>1. m \in Sendable BY <1>5, BodiesSendable
  <2>2. m \in Seq(Byte) BY <2>1, FrameType
  <2>3. rest \in Seq(Byte) BY <1>5, StreamType
  <2>4. net' \in Seq(Byte)
    <3>1. PICK j \in Pieces : Arrives(j) BY DEF OnReadBody
    <3> QED BY <3>1, PieceType DEF Arrives
  <2>5. coming \in Seq(Byte) BY <2>4, RestType, ConcatProperties
  <2> QED BY <2>2, <2>3, <2>5
<1>7. body \o coming = m \o rest /\ Len(body) = Len(m) BY <1>3, <1>4
<1> HIDE DEF m, rest, coming
<1>8. body = m /\ coming = rest BY <1>6, <1>7, ConcatEqual
<1> QED BY <1>3, <1>4, <1>5, <1>8 DEF m, rest, coming

\* on_read in state 1 keeps the reader in step.
LEMMA BodySync ==
  ASSUME TypeInv, TypeInv', Sync, ~ broken, OnReadBody
  PROVE  Sync'
<1>1. /\ Pending # <<>> /\ Pending \in Seq(Sendable) /\ inlen = Len(Head(Pending))
      /\ asked' = None /\ state = 1 /\ rpc = "reading" /\ ~ broken'
      /\ UNCHANGED <<writerVars, link, rpc, intmp, plen>>
  BY BodyGathered
<1>2. /\ Len(received) \in Nat /\ Len(sent) \in Nat /\ whole \in Nat /\ sent \in Seq(Sendable)
      /\ received \in Seq(Seq(Byte)) /\ whole = Len(received) /\ whole <= Len(sent)
      /\ \A i \in 1..Len(received) : received[i] = sent[i]
  BY SentType DEF Sync
<1>3. Rest' = Rest /\ Rest \in Seq(Byte) BY <1>1, RestType DEF Rest, writerVars
<1>4. sent' = sent BY <1>1 DEF writerVars
<1>5. CASE whole' # whole
  <2>1. /\ whole < Len(sent) /\ whole' = whole + 1
        /\ received' = Append(received, sent[whole + 1])
        /\ nread' = 0 /\ state' = 0 /\ inalloc' = 0 /\ inlen' = 0 /\ inbuf' = <<>>
        /\ net' \o Rest = Stream(SubSeq(sent, (whole + 1) + 1, Len(sent)))
    BY <1>5, BodyTaken
  <2>2. /\ Len(received') = whole + 1 /\ \A i \in 1..Len(received') : received'[i] = sent[i]
    <3>1. sent[whole + 1] \in Seq(Byte)
      <4>1. whole + 1 \in 1..Len(sent) BY <1>2, <2>1
      <4>2. sent[whole + 1] \in Sendable BY <1>2, <4>1, ElementOfSeq
      <4> QED BY <4>2, FrameType
    <3>2. /\ Len(received') = Len(received) + 1
          /\ received'[Len(received) + 1] = sent[whole + 1]
          /\ \A i \in 1..Len(received) : received'[i] = received[i]
      BY <1>2, <2>1, <3>1, AppendProperties
    <3> QED BY <1>2, <3>2
  <2>3. Held' = <<>>
    <3>1. Held' = [i \in 1..0 |-> intmp'[i - 1]] BY <2>1 DEF Held
    <3> QED BY <3>1
  <2>4. Pending' = SubSeq(sent, (whole + 1) + 1, Len(sent)) BY <1>4, <2>2 DEF Pending
  <2>5. (Held' \o net') \o Rest' = Stream(Pending')
    <3>1. net' \in Seq(Byte) BY DEF TypeInv
    <3>2. <<>> \o net' = net' BY <3>1, ConcatEmptySeq
    <3> QED BY <1>3, <2>1, <2>3, <2>4, <3>2
  <2>6. PrefixOK' /\ BodyOK' BY <1>1, <2>1 DEF PrefixOK, BodyOK
  <2>7. whole' <= Len(sent') /\ whole' = Len(received') BY <1>2, <1>4, <2>1, <2>2
  <2>8. plen' <= MaxBytes + 1 /\ inalloc' <= MaxBytes + 1 BY <1>1, <2>1, Constants DEF Sync
  <2>9. link' = "up" /\ rpc' = "reading" BY <1>1 DEF Sync
  <2> QED BY <1>4, <2>2, <2>5, <2>6, <2>7, <2>8, <2>9 DEF Sync
<1>6. CASE whole' = whole
  <2>1. PICK k \in Nat \ {0} : \E b \in Seq(Byte) :
              /\ nread + k <= inlen /\ Len(b) = nread + k
              /\ EncodedUint(inlen) \o (b \o (net' \o Rest)) = Stream(Pending)
              /\ nread + k = inlen => whole' = whole + 1
              /\ nread + k # inlen =>
                   /\ nread' = nread + k /\ inbuf' = b
                   /\ UNCHANGED <<received, whole, state, inalloc, inlen>>
    BY BodyGathered
  <2>2. PICK body \in Seq(Byte) :
              /\ nread + k <= inlen /\ Len(body) = nread + k
              /\ EncodedUint(inlen) \o (body \o (net' \o Rest)) = Stream(Pending)
              /\ nread + k = inlen => whole' = whole + 1
              /\ nread + k # inlen =>
                   /\ nread' = nread + k /\ inbuf' = body
                   /\ UNCHANGED <<received, whole, state, inalloc, inlen>>
    BY <2>1
  <2>3. nread + k # inlen BY <1>2, <1>6, <2>2
  <2>4. /\ nread' = nread + k /\ inbuf' = body
        /\ UNCHANGED <<received, whole, state, inalloc, inlen>>
    BY <2>2, <2>3
  <2> DEFINE e == EncodedUint(inlen)
  <2>5. e \in Seq(Byte) /\ inlen \in Nat /\ inlen < Power[MaxBytes] /\ nread \in Nat
    <3>1. inlen \in Nat /\ inlen < Power[MaxBytes] /\ nread \in Nat
      BY <1>1 DEF TypeInv, Sync, BodyOK
    <3> QED BY <3>1, EncodedUintType DEF Byte
  <2>6. Held' = e \o body BY <1>1, <2>4 DEF Held
  <2> HIDE DEF e
  <2>7. (Held' \o net') \o Rest' = Stream(Pending')
    <3>1. net' \in Seq(Byte) /\ e \o body \in Seq(Byte) /\ net' \o Rest \in Seq(Byte)
      <4>1. net' \in Seq(Byte) BY DEF TypeInv
      <4>2. e \o body \in Seq(Byte) BY <2>5, ConcatProperties
      <4>3. net' \o Rest \in Seq(Byte) BY <1>3, <4>1, ConcatProperties
      <4> QED BY <4>1, <4>2, <4>3
    <3> DEFINE c == net' \o Rest
    <3> DEFINE eb == e \o body
    <3>2. Associates(e, body, c)
      <4>1. c \in Seq(Byte) BY <3>1
      <4> HIDE DEF c
      <4> QED BY <2>5, <4>1, Associative
    <3>3. Associates(eb, net', Rest)
      <4>1. eb \in Seq(Byte) BY <3>1
      <4> HIDE DEF eb
      <4> QED BY <1>3, <3>1, <4>1, Associative
    <3>4. e \o (body \o c) = Stream(Pending) BY <2>2 DEF e
    <3>5. Pending' = Pending BY <1>4, <2>4 DEF Pending
    <3> HIDE DEF c, eb
    <3>6. (eb \o net') \o Rest = eb \o c BY <3>3 DEF Associates, c
    <3>7. eb \o c = Stream(Pending) BY <3>2, <3>4 DEF Associates, eb
    <3> QED BY <1>3, <2>6, <3>5, <3>6, <3>7 DEF eb
  <2>8. PrefixOK' /\ BodyOK'
    <3>1. nread' < inlen' BY <2>2, <2>3, <2>4, <2>5
    <3> QED BY <1>1, <2>4, <2>5, <3>1 DEF PrefixOK, BodyOK
  <2>9. link' = "up" /\ rpc' = "reading" /\ plen' <= MaxBytes + 1 /\ inalloc' <= MaxBytes + 1
    BY <1>1, <2>4 DEF Sync
  <2> QED BY <1>2, <1>4, <2>4, <2>7, <2>8, <2>9 DEF Sync
<1> QED BY <1>5, <1>6

\* A step that neither sends nor reads leaves the reader where it was.
LEMMA QuietSync ==
  ASSUME Sync, UNCHANGED <<outbuf, left, sent, net, link, readerVars>>,
         WriterEnded => WriterEnded'
  PROVE  Sync'
BY DEF Sync, PrefixOK, BodyOK, Held, Pending, Rest, readerVars, clientVars

\* alloc_buffer keeps it in step, and never returns an empty buffer then.
LEMMA AllocSync ==
  ASSUME TypeInv, Sync, Alloc
  PROVE  Sync' /\ rpc' = "reading"
<1>1. /\ rpc = "reading" /\ asked = None
      /\ UNCHANGED <<writerVars, net, link, state, nread, intmp, plen, inbuf, inlen,
                     again, received, whole, broken>>
  BY DEF Alloc
<1>2. rpc' = IF asked'.len = 0 THEN "aborted" ELSE rpc BY DEF Alloc
<1>3. (Held \o net) \o Rest = Stream(Pending) /\ Held' = Held /\ Rest' = Rest /\ Pending' = Pending
  BY <1>1 DEF Sync, Held, Rest, Pending, writerVars
<1>4. CASE state = 0 /\ nread = 0
  <2>1. inalloc = 0 BY <1>1, <1>4, NoneType DEF Sync, PrefixOK
  <2>2. inalloc' = 1 /\ asked' = [at |-> 0, len |-> 1] BY <1>4, <2>1 DEF Alloc
  <2>3. rpc' = "reading" BY <1>1, <1>2, <2>2
  <2>4. PrefixOK' /\ BodyOK' BY <1>1, <1>4, <2>2 DEF PrefixOK, BodyOK
  <2>5. inalloc' <= MaxBytes + 1 BY <2>2, Constants
  <2> QED BY <1>1, <1>3, <2>3, <2>4, <2>5 DEF Sync, writerVars
<1>5. CASE state = 0 /\ nread # 0
  <2>1. inalloc = 1 /\ plen \in 2..(MaxBytes + 1) /\ nread = 1 /\ plen = NumFollowing(intmp[0]) + 1
    <3>1. plen \in 2..(MaxBytes + 1) /\ nread = 1 /\ plen = NumFollowing(intmp[0]) + 1
      BY <1>5 DEF Sync, PrefixOK
    <3>2. [at |-> 1, len |-> plen - 1] # None BY NoneType
    <3> QED BY <1>1, <1>5, <3>1, <3>2 DEF Sync, PrefixOK
  <2>2. inalloc' = plen /\ asked' = [at |-> 1, len |-> plen - 1]
    BY <1>5, <2>1 DEF Alloc, AskAfterFirstByte
  <2>3. plen - 1 # 0 BY <2>1, Constants
  <2>4. rpc' = "reading" BY <1>1, <1>2, <2>2, <2>3
  <2>5. PrefixOK' /\ BodyOK' BY <1>1, <1>5, <2>1, <2>2 DEF PrefixOK, BodyOK
  <2>6. inalloc' <= MaxBytes + 1 BY <2>1, <2>2, Constants
  <2> QED BY <1>1, <1>3, <2>4, <2>5, <2>6 DEF Sync, writerVars
<1>6. CASE state = 1
  <2>1. inalloc' = inalloc /\ asked' = [at |-> nread, len |-> inlen - nread]
    BY <1>6 DEF Alloc, AskForBody
  <2>2. nread < inlen /\ nread \in Nat /\ inlen \in Nat BY <1>6 DEF Sync, BodyOK, TypeInv
  <2>3. inlen - nread # 0 BY <2>2
  <2>4. rpc' = "reading" BY <1>1, <1>2, <2>1, <2>3
  <2>5. PrefixOK' /\ BodyOK' BY <1>1, <1>6, <2>1 DEF PrefixOK, BodyOK, Sync
  <2> QED BY <1>1, <1>3, <2>1, <2>4, <2>5 DEF Sync, writerVars
<1> QED BY <1>4, <1>5, <1>6 DEF TypeInv

\* So does an on_read with nothing: the request for a buffer is undone.
LEMMA NothingSync ==
  ASSUME TypeInv, Sync, OnReadNothing
  PROVE  Sync'
<1>1. /\ rpc = "reading" /\ asked # None /\ asked' = None
      /\ inalloc' = (IF state # 0 THEN inalloc ELSE IF inalloc = 1 THEN 0 ELSE 1)
      /\ UNCHANGED <<writerVars, net, link, rpc, state, nread, intmp, plen, inbuf, inlen,
                     received, whole, broken>>
  BY DEF OnReadNothing
<1>2. (Held \o net) \o Rest = Stream(Pending) /\ Held' = Held /\ Rest' = Rest /\ Pending' = Pending
  BY <1>1 DEF Sync, Held, Rest, Pending, writerVars
<1>3. PrefixOK'
  <2>1. CASE state = 0 /\ nread = 0
    <3>1. inalloc = 1 BY <1>1, <2>1 DEF Sync, PrefixOK
    <3> QED BY <1>1, <2>1, <3>1 DEF PrefixOK
  <2>2. CASE state = 0 /\ nread # 0
    <3>1. inalloc = plen /\ plen \in 2..(MaxBytes + 1) /\ nread = 1 /\ plen = NumFollowing(intmp[0]) + 1
      BY <1>1, <2>2 DEF Sync, PrefixOK
    <3>2. inalloc # 1 BY <3>1, Constants
    <3> QED BY <1>1, <2>2, <3>1, <3>2 DEF PrefixOK
  <2>3. CASE state # 0 BY <1>1, <2>3 DEF PrefixOK
  <2> QED BY <2>1, <2>2, <2>3
<1>4. BodyOK' BY <1>1 DEF Sync, BodyOK
<1>5. inalloc' <= MaxBytes + 1
  <2>1. inalloc <= MaxBytes + 1 /\ MaxBytes \in Nat BY Constants DEF Sync
  <2> QED BY <1>1, <2>1
<1> QED BY <1>1, <1>2, <1>3, <1>4, <1>5 DEF Sync, WriterEnded, writerVars

\* So does the end of the stream.
LEMMA EndSync ==
  ASSUME TypeInv, Sync, OnReadEnd
  PROVE  Sync'
<1>1. /\ rpc = "reading" /\ rpc' = "closed" /\ asked' = None /\ AtEnd
      /\ UNCHANGED <<writerVars, net, link, clientVars, received, whole>>
  BY DEF OnReadEnd
<1>2. net = <<>> /\ WriterEnded BY <1>1 DEF AtEnd, Sync
<1>3. PrefixOK' /\ BodyOK' BY <1>1 DEF Sync, PrefixOK, BodyOK, clientVars
<1>4. Held' = Held /\ Rest' = Rest /\ Pending' = Pending
  BY <1>1 DEF Held, Rest, Pending, writerVars, clientVars
<1> QED BY <1>1, <1>2, <1>3, <1>4 DEF Sync, WriterEnded, writerVars, clientVars

\* So does every callback of the writer, and the network but for a reset.
LEMMA WriterSync ==
  ASSUME TypeInv, WriterOK, TypeInv', Sync, ~ broken',
         OnConnect \/ OnWrite \/ Flush \/ FlushFails \/ Die \/ Reset
  PROVE  Sync'
<1>1. ASSUME NEW n \in Nat, n = args.start \/ (args.start <= n /\ n < args.end), Send(n),
             left = 0, wpc \in {"connecting", "writing"}, UNCHANGED <<net, link, readerVars>>
      PROVE  Sync'
  <2>1. PICK b \in Bodies : sent' = Append(sent, b) /\ outbuf' = Frame(b) /\ left' = Len(outbuf')
    BY <1>1, SendType
  <2> QED BY <1>1, <2>1, SendSync
<1>2. CASE OnConnect
  <2>1. UNCHANGED <<args, current_len, net, link, readerVars>> /\ wpc = "connecting"
    BY <1>2 DEF OnConnect
  <2>2. current_len = args.start /\ current_len \in Nat /\ left = 0
    BY <2>1 DEF TypeInv, WriterOK
  <2>3. CASE Send(current_len) BY <1>1, <2>1, <2>2, <2>3
  <2>4. CASE wpc' = "refused" /\ UNCHANGED <<outbuf, left, sent, broken>>
    <3>1. ~ WriterEnded BY <2>1 DEF WriterEnded
    <3> QED BY <2>1, <2>4, <3>1, QuietSync
  <2> QED BY <1>2, <2>3, <2>4 DEF OnConnect
<1>3. CASE OnWrite
  <2> DEFINE n == current_len + args.increment
  <2>1. UNCHANGED <<args, net, link, readerVars>> /\ wpc = "writing" /\ left = 0
        /\ current_len' = n
    BY <1>3 DEF OnWrite, NextMessage
  <2>2. /\ n \in Nat /\ args.start <= n /\ args.start \in Nat /\ args.end \in Nat
        /\ n < args.end => n = args.start \/ (args.start <= n /\ n < args.end)
    BY NextBodyLength
  <2>3. CASE n >= args.end
    <3>1. wpc' = "done" /\ UNCHANGED <<outbuf, left, sent, broken>>
      BY <1>3, <2>1, <2>3 DEF OnWrite, NextMessage
    <3>2. WriterEnded' BY <3>1 DEF WriterEnded
    <3> QED BY <2>1, <3>1, <3>2, QuietSync
  <2>4. CASE ~ (n >= args.end)
    <3>1. wpc' = wpc /\ Send(n) BY <1>3, <2>1, <2>4 DEF OnWrite, NextMessage
    <3>2. n < args.end BY <2>2, <2>4
    <3> HIDE DEF n
    <3> QED BY <1>1, <2>1, <2>2, <3>1, <3>2
  <2> QED BY <2>3, <2>4
<1>4. CASE Flush BY <1>4, FlushSync
<1>5. CASE FlushFails
  <2>1. wpc = "writing" /\ (rpc # "reading" \/ link = "reset") BY <1>5 DEF FlushFails, ReaderGone
  <2> QED BY <2>1 DEF Sync, WriterEnded
<1>6. CASE Die
  <2>1. WriterEnded' /\ UNCHANGED <<outbuf, left, sent, net, link, readerVars>>
    BY <1>6 DEF Die, WriterEnded
  <2> QED BY <2>1, QuietSync
<1>7. CASE Reset BY <1>7 DEF Reset
<1> QED BY <1>2, <1>3, <1>4, <1>5, <1>6, <1>7

\* What went wrong stays wrong.
LEMMA BrokenStays ==
  ASSUME TypeInv, TypeInv', [Next]_vars
  PROVE  broken' = broken \/ broken' = TRUE
<1>1. broken \in BOOLEAN /\ broken' \in BOOLEAN BY DEF TypeInv
<1>2. broken => broken'
  BY DEF Next, WriterLoop, ReaderLoop, OnConnect, OnWrite, NextMessage, Send, Flush, FlushFails,
         Die, Reset, Alloc, OnReadNothing, OnReadEnd, OnReadPrefix, OnReadBody, vars
<1> QED BY <1>1, <1>2

\* Every step after which nothing is wrong keeps the reader in step.
LEMMA SyncStep ==
  ASSUME TypeInv, WriterOK, TypeInv', Sync, ~ broken, ~ broken', [Next]_vars
  PROVE  Sync'
<1>1. CASE WriterLoop \/ Die \/ Reset BY <1>1, WriterSync DEF WriterLoop
<1>2. CASE Alloc BY <1>2, AllocSync
<1>3. CASE OnReadNothing BY <1>3, NothingSync
<1>4. CASE OnReadEnd BY <1>4, EndSync
<1>5. CASE OnReadPrefix BY <1>5, PrefixSync
<1>6. CASE OnReadBody BY <1>6, BodySync
<1>7. CASE UNCHANGED vars
  <2>1. UNCHANGED <<outbuf, left, sent, net, link, readerVars>> /\ (WriterEnded => WriterEnded')
    BY <1>7 DEF vars, writerVars, WriterEnded
  <2> QED BY <2>1, QuietSync
<1> QED BY <1>1, <1>2, <1>3, <1>4, <1>5, <1>6, <1>7 DEF Next, ReaderLoop

(***************************************************************************)
(* The messages of which every byte is sent.                               *)
(***************************************************************************)
\* The messages sent to the last byte are those sent, or all but the one at hand.
LEMMA CompletedType ==
  ASSUME TypeInv, WriterOK
  PROVE  /\ Completed \in Seq(Bodies) /\ Len(Completed) \in Nat /\ Len(sent) \in Nat
         /\ left # 0 => Completed = Front(sent) /\ Len(Completed) = Len(sent) - 1 /\ sent # <<>>
         /\ left = 0 => Completed = sent
<1>1. sent \in Seq(Bodies) /\ Len(sent) \in Nat /\ left \in Nat
  BY RestType, LenProperties DEF TypeInv
<1>2. CASE left = 0 BY <1>1, <1>2 DEF Completed
<1>3. CASE left # 0
  <2>1. sent # <<>> BY <1>1, <1>3 DEF WriterOK
  <2>2. Front(sent) \in Seq(Bodies) /\ Len(Front(sent)) = Len(sent) - 1 /\ Len(sent) \in Nat \ {0}
    BY <1>1, <2>1, FrontLast
  <2> QED BY <1>3, <2>1, <2>2 DEF Completed
<1> QED BY <1>2, <1>3

\* The last byte of a message is sent.
MessagePut == \E b \in Bodies : Completed' = Append(Completed, b) /\ UNCHANGED <<received, whole>>

\* They grow by one message, or stay as they are.
LEMMA CompletedStep ==
  ASSUME TypeInv, WriterOK, [Next]_vars
  PROVE  Completed' = Completed \/ MessagePut
<1>1. ASSUME NEW n \in Nat, n = args.start \/ (args.start <= n /\ n < args.end), Send(n), left = 0
      PROVE  Completed' = Completed
  <2>1. PICK b \in Bodies : sent' = Append(sent, b) /\ left' \in Nat \ {0} BY <1>1, SendType
  <2>2. sent \in Seq(Bodies) BY DEF TypeInv
  <2>3. Front(sent') = sent BY <2>1, <2>2, AppendFrontLast
  <2>4. left' # 0 BY <2>1
  <2> QED BY <1>1, <2>3, <2>4 DEF Completed
<1>2. ASSUME left > 0, sent' = sent, left' = 0, UNCHANGED readerVars
      PROVE  MessagePut
  <2>1. left # 0 BY <1>2
  <2>2. Completed = Front(sent) /\ sent # <<>> /\ sent \in Seq(Bodies)
    BY <2>1, CompletedType DEF TypeInv
  <2>3. sent = Append(Front(sent), Last(sent)) /\ Last(sent) \in Bodies BY <2>2, FrontLast
  <2>4. Completed' = sent BY <1>2 DEF Completed
  <2> QED BY <1>2, <2>2, <2>3, <2>4 DEF MessagePut, readerVars
<1>3. CASE OnConnect
  <2>1. wpc = "connecting" BY <1>3 DEF OnConnect
  <2>2. current_len = args.start /\ current_len \in Nat /\ left = 0
    BY <2>1 DEF TypeInv, WriterOK
  <2>3. CASE Send(current_len) BY <1>1, <2>2, <2>3
  <2>4. CASE UNCHANGED <<outbuf, left, sent, broken>> BY <2>4 DEF Completed
  <2> QED BY <1>3, <2>3, <2>4 DEF OnConnect
<1>4. CASE OnWrite
  <2> DEFINE n == current_len + args.increment
  <2>1. left = 0 /\ current_len' = n BY <1>4 DEF OnWrite, NextMessage
  <2>2. /\ n \in Nat /\ args.start <= n /\ args.start \in Nat /\ args.end \in Nat
        /\ n < args.end => n = args.start \/ (args.start <= n /\ n < args.end)
    BY NextBodyLength
  <2>3. CASE UNCHANGED <<outbuf, left, sent, broken>> BY <2>3 DEF Completed
  <2>4. CASE ~ (n >= args.end)
    <3>1. Send(n) BY <1>4, <2>1, <2>4 DEF OnWrite, NextMessage
    <3>2. n < args.end BY <2>2, <2>4
    <3> HIDE DEF n
    <3> QED BY <1>1, <2>1, <2>2, <3>1, <3>2
  <2> QED BY <1>4, <2>1, <2>3, <2>4 DEF OnWrite, NextMessage
<1>5. CASE Flush \/ FlushFails
  <2>1. left > 0 /\ sent' = sent /\ UNCHANGED readerVars BY <1>5 DEF Flush, FlushFails
  <2>2. CASE left' = 0 BY <1>2, <2>1, <2>2
  <2>3. CASE left' # 0
    <3>1. left # 0 BY <2>1
    <3> QED BY <2>1, <2>3, <3>1 DEF Completed
  <2> QED BY <2>2, <2>3
<1>6. CASE Die \/ Reset \/ ReaderLoop \/ UNCHANGED vars
  BY <1>6 DEF Die, Reset, ReaderLoop, Alloc, OnReadNothing, OnReadEnd, OnReadPrefix, OnReadBody,
              Arrives, vars, writerVars, Completed
<1> QED BY <1>3, <1>4, <1>5, <1>6 DEF Next, WriterLoop

\* A message that is decoded was sent to its last byte.
LEMMA TakenComplete ==
  ASSUME TypeInv, WriterOK, TypeInv', Sync, ~ broken, OnReadBody, whole' # whole
  PROVE  /\ whole' = whole + 1 /\ whole + 1 <= Len(Completed) /\ Completed' = Completed
         /\ Completed[whole + 1] = sent[whole + 1]
<1>1. /\ whole < Len(sent) /\ whole' = whole + 1
      /\ net' \o Rest = Stream(SubSeq(sent, (whole + 1) + 1, Len(sent)))
  BY BodyTaken
<1>2. UNCHANGED writerVars BY BodyGathered
<1>3. Completed' = Completed BY <1>2 DEF Completed, writerVars
<1>4. /\ Completed \in Seq(Bodies) /\ Len(Completed) \in Nat /\ Len(sent) \in Nat
      /\ left # 0 => Completed = Front(sent) /\ Len(Completed) = Len(sent) - 1 /\ sent # <<>>
      /\ left = 0 => Completed = sent
  BY CompletedType
<1>5. whole \in Nat /\ sent \in Seq(Sendable) BY SentType
<1>6. CASE left = 0 BY <1>1, <1>3, <1>4, <1>5, <1>6
<1>7. CASE left # 0
  <2>1. whole + 1 # Len(sent)
    <3> SUFFICES ASSUME whole + 1 = Len(sent) PROVE FALSE OBVIOUS
    <3>1. SubSeq(sent, (whole + 1) + 1, Len(sent)) = <<>> BY <1>5, AfterAll
    <3>2. net' \o Rest = <<>> BY <1>1, <3>1, StreamEmpty
    <3>3. net' \in Seq(Byte) BY DEF TypeInv
    <3>4. Rest \in Seq(Byte) /\ Len(Rest) = left BY RestType
    <3>5. Rest = <<>> BY <3>2, <3>3, <3>4, ConcatEqualIffEmpty
    <3>6. Len(<<>>) = 0 OBVIOUS
    <3> QED BY <1>7, <3>4, <3>5, <3>6
  <2>2. whole + 1 <= Len(Completed) BY <1>1, <1>4, <1>5, <1>7, <2>1
  <2>3. Completed[whole + 1] = sent[whole + 1]
    <3>1. Len(sent) - 1 \in 0..Len(sent) /\ whole + 1 \in 1..(Len(sent) - 1)
      BY <1>1, <1>4, <1>5, <1>7, <2>2
    <3> QED BY <1>4, <1>5, <1>7, <3>1, ElementOfSplit DEF Front
  <2> QED BY <1>1, <1>3, <2>2, <2>3
<1> QED BY <1>6, <1>7

\* The counter of whole messages changes only where one is decoded.
LEMMA WholeStep ==
  ASSUME TypeInv, WriterOK, TypeInv', SyncInv, [Next]_vars
  PROVE  whole' = whole \/ (OnReadBody /\ ~ broken /\ whole' # whole)
<1>1. CASE OnReadBody
  <2>1. CASE broken BY <1>1, <2>1 DEF OnReadBody
  <2> QED BY <1>1, <2>1
<1>2. CASE ~ OnReadBody
  BY <1>2 DEF Next, WriterLoop, ReaderLoop, OnConnect, OnWrite, Flush, FlushFails,
              Die, Reset, Alloc, OnReadNothing, OnReadEnd, OnReadPrefix, vars, readerVars
<1> QED BY <1>1, <1>2

\* Every step keeps the invariant.
LEMMA SyncInvStep ==
  ASSUME TypeInv, WriterOK, TypeInv', SyncInv, [Next]_vars
  PROVE  SyncInv'
<1>1. ~ broken' => Sync'
  <2> SUFFICES ASSUME ~ broken' PROVE Sync' OBVIOUS
  <2>1. ~ broken BY BrokenStays DEF TypeInv
  <2> QED BY <2>1, SyncStep DEF SyncInv
<1>2. whole' <= Len(Completed')
  <2>1. Completed \in Seq(Bodies) /\ Len(Completed) \in Nat /\ whole \in Nat /\ whole <= Len(Completed)
    BY CompletedType, SentType DEF SyncInv
  <2>2. CASE whole' = whole
    <3>1. CASE Completed' = Completed BY <2>1, <2>2, <3>1
    <3>2. CASE MessagePut
      <4>1. PICK b \in Bodies : Completed' = Append(Completed, b) BY <3>2 DEF MessagePut
      <4>2. Len(Completed') = Len(Completed) + 1 BY <2>1, <4>1, AppendProperties
      <4> QED BY <2>1, <2>2, <4>2
    <3> QED BY <3>1, <3>2, CompletedStep
  <2>3. CASE OnReadBody /\ ~ broken /\ whole' # whole
    BY <2>3, TakenComplete DEF SyncInv
  <2> QED BY <2>2, <2>3, WholeStep
<1> QED BY <1>1, <1>2 DEF SyncInv

\* Both programs start in step.
LEMMA SyncInit == Init => SyncInv
<1> SUFFICES ASSUME Init PROVE SyncInv OBVIOUS
<1>1. /\ outbuf = <<>> /\ left = 0 /\ sent = <<>>
      /\ net = <<>> /\ link = "up" /\ rpc = "reading" /\ state = 0 /\ nread = 0 /\ inalloc = 0
      /\ plen = 0 /\ asked = None /\ received = <<>> /\ whole = 0
  BY DEF Init
<1>2. Len(<<>>) = 0 /\ <<>> \in Seq(Byte) /\ <<>> \in Seq(Bodies) BY EmptySeq
<1>3. whole <= Len(Completed) BY <1>1, <1>2 DEF Completed
<1>4. Held = <<>>
  <2>1. Held = [i \in 1..0 |-> intmp[i - 1]] BY <1>1 DEF Held
  <2> QED BY <2>1
<1>5. Rest = <<>>
  <2>1. Rest = SubSeq(outbuf, Len(outbuf) + 1, Len(outbuf))
    <3>1. Len(outbuf) - left + 1 = Len(outbuf) + 1 BY <1>1, <1>2
    <3> QED BY <3>1 DEF Rest
  <2> QED BY <1>1, <1>2, <2>1, AfterAll
<1>6. Pending = <<>>
  <2>1. Pending = SubSeq(sent, Len(sent) + 1, Len(sent)) BY <1>1 DEF Pending
  <2> QED BY <1>1, <1>2, <2>1, AfterAll
<1>7. (Held \o net) \o Rest = Stream(Pending)
  <2>1. <<>> \o <<>> = <<>> BY <1>2, ConcatEmptySeq
  <2> QED BY <1>1, <1>4, <1>5, <1>6, <2>1, StreamEmpty
<1>8. PrefixOK /\ BodyOK BY <1>1 DEF PrefixOK, BodyOK
<1>9. plen <= MaxBytes + 1 /\ inalloc <= MaxBytes + 1 BY <1>1, Constants
<1> QED BY <1>1, <1>2, <1>3, <1>7, <1>8, <1>9 DEF SyncInv, Sync

\* The inductive invariant holds in every state.
THEOREM Invariant == Spec => [](TypeInv /\ WriterOK /\ SyncInv)
<1>1. Init => TypeInv /\ WriterOK /\ SyncInv BY TypeInit, SyncInit
<1>2. (TypeInv /\ WriterOK /\ SyncInv) /\ [Next]_vars => (TypeInv /\ WriterOK /\ SyncInv)'
  BY TypeStep, SyncInvStep
<1> QED BY <1>1, <1>2, PTL DEF Spec

\* Every variable of the two programs keeps its type, whatever arrives: a request for bytes of
\* a body stays inside inbuf, and one for a prefix inside what a prefix can have as long as the
\* reader knows where it is (uvreader.c, alloc_buffer and on_read).
THEOREM TypeCorrect == Spec => []TypeOK
<1>1. TypeInv /\ WriterOK /\ SyncInv => TypeOK
  <2> SUFFICES ASSUME TypeInv, SyncInv PROVE TypeOK OBVIOUS
  <2>1. CASE broken
    <3>1. LongestPrefix = Widest BY <2>1 DEF LongestPrefix, Widest
    <3> QED BY <3>1 DEF TypeInv, TypeOK, Byte
  <2>2. CASE ~ broken
    <3>1. LongestPrefix = MaxBytes + 1 /\ Sync BY <2>2 DEF LongestPrefix, SyncInv
    <3>2. inalloc \in 0..LongestPrefix /\ plen \in 0..LongestPrefix
      BY <3>1, Constants DEF TypeInv, Sync
    <3>3. asked # None => asked.at + asked.len <= IF state = 0 THEN LongestPrefix ELSE inlen
      <4> SUFFICES ASSUME asked # None, state = 0 PROVE asked.at + asked.len <= LongestPrefix
        BY DEF TypeInv
      <4>1. rpc = "reading" BY <3>1 DEF Sync
      <4>2. CASE nread = 0
        <5>1. asked = [at |-> 0, len |-> 1] BY <3>1, <4>1, <4>2 DEF Sync, PrefixOK
        <5> QED BY <3>1, <5>1, Constants
      <4>3. CASE nread # 0
        <5>1. asked = [at |-> 1, len |-> plen - 1] /\ plen \in 2..(MaxBytes + 1)
          BY <3>1, <4>1, <4>3 DEF Sync, PrefixOK
        <5> QED BY <3>1, <5>1, Constants
      <4> QED BY <4>2, <4>3
    <3> QED BY <3>2, <3>3 DEF TypeInv, TypeOK, Byte
  <2> QED BY <2>1, <2>2
<1> QED BY <1>1, Invariant, PTL

\* As long as no prefix has come in pieces, no encoder has run out of room and the connection
\* is not reset, what the reader holds, what is on its way and what is still to be sent are
\* the frames of the messages not yet received (uvreader.c, uvwriter.c).
THEOREM StaysInStep == Spec => []InStep
<1>1. SyncInv => InStep BY DEF SyncInv, Sync, InStep, Rest
<1> QED BY <1>1, Invariant, PTL

(***************************************************************************)
(* The queue of messages.                                                  *)
(***************************************************************************)
\* A message sent to the last byte is put into the queue.
LEMMA QueuePut ==
  ASSUME TypeInv, WriterOK, SyncInv, MessagePut, broken' = broken \/ broken' = TRUE
  PROVE  \E m \in Bodies : Queue!Put(m)
<1>1. Completed \in Seq(Bodies) /\ whole \in 0..Len(Completed)
  BY CompletedType, SentType DEF SyncInv
<1>2. PICK b \in Bodies : Completed' = Append(Completed, b) /\ UNCHANGED <<received, whole>>
  BY DEF MessagePut
<1>3. SubSeq(Completed', whole' + 1, Len(Completed'))
        = Append(SubSeq(Completed, whole + 1, Len(Completed)), b)
  BY <1>1, <1>2, AfterAppend
<1> QED BY <1>2, <1>3 DEF Queue!Put

\* A message that is decoded is taken from it: the one that waited longest.
LEMMA QueueTake ==
  ASSUME TypeInv, WriterOK, TypeInv', SyncInv, OnReadBody, ~ broken, whole' # whole
  PROVE  Queue!Take
<1>1. /\ whole' = whole + 1 /\ whole + 1 <= Len(Completed) /\ Completed' = Completed
      /\ Completed[whole + 1] = sent[whole + 1]
  BY TakenComplete DEF SyncInv
<1>2. Completed \in Seq(Bodies) /\ whole \in Nat /\ Len(Completed) \in Nat
  BY CompletedType, SentType
<1>3. whole < Len(Completed) BY <1>1, <1>2
<1>4. /\ SubSeq(Completed, whole + 1, Len(Completed)) # <<>>
      /\ Head(SubSeq(Completed, whole + 1, Len(Completed))) = Completed[whole + 1]
      /\ Tail(SubSeq(Completed, whole + 1, Len(Completed)))
           = SubSeq(Completed, (whole + 1) + 1, Len(Completed))
      /\ Completed[whole + 1] \in Bodies
  BY <1>2, <1>3, AfterHeadTail
<1>5. received' = Append(received, Completed[whole + 1]) BY <1>1, BodyTaken DEF SyncInv
<1>6. received \in Seq(Seq(Byte)) /\ whole = Len(received) BY SentType DEF SyncInv, Sync
<1>7. Completed[whole + 1] \in Seq(Byte) BY <1>4, BodiesSendable, FrameType
<1>8. SubSeq(received, 1, whole) = received BY <1>6, SubSeqFull
<1>9. SubSeq(received', 1, whole') = received'
  <2>1. received' \in Seq(Seq(Byte)) /\ Len(received') = whole'
    BY <1>1, <1>5, <1>6, <1>7, AppendProperties
  <2> QED BY <2>1, SubSeqFull
<1>10. ~ broken' /\ broken' = broken
  <2>1. ~ broken' BY BodyGathered DEF SyncInv
  <2> QED BY <2>1 DEF TypeInv
<1> QED BY <1>1, <1>4, <1>5, <1>8, <1>9, <1>10 DEF Queue!Take

\* What the reader took for messages after it lost its place does not count.
LEMMA DeliveredSame ==
  ASSUME TypeInv, [Next]_vars, whole' = whole
  PROVE  SubSeq(received', 1, whole') = SubSeq(received, 1, whole)
<1>1. received \in Seq(Seq(Byte)) /\ Len(received) \in Nat /\ whole \in 0..Len(received)
  BY SentType DEF TypeInv
<1>2. CASE received' = received BY <1>2
<1>3. CASE received' # received
  <2>1. OnReadBody
    BY <1>3 DEF Next, WriterLoop, ReaderLoop, OnConnect, OnWrite, Flush, FlushFails,
              Die, Reset, Alloc, OnReadNothing, OnReadEnd, OnReadPrefix, vars, readerVars
  <2>2. PICK k \in Pieces : received' = Append(received, inbuf \o SubSeq(net, 1, k))
    BY <1>3, <2>1 DEF OnReadBody
  <2> DEFINE body == inbuf \o SubSeq(net, 1, k)
  <2>3. body \in Seq(Byte)
    <3>1. inbuf \in Seq(Byte) BY DEF TypeInv
    <3> QED BY <3>1, PieceType, ConcatProperties
  <2>4. received' = Append(received, body) BY <2>2
  <2> HIDE DEF body
  <2>5. received' \in Seq(Seq(Byte)) /\ Len(received') = Len(received) + 1
        /\ \A i \in 1..Len(received) : received'[i] = received[i]
    BY <1>1, <2>3, <2>4, AppendProperties
  <2> DEFINE a == SubSeq(received, 1, whole)
  <2> DEFINE b == SubSeq(received', 1, whole)
  <2>6. a \in Seq(Seq(Byte)) /\ Len(a) = whole /\ \A i \in 1..whole : a[i] = received[i]
    BY <1>1, SplitAt, ElementOfSplit
  <2>7. b \in Seq(Seq(Byte)) /\ Len(b) = whole /\ \A i \in 1..whole : b[i] = received'[i]
    <3> DEFINE r == received'
    <3>1. r \in Seq(Seq(Byte)) /\ whole \in 0..Len(r) BY <1>1, <2>5
    <3> HIDE DEF r
    <3>2. /\ SubSeq(r, 1, whole) \in Seq(Seq(Byte)) /\ Len(SubSeq(r, 1, whole)) = whole
          /\ \A i \in 1..whole : SubSeq(r, 1, whole)[i] = r[i]
      BY <3>1, SplitAt, ElementOfSplit
    <3> QED BY <3>2 DEF r
  <2> HIDE DEF a, b
  <2>8. \A i \in 1..Len(a) : a[i] = b[i]
    <3> TAKE i \in 1..Len(a)
    <3>1. i \in 1..whole /\ i \in 1..Len(received) BY <1>1, <2>6
    <3>2. a[i] = received[i] BY <2>6, <3>1
    <3>3. b[i] = received'[i] BY <2>7, <3>1
    <3> QED BY <2>5, <3>1, <3>2, <3>3
  <2>9. a = b BY <2>6, <2>7, <2>8, SeqEqual
  <2> QED BY <2>9 DEF a, b
<1> QED BY <1>2, <1>3

\* Every step of the two programs is one of the queue, or changes nothing in it.
LEMMA QueueStep ==
  ASSUME TypeInv, WriterOK, TypeInv', SyncInv, [Next]_vars
  PROVE  [Queue!QueueNext]_(Queue!queueVars)
<1>1. broken' = broken \/ broken' = TRUE BY BrokenStays
<1>2. CASE MessagePut BY <1>1, <1>2, QueuePut DEF Queue!QueueNext
<1>3. CASE OnReadBody /\ ~ broken /\ whole' # whole BY <1>3, QueueTake DEF Queue!QueueNext
<1>4. CASE ~ MessagePut /\ whole' = whole
  <2>1. Completed' = Completed BY <1>4, CompletedStep
  <2>2. SubSeq(received', 1, whole') = SubSeq(received, 1, whole) BY <1>4, DeliveredSame
  <2>3. CASE broken' = broken BY <1>4, <2>1, <2>2, <2>3 DEF Queue!queueVars
  <2>4. CASE broken' = TRUE BY <1>4, <2>1, <2>2, <2>4 DEF Queue!QueueNext, Queue!Break
  <2> QED BY <1>1, <2>3, <2>4
<1> QED BY <1>2, <1>3, <1>4, WholeStep

\* The two programs implement the queue of messages: what uvreader decodes is what uvwriter
\* sent, whole, in order and each once, until the connection is reset, a prefix comes in
\* pieces, or an encoder has no room for the end mark.
THEOREM Refinement == Spec => ImplementsQueue
<1>1. Init => Queue!QueueInit
  <2> SUFFICES ASSUME Init PROVE Queue!QueueInit OBVIOUS
  <2>1. left = 0 /\ sent = <<>> /\ whole = 0 /\ received = <<>> /\ broken = FALSE BY DEF Init
  <2>2. Completed = <<>> /\ Len(<<>>) = 0 /\ <<>> \in Seq(Byte) BY <2>1, EmptySeq DEF Completed
  <2>3. SubSeq(Completed, whole + 1, Len(Completed)) = <<>>
    <3>1. SubSeq(<<>>, Len(<<>>) + 1, Len(<<>>)) = <<>> BY <2>2, AfterAll
    <3> QED BY <2>1, <2>2, <3>1
  <2>4. SubSeq(received, 1, whole) = <<>>
    <3>1. SubSeq(<<>>, 1, Len(<<>>)) = <<>> BY <2>2, SubSeqFull
    <3> QED BY <2>1, <2>2, <3>1
  <2> QED BY <2>1, <2>3, <2>4 DEF Queue!QueueInit
<1>2. TypeInv /\ WriterOK /\ SyncInv /\ TypeInv' /\ [Next]_vars
        => [Queue!QueueNext]_(Queue!queueVars)
  BY QueueStep
<1> QED BY <1>1, <1>2, Invariant, PTL DEF Spec, ImplementsQueue, Queue!QueueSafety

(***************************************************************************)
(* No part of a message is taken for a whole one.                          *)
(***************************************************************************)
\* Prefixes of one or two bytes, and an encoder with room.
Short == args.spare > 0 /\ \A i \in DOMAIN sent : Len(EncodedUint(Len(sent[i]))) <= 2

\* Then only a reset is ever wrong.
ShortOK == Short => IsPrefix(received, sent) /\ (broken => link = "reset")

\* The messages sent grow by one, or stay as they are.
LEMMA SentGrows ==
  ASSUME TypeInv, WriterOK, [Next]_vars
  PROVE  args' = args /\ (sent' = sent \/ \E b \in Bodies : sent' = Append(sent, b))
<1>1. ASSUME NEW n \in Nat, n = args.start \/ (args.start <= n /\ n < args.end), Send(n)
      PROVE  \E b \in Bodies : sent' = Append(sent, b)
  BY <1>1, SendType
<1>2. CASE OnConnect
  <2>1. wpc = "connecting" /\ args' = args BY <1>2 DEF OnConnect
  <2>2. current_len = args.start /\ current_len \in Nat BY <2>1 DEF TypeInv, WriterOK
  <2> QED BY <1>1, <1>2, <2>1, <2>2 DEF OnConnect
<1>3. CASE OnWrite
  <2> DEFINE n == current_len + args.increment
  <2>1. args' = args /\ current_len' = n BY <1>3 DEF OnWrite, NextMessage
  <2>2. /\ n \in Nat /\ args.start <= n /\ args.start \in Nat /\ args.end \in Nat
        /\ n < args.end => n = args.start \/ (args.start <= n /\ n < args.end)
    BY NextBodyLength
  <2>3. CASE sent' = sent BY <2>1, <2>3
  <2>4. CASE ~ (n >= args.end)
    <3>1. Send(n) BY <1>3, <2>1, <2>4 DEF OnWrite, NextMessage
    <3>2. n < args.end BY <2>2, <2>4
    <3> HIDE DEF n
    <3> QED BY <1>1, <2>1, <2>2, <3>1, <3>2
  <2> QED BY <1>3, <2>1, <2>3, <2>4 DEF OnWrite, NextMessage
<1>4. CASE Flush \/ FlushFails \/ Die \/ Reset \/ ReaderLoop \/ UNCHANGED vars
  BY <1>4 DEF Flush, FlushFails, Die, Reset, ReaderLoop, Alloc, OnReadNothing, OnReadEnd,
              OnReadPrefix, OnReadBody, Arrives, vars, writerVars
<1> QED BY <1>2, <1>3, <1>4 DEF Next, WriterLoop

\* If all prefixes are short, they were before.
LEMMA ShortBefore ==
  ASSUME TypeInv, WriterOK, [Next]_vars, Short'
  PROVE  Short
<1>1. sent \in Seq(Bodies) /\ Len(sent) \in Nat BY SentType DEF TypeInv
<1>2. CASE sent' = sent BY <1>2, SentGrows DEF Short
<1>3. CASE \E b \in Bodies : sent' = Append(sent, b)
  <2>1. DOMAIN sent = 1..Len(sent) /\ DOMAIN sent' = 1..(Len(sent) + 1)
        /\ \A i \in 1..Len(sent) : sent'[i] = sent[i]
    BY <1>1, <1>3, AppendProperties
  <2>2. DOMAIN sent \subseteq DOMAIN sent' BY <1>1, <2>1
  <2> QED BY <2>1, <2>2, SentGrows DEF Short
<1> QED BY <1>2, <1>3, SentGrows

\* With prefixes of one or two bytes a read brings all it was asked for.
LEMMA ShortPrefixWhole ==
  ASSUME TypeInv, WriterOK, Sync, Short, OnReadPrefix
  PROVE  broken' = broken
<1>1. PICK k \in Pieces : Arrives(k) /\ broken' = (broken \/ k < asked.len)
  BY DEF OnReadPrefix
<1>2. state = 0 /\ asked # None /\ rpc = "reading" BY <1>1 DEF OnReadPrefix, Arrives
<1>3. k \in Nat \ {0} /\ k <= asked.len /\ asked.len \in Int BY PieceType DEF TypeInv
<1>4. asked.len <= 1
  <2>1. CASE nread = 0
    <3>1. asked = [at |-> 0, len |-> 1] BY <1>2, <2>1 DEF Sync, PrefixOK
    <3> QED BY <3>1
  <2>2. CASE nread # 0
    <3>1. /\ nread = 1 /\ asked = [at |-> 1, len |-> plen - 1]
          /\ plen = NumFollowing(intmp[0]) + 1 /\ plen \in 2..(MaxBytes + 1)
      BY <1>2, <2>2 DEF Sync, PrefixOK
    <3>2. /\ Held \in Seq(Byte) /\ Len(Held) = 1 /\ Held[1] = intmp[0]
          /\ net \in Seq(Byte) /\ Rest \in Seq(Byte) /\ Pending \in Seq(Sendable)
      BY <1>2, <3>1, HeldType, RestType, PendingType
    <3>3. Held # <<>>
      <4>1. Len(Held) # 0 BY <3>2
      <4> QED BY <3>2, <4>1, EmptySeq
    <3> DEFINE h == Held
    <3> DEFINE c == net \o Rest
    <3>4. h \o c = Stream(Pending) /\ c \in Seq(Byte) /\ h \in Seq(Byte)
      <4>1. (Held \o net) \o Rest = Stream(Pending) BY DEF Sync
      <4>2. Associates(Held, net, Rest) BY <3>2, Associative
      <4> QED BY <3>2, <4>1, <4>2, ConcatProperties DEF Associates
    <3> HIDE DEF h, c
    <3>5. /\ Pending # <<>>
          /\ Len(EncodedUint(Len(Head(Pending)))) = NumFollowing(h[1]) + 1
      BY <3>2, <3>3, <3>4, FirstOfStream DEF h
    <3>6. whole < Len(sent) /\ Head(Pending) = sent[whole + 1] BY <3>5, NextPending
    <3>7. whole + 1 \in DOMAIN sent
      <4>1. whole \in Nat /\ Len(sent) \in Nat /\ sent \in Seq(Sendable) BY SentType
      <4>2. DOMAIN sent = 1..Len(sent) BY <4>1, LenProperties
      <4> QED BY <3>6, <4>1, <4>2
    <3>8. Len(EncodedUint(Len(Head(Pending)))) <= 2 BY <3>6, <3>7 DEF Short
    <3>9. plen <= 2 BY <3>1, <3>2, <3>5, <3>8 DEF h
    <3> QED BY <3>1, <3>9, Constants
  <2> QED BY <2>1, <2>2
<1>5. ~ (k < asked.len) BY <1>3, <1>4
<1> QED BY <1>1, <1>5 DEF TypeInv

\* When the messages received are a prefix of those sent.
LEMMA ReceivedPrefix ==
  ASSUME TypeInv
  PROVE  IsPrefix(received, sent) <=> /\ Len(received) <= Len(sent)
                                      /\ \A i \in 1..Len(received) : received[i] = sent[i]
<1>1. Sendable \subseteq Seq(Byte) BY FrameType
<1>2. sent \in Seq(Seq(Byte)) BY <1>1, SentType, SeqMonotonic
<1>3. received \in Seq(Seq(Byte)) BY SentType
<1> DEFINE S == Seq(Byte)
<1> HIDE DEF S
<1>4. sent \in Seq(S) /\ received \in Seq(S) BY <1>2, <1>3 DEF S
<1> QED BY ONLY <1>4, PrefixElements

\* A reader that knows where it is has received a prefix of what was sent.
LEMMA SyncPrefix ==
  ASSUME TypeInv, Sync
  PROVE  IsPrefix(received, sent)
BY ReceivedPrefix DEF Sync

\* They stay one while none is received.
LEMMA PrefixKept ==
  ASSUME TypeInv, WriterOK, [Next]_vars, IsPrefix(received, sent), received' = received
  PROVE  IsPrefix(received', sent')
<1>1. CASE sent' = sent BY <1>1
<1>2. CASE \E b \in Bodies : sent' = Append(sent, b)
  <2>1. PICK b \in Bodies : sent' = Append(sent, b) BY <1>2
  <2>2. /\ sent \in Seq(Seq(Byte)) /\ received \in Seq(Seq(Byte)) /\ b \in Seq(Byte)
        /\ Len(sent) \in Nat /\ Len(received) \in Nat
    <3>1. Sendable \subseteq Seq(Byte) BY FrameType
    <3>2. sent \in Seq(Seq(Byte)) BY <3>1, SentType, SeqMonotonic
    <3> QED BY <3>1, <3>2, SentType, BodiesSendable
  <2>3. /\ Len(received) <= Len(sent)
        /\ \A i \in 1..Len(received) : received[i] = sent[i]
    BY ReceivedPrefix
  <2> DEFINE t == Append(sent, b)
  <2>4. t \in Seq(Seq(Byte)) /\ Len(t) = Len(sent) + 1 /\ \A i \in 1..Len(sent) : t[i] = sent[i]
    BY <2>2, AppendProperties
  <2> HIDE DEF t
  <2>5. /\ Len(received) <= Len(t)
        /\ \A i \in 1..Len(received) : received[i] = t[i]
    <3> DEFINE r == Len(received)
    <3> DEFINE s == Len(sent)
    <3>1. r \in Nat /\ s \in Nat /\ r <= s /\ Len(t) = s + 1 BY <2>2, <2>3, <2>4
    <3> HIDE DEF r, s
    <3>2. r <= Len(t) /\ \A i \in 1..r : i \in 1..s BY <3>1
    <3> QED BY <2>3, <2>4, <3>2 DEF r, s
  <2>6. IsPrefix(received, t) BY <2>2, <2>4, <2>5, PrefixElements
  <2> QED BY <2>1, <2>6 DEF t
<1> QED BY <1>1, <1>2, SentGrows

\* Every step keeps ShortOK.
LEMMA ShortStep ==
  ASSUME TypeInv, WriterOK, TypeInv', SyncInv, SyncInv', ShortOK, [Next]_vars
  PROVE  ShortOK'
<1> SUFFICES ASSUME Short' PROVE IsPrefix(received, sent)' /\ (broken' => link' = "reset")
  BY DEF ShortOK
<1>1. Short /\ IsPrefix(received, sent) /\ (broken => link = "reset")
  BY ShortBefore DEF ShortOK
<1>2. CASE ~ broken'
  <2>1. Sync' BY <1>2 DEF SyncInv
  <2> QED BY <1>2, <2>1, SyncPrefix, PTL
<1>3. CASE broken
  <2>1. link = "reset" /\ net = <<>> BY <1>1, <1>3 DEF WriterOK
  <2>2. Pieces = {}
    <3>1. Len(net) = 0 /\ asked.len \in Int BY <2>1 DEF TypeInv
    <3>2. Min({asked.len, Len(net)}) <= 0 /\ Min({asked.len, Len(net)}) \in Int
      BY <3>1, MinOfTwo
    <3> QED BY <3>2 DEF Pieces
  <2>3. received' = received /\ link' = "reset"
    BY <2>1, <2>2 DEF Next, WriterLoop, ReaderLoop, OnConnect, OnWrite, Flush, FlushFails,
              Die, Reset, Alloc, OnReadNothing, OnReadEnd, OnReadPrefix, OnReadBody, vars,
              writerVars, readerVars, ReaderGone, Arrives
  <2> QED BY <1>1, <2>3, PrefixKept
<1>4. CASE ~ broken /\ broken'
  <2>1. Sync BY <1>4 DEF SyncInv
  <2>2. ~ OnReadPrefix BY <1>1, <1>4, <2>1, ShortPrefixWhole
  <2>3. ~ OnReadBody
    BY <1>4 DEF OnReadBody
  <2>4. received' = received
    BY <2>2, <2>3 DEF Next, WriterLoop, ReaderLoop, OnConnect, OnWrite, Flush, FlushFails,
              Die, Reset, Alloc, OnReadNothing, OnReadEnd, vars, readerVars
  <2>5. \A n \in Nat : ~ Send(n)
    <3> SUFFICES ASSUME NEW n \in Nat, Send(n) PROVE FALSE OBVIOUS
    <3>1. args.spare > 0 BY <1>1 DEF Short
    <3>2. Len(Structure(n)) < 0 BY <1>4, <3>1 DEF Send, MakeData
    <3>3. Len(Structure(n)) = n + 1 BY StructureType
    <3> QED BY <3>2, <3>3
  <2>6. Reset
    <3>1. current_len \in Nat /\ current_len' \in Nat BY DEF TypeInv
    <3> QED BY <1>4, <3>1, <2>2, <2>3, <2>5 DEF Next, WriterLoop, ReaderLoop, OnConnect, OnWrite, NextMessage,
       Flush, FlushFails, Die, Alloc, OnReadNothing, OnReadEnd, vars
  <2>7. link' = "reset" BY <2>6 DEF Reset
  <2> QED BY <1>1, <2>4, <2>7, PrefixKept
<1> QED BY <1>2, <1>3, <1>4

\* No part of a message is ever taken for a whole one, and no message is lost or doubled before
\* a later one is received, whatever the network does, as long as prefixes have one or two
\* bytes and the encoder has room for the end mark (uvreader.c, on_read).
THEOREM WholeMessages == Spec => []OnlyWholeMessages
<1>1. Init => ShortOK
  <2> SUFFICES ASSUME Init PROVE ShortOK OBVIOUS
  <2>1. received = <<>> /\ sent = <<>> /\ broken = FALSE BY DEF Init
  <2>2. IsPrefix(<<>>, <<>>) BY DEF IsPrefix
  <2> QED BY <2>1, <2>2 DEF ShortOK
<1>2. (TypeInv /\ WriterOK /\ SyncInv) /\ (TypeInv /\ WriterOK /\ SyncInv)' /\ ShortOK /\ [Next]_vars
        => ShortOK'
  BY ShortStep
<1>3. ShortOK => OnlyWholeMessages BY DEF ShortOK, Short, OnlyWholeMessages
<1> QED BY <1>1, <1>2, <1>3, Invariant, PTL DEF Spec
================================================================================
