------------------------------- MODULE UvFraming -------------------------------
(***************************************************************************)
(* The two libuv examples at the ends of a TCP connection: uvwriter.c      *)
(* sends structures of growing length, each as one uv_write of a prefix    *)
(* and a body, the next one from the callback of the last; uvreader.c      *)
(* takes them apart again in the callbacks alloc_buffer and on_read.       *)
(*                                                                         *)
(* An event loop runs one callback at a time, so a callback is an action;  *)
(* between the alloc_buffer and the on_read of one read the network and    *)
(* the other program may move.  The bytes arrive in any pieces.  What the  *)
(* loop and the kernel do (Flush, Readable, ...) is external: libuv fills  *)
(* the buffer alloc_buffer returned with what there is, reads again at     *)
(* once when it was filled, reports 0 bytes when there are none, and ends  *)
(* the program when the buffer is empty.                                   *)
(***************************************************************************)
EXTENDS Gob, FiniteSetsExt

CONSTANTS
  Arguments,    \* [start, end, increment, spare]: the command line of uvwriter, and
                \*   how many bytes more than current_len its encoder starts with
                \*   that are left for the last byte (0; a program like it may have 1)
  NetSize,      \* bound on the bytes between the programs
  Garbage,      \* bytes that malloc may leave in a new client_t
  Faults        \* subset of {"refused", "death", "reset"}

ASSUME UvAssumption ==
  /\ \A a \in Arguments :
       a.start \in Nat /\ a.end \in Nat /\ a.increment \in Nat \ {0}
       /\ a.spare \in {0, 1} /\ a.start + a.spare > 0
       /\ a.start + 1 < Power[MaxBytes] /\ a.end < Power[MaxBytes]
  /\ Power[MaxBytes] > 4
  /\ NetSize \in Nat \ {0} /\ Garbage \subseteq 0..(Radix - 1)
  /\ Garbage # {} /\ Faults \subseteq {"refused", "death", "reset"}

VARIABLES
  args,         \* start_len, end_len, increment
  wpc,          \* writer: "connecting", "writing", or at its end: "done",
                \*   "refused" or "died"
  current_len,
  outbuf,       \* the memory outbuf[0] and outbuf[1] point to
  left,         \* how many of its bytes the request has still to send
  sent,         \* history: the bodies given to uv_write
  net,          \* the bytes on their way
  link,         \* "up", or "reset" for good
  rpc,          \* reader: "reading", "closed", or "aborted" by libuv
  state, nread, intmp, inalloc, plen, inbuf, inlen,      \* client_t
  asked,        \* where alloc_buffer wants the bytes and how many, or None
  again,        \* libuv reads again without waiting for more bytes
  received,     \* history: the bodies given to glme_decode_struct
  whole,        \* history: how many of them before anything went wrong
  broken        \* history: the connection was reset, a prefix came in pieces, or
                \*   an encoder failed

writerVars == <<args, wpc, current_len, outbuf, left, sent>>
clientVars == <<state, nread, intmp, inalloc, plen, inbuf, inlen>>
readerVars == <<rpc, clientVars, asked, again, received, whole>>
vars == <<writerVars, net, link, readerVars, broken>>

None == [at |-> 0, len |-> -1]

Init ==
  /\ args \in Arguments
  /\ wpc = "connecting" /\ current_len = args.start
  /\ outbuf = <<>> /\ left = 0 /\ sent = <<>>
  /\ net = <<>> /\ link = "up"
  /\ rpc = "reading"
  /\ state = 0 /\ nread = 0 /\ inalloc = 0 /\ plen = 0 /\ inlen = 0
  /\ intmp \in {[i \in 0..MaxBytes |-> g] : g \in Garbage}
  /\ inbuf = <<>>
  /\ asked = None /\ again = FALSE
  /\ received = <<>> /\ whole = 0 /\ broken = FALSE

(***************************************************************************)
(* uvwriter.c                                                              *)
(***************************************************************************)

\* make_data: a structure with nc bytes k % 256.  One byte stands for its type, the
\* fields around the bytes, and the end mark.
Structure(nc) == <<nc % Radix>> \o [k \in 1..nc |-> (k - 1) % Radix]

\* What make_data returns and what is in the buffer then.  A buffer of nc bytes grows
\* to the very end of the nc bytes, the end mark meets a full buffer, which loses its
\* last byte, and the result is -4 (GLME_ENCODE_STRUCT_END).
MakeData(nc, spare) ==
  IF spare > 0 THEN [n |-> Len(Structure(nc)), bytes |-> Structure(nc)]
  ELSE [n |-> -4, bytes |-> Front(Structure(nc))]

\* uv_write of the two buffers, prefix and body.  The result of make_data is not
\* looked at: it is the prefix, as an unsigned int.
Send(nc) ==
  LET data == MakeData(nc, args.spare)
  IN /\ outbuf' = EncodedUint(data.n % Power[MaxBytes]) \o data.bytes
     /\ left' = Len(outbuf')
     /\ sent' = Append(sent, data.bytes)
     /\ broken' = (broken \/ data.n < 0)

OnConnect ==
  /\ wpc = "connecting"
  /\ \/ Send(current_len) /\ wpc' = "writing"
     \/ "refused" \in Faults /\ wpc' = "refused" /\ UNCHANGED <<outbuf, left, sent, broken>>
  /\ UNCHANGED <<args, current_len, net, link, readerVars>>

\* The callback of a write, whose status it does not look at: the next message, or
\* the end of the program and of the connection.
NextMessage ==
  /\ current_len' = current_len + args.increment
  /\ IF current_len' >= args.end
     THEN wpc' = "done" /\ UNCHANGED <<outbuf, left, sent, broken>>
     ELSE wpc' = wpc /\ Send(current_len')

OnWriteEarly ==                  \* mutant: the next message before the callback
  /\ wpc = "writing" /\ left <= 1
  /\ NextMessage
  /\ UNCHANGED <<args, net, link, readerVars>>

OnWrite ==
  /\ wpc = "writing" /\ left = 0
  /\ NextMessage
  /\ UNCHANGED <<args, net, link, readerVars>>

WriterEnded == wpc \in {"done", "died"}
ReaderGone == rpc # "reading" \/ link = "reset"

\* The loop writes what the connection takes.
Flush ==
  /\ wpc = "writing" /\ left > 0 /\ ~ ReaderGone
  /\ \E k \in 1..Min({left, NetSize - Len(net)}) :
       /\ net' = net \o SubSeq(outbuf, Len(outbuf) - left + 1, Len(outbuf) - left + k)
       /\ left' = left - k
  /\ UNCHANGED <<args, wpc, current_len, outbuf, sent, link, readerVars, broken>>

FlushBlocks ==                   \* mutant: the request stays in the queue
  /\ wpc = "writing" /\ left > 0 /\ ReaderGone
  /\ UNCHANGED vars

\* Nobody reads any more: the request ends with an error.
FlushFails ==
  /\ wpc = "writing" /\ left > 0 /\ ReaderGone
  /\ left' = 0
  /\ UNCHANGED <<args, wpc, current_len, outbuf, sent, net, link, readerVars, broken>>

\* The program is killed; what it has written still arrives.
Die ==
  /\ "death" \in Faults /\ wpc = "writing"
  /\ wpc' = "died"
  /\ UNCHANGED <<args, current_len, outbuf, left, sent, net, link, readerVars, broken>>

\* The connection is lost with what was on its way.
Reset ==
  /\ "reset" \in Faults /\ link = "up" /\ wpc \in {"writing", "done"}
  /\ link' = "reset" /\ net' = <<>>
  /\ broken' = TRUE
  /\ UNCHANGED <<writerVars, readerVars>>

(***************************************************************************)
(* uvreader.c                                                              *)
(***************************************************************************)
AtEnd == net = <<>> /\ (WriterEnded \/ link = "reset")
Readable == net # <<>> \/ AtEnd

AskTooMuch == [at |-> 1, len |-> plen]          \* mutant: -1 for the first is missing
AskAfterFirstByte == [at |-> 1, len |-> plen - 1]
AskOneLess == [at |-> nread, len |-> inlen - nread - 1]     \* mutant: off by one
AskForBody == [at |-> nread, len |-> inlen - nread]

\* alloc_buffer.  The first byte of a prefix on its own, then the others; of a body
\* what is missing.  libuv does not accept an empty buffer.
Alloc ==
  /\ rpc = "reading" /\ asked = None /\ (Readable \/ again)
  /\ \/ /\ state = 0 /\ inalloc = 0
        /\ inalloc' = 1
        /\ asked' = [at |-> 0, len |-> 1]
     \/ /\ state = 0 /\ inalloc # 0
        /\ inalloc' = plen
        /\ asked' = AskAfterFirstByte
     \/ /\ state = 1
        /\ inalloc' = inalloc
        /\ asked' = AskForBody
  /\ rpc' = IF asked'.len = 0 THEN "aborted" ELSE rpc
  /\ UNCHANGED <<writerVars, net, link, state, nread, intmp, plen, inbuf, inlen,
                 again, received, whole, broken>>

\* on_read(0): there was nothing, and the request for a buffer is undone.
OnReadNothingStartsOver ==       \* mutant: undone as for the first byte
  /\ rpc = "reading" /\ asked # None /\ ~ Readable
  /\ inalloc' = IF state # 0 THEN inalloc ELSE 0
  /\ asked' = None /\ again' = FALSE
  /\ UNCHANGED <<writerVars, net, link, rpc, state, nread, intmp, plen, inbuf, inlen,
                 received, whole, broken>>

OnReadNothing ==
  /\ rpc = "reading" /\ asked # None /\ ~ Readable
  /\ inalloc' = IF state # 0 THEN inalloc ELSE IF inalloc = 1 THEN 0 ELSE 1
  /\ asked' = None /\ again' = FALSE
  /\ UNCHANGED <<writerVars, net, link, rpc, state, nread, intmp, plen, inbuf, inlen,
                 received, whole, broken>>

\* on_read(-1): the end of the stream or an error.
OnReadEnd ==
  /\ rpc = "reading" /\ asked # None /\ AtEnd
  /\ rpc' = "closed" /\ asked' = None
  /\ UNCHANGED <<writerVars, net, link, clientVars, again, received, whole, broken>>

\* libuv puts k bytes where alloc_buffer has said.
Arrives(k) ==
  /\ rpc = "reading" /\ asked # None
  /\ net' = SubSeq(net, k + 1, Len(net))
  /\ asked' = None /\ again' = (k = asked.len)
  /\ UNCHANGED <<writerVars, link, rpc>>

Pieces == 1..Min({asked.len, Len(net)})

\* on_read in state 0.  The bytes counted so far are decoded; if too few they say
\* how many there must be.
OnReadPrefix ==
  /\ state = 0
  /\ \E k \in Pieces :
       /\ Arrives(k)
       /\ intmp' = [i \in DOMAIN intmp |->
                      IF i \in asked.at..(asked.at + k - 1)
                      THEN net[i - asked.at + 1] ELSE intmp[i]]
       /\ LET needed == NumFollowing(intmp'[0]) + 1
          IN IF nread + k < needed
             THEN /\ nread' = nread + k /\ plen' = needed
                  /\ UNCHANGED <<state, inlen, inbuf>>
             ELSE /\ state' = 1 /\ nread' = 0 /\ plen' = 0
                  /\ inlen' = DecodedUint([i \in 1..needed |-> intmp'[i - 1]])
                  /\ inbuf' = <<>>
       /\ broken' = (broken \/ k < asked.len)
  /\ UNCHANGED <<inalloc, received, whole>>

\* on_read in state 1.  What glme_decode_struct makes of a complete body changes
\* nothing here.
OnReadBodyAny ==                 \* mutant: the first bytes are the message
  /\ state = 1
  /\ \E k \in Pieces :
       /\ Arrives(k)
       /\ received' = Append(received, inbuf \o SubSeq(net, 1, k))
       /\ whole' = IF broken THEN whole ELSE whole + 1
       /\ nread' = 0 /\ state' = 0 /\ inalloc' = 0 /\ inlen' = 0 /\ inbuf' = <<>>
  /\ UNCHANGED <<intmp, plen, broken>>

OnReadBody ==
  /\ state = 1
  /\ \E k \in Pieces :
       /\ Arrives(k)
       /\ LET body == inbuf \o SubSeq(net, 1, k)
          IN IF nread + k = inlen
             THEN /\ received' = Append(received, body)
                  /\ whole' = IF broken THEN whole ELSE whole + 1
                  /\ nread' = 0 /\ state' = 0 /\ inalloc' = 0 /\ inlen' = 0
                  /\ inbuf' = <<>>
             ELSE /\ nread' = nread + k /\ inbuf' = body
                  /\ UNCHANGED <<received, whole, state, inalloc, inlen>>
  /\ UNCHANGED <<intmp, plen, broken>>

Stopped == wpc = "refused" \/ (WriterEnded /\ rpc # "reading")

WriterLoop == OnConnect \/ OnWrite \/ Flush \/ FlushFails
ReaderLoop == Alloc \/ OnReadNothing \/ OnReadEnd \/ OnReadPrefix \/ OnReadBody

Next == WriterLoop \/ Die \/ Reset \/ ReaderLoop \/ (Stopped /\ UNCHANGED vars)

\* Both event loops run, and the network delivers.
Spec == Init /\ [][Next]_vars /\ WF_vars(WriterLoop) /\ WF_vars(ReaderLoop)

(***************************************************************************)
(* Properties.                                                             *)
(***************************************************************************)

\* The bodies uvwriter sends: of start_len and of lengths below end_len.
Bodies ==
  UNION {{MakeData(n, a.spare).bytes : n \in {a.start} \cup (a.start..(a.end - 1))} :
          a \in Arguments}

\* The types of the variables.  A request for bytes of a body stays inside inbuf, one
\* for bytes of a prefix inside the bytes a prefix can have; a reader that has lost its
\* place may take any byte for the first of a prefix, and ask for as many as that says.
LongestPrefix == IF broken THEN Radix - Small + 1 ELSE MaxBytes + 1

TypeOK ==
  /\ args \in Arguments /\ current_len \in Nat
  /\ wpc \in {"connecting", "writing", "done", "refused", "died"}
  /\ outbuf \in Seq(0..(Radix - 1)) /\ left \in 0..Len(outbuf) /\ sent \in Seq(Bodies)
  /\ net \in Seq(0..(Radix - 1)) /\ Len(net) <= NetSize /\ link \in {"up", "reset"}
  /\ rpc \in {"reading", "closed", "aborted"} /\ state \in {0, 1} /\ nread \in Nat
  /\ intmp \in [0..MaxBytes -> 0..(Radix - 1)]
  /\ inalloc \in 0..LongestPrefix /\ plen \in 0..LongestPrefix
  /\ inlen \in Nat /\ inbuf \in Seq(0..(Radix - 1))
  /\ Len(inbuf) = IF state = 1 THEN nread ELSE 0
  /\ asked \in [at : Nat, len : Int] /\ again \in BOOLEAN
  /\ asked # None => asked.at + asked.len <= IF state = 0 THEN LongestPrefix ELSE inlen
  /\ received \in Seq(Seq(0..(Radix - 1))) /\ whole \in 0..Len(received)
  /\ broken \in BOOLEAN

\* As long as no prefix has arrived in pieces and the writer's encoder has not run
\* out of room, the reader knows where it is: the bytes it holds of the message at
\* hand, those on their way and those still to be sent are, in this order, the
\* frames of the messages not yet received, and the length it works with is that of
\* the first of them (uvreader.c, alloc_buffer and on_read; uvwriter.c, on_write).
Held ==
  IF state = 0 THEN [i \in 1..nread |-> intmp[i - 1]] ELSE EncodedUint(inlen) \o inbuf

Pending == SubSeq(sent, Len(received) + 1, Len(sent))

InStep ==
  ~ broken =>
    Held \o net \o SubSeq(outbuf, Len(outbuf) - left + 1, Len(outbuf))
      = Stream(Pending)

\* A writer that goes away in the middle of a message, or a connection that does,
\* never leaves the reader with part of a message taken for a whole one, nor does any
\* cutting of the bytes, as long as prefixes have one or two bytes and the encoder
\* has room for the end mark (uvreader.c, on_read).
OnlyWholeMessages ==
  (args.spare > 0 /\ \A i \in DOMAIN sent : Len(EncodedUint(Len(sent[i]))) <= 2)
    => IsPrefix(received, sent)

\* The messages of which every byte is in the connection, or would be.
Completed == IF left = 0 THEN sent ELSE Front(sent)

Queue == INSTANCE MsgQueue WITH
  Messages <- Bodies,
  queue <- SubSeq(Completed, whole + 1, Len(Completed)),
  delivered <- SubSeq(received, 1, whole)

\* The messages of uvwriter come out of uvreader whole, in order and each once, unless
\* the connection is reset, a prefix comes in pieces, or the encoder's buffer is too
\* short for the end mark, as it is in uvwriter.c (uvreader.c, on_read).
ImplementsQueue == Queue!QueueSafety

\* Until then every message of which the last byte is sent is decoded in the end, also
\* when the writer is killed after it (uvreader.c, alloc_buffer and on_read).
EveryMessageArrives == Queue!QueueFairness

\* Once connected, both programs come to an end, also when the reader has lost its
\* place, the writer with all its messages sent unless it was killed: no callback is
\* lost that one of them waits for (a uvwriter that is refused runs for ever).
BothEnd == <>(Stopped /\ (wpc = "done" => current_len >= args.end))
===============================================================================
