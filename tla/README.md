# Verification of glme

glme is a small C library that encodes C structures into a stream of bytes (a variant of Go's
gob format, described in `ENCODING`) and decodes them again. This directory holds a TLA+
development of it: modules that model the parts of the library, TLC configurations that check
them on small instances, and proofs, checked by TLAPS, that hold for every value of the
constants. Paths below are relative to the repository (`src/encoder.c` is the library's encoder).

| file | what it is |
|---|---|
| `GlmeStream.tla` | what encoder and decoder share: type ids, representation of a value, field macros |
| `Registry.tla` | the handler table of a `glme_base_t`: register, unregister, find |
| `StructEncoder.tla` | `glme_encode_struct`, `glme_encode_field`, the `GLME_ENCODE_FLD_*` macros |
| `StructDecoder.tla` | `glme_decode_struct`, `glme_decode_field`, the `GLME_DECODE_FLD_*` macros |
| `StructCodec.tla` | an encoding and a decoding program put together, and their properties |
| `StructMeaning.tla` | what the bytes of a structure mean, by recursion over it, and the properties that compare with it |
| `StructCodecProofs.tla` | the theorems about `StructCodec` and `Registry` that need no meaning of the bytes |
| `StructMeaningProofs.tla` | the bytes the encoder writes are those `ENCODING` describes; what the decoder makes of them is what was encoded, and it does not fail on all of it |
| `MCStructCodec.tla`, `struct_*.cfg` | its instances |
| `GlmeBuf.tla` | the life of one `glme_buf_t`: pointers, growth, ownership, and the heap |
| `GlmeBufProofs.tla` | the theorems about it |
| `MCGlmeBuf.tla`, `buf*.cfg` | its instances |
| `DataTheorems.tla` | facts about numbers, sequences, concatenations and recursive functions the proofs share |
| `Gob.tla` | `gobber.c`: integers, floats and byte arrays of variable length |
| `GobProofs.tla` | the theorems about it, and about streams of framed messages |
| `MsgQueue.tla` | abstract: what message framing promises |
| `Channel.tla` | `glme_buf_writem` and `glme_buf_readm` at the two ends of a pipe |
| `ChannelProofs.tla` | the theorems about it |
| `MCChannel.tla`, `channel*.cfg` | its instances |
| `UvFraming.tla` | `examples/uvwriter.c` and `examples/uvreader.c` at the ends of a TCP connection |
| `UvFramingProofs.tla` | the theorems about it |
| `MCUvFraming.tla`, `uv.cfg` | its instances |
| `GBuffer.tla` | the class `GBuffer` of the Python binding |
| `GBufferProofs.tla` | the theorems about it |
| `MCGBuffer.tla`, `gbuffer.cfg` | its instances |
| `PROJECT.json` | components, runs, mutants, the source lines of every definition, findings, hazards |

## 1. The system

### Components, their state and operations

* **Primitive codec** (`src/gobber.c`, `gobber.h`). Stateless functions from values to bytes and
  back: unsigned integers of variable length, signed integers with the sign in bit 0, floats as
  byte-reversed integers, byte arrays with a length. A negative result is the number of bytes
  that would be needed. Correct when decoding what was encoded returns the value and the number
  of bytes, and when the boundary cases (127/128, exact fit, one byte too few) agree on both sides.
* **Buffer** (`glme_buf_t` in `inc/glme.h`; `glme_buf_resize` in `glme.c`). State: the block
  `buf`, its length `buflen`, the write pointer `count`, the read pointer `current`, the flag
  `owner`, and `last_error`. Operations: `init`, `make`, `close`, `reset`, `clear`, `seek`,
  `own`, `disown`, `resize`, and every encode or decode function, which move the pointers and
  may grow the block. Correct when `current <= count <= buflen` (`glme.h:95-96`), the block is
  allocated and as long as the buffer says, and every block has one party to free it.
* **Structure encoder** (`src/encoder.c`, macros of `inc/glme.h`). State: the buffer and, per
  encoder function on the C stack, `__delta`, the distance to the last field sent. It leaves out
  fields with their default value, writes distances relative to the last field sent on the same
  level, and recurses into structures, by a function passed to the macro or found in the registry.
* **Structure decoder** (`src/decoder.c`, macros). State: the buffer, `__delta` per decoder
  function, the structures being filled, the memory allocated for pointers, strings and arrays.
  Correct when what a successful call returns is what was encoded, at the end of its bytes, and
  a failed call has released what it allocated.
* **Handler base** (`glme_base_*` in `glme.c`). A fixed table of (type id, encoder, decoder), in
  which id 0 marks a free slot, and four allocator functions; used by both codecs when a field
  names no function. Operations: `init`, `register`, `unregister`, `find`, `release`. Correct
  when the handlers found are those registered and not unregistered since, with holes and
  duplicates in the table.
* **Message framing** (`glme_buf_writem`, `glme_buf_readm` in `glme.c`). Writes a buffer as a
  length prefix and a body to a file descriptor and reads it from one. Two programs, one pipe.
* **Python binding** (`cython/glme.pyx`). A second implementation of buffer and element codec:
  `buf`, `size`, `count`, `current`, `owner`, and a method per type in each direction. Correct
  when an element goes in as a whole or not at all, comes out as it went in, and the read
  pointer is at the start of an element whenever the program is told that a call has failed.
* **libuv examples** (`examples/uvreader.c`, `uvwriter.c`). The framing again, with callbacks:
  the writer keeps one request in flight, the reader a `client_t` that says which part of which
  message the next bytes belong to. Correct when the reader gets the writer's messages whatever
  pieces they arrive in, and both loops end.
* **Tests, timing programs, build files** (`test/`, `perf/`, autotools). The tests are where the
  structures of the instances come from.

Interaction is by calls and shared buffers: a program's encoder function calls macros, these
call `glme_encode_field`, which calls the encoder function of a nested structure, all of them
appending to one buffer; the buffer grows through the base's allocator; framing copies the
buffer to a file descriptor, from which another program, perhaps built from another version of
the structures, fills a buffer and runs the mirror image of all this. The library has no threads
and no callbacks of its own; the only concurrency is that of the two programs around a pipe or a
connection, and that of the examples' callbacks with the network.

### What is hard

The full list, with the lines where it bites, is `hazards` in `PROJECT.json`. In short:

1. *Agreement of encoder and decoder.* The distances of omitted fields, the 0 that ends a
   structure and the position after each element must agree on both sides through nesting,
   between versions of a structure and for any prefix of the bytes. A wrong distance raises no
   error: values turn up in other fields.
2. *Ways out.* `glme_decode_field` has a dozen returns, some of which return a positive number
   on underflow, and each may leave the pointer, `*delta`, the element and the allocations in a
   different state.
3. *The end of the block.* Growth happens in four places with four rules; unsigned pointers wrap.
4. *Ownership.* `make`, `own`, `disown`, `resize` and `close` in long legal sequences.
5. *The pipe.* Two writes, up to three reads, each of which may be short; a writer that dies; a
   refused message; a full pipe.
6. *Callbacks.* `alloc_buffer` decides from state an earlier `on_read` left what the bytes of the
   next one are; a call that brings nothing must be undone; results of encoders and of writes are
   not looked at.
7. *Python's errors.* A step in the middle of an element fails; whether `count` returns depends
   on the type, on how the exception travels, and on whether the buffer has already grown.

Some of these go wrong in the code as it is, and after that no later state can be promised
anything. The models do what the code does and record it in a history variable (`spoiled` and
`dangling` in `GlmeBuf`, `spoiled` and `strayed` in `GBuffer`, `broken` in `UvFraming`), which the
invariants except. Such a hazard is found by a run that expects a violation (`buf_order`), or by no
property, and then has a note.

## 2. Modules and how they correspond to the code

### StructEncoder, StructDecoder, StructCodec

`stream` is the content of the buffer; one item is one byte. Every integer sent is below 128,
where gob integers are one byte, so positions in `stream` are values of `count` and `current`.
(Longer integers concern `gobber.c` alone and are in `Gob`.) A float is one item, too.

The C stacks of encoder and decoder functions are `estack` and `dstack`; a frame holds the type,
the next field, `__delta`, and on the decoding side the values so far and the memory the frame
is responsible for. **One action is one `glme_encode_field` or `glme_decode_field` call**, whole:
everything from the test of the delta to the update of `*delta` and of the pointer. The calls
that start and end a structure are actions, because between them the nested fields run. The
decoder's actions are named after the ways through `glme_decode_field`: underflow, after the end
mark, not yet, type error, and one action per case of the switch, each with its failures inside.

| code | model |
|---|---|
| `GLME_ENCODE_STRUCT_START`, `__delta = 1` | `EncodeStruct`, `EncodeStructField`, `EncoderFrame` |
| early returns of `glme_encode_field` (null, size 0, empty) | `EncodeOmitted` |
| element cases | `EncodeElement`; `EncodeStructField` for the default case |
| `glme_encode_end_struct`, `*delta = 1` in the caller | `EncodeEndStruct` |
| `offset == 0`, `*delta = 0` | `FieldAfterEnd` |
| `*delta < offset` | `FieldNotYet` |
| peek of the type mark on underflow: an `int64_t` nobody has set | `PeekedType`, any value of `Garbage` |
| positive result on underflow (`glme_decode_value_int64`, `_double`) | the last alternative of `FieldScalar` |
| `return nc` / `goto error` with `free` | `Fail(pos, lost)` |
| `GLME_DECODE_FLD_START_ARRAY` ... `END_ARRAY` | `BlockSkipped`, `BlockDecoded` |

`live` counts the blocks the decoder has allocated and not freed, `held` those the caller's
structures lead to, and `Total(BlocksOf(dstack))` those the functions on the stack answer for: a
structure a function has allocated and stored nowhere yet, and what its own fields point to. `StructCodec` lets the encoder finish, hands over all bytes or a prefix of
them (`Deliver`), and lets the decoder ask for one structure after the other.

`Registry` has the handler tables: a sequence of slots with type ids, 0 for a free one. Each of
the two programs has its own (`ebase`, `dbase`), and `ChangeHandlers` registers or unregisters a
handler of either between two calls. `ecount` and `dcount` are history variables that count the
registrations in force; they are what the table is compared with. A program may also overlook
that its encoder failed for want of a handler in the middle of a structure: `Deliver` then hands
over the bytes it has left, with a distance and no field after it.

`Structures` are the structures in the encoding program's memory, by type. Three assumptions name
what the modules rest on: `StreamAssumption` (type ids, numbers of fields and sizes are small
enough for one byte, and a structure that is a field has a type with a decoder function),
`MessagesAssumption` (a structure has a value for each field of its type, and every value is one
byte) and `FaultsAssumption`. What a structure *means* (`WireFormat`, `RoundTrip`) is defined in
`StructMeaning` by recursive functions over its `Parts`, the structures in memory with their types:
`WireStruct` (its bytes), `Lossless` (the decoder's version has a field for everything sent) and `Seen`
(what that version makes of it). The constant `Depth` says how deeply the structures in a part are
nested; `NestingAssumption`, that a part is less deep than the one it is in, excludes cyclic lists,
which `glme_encode_struct` would follow until the C stack is full.

### GlmeBuf

The five fields of `glme_buf_t`, and the heap: allocated blocks, their sizes, and the blocks the
program itself is responsible for. One action per function of the interface, plus those of the
encoder that grow the block (`EncodeBaseType`, `EncodeValue`, `EncodeComplex`, `EncodeBytes`:
the four growth rules) and `ReadMessage`, the effect of `glme_buf_readm`. `size_t` wraps at
`Modulus`. `Resized` and `NotResized` are the outcomes of `glme_buf_resize`, with those of
`realloc(p, 0)`. The history variable `spoiled` marks a buffer in which a value has met a full
block (see finding 5) or a failed resize in `readm` went unnoticed, until it is emptied;
`dangling` marks `realloc(buf, 0)` of a block, after which C gives the program no meaning and
the model stops.

The program is assumed to follow the interface: it initialises only a buffer that owns nothing,
makes buffers from its own memory, takes over what it disowns, disowns a buffer only when it has
a length, and gives away what it hands over with `own`.

### Gob, Channel, MsgQueue

`Gob` has the integers of `gobber.c` with the numbers 256, 128 and 8 as constants (`Radix`,
`Small`, `MaxBytes`), the frame of a message and the stream of several. In `Channel`
a writing program calls `glme_buf_writem`, and a reading one calls `glme_buf_readm` as long as
the result is positive and closes its end afterwards (the library has no means to find the next
message after an error). Each `write` is a series of `Write` steps: a write of at most `PipeBuf`
bytes enters the pipe at once, a longer one in pieces as there is room. `ReadFirst`, `ReadRest`,
`ReadBody` are the three `read` calls, with everything readm does up to the next one. The kernel
parts (`Write`, `Available`, `TakeOut`, ...) are external and follow `pipe(7)`. Faults: the
writer dies between any two steps; a signal ends a write after its first pieces, and `writem`
goes on as if all bytes had been written.

`MsgQueue` is the promise: a queue with `Put` and `Take` that may `Break`; until it does,
messages come out whole and in order (`QueueSafety`), and every one comes out
(`QueueFairness`). `Channel` implements both with
`delivered` the messages received while nothing had gone wrong, `queue` those written completely
and not yet received, and `broken` the history variable of the same name.

### UvFraming

Both examples, **one action per callback** (an event loop runs one at a time): `OnConnect`,
`OnWrite`; `Alloc` (`alloc_buffer`), and `on_read` as `OnReadNothing`, `OnReadEnd`,
`OnReadPrefix`, `OnReadBody`, its four cases. `client_t` is there field by field, `intmp` with
what `malloc` left in it. Between `alloc_buffer` and its `on_read` the network and the other
program may move. External: the loop and the kernel. libuv asks for a buffer when the socket is
readable, reports 0 bytes when it is not after all, reads again at once when the buffer was
filled, aborts the program when the buffer is empty; the connection takes and brings bytes in
any pieces. Faults: the connection is refused or reset, the writer is killed.

One fact decides everything that follows: `uvwriter.c` starts its encoder with room for the byte
array alone (`glme_buf_init(&enc, current_len)`, lines 85 and 132). The array grows the buffer to
its exact end, the end mark of the structure meets a full buffer, which takes a byte back
(finding 5), `make_data` returns -4, and `n`, not looked at, goes out as the length 4294967292.
The reader waits for 4 GB until the connection ends. `MakeData` has this, and `broken` says so;
`args.spare = 1` is the same program with a buffer one byte longer, of which the rest of the
framing can be asked something.

`UvFraming` implements `MsgQueue` as `Channel` does, with `delivered` the bodies handed to
`glme_decode_struct` before anything named in `broken`, and `queue` the others of which the
writer's request has sent every byte.

### GBuffer

One action per method call. A value is `<<type, contents>>`; `Gob` gives the bytes of numbers and
byte strings, with the module's radix, so that lengths of elements, room and growth are those of
the code. `Elements` are the Python values and those inside of them; `ElementsAssumption` says what
they may be (`Fits`), and that no value leads back to itself, which `Depth` is the witness of:
`encodeElement` calls itself for the elements of a list, and would not return from one that is in
itself. Because methods inside one another go on after a failure, what they do is one sequence
of steps (`Program`, by recursion over the value), each with the outcome of its `cdef` method: `PutNumber`
tries again after a resize, `PutBytes` does not. The methods of simple types are one step (`PutSimple`):
they stop at the first result that is not positive and restore `count`. `Run` takes the steps one after
the other until one raises an exception. Decoding is `ReadWith` with a reader for the elements
inside, `Reader`, which is `ReadWith` again, with as many levels as there are bytes. `build`
says how an exception leaves a `cdef int` method without an `except` clause: swallowed in older
Cython versions, propagated in newer ones. The history variable `elements` has the elements that
are completely in the buffer; `spoiled` says that one is there without a part, `strayed` that a
failed decode call has left the pointer inside one. After either the program seeks or resets.

## 3. Runs

| run | instance | result |
|---|---|---|
| `struct_core` | two messages in one buffer, equal programs, all bytes; structures of `t21.c`, `t23.c`, `t17.c` with nesting, a linked list of up to three, arrays, byte vectors, float vectors | `TypeOK`, `WireFormat`, `RoundTrip`, `Aligned`, `IntactDecodes`, `NoLeak` hold |
| `struct_skew` | one message of ten kinds of structure of which encoder and decoder have different versions (field added, removed, retyped, resized, pointer made embedded, handler missing); every prefix; failing allocations; calls for the wrong type; any value for what nobody has set; two types whose handlers come and go; the bytes of an encoder that has failed | `RoundTrip`, `Aligned`, `CursorInRange`, `HandlersFound`, `NoDoubleFree` hold |
| `struct_string` | a structure with a string | `IntactDecodes` violated |
| `struct_block` | a structure with a `START_ARRAY` block | `IntactDecodes` violated |
| `struct_vector` | a structure with an integer vector of fixed size | `RoundTrip` violated |
| `struct_leak` | a linked list cut short | `NoLeak` violated |
| `buf` | three blocks, lengths up to 4, `size_t` up to 9, all operations | `TypeOK`, `OrderedUnlessSpoiled`, `BlockBehindBuffer`, `OneOwner` hold |
| `buf_order` | the same without messages | `PointersOrdered` violated |
| `channel` | three messages of lengths 0 to 5 (prefixes of one, two and three bytes), a pipe of 3 bytes, `PipeBuf` 2, `maxlen` 4, all faults | `TypeOK`, `InStep`, `NeverBroken`, `ImplementsQueue`, `EveryMessageArrives`, `WritemReturns` hold |
| `channel_short` | a living writer, no signals, messages longer than `PipeBuf` | `ReceivedAsSent` violated |
| `uv` | six command lines: bodies of 1 to 7 bytes with prefixes of one, two and three bytes, four of them with room for the end mark and two without, as in `uvwriter.c`; a connection of 4 bytes; all faults | `TypeOK`, `InStep`, `OnlyWholeMessages`, `ImplementsQueue`, `EveryMessageArrives`, `BothEnd` hold |
| `gbuffer` | up to three of 17 values of all types, buffers of length 0, 2, 5 and 6 that grow by 4 up to 15, both builds | `TypeOK`, `NothingInBetween`, `RoundTrip`, `CursorAligned`, `Codec`, `NumbersGoIn` hold |

What the properties say:

* `WireFormat`: the bytes of a message are those a recursive definition of `ENCODING`'s grammar
  gives for it; distances are relative to the previous field *present on the same level*.
* `RoundTrip`: a structure whose decoding succeeded is the one encoded, seen through the
  decoder's version: common fields equal or default, new fields default, and nothing was sent in
  fields the decoder lacks. It holds for every prefix and for all the positive error codes: a
  truncated message never succeeds with other values (except in finding 3's vectors, which
  `struct_skew` does not contain), and neither does the half structure of a failed encoder.
* `Aligned`: a successful call ends exactly where the encoder's structure ends.
* `IntactDecodes`: equal versions, all bytes, enough memory: no call fails.
* `NoLeak`: between calls every allocated block can be reached from the caller's structures.
* `NoDoubleFree`, the other direction, which holds also where `NoLeak` does not: on no way out
  of nested decoder functions is a block freed that the caller's structures or a function on the
  stack still count on.
* `OrderedUnlessSpoiled`: only a value that does not fit, or a failed resize in `readm`, can
  break `current <= count <= buflen`; no other operation in any order does.
* `BlockBehindBuffer`, `OneOwner`: as their names say, for every sequence of operations.
* `NeverBroken`: messages of 1 to `PipeBuf` bytes within `maxlen`, from a writer that lives, are
  never cut, refused or taken for the end of the stream, in any interleaving.
* `InStep` (of `Channel`): the bytes the reader has of a prefix, those in the pipe and those
  `writem` has still to write are, in this order, the frames of the messages not yet received.
* `ImplementsQueue`: refinement of `MsgQueue!QueueSafety`: until something named in `broken`
  happens, the messages received are those written, whole, in order, each once.
* `EveryMessageArrives`: the refinement's fairness, `MsgQueue!QueueFairness`: every message
  written is received unless something named in `broken` happens first.
* `WritemReturns`: no call of `glme_buf_writem` blocks for ever.
* `HandlersFound`: a type's handler is found if and only if it was registered more often than
  unregistered, in whatever slots, by each program.
* `InStep` (of `UvFraming`): what the reader holds of a message, what is on its way, and what the writer has still
  to send are, in this order, the frames of the messages not yet received; the reader's `inlen`
  is the length of the first. It holds until a prefix of three bytes or more comes in pieces,
  the connection is reset, or the writer's encoder fails.
* `OnlyWholeMessages`: with prefixes of one or two bytes the reader never takes a part of a
  message for a message, wherever the bytes are cut, the writer is killed or the connection lost.
* `ImplementsQueue`, `EveryMessageArrives` (of `UvFraming`), `BothEnd`: the bodies decoded are
  those sent, every one comes out, and both programs end, the writer not before it has sent all
  it was asked for, even when the reader is out of step.
* `NothingInBetween`: an element that could not be encoded leaves nothing behind, except where
  the code has no provision for it: a part of a list, dictionary or array, and a propagated
  exception.
* `RoundTrip` (of `GBuffer`): every element in the buffer decodes to the value it came from and
  ends where the next starts, whatever came after it.
* `CursorAligned`: after every call, successful or not, the read pointer is at the start of an
  element; `decodeDict` for another type and an array of another typecode are the exceptions.
* `NumbersGoIn`: with memory for one more growth, an element without byte strings always goes in.
* `Codec`: for every number of the instance, the encoding decodes to it, from exactly its own
  bytes, is the shortest, and is refused by exactly the buffers it does not fit.

### Bounds, and why they are enough

* `struct_core`, `struct_skew`: `MaxMessages` (2 and 1). The second message shows that a call
  starts where the last one ended. Three links are one more than is needed for a nested
  structure that itself ends inside another. Each kind of field occurs omitted, first, after an
  omitted field, and last. `Garbage` holds 0, each type mark that leads to a different case, and
  one that leads to none.
* `buf`: three blocks are the buffer's, one that `realloc` moves to, and one of the program.
  `MaxLen = 4` lets a length grow by doubling, then by `GrowCap = 2`, and run out of memory;
  `Modulus = 10` is above `2 * MaxLen`, as `BufAssumption` asks, and a pointer that wraps below
  zero ends up above every length. Items of 1 to 3 bytes fit, fit exactly and miss by more than
  the growth.
* `channel`: radix 4 with two one-byte values gives prefixes of up to three bytes, so that the
  prefix, too, may arrive in pieces. `PipeSize = 3` is smaller than two of the bodies: the writer
  must wait for the reader in the middle of a message. Three messages: one that is cut, one that
  is misread after it, and one more.
* `struct_skew`, changes of handlers: two changing ids, one with a handler at the start and one
  without; a table of two slots, one of them free; three changes. That is enough to fill the
  table, to be refused, to have an id twice, and to leave a hole in front of an id.
* `uv`: radix 4 with two one-byte values gives prefixes of three sizes; the connection of 4 bytes
  holds less than the longest frame, so that the writer's request is cut by the reader's
  progress, and more than the shortest, so that two messages are on their way at a time.
  `Garbage` has a byte that is a number and one that announces a following byte.
* `gbuffer`: radix 32 with 24 one-byte values leaves the type ids in one byte, as they are, and
  gives numbers of one, two and three bytes; `Grow` is more than the longest number, as 1024 is.
  The lengths 2, 5 and 6 put the end of the buffer in front of, inside, at and behind a value;
  with 15 bytes of memory one and two growths succeed and the next fails. Three elements: one
  that went in, one that failed, and one after it.

### Fairness

The codec and the buffer are sequential code called by a program that may stop at any time; only
safety is stated of them, under `[][Next]_vars`. `buf` runs with `CHECK_DEADLOCK FALSE` because a
dangling buffer ends the model. `Channel` assumes weak fairness of the writer's pending write and
of the reader's steps: both programs are scheduled by the operating system, and a blocked call
returns once there is room or a byte. Nothing is assumed of new messages, of the writer closing
its end, of faults, or of the order in which the two run. `UvFraming` assumes weak fairness of
each event loop: a pending callback runs, and what the connection can take or has is moved. A
reader's loop alone decides when it reads, and nothing is assumed of faults. `GBuffer` and the codec
are sequential and have safety only.

### Findings

1. `struct_string`: `glme_decode_string` does not move the read pointer past the string, so a
   structure with a string as in the repository's README cannot be decoded.
2. `struct_block`: `GLME_DECODE_FLD_START_ARRAY` decides by `__delta` alone whether the array was
   sent; an omitted array, or an omitted field before it, makes the structure fail or be misread.
3. `struct_vector`: `GLME_DECODE_FLD_INT_VECTOR` and `_UINT_VECTOR` decode into a block that is
   dropped; the vector stays zero and the call succeeds.
4. `struct_leak`: a failing structure behind a pointer is freed, but not what it points to.
5. `buf_order`: a value that does not fit makes the buffer grow, is not encoded, and moves `count`
   back by its length, past zero if need be.
6. `channel_short`: `glme_buf_readm` takes the first piece of a long message for the whole.

Each is quoted with the documentation it contradicts in `PROJECT.json`.

Other observations, about which no document says anything the code could contradict; the models
have them as they are, and the properties name them as exceptions:

* `uvwriter.c`: the buffer of the encoder is one byte too short, and -4 is sent as a length (above).
* `uvreader.c`: the bytes of a prefix behind the first are always asked for at `intmp[1]`. When
  they come in pieces, the second piece overwrites the first, and the message gets another length.
* `uvreader.c`: a body of length 0 makes `alloc_buffer` return an empty buffer, and libuv abort.
* `uvreader.c` and `uvwriter.c` do not agree with today's library: `glme_decode_struct` gets four
  arguments, and the reader's string field meets a vector.
* `uvwriter.c` never ends when the connection is refused.
* `glme.pyx`: byte strings never make the buffer grow, and one that exactly fits is refused; an
  empty string cannot be encoded; an empty dictionary raises `IndexError` behind its mark; arrays
  of unsigned numbers can only be decoded as bytes (`'B'`); lists and arrays report success after
  losing a part.
* `glme.pyx:50` exchanges the ids of signed and unsigned integers with respect to `glme.h:53-54`:
  what `data()` returns is not what the C library reads.
* `ENCODING:115-116` has the ids of signed and unsigned integers exchanged (`type_int ::= INT(3)`,
  `type-uint ::= INT(2)`) with respect to the list at the top of the same file (lines 13 and 14),
  its examples and `glme.h:53-54`. The models have the ids of `glme.h`.

## 4. Proofs

Each theorem is about the specification with its constants unspecified: any radix, any pipe, any
messages, any structures. What is proved is listed by component; "stays with TLC" is at the end.

| component | proved, for every value of the constants | only model-checked |
|---|---|---|
| `GlmeBuf` | `TypeOK`, `OrderedUnlessSpoiled`, `BlockBehindBuffer`, `OneOwner` | |
| `Gob` | unsigned and signed integers and floats decode to what was encoded, from no fewer bytes and the fewest possible; a stream of frames falls apart into its messages | |
| `Channel` | `TypeOK`, `InStep`, `NeverBroken`, `ImplementsQueue`, `PrefixesFit` | `EveryMessageArrives`, `WritemReturns` |
| `UvFraming` | `TypeOK`, `InStep`, `OnlyWholeMessages`, `ImplementsQueue` | `EveryMessageArrives`, `BothEnd` |
| `StructCodec`, `Registry` | `TypeOK`, `CursorInRange`, `NoDoubleFree`, `HandlersFound`, `NoLeak` until a call fails; `IntactDecodes` for structures without the constructs of findings 1 and 2 | |
| `StructMeaning` | `WireFormat`; for structures without the constructs of findings 1 to 3, `Aligned` and `RoundTrip` | `Aligned` and `RoundTrip` of structures with strings or array blocks in versions that differ |
| `GBuffer` | `TypeOK`, `NothingInBetween`, `RoundTrip`, `CursorAligned`, `NumbersGoIn`, `Codec` | |

### Induction without induction theorems

The library's induction theorems take a predicate as an operator and cannot be instantiated by
the provers installed. `DataTheorems` does induction over a *set* instead: the order of the
natural numbers is well founded (a library theorem about a relation), so a set of numbers with an
element has a least one (`LeastElement`), so a set with 0 and all successors is `Nat`
(`SetInduction`). `RecursiveFunction` obtains from it that a function of numbers defined by
recursion satisfies its equation. `Power`, the value of the bytes of an integer, `Total` and the
community modules' folds are recursive functions, and everything about them goes back to this.
`FlattenEmpty`, `FlattenAppend` and `FlattenCons` are the equations of `FlattenSeq`. The rest of
the module is about concatenation: what a concatenation begins with, when two are equal, and
`Associates` and `Regroup`, which name one use of associativity so that a proof can cite it
without expanding the sequences.

### GlmeBuf (`GlmeBufProofs`)

For every set of blocks, every length and every growth limit, under `BufAssumption` (the null
pointer is no block; lengths are natural numbers with `2 * MaxLen < Modulus`, that is, lengths are
less than half the range of `size_t`; growth is positive; the sizes in use are within `MaxLen`):

* `TypeCorrect`: `Spec => []TypeOK`.
* `Ordered`: `Spec => []OrderedUnlessSpoiled`.
* `BlockOfBuffer`: `Spec => []BlockBehindBuffer`.
* `Ownership`: `Spec => []OneOwner`.
* `Inductive`, from which they follow: `Spec => []IInv`.

`IInv` is `TypeOK /\ HeapInv /\ OrderedUnlessSpoiled`. `BlockBehindBuffer /\ OneOwner` is not
inductive: `glme_buf_own` on a buffer made from the program's memory needs to know that a buffer
with a block that is not its own has a block *of the program* (else `own` would create a second
owner or none), and `UserFree` must not free the block under a buffer. `HeapInv` therefore adds
`UserBlocks`: the program's blocks are allocated, and a block the buffer points to without owning
it is one of them. The argument: the four outcomes of growing or filling (`Resized`, the two
sides of `NotResized`, `InRoom`) and the making of a new block each keep `HeapInv`, which is a
lemma each, so every operation that writes is one of these plus a change of the pointers
(`HeapStep`). For the order of the pointers, `ResizeLength` bounds the new length by the old one,
`EncodeKeepsOrder` shows that adding `n` bytes after the room was looked at, or after the block
grew by what is missing, keeps `count <= buflen`, and `OrderStep` treats the operations one by
one. Where `2 * MaxLen < Modulus` is needed: without it `buflen + increase` could wrap to a
shorter block. TLC checked `IInv` to be inductive on a small instance before it was proved.

### Gob (`GobProofs`)

Under `GobAssumption` (`Small` and `MaxBytes` are positive and `Small + MaxBytes <= Radix`; the
code's 128, 8 and 256 satisfy it), for every number below `Power[MaxBytes]`:

* `EncodedUintType`: the encoding is a sequence of bytes, of 1 to `MaxBytes + 1` of them, and
  complete.
* `DecodedUintType`: bytes decode to a number, also bytes that are no encoding.
* `DecodedEncoded`, `DecodedEncodedInt`: what was encoded is decoded, whatever follows it, from
  exactly its own bytes, for unsigned and signed integers.
* `FlipTwice`, `DecodedEncodedDouble`: flipping the bytes of a double loses no bit and undoes
  itself, so a double decodes to the pattern encoded. `FlippedBytes`: byte `k` of `n` flipped bytes
  is byte `n - k - 1`, since what is left of them after `k` bytes are the first `n - k` flipped.
* `PrefixOfStream`: bytes at the start of a stream of framed messages that are, by their first
  one, a whole number are the length of its first message, and what follows them is that message
  and the frames of the others. A prefix is never taken for a shorter or a longer one, whatever
  follows; both readers rely on it. It rests on `DecodedEncoded` and on the lemma that a stream
  begins with the frame of its first message (`StreamCons`). `FirstOfStream`: the first byte of a
  stream already says how many bytes its first length has.

`DecodedEncoded` is an induction over the bytes: after `k` of the `n` bytes the value gathered is
the number divided by `Power[n - k]`, which rests on `DivDiv`, that dividing twice is dividing by
the product.

### Channel (`ChannelProofs`)

Under `ChannelAssumption`: messages are sequences of bytes with `Len(m) < Power[MaxBytes]` (a
length is a 64 bit number), `PIPE_BUF` is positive and not more than the pipe holds.

* `TypeCorrect`: the invariant is `TypeInv`, which adds to `TypeOK` how the variables of one side
  go together (`WriterOK`: nothing left to write outside a call; `ReaderOK`: where `readm` waits
  for the rest of a prefix it has the first byte, where it waits for a body the whole prefix).
  Without `ReaderOK` the length `readm` computes would not be a number.
* `StaysInStep`: `InStep` says nothing of what a writer that died would have written, so it is
  not inductive. `SyncInv` states for every state that there is a `rest` with which the bytes held
  and in the pipe are the stream of the messages not received; it is `Unwritten` while the writer
  lives, and not empty when it died before the end of a message (else the reader would take the
  message for complete). `CountsOK` ties the histories to the state. Each step of the reader takes
  a prefix or a body off the front of `Stream(Pending)`, by `FirstOfStream`; each step of the
  writer moves bytes from `rest` into the pipe.
* `PrefixesFit`: a reader in step never wants more than `MaxBytes + 1` bytes of a prefix.
* `Refinement`: `Spec => ImplementsQueue`. A write of the last byte of a message is `Put`, a body
  received in step is `Take`, what sets `broken` is `Break`, everything else stutters.
* `NeverBrokenHolds`: needs `Atomic` besides: when the messages are as `Reliable` says, a prefix or
  body is either wholly unwritten or wholly in the pipe, so that `readm`'s calls find all of it
  (`RestThere`, `BodyThere`) and none is refused (`NotRefused`). `Reliable` is about all messages
  sent so far, and once false stays false (`ReliableBefore`), which makes the implication
  inductive.

### UvFraming (`UvFramingProofs`)

Under `UvAssumption`: lengths are such that a prefix can announce them, `increment` is positive,
and -4 taken for a length is not a small one (`Power[MaxBytes] > 4`).

* `TypeCorrect`: `TypeInv` bounds `inalloc` and `plen` by `Widest`, what the first byte of a prefix
  *can* say, and not by `MaxBytes + 1`: a bound of `MaxBytes + 1` is true of the instance, where
  `Small + MaxBytes = Radix`, and false for the code's numbers once the reader is out of step.
  `TypeOK` states the longer bound for a reader out of step and the shorter one for one in step.
* `StaysInStep`: the invariant is `SyncInv`. It adds to `InStep` where in a prefix or body the
  reader is and what it has asked for (`PrefixOK`, `BodyOK`): `alloc_buffer` and `on_read` are two
  callbacks with steps of the network between them, and what the second does depends on what the
  first put into `inalloc` and `plen`. `on_read` with no bytes is shown to undo exactly the
  `alloc_buffer` before it (`NothingSync`).
* `WholeMessages`: `OnlyWholeMessages` must hold after a reset, too, when the bytes are no longer
  in step. `ShortOK`: with prefixes of at most two bytes a prefix never comes in pieces *behind
  its first byte*, so nothing but a reset sets `broken`, after which no bytes come.
* `Refinement`: `Spec => ImplementsQueue`, along the same lines as `Channel`'s.

### StructCodec and Registry (`StructCodecProofs`)

Under `StreamAssumption`, `MessagesAssumption` and `FaultsAssumption` (section 2), for every pair
of versions of the structures, every structure sent, every prefix of its bytes, whatever nobody
has set, all failures of allocations and lookups, and recursive structures of any depth:

* `LookupsFind`: `HandlersFound`. The invariant `BaseInv`: each count is the number of slots with the
  id. `register` fills the first free slot and `unregister` empties the first with the id, and
  only that one (`SlotsChange`), so the counts of the other ids do not change, wherever the holes are.
* `TypeCorrect`: `TypeOK`, from the invariant `EncInv`. The part that could fail is that a distance
  fits into its byte: `*delta` is at most the number of the field (`EncFrameOK`), on every level of
  a stack that grows and shrinks, and there are at most 127 fields.
* `CursorStaysInRange`: `CursorInRange`, and `FreesOnce`: `NoDoubleFree`. The invariant is `DecInv`:
  types, `current <= count`, and `live >= held + Blocks(dstack)`. Every one of the decoder's
  actions, with all the ways out inside it, is shown to be a step of one of four kinds: a field
  done, with the blocks stored at most those allocated (`FieldDone`); a call failed (`CallFailed`); a
  function entered (`Entered`); a function returned from (`Returned`). Each kind keeps `DecInv`, by
  the equations of `Total` (`TotalAppend`, `TotalAtMost`). `FailKeeps` is the heart of `FreesOnce`: what
  a failing call frees and what it hands to the caller are, frame by frame, at most what the frames
  answer for, since the frames that lead to the caller's memory own nothing that is freed.
* `SuccessLosesNothing`: `NoLeak`, as long as no call has failed and no structure has an
  `INT_VECTOR` or `UINT_VECTOR` (`KeepsBlocks`). Then the inequality of `DecInv` is an equation: a
  field done stores every block it allocated. Findings 3 and 4 show that neither condition can be
  dropped.
* `CodecInv` adds `CallInv`: no more structures are asked for than were sent unless the encoder
  failed, without which `Call` would look for the type of a message that does not exist.

### The meaning of the bytes (`StructMeaningProofs`)

Under the same assumptions and `NestingAssumption`, for structures nested to any depth.

*Recursion over parts.* `WireStruct`, `Lossless` and `Seen` are recursive over a set that is not the
natural numbers, and a recursive function is one that satisfies its equation if there is one.
`MeaningExists` shows, by induction over `n`, that the parts nested less than `n` deep have one
(`MeaningStep`), `MeaningSame` that two such functions agree where both are defined; so all parts have
one, which gives the equations `WireIs`, `LosslessIs` and `SeenIs`.

*Places.* A position in the middle of a structure is a stack of `Place`s, each a part and the number of a
field in it, and each but the first in the field of the one below. `Rest(p, i)` are the bytes of part
`p` from field `i` to its end mark; `Todo(pl, x)` is what comes from the place `x` on: the rest of its
own part, then that of each part around it, from the field after the one being entered. `TodoOmitted`,
`TodoPresent`, `TodoStruct` say how `Todo` changes from one field to the next: nothing, a distance and
an element, or a distance and a type mark, after which a part is entered. `BehindIs` is the return.

* `EncodesWireFormat`: `WireFormat`. The invariant `WireInv`: what has been written of the message at
  hand and the `Todo` of the encoder's stack are together the `Whole` message; and each frame's `delta` is
  the distance from its field to the last one present on its own level (`FramesMean`). That is what a
  nested structure could disturb. An encoder that failed leaves the beginning of a message
  (`CutShort`), which the proof of the decoder needs.
* `EndsAligned`: `Aligned`, and `DecodesWhatWasEncoded`: `RoundTrip`. The invariant `ReadInv`: in a call,
  as long as the read pointer has not reached the end of what arrived, the decoder functions on the C
  stack are in places (`StackSees`) whose `Todo` are the bytes ahead (`Ahead`), the fields they have passed
  have the values `Seen` gives (`Passed`), and `delta` measures the distance from the last field sent,
  or is 0 where nothing more is sent (`Measures`). The condition is what makes it inductive: every
  result for missing bytes, also those `glme_decode_field` takes for success, leaves the pointer at
  `count`, nothing is consumed from then on, and the call cannot succeed without a byte for the
  end mark. Where bytes are left, the invariant finds the mark, length and contents of the element
  the encoder put there (`ElementMark`, `MarkRead`, `CountedRead`), a type that does not match fails the
  call, and one that matches has the value. `NextMessage` starts the argument: the bytes from
  the end of one answer are the next message, or the beginning of the one whose encoding failed.

* `IntactIsDecoded`: `IntactDecodes`. Both properties above say something of calls that succeed; this one
  says that between equal programs, on all the bytes, every call does, unless an allocation fails. The
  invariant `WholeInv` adds to the others what they do not need: no call has failed, the
  encoder has not either, an unfinished call has bytes ahead of it (`current < count`, since the end
  mark at least is still to come), and the table still has the handlers it had that no program
  unregisters. Each action is then shown to go on (`UnderflowWell` to `EndWell`): with no byte missing,
  `WholeAhead` finds the whole element ahead, so no way out for too few bytes is taken; its mark is
  the one the decoder function expects, since the field is the encoder's (`TypeErrorWell`); an array has as many
  elements as its field can hold (`ArrayWell`); a structure finds its decoder function (`StructWell`);
  and the end mark is where the last field ends (`EndWell`).

The hypotheses are conditions on the structures a program declares:

* `Readable`. The macros pass the type ids they stand for (`Declared`); the decoder's version has no
  strings and no array blocks, and no array where the other has a number of the elements' type
  (`InStep`). Neither property holds without it. With findings 1 and 2, and with a number for an array
  (which is decoded from its type mark), the pointer is out of step with the bytes, and then a call
  may succeed with anything: a string that is a single newline, an omitted vector of 2 bytes and a
  pointer to a structure of zeros decode, from all their bytes and by the program that
  encoded them, to the vector `<<36, 0>>` and a null pointer, since the string's length and its
  one byte are taken for the distance and the mark of a vector.
* `KeepsBlocks`, for `RoundTrip` only: finding 3.
* `Sized`, `Handled` and `Faithful`, for `IntactDecodes` only. The program sends no more elements of an array
  than the field has room for: the encoder sends the number it is given, and the decoder
  refuses a larger one. The decoder function of a structure in a structure is passed to the macro, or is
  registered all the time; types no structure contains may come and go. And nothing but
  truncation goes wrong between the programs: no other type is asked for than was sent, and the output of an
  encoder that failed is not used.

`CoreIsReadable` and `SkewIsReadable` have TLC check that structures of the instances satisfy the
first, in equal and in different versions; `CoreFields` satisfy the others, too (`CoreIsHandled`,
`CoreIsSized`). The runs are not
limited to them: `struct_skew` checks `RoundTrip` and `Aligned` of structures with a string and with an
array block, whose instances happen to be refused when the pointer is out of step.

### GBuffer (`GBufferProofs`)

Under `GBufferAssumption` (one growth is more than the longest number), `ElementsAssumption` (the types
of values, and that none leads back to itself), `MarksAssumption` (the type marks are numbers that can be
encoded) and `Gob`'s, for all Python values nested to any depth, any memory and both builds:

* `AlwaysWritten`, the invariant the others rest on. `Written`: the elements in the history occupy the
  buffer one behind another, each with exactly the bytes its value has (`WireOf`, the bytes of
  the steps of its `Program`), and unless a part was lost nothing else is there. None of the properties
  is inductive: they compare lengths and results of decoding, which say nothing of the bytes the next call meets.
  The argument goes by steps: `RunKeeps` is the induction over a program, for any relation of
  numbers of steps and buffers that one step keeps. A step adds its own bytes or fails
  (`DoIs`), bytes that were there stay in front (`Extends`), and a program of which no step failed has
  added `WireOf`.
* `LeavesNothingInBetween`: `NothingInBetween`, and `NumbersAlwaysGoIn`: `NumbersGoIn`. In the second each
  step finds either room, or memory for a growth that is more than the longest number; what is
  assumed of the buffer at the end of the program holds at each step, since the size never falls.
* `ComesOutAsItWentIn`: `RoundTrip`. `Program` and the set `Within` are recursive over values.
  `RecursionOnDepth` gives their equations, by induction over `Depth`. `ReadElements` is the induction over
  levels: with as many levels left as a value has bytes, `ReadWith` returns the value and stops at the
  end of its bytes (`Comes`), wherever they stand (`Stands`), because the elements inside a value have fewer bytes than it has;
  lists and dictionaries read theirs one after another (`ManyReads`), each from the place where the one
  before it ended. `Suits` says which typecode a value can be read with; with another one the call fails inside it.
* `CursorIsAligned`: `CursorAligned`, and `TypesAreKept`: `TypeOK`. The invariant `Placed` adds to `Written` that the read
  pointer is in range and, unless strayed, at the start of an element. A decode call finds there an
  element (`Written`), stops at its end when it succeeds, and the end is a start. A call that strays stops
  behind a type mark or behind the length of an array, inside the element, so that the pointer stays within `count`.
* `CodecAlways`: `Codec`. That an encoding is as short as can be is a statement about the number of powers
  a number reaches, which grows by one with every byte.

### What stays with TLC

* Liveness: `EveryMessageArrives`, `WritemReturns`, `BothEnd` need ENABLED of the fair actions.
* `Aligned` and `RoundTrip` of structures with strings or array blocks, which hold of particular
  instances only (above). `IntactDecodes` is false of them: findings 1 and 2.

## 5. Abstractions, and what is not modelled

* One byte per item, at most 127 fields, values below 128, floats as one item: the order and the number of items are
  the subject. The default of every field is 0.
* `last_error` and the exact negative results are left out; only "failed" matters to callers here.
* `glme_encode_struct` of a null pointer returns at once and changes nothing.
* The encoder never runs out of room in `StructEncoder`: that is `GlmeBuf`'s subject, where every
  growth may fail.
* Values nobody has set are one arbitrary value per array, not one per element.
* `COMPLEX` and `BOOLEAN` fields and arrays of structures have no field macro; a program would
  have to call `glme_encode_field` itself, and they are not modelled. Nor are
  `glme_decode_value_struct`, bare elements outside a structure (`glme_encode_int` and its like,
  of which `GBuffer` has the Python counterparts), and type id 0 as a wildcard. Array blocks hold
  integers or floats and their loop is that of `t14.c`.
* Handlers of one type are always the same functions: two versions of a type registered in one
  base are not told apart. `glme_base_release` only frees the table. The base's own `malloc` and
  the `free` of the C library are one heap.
* `GBuffer`: methods that write or read a bare value, dictionaries whose elements are of one
  declared type (`decodeTypedValue`), initialisation from bytes, Python values outside the range of
  64 bits, and decoding from a place where no element starts.
* `UvFraming`: what `glme_decode_struct` makes of a body changes nothing in the framing and is
  left out; so is a `malloc` that fails.
* Prefix bytes that announce more bytes than an integer has (-9 to -128) do not occur in the
  *instances* of `Channel` and `UvFraming`, whose constants satisfy `Small + MaxBytes = Radix`.
  The theorems cover `Small + MaxBytes < Radix` too, where the decoded length is then 0 as in the
  code. A reader that is in step never meets one (`PrefixesFit`); one that is not would read more
  bytes than `tmp` in `glme_buf_readm` or `intmp` in `uvreader.c` has room for, for which C gives
  no meaning: the models go on with the bytes read. A resize for a message is taken to succeed.
* Tests, timing programs and build files have no behaviour of the library in them.

## 6. Plan

Done, in this order:

1. `StructEncoder`, `StructDecoder`, `StructCodec`: the core.
2. `GlmeBuf` with its proofs.
3. `Gob`, `MsgQueue`, `Channel`: framing, as a refinement.
4. Signed integers, floats and byte arrays in `Gob`, against their definitions.
5. `UvFraming`: the callback examples, refining `MsgQueue` too.
6. `GBuffer`; `Registry` in `StructCodec`.

7. Proofs that `Channel` and `UvFraming` stay in step and implement `MsgQueue`, and the facts about
   `Gob` and streams they rest on.
8. Proofs for `Registry` (tables of any length), for the invariants of `StructCodec` that need no
   meaning of the bytes (types, the read pointer, the blocks), and for floats.
9. Proofs about the meaning of the bytes: `WireFormat`, `Aligned`, `RoundTrip` and `IntactDecodes`.
10. Proofs of all properties of `GBuffer`, its recursion being over values; with them the rest of `Codec`.

To do:

11. Bare elements as further messages of `StructCodec`.
