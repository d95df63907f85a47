------------------------------ MODULE StructCodec ------------------------------
(***************************************************************************)
(* A program that encodes structures and a program that decodes them.  The *)
(* two may be built from different versions of the structure definitions   *)
(* (EncFields and DecFields), the bytes may arrive incomplete              *)
(* (glme_buf_readm does not notice a short read of the body), and the      *)
(* decoder's allocations may fail.  The programs run one after the other,  *)
(* so the decoder starts when the encoder has finished.                    *)
(***************************************************************************)
EXTENDS StructEncoder, StructDecoder

CONSTANTS
  Faults,           \* what may go wrong between the programs, a subset of
                    \*   {"truncation", "wrong type", "error ignored"}
  Changing,         \* the types the programs register and unregister between calls
  MaxChanges        \* bound on how often they do

ASSUME FaultsAssumption ==
  Faults \subseteq {"truncation", "wrong type", "error ignored"} /\ MaxChanges \in Nat
  /\ Changing \subseteq 1..63

VARIABLES
  ecount, dcount,   \* history: registrations in force of each changing type
  changes

baseVars == <<ecount, dcount, changes>>
vars == <<stream, encVars, decVars, baseVars>>

InBase == [id \in Changing |-> Cardinality({i \in DOMAIN Handlers : Handlers[i] = id})]

Init == EncInit /\ DecInit /\ ecount = InBase /\ dcount = InBase /\ changes = 0

\* glme_base_register and glme_base_unregister, by a program that is in no call.
Counted(counts, id, d) == [counts EXCEPT ![id] = @ + d]

ChangeEncoders(id) ==
  /\ dec = "waiting" /\ enc = "open" /\ estack = <<>>
  /\ \/ /\ ebase' = Registered(ebase, id)
        /\ ecount' = Counted(ecount, id, IF Full(ebase) THEN 0 ELSE 1)
     \/ /\ ebase' = Unregistered(ebase, id)
        /\ ecount' = Counted(ecount, id, IF ecount[id] > 0 THEN -1 ELSE 0)
  /\ UNCHANGED <<dbase, dcount>>

ChangeDecoders(id) ==
  /\ dec = "open" /\ dstack = <<>>
  /\ \/ /\ dbase' = Registered(dbase, id)
        /\ dcount' = Counted(dcount, id, IF Full(dbase) THEN 0 ELSE 1)
     \/ /\ dbase' = Unregistered(dbase, id)
        /\ dcount' = Counted(dcount, id, IF dcount[id] > 0 THEN -1 ELSE 0)
  /\ UNCHANGED <<ebase, ecount>>

ChangeHandlers ==
  /\ changes < MaxChanges /\ changes' = changes + 1
  /\ \E id \in Changing : ChangeEncoders(id) \/ ChangeDecoders(id)
  /\ UNCHANGED <<stream, enc, estack, sent, dec, count, current, dstack, got,
                 live, held, oom>>

\* The encoded bytes, or the first of them, are in the decoder's buffer, perhaps
\* with those an encoder left there that has found no handler half way.
Deliver ==
  /\ dec = "waiting"
  /\ estack = <<>> /\ stream # <<>>
  /\ enc = "open" \/ "error ignored" \in Faults
  /\ dec' = "open"
  /\ count' \in (IF "truncation" \in Faults THEN 0 ELSE Len(stream)) .. Len(stream)
  /\ current' = 0
  /\ UNCHANGED <<stream, encVars, dbase, dstack, got, live, held, oom, baseVars>>

Encode == dec = "waiting" /\ EncNext /\ UNCHANGED <<decVars, baseVars>>

\* The program asks for one structure after the other, in its own memory
\* (owned = 0) or with a null pointer, by the type it expects.
AllRead == IF enc = "open" THEN Len(got) = Len(sent) ELSE Len(got) > Len(sent)
Expected == IF "wrong type" \in Faults \/ Len(got) = Len(sent) THEN DOMAIN DecFields
            ELSE {sent[Len(got) + 1].msg.typeid}

Call ==
  /\ ~ AllRead
  /\ \E typeid \in Expected,
        owned \in {0, 1} : DecodeStruct(typeid, owned)
  /\ UNCHANGED <<stream, encVars, dbase, baseVars>>

Decode == DecNext /\ UNCHANGED <<encVars, baseVars>>

Stopped ==
  \/ enc = "failed"
  \/ dec = "failed"
  \/ dec = "open" /\ dstack = <<>> /\ AllRead

Next == Encode \/ Deliver \/ Call \/ Decode \/ ChangeHandlers \/ (Stopped /\ UNCHANGED vars)

Spec == Init /\ [][Next]_vars

(***************************************************************************)
(* Properties.  Those that need the meaning of a whole structure are in    *)
(* StructMeaning.                                                          *)
(***************************************************************************)

Idle == dec # "open" \/ dstack = <<>>

\* The types of the variables: positions are natural numbers inside the bytes
\* that were encoded, and a frame is in one of its fields or at their end.
TypeOK ==
  /\ \A i \in DOMAIN stream : stream[i] \in 0..127
  /\ enc \in {"open", "failed"} /\ dec \in {"waiting", "open", "failed"}
  /\ count \in 0..Len(stream) /\ current \in Nat
  /\ live \in Nat /\ held \in Nat /\ oom \in BOOLEAN
  /\ \A i \in DOMAIN estack :
       /\ estack[i].fld \in 1..(Len(EncFields[estack[i].typeid]) + 1)
       /\ estack[i].delta \in 1..estack[i].fld
  /\ \A i \in DOMAIN dstack :
       /\ dstack[i].fld \in 1..(Len(DecFields[dstack[i].typeid]) + 1)
       /\ Len(dstack[i].out) = dstack[i].fld - 1

\* A successful call leaves the read pointer at the end of the structure it
\* decoded, where the next one starts; so a structure cut short never succeeds.
Aligned ==
  \A k \in DOMAIN got \cap DOMAIN sent : got[k].pos = sent[k].end /\ got[k].pos <= count

\* The read pointer never passes the bytes that arrived, whatever they are
\* (glme.h:96, current <= count).
CursorInRange == dec # "waiting" => current <= count

\* What one side encodes, the other decodes: with equal versions of the
\* structures, all bytes and enough memory, no call fails (README.md, "Library
\* supports encoding all basic types, strings, byte arrays, ...").
Intact == EncFields = DecFields /\ count = Len(stream) /\ ~ oom

IntactDecodes == Intact => dec # "failed"

\* Whatever a program registered more often than it unregistered is found, and
\* nothing else is, in any order of the calls and with holes and duplicates in the
\* table (glme.c, glme_base_register, glme_base_unregister, glme_base_find).
HandlersFound ==
  \A id \in Changing :
    /\ HasHandler(ebase, id) = (ecount[id] > 0)
    /\ HasHandler(dbase, id) = (dcount[id] > 0)

\* No block is freed that a pointer still leads to: the blocks that live are at
\* least those the caller's structures hold and those the functions on the stack
\* answer for, so that the caller can free what it was given, once.
NoDoubleFree == live >= held + Total(BlocksOf(dstack))

\* Between two calls, every block the decoder allocated can be reached from the
\* caller's structures: a failed call has released what it allocated.
NoLeak == Idle => live = held
===============================================================================
