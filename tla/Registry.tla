-------------------------------- MODULE Registry --------------------------------
(***************************************************************************)
(* The table of a glme_base_t (glme.c): slots that hold the type id whose  *)
(* handlers are registered there, or 0 when free.  A program registers the *)
(* same handlers for a type each time, so a slot is its type id.  A buffer *)
(* without a base behaves like one with an empty table.                    *)
(***************************************************************************)
EXTENDS Integers, Sequences

FindUpToFree(base, id) ==        \* mutant: the search ends at a free slot
  IF \E i \in DOMAIN base : base[i] = id /\ \A j \in 1..(i - 1) : base[j] # 0
  THEN CHOOSE i \in DOMAIN base : base[i] = id /\ \A j \in 1..(i - 1) : base[j] # id
  ELSE 0

\* glme_base_find: the first slot with this id, or 0 for none.
Find(base, id) ==
  IF \E i \in DOMAIN base : base[i] = id
  THEN CHOOSE i \in DOMAIN base : base[i] = id /\ \A j \in 1..(i - 1) : base[j] # id
  ELSE 0

HasHandler(base, id) == Find(base, id) # 0

\* glme_base_register takes the first free slot, also when the id has one already.
\* A full table is left as it is.
Full(base) == \A i \in DOMAIN base : base[i] # 0

Registered(base, id) ==
  LET free == CHOOSE i \in DOMAIN base : base[i] = 0 /\ \A j \in 1..(i - 1) : base[j] # 0
  IN IF Full(base) THEN base ELSE [base EXCEPT ![free] = id]

\* glme_base_unregister frees the first slot with this id only.
Unregistered(base, id) ==
  IF HasHandler(base, id) THEN [base EXCEPT ![Find(base, id)] = 0] ELSE base
=================================================================================
