----------------------------- MODULE AuditStore -----------------------------
(* The audit log (agent/internal/audit/store.go): a ring of entries under one  *)
(* mutex, and the paged query of the admin API.                                *)
EXTENDS Integers, Sequences, FiniteSets

CONSTANTS
  MaxSize,   \* the capacity of the store
  Limit      \* the page size of the reader

ASSUME StoreAssumption == MaxSize \in Nat \ {0} /\ Limit \in Nat \ {0}

VARIABLES
  entries,   \* the store, oldest first
  audited    \* history: every entry ever added

storeVars == <<entries, audited>>

StoreInit == entries = <<>> /\ audited = <<>>

\* Mutant: an entry is evicted only when there is one too many.
Evicted_Late(s) == IF Len(s) > MaxSize THEN Tail(s) ELSE s

\* A full buffer loses its oldest entry.
Evicted(s) == IF Len(s) >= MaxSize THEN Tail(s) ELSE s

Add(entry) == entries' = Append(Evicted(entries), entry)

\* Where the entries are that are of one method, if the filter names one.  Every
\* subject is "default", so that the filter by subject is all or nothing and is
\* left out.
Filtered(filter) == {i \in DOMAIN entries : filter \in {"any", entries[i].method}}

\* Mutant: oldest first.
Before_OldestFirst(filter, i) == Cardinality({j \in Filtered(filter) : j < i})

\* How many entries of the answer come before this one: the newest is first.
Before(filter, i) == Cardinality({j \in Filtered(filter) : j > i})

\* The page of Limit entries at offset, empty beyond the last one, and how many
\* there are in all.
Page(filter, offset) ==
  [total |-> Cardinality(Filtered(filter)),
   page  |-> {i \in Filtered(filter) : Before(filter, i) \in offset .. offset + Limit - 1}]
=============================================================================
