-------------------------------- MODULE KvRing --------------------------------
(***************************************************************************)
(* The device-resident KV cache of the language engine.  Every cache       *)
(* tensor (keys or values of one layer) is a ring of CacheLen rows stored  *)
(* twice in a row, so that the window of CacheLen rows that starts         *)
(* anywhere in the first copy is contiguous: a graph is bound to that      *)
(* window and the newest row is always its last one.                       *)
(*                                                                         *)
(* Seeding and appending go through the tensors one by one and through     *)
(* each tensor chunk by chunk; any device write may fail.  A row's content *)
(* is abstract, the zeroed memory of a fresh buffer is NoRow; a buffer     *)
(* that was given up counts as the fresh one that will replace it.         *)
(***************************************************************************)
EXTENDS Naturals, Sequences, FiniteSetsExt

CONSTANTS
  Row,         \* what one token leaves in a tensor
  NoRow,       \* a row nobody wrote
  CacheLen,    \* cache_rows
  Layers,      \* kCacheCount: number of cache tensors
  MaxQuery     \* bound: rows appended at a time

ASSUME RingAssumption ==
  /\ CacheLen \in Nat \ {0} /\ Layers \in Nat \ {0}
  /\ MaxQuery \in Nat
  /\ NoRow \notin Row

VARIABLES
  phase,      \* "void": no usable cache; "seed", "append": inside; "ready"
  layer,      \* index of the tensor the loop is at
  update,     \* the rows the call in progress writes
  source,     \* source_row: rows of the update already copied to the tensor
  present,    \* tensors that own a device buffer
  storage,    \* content of the device buffers: two copies of the ring
  start,      \* byte_offset / row_bytes: where each tensor's window starts
  committed   \* history: the rows of the usable cache

vars == <<phase, layer, update, source, present, storage, start, committed>>

Tensors == 1 .. Layers
Slots == 0 .. 2 * CacheLen - 1
Zeroed == [s \in Slots |-> NoRow]

Init ==
  /\ phase = "void" /\ layer = 1
  /\ update = <<>> /\ source = 0
  /\ present = {}
  /\ storage = [t \in Tensors |-> Zeroed]
  /\ start = [t \in Tensors |-> 0]
  /\ committed = <<>>

\* The buffer after `count` rows of the update, from row `from` on, were
\* written behind slot `at`.
Written(buffer, at, from, count) ==
  [s \in Slots |-> IF s \in at .. at + count - 1 THEN update[from + s - at + 1]
                   ELSE buffer[s]]

\* The same rows in both copies of the ring.
WrittenTwice(buffer, at, from, count) ==
  Written(Written(buffer, at, from, count), CacheLen + at, from, count)

------------------------------------------------------------------------------
(* BuildFullCaches *)

\* Buffers are reused when every tensor still has one, else all are replaced.
BeginSeed(rows) ==
  /\ phase \in {"void", "ready"}
  /\ phase' = "seed" /\ layer' = 1 /\ update' = rows /\ committed' = <<>>
  /\ IF present = Tensors THEN UNCHANGED <<present, storage, start>>
     ELSE /\ present' = {}
          /\ storage' = [t \in Tensors |-> Zeroed]
          /\ start' = [t \in Tensors |-> 0]
  /\ UNCHANGED source

\* The loop over the tensors goes on, or the call ends with these rows committed.
Proceed(after) ==
  IF layer = Layers
  THEN phase' = "ready" /\ layer' = 1 /\ update' = <<>> /\ committed' = after
  ELSE layer' = layer + 1 /\ UNCHANGED <<phase, update, committed>>

\* The call ends early: nothing is left that a graph may be bound to.
GiveUp == phase' = "void" /\ layer' = 1 /\ update' = <<>> /\ committed' = <<>>

\* The prompt's rows go to the end of both copies; older rows are left there.
SeedTensor ==
  LET at == CacheLen - Len(update)
  IN /\ phase = "seed"
     /\ storage' = [storage EXCEPT ![layer] = WrittenTwice(@, at, 0, Len(update))]
     /\ start' = [start EXCEPT ![layer] = 0]
     /\ present' = present \union {layer}
     /\ Proceed(update)
     /\ UNCHANGED source

\* The allocation or a write fails: the tensor taken out of the cache state is
\* lost with its buffer.  A violated contract is noticed before it is taken.
SeedFails ==
  /\ phase = "seed"
  /\ \/ UNCHANGED <<present, storage, start>>
     \/ /\ present' = present \ {layer}
        /\ storage' = [storage EXCEPT ![layer] = Zeroed]
        /\ start' = [start EXCEPT ![layer] = 0]
  /\ GiveUp
  /\ UNCHANGED source

------------------------------------------------------------------------------
(* AppendCacheUpdate over AppendMirroredDeviceRingRows *)

Fits(rows) == Len(committed) + Len(rows) <= CacheLen

BeginAppend(rows) ==
  /\ phase = "ready" /\ Fits(rows)
  /\ phase' = "append" /\ layer' = 1 /\ update' = rows /\ source' = 0
  /\ UNCHANGED <<present, storage, start, committed>>

\* Too many rows for the cache: refused, and the call fails.
AppendRefused(rows) ==
  /\ phase = "ready" /\ ~Fits(rows)
  /\ GiveUp
  /\ UNCHANGED <<source, present, storage, start>>

NewStart == (start[layer] + Len(update)) % CacheLen

\* Where the next chunk goes: the second one begins the ring again.
Destination ==
  IF source = 0 THEN (NewStart + CacheLen - Len(update)) % CacheLen ELSE 0

Chunk == Min({Len(update) - source, CacheLen - Destination})

Copying == phase = "append" /\ source < Len(update)

\* Faulty variant: the second copy is not kept up to date.
CopyChunkOnce ==
  /\ Copying
  /\ storage' = [storage EXCEPT ![layer] = Written(@, Destination, source, Chunk)]
  /\ source' = source + Chunk
  /\ UNCHANGED <<phase, layer, update, present, start, committed>>

CopyChunk ==
  /\ Copying
  /\ storage' = [storage EXCEPT ![layer] = WrittenTwice(@, Destination, source, Chunk)]
  /\ source' = source + Chunk
  /\ UNCHANGED <<phase, layer, update, present, start, committed>>

\* A device write fails, the first of the two or the second; or the contract
\* of the tensor is violated, and nothing is written.
AppendFails ==
  /\ Copying
  /\ \/ UNCHANGED storage
     \/ storage' = [storage EXCEPT ![layer] = Written(@, Destination, source, Chunk)]
  /\ GiveUp
  /\ UNCHANGED <<source, present, start>>

\* The tensor is complete: its window moves on.
AdvanceWindow ==
  /\ phase = "append" /\ source = Len(update)
  /\ start' = [start EXCEPT ![layer] = NewStart]
  /\ source' = 0
  /\ Proceed(committed \o update)
  /\ UNCHANGED <<present, storage>>

------------------------------------------------------------------------------
Updates(n) == UNION {[1 .. k -> Row] : k \in 1 .. n}

BuildFullCaches ==
  \/ \E rows \in Updates(CacheLen) : BeginSeed(rows)
  \/ SeedTensor \/ SeedFails

AppendCacheUpdate ==
  \/ \E rows \in Updates(MaxQuery) : BeginAppend(rows) \/ AppendRefused(rows)
  \/ CopyChunk \/ AppendFails \/ AdvanceWindow

Next == BuildFullCaches \/ AppendCacheUpdate

Spec == Init /\ [][Next]_vars

------------------------------------------------------------------------------
(* Properties *)

\* Shape of the state.  A window starts in the first copy, so that it ends
\* inside the buffer.
TypeOK ==
  /\ phase \in {"void", "seed", "ready", "append"}
  /\ layer \in Tensors
  /\ update \in Seq(Row) /\ Len(update) <= CacheLen + MaxQuery
  /\ source \in 0 .. Len(update)
  /\ present \subseteq Tensors
  /\ storage \in [Tensors -> [Slots -> Row \union {NoRow}]]
  /\ start \in [Tensors -> 0 .. CacheLen - 1]
  /\ committed \in Seq(Row) /\ Len(committed) <= CacheLen

\* The last n rows of the window a graph is bound to: with the history length
\* the attention mask shows exactly these.
Shown(t, n) == [k \in 1 .. n |-> storage[t][start[t] + CacheLen - n + k - 1]]

\* When a graph can be launched, every tensor shows the committed rows, in
\* order, wherever the window starts and whatever a failed append or an earlier
\* call left in the buffers (attention_mask.cpp:98).
WindowShowsCommitted ==
  phase = "ready" =>
    present = Tensors /\ \A t \in Tensors : Shown(t, Len(committed)) = committed

\* An append in progress overwrites only rows nobody sees: the tensors it has
\* finished show the new text, all others still show the old one.
AppendOverwritesNoHistory ==
  phase = "append" =>
    \A t \in Tensors :
      IF t < layer THEN Shown(t, Len(committed) + Len(update)) = committed \o update
      ELSE Shown(t, Len(committed)) = committed

\* The loop over chunks never comes round: a seeding starts the windows at the
\* front of the ring and the history check stops them before its end, so every
\* append lies between the two and its rows are never split (kv_cache.cpp:124).
AppendNeverWraps == phase = "append" => source \in {0, Len(update)}

\* The ring implements the sequence of rows the decode loop believes in: until
\* the last tensor has moved its window, that tensor shows the old rows.
Cache == INSTANCE KvCache
  WITH usable <- phase \in {"ready", "append"},
       rows <- IF phase \in {"ready", "append"} THEN Shown(Layers, Len(committed)) ELSE <<>>

ImplementsKvCache == Cache!Spec
------------------------------------------------------------------------------
(* What makes the properties inductive. *)

\* The window that starts at slot `at` ends with the rows of seq, and it started
\* at the front of the ring when the first of them was seeded, so it cannot have
\* come round.
EndsWith(buffer, at, seq) ==
  /\ at < Len(seq)
  /\ \A k \in 1 .. Len(seq) : buffer[at + CacheLen - Len(seq) + k - 1] = seq[k]

Holds(t, seq) == EndsWith(storage[t], start[t], seq)

SeedProgress ==
  phase = "seed" =>
    /\ Len(update) \in 1 .. CacheLen
    /\ \A t \in Tensors : t < layer => t \in present /\ Holds(t, update)

\* The tensors before `layer` are done, the others untouched where it matters;
\* the copied rows wait right behind the window.
AppendProgress ==
  phase = "append" =>
    /\ present = Tensors
    /\ Len(update) # 0 /\ Fits(update)
    /\ source \in {0, Len(update)}
    /\ \A t \in Tensors : Holds(t, IF t < layer THEN committed \o update ELSE committed)
    /\ source # 0 => \A j \in 1 .. Len(update) :
                      storage[layer][start[layer] + CacheLen + j - 1] = update[j]

KvInv ==
  /\ TypeOK
  /\ phase # "append" => source = 0
  /\ SeedProgress
  /\ AppendProgress
  /\ phase = "ready" => present = Tensors /\ \A t \in Tensors : Holds(t, committed)
==============================================================================
