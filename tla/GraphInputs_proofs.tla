-------------------------- MODULE GraphInputs_proofs --------------------------
(***************************************************************************)
(* The KV ring for every ring size, number of layers and update length:    *)
(* whenever a graph can be launched, every tensor shows the committed rows *)
(* in order (the inductive invariant is KvRing!KvInv). Then, that masks    *)
(* and positions of the language graphs fit the ring, for every length of  *)
(* the cache, the prefill and the window.                                  *)
(***************************************************************************)
EXTENDS GraphInputs, TLAPS

USE RingAssumption

------------------------------------------------------------------------------
(* Arithmetic of the ring *)

LEMMA ModSmall ==
  ASSUME NEW x \in 0 .. CacheLen - 1
  PROVE  x % CacheLen = x /\ (x + CacheLen) % CacheLen = x
  OBVIOUS

LEMMA MinOfPair ==
  ASSUME NEW a \in Nat, NEW b \in Nat, a <= b
  PROVE  Min({a, b}) = a
  BY DEF Min

\* Where an append of n rows goes when the window is not at the ring's end.
LEMMA AppendPlace ==
  ASSUME TypeOK, start[layer] + Len(update) < CacheLen
  PROVE  /\ NewStart = start[layer] + Len(update)
         /\ source = 0 => /\ Destination = start[layer]
                          /\ Chunk = Len(update)
<1> DEFINE s == start[layer]
           n == Len(update)
<1>1. s \in 0 .. CacheLen - 1 /\ n \in Nat /\ CacheLen \in Nat
  BY DEF TypeOK
<1>2. s + n \in 0 .. CacheLen - 1
  BY <1>1
<1>3. NewStart = s + n
  BY <1>2, ModSmall DEF NewStart
<1>4. ASSUME source = 0 PROVE Destination = s
  <2>1. NewStart + CacheLen - n = s + CacheLen
    BY <1>1, <1>3
  <2> QED
    BY <1>1, <1>4, <2>1, ModSmall DEF Destination
<1>5. ASSUME source = 0 PROVE Chunk = n
  <2>1. Len(update) - source = n /\ CacheLen - Destination = CacheLen - s
    BY <1>1, <1>4, <1>5
  <2>2. n <= CacheLen - s /\ CacheLen - s \in Nat
    BY <1>1
  <2> QED
    BY <1>1, <2>1, <2>2, MinOfPair DEF Chunk
<1> QED
  BY <1>3, <1>4, <1>5

\* What a chunk leaves in a buffer.
LEMMA WrittenRows ==
  ASSUME NEW buffer \in [Slots -> Row \union {NoRow}], update \in Seq(Row),
         NEW at \in Nat, NEW count \in Nat, count <= Len(update),
         at + count <= 2 * CacheLen
  PROVE  /\ Written(buffer, at, 0, count) \in [Slots -> Row \union {NoRow}]
         /\ \A j \in 1 .. count : Written(buffer, at, 0, count)[at + j - 1] = update[j]
         /\ \A s \in Slots : s < at \/ s >= at + count =>
              Written(buffer, at, 0, count)[s] = buffer[s]
<1>1. \A s \in Slots : s \in at .. at + count - 1 => update[0 + s - at + 1] \in Row
  <2> TAKE s \in Slots
  <2> HAVE s \in at .. at + count - 1
  <2>1. 0 + s - at + 1 \in 1 .. Len(update)
    BY DEF Slots
  <2> QED
    BY <2>1
<1>2. \A j \in 1 .. count : at + j - 1 \in Slots /\ at + j - 1 \in at .. at + count - 1
                            /\ 0 + (at + j - 1) - at + 1 = j
  BY DEF Slots
<1>3. \A s \in Slots : s < at \/ s >= at + count => s \notin at .. at + count - 1
  BY DEF Slots
<1> QED
  BY <1>1, <1>2, <1>3 DEF Written

LEMMA WrittenTwiceRows ==
  ASSUME NEW buffer \in [Slots -> Row \union {NoRow}], update \in Seq(Row),
         NEW at \in Nat, NEW count \in Nat, count <= Len(update),
         at + count <= CacheLen
  PROVE  /\ WrittenTwice(buffer, at, 0, count) \in [Slots -> Row \union {NoRow}]
         /\ \A j \in 1 .. count : WrittenTwice(buffer, at, 0, count)[at + j - 1] = update[j]
         /\ \A j \in 1 .. count :
              WrittenTwice(buffer, at, 0, count)[CacheLen + at + j - 1] = update[j]
         /\ \A s \in Slots : s \in at + count .. CacheLen + at - 1 =>
              WrittenTwice(buffer, at, 0, count)[s] = buffer[s]
<1> DEFINE once == Written(buffer, at, 0, count)
           twice == Written(once, CacheLen + at, 0, count)
<1>1. /\ once \in [Slots -> Row \union {NoRow}]
      /\ \A j \in 1 .. count : once[at + j - 1] = update[j]
      /\ \A s \in Slots : s < at \/ s >= at + count => once[s] = buffer[s]
  BY WrittenRows
<1> HIDE DEF once
<1>2. /\ twice \in [Slots -> Row \union {NoRow}]
      /\ \A j \in 1 .. count : twice[CacheLen + at + j - 1] = update[j]
      /\ \A s \in Slots : s < CacheLen + at \/ s >= CacheLen + at + count => twice[s] = once[s]
  <2> DEFINE second == CacheLen + at
  <2>1. /\ second \in Nat /\ second + count <= 2 * CacheLen
        /\ once \in [Slots -> Row \union {NoRow}]
    BY <1>1
  <2> HIDE DEF second
  <2>2. /\ Written(once, second, 0, count) \in [Slots -> Row \union {NoRow}]
        /\ \A j \in 1 .. count : Written(once, second, 0, count)[second + j - 1] = update[j]
        /\ \A s \in Slots : s < second \/ s >= second + count =>
             Written(once, second, 0, count)[s] = once[s]
    BY <2>1, WrittenRows, ZenonT(30)
  <2> QED
    BY <2>2, SMTT(60) DEF second
<1>3. WrittenTwice(buffer, at, 0, count) = twice
  BY DEF WrittenTwice, once
<1> HIDE DEF twice
<1>4. \A j \in 1 .. count : twice[at + j - 1] = update[j]
  <2> TAKE j \in 1 .. count
  <2>1. at + j - 1 \in Slots /\ at + j - 1 < CacheLen + at
    BY DEF Slots
  <2> QED
    BY <1>1, <1>2, <2>1
<1>5. \A s \in Slots : s \in at + count .. CacheLen + at - 1 => twice[s] = buffer[s]
  BY <1>1, <1>2 DEF Slots
<1> QED
  BY <1>2, <1>3, <1>4, <1>5
------------------------------------------------------------------------------
(* Every step preserves KvInv *)

LEMMA UpdateRows ==
  ASSUME NEW n \in Nat, NEW rows \in Updates(n)
  PROVE  rows \in Seq(Row) /\ Len(rows) \in 1 .. n
<1>1. PICK k \in 1 .. n : rows \in [1 .. k -> Row]
  BY DEF Updates
<1>2. rows \in Seq(Row) /\ Len(rows) = k
  BY <1>1
<1> QED
  BY <1>2

LEMMA ZeroedRows == Zeroed \in [Slots -> Row \union {NoRow}]
  BY DEF Zeroed

LEMMA InitKvInv == Init => KvInv
<1> SUFFICES ASSUME Init PROVE KvInv
  OBVIOUS
<1>1. TypeOK
  BY ZeroedRows DEF Init, TypeOK, Tensors
<1> QED
  BY <1>1 DEF Init, KvInv, SeedProgress, AppendProgress

LEMMA BeginSeedKvInv ==
  ASSUME KvInv, NEW rows \in Updates(CacheLen), BeginSeed(rows) PROVE KvInv'
<1>1. rows \in Seq(Row) /\ Len(rows) \in 1 .. CacheLen
  BY UpdateRows
<1>2. layer' = 1 /\ phase' = "seed" /\ update' = rows /\ source' = 0
  BY DEF BeginSeed, KvInv
<1>3. TypeOK'
  <2>1. TypeOK /\ update' \in Seq(Row) /\ Len(update') <= CacheLen + MaxQuery
        /\ 0 \in 0 .. Len(update') /\ 1 \in Tensors
    BY <1>1, <1>2 DEF KvInv, Tensors
  <2>2. /\ present' \subseteq Tensors
        /\ storage' \in [Tensors -> [Slots -> Row \union {NoRow}]]
        /\ start' \in [Tensors -> 0 .. CacheLen - 1]
    <3>1. CASE UNCHANGED <<present, storage, start>>
      BY <2>1, <3>1 DEF TypeOK
    <3>2. CASE /\ present' = {}
               /\ storage' = [t \in Tensors |-> Zeroed]
               /\ start' = [t \in Tensors |-> 0]
      <4>1. 0 \in 0 .. CacheLen - 1
        OBVIOUS
      <4> QED
        BY <3>2, <4>1, ZeroedRows, Zenon
    <3> QED
      BY <3>1, <3>2 DEF BeginSeed
  <2>3. committed' = <<>> /\ <<>> \in Seq(Row) /\ Len(<<>>) <= CacheLen
    BY DEF BeginSeed
  <2> QED
    BY <1>2, <2>1, <2>2, <2>3 DEF TypeOK
<1>4. SeedProgress'
  BY <1>1, <1>2 DEF SeedProgress, Tensors
<1> QED
  BY <1>2, <1>3, <1>4 DEF KvInv, AppendProgress

\* The rows to write stay the same from tensor to tensor and are gone at the end.
LEMMA ProceedUpdate ==
  ASSUME TypeOK, NEW after, Proceed(after)
  PROVE  /\ update' \in Seq(Row) /\ Len(update') <= CacheLen + MaxQuery
         /\ 0 \in 0 .. Len(update')
<1>1. update \in Seq(Row) /\ Len(update) <= CacheLen + MaxQuery
  BY DEF TypeOK
<1>2. update' = update \/ update' = <<>>
  BY Zenon DEF Proceed
<1>3. <<>> \in Seq(Row) /\ Len(<<>>) = 0
  OBVIOUS
<1>4. CASE update' = update
  BY <1>1, <1>4
<1>5. CASE update' = <<>>
  BY <1>3, <1>5
<1> QED
  BY <1>2, <1>4, <1>5

LEMMA SeedTensorKvInv == ASSUME KvInv, SeedTensor PROVE KvInv'
<1> DEFINE base == storage[layer]
           n == Len(update)
           at == CacheLen - n
           twice == WrittenTwice(base, at, 0, n)
<1>1. /\ TypeOK /\ phase = "seed" /\ source = 0
      /\ n \in 1 .. CacheLen
      /\ \A t \in Tensors : t < layer => t \in present /\ Holds(t, update)
  BY DEF KvInv, SeedProgress, SeedTensor
<1>2. base \in [Slots -> Row \union {NoRow}]
  BY <1>1 DEF TypeOK
<1>3. at \in Nat /\ at + n = CacheLen
  BY <1>1
<1>4. /\ storage' = [storage EXCEPT ![layer] = twice]
      /\ start' = [start EXCEPT ![layer] = 0]
      /\ present' = present \union {layer}
      /\ source' = 0
      /\ Proceed(update)
  BY <1>1 DEF SeedTensor
<1> HIDE DEF base
<1>5. /\ twice \in [Slots -> Row \union {NoRow}]
      /\ \A j \in 1 .. n : twice[at + j - 1] = update[j]
  <2> HIDE DEF at
  <2>1. update \in Seq(Row) /\ n \in Nat /\ n <= Len(update) /\ at + n <= CacheLen
    BY <1>1, <1>3 DEF TypeOK
  <2> QED
    BY <1>2, <1>3, <2>1, WrittenTwiceRows
<1> HIDE DEF twice
<1>6. TypeOK'
  <2>1. phase' \in {"void", "seed", "ready", "append"} /\ layer' \in Tensors
    BY <1>1, <1>4 DEF Proceed, TypeOK, Tensors
  <2>2. committed' \in Seq(Row) /\ Len(committed') <= CacheLen
    BY <1>1, <1>4 DEF Proceed, TypeOK
  <2>3. start' \in [Tensors -> 0 .. CacheLen - 1]
    BY <1>1, <1>4 DEF TypeOK
  <2>4. storage' \in [Tensors -> [Slots -> Row \union {NoRow}]]
    BY <1>1, <1>4, <1>5 DEF TypeOK
  <2>5. update' \in Seq(Row) /\ Len(update') <= CacheLen + MaxQuery
        /\ 0 \in 0 .. Len(update')
    BY <1>1, <1>4, ProceedUpdate, Zenon
  <2> QED
    BY <1>1, <1>4, <2>1, <2>2, <2>3, <2>4, <2>5 DEF TypeOK
<1>7. \A t \in Tensors :
        t <= layer => t \in present' /\ EndsWith(storage'[t], start'[t], update)
  <2> TAKE t \in Tensors
  <2> HAVE t <= layer
  <2>1. CASE t = layer
    <3>1. start'[t] = 0 /\ storage'[t] = twice
      BY <1>1, <1>4, <2>1 DEF TypeOK
    <3>2. \A k \in 1 .. n : storage'[t][start'[t] + CacheLen - n + k - 1] = update[k]
      <4> TAKE k \in 1 .. n
      <4>1. 0 + CacheLen - n + k - 1 = at + k - 1
        BY <1>1
      <4> QED
        BY <1>5, <3>1, <4>1
    <3> QED
      BY <1>1, <1>4, <2>1, <3>1, <3>2 DEF EndsWith
  <2>2. CASE t # layer
    <3>1. t < layer
      BY <1>1, <2>2 DEF TypeOK, Tensors
    <3>2. start'[t] = start[t] /\ storage'[t] = storage[t]
      BY <1>1, <1>4, <2>2 DEF TypeOK
    <3> QED
      BY <1>1, <1>4, <3>1, <3>2 DEF Holds
  <2> QED
    BY <2>1, <2>2
<1>8. CASE layer = Layers
  <2>1. phase' = "ready" /\ committed' = update
    BY <1>4, <1>8 DEF Proceed
  <2>2. \A t \in Tensors : t \in present' /\ EndsWith(storage'[t], start'[t], update)
    BY <1>7, <1>8 DEF Tensors
  <2>3. \A t \in Tensors : Holds(t, committed)'
    BY <2>1, <2>2 DEF Holds
  <2>4. present' = Tensors
    BY <1>6, <2>2 DEF TypeOK
  <2> QED
    BY <1>4, <1>6, <2>1, <2>3, <2>4 DEF KvInv, SeedProgress, AppendProgress
<1>9. CASE layer # Layers
  <2>1. phase' = "seed" /\ layer' = layer + 1 /\ update' = update
    BY <1>1, <1>4, <1>9 DEF Proceed
  <2>2. \A t \in Tensors : t < layer' => t \in present' /\ Holds(t, update)'
    <3>1. \A t \in Tensors : t < layer' => t <= layer
      BY <1>1, <2>1 DEF TypeOK, Tensors
    <3> QED
      BY <1>7, <2>1, <3>1 DEF Holds
  <2>3. SeedProgress'
    BY <1>1, <1>4, <2>1, <2>2 DEF SeedProgress
  <2> QED
    BY <1>4, <1>6, <2>1, <2>3 DEF KvInv, AppendProgress
<1> QED
  BY <1>8, <1>9

\* A call that ends early keeps the invariant when it keeps the buffers' shape.
LEMMA GiveUpKvInv ==
  ASSUME TypeOK, GiveUp, source' = 0, present' \subseteq Tensors,
         storage' \in [Tensors -> [Slots -> Row \union {NoRow}]],
         start' \in [Tensors -> 0 .. CacheLen - 1]
  PROVE  KvInv'
<1>1. 1 \in Tensors /\ <<>> \in Seq(Row) /\ Len(<<>>) = 0 /\ 0 \in 0 .. 0
  BY DEF Tensors
<1>2. TypeOK'
  BY <1>1 DEF GiveUp, TypeOK
<1> QED
  BY <1>2 DEF GiveUp, KvInv, SeedProgress, AppendProgress

LEMMA SeedFailsKvInv == ASSUME KvInv, SeedFails PROVE KvInv'
<1>1. TypeOK /\ GiveUp /\ source' = 0
  BY DEF SeedFails, KvInv
<1>2. /\ present' \subseteq Tensors
      /\ storage' \in [Tensors -> [Slots -> Row \union {NoRow}]]
      /\ start' \in [Tensors -> 0 .. CacheLen - 1]
  <2>1. 0 \in 0 .. CacheLen - 1
    OBVIOUS
  <2> QED
    BY <1>1, <2>1, ZeroedRows DEF SeedFails, TypeOK
<1> QED
  BY <1>1, <1>2, GiveUpKvInv

LEMMA BeginAppendKvInv ==
  ASSUME KvInv, NEW rows \in Updates(MaxQuery), BeginAppend(rows) PROVE KvInv'
<1>1. rows \in Seq(Row) /\ Len(rows) \in 1 .. MaxQuery
  BY UpdateRows
<1>2. TypeOK'
  BY <1>1 DEF BeginAppend, KvInv, TypeOK, Tensors
<1>3. \A t \in Tensors : Holds(t, committed)'
  BY DEF BeginAppend, KvInv, Holds, EndsWith
<1>4. AppendProgress'
  <2>1. layer' = 1 /\ update' = rows /\ source' = 0 /\ Fits(update)' /\ present' = Tensors
    BY DEF BeginAppend, KvInv, Fits
  <2>2. \A t \in Tensors : ~(t < layer')
    BY <2>1 DEF Tensors
  <2> QED
    BY <1>1, <1>3, <2>1, <2>2 DEF AppendProgress
<1> QED
  BY <1>2, <1>4 DEF BeginAppend, KvInv, SeedProgress

LEMMA AppendRefusedKvInv ==
  ASSUME KvInv, NEW rows, AppendRefused(rows) PROVE KvInv'
<1>1. TypeOK /\ GiveUp /\ source' = 0 /\ UNCHANGED <<present, storage, start>>
  BY DEF AppendRefused, KvInv
<1> QED
  BY <1>1, GiveUpKvInv DEF TypeOK

\* While an append is in progress the tensor it is at has room behind its window.
LEMMA RoomBehindWindow ==
  ASSUME KvInv, phase = "append"
  PROVE  /\ start[layer] \in Nat /\ Len(update) \in Nat \ {0}
         /\ start[layer] < Len(committed) /\ Len(committed) \in Nat
         /\ Len(committed) + Len(update) <= CacheLen
         /\ start[layer] + Len(update) < CacheLen
<1>1. TypeOK /\ layer \in Tensors /\ Holds(layer, committed)
  BY DEF KvInv, AppendProgress, TypeOK, Tensors
<1>2. start[layer] \in Nat /\ Len(update) \in Nat /\ Len(committed) \in Nat
  BY <1>1 DEF TypeOK
<1>3. start[layer] < Len(committed)
  BY <1>1 DEF Holds, EndsWith
<1>4. Len(update) # 0 /\ Len(committed) + Len(update) <= CacheLen
  BY DEF KvInv, AppendProgress, Fits
<1> QED
  BY <1>2, <1>3, <1>4

LEMMA CopyChunkKvInv == ASSUME KvInv, CopyChunk PROVE KvInv'
<1> DEFINE s == start[layer]
           n == Len(update)
           c == Len(committed)
           twice == WrittenTwice(storage[layer], s, 0, n)
<1>1. /\ TypeOK /\ phase = "append" /\ source < n /\ source = 0
      /\ present = Tensors /\ Fits(update)
      /\ \A t \in Tensors : Holds(t, IF t < layer THEN committed \o update ELSE committed)
  BY DEF KvInv, AppendProgress, CopyChunk, Copying
<1>2. /\ s \in Nat /\ n \in Nat \ {0} /\ c \in Nat
      /\ s < c /\ c + n <= CacheLen /\ s + n < CacheLen
  BY <1>1, RoomBehindWindow
<1>3. Destination = s /\ Chunk = n
  BY <1>1, <1>2, AppendPlace
<1>4. /\ storage' = [storage EXCEPT ![layer] = twice]
      /\ source' = n
      /\ UNCHANGED <<phase, layer, update, present, start, committed>>
  BY <1>1, <1>2, <1>3 DEF CopyChunk
<1>5. /\ twice \in [Slots -> Row \union {NoRow}]
      /\ \A j \in 1 .. n : twice[CacheLen + s + j - 1] = update[j]
      /\ \A i \in Slots : i \in s + n .. CacheLen + s - 1 => twice[i] = storage[layer][i]
  <2>1. storage[layer] \in [Slots -> Row \union {NoRow}] /\ update \in Seq(Row)
    BY <1>1 DEF TypeOK
  <2>2. s \in Nat /\ n \in Nat /\ n <= Len(update) /\ s + n <= CacheLen
    BY <1>2
  <2> HIDE DEF s
  <2> QED
    BY <2>1, <2>2, WrittenTwiceRows, SMTT(60)
<1> HIDE DEF twice
<1>6. TypeOK'
  <2>1. storage' \in [Tensors -> [Slots -> Row \union {NoRow}]]
    <3>1. layer \in Tensors /\ storage \in [Tensors -> [Slots -> Row \union {NoRow}]]
      BY <1>1 DEF TypeOK
    <3>2. storage' = [storage EXCEPT ![layer] = twice]
          /\ twice \in [Slots -> Row \union {NoRow}]
      BY <1>4, <1>5
    <3> QED
      BY <3>1, <3>2
  <2>2. TypeOK /\ source' \in 0 .. Len(update)
    BY <1>1, <1>2, <1>4
  <2> QED
    BY <1>4, <2>1, <2>2 DEF TypeOK
<1>7. storage'[layer] = twice
  <2>1. layer \in Tensors /\ storage \in [Tensors -> [Slots -> Row \union {NoRow}]]
    BY <1>1 DEF TypeOK
  <2> QED
    BY <1>4, <2>1
<1>8. Holds(layer, committed)'
  <2>1. \A k \in 1 .. c : twice[s + CacheLen - c + k - 1] = committed[k]
    <3> TAKE k \in 1 .. c
    <3>1. /\ s + CacheLen - c + k - 1 \in Slots
          /\ s + CacheLen - c + k - 1 \in s + n .. CacheLen + s - 1
      <4> HIDE DEF s, n, c
      <4>1. s + CacheLen - c + k - 1 >= s + n /\ s + CacheLen - c + k - 1 <= CacheLen + s - 1
        BY <1>2
      <4>2. s + CacheLen - c + k - 1 \in Nat /\ CacheLen + s - 1 <= 2 * CacheLen - 1
        BY <1>2
      <4> QED
        BY <1>2, <4>1, <4>2 DEF Slots
    <3>2. Holds(layer, committed)
      BY <1>1 DEF TypeOK, Tensors
    <3>3. storage[layer][s + CacheLen - c + k - 1] = committed[k]
      BY <3>2 DEF Holds, EndsWith
    <3> QED
      BY <1>5, <3>1, <3>3
  <2> QED
    BY <1>2, <1>4, <1>7, <2>1 DEF Holds, EndsWith
<1>9. ASSUME NEW t \in Tensors
      PROVE  Holds(t, IF t < layer THEN committed \o update ELSE committed)'
  <2>1. CASE t = layer
    BY <1>1, <1>4, <1>8, <2>1 DEF TypeOK, Tensors
  <2>2. CASE t # layer
    <3>1. storage'[t] = storage[t] /\ start'[t] = start[t]
      BY <1>1, <1>4, <2>2 DEF TypeOK
    <3> DEFINE seq == IF t < layer THEN committed \o update ELSE committed
    <3>2. Holds(t, seq)
      BY <1>1
    <3>3. seq' = seq
      BY <1>4
    <3> HIDE DEF seq
    <3>4. Holds(t, seq)'
      BY <3>1, <3>2, <3>3 DEF Holds, EndsWith
    <3> QED
      BY <3>4 DEF seq
  <2> QED
    BY <2>1, <2>2
<1>10. AppendProgress'
  <2>1. \A j \in 1 .. n : storage'[layer][s + CacheLen + j - 1] = update[j]
    <3> TAKE j \in 1 .. n
    <3>1. s + CacheLen + j - 1 = CacheLen + s + j - 1
      BY <1>2
    <3> QED
      BY <1>5, <1>7, <3>1
  <2>2. Fits(update)'
    BY <1>1, <1>4 DEF Fits
  <2> QED
    BY <1>1, <1>2, <1>4, <1>9, <2>1, <2>2 DEF AppendProgress
<1> QED
  BY <1>1, <1>4, <1>6, <1>10 DEF KvInv, SeedProgress

LEMMA AppendFailsKvInv == ASSUME KvInv, AppendFails PROVE KvInv'
<1> DEFINE s == start[layer]
           n == Len(update)
           once == Written(storage[layer], s, 0, n)
<1>1. TypeOK /\ phase = "append" /\ source = 0
  BY DEF KvInv, AppendProgress, AppendFails, Copying
<1>2. s \in Nat /\ n \in Nat /\ s + n < CacheLen
  BY <1>1, RoomBehindWindow
<1>3. Destination = s /\ Chunk = n
  BY <1>1, <1>2, AppendPlace
<1>4. once \in [Slots -> Row \union {NoRow}]
  <2>1. storage[layer] \in [Slots -> Row \union {NoRow}] /\ update \in Seq(Row)
    BY <1>1 DEF TypeOK
  <2>2. s + n <= 2 * CacheLen /\ n <= Len(update)
    BY <1>2
  <2> HIDE DEF s
  <2> QED
    BY <1>2, <2>1, <2>2, WrittenRows
<1>5. storage' = storage \/ storage' = [storage EXCEPT ![layer] = once]
  BY <1>1, <1>3 DEF AppendFails
<1> HIDE DEF once
<1>6. storage' \in [Tensors -> [Slots -> Row \union {NoRow}]]
  BY <1>1, <1>4, <1>5 DEF TypeOK
<1>7. GiveUp /\ UNCHANGED <<source, present, start>>
  BY DEF AppendFails
<1> QED
  BY <1>1, <1>6, <1>7, GiveUpKvInv DEF TypeOK

LEMMA AdvanceWindowKvInv == ASSUME KvInv, AdvanceWindow PROVE KvInv'
<1> DEFINE s == start[layer]
           n == Len(update)
           c == Len(committed)
           text == committed \o update
<1>1. /\ TypeOK /\ phase = "append" /\ source = n
      /\ present = Tensors
      /\ \A t \in Tensors : Holds(t, IF t < layer THEN text ELSE committed)
      /\ source # 0 => \A j \in 1 .. n : storage[layer][s + CacheLen + j - 1] = update[j]
  BY DEF KvInv, AppendProgress, AdvanceWindow
<1>2. /\ s \in Nat /\ n \in Nat \ {0} /\ c \in Nat
      /\ s < c /\ c + n <= CacheLen /\ s + n < CacheLen
  BY <1>1, RoomBehindWindow
<1>3. NewStart = s + n
  BY <1>1, <1>2, AppendPlace
<1>4. /\ start' = [start EXCEPT ![layer] = s + n]
      /\ source' = 0
      /\ Proceed(text)
      /\ UNCHANGED <<present, storage>>
  BY <1>3 DEF AdvanceWindow
<1>5. /\ text \in Seq(Row) /\ Len(text) = c + n
      /\ \A k \in 1 .. c : text[k] = committed[k]
      /\ \A k \in 1 .. c + n : k > c => text[k] = update[k - c]
  BY <1>1 DEF TypeOK
<1> HIDE DEF text
<1>6. TypeOK'
  <2>1. phase' \in {"void", "seed", "ready", "append"} /\ layer' \in Tensors
    <3>1. phase = "append" /\ layer \in 1 .. Layers /\ Proceed(text)
      BY <1>1, <1>4 DEF TypeOK, Tensors
    <3> QED
      BY <3>1 DEF Proceed, Tensors
  <2>2. committed' \in Seq(Row) /\ Len(committed') <= CacheLen
    BY <1>1, <1>2, <1>4, <1>5 DEF Proceed, TypeOK
  <2>3. start' \in [Tensors -> 0 .. CacheLen - 1]
    BY <1>1, <1>2, <1>4 DEF TypeOK
  <2>4. update' \in Seq(Row) /\ Len(update') <= CacheLen + MaxQuery
        /\ 0 \in 0 .. Len(update')
    BY <1>1, <1>4, ProceedUpdate, Zenon
  <2> QED
    BY <1>1, <1>4, <2>1, <2>2, <2>3, <2>4 DEF TypeOK
<1>7. start'[layer] = s + n
  BY <1>1, <1>4 DEF TypeOK
<1>8. EndsWith(storage'[layer], start'[layer], text)
  <2>1. \A k \in 1 .. c + n : storage[layer][s + n + CacheLen - (c + n) + k - 1] = text[k]
    <3> TAKE k \in 1 .. c + n
    <3>1. CASE k <= c
      <4>1. Holds(layer, committed)
        BY <1>1 DEF TypeOK, Tensors
      <4>2. k \in 1 .. c /\ s + n + CacheLen - (c + n) + k - 1 = s + CacheLen - c + k - 1
        BY <1>2, <3>1
      <4>3. storage[layer][s + CacheLen - c + k - 1] = committed[k]
        BY <4>1, <4>2 DEF Holds, EndsWith
      <4> QED
        BY <1>5, <4>2, <4>3
    <3>2. CASE k > c
      <4>1. k - c \in 1 .. n /\ s + n + CacheLen - (c + n) + k - 1 = s + CacheLen + (k - c) - 1
        BY <1>2, <3>2
      <4>2. storage[layer][s + CacheLen + (k - c) - 1] = update[k - c]
        BY <1>1, <1>2, <4>1
      <4> QED
        BY <1>5, <3>2, <4>1, <4>2
    <3> QED
      BY <1>2, <3>1, <3>2
  <2>2. s + n < Len(text)
    BY <1>2, <1>5
  <2> QED
    BY <1>4, <1>5, <1>7, <2>1, <2>2 DEF EndsWith
<1>9. ASSUME NEW t \in Tensors, t # layer
      PROVE  storage'[t] = storage[t] /\ start'[t] = start[t]
  BY <1>1, <1>4, <1>9 DEF TypeOK
<1>10. CASE layer = Layers
  <2>1. phase' = "ready" /\ committed' = text
    BY <1>4, <1>10 DEF Proceed
  <2>2. ASSUME NEW t \in Tensors PROVE Holds(t, committed)'
    <3>1. CASE t = layer
      BY <1>8, <2>1, <3>1 DEF Holds
    <3>2. CASE t # layer
      <4>1. t < layer
        BY <1>10, <3>2 DEF Tensors
      <4>2. Holds(t, text)
        BY <1>1, <4>1
      <4> QED
        BY <1>9, <2>1, <3>2, <4>2 DEF Holds
    <3> QED
      BY <3>1, <3>2
  <2> QED
    BY <1>1, <1>4, <1>6, <2>1, <2>2 DEF KvInv, SeedProgress, AppendProgress
<1>11. CASE layer # Layers
  <2>1. /\ phase' = "append" /\ layer' = layer + 1
        /\ committed' = committed /\ update' = update
    BY <1>1, <1>4, <1>11 DEF Proceed
  <2>2. text' = text
    BY <2>1 DEF text
  <2>3. ASSUME NEW t \in Tensors
        PROVE  Holds(t, IF t < layer THEN text ELSE committed)'
    <3>1. CASE t <= layer
      <4>1. t < layer'
        BY <1>1, <2>1, <3>1 DEF TypeOK, Tensors
      <4>2. Holds(t, text)'
        <5>1. CASE t = layer
          BY <1>8, <2>2, <5>1 DEF Holds
        <5>2. CASE t # layer
          <6>1. t < layer
            BY <1>1, <3>1, <5>2 DEF TypeOK, Tensors
          <6>2. Holds(t, text)
            BY <1>1, <6>1
          <6> QED
            BY <1>9, <2>2, <5>2, <6>2 DEF Holds
        <5> QED
          BY <5>1, <5>2
      <4> QED
        BY <4>1, <4>2
    <3>2. CASE ~(t <= layer)
      <4>1. t # layer /\ ~(t < layer) /\ ~(t < layer')
        BY <1>1, <2>1, <3>2 DEF TypeOK, Tensors
      <4>2. Holds(t, committed)
        BY <1>1, <4>1
      <4>3. Holds(t, committed)'
        BY <1>9, <2>1, <4>1, <4>2 DEF Holds
      <4> QED
        BY <4>1, <4>3
    <3> QED
      BY <3>1, <3>2
  <2>4. AppendProgress'
    <3>1. Fits(update)' /\ Len(update') # 0 /\ source' = 0 /\ present' = Tensors
      BY <1>1, <1>2, <1>4, <2>1 DEF Fits
    <3> QED
      BY <2>3, <3>1 DEF AppendProgress, text
  <2> QED
    BY <1>4, <1>6, <2>1, <2>4 DEF KvInv, SeedProgress
<1> QED
  BY <1>10, <1>11

LEMMA StutterKvInv == ASSUME KvInv, UNCHANGED vars PROVE KvInv'
<1>1. UNCHANGED <<phase, layer, update, source, present, storage, start, committed>>
  BY DEF vars
<1>2. TypeOK'
  BY <1>1 DEF KvInv, TypeOK
<1>3. SeedProgress' /\ AppendProgress'
  BY <1>1 DEF KvInv, SeedProgress, AppendProgress, Holds, EndsWith, Fits
<1>4. (phase = "ready" => present = Tensors /\ \A t \in Tensors : Holds(t, committed))'
  BY <1>1 DEF KvInv, Holds, EndsWith
<1> QED
  BY <1>1, <1>2, <1>3, <1>4 DEF KvInv

LEMMA NextKvInv == ASSUME KvInv, [Next]_vars PROVE KvInv'
<1>1. CASE BuildFullCaches
  BY <1>1, BeginSeedKvInv, SeedTensorKvInv, SeedFailsKvInv DEF BuildFullCaches
<1>2. CASE AppendCacheUpdate
  BY <1>2, BeginAppendKvInv, AppendRefusedKvInv, CopyChunkKvInv, AppendFailsKvInv,
     AdvanceWindowKvInv DEF AppendCacheUpdate
<1>3. CASE UNCHANGED vars
  BY <1>3, StutterKvInv
<1> QED
  BY <1>1, <1>2, <1>3 DEF Next

------------------------------------------------------------------------------
(* Safety *)

\* Seeding and appending keep KvInv, failures at any device write included.
THEOREM KvInvariant == Spec => []KvInv
  BY InitKvInv, NextKvInv, PTL DEF Spec

\* The state has its shape and every window ends inside its buffer
\* (kv_cache.cpp:100-131).
THEOREM TypeCorrect == Spec => []TypeOK
<1>1. KvInv => TypeOK
  BY DEF KvInv
<1> QED
  BY <1>1, KvInvariant, PTL

\* A window that ends with the rows of seq shows them.
LEMMA HoldsShows ==
  ASSUME NEW t, NEW seq \in Seq(Row), Holds(t, seq)
  PROVE  Shown(t, Len(seq)) = seq
  BY DEF Holds, EndsWith, Shown

\* Whenever a graph can be launched, every tensor shows the committed rows in
\* order: what BuildFullCaches and AppendCacheUpdate promise the mask.
THEOREM WindowsCorrect == Spec => []WindowShowsCommitted
<1>1. KvInv => WindowShowsCommitted
  <2> SUFFICES ASSUME KvInv, phase = "ready" PROVE WindowShowsCommitted
    BY DEF WindowShowsCommitted
  <2>1. committed \in Seq(Row) /\ present = Tensors /\ \A t \in Tensors : Holds(t, committed)
    BY DEF KvInv, TypeOK
  <2>2. \A t \in Tensors : Shown(t, Len(committed)) = committed
    BY <2>1, HoldsShows
  <2> QED
    BY <2>1, <2>2 DEF WindowShowsCommitted
<1> QED
  BY <1>1, KvInvariant, PTL

LEMMA AppendShows == ASSUME KvInv PROVE AppendOverwritesNoHistory
<1> SUFFICES ASSUME phase = "append", NEW t \in Tensors
             PROVE  IF t < layer
                    THEN Shown(t, Len(committed) + Len(update)) = committed \o update
                    ELSE Shown(t, Len(committed)) = committed
  BY DEF AppendOverwritesNoHistory
<1>1. /\ Holds(t, IF t < layer THEN committed \o update ELSE committed)
      /\ committed \in Seq(Row) /\ update \in Seq(Row)
  BY DEF KvInv, TypeOK, AppendProgress
<1>2. /\ committed \o update \in Seq(Row)
      /\ Len(committed \o update) = Len(committed) + Len(update)
  BY <1>1
<1>3. CASE t < layer
  <2> DEFINE text == committed \o update
  <2>1. Holds(t, text) /\ text \in Seq(Row)
    BY <1>1, <1>2, <1>3
  <2>2. Len(text) = Len(committed) + Len(update)
    BY <1>2
  <2> HIDE DEF text
  <2>3. Shown(t, Len(text)) = text
    BY <2>1, HoldsShows
  <2>4. Shown(t, Len(committed) + Len(update)) = text
    BY <2>2, <2>3
  <2> QED
    BY <1>3, <2>4 DEF text
<1>4. CASE ~(t < layer)
  <2>1. Holds(t, committed)
    BY <1>1, <1>4
  <2> QED
    BY <1>1, <1>4, <2>1, HoldsShows
<1> QED
  BY <1>3, <1>4

\* The device writes of an append never touch a row a window shows, finished
\* tensor or not.
THEOREM HistoryNotOverwritten == Spec => []AppendOverwritesNoHistory
  BY AppendShows, KvInvariant, PTL

\* The chunk loop of AppendMirroredDeviceRingRows runs once per tensor.
THEOREM NeverWraps == Spec => []AppendNeverWraps
<1>1. KvInv => AppendNeverWraps
  BY DEF KvInv, AppendProgress, AppendNeverWraps
<1> QED
  BY <1>1, KvInvariant, PTL
------------------------------------------------------------------------------
(* The ring implements the sequence of rows *)

\* What the decode loop sees of the ring.
Usable == phase \in {"ready", "append"}
Rows == IF Usable THEN Shown(Layers, Len(committed)) ELSE <<>>

RowsAreCommitted == Rows = IF Usable THEN committed ELSE <<>>

LEMMA InvShowsCommitted == KvInv => RowsAreCommitted
<1> SUFFICES ASSUME KvInv, Usable PROVE Shown(Layers, Len(committed)) = committed
  BY DEF RowsAreCommitted, Rows
<1>1. TypeOK /\ Layers \in Tensors /\ ~(Layers < layer) /\ committed \in Seq(Row)
  BY DEF KvInv, TypeOK, Tensors
<1>2. Holds(Layers, committed)
  BY <1>1 DEF KvInv, AppendProgress, Usable
<1> QED
  BY <1>1, <1>2, HoldsShows

\* A step that leaves the cache unusable gives the rows up.
LEMMA DiscardStep ==
  ASSUME RowsAreCommitted', ~Usable'
  PROVE  Cache!Discard
  BY DEF RowsAreCommitted, Cache!Discard, Usable, Rows

\* A step that changes neither the phase's kind nor the history is none.
LEMMA SameRows ==
  ASSUME RowsAreCommitted, RowsAreCommitted', Usable' = Usable, committed' = committed
  PROVE  UNCHANGED Cache!vars
  BY DEF RowsAreCommitted, Cache!vars, Usable, Rows

LEMMA SeedTensorIsSeed ==
  ASSUME KvInv, RowsAreCommitted, RowsAreCommitted', SeedTensor
  PROVE  [Cache!Next]_(Cache!vars)
<1>1. /\ phase = "seed" /\ Proceed(update)
      /\ update \in Seq(Row) /\ Len(update) \in 1 .. CacheLen
  BY DEF SeedTensor, KvInv, SeedProgress, TypeOK
<1>2. CASE layer = Layers
  <2>1. ~Usable /\ Usable' /\ committed' = update
    BY <1>1, <1>2 DEF Proceed, Usable
  <2>2. Rows' = update
    BY <2>1 DEF RowsAreCommitted
  <2>3. Cache!Seed
    BY <1>1, <2>1, <2>2 DEF Cache!Seed, Usable, Rows
  <2> QED
    BY <2>3 DEF Cache!Next
<1>3. CASE layer # Layers
  <2>1. Usable' = Usable /\ committed' = committed
    BY <1>1, <1>3 DEF Proceed, Usable
  <2> QED
    BY <2>1, SameRows
<1> QED
  BY <1>2, <1>3

LEMMA AdvanceWindowIsExtend ==
  ASSUME KvInv, RowsAreCommitted, RowsAreCommitted', AdvanceWindow
  PROVE  [Cache!Next]_(Cache!vars)
<1>1. /\ phase = "append" /\ Proceed(committed \o update)
      /\ committed \in Seq(Row) /\ update \in Seq(Row)
      /\ Len(update) \in Nat \ {0} /\ Len(committed) + Len(update) <= CacheLen
  BY RoomBehindWindow DEF AdvanceWindow, KvInv, TypeOK
<1>2. CASE layer = Layers
  <2>1. Usable /\ Usable' /\ committed' = committed \o update
    BY <1>1, <1>2 DEF Proceed, Usable
  <2>2. Rows = committed /\ Rows' = committed \o update
    BY <2>1 DEF RowsAreCommitted
  <2>3. /\ committed \o update \in Seq(Row)
        /\ Len(committed \o update) \in Len(committed) + 1 .. CacheLen
        /\ SubSeq(committed \o update, 1, Len(committed)) = committed
    BY <1>1
  <2>4. Cache!Extend
    BY <2>1, <2>2, <2>3 DEF Cache!Extend, Usable, Rows
  <2> QED
    BY <2>4 DEF Cache!Next
<1>3. CASE layer # Layers
  <2>1. Usable' = Usable /\ committed' = committed
    BY <1>1, <1>3 DEF Proceed, Usable
  <2> QED
    BY <2>1, SameRows
<1> QED
  BY <1>2, <1>3

LEMMA StepIsCacheStep ==
  ASSUME KvInv, RowsAreCommitted, RowsAreCommitted', [Next]_vars
  PROVE  [Cache!Next]_(Cache!vars)
<1>1. CASE SeedTensor
  BY <1>1, SeedTensorIsSeed
<1>2. CASE AdvanceWindow
  BY <1>2, AdvanceWindowIsExtend
<1>3. CASE phase' \in {"seed", "void"}
  <2>1. ~Usable'
    BY <1>3 DEF Usable
  <2> QED
    BY <2>1, DiscardStep DEF Cache!Next
<1>4. CASE \/ \E rows \in Updates(MaxQuery) : BeginAppend(rows)
           \/ CopyChunk
           \/ UNCHANGED vars
  <2>1. Usable' = Usable /\ committed' = committed
    BY <1>4 DEF BeginAppend, CopyChunk, Copying, Usable, vars
  <2> QED
    BY <2>1, SameRows
<1>5. CASE \/ \E rows \in Updates(CacheLen) : BeginSeed(rows)
           \/ SeedFails
           \/ \E rows \in Updates(MaxQuery) : AppendRefused(rows)
           \/ AppendFails
  <2>1. phase' \in {"seed", "void"}
    BY <1>5 DEF BeginSeed, SeedFails, AppendRefused, AppendFails, GiveUp
  <2> QED
    BY <1>3, <2>1
<1> QED
  BY <1>1, <1>2, <1>4, <1>5 DEF Next, BuildFullCaches, AppendCacheUpdate

\* The two loops over tensors and chunks, with every failure between two device
\* writes, implement the three atomic operations on one sequence of rows.
THEOREM RingIsSequence == Spec => ImplementsKvCache
<1>1. Init => Cache!Init
  BY DEF Init, Cache!Init
<1>2. KvInv /\ RowsAreCommitted /\ RowsAreCommitted' /\ [Next]_vars
        => [Cache!Next]_(Cache!vars)
  BY StepIsCacheStep
<1> QED
  BY <1>1, <1>2, KvInvariant, InvShowsCommitted, PTL DEF Spec, ImplementsKvCache, Cache!Spec

------------------------------------------------------------------------------
(* Masks and positions on top of the ring *)

Token == Row \union {MaskToken}

\* What a decode graph needs of the ring: every tensor's window ends with the
\* committed rows.
LEMMA ReadyRing ==
  ASSUME KvInv, phase = "ready", NEW t \in Tensors
  PROVE  /\ committed \in Seq(Row) /\ Len(committed) \in Nat /\ Len(committed) >= 1
         /\ start[t] \in Nat
         /\ \A k \in 1 .. Len(committed) :
              storage[t][start[t] + CacheLen - Len(committed) + k - 1] = committed[k]
<1>1. committed \in Seq(Row) /\ start[t] \in 0 .. CacheLen - 1 /\ Holds(t, committed)
  BY DEF KvInv, TypeOK
<1>2. start[t] \in Nat /\ CacheLen \in Nat /\ Len(committed) \in Nat
  BY <1>1, RingAssumption
<1> QED
  BY <1>1, <1>2 DEF Holds, EndsWith

\* Key and position of a column that holds a committed row.
LEMMA HistoryColumn ==
  ASSUME KvInv, phase = "ready", NEW t \in Tensors,
         NEW query, Len(query) \in Nat, NEW prefix, NEW pbd,
         Len(committed) + Len(query) <= CacheLen,
         NEW j \in Nat, j >= CacheLen - Len(query) - Len(committed), j < CacheLen - Len(query)
  PROVE  /\ DecodeKeyPosition(query, prefix, pbd, j)
              = j - (CacheLen - Len(query) - Len(committed))
         /\ DecodeKey(t, query, j)
              = committed[j - (CacheLen - Len(query) - Len(committed)) + 1]
<1> DEFINE n == Len(query)
           c == Len(committed)
           k == j - (CacheLen - n - c) + 1
<1>1. /\ c \in Nat /\ start[t] \in Nat /\ CacheLen \in Nat
      /\ \A m \in 1 .. c : storage[t][start[t] + CacheLen - c + m - 1] = committed[m]
  BY ReadyRing, RingAssumption
<1>2. k \in 1 .. c
  BY <1>1
<1>3. start[t] + j + n = start[t] + CacheLen - c + k - 1
  BY <1>1
<1>4. storage[t][start[t] + j + n] = committed[k]
  BY <1>1, <1>2, <1>3
<1>5. j + n - (CacheLen - c) = j - (CacheLen - n - c)
  BY <1>1
<1>6. CurrentStart(Len(query)) = CacheLen - n /\ j < CacheLen - n
  BY DEF CurrentStart
<1>7. DecodeKeyPosition(query, prefix, pbd, j) = j + n - (CacheLen - c)
  BY <1>6 DEF DecodeKeyPosition
<1>8. DecodeKey(t, query, j) = storage[t][start[t] + j + n]
  BY <1>6 DEF DecodeKey
<1> QED
  BY <1>4, <1>5, <1>7, <1>8

\* A causal row sees the text up to its own token.
LEMMA CausalRowSees ==
  ASSUME KvInv, phase = "ready", NEW t \in Tensors,
         NEW query \in Seq(Token), NEW prefix \in Nat, NEW pbd \in BOOLEAN,
         Launchable(Len(query)),
         NEW i \in 0 .. Len(query) - 1, pbd => i < prefix /\ prefix + Block = Len(query)
  PROVE  DecodeRowSees(t, query, prefix, pbd, i, committed \o SubSeq(query, 1, i + 1))
<1> DEFINE n == Len(query)
           c == Len(committed)
           first == CacheLen - n - c
           text == committed \o SubSeq(query, 1, i + 1)
           mask == DecodeMask(n, c, pbd, i)
           Key(j) == DecodeKey(t, query, j)
           Position(j) == DecodeKeyPosition(query, prefix, pbd, j)
<1>1. /\ n \in Nat /\ c \in Nat /\ CacheLen \in Nat /\ c + n <= CacheLen /\ i \in Nat /\ i < n
      /\ committed \in Seq(Row) /\ Block \in Nat /\ first \in Nat
  BY ReadyRing, RingAssumption, GraphAssumption DEF Launchable
<1>2. mask = {j \in 0 .. CacheLen - 1 : first <= j /\ j < first + c + i + 1}
  <2>1. ~(pbd /\ n >= Block /\ i >= n - Block)
    BY <1>1
  <2>2. mask = History(n, c) \union Causal(n, i)
    BY <2>1 DEF DecodeMask
  <2> QED
    BY <1>1, <2>2 DEF History, Causal, Columns, CurrentStart
<1>3. committed \in Seq(Token)
  BY <1>1 DEF Token
<1>4. /\ Len(text) = c + i + 1
      /\ \A k \in 1 .. c : text[k] = committed[k]
      /\ \A k \in 1 .. i + 1 : text[c + k] = query[k]
  <2> DEFINE part == SubSeq(query, 1, i + 1)
  <2>1. part \in Seq(Token) /\ Len(part) = i + 1 /\ \A k \in 1 .. i + 1 : part[k] = query[k]
    BY <1>1
  <2> HIDE DEF part
  <2>2. text = committed \o part
    BY DEF part
  <2> HIDE DEF c, n, text
  <2>3. /\ Len(committed \o part) = Len(committed) + (i + 1)
        /\ \A k \in 1 .. Len(committed) : (committed \o part)[k] = committed[k]
        /\ \A k \in 1 .. i + 1 : (committed \o part)[Len(committed) + k] = part[k]
    BY <1>1, <1>3, <2>1
  <2> QED
    BY <1>1, <2>1, <2>2, <2>3 DEF c
<1>5. ASSUME NEW j \in mask
      PROVE  Position(j) = j - first /\ Key(j) = text[j - first + 1]
             /\ j - first + 1 \in 1 .. c + i + 1
  <2>1. j \in Nat /\ first <= j /\ j < first + c + i + 1
    BY <1>1, <1>2, <1>5
  <2>2. CASE j < first + c
    <3>1. Position(j) = j - first /\ Key(j) = committed[j - first + 1]
      <4>1. /\ j >= CacheLen - n - c /\ j < CacheLen - n /\ c + n <= CacheLen
            /\ j \in Nat /\ n \in Nat
        BY <1>1, <2>1, <2>2
      <4> QED
        BY <4>1, HistoryColumn, Zenon
    <3>2. j - first + 1 \in 1 .. c
      BY <1>1, <2>1, <2>2
    <3> QED
      BY <1>1, <1>4, <3>1, <3>2
  <2>3. CASE j >= first + c
    <3> DEFINE r == j - (CacheLen - n)
    <3>1. r \in 0 .. i /\ j >= CacheLen - n /\ j - first = c + r /\ r + 1 \in 1 .. i + 1
      BY <1>1, <2>1, <2>3
    <3>2. /\ DecodeKey(t, query, j) = query[r + 1]
          /\ DecodeKeyPosition(query, prefix, pbd, j) =
               IF pbd /\ r >= prefix THEN c + r - 1 ELSE c + r
      <4>1. n <= CacheLen /\ n \in Nat /\ c \in Nat /\ j \in Nat /\ j >= CacheLen - n
        BY <1>1, <2>1, <3>1
      <4>2. ~(j < CurrentStart(n)) /\ CurrentStart(n) = CacheLen - n /\ j - CurrentStart(n) = r
        BY <1>1, <4>1 DEF CurrentStart
      <4> HIDE DEF r
      <4> QED
        BY <4>2 DEF DecodeKey, DecodeKeyPosition, DecodePosition
    <3>3. ~(pbd /\ r >= prefix)
      BY <1>1, <3>1
    <3> HIDE DEF r, text, first
    <3>4. query[r + 1] = text[c + (r + 1)] /\ c + (r + 1) = j - first + 1
      BY <1>1, <1>4, <2>1, <3>1
    <3>5. j - first + 1 \in 1 .. c + i + 1
      BY <1>1, <3>1
    <3> QED
      BY <3>1, <3>2, <3>3, <3>4, <3>5
  <2> QED
    BY <1>1, <2>1, <2>2, <2>3
<1>6. \A k \in 1 .. Len(text) : first + k - 1 \in mask /\ (first + k - 1) - first + 1 = k
  <2>1. first \in Nat /\ first + c + i + 1 <= CacheLen
    BY <1>1
  <2> HIDE DEF mask, text, first
  <2> QED
    BY <1>1, <1>2, <1>4, <2>1
<1>7. \A j \in mask : j \in Int
  BY <1>2
<1> HIDE DEF mask, text, Key, Position, first
<1>8. SeesText(mask, Key, Position, text)
  <2>1. \A j \in mask : Position(j) + 1 \in 1 .. Len(text) /\ Key(j) = text[Position(j) + 1]
    BY <1>4, <1>5
  <2>2. \A k \in 1 .. Len(text) : \E j \in mask : Position(j) + 1 = k
    BY <1>5, <1>6
  <2>3. \A j, k \in mask : Position(j) = Position(k) => j = k
    BY <1>1, <1>5, <1>7
  <2> QED
    BY <2>1, <2>2, <2>3 DEF SeesText
<1> QED
  BY <1>8 DEF DecodeRowSees, mask, text, Key, Position

LEMMA Joined ==
  ASSUME NEW a \in Seq(Token), NEW b \in Seq(Token)
  PROVE  /\ a \o b \in Seq(Token) /\ Len(a \o b) = Len(a) + Len(b)
         /\ \A k \in 1 .. Len(a) : (a \o b)[k] = a[k]
         /\ \A k \in 1 .. Len(b) : (a \o b)[Len(a) + k] = b[k]
         /\ SubSeq(a \o b, 1, Len(a)) = a
<1>1. SubSeq(a \o b, 1, Len(a)) = a
  OBVIOUS
<1> QED
  BY <1>1

\* The tokens of a window behind a text: its last token again, then masks.
LEMMA WindowTokens ==
  ASSUME NEW text \in Seq(Row), text # <<>>
  PROVE  /\ Masks(Block - 1) \in Seq(Token) /\ Len(Masks(Block - 1)) = Block - 1
         /\ \A k \in 1 .. Block - 1 : Masks(Block - 1)[k] = MaskToken
         /\ WindowInput(text) \in Seq(Token) /\ Len(WindowInput(text)) = Block
         /\ WindowInput(text)[1] = text[Len(text)]
         /\ \A k \in 2 .. Block : WindowInput(text)[k] = MaskToken
<1>1. Block \in Nat /\ Block >= 1
  BY GraphAssumption
<1>2. text[Len(text)] \in Token
  BY DEF Token
<1> DEFINE masks == Masks(Block - 1)
<1>3. /\ masks \in Seq(Token) /\ Len(masks) = Block - 1
      /\ \A k \in 1 .. Block - 1 : masks[k] = MaskToken
  BY <1>1 DEF Masks, Token
<1> HIDE DEF masks
<1>4. WindowInput(text) = <<text[Len(text)]>> \o masks
  BY DEF WindowInput, Last, masks
<1> DEFINE window == <<text[Len(text)]>> \o masks
<1>5. /\ window \in Seq(Token) /\ Len(window) = 1 + Len(masks)
      /\ window[1] = text[Len(text)]
      /\ \A k \in 2 .. 1 + Len(masks) : window[k] = masks[k - 1]
  BY <1>1, <1>2, <1>3
<1> HIDE DEF window
<1>6. 1 + Len(masks) = Block /\ \A k \in 2 .. Block : k - 1 \in 1 .. Block - 1
  BY <1>1, <1>3
<1> QED
  BY <1>3, <1>4, <1>5, <1>6 DEF window, masks

LEMMA WindowLength ==
  ASSUME KvInv, phase = "ready", NEW accepted \in Seq(Row), NEW query,
         query = accepted \o WindowInput(committed \o accepted)
  PROVE  query \in Seq(Token) /\ Len(query) = Len(accepted) + Block
<1> DEFINE before == committed \o accepted
<1>1. committed \in Seq(Row) /\ Len(committed) >= 1
  <2>1. 1 \in Tensors
    BY RingAssumption DEF Tensors
  <2> QED
    BY <2>1, ReadyRing
<1>2. before \in Seq(Row) /\ before # <<>>
  BY <1>1
<1> HIDE DEF before
<1>3. WindowInput(before) \in Seq(Token) /\ Len(WindowInput(before)) = Block
  BY <1>2, WindowTokens
<1>4. accepted \in Seq(Token)
  BY DEF Token
<1>5. /\ accepted \o WindowInput(before) \in Seq(Token)
      /\ Len(accepted \o WindowInput(before)) = Len(accepted) + Len(WindowInput(before))
  BY <1>3, <1>4, Joined, Zenon
<1> QED
  BY <1>3, <1>5 DEF before

\* A row of a PBD window sees the whole text and the window behind it; the text's
\* last token through the window's first row only.
LEMMA WindowRowSees ==
  ASSUME KvInv, phase = "ready", NEW t \in Tensors,
         NEW accepted \in Seq(Row), NEW query,
         query = accepted \o WindowInput(committed \o accepted),
         Launchable(Len(query)),
         NEW i \in Len(accepted) .. Len(query) - 1
  PROVE  /\ query \in Seq(Token) /\ Len(query) = Len(accepted) + Block
         /\ DecodeRowSees(t, query, Len(accepted), TRUE, i,
                          committed \o SubSeq(query, 1, Len(accepted)) \o Masks(Block - 1))
<1> DEFINE prefix == Len(accepted)
           n == Len(query)
           c == Len(committed)
           first == CacheLen - n - c
           before == committed \o accepted
           window == WindowInput(before)
           text == before \o Masks(Block - 1)
           mask == DecodeMask(n, c, TRUE, i)
           Key(j) == DecodeKey(t, query, j)
           Position(j) == DecodeKeyPosition(query, prefix, TRUE, j)
<1>1. /\ c \in Nat /\ c >= 1 /\ CacheLen \in Nat /\ Block \in Nat /\ Block >= 1 /\ prefix \in Nat
      /\ committed \in Seq(Row)
  BY ReadyRing, RingAssumption, GraphAssumption
<1>2. /\ before \in Seq(Row) /\ Len(before) = c + prefix /\ before # <<>>
      /\ \A k \in 1 .. c : before[k] = committed[k]
      /\ \A k \in 1 .. prefix : before[c + k] = accepted[k]
  BY <1>1
<1> HIDE DEF before
<1>3. /\ window \in Seq(Token) /\ Len(window) = Block /\ window[1] = before[c + prefix]
      /\ \A k \in 2 .. Block : window[k] = MaskToken
      /\ Masks(Block - 1) \in Seq(Token) /\ Len(Masks(Block - 1)) = Block - 1
      /\ \A k \in 1 .. Block - 1 : Masks(Block - 1)[k] = MaskToken
  BY <1>2, WindowTokens
<1>4. query = accepted \o window
  BY DEF before
<1> HIDE DEF window
<1>5. accepted \in Seq(Token) /\ before \in Seq(Token)
  BY <1>2 DEF Token
<1>6. /\ query \in Seq(Token) /\ n = prefix + Block
      /\ \A k \in 1 .. prefix : query[k] = accepted[k]
      /\ \A k \in 1 .. Block : query[prefix + k] = window[k]
      /\ SubSeq(query, 1, prefix) = accepted
  <2>1. /\ accepted \o window \in Seq(Token)
        /\ Len(accepted \o window) = Len(accepted) + Len(window)
        /\ \A k \in 1 .. Len(accepted) : (accepted \o window)[k] = accepted[k]
        /\ \A k \in 1 .. Len(window) : (accepted \o window)[Len(accepted) + k] = window[k]
        /\ SubSeq(accepted \o window, 1, Len(accepted)) = accepted
    <3>1. accepted \in Seq(Token) /\ window \in Seq(Token)
      BY <1>3, <1>5
    <3> QED
      BY <3>1, Joined, Zenon
  <2>2. Len(window) = Block
    BY <1>3
  <2> QED
    BY <1>4, <2>1, <2>2
<1>7. /\ Len(text) = c + prefix + (Block - 1)
      /\ \A k \in 1 .. c + prefix : text[k] = before[k]
      /\ \A k \in 1 .. Block - 1 : text[c + prefix + k] = MaskToken
  <2> DEFINE masks == Masks(Block - 1)
  <2> HIDE DEF masks
  <2>1. /\ masks \in Seq(Token) /\ Len(masks) = Block - 1
        /\ \A k \in 1 .. Block - 1 : masks[k] = MaskToken
    BY <1>3 DEF masks
  <2>2. /\ Len(before \o masks) = Len(before) + Len(masks)
        /\ \A k \in 1 .. Len(before) : (before \o masks)[k] = before[k]
        /\ \A k \in 1 .. Len(masks) : (before \o masks)[Len(before) + k] = masks[k]
    <3>1. before \in Seq(Token) /\ masks \in Seq(Token)
      BY <1>5, <2>1
    <3> QED
      BY <3>1, Joined, Zenon
  <2>3. text = before \o masks
    BY DEF masks
  <2>4. Len(before) = c + prefix
    BY <1>2
  <2> HIDE DEF text, c, prefix
  <2> QED
    BY <2>1, <2>2, <2>3, <2>4
<1> DEFINE hidden == first + c + prefix - 1
<1>8. /\ first \in Nat /\ n \in Nat /\ c \in Nat /\ prefix \in Nat /\ i \in Nat
      /\ CacheLen \in Nat /\ Block \in Nat /\ Block >= 1 /\ c >= 1
      /\ i < n /\ prefix <= i /\ n = prefix + Block /\ c + n <= CacheLen
      /\ first + c + n = CacheLen /\ hidden = first + c + prefix - 1
  <2> HIDE DEF n, c, prefix
  <2>1. i \in prefix .. n - 1 /\ c + n <= CacheLen
    BY DEF n, c, prefix, Launchable
  <2> QED
    BY <1>1, <1>6, <2>1
<1> HIDE DEF first, hidden, n, c, prefix
<1>9. mask = {j \in 0 .. CacheLen - 1 : first <= j /\ j # hidden}
  <2>1. n >= Block /\ i >= n - Block
    BY <1>8
  <2>2. mask = BlockMask(n, c, i)
    BY <2>1 DEF DecodeMask
  <2> QED
    <3>1. CurrentStart(n) = first + c /\ CacheLen - Block = first + c + prefix
      BY <1>8 DEF CurrentStart
    <3>2. /\ History(n, c) = {j \in 0 .. CacheLen - 1 : first <= j /\ j < first + c}
          /\ Causal(n, i)
               = {j \in 0 .. CacheLen - 1 : first + c <= j /\ j < first + c + i + 1}
          /\ Columns(CacheLen - Block, CacheLen)
               = {j \in 0 .. CacheLen - 1 : first + c + prefix <= j}
          /\ Columns(CacheLen - Block - 1, CacheLen - Block)
               = {j \in 0 .. CacheLen - 1 : j = hidden}
      <4>1. History(n, c) = {j \in 0 .. CacheLen - 1 : first <= j /\ j < first + c}
        BY <1>8, <3>1 DEF History, Columns
      <4>2. Causal(n, i)
              = {j \in 0 .. CacheLen - 1 : first + c <= j /\ j < first + c + i + 1}
        BY <1>8, <3>1 DEF Causal, Columns
      <4>3. Columns(CacheLen - Block, CacheLen)
              = {j \in 0 .. CacheLen - 1 : first + c + prefix <= j}
        BY <1>8, <3>1 DEF Columns
      <4>4. Columns(CacheLen - Block - 1, CacheLen - Block)
              = {j \in 0 .. CacheLen - 1 : j = hidden}
        <5>1. CacheLen - Block - 1 = hidden /\ CacheLen - Block = hidden + 1 /\ hidden \in Nat
          BY <1>8, <3>1
        <5>2. \A j \in 0 .. CacheLen - 1 : (hidden <= j /\ j < hidden + 1) <=> j = hidden
          BY <5>1
        <5> QED
          BY <5>1, <5>2 DEF Columns
      <4> QED
        BY <4>1, <4>2, <4>3, <4>4
    <3> HIDE DEF mask
    <3>3. mask = (({j \in 0 .. CacheLen - 1 : first <= j /\ j < first + c}
                    \union {j \in 0 .. CacheLen - 1 :
                              first + c <= j /\ j < first + c + i + 1})
                    \union {j \in 0 .. CacheLen - 1 : first + c + prefix <= j})
                    \ {j \in 0 .. CacheLen - 1 : j = hidden}
      BY <2>2, <3>2, Zenon DEF BlockMask
    <3> QED
      BY <1>8, <3>3
<1> HIDE DEF mask
<1> DEFINE place(j) == IF j < hidden THEN j - first ELSE j - first - 1
<1>0. \A j \in Int : /\ j < hidden => place(j) = j - first
                     /\ ~(j < hidden) => place(j) = j - first - 1
  OBVIOUS
<1> HIDE DEF place
<1>10. ASSUME NEW j \in mask
       PROVE  /\ Position(j) = place(j) /\ Key(j) = text[place(j) + 1]
              /\ place(j) + 1 \in 1 .. c + prefix + Block - 1
  <2>1. j \in Nat /\ first <= j /\ j < CacheLen /\ j # hidden
    BY <1>8, <1>9, <1>10
  <2>2. CASE j < first + c
    <3>1. Position(j) = j - first /\ Key(j) = committed[j - first + 1]
      <4>1. /\ Len(committed) + Len(query) <= CacheLen /\ Len(query) \in Nat
            /\ j >= CacheLen - Len(query) - Len(committed) /\ j < CacheLen - Len(query)
            /\ first = CacheLen - Len(query) - Len(committed)
        BY <1>8, <2>1, <2>2 DEF first, n, c
      <4> QED
        BY <2>1, <4>1, HistoryColumn, Zenon
    <3>2. /\ j < hidden /\ j - first + 1 \in 1 .. c
          /\ j - first + 1 \in 1 .. c + prefix
          /\ j - first + 1 \in 1 .. c + prefix + Block - 1
      BY <1>8, <2>1, <2>2
    <3>3. text[j - first + 1] = committed[j - first + 1]
      <4> HIDE DEF text
      <4> QED
        BY <1>2, <1>7, <3>2 DEF c, prefix
    <3> HIDE DEF text, Position, Key
    <3> QED
      BY <1>0, <2>1, <3>1, <3>2, <3>3
  <2>3. CASE j >= first + c
    <3> DEFINE r == j - (CacheLen - n)
    <3>0. r \in Nat /\ r < n /\ j = first + c + r
      BY <1>8, <2>1, <2>3
    <3>1. r = j - CurrentStart(n) /\ ~(j < CurrentStart(n))
      BY <1>8, <2>1, <2>3 DEF CurrentStart
    <3> HIDE DEF r
    <3>2. /\ Key(j) = query[r + 1]
          /\ Position(j) = IF r >= prefix THEN c + r - 1 ELSE c + r
      BY <3>1 DEF DecodeKey, DecodeKeyPosition, DecodePosition, n, c
    <3> HIDE DEF text, Key, Position
    <3>3. CASE r < prefix
      <4>1. /\ r + 1 \in 1 .. prefix /\ c + (r + 1) \in 1 .. c + prefix
            /\ c + (r + 1) = j - first + 1
            /\ j - first + 1 \in 1 .. c + prefix + Block - 1
            /\ ~(r >= prefix) /\ j < hidden
        BY <1>8, <2>1, <3>0, <3>3
      <4>2. query[r + 1] = text[c + (r + 1)]
        BY <1>2, <1>6, <1>7, <4>1 DEF c, prefix
      <4>3. c + r = j - first
        BY <1>8, <3>0
      <4> QED
        BY <1>0, <2>1, <3>2, <4>1, <4>2, <4>3
    <3>4. CASE r >= prefix
      <4> DEFINE m == r - prefix
      <4>1. /\ m \in 0 .. Block - 1 /\ r + 1 = prefix + (m + 1) /\ m + 1 \in 1 .. Block
            /\ ~(j < hidden) /\ j - first - 1 = c + r - 1 /\ c + r - 1 + 1 = c + prefix + m
            /\ c + prefix + m \in 1 .. c + prefix + Block - 1
        BY <1>8, <2>1, <3>0, <3>4
      <4> HIDE DEF m
      <4>2. query[r + 1] = window[m + 1]
        BY <1>6, <4>1
      <4>3. window[m + 1] = text[c + prefix + m]
        <5>1. CASE m = 0
          <6>1. c + prefix + m = c + prefix /\ c + prefix \in 1 .. c + prefix /\ m + 1 = 1
            BY <1>8, <5>1
          <6>2. window[1] = before[c + prefix] /\ text[c + prefix] = before[c + prefix]
            BY <1>3, <1>7, <6>1 DEF c, prefix
          <6> QED
            BY <6>1, <6>2
        <5>2. CASE m # 0
          <6>1. m \in 1 .. Block - 1 /\ m + 1 \in 2 .. Block
            BY <1>8, <4>1, <5>2
          <6> QED
            BY <1>3, <1>7, <6>1
        <5> QED
          BY <5>1, <5>2
      <4>4. place(j) = c + r - 1 /\ place(j) + 1 = c + prefix + m
        BY <1>0, <2>1, <4>1
      <4> QED
        BY <3>2, <3>4, <4>1, <4>2, <4>3, <4>4
    <3> QED
      BY <1>8, <3>0, <3>3, <3>4
  <2> HIDE DEF text, Position, Key
  <2> QED
    BY <1>8, <2>1, <2>2, <2>3
<1>11. \A k \in 1 .. c + prefix + Block - 1 : \E j \in mask : place(j) + 1 = k
  <2> SUFFICES ASSUME NEW k \in 1 .. c + prefix + Block - 1
               PROVE  \E j \in mask : place(j) + 1 = k
    OBVIOUS
  <2>1. k \in Nat /\ k >= 1 /\ k <= c + prefix + Block - 1
    BY <1>8
  <2> HIDE DEF mask
  <2>2. CASE k < c + prefix
    <3>1. first + k - 1 \in mask /\ place(first + k - 1) + 1 = k
      BY <1>0, <1>8, <1>9, <2>1, <2>2
    <3> QED
      BY <3>1
  <2>3. CASE k >= c + prefix
    <3>1. first + k \in mask /\ place(first + k) + 1 = k
      BY <1>0, <1>8, <1>9, <2>1, <2>3
    <3> QED
      BY <3>1
  <2> QED
    BY <1>8, <2>1, <2>2, <2>3
<1>12. \A j, k \in mask : place(j) = place(k) => j = k
  <2> HIDE DEF mask
  <2>1. \A j \in mask : j \in Int /\ j # hidden
    BY <1>9
  <2>2. hidden \in Int /\ first \in Int
    BY <1>8
  <2> QED
    BY <1>0, <2>1, <2>2
<1> HIDE DEF mask, text, Key, Position, place
<1>13. SeesText(mask, Key, Position, text)
  <2>1. \A j \in mask : Position(j) + 1 \in 1 .. Len(text) /\ Key(j) = text[Position(j) + 1]
    BY <1>7, <1>10
  <2>2. \A k \in 1 .. Len(text) : \E j \in mask : Position(j) + 1 = k
    BY <1>7, <1>10, <1>11
  <2>3. \A j, k \in mask : Position(j) = Position(k) => j = k
    BY <1>10, <1>12
  <2> QED
    BY <2>1, <2>2, <2>3 DEF SeesText
<1>14. DecodeRowSees(t, query, prefix, TRUE, i, text)
  BY <1>13 DEF DecodeRowSees, mask, Key, Position, n, c
<1>15. text = (committed \o SubSeq(query, 1, prefix)) \o Masks(Block - 1)
  BY <1>6 DEF text, before
<1> QED
  BY <1>6, <1>14, <1>15 DEF n, prefix

------------------------------------------------------------------------------
(* The prefill graph *)

\* The keys and positions of PrefillSeesPrompt.
Fused == Len(update) + Block <= PrefillLen
Offset == RowOffset(PrefillLen, Len(update))
PrefillToken(r) ==
  IF Fused /\ r < Block THEN WindowInput(update)[r + 1]
  ELSE IF r < Offset THEN NoRow ELSE update[r - Offset + 1]
PrefillKey(j) == PrefillToken(j - CurrentStart(PrefillLen))
PrefillKeyPosition(j) ==
  PrefillPosition(PrefillLen, Len(update), Fused, j - CurrentStart(PrefillLen))
PrefillRowSees(i, seen) ==
  SeesText(PrefillMask(PrefillLen, Len(update), Fused, i), PrefillKey, PrefillKeyPosition,
           seen)

LEMMA SeedingPrompt ==
  ASSUME KvInv, phase = "seed", Len(update) <= PrefillLen
  PROVE  /\ update \in Seq(Row) /\ update # <<>>
         /\ Len(update) \in Nat /\ Len(update) >= 1
         /\ PrefillLen \in Nat /\ CacheLen \in Nat /\ PrefillLen <= CacheLen
         /\ Block \in Nat /\ Block >= 1
         /\ Offset = PrefillLen - Len(update) /\ Offset \in Nat
         /\ CurrentStart(PrefillLen) = CacheLen - PrefillLen
<1>1. update \in Seq(Row) /\ Len(update) \in 1 .. CacheLen
  BY DEF KvInv, TypeOK, SeedProgress
<1>2. PrefillLen \in 1 .. CacheLen /\ CacheLen \in Nat /\ Block \in Nat \ {0}
  BY GraphAssumption, RingAssumption
<1>3. PrefillLen \in Nat /\ PrefillLen <= CacheLen /\ Len(update) \in Nat /\ Len(update) >= 1
  BY <1>1, <1>2
<1>4. update # <<>>
  BY <1>3
<1>5. Offset = PrefillLen - Len(update) /\ Offset \in Nat
  BY <1>3 DEF Offset, RowOffset
<1> QED
  BY <1>1, <1>2, <1>3, <1>4, <1>5 DEF CurrentStart

\* A row of the prompt sees the prompt up to itself.
LEMMA PromptRowSees ==
  ASSUME KvInv, phase = "seed", Len(update) <= PrefillLen,
         NEW i \in Offset .. PrefillLen - 1
  PROVE  PrefillRowSees(i, SubSeq(update, 1, i - Offset + 1))
<1> DEFINE n == Len(update)
           base == CurrentStart(PrefillLen)
           text == SubSeq(update, 1, i - Offset + 1)
           mask == PrefillMask(PrefillLen, n, Fused, i)
<1>1. /\ update \in Seq(Row) /\ n \in Nat /\ PrefillLen \in Nat /\ CacheLen \in Nat
      /\ Block \in Nat /\ Offset = PrefillLen - n /\ Offset \in Nat
      /\ base \in Nat /\ base + PrefillLen = CacheLen
      /\ i \in Nat /\ Offset <= i /\ i < PrefillLen
      /\ (Fused => Block <= Offset)
  BY SeedingPrompt DEF Fused
<1>2. /\ Len(text) = i - Offset + 1
      /\ \A k \in 1 .. i - Offset + 1 : text[k] = update[k]
  BY <1>1
<1>3. mask = {j \in 0 .. CacheLen - 1 : base + Offset <= j /\ j < base + i + 1}
  <2>1. ~(Fused /\ i < Block) /\ ~(i < RowOffset(PrefillLen, n))
    BY <1>1 DEF Offset
  <2> QED
    BY <2>1 DEF PrefillMask, Columns, Offset
<1> HIDE DEF text, mask, base, n
<1>4. ASSUME NEW j \in mask
      PROVE  /\ j \in Nat /\ PrefillKeyPosition(j) = j - base - Offset
             /\ j - base - Offset + 1 \in 1 .. i - Offset + 1
             /\ PrefillKey(j) = text[j - base - Offset + 1]
  <2>1. j \in Nat /\ base + Offset <= j /\ j < base + i + 1
    BY <1>1, <1>3, <1>4
  <2>2. /\ ~(Fused /\ j - base < Block) /\ ~(j - base < Offset)
        /\ j - base - Offset + 1 \in 1 .. i - Offset + 1
    BY <1>1, <2>1
  <2>3. PrefillKeyPosition(j) = j - base - Offset
    BY <2>2 DEF PrefillKeyPosition, PrefillPosition, Offset, base
  <2>4. PrefillKey(j) = update[j - base - Offset + 1]
    BY <2>2 DEF PrefillKey, PrefillToken, base
  <2> QED
    BY <1>2, <2>1, <2>2, <2>3, <2>4
<1>5. \A k \in 1 .. Len(text) : base + Offset + k - 1 \in mask
  BY <1>1, <1>2, <1>3
<1>6. SeesText(mask, PrefillKey, PrefillKeyPosition, text)
  <2>1. \A j \in mask : /\ PrefillKeyPosition(j) + 1 \in 1 .. Len(text)
                        /\ PrefillKey(j) = text[PrefillKeyPosition(j) + 1]
    BY <1>2, <1>4
  <2>2. ASSUME NEW k \in 1 .. Len(text)
        PROVE  \E j \in mask : PrefillKeyPosition(j) + 1 = k
    <3> DEFINE j == base + Offset + k - 1
    <3>1. j \in mask
      BY <1>5
    <3>2. PrefillKeyPosition(j) = j - base - Offset
      BY <1>4, <3>1
    <3>3. j - base - Offset + 1 = k
      BY <1>1, <1>2
    <3> HIDE DEF j
    <3> QED
      BY <3>1, <3>2, <3>3
  <2>3. \A j, k \in mask : PrefillKeyPosition(j) = PrefillKeyPosition(k) => j = k
    BY <1>1, <1>4
  <2> QED
    BY <2>1, <2>2, <2>3 DEF SeesText
<1> QED
  BY <1>6 DEF PrefillRowSees, mask, text, n

\* A row of the fused window sees the prompt and the window, as in a PBD graph.
LEMMA FusedRowSees ==
  ASSUME KvInv, phase = "seed", Len(update) <= PrefillLen, Fused,
         NEW i \in 0 .. Block - 1
  PROVE  PrefillRowSees(i, update \o Masks(Block - 1))
<1> DEFINE n == Len(update)
           base == CurrentStart(PrefillLen)
           window == WindowInput(update)
           text == update \o Masks(Block - 1)
           mask == PrefillMask(PrefillLen, n, Fused, i)
<1>1. /\ update \in Seq(Row) /\ update # <<>> /\ n \in Nat /\ n >= 1 /\ PrefillLen \in Nat
      /\ CacheLen \in Nat /\ Block \in Nat /\ Block >= 1
      /\ Offset = PrefillLen - n /\ Offset \in Nat
      /\ base \in Nat /\ base + PrefillLen = CacheLen
      /\ i \in Nat /\ i < Block /\ Block <= Offset
  BY SeedingPrompt DEF Fused
<1>2. /\ Len(window) = Block /\ window[1] = update[n]
      /\ \A k \in 2 .. Block : window[k] = MaskToken
      /\ Masks(Block - 1) \in Seq(Token) /\ Len(Masks(Block - 1)) = Block - 1
      /\ \A k \in 1 .. Block - 1 : Masks(Block - 1)[k] = MaskToken
  BY <1>1, WindowTokens
<1> HIDE DEF window
<1>3. /\ Len(text) = n + (Block - 1)
      /\ \A k \in 1 .. n : text[k] = update[k]
      /\ \A k \in 1 .. Block - 1 : text[n + k] = MaskToken
  <2> DEFINE masks == Masks(Block - 1)
  <2>1. /\ masks \in Seq(Token) /\ Len(masks) = Block - 1
        /\ \A k \in 1 .. Block - 1 : masks[k] = MaskToken
    BY <1>2
  <2> HIDE DEF masks
  <2>2. update \in Seq(Token)
    BY <1>1 DEF Token
  <2>3. /\ Len(update \o masks) = Len(update) + Len(masks)
        /\ \A k \in 1 .. Len(update) : (update \o masks)[k] = update[k]
        /\ \A k \in 1 .. Len(masks) : (update \o masks)[Len(update) + k] = masks[k]
    BY <2>1, <2>2, Joined, Zenon
  <2>4. text = update \o masks
    BY DEF masks
  <2> HIDE DEF text
  <2> QED
    BY <2>1, <2>3, <2>4
<1>4. mask = {j \in 0 .. CacheLen - 1 : (base <= j /\ j < base + Block)
                                        \/ (base + Offset <= j /\ j < CacheLen - 1)}
  <2>1. mask = FusedMask(PrefillLen, n)
    BY <1>1 DEF PrefillMask
  <2>2. RowOffset(PrefillLen, n) = Offset
    BY DEF Offset
  <2> HIDE DEF mask
  <2> QED
    BY <2>1, <2>2 DEF FusedMask, Columns
<1> HIDE DEF text, mask, base, n
<1>5. ASSUME NEW j \in mask, j < base + Block
      PROVE  /\ j \in Nat /\ base <= j /\ PrefillKeyPosition(j) = n - 1 + (j - base)
             /\ n + (j - base) \in 1 .. n + (Block - 1)
             /\ PrefillKey(j) = text[n + (j - base)]
  <2>1. j \in Nat /\ base <= j /\ j < base + Block
    BY <1>1, <1>4, <1>5
  <2> DEFINE r == j - base
  <2>2. /\ r \in 0 .. Block - 1 /\ r < Block
        /\ n + r \in 1 .. n + (Block - 1)
    BY <1>1, <2>1
  <2> HIDE DEF r
  <2>3. PrefillKeyPosition(j) = n - 1 + r
    BY <2>2 DEF PrefillKeyPosition, PrefillPosition, base, n, r
  <2>4. PrefillKey(j) = window[r + 1]
    BY <2>2 DEF PrefillKey, PrefillToken, base, window, r
  <2>5. window[r + 1] = text[n + r]
    <3>1. CASE r = 0
      <4>1. r + 1 = 1 /\ n + r = n /\ n \in 1 .. n
        BY <1>1, <3>1
      <4> QED
        BY <1>2, <1>3, <4>1 DEF n
    <3>2. CASE r # 0
      <4>1. r \in 1 .. Block - 1 /\ r + 1 \in 2 .. Block
        BY <1>1, <2>2, <3>2
      <4> QED
        BY <1>2, <1>3, <4>1
    <3> QED
      BY <3>1, <3>2
  <2> QED
    BY <2>1, <2>2, <2>3, <2>4, <2>5 DEF r
<1>6. ASSUME NEW j \in mask, ~(j < base + Block)
      PROVE  /\ j \in Nat /\ base + Offset <= j /\ PrefillKeyPosition(j) = j - base - Offset
             /\ j - base - Offset + 1 \in 1 .. n - 1
             /\ PrefillKey(j) = text[j - base - Offset + 1]
  <2>1. j \in Nat /\ base + Offset <= j /\ j < CacheLen - 1
    BY <1>1, <1>4, <1>6
  <2>2. /\ ~(j - base < Block) /\ ~(j - base < Offset)
        /\ j - base - Offset + 1 \in 1 .. n - 1
        /\ j - base - Offset + 1 \in 1 .. n
    BY <1>1, <1>6, <2>1
  <2>3. PrefillKeyPosition(j) = j - base - Offset
    BY <2>2 DEF PrefillKeyPosition, PrefillPosition, Offset, base
  <2>4. PrefillKey(j) = update[j - base - Offset + 1]
    BY <2>2 DEF PrefillKey, PrefillToken, base
  <2> QED
    BY <1>3, <2>1, <2>2, <2>3, <2>4
<1>7. SeesText(mask, PrefillKey, PrefillKeyPosition, text)
  <2>1. ASSUME NEW j \in mask
        PROVE  /\ PrefillKeyPosition(j) + 1 \in 1 .. Len(text)
               /\ PrefillKey(j) = text[PrefillKeyPosition(j) + 1]
    <3>1. CASE j < base + Block
      <4>1. PrefillKeyPosition(j) + 1 = n + (j - base)
        BY <1>1, <1>5, <3>1
      <4> QED
        BY <1>3, <1>5, <3>1, <4>1
    <3>2. CASE ~(j < base + Block)
      <4>1. PrefillKeyPosition(j) + 1 = j - base - Offset + 1
            /\ j - base - Offset + 1 \in 1 .. n + (Block - 1)
        BY <1>1, <1>6, <3>2
      <4> QED
        BY <1>3, <1>6, <3>2, <4>1
    <3> QED
      BY <3>1, <3>2
  <2>2. ASSUME NEW k \in 1 .. Len(text)
        PROVE  \E j \in mask : PrefillKeyPosition(j) + 1 = k
    <3>1. k \in Nat /\ k >= 1 /\ k <= n + (Block - 1)
      BY <1>1, <1>3
    <3>2. CASE k < n
      <4> DEFINE j == base + Offset + k - 1
      <4>1. j \in mask /\ ~(j < base + Block) /\ j - base - Offset + 1 = k
        BY <1>1, <1>4, <3>1, <3>2
      <4> HIDE DEF j
      <4>2. PrefillKeyPosition(j) = j - base - Offset
        BY <1>6, <4>1
      <4> QED
        BY <4>1, <4>2
    <3>3. CASE k >= n
      <4> DEFINE j == base + (k - n)
      <4>1. j \in mask /\ j < base + Block /\ n - 1 + (j - base) + 1 = k
        BY <1>1, <1>4, <3>1, <3>3
      <4> HIDE DEF j
      <4>2. PrefillKeyPosition(j) = n - 1 + (j - base)
        BY <1>5, <4>1
      <4> QED
        BY <4>1, <4>2
    <3> QED
      BY <1>1, <3>1, <3>2, <3>3
  <2>3. ASSUME NEW j \in mask, NEW k \in mask, PrefillKeyPosition(j) = PrefillKeyPosition(k)
        PROVE  j = k
    <3>1. CASE j < base + Block /\ k < base + Block
      BY <1>1, <1>5, <2>3, <3>1
    <3>2. CASE ~(j < base + Block) /\ ~(k < base + Block)
      <4>1. /\ PrefillKeyPosition(j) = j - base - Offset
            /\ PrefillKeyPosition(k) = k - base - Offset
            /\ j \in Nat /\ k \in Nat
        BY <1>6, <3>2
      <4>2. base \in Nat /\ Offset \in Nat
        BY <1>1
      <4>3. j - base - Offset = k - base - Offset
        BY <2>3, <4>1, Zenon
      <4> QED
        BY <4>1, <4>2, <4>3
    <3>3. CASE j < base + Block /\ ~(k < base + Block)
      <4>1. /\ j \in Nat /\ base <= j /\ PrefillKeyPosition(j) = n - 1 + (j - base)
        BY <1>5, <3>3
      <4>2. /\ k \in Nat /\ PrefillKeyPosition(k) = k - base - Offset
            /\ k - base - Offset + 1 \in 1 .. n - 1
        BY <1>6, <3>3
      <4>3. k - base - Offset < n - 1
        BY <1>1, <4>2
      <4>4. n - 1 + (j - base) = k - base - Offset
        BY <2>3, <4>1, <4>2, Zenon
      <4>5. n - 1 + (j - base) >= n - 1
        BY <1>1, <4>1
      <4> QED
        BY <1>1, <4>1, <4>2, <4>3, <4>4, <4>5
    <3>4. CASE ~(j < base + Block) /\ k < base + Block
      <4>1. /\ k \in Nat /\ base <= k /\ PrefillKeyPosition(k) = n - 1 + (k - base)
        BY <1>5, <3>4
      <4>2. /\ j \in Nat /\ PrefillKeyPosition(j) = j - base - Offset
            /\ j - base - Offset + 1 \in 1 .. n - 1
        BY <1>6, <3>4
      <4>3. j - base - Offset < n - 1
        BY <1>1, <4>2
      <4>4. n - 1 + (k - base) = j - base - Offset
        BY <2>3, <4>1, <4>2, Zenon
      <4>5. n - 1 + (k - base) >= n - 1
        BY <1>1, <4>1
      <4> QED
        BY <1>1, <4>1, <4>2, <4>3, <4>4, <4>5
    <3> QED
      BY <3>1, <3>2, <3>3, <3>4
  <2> QED
    BY <2>1, <2>2, <2>3 DEF SeesText
<1> QED
  BY <1>7 DEF PrefillRowSees, mask, text, n

------------------------------------------------------------------------------
\* An autoregressive graph sees the text, whatever ring, history and query
\* (attention_mask.cpp:98).
THEOREM ArSeesText == Spec => []ArGraphSeesText
<1>1. KvInv => ArGraphSeesText
  <2> SUFFICES ASSUME KvInv, phase = "ready", NEW t \in Tensors,
                      NEW query \in Updates(MaxQuery), Launchable(Len(query)),
                      NEW i \in 0 .. Len(query) - 1
               PROVE  DecodeRowSees(t, query, 0, FALSE, i,
                                    committed \o SubSeq(query, 1, i + 1))
    BY DEF ArGraphSeesText, CausalRowsSeeText
  <2>1. query \in Seq(Token)
    BY UpdateRows, RingAssumption DEF Token
  <2> QED
    BY <2>1, CausalRowSees
<1> QED
  BY <1>1, KvInvariant, PTL

\* A PBD graph sees the text, for every window width and every number of
\* accepted tokens before the window (attention_mask.cpp:133, language.cpp:1165).
THEOREM PbdSeesText == Spec => []PbdGraphSeesText
<1>1. KvInv => PbdGraphSeesText
  <2> SUFFICES ASSUME KvInv, phase = "ready", NEW t \in Tensors,
                      NEW accepted \in Updates(MaxQuery) \union {<<>>}, NEW query,
                      query = accepted \o WindowInput(committed \o accepted),
                      Launchable(Len(query))
               PROVE  /\ CausalRowsSeeText(t, query, Len(accepted), TRUE, Len(accepted))
                      /\ WindowRowsSeeText(t, query, Len(accepted))
    BY DEF PbdGraphSeesText
  <2>1. accepted \in Seq(Row) /\ Len(accepted) \in Nat
    <3>1. CASE accepted = <<>>
      BY <3>1
    <3>2. CASE accepted \in Updates(MaxQuery)
      BY <3>2, UpdateRows, RingAssumption
    <3> QED
      BY <3>1, <3>2
  <2>2. Block \in Nat /\ Block >= 1
    BY GraphAssumption
  <2>3. \A i \in Len(accepted) .. Len(query) - 1 :
          /\ query \in Seq(Token) /\ Len(query) = Len(accepted) + Block
          /\ DecodeRowSees(t, query, Len(accepted), TRUE, i,
                committed \o SubSeq(query, 1, Len(accepted)) \o Masks(Block - 1))
    BY <2>1, WindowRowSees
  <2>4. WindowRowsSeeText(t, query, Len(accepted))
    BY <2>3 DEF WindowRowsSeeText
  <2>5. query \in Seq(Token) /\ Len(query) = Len(accepted) + Block
    BY <2>1, WindowLength
  <2>6. ASSUME NEW i \in 0 .. Len(accepted) - 1
        PROVE  DecodeRowSees(t, query, Len(accepted), TRUE, i,
                             committed \o SubSeq(query, 1, i + 1))
    <3>1. i \in 0 .. Len(query) - 1 /\ i < Len(accepted) /\ Len(accepted) + Block = Len(query)
      BY <2>1, <2>2, <2>5
    <3> QED
      BY <2>1, <2>5, <3>1, CausalRowSees
  <2> QED
    BY <2>4, <2>6 DEF CausalRowsSeeText
<1> QED
  BY <1>1, KvInvariant, PTL

\* The prefill graph sees the prompt, with and without a fused window, for every
\* prompt that fits (language.cpp:577).
THEOREM PrefillRowsSeePrompt == Spec => []PrefillSeesPrompt
<1>1. KvInv => PrefillSeesPrompt
  <2> SUFFICES ASSUME KvInv, phase = "seed", Len(update) <= PrefillLen
               PROVE  /\ \A i \in Offset .. PrefillLen - 1 :
                           PrefillRowSees(i, SubSeq(update, 1, i - Offset + 1))
                      /\ Fused => \A i \in 0 .. Block - 1 :
                           PrefillRowSees(i, update \o Masks(Block - 1))
    BY DEF PrefillSeesPrompt, PrefillRowSees, PrefillKey, PrefillKeyPosition, PrefillToken,
           Fused, Offset
  <2> QED
    BY PromptRowSees, FusedRowSees
<1> QED
  BY <1>1, KvInvariant, PTL
==============================================================================
