----------------------------- MODULE LimineCache -----------------------------
(***************************************************************************)
(* Lemmas about the device layer of limine-binary/limine.c, for every      *)
(* device, block size, plan and number of failing calls of stdio: the      *)
(* cache of one block never loses or invents a byte, and the log can       *)
(* restore what was overwritten.  The invariant of an install and of its   *)
(* undoing, which LimineProofs needs, is stated here.                      *)
(***************************************************************************)
EXTENDS LimineDevice, TLAPS

Devices == [disk : [Cells -> Nat], cache : [0 .. block_size - 1 -> Nat],
            cached_block : {None} \cup 0 .. NBlocks - 1, dirty : BOOLEAN]

\* What the device will hold of a cell once the cache is flushed.
Truth(d, x) == IF d.dirty /\ x \div block_size = d.cached_block
               THEN d.cache[x % block_size] ELSE d.disk[x]

\* What is read through the cache is the truth.
Coherent(d) ==
  \A x \in Cells : x \div block_size = d.cached_block => d.cache[x % block_size] = Truth(d, x)

\* The constants.
LEMMA Sizes == /\ block_size \in Nat /\ block_size > 0 /\ NBlocks \in Nat /\ NBlocks > 0
               /\ NBlocks * block_size \in Nat /\ Original \in [Cells -> Nat]
BY DeviceAssumption DEF DeviceAssumption

\* A cell is a place in a block of the device.
LEMMA CellBlock ==
  ASSUME NEW x \in Cells
  PROVE  /\ x \in Nat /\ x \div block_size \in 0 .. NBlocks - 1 /\ x % block_size \in 0 .. block_size - 1
         /\ x = (x \div block_size) * block_size + (x % block_size)
<1>1. x \in Nat /\ x < NBlocks * block_size
  BY Sizes DEF Cells
<1> DEFINE q == x \div block_size
           r == x % block_size
<1>2. q \in Nat /\ r \in 0 .. block_size - 1 /\ x = q * block_size + r
  BY <1>1, Sizes
<1> HIDE DEF q, r
<1>3. ASSUME q >= NBlocks PROVE FALSE
  <2>1. q * block_size >= NBlocks * block_size
    BY <1>2, <1>3, Sizes
  <2>2. QED
    BY <1>1, <1>2, <2>1, Sizes
<1>4. QED
  BY <1>1, <1>2, <1>3, Sizes DEF q, r

\* The cells behind x in its block.
LEMMA SameBlock ==
  ASSUME NEW x \in Cells, NEW k \in Nat, (x % block_size) + k < block_size
  PROVE  /\ x + k \in Cells /\ (x + k) \div block_size = x \div block_size
         /\ (x + k) % block_size = (x % block_size) + k
<1> DEFINE q == x \div block_size
           r == x % block_size
<1>1. q \in 0 .. NBlocks - 1 /\ r \in 0 .. block_size - 1 /\ x = q * block_size + r /\ x \in Nat
  BY CellBlock
<1>2. r + k < block_size
  OBVIOUS
<1> HIDE DEF q, r
<1>3. x + k = q * block_size + (r + k) /\ r + k \in 0 .. block_size - 1
  BY <1>1, <1>2, Sizes
<1>4. (q + 1) * block_size <= NBlocks * block_size
  BY <1>1, Sizes
<1>5. (q + 1) * block_size = q * block_size + block_size
  BY <1>1, Sizes
<1>6. x + k \in Cells
  BY <1>1, <1>3, <1>4, <1>5, Sizes DEF Cells
<1>7. (x + k) \div block_size = q /\ (x + k) % block_size = r + k
  BY <1>1, <1>3, Sizes
<1>8. QED
  BY <1>6, <1>7 DEF q, r

\* Cells of one block differ as their places in it do.
LEMMA OffsetsDiffer ==
  ASSUME NEW x \in Cells, NEW y \in Cells, x \div block_size = y \div block_size
  PROVE  x - y = (x % block_size) - (y % block_size)
<1> DEFINE q == y \div block_size
           r == x % block_size
           s == y % block_size
<1>1. x = q * block_size + r /\ y = q * block_size + s
  BY CellBlock
<1>2. q \in Nat /\ r \in Nat /\ s \in Nat
  BY CellBlock, Sizes
<1> HIDE DEF q, r, s
<1>3. q * block_size \in Nat
  BY <1>2, Sizes
<1>4. QED
  BY <1>1, <1>2, <1>3 DEF r, s

\* Blocks are read and written whole.
LEMMA BlockIs ==
  ASSUME NEW d \in Devices, NEW b \in 0 .. NBlocks - 1
  PROVE  /\ Block(d, b) \in [0 .. block_size - 1 -> Nat]
         /\ \A x \in Cells : x \div block_size = b => Block(d, b)[x % block_size] = d.disk[x]
<1>1. ASSUME NEW o \in 0 .. block_size - 1 PROVE b * block_size + o \in Cells
  <2>1. (b + 1) * block_size <= NBlocks * block_size
    BY Sizes
  <2>2. (b + 1) * block_size = b * block_size + block_size /\ b * block_size \in Nat
    BY Sizes
  <2>3. QED
    BY <2>1, <2>2, Sizes DEF Cells
<1>2. d.disk \in [Cells -> Nat]
  BY DEF Devices
<1>3. QED
  BY <1>1, <1>2, CellBlock, Zenon DEF Block

\* What a call of stdio yields.
Outcome(o) == o.ok \in BOOLEAN /\ o.dev \in Devices

\* device_flush_cache keeps the truth; each cell of the disk keeps its value or gets the
\* true one, and success means that it is the true one.
LEMMA Flushed ==
  ASSUME NEW d \in Devices, NEW o \in device_flush_cache(d)
  PROVE  /\ Outcome(o) /\ o.dev.cache = d.cache /\ o.dev.cached_block = d.cached_block
         /\ \A x \in Cells : Truth(o.dev, x) = Truth(d, x) /\ o.dev.disk[x] \in {d.disk[x], Truth(d, x)}
         /\ o.ok => ~o.dev.dirty /\ \A x \in Cells : o.dev.disk[x] = Truth(d, x)
<1>1. CASE ~d.dirty
  <2>1. o = [ok |-> TRUE, dev |-> d]
    BY <1>1 DEF device_flush_cache, Success
  <2>2. QED
    BY <1>1, <2>1 DEF Outcome, Truth
<1>2. CASE d.dirty
  <2>1. ASSUME NEW k \in 0 .. block_size
        PROVE  /\ Stored(d, k) \in [Cells -> Nat]
               /\ \A x \in Cells : /\ Stored(d, k)[x] \in {d.disk[x], Truth(d, x)}
                                   /\ x \div block_size # d.cached_block => Stored(d, k)[x] = d.disk[x]
                                   /\ k = block_size => Stored(d, k)[x] = Truth(d, x)
    <3>1. d.disk \in [Cells -> Nat] /\ d.cache \in [0 .. block_size - 1 -> Nat]
      BY DEF Devices
    <3>2. ASSUME NEW x \in Cells
          PROVE  /\ x % block_size \in 0 .. block_size - 1 /\ x % block_size < block_size
      BY CellBlock, Sizes
    <3>3. QED
      BY <1>2, <3>1, <3>2, Sizes, SMTT(30) DEF Stored, Truth
  <2>2. CASE o = [ok |-> TRUE, dev |-> [d EXCEPT !.disk = Stored(d, block_size), !.dirty = FALSE]]
    <3>1. Stored(d, block_size) \in [Cells -> Nat] /\ \A x \in Cells : Stored(d, block_size)[x] = Truth(d, x)
      BY <2>1, Sizes
    <3>2. o.ok = TRUE /\ o.dev = [d EXCEPT !.disk = Stored(d, block_size), !.dirty = FALSE]
      BY <2>2
    <3>3. /\ o.dev \in Devices /\ o.dev.disk = Stored(d, block_size) /\ o.dev.dirty = FALSE
          /\ o.dev.cache = d.cache /\ o.dev.cached_block = d.cached_block
      BY <3>1, <3>2, ZenonT(30) DEF Devices
    <3>4. QED
      BY <3>1, <3>2, <3>3, ZenonT(30) DEF Outcome, Truth
  <2>3. ASSUME NEW k \in 0 .. block_size - 1, o = [ok |-> FALSE, dev |-> [d EXCEPT !.disk = Stored(d, k)]]
        PROVE  /\ Outcome(o) /\ o.dev.cache = d.cache /\ o.dev.cached_block = d.cached_block /\ o.ok = FALSE
               /\ \A x \in Cells : Truth(o.dev, x) = Truth(d, x) /\ o.dev.disk[x] \in {d.disk[x], Truth(d, x)}
    <3>1. /\ Stored(d, k) \in [Cells -> Nat]
          /\ \A x \in Cells : /\ Stored(d, k)[x] \in {d.disk[x], Truth(d, x)}
                              /\ x \div block_size # d.cached_block => Stored(d, k)[x] = d.disk[x]
      BY <2>1, Sizes
    <3>2. o.ok = FALSE /\ o.dev = [d EXCEPT !.disk = Stored(d, k)]
      BY <2>3
    <3>3. /\ o.dev \in Devices /\ o.dev.disk = Stored(d, k) /\ o.dev.dirty = d.dirty
          /\ o.dev.cache = d.cache /\ o.dev.cached_block = d.cached_block
      BY <3>1, <3>2, Zenon DEF Devices
    <3>4. QED
      BY <3>1, <3>2, <3>3, Zenon DEF Outcome, Truth
  <2>4. \/ o = [ok |-> TRUE, dev |-> [d EXCEPT !.disk = Stored(d, block_size), !.dirty = FALSE]]
        \/ \E k \in 0 .. block_size - 1 : o = [ok |-> FALSE, dev |-> [d EXCEPT !.disk = Stored(d, k)]]
    BY <1>2 DEF device_flush_cache, Success, Failure
  <2>5. QED
    BY <2>2, <2>3, <2>4, Zenon
<1>3. QED
  BY <1>1, <1>2

\* FillCache on a clean cache: the truth, which is on the disk, stays; success makes the
\* cache coherent, and failure leaves the disk as it was.
LEMMA Filled ==
  ASSUME NEW d \in Devices, ~d.dirty, NEW b \in 0 .. NBlocks - 1, NEW o \in FillCache(d, b)
  PROVE  /\ Outcome(o) /\ o.dev.disk = d.disk /\ ~o.dev.dirty
         /\ o.ok => o.dev.cached_block = b /\ Coherent(o.dev)
         /\ ~o.ok => o.dev.cached_block = d.cached_block
<1>1. /\ Block(d, b) \in [0 .. block_size - 1 -> Nat]
      /\ \A x \in Cells : x \div block_size = b => Block(d, b)[x % block_size] = d.disk[x]
  BY BlockIs
<1>2. CASE o = [ok |-> TRUE, dev |-> [d EXCEPT !.cache = Block(d, b), !.cached_block = b]]
  <2>1. o.ok = TRUE /\ o.dev = [d EXCEPT !.cache = Block(d, b), !.cached_block = b]
    BY <1>2
  <2>2. /\ o.dev \in Devices /\ o.dev.disk = d.disk /\ o.dev.dirty = d.dirty
        /\ o.dev.cache = Block(d, b) /\ o.dev.cached_block = b
    BY <1>1, <2>1, Zenon DEF Devices
  <2>3. QED
    BY <1>1, <2>1, <2>2, Zenon DEF Outcome, Coherent, Truth
<1>3. ASSUME NEW k \in 0 .. block_size - 1,
             o = [ok |-> FALSE, dev |-> [d EXCEPT !.cache =
                     [p \in DOMAIN @ |-> IF p < k THEN Block(d, b)[p] ELSE @[p]]]]
      PROVE  Outcome(o) /\ o.dev.disk = d.disk /\ o.dev.dirty = d.dirty /\ o.ok = FALSE
             /\ o.dev.cached_block = d.cached_block
  <2> DEFINE half == [p \in DOMAIN d.cache |-> IF p < k THEN Block(d, b)[p] ELSE d.cache[p]]
  <2>1. half \in [0 .. block_size - 1 -> Nat]
    BY <1>1, Zenon DEF Devices
  <2>2. o.ok = FALSE /\ o.dev = [d EXCEPT !.cache = half]
    BY <1>3
  <2> HIDE DEF half
  <2>3. /\ o.dev \in Devices /\ o.dev.disk = d.disk /\ o.dev.dirty = d.dirty
        /\ o.dev.cached_block = d.cached_block
    BY <2>1, <2>2 DEF Devices
  <2>4. QED
    BY <2>2, <2>3, Zenon DEF Outcome
<1>4. \/ o = [ok |-> TRUE, dev |-> [d EXCEPT !.cache = Block(d, b), !.cached_block = b]]
      \/ \E k \in 0 .. block_size - 1 : o = [ok |-> FALSE, dev |-> [d EXCEPT !.cache =
                     [p \in DOMAIN @ |-> IF p < k THEN Block(d, b)[p] ELSE @[p]]]]
  BY Zenon DEF FillCache, Success, Failure
<1>5. QED
  BY <1>2, <1>3, <1>4, Zenon

\* device_cache_block keeps the truth.
LEMMA Cached ==
  ASSUME NEW d \in Devices, NEW b \in 0 .. NBlocks - 1, NEW o \in device_cache_block(d, b)
  PROVE  /\ Outcome(o)
         /\ \A x \in Cells : Truth(o.dev, x) = Truth(d, x) /\ o.dev.disk[x] \in {d.disk[x], Truth(d, x)}
         /\ o.ok => /\ o.dev.cached_block = b
                    /\ d.cached_block = b => o.dev = d
                    /\ d.cached_block # b \/ Coherent(d) => Coherent(o.dev)
         /\ ~o.ok => /\ d.cached_block # b /\ o.dev.cached_block = d.cached_block
                     /\ o.dev.dirty => o.dev.cache = d.cache
<1>1. CASE d.cached_block = b
  <2>1. o = [ok |-> TRUE, dev |-> d]
    BY <1>1 DEF device_cache_block, Success
  <2>2. QED
    BY <1>1, <2>1 DEF Outcome
<1>2. CASE d.cached_block # b
  <2>1. PICK f \in device_flush_cache(d) : o \in IF f.ok THEN FillCache(f.dev, b) ELSE {f}
    BY <1>2, Zenon DEF device_cache_block
  <2>2. /\ Outcome(f) /\ f.dev.cache = d.cache /\ f.dev.cached_block = d.cached_block
        /\ \A x \in Cells : Truth(f.dev, x) = Truth(d, x) /\ f.dev.disk[x] \in {d.disk[x], Truth(d, x)}
        /\ f.ok => ~f.dev.dirty /\ \A x \in Cells : f.dev.disk[x] = Truth(d, x)
    BY Flushed
  <2>3. CASE ~f.ok
    <3>1. o = f
      BY <2>1, <2>3
    <3>2. QED
      BY <1>2, <2>2, <2>3, <3>1
  <2>4. CASE f.ok
    <3>1. o \in FillCache(f.dev, b) /\ f.dev \in Devices /\ ~f.dev.dirty
      BY <2>1, <2>2, <2>4 DEF Outcome
    <3>2. /\ Outcome(o) /\ o.dev.disk = f.dev.disk /\ ~o.dev.dirty
          /\ o.ok => o.dev.cached_block = b /\ Coherent(o.dev)
          /\ ~o.ok => o.dev.cached_block = f.dev.cached_block
      BY <3>1, Filled
    <3>3. \A x \in Cells : Truth(o.dev, x) = Truth(d, x) /\ o.dev.disk[x] = Truth(d, x)
      BY <2>2, <2>4, <3>2 DEF Truth
    <3>4. QED
      BY <1>2, <2>2, <3>2, <3>3
  <2>5. QED
    BY <2>3, <2>4
<1>3. QED
  BY <1>1, <1>2

\* A cache that is forgotten leaves the disk.
LEMMA Dropped ==
  ASSUME NEW d \in Devices
  PROVE  /\ DropCache(d) \in Devices /\ DropCache(d).disk = d.disk /\ ~DropCache(d).dirty
         /\ DropCache(d).cached_block = None
         /\ Coherent(DropCache(d)) /\ \A x \in Cells : Truth(DropCache(d), x) = d.disk[x]
<1>1. /\ DropCache(d) \in Devices /\ DropCache(d).disk = d.disk /\ DropCache(d).dirty = FALSE
      /\ DropCache(d).cached_block = None
  BY Zenon DEF DropCache, Devices
<1>2. \A x \in Cells : x \div block_size # None
  BY CellBlock, Sizes DEF None
<1>3. QED
  BY <1>1, <1>2 DEF Coherent, Truth

-----------------------------------------------------------------------------
\* A running call.
Working(c) ==
  /\ c.loc \in Nat /\ c.count \in Nat /\ c.progress \in Nat /\ c.progress < c.count
  /\ CallCells(c) \subseteq Cells /\ c.got \in Seq(Nat) /\ c.data \in Seq(Nat)

\* A chunk is a part of the block at Pos and of the call.
LEMMA ChunkIs ==
  ASSUME Working(call)
  PROVE  /\ Pos \in Cells /\ Pos = call.loc + call.progress /\ Chunk \in Nat /\ Chunk > 0
         /\ call.progress + Chunk <= call.count
         /\ (Pos % block_size) + Chunk <= block_size
         /\ \A k \in 0 .. Chunk - 1 : /\ Pos + k \in Cells /\ (Pos + k) \div block_size = Pos \div block_size
                                      /\ (Pos + k) % block_size = (Pos % block_size) + k
<1>1. Pos \in Cells /\ Pos = call.loc + call.progress
  BY SMTT(30) DEF Working, CallCells, Pos
<1>2. Pos % block_size \in 0 .. block_size - 1
  BY <1>1, CellBlock
<1> DEFINE r == Pos % block_size
<1>3. Chunk = IF call.count - call.progress < block_size - r THEN call.count - call.progress
              ELSE block_size - r
  BY DEF Chunk
<1>4. /\ Chunk \in Nat /\ Chunk > 0 /\ call.progress + Chunk <= call.count
      /\ (Pos % block_size) + Chunk <= block_size
  <2>1. r \in 0 .. block_size - 1
    BY <1>2
  <2> HIDE DEF r
  <2>2. Chunk \in Nat /\ Chunk > 0 /\ call.progress + Chunk <= call.count /\ r + Chunk <= block_size
    BY <1>3, <2>1, Sizes DEF Working
  <2>3. QED
    BY <2>2 DEF r
<1>5. ASSUME NEW k \in 0 .. Chunk - 1
      PROVE  /\ Pos + k \in Cells /\ (Pos + k) \div block_size = Pos \div block_size
             /\ (Pos + k) % block_size = (Pos % block_size) + k
  <2>1. k \in Nat /\ (Pos % block_size) + k < block_size
    BY <1>2, <1>4, Sizes
  <2>2. QED
    BY <1>1, <2>1, SameBlock
<1>6. QED
  BY <1>1, <1>4, <1>5

\* What memcpy takes out of the cache.
LEMMA ChunkRead ==
  ASSUME Working(call), NEW d \in Devices, Coherent(d), d.cached_block = Pos \div block_size
  PROVE  /\ CacheChunk(d) \in Seq(Nat) /\ Len(CacheChunk(d)) = Chunk
         /\ \A j \in 1 .. Chunk : CacheChunk(d)[j] = Truth(d, Pos + j - 1)
<1>1. /\ Pos \in Cells /\ Pos \in Nat /\ Chunk \in Nat /\ d.cache \in [0 .. block_size - 1 -> Nat]
      /\ Pos % block_size \in 0 .. block_size - 1 /\ (Pos % block_size) + Chunk <= block_size
  BY ChunkIs, CellBlock DEF Devices
<1>2. ASSUME NEW j \in 1 .. Chunk
      PROVE  /\ (Pos % block_size) + j - 1 \in 0 .. block_size - 1
             /\ d.cache[(Pos % block_size) + j - 1] = Truth(d, Pos + j - 1)
  <2>1. j - 1 \in 0 .. Chunk - 1 /\ Pos + (j - 1) = Pos + j - 1
        /\ (Pos % block_size) + (j - 1) = (Pos % block_size) + j - 1
    BY <1>1, Sizes
  <2>2. /\ Pos + (j - 1) \in Cells /\ (Pos + (j - 1)) \div block_size = Pos \div block_size
        /\ (Pos + (j - 1)) % block_size = (Pos % block_size) + (j - 1)
    BY <2>1, ChunkIs
  <2>3. (Pos % block_size) + j - 1 \in 0 .. block_size - 1
    BY <1>1, Sizes
  <2>4. QED
    BY <2>1, <2>2, <2>3 DEF Coherent
<1>3. CacheChunk(d) = [j \in 1 .. Chunk |-> d.cache[(Pos % block_size) + j - 1]]
  BY DEF CacheChunk
<1>4. \A j \in 1 .. Chunk : CacheChunk(d)[j] = Truth(d, Pos + j - 1) /\ CacheChunk(d)[j] \in Nat
  BY <1>1, <1>2, <1>3, Zenon
<1>5. CacheChunk(d) \in [1 .. Chunk -> Nat]
  BY <1>3, <1>4
<1>6. QED
  BY <1>1, <1>4, <1>5

\* What memcpy puts into the cache.
LEMMA ChunkWritten ==
  ASSUME Working(call), Len(call.data) = call.count, NEW d \in Devices,
         d.cached_block = Pos \div block_size
  PROVE  /\ Written(d) \in Devices /\ Written(d).disk = d.disk /\ Written(d).dirty
         /\ Written(d).cached_block = d.cached_block
         /\ \A x \in Cells : x \div block_size = d.cached_block =>
              Written(d).cache[x % block_size] = IF x \in Pos .. Pos + Chunk - 1
                                                 THEN call.data[x - call.loc + 1] ELSE d.cache[x % block_size]
<1> DEFINE r == Pos % block_size
           new == [o \in DOMAIN d.cache |-> IF o - r \in 0 .. Chunk - 1
                                            THEN call.data[call.progress + o - r + 1] ELSE d.cache[o]]
<1>1. /\ Pos \in Cells /\ Pos \in Nat /\ Chunk \in Nat /\ d.cache \in [0 .. block_size - 1 -> Nat]
      /\ r \in 0 .. block_size - 1 /\ r + Chunk <= block_size /\ Pos = call.loc + call.progress
      /\ call.progress + Chunk <= call.count /\ call.loc \in Nat /\ call.progress \in Nat
      /\ call.count \in Nat
  BY ChunkIs, CellBlock DEF Devices, Working
<1>2. new \in [0 .. block_size - 1 -> Nat]
  <2>1. ASSUME NEW o \in 0 .. block_size - 1, o - r \in 0 .. Chunk - 1
        PROVE  call.data[call.progress + o - r + 1] \in Nat
    <3> HIDE DEF r
    <3> DEFINE p == call.progress
               m == call.count
               k == Chunk
    <3>0. p \in Nat /\ m \in Nat /\ k \in Nat /\ p + k <= m /\ r \in Nat /\ o \in Nat /\ o - r \in 0 .. k - 1
      BY <1>1, <2>1, Sizes
    <3> HIDE DEF p, m, k
    <3>1. p + o - r + 1 \in 1 .. m
      BY <3>0
    <3>2. QED
      BY <3>1, SMTT(30) DEF Working, p, m
  <2> HIDE DEF r
  <2>2. QED
    BY <1>1, <2>1, Zenon
<1>3. Written(d) = [d EXCEPT !.dirty = TRUE, !.cache = new]
  BY DEF Written
<1>4. /\ Written(d) \in Devices /\ Written(d).disk = d.disk /\ Written(d).dirty = TRUE
      /\ Written(d).cached_block = d.cached_block /\ Written(d).cache = new
  <2> HIDE DEF new, r
  <2>1. QED
    BY <1>2, <1>3, Zenon DEF Devices
<1>5. ASSUME NEW x \in Cells, x \div block_size = d.cached_block
      PROVE  new[x % block_size] = IF x \in Pos .. Pos + Chunk - 1
                                   THEN call.data[x - call.loc + 1] ELSE d.cache[x % block_size]
  <2> DEFINE s == x % block_size
  <2>1. x - Pos = s - r /\ s \in 0 .. block_size - 1 /\ x \in Nat
    BY <1>1, <1>5, OffsetsDiffer, CellBlock
  <2> DEFINE p == call.progress
             l == call.loc
             k == Chunk
  <2> HIDE DEF r, s
  <2>6. /\ x - Pos = s - r /\ s \in Nat /\ r \in Nat /\ x \in Nat /\ k \in Nat /\ Pos \in Nat
        /\ p \in Nat /\ l \in Nat /\ Pos = l + p
    BY <1>1, <2>1, Sizes
  <2> HIDE DEF p, l, k
  <2>2. s - r \in 0 .. k - 1 <=> x \in Pos .. Pos + k - 1
    BY <2>6
  <2>3. p + s - r + 1 = x - l + 1
    BY <2>6
  <2>4. new[s] = IF s - r \in 0 .. Chunk - 1 THEN call.data[call.progress + s - r + 1] ELSE d.cache[s]
    BY <1>1, <2>1, Zenon
  <2> HIDE DEF new
  <2>5. QED
    BY <2>2, <2>3, <2>4 DEF s, p, l, k
<1> HIDE DEF new, r
<1>6. QED
  BY <1>4, <1>5

\* It changes the truth of the chunk, and of no other cell if the cache was coherent.
LEMMA TruthWritten ==
  ASSUME Working(call), Len(call.data) = call.count, NEW d \in Devices, Coherent(d),
         d.cached_block = Pos \div block_size
  PROVE  /\ Coherent(Written(d))
         /\ \A x \in Cells : Truth(Written(d), x) = IF x \in Pos .. Pos + Chunk - 1
                                                    THEN call.data[x - call.loc + 1] ELSE Truth(d, x)
<1>1. /\ Written(d) \in Devices /\ Written(d).disk = d.disk /\ Written(d).dirty
      /\ Written(d).cached_block = d.cached_block
      /\ \A x \in Cells : x \div block_size = d.cached_block =>
           Written(d).cache[x % block_size] = IF x \in Pos .. Pos + Chunk - 1
                                              THEN call.data[x - call.loc + 1] ELSE d.cache[x % block_size]
  BY ChunkWritten
<1>2. \A x \in Pos .. Pos + Chunk - 1 : x \div block_size = d.cached_block
  <2> SUFFICES ASSUME NEW x \in Pos .. Pos + Chunk - 1 PROVE x \div block_size = d.cached_block
    OBVIOUS
  <2>1. Pos \in Nat /\ Chunk \in Nat
    BY ChunkIs, CellBlock
  <2>2. x - Pos \in 0 .. Chunk - 1 /\ Pos + (x - Pos) = x
    BY <2>1
  <2>3. QED
    BY <2>2, ChunkIs
<1>3. QED
  BY <1>1, <1>2 DEF Coherent, Truth

-----------------------------------------------------------------------------
Entries == [loc : Nat, data : Seq(Nat)]
EntryCells(e) == e.loc .. e.loc + Len(e.data) - 1
Covered(l, x) == \E j \in 1 .. Len(l) : x \in EntryCells(l[j])

LogOk(l) ==
  l \in Seq(Entries) /\ \A j \in 1 .. Len(l) : Len(l[j].data) > 0 /\ EntryCells(l[j]) \subseteq Cells

\* The oldest entry for a cell has its first value; in the order of the replay it is the
\* latest.
OldestFirst(l) ==
  \A j \in 1 .. Len(l) : \A x \in EntryCells(l[j]) :
    (\A k \in 1 .. j - 1 : x \notin EntryCells(l[k])) => l[j].data[x - l[j].loc + 1] = Original[x]
OldestLast(l) ==
  \A j \in 1 .. Len(l) : \A x \in EntryCells(l[j]) :
    (\A k \in j + 1 .. Len(l) : x \notin EntryCells(l[k])) => l[j].data[x - l[j].loc + 1] = Original[x]

Runs == [pc : {"install", "undo", "recover", "exit"}, mode : {"install", "uninstall"},
         ok : BOOLEAN, i : Nat \ {0}, retry : BOOLEAN, bad : BOOLEAN]
AllNames == {"none"} \cup UNION {{p[j].name : j \in DOMAIN p} : p \in Plans}
Running == [loc : Nat, count : Nat, progress : Nat, got : Seq(Nat), name : AllNames,
            phase : {"none", "read", "save", "write"}, data : Seq(Nat)]

Types ==
  /\ dev \in Devices /\ plan \in Plans /\ run \in Runs /\ call \in Running
  /\ LogOk(log) /\ LogOk(uninstall_file) /\ torn \subseteq Cells
  /\ Idle \/ Working(call)
  /\ call.phase \in {"save", "write"} => Len(call.data) = call.count
  /\ run.pc = "install" => run.mode = "install" /\ torn = {} /\ uninstall_file = NoFile
  /\ run.pc = "undo" => call.phase \in {"none", "write"}
  /\ run.pc \in {"recover", "exit"} => Idle

\* Where bios_install is in its plan.
Done == Len(plan) - Len(todo)
DataOf(c) == IF c.kind = "write" /\ c.data = <<>> THEN buf[c.name] ELSE c.data
Names == {plan[j].name : j \in DOMAIN plan}

InPlan ==
  /\ todo \in Seq(Calls) /\ Len(todo) <= Len(plan)
  /\ \A j \in 1 .. Len(todo) : todo[j] = plan[Done + j]
  /\ buf \in [Names -> Seq(Nat)]
  /\ \A k \in 1 .. Done : plan[k].kind = "read" => Len(buf[plan[k].name]) = plan[k].count
  /\ run.pc = "install" /\ ~Idle =>
       /\ todo # <<>> /\ call.loc = todo[1].loc /\ call.count = todo[1].count
       /\ call.name = todo[1].name /\ call.data = DataOf(todo[1])
       /\ call.phase = "read" <=> todo[1].kind = "read"

\* During an install the cells that no entry of the log has, nor the write that is
\* running, are as they were, in the cache and below it; and the log would restore the
\* others.
Installing == run.pc = "install" =>
  /\ Coherent(dev) /\ OldestFirst(log)
  /\ \A x \in Cells : ~Covered(log, x) /\ ~(call.phase = "write" /\ x \in CallCells(call)) =>
       dev.disk[x] = Original[x] /\ Truth(dev, x) = Original[x]
  /\ call.phase \in {"read", "save"} => Len(call.got) = call.progress
  /\ call.phase = "write" => Len(call.got) = call.count
  /\ call.phase \in {"save", "write"} => \A j \in 1 .. Len(call.got) :
       ~Covered(log, call.loc + j - 1) => call.got[j] = Original[call.loc + j - 1]

Installed == run.pc = "exit" /\ run.mode = "install" /\ run.ok /\ uninstall_file # NoFile =>
  /\ torn = {} /\ OldestLast(uninstall_file)
  /\ \A x \in Cells : ~Covered(uninstall_file, x) => dev.disk[x] = Original[x]

\* During a replay without an error the cells that no entry to come has are right.
Undoing == run.pc \in {"undo", "recover"} =>
  /\ OldestLast(log)
  /\ run.pc = "recover" => run.i <= Len(log)
  /\ call.phase = "write" => /\ run.i <= Len(log) /\ call.loc = log[run.i].loc
                             /\ call.data = log[run.i].data
  /\ ~run.bad =>
       /\ run.pc = "undo" => Coherent(dev)
       /\ \A x \in Cells \ torn : (\A j \in run.i .. Len(log) : x \notin EntryCells(log[j])) =>
            Truth(dev, x) = Original[x]
       /\ call.phase = "write" => \A x \in call.loc .. call.loc + call.progress - 1 :
            Truth(dev, x) = call.data[x - call.loc + 1]

UndoInv == Types /\ InPlan /\ Installing /\ Installed /\ Undoing /\ UndoRestores


\* reverse_uninstall_data brings the log into the order of the replay.
LEMMA Reversed ==
  ASSUME NEW l, LogOk(l)
  PROVE  /\ LogOk(reverse_uninstall_data(l)) /\ \A x : Covered(reverse_uninstall_data(l), x) <=> Covered(l, x)
         /\ OldestFirst(l) => OldestLast(reverse_uninstall_data(l))
<1> DEFINE N == Len(l)
           v == reverse_uninstall_data(l)
<1>1. l \in Seq(Entries) /\ N \in Nat
  BY DEF LogOk
<1>2. v \in Seq(Entries) /\ Len(v) = N /\ \A j \in 1 .. N : v[j] = l[N + 1 - j]
  BY <1>1 DEF reverse_uninstall_data
<1> HIDE DEF v
<1>3. \A j \in 1 .. N : N + 1 - j \in 1 .. N /\ v[N + 1 - j] = l[j]
  <2> SUFFICES ASSUME NEW j \in 1 .. N PROVE N + 1 - j \in 1 .. N /\ v[N + 1 - j] = l[j]
    OBVIOUS
  <2>1. N + 1 - j \in 1 .. N /\ N + 1 - (N + 1 - j) = j
    BY <1>1
  <2>2. QED
    BY <1>2, <2>1
<1>4. LogOk(v)
  BY <1>2, <1>3, Zenon DEF LogOk
<1>5. ASSUME NEW x PROVE Covered(v, x) <=> Covered(l, x)
  BY <1>2, <1>3 DEF Covered
<1>6. ASSUME OldestFirst(l) PROVE OldestLast(v)
  <2> SUFFICES ASSUME NEW j \in 1 .. N, NEW x \in EntryCells(v[j]),
                      \A k \in j + 1 .. N : x \notin EntryCells(v[k])
               PROVE  v[j].data[x - v[j].loc + 1] = Original[x]
    BY <1>2 DEF OldestLast
  <2> DEFINE m == N + 1 - j
  <2>1. m \in 1 .. N /\ v[j] = l[m]
    BY <1>2, <1>3
  <2>2. ASSUME NEW k \in 1 .. m - 1 PROVE x \notin EntryCells(l[k])
    <3>1. k \in 1 .. N /\ N + 1 - k \in j + 1 .. N
      BY <1>1
    <3>2. QED
      BY <1>3, <3>1
  <2> HIDE DEF m
  <2>3. QED
    BY <1>6, <2>1, <2>2 DEF OldestFirst
<1>7. QED
  BY <1>4, <1>5, <1>6 DEF v

\* An entry that holds the first values of the cells that have no entry yet.
LEMMA Appended ==
  ASSUME NEW l, LogOk(l), OldestFirst(l), NEW e \in Entries, Len(e.data) > 0, EntryCells(e) \subseteq Cells,
         \A j \in 1 .. Len(e.data) : ~Covered(l, e.loc + j - 1) => e.data[j] = Original[e.loc + j - 1]
  PROVE  /\ LogOk(Append(l, e)) /\ OldestFirst(Append(l, e))
         /\ \A x : Covered(Append(l, e), x) <=> Covered(l, x) \/ x \in EntryCells(e)
<1> DEFINE N == Len(l)
           v == Append(l, e)
<1>1. l \in Seq(Entries) /\ N \in Nat
  BY DEF LogOk
<1>2. v \in Seq(Entries) /\ Len(v) = N + 1 /\ v[N + 1] = e /\ \A j \in 1 .. N : v[j] = l[j]
  BY <1>1
<1> HIDE DEF v
<1>3. \A j \in 1 .. N + 1 : j \in 1 .. N \/ j = N + 1
  BY <1>1
<1>4. LogOk(v)
  BY <1>1, <1>2, <1>3 DEF LogOk
<1>5. ASSUME NEW x PROVE Covered(v, x) <=> Covered(l, x) \/ x \in EntryCells(e)
  <2>1. N + 1 \in 1 .. N + 1 /\ \A j \in 1 .. N : j \in 1 .. N + 1
    BY <1>1
  <2>2. QED
    BY <1>2, <1>3, <2>1 DEF Covered
<1>6. OldestFirst(v)
  <2> SUFFICES ASSUME NEW j \in 1 .. N + 1, NEW x \in EntryCells(v[j]),
                      \A k \in 1 .. j - 1 : x \notin EntryCells(v[k])
               PROVE  v[j].data[x - v[j].loc + 1] = Original[x]
    BY <1>2 DEF OldestFirst
  <2>1. CASE j \in 1 .. N
    <3>1. \A k \in 1 .. j - 1 : k \in 1 .. N /\ v[k] = l[k]
      BY <1>1, <1>2, <2>1
    <3>2. v[j] = l[j]
      BY <1>2, <2>1
    <3>3. QED
      BY <2>1, <3>1, <3>2 DEF OldestFirst
  <2>2. CASE j = N + 1
    <3>1. v[j] = e /\ \A k \in 1 .. N : x \notin EntryCells(l[k])
      BY <1>1, <1>2, <2>2
    <3>2. ~Covered(l, x)
      BY <3>1 DEF Covered
    <3>3. e.loc \in Nat /\ Len(e.data) \in Nat
      BY DEF Entries
    <3>4. x - e.loc + 1 \in 1 .. Len(e.data) /\ e.loc + (x - e.loc + 1) - 1 = x
      BY <3>1, <3>3, SMTT(30) DEF EntryCells
    <3>5. QED
      BY <3>1, <3>2, <3>4
  <2>3. QED
    BY <1>3, <2>1, <2>2
<1>7. QED
  BY <1>4, <1>5, <1>6 DEF v

\* No call is running.
LEMMA NoCallIs == NoCall \in Running /\ NoCall.phase = "none"
<1>1. <<>> \in Seq(Nat)
  OBVIOUS
<1>2. "none" \in AllNames
  BY DEF AllNames
<1>3. QED
  BY <1>1, <1>2 DEF NoCall, Running

\* The replay of a log that covers all that was changed.
LEMMA ReplayBegins ==
  ASSUME NEW d \in Devices, NEW l, NEW mode \in {"install", "uninstall"},
         BeginUndo(d, l, mode), call' \in Running, call'.phase = "none", torn' \subseteq Cells, plan' \in Plans,
         LogOk(l), OldestLast(l), LogOk(uninstall_file'),
         \A x \in Cells \ torn' : ~Covered(l, x) => d.disk[x] = Original[x]
  PROVE  Types' /\ Installing' /\ Installed' /\ Undoing' /\ UndoRestores'
<1>1. /\ dev' = DropCache(d) /\ log' = l
      /\ run' = [pc |-> "undo", mode |-> mode, ok |-> FALSE, i |-> 1, retry |-> FALSE, bad |-> FALSE]
  BY DEF BeginUndo, StartOf
<1>2. /\ run' \in Runs /\ run'.pc = "undo" /\ run'.i = 1
  BY <1>1 DEF Runs
<1>3. call' \in Running /\ call'.phase = "none"
  OBVIOUS
<1>4. /\ dev' \in Devices /\ Coherent(dev') /\ \A x \in Cells : Truth(dev', x) = d.disk[x]
  BY <1>1, Dropped
<1>5. Types'
  BY <1>1, <1>2, <1>3, <1>4, SMTT(30) DEF Types, Idle
<1>6. Undoing'
  <2>1. \A x \in Cells \ torn' : (\A j \in 1 .. Len(l) : x \notin EntryCells(l[j])) =>
          Truth(dev', x) = Original[x]
    BY <1>4, SMTT(30) DEF Covered
  <2>2. QED
    BY <1>1, <1>2, <1>3, <1>4, <2>1 DEF Undoing
<1>7. Installing' /\ Installed' /\ UndoRestores'
  BY <1>2 DEF Installing, Installed, UndoRestores, Undone, Exit
<1>8. QED
  BY <1>5, <1>6, <1>7

\* goto cleanup: the install is undone.
LEMMA FailingUndoes ==
  ASSUME Types, NEW d \in Devices, OldestFirst(log), NEW cells \in SUBSET Cells, InstallFails(d, cells),
         plan' = plan, \A x \in Cells \ cells : ~Covered(log, x) => d.disk[x] = Original[x]
  PROVE  Types' /\ Installing' /\ Installed' /\ Undoing' /\ UndoRestores'
<1> DEFINE l == reverse_uninstall_data(log)
<1>1. LogOk(l) /\ OldestLast(l) /\ \A x : Covered(l, x) <=> Covered(log, x)
  BY Reversed DEF Types
<1> HIDE DEF l
<1>2. /\ BeginUndo(d, l, "install") /\ call' = NoCall /\ torn' = cells /\ uninstall_file' = uninstall_file
  BY DEF InstallFails, l
<1>3. plan' \in Plans /\ LogOk(uninstall_file') /\ torn' \subseteq Cells
  BY <1>2 DEF Types
<1>4. \A x \in Cells \ torn' : ~Covered(l, x) => d.disk[x] = Original[x]
  BY <1>1, <1>2
<1>5. QED
  BY <1>1, <1>2, <1>3, <1>4, NoCallIs, ReplayBegins

-----------------------------------------------------------------------------
\* The plan is one of those the device can be given.
LEMMA PlanIs == ASSUME Types PROVE PlanOk(plan) /\ plan \in Seq(Calls) /\ Len(plan) \in Nat
<1>1. PlanOk(plan)
  BY DeviceAssumption DEF DeviceAssumption, Types
<1>2. QED
  BY <1>1, SMTT(30) DEF PlanOk

\* The next call is as planned, and what it writes has the length it says.
LEMMA NextCall ==
  ASSUME Types, InPlan, todo # <<>>
  PROVE  /\ Head(todo) = todo[1] /\ todo[1] \in Calls /\ CallCells(todo[1]) \subseteq Cells
         /\ todo[1].name \in Names /\ todo[1].name \in AllNames /\ DataOf(todo[1]) \in Seq(Nat)
         /\ todo[1].kind = "write" => Len(DataOf(todo[1])) = todo[1].count
         /\ Done \in Nat /\ Done + 1 \in 1 .. Len(plan) /\ todo[1] = plan[Done + 1]
<1>1. /\ todo \in Seq(Calls) /\ Len(todo) \in Nat /\ Len(todo) > 0 /\ Head(todo) = todo[1]
      /\ Len(todo) <= Len(plan) /\ PlanOk(plan) /\ plan \in Seq(Calls) /\ Len(plan) \in Nat
  BY PlanIs DEF InPlan
<1> DEFINE c == todo[1]
<1>2. Done \in Nat /\ Done + 1 \in 1 .. Len(plan) /\ c = plan[Done + 1]
  BY <1>1 DEF InPlan, Done
<1>3. c \in Calls
  BY <1>1
<1>4. CallCells(c) \subseteq Cells /\ c.name \in Names
  BY <1>1, <1>2 DEF PlanOk, Names
<1>5. c.name \in AllNames
  BY <1>4 DEF AllNames, Names, Types
<1>6. DataOf(c) \in Seq(Nat)
  BY <1>3, <1>4, SMTT(30) DEF InPlan, DataOf, Calls
<1>7. ASSUME c.kind = "write" PROVE Len(DataOf(c)) = c.count
  <2>1. \/ Len(c.data) = c.count
        \/ /\ c.data = <<>>
           /\ \E k \in 1 .. Done : plan[k].kind = "read" /\ plan[k].name = c.name /\ plan[k].count = c.count
    BY <1>1, <1>2, <1>7 DEF PlanOk
  <2>2. c.count \in Nat \ {0}
    BY <1>3 DEF Calls
  <2>3. CASE Len(c.data) = c.count
    BY <2>2, <2>3 DEF DataOf
  <2>4. CASE /\ c.data = <<>>
             /\ \E k \in 1 .. Done : plan[k].kind = "read" /\ plan[k].name = c.name /\ plan[k].count = c.count
    BY <1>7, <2>4 DEF InPlan, DataOf
  <2>5. QED
    BY <2>1, <2>3, <2>4
<1>8. QED
  BY <1>1, <1>2, <1>3, <1>4, <1>5, <1>6, <1>7

\* Steps that leave the plan and the buffers where they are.
LEMMA SamePlan ==
  ASSUME InPlan, UNCHANGED <<buf, todo, plan>>, run'.pc # "install" \/ call'.phase = "none"
  PROVE  InPlan'
<1>1. Done' = Done /\ Names' = Names
  BY DEF Done, Names
<1>2. QED
  BY <1>1 DEF InPlan, Idle

\* The first block is in the cache, and nothing has changed.
LEMMA DeviceStart == DeviceInit => UndoInv
<1> SUFFICES ASSUME DeviceInit PROVE UndoInv
  OBVIOUS
<1> DEFINE d == [disk |-> Original]
<1>1. /\ plan \in Plans /\ todo = plan /\ buf = NoBuffers(plan) /\ call = NoCall
      /\ log = <<>> /\ uninstall_file = <<>> /\ torn = {}
      /\ dev = [disk |-> Original, cache |-> Block(d, 0), cached_block |-> 0, dirty |-> FALSE]
      /\ run = [pc |-> "install", mode |-> "install", ok |-> FALSE, i |-> 1, retry |-> FALSE, bad |-> FALSE]
  BY Zenon DEF DeviceInit, StartOf, NoFile
<1>2. /\ Block(d, 0) \in [0 .. block_size - 1 -> Nat]
      /\ \A x \in Cells : x \div block_size = 0 => Block(d, 0)[x % block_size] = Original[x]
  <2> DEFINE e == [disk |-> Original, cache |-> [o \in 0 .. block_size - 1 |-> 0], cached_block |-> 0,
                   dirty |-> FALSE]
  <2>1. e \in Devices /\ e.disk = Original
    BY Sizes DEF Devices
  <2>2. Block(d, 0) = Block(e, 0)
    BY DEF Block
  <2>3. 0 \in 0 .. NBlocks - 1
    BY Sizes
  <2> HIDE DEF e
  <2>4. QED
    BY <2>1, <2>2, <2>3, BlockIs
<1> HIDE DEF d
<1>3. dev \in Devices /\ Coherent(dev) /\ dev.disk = Original /\ dev.dirty = FALSE
  BY <1>1, <1>2, Sizes DEF Devices, Coherent, Truth
<1>4. run \in Runs /\ run.pc = "install" /\ run.mode = "install"
  BY <1>1 DEF Runs
<1>5. call \in Running /\ call.phase = "none"
  BY <1>1, NoCallIs
<1>6. LogOk(log) /\ LogOk(uninstall_file) /\ OldestFirst(log) /\ Len(log) = 0
  <2>1. <<>> \in Seq(Entries) /\ Len(<<>>) = 0
    OBVIOUS
  <2>2. QED
    BY <1>1, <2>1 DEF LogOk, OldestFirst
<1>7. Types
  BY <1>1, <1>3, <1>4, <1>5, <1>6, SMTT(30) DEF Types, Idle, NoFile
<1>8. InPlan
  <2>1. plan \in Seq(Calls) /\ Len(plan) \in Nat
    BY <1>7, PlanIs
  <2>2. Done = 0
    BY <1>1, <2>1 DEF Done
  <2>3. buf \in [Names -> Seq(Nat)]
    BY <1>1 DEF NoBuffers, Names
  <2>4. QED
    BY <1>1, <1>5, <2>1, <2>2, <2>3 DEF InPlan, Idle
<1>9. Installing
  BY <1>3, <1>4, <1>5, <1>6 DEF Installing, Truth
<1>10. Installed /\ Undoing /\ UndoRestores
  BY <1>4 DEF Installed, Undoing, UndoRestores, Undone, Exit
<1>11. QED
  BY <1>7, <1>8, <1>9, <1>10 DEF UndoInv

\* What an install knows when it fails before it has written anything of the running call.
LEMMA InstallIs ==
  ASSUME UndoInv, run.pc = "install", call.phase # "write"
  PROVE  /\ Types /\ InPlan /\ dev \in Devices /\ Coherent(dev) /\ OldestFirst(log)
         /\ \A x \in Cells : ~Covered(log, x) => dev.disk[x] = Original[x] /\ Truth(dev, x) = Original[x]
BY SMTT(30) DEF UndoInv, Installing, Types

\* bios_install calls device_read or device_write.
LEMMA StartKeeps == ASSUME UndoInv, StartCall PROVE UndoInv'
<1>1. /\ run.pc = "install" /\ call.phase = "none" /\ todo # <<>> /\ plan' = plan
  BY DEF StartCall, Idle
<1>2. /\ Types /\ InPlan /\ dev \in Devices /\ Coherent(dev) /\ OldestFirst(log)
      /\ \A x \in Cells : ~Covered(log, x) => dev.disk[x] = Original[x] /\ Truth(dev, x) = Original[x]
  BY <1>1, InstallIs
<1>3. CASE InstallFails(dev, {})
  <2>1. Types' /\ Installing' /\ Installed' /\ Undoing' /\ UndoRestores'
    BY <1>1, <1>2, <1>3, FailingUndoes
  <2>2. InPlan'
    <3>1. UNCHANGED <<buf, todo, plan>> /\ call' = NoCall
      BY <1>1, <1>3 DEF InstallFails
    <3>2. QED
      BY <1>2, <3>1, NoCallIs, SamePlan
  <2>3. QED
    BY <2>1, <2>2 DEF UndoInv
<1> DEFINE c == todo[1]
<1>4. CASE /\ call' = [loc |-> c.loc, count |-> c.count, progress |-> 0, got |-> <<>>, name |-> c.name,
                       phase |-> IF c.kind = "read" THEN "read" ELSE "save", data |-> DataOf(c)]
           /\ UNCHANGED <<dev, buf, todo, log, run, uninstall_file, faults, torn>>
  <2>1. /\ c \in Calls /\ CallCells(c) \subseteq Cells /\ c.name \in AllNames /\ DataOf(c) \in Seq(Nat)
        /\ c.kind = "write" => Len(DataOf(c)) = c.count
    BY <1>1, <1>2, NextCall
  <2>2. c.loc \in Nat /\ c.count \in Nat /\ c.count > 0 /\ c.kind \in {"read", "write"}
    BY <2>1, SMTT(30) DEF Calls
  <2> HIDE DEF c
  <2>3. /\ call' \in Running /\ call'.loc = c.loc /\ call'.count = c.count /\ call'.progress = 0
        /\ call'.got = <<>> /\ call'.name = c.name /\ call'.data = DataOf(c)
        /\ call'.phase = IF c.kind = "read" THEN "read" ELSE "save"
    BY <1>4, <2>1, <2>2 DEF Running
  <2>4. Working(call')
    BY <2>1, <2>2, <2>3, SMTT(30) DEF Working, CallCells
  <2>5. Types'
    BY <1>1, <1>2, <1>4, <2>1, <2>2, <2>3, <2>4, ZenonT(30) DEF Types, Idle
  <2>6. InPlan'
    <3>1. Done' = Done /\ Names' = Names /\ DataOf(c)' = DataOf(c) /\ c' = c
      BY <1>1, <1>4, SMTT(30) DEF Done, Names, DataOf, c
    <3>2. QED
      BY <1>1, <1>2, <1>4, <2>2, <2>3, <3>1, SMTT(30) DEF InPlan, Idle, c
  <2>7. Installing'
    <3>1. Len(call'.got) = 0
      BY <2>3, SMTT(30)
    <3>2. QED
      BY <1>1, <1>2, <1>4, <2>2, <2>3, <3>1 DEF Installing
  <2>8. Installed' /\ Undoing' /\ UndoRestores'
    BY <1>1, <1>4 DEF Installed, Undoing, UndoRestores, Undone, Exit
  <2>9. QED
    BY <2>5, <2>6, <2>7, <2>8 DEF UndoInv
<1>5. Head(todo) = c
  BY <1>1, <1>2, NextCall
<1>6. QED
  BY <1>3, <1>4, <1>5, Zenon DEF StartCall, DataOf

\* A function on an interval from 1 is a sequence.
LEMMA Sequence ==
  ASSUME NEW S, NEW N \in Nat, NEW g \in [1 .. N -> S]
  PROVE  g \in Seq(S) /\ Len(g) = N
OBVIOUS

\* What the elements of a concatenation are.
LEMMA Chained ==
  ASSUME NEW S, NEW a \in Seq(S), NEW b \in Seq(S)
  PROVE  /\ a \o b \in Seq(S) /\ Len(a \o b) = Len(a) + Len(b)
         /\ \A j \in 1 .. Len(a \o b) : (a \o b)[j] = IF j <= Len(a) THEN a[j] ELSE b[j - Len(a)]
BY SMTT(30)

\* What has been read after one more chunk.
LEMMA GotIs ==
  ASSUME Working(call), Len(call.got) = call.progress, NEW d \in Devices, Coherent(d),
         d.cached_block = Pos \div block_size, NEW got, got = call.got \o CacheChunk(d)
  PROVE  /\ got \in Seq(Nat) /\ Len(got) = call.progress + Chunk
         /\ \A j \in 1 .. Len(got) : got[j] = IF j <= call.progress THEN call.got[j]
                                              ELSE Truth(d, call.loc + j - 1)
<1> DEFINE s == CacheChunk(d)
           p == call.progress
<1>1. s \in Seq(Nat) /\ Len(s) = Chunk /\ \A j \in 1 .. Chunk : s[j] = Truth(d, Pos + j - 1)
  BY ChunkRead
<1>2. /\ call.got \in Seq(Nat) /\ Len(call.got) = p /\ p \in Nat /\ call.loc \in Nat /\ Chunk \in Nat
      /\ Pos = call.loc + p /\ Pos \in Nat
  BY ChunkIs, CellBlock DEF Working
<1> HIDE DEF s, p
<1>3. got = call.got \o s
  BY DEF s
<1>4. /\ got \in Seq(Nat) /\ Len(got) = p + Chunk
      /\ \A j \in 1 .. Len(got) : got[j] = IF j <= p THEN call.got[j] ELSE s[j - p]
  <2> DEFINE a == call.got
  <2>1. a \in Seq(Nat) /\ Len(a) = p /\ s \in Seq(Nat) /\ Len(s) = Chunk /\ got = a \o s
    BY <1>1, <1>2, <1>3
  <2> HIDE DEF a
  <2>2. /\ got \in Seq(Nat) /\ Len(got) = Len(a) + Len(s)
        /\ \A j \in 1 .. Len(got) : got[j] = IF j <= Len(a) THEN a[j] ELSE s[j - Len(a)]
    BY <2>1, Chained, SMTT(30)
  <2>3. QED
    BY <2>1, <2>2, SMTT(30) DEF a
<1>5. ASSUME NEW j \in 1 .. p + Chunk, ~(j <= p) PROVE s[j - p] = Truth(d, call.loc + j - 1)
  <2>1. j - p \in 1 .. Chunk /\ Pos + (j - p) - 1 = call.loc + j - 1
    BY <1>2, <1>5
  <2>2. QED
    BY <1>1, <2>1
<1>6. QED
  BY <1>4, <1>5, SMTT(30) DEF p

\* A call is made and done.
LEMMA PlanGoesOn ==
  ASSUME Types, InPlan, todo # <<>>, todo' = Tail(todo), plan' = plan, call'.phase = "none",
         buf' \in [Names -> Seq(Nat)],
         \A k \in 1 .. Done + 1 : plan[k].kind = "read" => Len(buf'[plan[k].name]) = plan[k].count
  PROVE  InPlan'
<1>1. /\ todo \in Seq(Calls) /\ Len(todo) \in Nat /\ Len(todo) > 0 /\ Len(todo) <= Len(plan)
      /\ Len(plan) \in Nat /\ \A j \in 1 .. Len(todo) : todo[j] = plan[Done + j]
  BY PlanIs DEF InPlan
<1>2. /\ todo' \in Seq(Calls) /\ Len(todo') = Len(todo) - 1
      /\ \A j \in 1 .. Len(todo) - 1 : todo'[j] = todo[j + 1]
  BY <1>1
<1>3. Done' = Done + 1 /\ Done \in Nat /\ Names' = Names
  BY <1>1, <1>2 DEF Done, Names
<1>4. \A j \in 1 .. Len(todo') : todo'[j] = plan'[Done' + j]
  <2> SUFFICES ASSUME NEW j \in 1 .. Len(todo') PROVE todo'[j] = plan'[Done' + j]
    OBVIOUS
  <2>1. j + 1 \in 1 .. Len(todo) /\ Done' + j = Done + (j + 1) /\ j \in 1 .. Len(todo) - 1
    BY <1>1, <1>2, <1>3
  <2>2. QED
    BY <1>1, <1>2, <2>1
<1>5. QED
  BY <1>1, <1>2, <1>3, <1>4 DEF InPlan, Idle

\* A chunk is read, for bios_install or for the log.
LEMMA ReadKeeps == ASSUME UndoInv, ReadChunk PROVE UndoInv'
<1>1. call.phase \in {"read", "save"} /\ plan' = plan /\ run.pc = "install" /\ Working(call)
  BY DEF ReadChunk, UndoInv, Types, Runs, Idle
<1>2. /\ Types /\ InPlan /\ dev \in Devices /\ Coherent(dev) /\ OldestFirst(log)
      /\ \A x \in Cells : ~Covered(log, x) => dev.disk[x] = Original[x] /\ Truth(dev, x) = Original[x]
  BY <1>1, InstallIs
<1> DEFINE b == Pos \div block_size
<1>3. b \in 0 .. NBlocks - 1
  BY <1>1, ChunkIs, CellBlock
<1>4. PICK o \in device_cache_block(dev, b) :
        \/ ~o.ok /\ InstallFails(o.dev, {})
        \/ /\ o.ok /\ dev' = o.dev
           /\ LET got == call.got \o CacheChunk(o.dev)
                  done == LastChunk /\ call.phase = "read"
              IN /\ call' = IF done THEN NoCall ELSE
                     [call EXCEPT !.got = got,
                        !.progress = IF LastChunk THEN 0 ELSE @ + Chunk,
                        !.phase = IF LastChunk THEN "write" ELSE @]
                 /\ buf' = IF done THEN [buf EXCEPT ![call.name] = got] ELSE buf
                 /\ todo' = IF done THEN Tail(todo) ELSE todo
           /\ UNCHANGED <<log, run, uninstall_file, torn>>
  BY Zenon DEF ReadChunk
<1>5. /\ Outcome(o)
      /\ \A x \in Cells : Truth(o.dev, x) = Truth(dev, x) /\ o.dev.disk[x] \in {dev.disk[x], Truth(dev, x)}
      /\ o.ok => o.dev.cached_block = b /\ Coherent(o.dev)
  BY <1>2, <1>3, Cached, SMTT(30)
<1>6. \A x \in Cells : ~Covered(log, x) => o.dev.disk[x] = Original[x] /\ Truth(o.dev, x) = Original[x]
  BY <1>2, <1>5
<1>7. CASE ~o.ok /\ InstallFails(o.dev, {})
  <2>1. Types' /\ Installing' /\ Installed' /\ Undoing' /\ UndoRestores'
    BY <1>1, <1>2, <1>5, <1>6, <1>7, FailingUndoes DEF Outcome
  <2>2. UNCHANGED <<buf, todo, plan>> /\ call' = NoCall
    BY <1>1, <1>7 DEF InstallFails
  <2>3. InPlan'
    BY <1>2, <2>2, NoCallIs, SamePlan
  <2>4. QED
    BY <2>1, <2>3, SMTT(30) DEF UndoInv
<1>8. CASE o.ok
  <2> DEFINE got == call.got \o CacheChunk(o.dev)
  <2>1. dev' = o.dev /\ dev' \in Devices /\ Coherent(dev') /\ UNCHANGED <<log, run, uninstall_file, torn>>
    BY <1>4, <1>5, <1>8 DEF Outcome
  <2>2. Len(call.got) = call.progress
    BY <1>1 DEF UndoInv, Installing
  <2>3. /\ got \in Seq(Nat) /\ Len(got) = call.progress + Chunk
        /\ \A j \in 1 .. Len(got) : got[j] = IF j <= call.progress THEN call.got[j]
                                             ELSE Truth(o.dev, call.loc + j - 1)
    BY <1>1, <1>5, <1>8, <2>1, <2>2, GotIs, ZenonT(30)
  <2>4. Installed' /\ Undoing' /\ UndoRestores'
    <3>1. run'.pc # "exit" /\ run'.pc \notin {"undo", "recover"}
      BY <1>1, <2>1
    <3>2. QED
      BY <3>1, Zenon DEF Installed, Undoing, UndoRestores, Undone, Exit
  <2>5. /\ todo # <<>> /\ call.count = todo[1].count /\ call.name = todo[1].name
        /\ call.phase = "read" <=> todo[1].kind = "read"
    BY <1>1, <1>2, Zenon DEF InPlan, Idle
  <2>6. CASE LastChunk /\ call.phase = "read"
    <3>1. call' = NoCall /\ buf' = [buf EXCEPT ![call.name] = got] /\ todo' = Tail(todo)
      BY <1>4, <1>8, <2>6, Zenon
    <3>2. Len(got) = call.count
      BY <2>3, <2>6, SMTT(30) DEF LastChunk
    <3> HIDE DEF got
    <3>3. Types'
      BY <1>1, <1>2, <2>1, <3>1, NoCallIs, SMTT(30) DEF Types, Idle
    <3>4. InPlan'
      <4>1. buf \in [Names -> Seq(Nat)] /\ call.name \in Names
        BY <1>2, <2>5, NextCall, Zenon DEF InPlan
      <4>2. buf' \in [Names -> Seq(Nat)]
        BY <2>3, <3>1, <4>1, SMTT(30)
      <4>3. ASSUME NEW k \in 1 .. Done + 1, plan[k].kind = "read"
            PROVE  Len(buf'[plan[k].name]) = plan[k].count
        <5>1. /\ Done + 1 \in 1 .. Len(plan) /\ Done \in Nat /\ todo[1] = plan[Done + 1]
              /\ k \in 1 .. Len(plan) /\ DOMAIN plan = 1 .. Len(plan)
          BY <1>2, <2>5, NextCall, PlanIs
        <5>2. plan[k].name \in Names
          BY <5>1, SMTT(30) DEF Names
        <5>3. CASE plan[k].name = call.name
          <6>1. plan[k].count = plan[Done + 1].count
            <7>1. \A l, m \in DOMAIN plan : plan[l].kind = "read" /\ plan[m].kind = "read"
                                              /\ plan[l].name = plan[m].name => plan[l].count = plan[m].count
              BY <1>2, PlanIs, Zenon DEF PlanOk
            <7>2. plan[Done + 1].kind = "read" /\ plan[k].name = plan[Done + 1].name
              BY <2>5, <2>6, <5>1, <5>3, Zenon
            <7>3. QED
              BY <4>3, <5>1, <7>1, <7>2, Zenon
          <6>2. QED
            BY <2>5, <3>1, <3>2, <4>1, <5>1, <5>3, <6>1, SMTT(30)
        <5>4. CASE plan[k].name # call.name
          <6>1. k \in 1 .. Done
            BY <2>5, <5>1, <5>4, SMTT(30)
          <6>2. QED
            BY <1>2, <3>1, <4>1, <4>3, <5>2, <5>4, <6>1, Zenon DEF InPlan
        <5>5. QED
          BY <5>3, <5>4, SMTT(30)
      <4>4. QED
        BY <1>1, <1>2, <2>5, <3>1, <4>2, <4>3, NoCallIs, PlanGoesOn, ZenonT(30)
    <3>5. Installing'
      BY <1>2, <1>6, <2>1, <3>1, NoCallIs DEF Installing
    <3>6. QED
      BY <2>4, <3>3, <3>4, <3>5 DEF UndoInv
  <2>7. CASE ~(LastChunk /\ call.phase = "read")
    <3>1. /\ call' = [call EXCEPT !.got = got, !.progress = IF LastChunk THEN 0 ELSE call.progress + Chunk,
                                  !.phase = IF LastChunk THEN "write" ELSE call.phase]
          /\ UNCHANGED <<buf, todo>>
      BY <1>4, <1>8, <2>7, ZenonT(30)
    <3> HIDE DEF got
    <3>2. call \in Running /\ Chunk \in Nat /\ Chunk > 0 /\ call.progress + Chunk <= call.count
      BY <1>1, <1>2, ChunkIs, Zenon DEF Types
    <3>3. /\ call' \in Running /\ call'.got = got /\ call'.loc = call.loc /\ call'.count = call.count
          /\ call'.data = call.data /\ call'.name = call.name
          /\ call'.progress = IF LastChunk THEN 0 ELSE call.progress + Chunk
          /\ call'.phase = IF LastChunk THEN "write" ELSE call.phase
      <4> DEFINE p == IF LastChunk THEN 0 ELSE call.progress + Chunk
                 h == IF LastChunk THEN "write" ELSE call.phase
      <4>1. p \in Nat /\ h \in {"none", "read", "save", "write"}
        BY <1>1, <3>2 DEF Working
      <4>2. call' = [call EXCEPT !.got = got, !.progress = p, !.phase = h]
        BY <3>1
      <4> HIDE DEF p, h
      <4>3. /\ call' \in Running /\ call'.got = got /\ call'.loc = call.loc /\ call'.count = call.count
            /\ call'.data = call.data /\ call'.name = call.name /\ call'.progress = p /\ call'.phase = h
        BY <2>3, <3>2, <4>1, <4>2, Zenon DEF Running
      <4>4. QED
        BY <4>3 DEF p, h
    <3>4. Working(call')
      <4>1. call.count \in Nat /\ call.progress \in Nat /\ call.progress < call.count
        BY <1>1 DEF Working
      <4>2. call'.progress \in Nat /\ call'.progress < call.count
        BY <3>2, <3>3, <4>1, SMTT(30) DEF LastChunk
      <4>3. QED
        BY <1>1, <2>3, <3>3, <4>2 DEF Working, CallCells
    <3>5. Types'
      BY <1>1, <1>2, <2>1, <2>7, <3>3, <3>4 DEF Types, Idle
    <3>6. InPlan'
      <4>1. Done' = Done /\ Names' = Names /\ DataOf(todo[1])' = DataOf(todo[1])
        BY <1>1, <3>1, SMTT(30) DEF Done, Names, DataOf
      <4>2. call'.phase = "read" <=> todo[1].kind = "read"
        BY <1>1, <2>5, <2>7, <3>3, SMTT(30)
      <4>3. call.loc = todo[1].loc /\ call.data = DataOf(todo[1])
        BY <1>1, <1>2, SMTT(30) DEF InPlan, Idle
      <4>4. QED
        BY <1>1, <1>2, <2>5, <3>1, <3>3, <4>1, <4>2, <4>3 DEF InPlan
    <3>7. Installing'
      <4>1. ASSUME NEW j \in 1 .. Len(got), call.phase = "save", ~Covered(log, call.loc + j - 1)
            PROVE  got[j] = Original[call.loc + j - 1]
        <5>1. /\ call.loc \in Nat /\ call.progress \in Nat /\ j \in Nat /\ j <= call.count /\ j >= 1
              /\ call.count \in Nat
          BY <1>1, <2>3, <3>2, SMTT(30) DEF Working
        <5>2. call.loc + j - 1 \in Cells
          <6>1. call.loc + j - 1 \in CallCells(call)
            BY <5>1, SMTT(30) DEF CallCells
          <6>2. QED
            BY <1>1, <6>1 DEF Working
        <5>3. j <= call.progress => j \in 1 .. Len(call.got)
          BY <2>2, <5>1
        <5>4. CASE j <= call.progress
          BY <1>1, <2>3, <4>1, <5>3, <5>4, ZenonT(30) DEF UndoInv, Installing
        <5>5. CASE ~(j <= call.progress)
          BY <1>6, <2>3, <4>1, <5>2, <5>5, ZenonT(30)
        <5>6. QED
          BY <5>4, <5>5
      <4>2. Len(got) = IF LastChunk THEN call.count ELSE call'.progress
        BY <2>3, <3>3 DEF LastChunk
      <4>3. /\ call'.phase \in {"read", "save"} => Len(call'.got) = call'.progress
            /\ call'.phase = "write" => call.phase = "save" /\ Len(call'.got) = call'.count
            /\ call'.phase \in {"save", "write"} => call.phase = "save"
        BY <1>1, <2>7, <3>3, <4>2
      <4>4. call'.phase \in {"save", "write"} => \A j \in 1 .. Len(call'.got) :
              ~Covered(log, call'.loc + j - 1) => call'.got[j] = Original[call'.loc + j - 1]
        BY <3>3, <4>1, <4>3, ZenonT(30)
      <4>5. OldestFirst(log)
        BY <1>1 DEF UndoInv, Installing
      <4>6. QED
        BY <1>6, <2>1, <4>3, <4>4, <4>5, ZenonT(30) DEF Installing
    <3>8. QED
      BY <2>4, <3>5, <3>6, <3>7 DEF UndoInv
  <2>8. QED
    BY <2>6, <2>7
<1>9. QED
  BY <1>4, <1>7, <1>8, Zenon

\* The next chunk of the call.
LEMMA CallGoesOn ==
  ASSUME Types, Working(call), ~LastChunk, call' = [call EXCEPT !.progress = @ + Chunk]
  PROVE  /\ call' \in Running /\ call'.loc = call.loc /\ call'.count = call.count /\ call'.got = call.got
         /\ call'.data = call.data /\ call'.name = call.name /\ call'.phase = call.phase
         /\ call'.progress = call.progress + Chunk /\ Working(call')
<1>1. call \in Running /\ Chunk \in Nat /\ Chunk > 0 /\ call.progress + Chunk <= call.count
  BY ChunkIs DEF Types
<1>2. call.count \in Nat /\ call.progress \in Nat /\ call.progress < call.count
  BY DEF Working
<1>3. call.progress + Chunk \in Nat /\ call.progress + Chunk < call.count
  BY <1>1, <1>2 DEF LastChunk
<1> DEFINE p == call.progress + Chunk
<1>4. p \in Nat /\ call' = [call EXCEPT !.progress = p]
  BY <1>3
<1> HIDE DEF p
<1>5. /\ call' \in Running /\ call'.loc = call.loc /\ call'.count = call.count /\ call'.got = call.got
      /\ call'.data = call.data /\ call'.name = call.name /\ call'.phase = call.phase
      /\ call'.progress = p
  BY <1>1, <1>4, Zenon DEF Running
<1>6. Working(call')
  BY <1>3, <1>5 DEF Working, CallCells, p
<1>7. QED
  BY <1>5, <1>6 DEF p

\* A chunk of a write of the install, in the cache.
LEMMA InstallWriteKeeps ==
  ASSUME UndoInv, run.pc = "install", call.phase = "write", plan' = plan, NEW d \in Devices, Coherent(d),
         d.cached_block = Pos \div block_size, dev' = Written(d),
         \A x \in Cells : Truth(d, x) = Truth(dev, x) /\ d.disk[x] \in {dev.disk[x], Truth(dev, x)},
         UNCHANGED <<run, buf, uninstall_file, torn>>,
         \/ ~LastChunk /\ call' = [call EXCEPT !.progress = @ + Chunk] /\ UNCHANGED <<todo, log>>
         \/ /\ LastChunk /\ call' = NoCall /\ log' = Append(log, [loc |-> call.loc, data |-> call.got])
            /\ todo' = Tail(todo)
  PROVE  UndoInv'
<1>1. Types /\ InPlan /\ Installing /\ Working(call) /\ Len(call.data) = call.count
  BY DEF UndoInv, Types, Idle
<1>2. /\ dev' \in Devices /\ dev'.disk = d.disk /\ Coherent(dev')
      /\ \A x \in Cells : Truth(dev', x) = IF x \in Pos .. Pos + Chunk - 1
                                           THEN call.data[x - call.loc + 1] ELSE Truth(dev, x)
  BY <1>1, ChunkWritten, TruthWritten
<1>3. /\ Pos = call.loc + call.progress /\ Chunk \in Nat /\ call.progress + Chunk <= call.count
      /\ call.loc \in Nat /\ call.progress \in Nat /\ call.count \in Nat
  BY <1>1, ChunkIs DEF Working
<1>4. Pos .. Pos + Chunk - 1 \subseteq CallCells(call)
  BY <1>3, SMTT(30) DEF CallCells
<1>5. ASSUME NEW x \in Cells, ~Covered(log, x), x \notin CallCells(call)
      PROVE  dev'.disk[x] = Original[x] /\ Truth(dev', x) = Original[x]
  <2>1. dev.disk[x] = Original[x] /\ Truth(dev, x) = Original[x]
    BY <1>1, <1>5 DEF Installing
  <2>2. QED
    BY <1>2, <1>4, <1>5, <2>1
<1>6. Installed' /\ Undoing' /\ UndoRestores'
  BY DEF Installed, Undoing, UndoRestores, Undone, Exit
<1>7. todo # <<>> /\ todo[1].kind # "read"
  BY <1>1 DEF InPlan, Idle
<1>8. CASE ~LastChunk /\ call' = [call EXCEPT !.progress = @ + Chunk] /\ UNCHANGED <<todo, log>>
  <2>1. /\ call' \in Running /\ call'.loc = call.loc /\ call'.count = call.count /\ call'.got = call.got
        /\ call'.data = call.data /\ call'.name = call.name /\ call'.phase = call.phase
        /\ Working(call')
    BY <1>1, <1>8, CallGoesOn
  <2>2. Types'
    BY <1>1, <1>2, <1>8, <2>1 DEF Types, Idle
  <2>3. InPlan'
    <3>1. Done' = Done /\ Names' = Names /\ DataOf(todo[1])' = DataOf(todo[1])
      BY <1>8 DEF Done, Names, DataOf
    <3>2. QED
      BY <1>1, <1>8, <2>1, <3>1 DEF InPlan, Idle
  <2>4. CallCells(call)' = CallCells(call)
    BY <2>1 DEF CallCells
  <2>5. Installing'
    BY <1>1, <1>2, <1>5, <1>8, <2>1, <2>4 DEF Installing
  <2>6. QED
    BY <1>6, <2>2, <2>3, <2>5 DEF UndoInv
<1>9. CASE /\ LastChunk /\ call' = NoCall /\ log' = Append(log, [loc |-> call.loc, data |-> call.got])
           /\ todo' = Tail(todo)
  <2> DEFINE e == [loc |-> call.loc, data |-> call.got]
  <2>1. e \in Entries /\ e.loc = call.loc /\ e.data = call.got
    BY <1>1 DEF Entries, Working
  <2>2. Len(e.data) = call.count /\ Len(e.data) > 0
    BY <1>1, <2>1 DEF Installing, Working
  <2>3. EntryCells(e) = CallCells(call) /\ EntryCells(e) \subseteq Cells
    BY <1>1, <2>1, <2>2 DEF EntryCells, CallCells, Working
  <2>4. \A j \in 1 .. Len(e.data) : ~Covered(log, e.loc + j - 1) => e.data[j] = Original[e.loc + j - 1]
    BY <1>1, <2>1 DEF Installing
  <2>5. LogOk(log) /\ OldestFirst(log)
    BY <1>1 DEF Types, Installing
  <2> HIDE DEF e
  <2>6. /\ LogOk(log') /\ OldestFirst(log')
        /\ \A x : Covered(log', x) <=> Covered(log, x) \/ x \in EntryCells(e)
    <3>1. log' = Append(log, e)
      BY <1>9 DEF e
    <3>2. /\ LogOk(Append(log, e)) /\ OldestFirst(Append(log, e))
          /\ \A x : Covered(Append(log, e), x) <=> Covered(log, x) \/ x \in EntryCells(e)
      BY <2>1, <2>2, <2>3, <2>4, <2>5, Appended
    <3>3. QED
      BY <3>1, <3>2
  <2>7. Types'
    BY <1>1, <1>2, <1>9, <2>6, NoCallIs DEF Types, Idle
  <2>8. InPlan'
    <3>1. Names' = Names /\ buf' \in [Names -> Seq(Nat)]
      BY <1>1 DEF InPlan, Names
    <3>2. Done \in Nat /\ todo[1] = plan[Done + 1]
      BY <1>1, <1>7, NextCall
    <3>3. \A k \in 1 .. Done + 1 : plan[k].kind = "read" => k \in 1 .. Done
      BY <1>7, <3>2
    <3>4. \A k \in 1 .. Done + 1 : plan[k].kind = "read" => Len(buf'[plan[k].name]) = plan[k].count
      BY <1>1, <3>3 DEF InPlan
    <3>5. QED
      BY <1>1, <1>7, <1>9, <3>1, <3>4, NoCallIs, PlanGoesOn, SMTT(30)
  <2>9. Installing'
    BY <1>2, <1>5, <1>9, <2>3, <2>6, NoCallIs DEF Installing
  <2>10. QED
    BY <1>6, <2>7, <2>8, <2>9 DEF UndoInv
<1>10. QED
  BY <1>8, <1>9

\* A chunk of a write of the replay, in the cache.
LEMMA ReplayWriteKeeps ==
  ASSUME UndoInv, run.pc = "undo", call.phase = "write", NEW d \in Devices, ~run.bad => Coherent(d),
         d.cached_block = Pos \div block_size, dev' = Written(d),
         \A x \in Cells : Truth(d, x) = Truth(dev, x),
         UNCHANGED <<plan, todo, log, buf, uninstall_file, torn>>,
         \/ ~LastChunk /\ call' = [call EXCEPT !.progress = @ + Chunk] /\ UNCHANGED run
         \/ LastChunk /\ call' = NoCall /\ EntryDone
  PROVE  UndoInv'
<1>1. /\ Types /\ InPlan /\ Undoing /\ Working(call) /\ Len(call.data) = call.count /\ run \in Runs
      /\ LogOk(log) /\ torn \subseteq Cells
  BY DEF UndoInv, Types, Idle
<1>2. dev' \in Devices
  BY <1>1, ChunkWritten
<1>3. ASSUME ~run.bad
      PROVE  /\ Coherent(dev')
             /\ \A x \in Cells : Truth(dev', x) = IF x \in Pos .. Pos + Chunk - 1
                                                  THEN call.data[x - call.loc + 1] ELSE Truth(dev, x)
  BY <1>1, <1>3, TruthWritten
<1>4. /\ Pos = call.loc + call.progress /\ Chunk \in Nat /\ call.progress + Chunk <= call.count
      /\ call.loc \in Nat /\ call.progress \in Nat /\ call.count \in Nat
  BY <1>1, ChunkIs DEF Working
<1>5. /\ run.i \in 1 .. Len(log) /\ EntryCells(log[run.i]) = CallCells(call)
      /\ call.loc = log[run.i].loc /\ call.data = log[run.i].data /\ OldestLast(log)
  BY <1>1 DEF Undoing, Runs, LogOk, EntryCells, CallCells
<1>10. Pos .. Pos + Chunk - 1 \subseteq CallCells(call)
  BY <1>4 DEF CallCells
<1>6. ASSUME NEW x \in call.loc .. call.loc + (call.progress + Chunk) - 1, ~run.bad
      PROVE  x \in Cells /\ Truth(dev', x) = call.data[x - call.loc + 1]
  <2>1. x \in CallCells(call)
    BY <1>4 DEF CallCells
  <2>2. x \in Cells
    BY <1>1, <2>1 DEF Working
  <2>3. CASE x \in Pos .. Pos + Chunk - 1
    BY <1>3, <1>6, <2>2, <2>3
  <2>4. CASE x \notin Pos .. Pos + Chunk - 1
    <3>1. x \in call.loc .. call.loc + call.progress - 1
      BY <1>4, <2>4
    <3>2. QED
      BY <1>1, <1>3, <1>6, <2>2, <2>4, <3>1 DEF Undoing
  <2>5. QED
    BY <2>2, <2>3, <2>4
<1>7. CASE ~LastChunk /\ call' = [call EXCEPT !.progress = @ + Chunk] /\ UNCHANGED run
  <2>1. /\ call' \in Running /\ call'.loc = call.loc /\ call'.count = call.count
        /\ call'.data = call.data /\ call'.phase = call.phase /\ Working(call')
        /\ call'.progress = call.progress + Chunk
    BY <1>1, <1>7, CallGoesOn
  <2>2. Types'
    BY <1>1, <1>2, <1>7, <2>1 DEF Types, Idle
  <2>3. InPlan'
    BY <1>1, <1>7, SamePlan, SMTT(30)
  <2>4. Undoing'
    <3>1. ASSUME NEW x \in Cells \ torn, \A j \in run.i .. Len(log) : x \notin EntryCells(log[j]), ~run.bad
          PROVE  Truth(dev', x) = Original[x]
      <4>1. x \notin EntryCells(log[run.i])
        BY <1>5, <3>1
      <4>2. x \notin Pos .. Pos + Chunk - 1
        BY <1>5, <1>10, <4>1
      <4>3. QED
        BY <1>1, <1>3, <3>1, <4>2 DEF Undoing
    <3>2. QED
      BY <1>3, <1>5, <1>6, <1>7, <2>1, <3>1 DEF Undoing
  <2>5. Installing' /\ Installed' /\ UndoRestores'
    BY <1>7 DEF Installing, Installed, UndoRestores, Undone, Exit
  <2>6. QED
    BY <2>2, <2>3, <2>4, <2>5 DEF UndoInv
<1>8. CASE LastChunk /\ call' = NoCall /\ EntryDone
  <2>1. /\ run' \in Runs /\ run'.pc = "undo" /\ run'.i = run.i + 1 /\ run'.bad = run.bad
    <3> DEFINE k == run.i + 1
    <3>1. run' = [run EXCEPT !.i = k, !.retry = FALSE] /\ k \in Nat \ {0}
      BY <1>1, <1>8 DEF EntryDone, Runs
    <3> HIDE DEF k
    <3>2. run' \in Runs /\ run'.pc = "undo" /\ run'.i = k /\ run'.bad = run.bad
      BY <1>1, <3>1, Zenon DEF Runs
    <3>3. QED
      BY <3>2 DEF k
  <2>2. call' \in Running /\ call'.phase = "none"
    BY <1>8, NoCallIs
  <2>3. Types'
    BY <1>1, <1>2, <2>1, <2>2 DEF Types, Idle
  <2>4. InPlan'
    BY <1>1, <2>2, SamePlan
  <2>5. Undoing'
    <3>1. ASSUME NEW x \in Cells \ torn, \A j \in run.i + 1 .. Len(log) : x \notin EntryCells(log[j]), ~run.bad
          PROVE  Truth(dev', x) = Original[x]
      <4>1. CASE x \in EntryCells(log[run.i])
        <5>1. x \in call.loc .. call.loc + (call.progress + Chunk) - 1
          BY <1>4, <1>5, <1>8, <4>1 DEF CallCells, LastChunk
        <5>2. Truth(dev', x) = call.data[x - call.loc + 1]
          BY <1>6, <3>1, <5>1
        <5>3. call.data[x - call.loc + 1] = Original[x]
          BY <1>5, <3>1, <4>1 DEF OldestLast
        <5>4. QED
          BY <5>2, <5>3
      <4>2. CASE x \notin EntryCells(log[run.i])
        <5>1. \A j \in run.i .. Len(log) : j = run.i \/ j \in run.i + 1 .. Len(log)
          BY <1>5
        <5>2. x \notin Pos .. Pos + Chunk - 1
          BY <1>5, <1>10, <4>2
        <5>3. Truth(dev, x) = Original[x]
          BY <1>1, <3>1, <4>2, <5>1 DEF Undoing
        <5>4. QED
          BY <1>3, <3>1, <5>2, <5>3
      <4>3. QED
        BY <4>1, <4>2
    <3>2. QED
      BY <1>3, <1>5, <2>1, <2>2, <3>1 DEF Undoing
  <2>6. Installing' /\ Installed' /\ UndoRestores'
    BY <2>1 DEF Installing, Installed, UndoRestores, Undone, Exit
  <2>7. QED
    BY <2>3, <2>4, <2>5, <2>6 DEF UndoInv
<1>9. QED
  BY <1>7, <1>8

\* A write of the replay fails; the first time it is tried again.
LEMMA ReplayFailKeeps ==
  ASSUME UndoInv, run.pc = "undo", call.phase = "write", dev' \in Devices,
         \A x \in Cells : Truth(dev', x) = Truth(dev, x), call' = NoCall,
         \/ run.retry /\ run' = [run EXCEPT !.i = @ + 1, !.retry = FALSE, !.bad = TRUE]
         \/ ~run.retry /\ run' = [run EXCEPT !.pc = "recover"],
         UNCHANGED <<plan, todo, log, buf, uninstall_file, torn>>
  PROVE  UndoInv'
<1>1. Types /\ InPlan /\ Undoing /\ run \in Runs /\ run.i <= Len(log)
  BY DEF UndoInv, Types, Undoing
<1>2. /\ run' \in Runs /\ run'.pc \in {"undo", "recover"}
      /\ \/ run'.bad /\ run'.pc = "undo"
         \/ run'.pc = "recover" /\ run'.i = run.i /\ run'.bad = run.bad
  <2>1. CASE run' = [run EXCEPT !.i = @ + 1, !.retry = FALSE, !.bad = TRUE]
    <3> DEFINE k == run.i + 1
    <3>1. run' = [run EXCEPT !.i = k, !.retry = FALSE, !.bad = TRUE] /\ k \in Nat \ {0}
      BY <1>1, <2>1 DEF Runs
    <3> HIDE DEF k
    <3>2. QED
      BY <1>1, <3>1, Zenon DEF Runs
  <2>2. CASE run' = [run EXCEPT !.pc = "recover"]
    BY <1>1, <2>2 DEF Runs
  <2>3. QED
    BY <2>1, <2>2
<1>3. call' \in Running /\ call'.phase = "none"
  BY NoCallIs
<1>4. Types'
  BY <1>1, <1>2, <1>3 DEF Types, Idle
<1>5. InPlan'
  BY <1>1, <1>3, SamePlan
<1>6. Undoing'
  <2>1. OldestLast(log)
    BY <1>1 DEF Undoing
  <2>2. CASE run'.bad /\ run'.pc = "undo"
    BY <1>2, <1>3, <2>1, <2>2 DEF Undoing
  <2>3. CASE run'.pc = "recover" /\ run'.i = run.i /\ run'.bad = run.bad
    BY <1>1, <1>3, <2>1, <2>3 DEF Undoing
  <2>4. QED
    BY <1>2, <2>2, <2>3
<1>7. Installing' /\ Installed' /\ UndoRestores'
  BY <1>2 DEF Installing, Installed, UndoRestores, Undone, Exit
<1>8. QED
  BY <1>4, <1>5, <1>6, <1>7, SMTT(30) DEF UndoInv
==============================================================================
