------------------------------ MODULE SlabHash ------------------------------
(***************************************************************************)
(* The hash table of slab.c: open addressing, one probe per step. Values   *)
(* stand for bufctl pointers, keys for addresses of buffers.               *)
(***************************************************************************)
EXTENDS SlabSizes

CONSTANTS Keys, Vals, None

VARIABLES
  buckets, size, capacity,
  op,    \* the running operation: its kind, key, value and position; or Idle
  last,  \* the operation that returned last, with its result
  path   \* buckets that were passed when a bucket was filled (history)

ht_vars == <<buckets, size, capacity, op, last, path>>

Idle == [kind |-> "idle"]
InitCapacity == PAGE_SIZE \div SIZEOF_HASH_VAL
Buckets == 0 .. InitCapacity - 1

\* ht_grow: as many pages as 2 * capacity bytes need. The table that it fills
\* with the rehashed entries is not stored in ht: buckets stay as they are.
NewCapacity(cap) ==
  (((cap * 2 + PAGE_SIZE - 1) \div PAGE_SIZE) * PAGE_SIZE) \div SIZEOF_HASH_VAL

ASSUME HashAssumption ==
  /\ Keys \subseteq Nat /\ None \notin Keys \cup Vals /\ InitCapacity > 0
  /\ NewCapacity(InitCapacity) = InitCapacity

hash(key) == key % capacity

\* Mutant of NextBucket: it stays at the last one.
NextBucketStuck(h) == IF h + 1 < capacity THEN h + 1 ELSE h

NextBucket(h) == (h + 1) % capacity

Loaded == size >= capacity \/ 2 * size > capacity

BeginOp(kind, k, v) ==
  /\ op = Idle
  /\ op' = [kind |-> kind, key |-> k, val |-> v, at |-> hash(k), passed |-> {}]
  /\ UNCHANGED <<buckets, size, last, path>>

BeginGet(k) == BeginOp("get", k, None) /\ UNCHANGED capacity
BeginErase(k) == BeginOp("erase", k, None) /\ UNCHANGED capacity

Holds(b, k) == buckets[b].state = "FULL" /\ buckets[b].key = k
InTable(k) == \E b \in Buckets : Holds(b, k)

\* ht_set: the bucket is chosen before the table grows.
BeginSet(k, v) ==
  /\ ~InTable(k) /\ BeginOp("set", k, v)
  /\ capacity' = IF Loaded THEN NewCapacity(capacity) ELSE capacity

Step(stop) ==
  /\ op # Idle
  /\ ~stop /\ op' = [op EXCEPT !.at = NextBucket(op.at), !.passed = @ \cup {op.at}]
  /\ UNCHANGED <<buckets, size, capacity, last, path>>

Return(res) ==
  /\ op' = Idle /\ last' = [op |-> op.kind, key |-> op.key, res |-> res]
  /\ UNCHANGED capacity

State(b) == buckets[b].state

\* The loops of ht_get and ht_erase, and of ht_set, go on.
ProbeOn == op # Idle /\ op.kind \in {"get", "erase"} /\ Step(Holds(op.at, op.key) \/ State(op.at) = "EMPTY")
SetOn == op # Idle /\ op.kind = "set" /\ Step(State(op.at) # "FULL")

NotFound ==
  /\ op # Idle /\ op.kind \in {"get", "erase"}
  /\ State(op.at) = "EMPTY" /\ Return(None) /\ UNCHANGED <<buckets, size, path>>

GetFound ==
  /\ op # Idle /\ op.kind = "get"
  /\ Holds(op.at, op.key) /\ Return(buckets[op.at].val) /\ UNCHANGED <<buckets, size, path>>

\* Mutant of Erased: the bucket becomes EMPTY.
ErasedEmpty == "EMPTY"

Erased == "DELETED"

EraseFound ==
  /\ op # Idle /\ op.kind = "erase" /\ Holds(op.at, op.key)
  /\ buckets' = [buckets EXCEPT ![op.at].state = Erased]
  /\ size' = size - 1 /\ Return(buckets[op.at].val) /\ UNCHANGED path

SetHere ==
  /\ op # Idle /\ op.kind = "set" /\ State(op.at) # "FULL"
  /\ buckets' = [buckets EXCEPT ![op.at] = [state |-> "FULL", key |-> op.key, val |-> op.val]]
  /\ path' = [path EXCEPT ![op.at] = op.passed]
  /\ size' = size + 1 /\ Return(op.val)

\* ht_init: a zeroed page.
ht_init ==
  /\ buckets = [b \in Buckets |-> [state |-> "EMPTY", key |-> 0, val |-> None]]
  /\ size = 0 /\ capacity = InitCapacity /\ op = Idle
  /\ last = [op |-> "get", key |-> None, res |-> None] /\ path = [b \in Buckets |-> {}]

Calling == \E k \in Keys : BeginGet(k) \/ BeginErase(k) \/ \E v \in Vals : BeginSet(k, v)
Probe == ProbeOn \/ SetOn \/ NotFound \/ GetFound \/ EraseFound \/ SetHere
HashNext == Calling \/ Probe

\* Only the caller may stop: an operation that runs goes on.
HashSpec == ht_init /\ [][HashNext]_ht_vars /\ WF_ht_vars(Probe)
-----------------------------------------------------------------------------
HashTypeOK ==
  /\ buckets \in [Buckets -> [state : {"EMPTY", "DELETED", "FULL"}, key : Keys \cup {0}, val : Vals \cup {None}]]
  /\ size \in Int /\ capacity = InitCapacity /\ path \in [Buckets -> SUBSET Buckets]
  /\ \/ op = Idle
     \/ op \in [kind : {"get", "erase", "set"}, key : Keys, val : Vals \cup {None},
                at : Buckets, passed : SUBSET Buckets]

\* Every stored key can be reached: from its hash to its bucket there is no EMPTY
\* one, however many keys were erased and set in between (slab.c:57, 86).
Reachable ==
  \A b \in Buckets : State(b) = "FULL" =>
    /\ hash(buckets[b].key) \in path[b] \cup {b}
    /\ \A x \in path[b] : State(x) # "EMPTY" /\ NextBucket(x) \in path[b] \cup {b}

ValueOf(k) == IF InTable(k) THEN buckets[CHOOSE b \in Buckets : Holds(b, k)].val ELSE None
M == INSTANCE KeyMap WITH map <- [k \in Keys |-> ValueOf(k)], last <- last

\* Every operation that returns does what it does on a map.
ImplementsMap == M!Spec

\* slab.c:56 "key not in the map", slab.c:82 "key not found": every operation returns,
\* while a bucket is EMPTY: DELETED ones do not end the search for an absent key.
HashReturns == op # Idle ~> (op = Idle \/ \A b \in Buckets : State(b) # "EMPTY")
=============================================================================
