------------------------------- MODULE KeyMap -------------------------------
(***************************************************************************)
(* What the hash table of slab.c promises: a map from keys to values, whose *)
(* operations take effect at once. A key is set only when it is absent: it  *)
(* is the address of a buffer, and the value its bufctl.                    *)
(***************************************************************************)
CONSTANTS Keys, Vals, None

VARIABLES map,   \* the value of a key, or None
          last   \* the operation that returned last, with its result

Result(op, key, res) == [op |-> op, key |-> key, res |-> res]

Get(k) == last' = Result("get", k, map[k]) /\ UNCHANGED map
Set(k, v) == /\ map[k] = None /\ map' = [map EXCEPT ![k] = v]
             /\ last' = Result("set", k, v)
Erase(k) == /\ map' = [map EXCEPT ![k] = None]
            /\ last' = Result("erase", k, map[k])

Init == map = [k \in Keys |-> None] /\ last = Result("get", None, None)
Next == \E k \in Keys : Get(k) \/ Erase(k) \/ \E v \in Vals : Set(k, v)
Spec == Init /\ [][Next]_<<map, last>>
=============================================================================
