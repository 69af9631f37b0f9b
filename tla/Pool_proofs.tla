----------------------------- MODULE Pool_proofs -----------------------------
(***************************************************************************)
(* Proofs about lib.rs Pool::alloc and Pool::free, for every capacity N.   *)
(* IsFirstFree(n) is what alloc's scan over 0..N returns; the results     *)
(* below relate it to the reference definition of "some slot is free":    *)
(* the scan finds a slot exactly when the pool is not exhausted, it finds *)
(* only one, and a free makes the freed slot the next one returned.  The  *)
(* wrappers' NoBuffers and success branches of new rest on the first two. *)
(***************************************************************************)
EXTENDS Pool, WellFoundedInduction, TLAPS

(* At most one slot is the first free one: alloc's result is determined.  *)
LEMMA FirstFreeUnique ==
    ASSUME PoolTypeOK, NEW n \in Slots, NEW m \in Slots,
           IsFirstFree(n), IsFirstFree(m)
    PROVE  n = m
<1>1. ~(n < m) /\ ~(m < n)
  BY NAssumption DEF IsFirstFree, Slots
<1>2. QED
  BY <1>1, NAssumption DEF Slots

(* A pool that is not exhausted has a first free slot: the least index of *)
(* the non-empty set of free slots, by well-foundedness of < on Nat.      *)
LEMMA FirstFreeExists ==
    ASSUME PoolTypeOK, ~PoolExhausted
    PROVE  \E n \in Slots : IsFirstFree(n)
<1> DEFINE Free0 == {k \in Slots : ~used[k]}
<1>1. Free0 \subseteq Nat /\ Free0 # {}
  BY NAssumption DEF PoolExhausted, Slots
<1>2. PICK x \in Free0 : \A y \in Free0 : ~(<<y, x>> \in OpToRel(<, Nat))
  BY <1>1, NatLessThanWellFounded, WFMin, Zenon
<1>3. \A m \in 0 .. x - 1 : used[m]
  <2> SUFFICES ASSUME NEW m \in 0 .. x - 1, ~used[m] PROVE FALSE
    OBVIOUS
  <2>1. m \in Free0
    BY <1>1, NAssumption DEF Slots, PoolTypeOK
  <2>2. m \in Nat /\ x \in Nat /\ m < x
    BY <1>1
  <2>3. <<m, x>> \in OpToRel(<, Nat)
    BY <2>2, Zenon DEF OpToRel
  <2>4. QED
    BY <1>2, <2>1, <2>3, Zenon
<1>4. QED
  BY <1>3 DEF IsFirstFree

(* Pool::alloc and its NoBuffers branch: the scan returns a slot exactly   *)
(* when some slot is free, and that slot is the only one it can return.   *)
(* So new reports NoBuffers only from an exhausted pool, and otherwise    *)
(* takes one determined slot.                                              *)
THEOREM AllocScanCorrect ==
    ASSUME PoolTypeOK
    PROVE  /\ ~PoolExhausted <=> \E n \in Slots : IsFirstFree(n)
           /\ \A n, m \in Slots : IsFirstFree(n) /\ IsFirstFree(m) => n = m
<1>1. ~PoolExhausted => \E n \in Slots : IsFirstFree(n)
  BY FirstFreeExists
<1>2. (\E n \in Slots : IsFirstFree(n)) => ~PoolExhausted
  BY DEF IsFirstFree, PoolExhausted
<1>3. QED
  BY <1>1, <1>2, FirstFreeUnique

(* Pool::free on an exhausted pool: the slot given back is the one the    *)
(* next alloc returns, and it is the only free slot, so exactly one more  *)
(* allocation becomes possible (lib.rs free clears the flag; alloc scans). *)
THEOREM FreeThenAllocReuses ==
    ASSUME PoolTypeOK, PoolExhausted, NEW n \in Slots, Free(n)
    PROVE  /\ IsFirstFree(n)'
           /\ \A m \in Slots : ~used'[m] => m = n
<1>1. used' = [used EXCEPT ![n] = FALSE]
  BY DEF Free
<1>2. QED
  BY <1>1, NAssumption DEF IsFirstFree, PoolExhausted, PoolTypeOK, Slots

=============================================================================
