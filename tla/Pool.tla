-------------------------------- MODULE Pool --------------------------------
(***************************************************************************)
(* The fixed-size slot pool Pool<T, N> of edge-nal-embassy (lib.rs).       *)
(*                                                                         *)
(* The pool is an array of N storage cells, each with a `used` flag.  The  *)
(* storage itself is never read by the pool, so only the flags are state;  *)
(* a slot is named by its index, which is what `free` recomputes from the  *)
(* pointer it is given (offset_from the array base).  The release token    *)
(* handed to a socket is therefore modelled as the slot index.             *)
(*                                                                         *)
(* The module only defines the pool's state and its two operations; the    *)
(* modules of the socket wrappers compose them into their own actions,     *)
(* because in the code alloc and free are always called from inside a      *)
(* socket constructor or destructor, with no suspension point between.     *)
(***************************************************************************)
EXTENDS Integers

CONSTANT N            \* the pool capacity, a const generic of Pool<T, N>

ASSUME NAssumption == N \in Nat

VARIABLE used         \* used[n]: the Cell<bool> flag of slot n

Slots == 0 .. N - 1

(* The value of a token field that holds no slot.                          *)
NoToken == -1

PoolTypeOK == used \in [Slots -> BOOLEAN]

(* Pool::new: every flag starts false, every cell uninitialised.           *)
PoolInit == used = [n \in Slots |-> FALSE]

(***************************************************************************)
(* Pool::alloc scans 0..N and takes the first slot whose flag is false.    *)
(* IsFirstFree(n) says that slot n is the one that scan returns; when no   *)
(* slot is free the scan falls through and alloc returns None.             *)
(***************************************************************************)
IsFirstFree(n) == ~used[n] /\ \A m \in 0 .. n - 1 : used[m]

PoolExhausted == \A n \in Slots : used[n]

(* Mutant: alloc returns any free slot, not the first one.                 *)
AllocAnyFree(n) ==
    /\ ~used[n]
    /\ used' = [used EXCEPT ![n] = TRUE]

(* The state change of a successful Pool::alloc returning slot n.          *)
Alloc(n) ==
    /\ IsFirstFree(n)
    /\ used' = [used EXCEPT ![n] = TRUE]

(***************************************************************************)
(* Pool::free: the index is recomputed from the pointer, asserted to lie   *)
(* in [0, N), and the flag is cleared without looking at its old value:   *)
(* a double free is not detected.  The range assertion always holds for a  *)
(* token that came from alloc, which is the only kind the wrappers pass.   *)
(***************************************************************************)
Free(n) ==
    /\ n \in Slots
    /\ used' = [used EXCEPT ![n] = FALSE]

=============================================================================
