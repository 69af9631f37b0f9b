---------------------------- MODULE SlotAllocator ----------------------------
(***************************************************************************)
(* What a buffer pool promises the sockets drawn from it, with no tokens,  *)
(* flags, engine or awaits: each slot is held by at most one task at a     *)
(* time, a task holds at most one slot (one socket), a free slot is taken  *)
(* only when every lower slot is held (Pool::alloc's first fit, which the  *)
(* spec's reuse scenario relies on), and only its holder gives it back.    *)
(*                                                                         *)
(* TcpSocket and Datagram are shown to implement this specification: the  *)
(* holders of slot n are the tasks whose wrapper holds n as its token.     *)
(***************************************************************************)
EXTENDS Integers, TLAPS

CONSTANTS Tasks, N

VARIABLE holders      \* holders[n]: the tasks that own slot n

Slots == 0 .. N - 1

Init == holders = [n \in Slots |-> {}]

(* Slot n is the lowest free slot and goes to t, which holds none.         *)
Acquire(t, n) ==
    /\ holders[n] = {}
    /\ \A m \in 0 .. n - 1 : holders[m] # {}
    /\ \A m \in Slots : t \notin holders[m]
    /\ holders' = [holders EXCEPT ![n] = {t}]

(* The holder of slot n gives it back.                                     *)
Release(t, n) ==
    /\ holders[n] = {t}
    /\ holders' = [holders EXCEPT ![n] = {}]

Next == \E t \in Tasks, n \in Slots : Acquire(t, n) \/ Release(t, n)

Spec == Init /\ [][Next]_holders


(* What the allocator promises: no slot is shared by two sockets and no   *)
(* socket holds two slots.                                                 *)
Exclusive ==
    /\ holders \in [Slots -> SUBSET Tasks]
    /\ \A n \in Slots : \A t, u \in holders[n] : t = u
    /\ \A t \in Tasks : \A n, m \in Slots :
          t \in holders[n] /\ t \in holders[m] => n = m

(* The allocator hands every slot to one holder at a time and every task *)
(* at most one slot: acquire takes a slot nobody holds for a task that   *)
(* holds none, and only the holder releases.  Any implementation that    *)
(* refines Spec (the TCP, UDP and raw wrappers over lib.rs Pool) inherits *)
(* this for its own mapping of holders.                                   *)
THEOREM AllocatorExclusive == Spec => []Exclusive
<1>1. Init => Exclusive
  BY DEF Init, Exclusive
<1>2. ASSUME Exclusive, [Next]_holders PROVE Exclusive'
  <2>1. ASSUME NEW t \in Tasks, NEW n \in Slots, Acquire(t, n) PROVE Exclusive'
    <3>1. holders' = [holders EXCEPT ![n] = {t}]
      BY <2>1 DEF Acquire
    <3>2. holders' \in [Slots -> SUBSET Tasks]
      BY <1>2, <3>1 DEF Exclusive
    <3>3. \A k \in Slots : \A a, b \in holders'[k] : a = b
      BY <1>2, <3>1 DEF Exclusive
    <3>4. \A a \in Tasks : \A k, m \in Slots :
              a \in holders'[k] /\ a \in holders'[m] => k = m
      BY <1>2, <2>1, <3>1 DEF Exclusive, Acquire
    <3>5. QED
      BY <3>2, <3>3, <3>4 DEF Exclusive
  <2>2. ASSUME NEW t \in Tasks, NEW n \in Slots, Release(t, n) PROVE Exclusive'
    <3>1. holders' = [holders EXCEPT ![n] = {}]
      BY <2>2 DEF Release
    <3>2. QED
      BY <1>2, <3>1 DEF Exclusive
  <2>3. CASE UNCHANGED holders
    BY <1>2, <2>3 DEF Exclusive
  <2>4. QED
    BY <1>2, <2>1, <2>2, <2>3 DEF Next
<1>3. QED
  BY <1>1, <1>2, PTL DEF Spec

=============================================================================
