---------------------------- MODULE Datagram_proofs ----------------------------
(***************************************************************************)
(* Proofs about the UDP and raw socket wrappers (Datagram): type           *)
(* correctness and slot ownership, for every set of tasks, every pool     *)
(* size and either kind of socket.                                         *)
(***************************************************************************)
EXTENDS Datagram, TLAPS

(* Every step keeps the type invariant.                                    *)
LEMMA DTypeStep ==
    ASSUME TypeOK, [Next]_vars
    PROVE  TypeOK'
<1> USE DEF TypeOK, PoolTypeOK, Results, UdpErrors, RawErrors, Return
<1>1. CASE UNCHANGED vars
  BY <1>1 DEF vars
<1>2. ASSUME NEW t \in Tasks, UdpBind(t) \/ RawBind(t)
      PROVE  TypeOK'
  <2>1. CASE NewNoBuffers(t)
    BY <2>1 DEF NewNoBuffers
  <2>2. CASE \E r \in {"UnsupportedProto", "Bind"} : BindThenDrop(t, r)
    BY <2>2 DEF BindThenDrop
  <2>3. CASE NewOk(t)
    BY <2>3 DEF NewOk, TakeBuffers, Alloc
  <2>4. QED
    BY <1>2, <2>1, <2>2, <2>3 DEF UdpBind, RawBind
<1>3. ASSUME NEW t \in Tasks,
             UdpSend(t) \/ RawSend(t) \/ UdpMulticast(t) \/ Receive(t)
      PROVE  TypeOK'
  BY <1>3 DEF UdpSend, RawSend, UdpMulticast, Receive
<1>4. ASSUME NEW t \in Tasks, UdpDrop(t) \/ RawDrop(t)
      PROVE  TypeOK'
  BY <1>4 DEF UdpDrop, RawDrop, Drop, Free
<1>5. QED
  BY <1>1, <1>2, <1>3, <1>4 DEF Next

(* Type correctness of the datagram model (the TypeOK of the udp and raw   *)
(* runs): no bind, send, receive, multicast call or drop of udp.rs or      *)
(* raw.rs leaves a task, token or result outside its range.               *)
THEOREM DTypeCorrect == Spec => []TypeOK
<1>1. Init => TypeOK
  BY DEF Init, TypeOK, PoolInit, PoolTypeOK, Results
<1>2. QED
  BY <1>1, DTypeStep, PTL DEF Spec

-----------------------------------------------------------------------------
(***************************************************************************)
(* Ownership.  BufferOwnership alone is not inductive: Drop frees          *)
(* token[t] and NewOk overwrites token[t], which is only safe if a bound   *)
(* task holds a token, an idle one holds none, and the engine socket uses  *)
(* exactly the wrapper's slot.                                             *)
(***************************************************************************)
TokenMatchesPc == \A t \in Tasks : token[t] = NoToken <=> pc[t] = "idle"

BoundIsToken == \A t \in Tasks : bound[t] = token[t]

SlotsOwned ==
    /\ \A n \in Slots : used[n] <=> \E t \in Tasks : token[t] = n
    /\ \A t, u \in Tasks : t # u /\ token[t] # NoToken => token[t] # token[u]

DOwnInv == TypeOK /\ SlotsOwned /\ TokenMatchesPc /\ BoundIsToken

(* A step that keeps the pool and the tokens and moves no task into or    *)
(* out of "idle" keeps the ownership conjuncts.                            *)
LEMMA DOwnFrame ==
    ASSUME SlotsOwned, TokenMatchesPc, BoundIsToken,
           UNCHANGED <<used, token, bound, pc>>
    PROVE  SlotsOwned' /\ TokenMatchesPc' /\ BoundIsToken'
BY DEF SlotsOwned, TokenMatchesPc, BoundIsToken

(* An idle task takes the first free slot.                                 *)
LEMMA DOwnNewOk ==
    ASSUME TypeOK, SlotsOwned, TokenMatchesPc, BoundIsToken,
           NEW t \in Tasks, NewOk(t)
    PROVE  SlotsOwned' /\ TokenMatchesPc' /\ BoundIsToken'
<1>1. PICK n \in Slots : TakeBuffers(t, n)
  BY DEF NewOk
<1>2. /\ used' = [used EXCEPT ![n] = TRUE]
      /\ token' = [token EXCEPT ![t] = n]
      /\ bound' = [bound EXCEPT ![t] = n]
      /\ ~used[n]
  BY <1>1 DEF TakeBuffers, Alloc, IsFirstFree
<1>3. token[t] = NoToken
  BY DEF NewOk, TokenMatchesPc
<1>4. \A u \in Tasks : token[u] # n
  BY <1>2 DEF SlotsOwned
<1>5. pc' = [pc EXCEPT ![t] = "bound"]
  BY DEF NewOk
<1>6. SlotsOwned'
  <2>1. ASSUME NEW k \in Slots
        PROVE  used'[k] <=> \E u \in Tasks : token'[u] = k
    <3>1. CASE k = n
      BY <1>2, <3>1 DEF TypeOK, PoolTypeOK
    <3>2. CASE k # n
      <4>1. used'[k] = used[k]
        BY <1>2, <3>2 DEF TypeOK, PoolTypeOK
      <4>2. \A u \in Tasks : token'[u] = k <=> token[u] = k
        BY <1>2, <1>3, <3>2, NAssumption DEF TypeOK, NoToken, Slots
      <4>3. QED
        BY <4>1, <4>2 DEF SlotsOwned
    <3>3. QED
      BY <3>1, <3>2
  <2>2. ASSUME NEW u \in Tasks, NEW v \in Tasks, u # v, token'[u] # NoToken
        PROVE  token'[u] # token'[v]
    BY <1>2, <1>3, <1>4, <2>2 DEF SlotsOwned, TypeOK
  <2>3. QED
    BY <2>1, <2>2 DEF SlotsOwned
<1>7. TokenMatchesPc'
  BY <1>2, <1>5, NAssumption DEF TokenMatchesPc, TypeOK, Slots, NoToken
<1>8. BoundIsToken'
  BY <1>2 DEF BoundIsToken, TypeOK
<1>9. QED
  BY <1>6, <1>7, <1>8

(* A bound task drops its socket: its token is freed, it becomes idle.     *)
LEMMA DOwnDrop ==
    ASSUME TypeOK, SlotsOwned, TokenMatchesPc, BoundIsToken,
           NEW t \in Tasks, Drop(t)
    PROVE  SlotsOwned' /\ TokenMatchesPc' /\ BoundIsToken'
<1> DEFINE m == token[t]
<1>1. m \in Slots
  BY DEF Drop, Free
<1>2. \A u \in Tasks \ {t} : token[u] # m
  BY <1>1 DEF SlotsOwned, NoToken, Slots
<1>3. /\ used' = [used EXCEPT ![m] = FALSE]
      /\ token' = [token EXCEPT ![t] = NoToken]
      /\ bound' = [bound EXCEPT ![t] = NoToken]
      /\ pc' = [pc EXCEPT ![t] = "idle"]
  BY DEF Drop, Free
<1>4. SlotsOwned'
  <2>1. ASSUME NEW k \in Slots
        PROVE  used'[k] <=> \E u \in Tasks : token'[u] = k
    <3>1. CASE k = m
      <4>1. ~used'[k]
        BY <1>1, <1>3, <3>1 DEF TypeOK, PoolTypeOK
      <4>2. \A u \in Tasks : token'[u] # k
        BY <1>1, <1>2, <1>3, <3>1, NAssumption DEF TypeOK, NoToken, Slots
      <4>3. QED
        BY <4>1, <4>2
    <3>2. CASE k # m
      <4>1. used'[k] = used[k]
        BY <1>3, <3>2 DEF TypeOK, PoolTypeOK
      <4>2. \A u \in Tasks : token'[u] = k <=> token[u] = k
        BY <1>3, <3>2, NAssumption DEF TypeOK, NoToken, Slots
      <4>3. QED
        BY <4>1, <4>2 DEF SlotsOwned
    <3>3. QED
      BY <3>1, <3>2
  <2>2. ASSUME NEW u \in Tasks, NEW v \in Tasks, u # v, token'[u] # NoToken
        PROVE  token'[u] # token'[v]
    BY <1>3, <2>2 DEF SlotsOwned, TypeOK
  <2>3. QED
    BY <2>1, <2>2 DEF SlotsOwned
<1>5. TokenMatchesPc'
  BY <1>3 DEF TokenMatchesPc, TypeOK
<1>6. BoundIsToken'
  BY <1>3 DEF BoundIsToken, TypeOK
<1>7. QED
  BY <1>4, <1>5, <1>6

(* Every step keeps the ownership conjuncts.                               *)
LEMMA DOwnStep ==
    ASSUME DOwnInv, [Next]_vars
    PROVE  SlotsOwned' /\ TokenMatchesPc' /\ BoundIsToken'
<1> USE DEF DOwnInv
<1>1. CASE UNCHANGED vars
  BY <1>1, DOwnFrame DEF vars
<1>2. ASSUME NEW t \in Tasks, UdpBind(t) \/ RawBind(t)
      PROVE  SlotsOwned' /\ TokenMatchesPc' /\ BoundIsToken'
  <2>1. CASE NewNoBuffers(t) \/ \E r \in Results : BindThenDrop(t, r)
    BY <2>1, DOwnFrame DEF NewNoBuffers, BindThenDrop
  <2>2. CASE NewOk(t)
    BY <2>2, DOwnNewOk
  <2>3. QED
    BY <1>2, <2>1, <2>2 DEF UdpBind, RawBind, Results, UdpErrors
<1>3. ASSUME NEW t \in Tasks,
             UdpSend(t) \/ RawSend(t) \/ UdpMulticast(t) \/ Receive(t)
      PROVE  SlotsOwned' /\ TokenMatchesPc' /\ BoundIsToken'
  BY <1>3, DOwnFrame DEF UdpSend, RawSend, UdpMulticast, Receive
<1>4. ASSUME NEW t \in Tasks, UdpDrop(t) \/ RawDrop(t)
      PROVE  SlotsOwned' /\ TokenMatchesPc' /\ BoundIsToken'
  BY <1>4, DOwnDrop DEF UdpDrop, RawDrop
<1>5. QED
  BY <1>1, <1>2, <1>3, <1>4 DEF Next

(* The ownership invariant holds in every reachable state.                 *)
THEOREM DOwnInvariant == Spec => []DOwnInv
<1>1. Init => DOwnInv
  <2> SUFFICES ASSUME Init PROVE DOwnInv
    OBVIOUS
  <2>1. TypeOK
    BY DEF Init, TypeOK, PoolInit, PoolTypeOK, Results
  <2>2. SlotsOwned /\ TokenMatchesPc /\ BoundIsToken
    BY NAssumption
    DEF Init, PoolInit, SlotsOwned, TokenMatchesPc, BoundIsToken, NoToken,
        Slots
  <2>3. QED
    BY <2>1, <2>2 DEF DOwnInv
<1>2. DOwnInv /\ [Next]_vars => DOwnInv'
  BY DOwnStep, DTypeStep DEF DOwnInv
<1>3. QED
  BY <1>1, <1>2, PTL DEF Spec

(* BufferOwnership, the invariant of the udp and raw runs (udp.rs and      *)
(* raw.rs new, bind and Drop over lib.rs Pool), holds for every pool size, *)
(* every number of tasks and both kinds: no bind error path leaks a slot,  *)
(* and no slot is reused while an engine socket still uses its regions.    *)
THEOREM DatagramBufferSafety == Spec => []BufferOwnership
<1>1. DOwnInv => BufferOwnership
  BY DEF DOwnInv, BufferOwnership, SlotsOwned, BoundIsToken, TypeOK,
         PoolTypeOK
<1>2. QED
  BY <1>1, DOwnInvariant, PTL

-----------------------------------------------------------------------------
(***************************************************************************)
(* Refinement of the abstract allocator: NewOk is an Acquire of the slot   *)
(* it takes, Drop a Release by the slot's only holder, all else stutters. *)
(***************************************************************************)
LEMMA DRefAcquire ==
    ASSUME DOwnInv, NEW t \in Tasks, NewOk(t)
    PROVE  \E n \in Slots : Abstract!Acquire(t, n)
<1> USE DEF DOwnInv
<1>1. PICK n \in Slots : TakeBuffers(t, n)
  BY DEF NewOk
<1>2. token' = [token EXCEPT ![t] = n]
  BY <1>1 DEF TakeBuffers
<1>3. token[t] = NoToken
  BY DEF NewOk, TokenMatchesPc
<1>4. \A u \in Tasks : token[u] # n
  BY <1>1 DEF TakeBuffers, Alloc, IsFirstFree, SlotsOwned
<1>5. \A m \in 0 .. n - 1 : Holders[m] # {}
  BY <1>1, NAssumption
  DEF TakeBuffers, Alloc, IsFirstFree, SlotsOwned, Holders, Slots
<1>6. \A m \in Slots : t \notin Holders[m]
  BY <1>3, NAssumption DEF Holders, NoToken, Slots
<1>7. Holders' = [Holders EXCEPT ![n] = {t}]
  <2>1. ASSUME NEW k \in Slots PROVE Holders'[k] = [Holders EXCEPT ![n] = {t}][k]
    <3>1. CASE k = n
      BY <1>2, <1>4, <3>1 DEF Holders, TypeOK
    <3>2. CASE k # n
      BY <1>2, <1>3, <3>2, NAssumption DEF Holders, TypeOK, NoToken, Slots
    <3>3. QED
      BY <3>1, <3>2
  <2>2. QED
    BY <2>1 DEF Holders
<1>8. QED
  BY <1>4, <1>5, <1>6, <1>7 DEF Abstract!Acquire, Abstract!Slots, Slots, Holders

LEMMA DRefRelease ==
    ASSUME DOwnInv, NEW t \in Tasks, Drop(t)
    PROVE  \E n \in Slots : Abstract!Release(t, n)
<1> USE DEF DOwnInv
<1> DEFINE m == token[t]
<1>1. m \in Slots
  BY DEF Drop, Free
<1>2. token' = [token EXCEPT ![t] = NoToken]
  BY DEF Drop
<1>3. Holders[m] = {t}
  <2>1. \A u \in Tasks : token[u] = m <=> u = t
    BY <1>1, NAssumption DEF SlotsOwned, NoToken, Slots
  <2>2. QED
    BY <1>1, <2>1 DEF Holders
<1>4. Holders' = [Holders EXCEPT ![m] = {}]
  <2>1. ASSUME NEW k \in Slots PROVE Holders'[k] = [Holders EXCEPT ![m] = {}][k]
    <3>1. CASE k = m
      BY <1>1, <1>2, <3>1, NAssumption
      DEF Holders, TypeOK, SlotsOwned, NoToken, Slots
    <3>2. CASE k # m
      BY <1>2, <3>2, NAssumption DEF Holders, TypeOK, NoToken, Slots
    <3>3. QED
      BY <3>1, <3>2
  <2>2. QED
    BY <2>1 DEF Holders
<1>5. QED
  BY <1>1, <1>3, <1>4 DEF Abstract!Release

LEMMA DRefStep ==
    ASSUME DOwnInv, [Next]_vars
    PROVE  [Abstract!Next]_Holders
<1>1. ASSUME UNCHANGED token PROVE UNCHANGED Holders
  BY <1>1 DEF Holders
<1>2. CASE UNCHANGED vars
  BY <1>2, <1>1 DEF vars
<1>3. ASSUME NEW t \in Tasks, UdpBind(t) \/ RawBind(t)
      PROVE  [Abstract!Next]_Holders
  <2>1. CASE NewNoBuffers(t) \/ \E r \in Results : BindThenDrop(t, r)
    BY <2>1, <1>1 DEF NewNoBuffers, BindThenDrop
  <2>2. CASE NewOk(t)
    BY <2>2, DRefAcquire DEF Abstract!Next, Abstract!Slots, Slots
  <2>3. QED
    BY <1>3, <2>1, <2>2 DEF UdpBind, RawBind, Results, UdpErrors
<1>4. ASSUME NEW t \in Tasks,
             UdpSend(t) \/ RawSend(t) \/ UdpMulticast(t) \/ Receive(t)
      PROVE  [Abstract!Next]_Holders
  BY <1>4, <1>1 DEF UdpSend, RawSend, UdpMulticast, Receive
<1>5. ASSUME NEW t \in Tasks, UdpDrop(t) \/ RawDrop(t)
      PROVE  [Abstract!Next]_Holders
  BY <1>5, DRefRelease DEF UdpDrop, RawDrop, Abstract!Next, Abstract!Slots,
                          Slots
<1>6. QED
  BY <1>2, <1>3, <1>4, <1>5 DEF Next

(* AllocatorRefinement (the property of the udp and raw runs): the UDP and *)
(* raw wrappers over lib.rs Pool implement the abstract allocator for      *)
(* every pool size and set of tasks; bind error paths are stutters.        *)
THEOREM DRefinement == Spec => AllocatorRefinement
<1>1. Init => Abstract!Init
  BY NAssumption DEF Init, PoolInit, Abstract!Init, Abstract!Slots, Slots,
                     Holders, NoToken
<1>2. DOwnInv /\ [Next]_vars => [Abstract!Next]_Holders
  BY DRefStep
<1>3. QED
  BY <1>1, <1>2, DOwnInvariant, PTL DEF Spec, AllocatorRefinement, Abstract!Spec

(* The allocator's guarantee carried over by the refinement: under the   *)
(* mapping Holders, no two sockets hold the token of the same slot and   *)
(* none holds two, in every reachable state.  Only the refinement theorem *)
(* and the abstract specification's own invariant are used.               *)
THEOREM DHoldersExclusive == Spec => []Abstract!Exclusive
BY DRefinement, Abstract!AllocatorExclusive, PTL DEF AllocatorRefinement

=============================================================================
