--------------------------- MODULE TcpSocket_proofs ---------------------------
(***************************************************************************)
(* Proofs about the TCP socket wrapper and its pool, for every pool size,  *)
(* every set of tasks and every queue bound.                                *)
(***************************************************************************)
EXTENDS TcpSocket, TLAPS

(***************************************************************************)
(* Lemmas on the engine-socket operators the actions are built from.       *)
(***************************************************************************)
LEMMA EngFreshType == EngFresh \in EngStates
BY MaxQAssumption DEF EngFresh, EngStates, Conns

LEMMA SocketCloseType ==
    ASSUME NEW e \in EngStates
    PROVE  SocketClose(e) \in EngStates
BY DEF SocketClose, EngStates, Conns

LEMMA SocketAbortType ==
    ASSUME NEW e \in EngStates
    PROVE  SocketAbort(e) \in EngStates
<1>1. SocketAbort(e).rst \in BOOLEAN
  BY DEF SocketAbort, EngStates
<1>2. SocketAbort(e).conn \in Conns
  BY DEF SocketAbort, EngStates, Conns
<1>3. QED
  BY <1>1, <1>2 DEF SocketAbort, EngStates

(* Setting one field of an engine socket to a value of its type.          *)
LEMMA EngSetConn ==
    ASSUME NEW e \in EngStates, NEW v \in Conns
    PROVE  [e EXCEPT !.conn = v] \in EngStates
<1>1. [e EXCEPT !.conn = v].conn = v
  BY DEF EngStates
<1>2. QED
  BY <1>1 DEF EngStates

LEMMA EngSetTxq ==
    ASSUME NEW e \in EngStates, NEW v \in 0 .. MaxQ
    PROVE  [e EXCEPT !.txq = v] \in EngStates
<1>1. [e EXCEPT !.txq = v].txq = v
  BY DEF EngStates
<1>2. QED
  BY <1>1 DEF EngStates

LEMMA EngSetRxq ==
    ASSUME NEW e \in EngStates, NEW v \in 0 .. MaxQ
    PROVE  [e EXCEPT !.rxq = v] \in EngStates
<1>1. [e EXCEPT !.rxq = v].rxq = v
  BY DEF EngStates
<1>2. QED
  BY <1>1 DEF EngStates

LEMMA EngSetFinIn ==
    ASSUME NEW e \in EngStates, NEW v \in BOOLEAN
    PROVE  [e EXCEPT !.finIn = v] \in EngStates
<1>1. [e EXCEPT !.finIn = v].finIn = v
  BY DEF EngStates
<1>2. QED
  BY <1>1 DEF EngStates

LEMMA EngSetFinOut ==
    ASSUME NEW e \in EngStates, NEW v \in {"none", "pending", "acked"}
    PROVE  [e EXCEPT !.finOut = v] \in EngStates
<1>1. [e EXCEPT !.finOut = v].finOut = v
  BY DEF EngStates
<1>2. QED
  BY <1>1 DEF EngStates

LEMMA EngSetRst ==
    ASSUME NEW e \in EngStates, NEW v \in BOOLEAN
    PROVE  [e EXCEPT !.rst = v] \in EngStates
<1>1. [e EXCEPT !.rst = v].rst = v
  BY DEF EngStates
<1>2. QED
  BY <1>1 DEF EngStates

(***************************************************************************)
(* Each action keeps the types.                                             *)
(***************************************************************************)
LEMMA TypeStep ==
    ASSUME TypeOK, [Next]_vars
    PROVE  TypeOK'
<1> USE DEF TypeOK, PoolTypeOK, PCs, SubStates, Directions, Results
<1>1. CASE UNCHANGED vars
  BY <1>1 DEF vars
<1>2. CASE Halted /\ UNCHANGED vars
  BY <1>2 DEF vars
<1>3. ASSUME NEW t \in Tasks, NEW r \in Results
      PROVE  NewNoBuffers(t) \/ NewThenDrop(t, r) => TypeOK'
  BY DEF NewNoBuffers, NewThenDrop, Finish, PCs, Results
<1>4. ASSUME NEW t \in Tasks, NEW c \in Conns,
             NEW p \in {"connecting", "accepting"},
             NewAndStart(t, c, p)
      PROVE  TypeOK'
  <2>1. [EngFresh EXCEPT !.conn = c] \in EngStates
    BY EngFreshType DEF EngFresh, EngStates
  <2>2. QED
    BY <1>4, <2>1 DEF NewAndStart, Alloc, PCs
<1>5. ASSUME NEW t \in Tasks, Connect(t) \/ Accept(t)
      PROVE  TypeOK'
  BY <1>3, <1>4, <1>5 DEF Connect, Accept, Results, Conns
<1>6. ASSUME NEW t \in Tasks, NEW r \in Results, DropSocket(t, r)
      PROVE  TypeOK'
  BY <1>6, EngFreshType DEF DropSocket, Free, Finish, PCs
<1>7. ASSUME NEW t \in Tasks, ConnectDone(t) \/ AcceptDone(t) \/ Drop(t)
      PROVE  TypeOK'
  BY <1>6, <1>7 DEF ConnectDone, AcceptDone, Drop, PCs, Results
<1>8. ASSUME NEW t \in Tasks, Read(t) \/ Write(t)
      PROVE  TypeOK'
  <2>1. eng[t] \in EngStates
    OBVIOUS
  <2>2. CASE Read(t)
    <3>1. CASE ReadReady(eng[t]) /\ eng' = [eng EXCEPT ![t].rxq = @ - 1]
      <4>0. eng[t].rxq - 1 \in 0 .. MaxQ
        BY <2>1, <3>1, MaxQAssumption DEF ReadReady, EngStates
      <4>1. [eng[t] EXCEPT !.rxq = @ - 1] \in EngStates
        BY <2>1, <4>0, EngSetRxq
      <4>2. eng' = [eng EXCEPT ![t] = [eng[t] EXCEPT !.rxq = @ - 1]]
        BY <3>1
      <4>3. QED
        BY <2>2, <4>1, <4>2 DEF Read
    <3>2. QED
      BY <2>2, <3>1 DEF Read
  <2>3. CASE Write(t)
    <3>1. CASE eng[t].txq < MaxQ /\ eng' = [eng EXCEPT ![t].txq = @ + 1]
      <4>0. eng[t].txq + 1 \in 0 .. MaxQ
        BY <2>1, <3>1, MaxQAssumption DEF EngStates
      <4>1. [eng[t] EXCEPT !.txq = @ + 1] \in EngStates
        BY <2>1, <4>0, EngSetTxq
      <4>2. eng' = [eng EXCEPT ![t] = [eng[t] EXCEPT !.txq = @ + 1]]
        BY <3>1
      <4>3. QED
        BY <2>3, <4>1, <4>2 DEF Write
    <3>2. QED
      BY <2>3, <3>1 DEF Write
  <2>4. QED
    BY <1>8, <2>2, <2>3
<1>9. ASSUME NEW t \in Tasks, NEW w \in Directions, CloseBegin(t, w)
      PROVE  TypeOK'
  BY <1>9, SocketCloseType DEF CloseBegin, PCs, SubStates, Directions
<1>10. ASSUME NEW t \in Tasks, CloseFlush(t) \/ CloseDiscard(t) \/ CloseEnd(t)
       PROVE  TypeOK'
  <2>1. CASE CloseFlush(t) \/ CloseEnd(t)
    BY <2>1 DEF CloseFlush, CloseEnd
  <2>2. CASE CloseDiscard(t)
    <3>1. CASE ReadReady(eng[t]) /\ eng' = [eng EXCEPT ![t].rxq = @ - 1]
      <4>0. eng[t].rxq - 1 \in 0 .. MaxQ
        BY <3>1, MaxQAssumption DEF ReadReady, EngStates
      <4>1. [eng[t] EXCEPT !.rxq = @ - 1] \in EngStates
        BY <4>0, EngSetRxq
      <4>2. eng' = [eng EXCEPT ![t] = [eng[t] EXCEPT !.rxq = @ - 1]]
        BY <3>1
      <4>3. QED
        BY <2>2, <4>1, <4>2 DEF CloseDiscard
    <3>2. QED
      BY <2>2, <3>1 DEF CloseDiscard
  <2>3. QED
    BY <1>10, <2>1, <2>2
<1>11. ASSUME NEW t \in Tasks, AbortBegin(t) \/ AbortEnd(t)
       PROVE  TypeOK'
  BY <1>11, SocketAbortType DEF AbortBegin, AbortEnd, PCs, Results
<1>12. ASSUME NEW t \in Tasks, NEW e \in EngStates, EngineStep(t, e)
       PROVE  TypeOK'
  BY <1>12 DEF EngineStep
<1>13. ASSUME NEW t \in Tasks, Engine(t)
       PROVE  TypeOK'
  <2> DEFINE e == eng[t]
  <2>1. e \in EngStates
    OBVIOUS
  <2>2. /\ [e EXCEPT !.conn = "estab"] \in EngStates
        /\ [e EXCEPT !.conn = "closed"] \in EngStates
        /\ [e EXCEPT !.finIn = TRUE] \in EngStates
        /\ [e EXCEPT !.finOut = "acked"] \in EngStates
        /\ [e EXCEPT !.rst = FALSE] \in EngStates
    BY <2>1, EngSetConn, EngSetFinIn, EngSetFinOut, EngSetRst DEF Conns
  <2>3. e.rxq < MaxQ => [e EXCEPT !.rxq = @ + 1] \in EngStates
    <3>1. e.rxq < MaxQ => e.rxq + 1 \in 0 .. MaxQ
      BY <2>1, MaxQAssumption DEF EngStates
    <3>2. QED
      BY <2>1, <3>1, EngSetRxq
  <2>4. e.txq > 0 => [e EXCEPT !.txq = @ - 1] \in EngStates
    <3>1. e.txq > 0 => e.txq - 1 \in 0 .. MaxQ
      BY <2>1, MaxQAssumption DEF EngStates
    <3>2. QED
      BY <2>1, <3>1, EngSetTxq
  <2>5. QED
    BY <1>12, <1>13, <2>2, <2>3, <2>4 DEF Engine, PeerAcks, SendRst
<1>14. ASSUME NEW t \in Tasks, Flush(t) \/ Readable(t)
       PROVE  TypeOK'
  BY <1>14 DEF Flush, Readable, Results
<1>15. QED
  BY <1>1, <1>2, <1>5, <1>7, <1>8, <1>9, <1>10, <1>11, <1>13, <1>14 DEF Next

(* The type invariant of the TCP model holds in every reachable state.     *)
THEOREM TypeCorrect == Spec => []TypeOK
<1>1. Init => TypeOK
  BY EngFreshType
  DEF Init, TypeOK, PoolInit, PoolTypeOK, PCs, Directions, SubStates, Results
<1>2. QED
  BY <1>1, TypeStep, PTL DEF Spec

-----------------------------------------------------------------------------
(***************************************************************************)
(* Slot ownership.  SlotOwnership alone is not inductive: a Drop frees     *)
(* token[t] and an Alloc from "idle" overwrites token[t], so the step must *)
(* know that the engine socket uses exactly the wrapper's slot and that a  *)
(* task holds a token exactly when it is not idle.                         *)
(***************************************************************************)
TokenMatchesPc == \A t \in Tasks : token[t] = NoToken <=> pc[t] = "idle"

BoundIsToken == \A t \in Tasks : bound[t] = token[t]

OwnInv == TypeOK /\ SlotOwnership /\ TokenMatchesPc /\ BoundIsToken

(* A step that keeps the pool, the tokens and the engine buffers, and that *)
(* moves no task into or out of "idle", keeps the ownership conjuncts.     *)
LEMMA OwnFrame ==
    ASSUME SlotOwnership, TokenMatchesPc, BoundIsToken,
           UNCHANGED <<used, token, bound>>,
           \A u \in Tasks : pc'[u] = "idle" <=> pc[u] = "idle"
    PROVE  SlotOwnership' /\ TokenMatchesPc' /\ BoundIsToken'
BY DEF SlotOwnership, TokenMatchesPc, BoundIsToken

(* A task in "idle" takes the first free slot and starts connect/accept.   *)
LEMMA OwnNewAndStart ==
    ASSUME TypeOK, SlotOwnership, TokenMatchesPc, BoundIsToken,
           NEW t \in Tasks, NEW c, NEW p \in PCs \ {"idle"},
           NewAndStart(t, c, p)
    PROVE  SlotOwnership' /\ TokenMatchesPc' /\ BoundIsToken'
<1>1. PICK n \in Slots :
         /\ Alloc(n)
         /\ token' = [token EXCEPT ![t] = n]
         /\ bound' = [bound EXCEPT ![t] = n]
  BY DEF NewAndStart
<1>2. token[t] = NoToken
  BY DEF NewAndStart, TokenMatchesPc
<1>3. \A u \in Tasks : token[u] # n
  BY <1>1 DEF Alloc, IsFirstFree, SlotOwnership
<1>4. used' = [used EXCEPT ![n] = TRUE]
  BY <1>1 DEF Alloc
<1>5. pc' = [pc EXCEPT ![t] = p]
  BY DEF NewAndStart
<1>6. SlotOwnership'
  <2>1. ASSUME NEW k \in Slots
        PROVE  used'[k] <=> \E u \in Tasks : token'[u] = k
    <3>1. CASE k = n
      BY <1>1, <1>4, <3>1 DEF TypeOK, PoolTypeOK
    <3>2. CASE k # n
      <4>1. used'[k] = used[k]
        BY <1>4, <3>2 DEF TypeOK, PoolTypeOK
      <4>2. \A u \in Tasks : token'[u] = k <=> token[u] = k
        BY <1>1, <1>2, <3>2, NAssumption DEF TypeOK, NoToken, Slots
      <4>3. QED
        BY <4>1, <4>2 DEF SlotOwnership
    <3>3. QED
      BY <3>1, <3>2
  <2>2. ASSUME NEW u \in Tasks, NEW v \in Tasks, u # v, token'[u] # NoToken
        PROVE  token'[u] # token'[v]
    BY <1>1, <1>2, <1>3, <2>2 DEF SlotOwnership, TypeOK
  <2>3. QED
    BY <2>1, <2>2 DEF SlotOwnership
<1>7. TokenMatchesPc'
  BY <1>1, <1>5, NAssumption DEF TokenMatchesPc, TypeOK, Slots, NoToken
<1>8. BoundIsToken'
  BY <1>1 DEF BoundIsToken, TypeOK
<1>9. QED
  BY <1>6, <1>7, <1>8

(* A task drops its socket: its token is freed and it becomes idle.        *)
LEMMA OwnDropSocket ==
    ASSUME TypeOK, SlotOwnership, TokenMatchesPc, BoundIsToken,
           NEW t \in Tasks, NEW r,
           DropSocket(t, r)
    PROVE  SlotOwnership' /\ TokenMatchesPc' /\ BoundIsToken'
<1> DEFINE m == token[t]
<1>1. m \in Slots
  BY DEF DropSocket, TypeOK
<1>2. \A u \in Tasks \ {t} : token[u] # m
  BY <1>1 DEF SlotOwnership, DropSocket
<1>3. /\ used' = [used EXCEPT ![m] = FALSE]
      /\ token' = [token EXCEPT ![t] = NoToken]
      /\ bound' = [bound EXCEPT ![t] = NoToken]
      /\ pc' = [pc EXCEPT ![t] = "idle"]
  BY DEF DropSocket, Free, Finish
<1>4. SlotOwnership'
  <2>1. ASSUME NEW k \in Slots
        PROVE  used'[k] <=> \E u \in Tasks : token'[u] = k
    <3>1. CASE k = m
      <4>1. ~used'[k]
        BY <1>1, <1>3, <3>1 DEF TypeOK, PoolTypeOK
      <4>2. \A u \in Tasks : token'[u] # k
        BY <1>1, <1>2, <1>3, <3>1, NAssumption DEF TypeOK, NoToken, Slots
      <4>3. QED
        BY <4>1, <4>2
    <3>2. CASE k # m
      <4>1. used'[k] = used[k]
        BY <1>3, <3>2 DEF TypeOK, PoolTypeOK
      <4>2. \A u \in Tasks : token'[u] = k <=> token[u] = k
        BY <1>3, <3>2, NAssumption DEF TypeOK, NoToken, Slots
      <4>3. QED
        BY <4>1, <4>2 DEF SlotOwnership
    <3>3. QED
      BY <3>1, <3>2
  <2>2. ASSUME NEW u \in Tasks, NEW v \in Tasks, u # v, token'[u] # NoToken
        PROVE  token'[u] # token'[v]
    BY <1>3, <2>2 DEF SlotOwnership, TypeOK
  <2>3. QED
    BY <2>1, <2>2 DEF SlotOwnership
<1>5. TokenMatchesPc'
  BY <1>3 DEF TokenMatchesPc, TypeOK
<1>6. BoundIsToken'
  BY <1>3 DEF BoundIsToken, TypeOK
<1>7. QED
  BY <1>4, <1>5, <1>6

(* Every step keeps the ownership conjuncts.                               *)
LEMMA OwnStep ==
    ASSUME OwnInv, [Next]_vars
    PROVE  SlotOwnership' /\ TokenMatchesPc' /\ BoundIsToken'
<1> USE DEF OwnInv
<1>1. CASE UNCHANGED vars
  BY <1>1, OwnFrame DEF vars
<1>2. CASE Halted /\ UNCHANGED vars
  BY <1>2, OwnFrame DEF vars
<1>3. ASSUME NEW t \in Tasks, Connect(t) \/ Accept(t)
      PROVE  SlotOwnership' /\ TokenMatchesPc' /\ BoundIsToken'
  <2>1. CASE NewNoBuffers(t) \/ \E r \in Results : NewThenDrop(t, r)
    BY <2>1, OwnFrame DEF NewNoBuffers, NewThenDrop, Finish, TypeOK
  <2>2. CASE NewAndStart(t, "syn", "connecting")
    BY <2>2, OwnNewAndStart DEF PCs
  <2>3. CASE NewAndStart(t, "listen", "accepting")
    BY <2>3, OwnNewAndStart DEF PCs
  <2>4. QED
    BY <1>3, <2>1, <2>2, <2>3 DEF Connect, Accept, Results
<1>4. ASSUME NEW t \in Tasks, ConnectDone(t) \/ AcceptDone(t) \/ Drop(t)
      PROVE  SlotOwnership' /\ TokenMatchesPc' /\ BoundIsToken'
  <2>1. CASE \E r \in Results : DropSocket(t, r)
    BY <2>1, OwnDropSocket
  <2>2. CASE /\ pc[t] \in {"connecting", "accepting"}
             /\ pc' = [pc EXCEPT ![t] = "open"] \/
                pc' = [pc EXCEPT ![t] = "panicked"]
             /\ UNCHANGED <<used, token, bound>>
    BY <2>2, OwnFrame DEF TypeOK
  <2>3. QED
    BY <1>4, <2>1, <2>2 DEF ConnectDone, AcceptDone, Drop, TypeOK, Results
<1>5. ASSUME NEW t \in Tasks,
             \/ Read(t) \/ Write(t) \/ Flush(t) \/ Readable(t)
             \/ \E w \in Directions : CloseBegin(t, w)
             \/ CloseFlush(t) \/ CloseDiscard(t) \/ CloseEnd(t)
             \/ AbortBegin(t) \/ AbortEnd(t) \/ Engine(t)
      PROVE  SlotOwnership' /\ TokenMatchesPc' /\ BoundIsToken'
  <2>1. UNCHANGED <<used, token, bound>>
    BY <1>5 DEF Read, Write, Flush, Readable, CloseBegin, CloseFlush,
                CloseDiscard, CloseEnd, AbortBegin, AbortEnd, Engine,
                EngineStep, PeerAcks, SendRst
  <2>2. \A u \in Tasks : pc'[u] = "idle" <=> pc[u] = "idle"
    BY <1>5 DEF Read, Write, Flush, Readable, CloseBegin, CloseFlush,
                CloseDiscard, CloseEnd, AbortBegin, AbortEnd, Engine,
                EngineStep, PeerAcks, SendRst,
                TypeOK
  <2>3. QED
    BY <2>1, <2>2, OwnFrame
<1>6. QED
  BY <1>1, <1>2, <1>3, <1>4, <1>5 DEF Next

(* The ownership invariant holds in every reachable state.                 *)
THEOREM OwnInvariant == Spec => []OwnInv
<1>1. Init => OwnInv
  <2> SUFFICES ASSUME Init PROVE OwnInv
    OBVIOUS
  <2>1. TypeOK
    BY EngFreshType
    DEF Init, TypeOK, PoolInit, PoolTypeOK, PCs, Directions, SubStates, Results
  <2>2. SlotOwnership /\ TokenMatchesPc /\ BoundIsToken
    BY NAssumption
    DEF Init, PoolInit, SlotOwnership, TokenMatchesPc, BoundIsToken, NoToken,
        Slots
  <2>3. QED
    BY <2>1, <2>2 DEF OwnInv
<1>2. OwnInv /\ [Next]_vars => OwnInv'
  BY OwnStep, TypeStep DEF OwnInv
<1>3. QED
  BY <1>1, <1>2, PTL DEF Spec

(* SlotOwnership (the property of the tcp ownership run): for every pool   *)
(* size and set of tasks, the flags of lib.rs Pool mark exactly the slots  *)
(* whose tokens live TcpSocket wrappers hold, and no token is held twice,  *)
(* across connect, accept, their error paths and Drop.                     *)
THEOREM SlotSafety == Spec => []SlotOwnership
<1>1. OwnInv => SlotOwnership
  BY DEF OwnInv
<1>2. QED
  BY <1>1, OwnInvariant, PTL

-----------------------------------------------------------------------------
(***************************************************************************)
(* Refinement of the abstract allocator.  A step that leaves the tokens    *)
(* alone is a stutter of Holders; NewAndStart is an Acquire of the slot it *)
(* allocates (first fit on `used` is first fit on Holders because a slot   *)
(* is used exactly when it is held); DropSocket is a Release by the only   *)
(* holder of the slot.                                                     *)
(***************************************************************************)
LEMMA RefStutter ==
    ASSUME UNCHANGED token
    PROVE  UNCHANGED Holders
BY DEF Holders

LEMMA RefAcquire ==
    ASSUME OwnInv, NEW t \in Tasks, NEW c, NEW p \in PCs \ {"idle"},
           NewAndStart(t, c, p)
    PROVE  \E n \in Slots : Abstract!Acquire(t, n)
<1> USE DEF OwnInv
<1>1. PICK n \in Slots :
         /\ Alloc(n)
         /\ token' = [token EXCEPT ![t] = n]
  BY DEF NewAndStart
<1>2. token[t] = NoToken
  BY DEF NewAndStart, TokenMatchesPc
<1>3. \A u \in Tasks : token[u] # n
  BY <1>1 DEF Alloc, IsFirstFree, SlotOwnership
<1>4. Holders[n] = {}
  BY <1>3 DEF Holders
<1>5. \A m \in 0 .. n - 1 : Holders[m] # {}
  BY <1>1, NAssumption DEF Alloc, IsFirstFree, SlotOwnership, Holders, Slots
<1>6. \A m \in Slots : t \notin Holders[m]
  BY <1>2, NAssumption DEF Holders, NoToken, Slots
<1>7. Holders' = [Holders EXCEPT ![n] = {t}]
  <2>1. ASSUME NEW k \in Slots PROVE Holders'[k] = [Holders EXCEPT ![n] = {t}][k]
    <3>1. CASE k = n
      BY <1>1, <1>3, <3>1 DEF Holders, TypeOK
    <3>2. CASE k # n
      BY <1>1, <1>2, <3>2, NAssumption DEF Holders, TypeOK, NoToken, Slots
    <3>3. QED
      BY <3>1, <3>2
  <2>2. QED
    BY <2>1 DEF Holders
<1>8. QED
  BY <1>4, <1>5, <1>6, <1>7 DEF Abstract!Acquire, Abstract!Slots, Slots

LEMMA RefRelease ==
    ASSUME OwnInv, NEW t \in Tasks, NEW r, DropSocket(t, r)
    PROVE  \E n \in Slots : Abstract!Release(t, n)
<1> USE DEF OwnInv
<1> DEFINE m == token[t]
<1>1. m \in Slots
  BY DEF DropSocket, TypeOK
<1>2. token' = [token EXCEPT ![t] = NoToken]
  BY DEF DropSocket
<1>3. Holders[m] = {t}
  <2>1. \A u \in Tasks : token[u] = m <=> u = t
    BY <1>1, NAssumption DEF SlotOwnership, NoToken, Slots
  <2>2. QED
    BY <1>1, <2>1 DEF Holders
<1>4. Holders' = [Holders EXCEPT ![m] = {}]
  <2>1. ASSUME NEW k \in Slots PROVE Holders'[k] = [Holders EXCEPT ![m] = {}][k]
    <3>1. CASE k = m
      BY <1>1, <1>2, <3>1, NAssumption
      DEF Holders, TypeOK, SlotOwnership, NoToken, Slots
    <3>2. CASE k # m
      BY <1>2, <3>2, NAssumption DEF Holders, TypeOK, NoToken, Slots
    <3>3. QED
      BY <3>1, <3>2
  <2>2. QED
    BY <2>1 DEF Holders
<1>5. QED
  BY <1>1, <1>3, <1>4 DEF Abstract!Release

LEMMA RefStep ==
    ASSUME OwnInv, [Next]_vars
    PROVE  [Abstract!Next]_Holders
<1> USE DEF OwnInv
<1>1. CASE UNCHANGED token
  BY <1>1, RefStutter
<1>2. ASSUME NEW t \in Tasks, NEW c, NEW p \in PCs \ {"idle"},
             NewAndStart(t, c, p)
      PROVE  [Abstract!Next]_Holders
  BY <1>2, RefAcquire DEF Abstract!Next, Abstract!Slots, Slots
<1>3. ASSUME NEW t \in Tasks, NEW r, DropSocket(t, r)
      PROVE  [Abstract!Next]_Holders
  BY <1>3, RefRelease DEF Abstract!Next, Abstract!Slots, Slots
<1>4. QED
  <2>1. CASE UNCHANGED vars
    BY <2>1, <1>1 DEF vars
  <2>2. CASE Halted /\ UNCHANGED vars
    BY <2>2, <1>1 DEF vars
  <2>3. ASSUME NEW t \in Tasks, Connect(t) \/ Accept(t)
        PROVE  [Abstract!Next]_Holders
    <3>1. CASE NewNoBuffers(t) \/ \E r \in Results : NewThenDrop(t, r)
      BY <3>1, <1>1 DEF NewNoBuffers, NewThenDrop
    <3>2. CASE NewAndStart(t, "syn", "connecting")
      BY <3>2, <1>2 DEF PCs
    <3>3. CASE NewAndStart(t, "listen", "accepting")
      BY <3>3, <1>2 DEF PCs
    <3>4. QED
      BY <2>3, <3>1, <3>2, <3>3 DEF Connect, Accept, Results
  <2>4. ASSUME NEW t \in Tasks, ConnectDone(t) \/ AcceptDone(t) \/ Drop(t)
        PROVE  [Abstract!Next]_Holders
    <3>1. CASE \E r \in Results : DropSocket(t, r)
      BY <3>1, <1>3
    <3>2. CASE UNCHANGED token
      BY <3>2, <1>1
    <3>3. QED
      BY <2>4, <3>1, <3>2 DEF ConnectDone, AcceptDone, Drop, TypeOK, Results
  <2>5. ASSUME NEW t \in Tasks,
               \/ Read(t) \/ Write(t) \/ Flush(t) \/ Readable(t)
               \/ \E w \in Directions : CloseBegin(t, w)
               \/ CloseFlush(t) \/ CloseDiscard(t) \/ CloseEnd(t)
               \/ AbortBegin(t) \/ AbortEnd(t) \/ Engine(t)
        PROVE  [Abstract!Next]_Holders
    <3>1. UNCHANGED token
      BY <2>5 DEF Read, Write, Flush, Readable, CloseBegin, CloseFlush,
                  CloseDiscard, CloseEnd, AbortBegin, AbortEnd, Engine,
                  EngineStep, PeerAcks, SendRst
    <3>2. QED
      BY <3>1, <1>1
  <2>6. QED
    BY <2>1, <2>2, <2>3, <2>4, <2>5 DEF Next

(* AllocatorRefinement (the run's property): the TCP wrapper over lib.rs   *)
(* Pool implements the abstract allocator, for every pool size and set of  *)
(* tasks: connect/accept take the lowest free slot for a task holding      *)
(* none, Drop gives back only the dropper's slot, all else stutters.       *)
THEOREM Refinement == Spec => AllocatorRefinement
<1>1. Init => Abstract!Init
  BY NAssumption DEF Init, PoolInit, Abstract!Init, Abstract!Slots, Slots,
                     Holders, NoToken
<1>2. OwnInv /\ [Next]_vars => [Abstract!Next]_Holders
  BY RefStep
<1>3. QED
  BY <1>1, <1>2, OwnInvariant, PTL DEF Spec, AllocatorRefinement, Abstract!Spec

(* The allocator's guarantee carried over by the refinement: under the   *)
(* mapping Holders, no two sockets hold the token of the same slot and   *)
(* none holds two, in every reachable state.  Only the refinement theorem *)
(* and the abstract specification's own invariant are used.               *)
THEOREM HoldersExclusive == Spec => []Abstract!Exclusive
BY Refinement, Abstract!AllocatorExclusive, PTL DEF AllocatorRefinement

-----------------------------------------------------------------------------
(***************************************************************************)
(* Close.  CloseOkMeansDrained is about the step of CloseEnd, which only   *)
(* sees flushSt and readSt; that an "ok" there means the side is drained   *)
(* is a fact about the states in between, kept by CloseInv:                *)
(*   - an open socket was established (connect and accept only return one *)
(*     so), and an established connection only ever becomes closed;        *)
(*   - while closing, the futures started match the direction asked for;  *)
(*   - close(Write/Both) queued our FIN (SocketClose), so a Quiescent      *)
(*     engine with a flush running has that FIN acknowledged;              *)
(*   - a flush or discard that finished with Ok stays drained: nothing     *)
(*     queues data to send or reads the stream while the task is closing, *)
(*     and the peer sends nothing after its FIN.                           *)
(***************************************************************************)
Connected(t) == pc[t] \in {"open", "closing", "aborting"} =>
                    eng[t].conn \in {"estab", "closed"}

ClosePlan(t) == pc[t] = "closing" =>
    /\ what[t] \in Directions
    /\ flushSt[t] # "none" <=> what[t] \in {"Write", "Both"}
    /\ readSt[t] # "none" <=> what[t] \in {"Read", "Both"}

FinQueued(t) == pc[t] = "closing" /\ flushSt[t] # "none" /\ eng[t].conn = "estab"
                    => eng[t].finOut # "none"

SidesDone(t) == pc[t] = "closing" =>
    /\ flushSt[t] = "ok" => WriteSideDone(eng[t])
    /\ readSt[t] = "ok" => ReadSideDone(eng[t])

CloseOf(t) == Connected(t) /\ ClosePlan(t) /\ FinQueued(t) /\ SidesDone(t)

CloseInv == TypeOK /\ \A t \in Tasks : CloseOf(t)

(* What a step of task t leaves alone: the close state of every other task.*)
OthersKept(t) ==
    \A u \in Tasks \ {t} :
        /\ pc'[u] = pc[u] /\ eng'[u] = eng[u] /\ what'[u] = what[u]
        /\ flushSt'[u] = flushSt[u] /\ readSt'[u] = readSt[u]

(* A task whose close state a step leaves alone keeps CloseOf.            *)
LEMMA CloseFrame ==
    ASSUME NEW u, CloseOf(u),
           pc'[u] = pc[u], eng'[u] = eng[u], what'[u] = what[u],
           flushSt'[u] = flushSt[u], readSt'[u] = readSt[u]
    PROVE  CloseOf(u)'
BY DEF CloseOf, Connected, ClosePlan, FinQueued, SidesDone

(* A step that takes task t to a state without an open socket.            *)
LEMMA CloseLeaves ==
    ASSUME NEW t, pc'[t] \notin {"open", "closing", "aborting"}
    PROVE  CloseOf(t)'
BY DEF CloseOf, Connected, ClosePlan, FinQueued, SidesDone

(* Every action of task t leaves the close state of the other tasks alone. *)
LEMMA CloseOthers ==
    ASSUME TypeOK, NEW t \in Tasks,
           \/ Connect(t) \/ Accept(t) \/ ConnectDone(t) \/ AcceptDone(t)
           \/ Read(t) \/ Write(t) \/ Flush(t) \/ Readable(t)
           \/ \E w \in Directions : CloseBegin(t, w)
           \/ CloseFlush(t) \/ CloseDiscard(t) \/ CloseEnd(t)
           \/ AbortBegin(t) \/ AbortEnd(t) \/ Drop(t) \/ Engine(t)
    PROVE  OthersKept(t)
<1> USE DEF OthersKept, TypeOK
<1>1. CASE Connect(t) \/ Accept(t)
  BY <1>1 DEF Connect, Accept, NewNoBuffers, NewThenDrop, NewAndStart, Finish
<1>2. CASE ConnectDone(t) \/ AcceptDone(t) \/ Drop(t)
  BY <1>2 DEF ConnectDone, AcceptDone, Drop, DropSocket, Finish
<1>3. CASE Read(t) \/ Write(t) \/ Flush(t) \/ Readable(t)
  BY <1>3 DEF Read, Write, Flush, Readable
<1>4. CASE \E w \in Directions : CloseBegin(t, w)
  BY <1>4 DEF CloseBegin
<1>5. CASE CloseFlush(t) \/ CloseDiscard(t) \/ CloseEnd(t)
  BY <1>5 DEF CloseFlush, CloseDiscard, CloseEnd
<1>6. CASE AbortBegin(t) \/ AbortEnd(t)
  BY <1>6 DEF AbortBegin, AbortEnd
<1>7. CASE Engine(t)
  BY <1>7 DEF Engine, EngineStep, PeerAcks, SendRst
<1>8. QED
  BY <1>1, <1>2, <1>3, <1>4, <1>5, <1>6, <1>7

(* Creating, failing and dropping a socket leave the task without one; a  *)
(* connect or accept that resolves leaves it established (or panicked).   *)
LEMMA CloseOpenDrop ==
    ASSUME TypeOK, NEW t \in Tasks,
           Connect(t) \/ Accept(t) \/ ConnectDone(t) \/ AcceptDone(t) \/ Drop(t)
    PROVE  CloseOf(t)'
<1> USE DEF TypeOK
<1>1. CASE Connect(t) \/ Accept(t) \/ Drop(t)
  <2>1. pc'[t] \notin {"open", "closing", "aborting"}
    BY <1>1 DEF Connect, Accept, Drop, NewNoBuffers, NewThenDrop,
                NewAndStart, DropSocket, Finish
  <2>2. QED
    BY <2>1, CloseLeaves
<1>2. CASE ConnectDone(t) \/ AcceptDone(t)
  <2>1. pc'[t] \notin {"open", "closing", "aborting"} \/
        (pc'[t] = "open" /\ eng'[t].conn = "estab")
    BY <1>2 DEF ConnectDone, AcceptDone, DropSocket, Finish
  <2>2. QED
    BY <2>1, CloseLeaves DEF CloseOf, Connected, ClosePlan, FinQueued, SidesDone
<1>3. QED
  BY <1>1, <1>2

(* Read, write, flush and readable on an open socket keep its connection *)
(* state and do not start or end a close.                                  *)
LEMMA CloseUse ==
    ASSUME TypeOK, NEW t \in Tasks, CloseOf(t),
           Read(t) \/ Write(t) \/ Flush(t) \/ Readable(t)
    PROVE  CloseOf(t)'
<1>1. pc[t] = "open" /\ pc'[t] = "open" /\ eng'[t].conn = eng[t].conn
  BY DEF Read, Write, Flush, Readable, TypeOK, EngStates
<1>2. QED
  BY <1>1 DEF CloseOf, Connected, ClosePlan, FinQueued, SidesDone

(* close(w) on an established or closed connection keeps its state, and   *)
(* for Write and Both leaves our FIN queued if it is still established.   *)
LEMMA CloseBeginKeeps ==
    ASSUME TypeOK, NEW t \in Tasks, CloseOf(t), NEW w \in Directions,
           CloseBegin(t, w)
    PROVE  CloseOf(t)'
<1>1. eng[t] \in EngStates /\ eng[t].conn \in {"estab", "closed"}
  BY DEF CloseBegin, CloseOf, Connected, TypeOK
<1>2. /\ eng'[t].conn = eng[t].conn
      /\ w \in {"Write", "Both"} /\ eng'[t].conn = "estab" => eng'[t].finOut # "none"
  BY <1>1 DEF CloseBegin, SocketClose, TypeOK, EngStates
<1>3. /\ pc'[t] = "closing" /\ what'[t] = w
      /\ flushSt'[t] = IF w \in {"Both", "Write"} THEN "run" ELSE "none"
      /\ readSt'[t] = IF w \in {"Both", "Read"} THEN "run" ELSE "none"
  BY DEF CloseBegin, TypeOK
<1>4. QED
  BY <1>1, <1>2, <1>3
  DEF CloseOf, Connected, ClosePlan, FinQueued, SidesDone, Directions

(* A flush that completes Ok on an established or closed connection with   *)
(* our FIN queued has the write side done.                                 *)
LEMMA QuiescentWriteDone ==
    ASSUME NEW e \in EngStates, e.conn \in {"estab", "closed"},
           e.conn = "estab" => e.finOut # "none", Quiescent(e)
    PROVE  WriteSideDone(e)
BY DEF EngStates, Quiescent, WriteSideDone

LEMMA CloseFlushKeeps ==
    ASSUME TypeOK, NEW t \in Tasks, CloseOf(t), CloseFlush(t)
    PROVE  CloseOf(t)'
<1>1. /\ pc[t] = "closing" /\ flushSt[t] = "run"
      /\ pc'[t] = pc[t] /\ eng'[t] = eng[t] /\ what'[t] = what[t]
      /\ readSt'[t] = readSt[t]
      /\ flushSt'[t] = "ok"
      /\ flushSt'[t] = "ok" => Quiescent(eng[t])
  BY DEF CloseFlush, TypeOK
<1>2. flushSt'[t] = "ok" => WriteSideDone(eng[t])
  BY <1>1, QuiescentWriteDone DEF CloseOf, Connected, FinQueued, TypeOK
<1>3. QED
  BY <1>1, <1>2 DEF CloseOf, Connected, ClosePlan, FinQueued, SidesDone

LEMMA CloseDiscardKeeps ==
    ASSUME TypeOK, NEW t \in Tasks, CloseOf(t), CloseDiscard(t)
    PROVE  CloseOf(t)'
<1>1. /\ pc[t] = "closing" /\ readSt[t] = "run"
      /\ pc'[t] = pc[t] /\ what'[t] = what[t] /\ flushSt'[t] = flushSt[t]
  BY DEF CloseDiscard, TypeOK
<1>2. /\ eng'[t].conn = eng[t].conn /\ eng'[t].txq = eng[t].txq
      /\ eng'[t].finOut = eng[t].finOut
      /\ readSt'[t] \in {"run", "err"} \/ (readSt'[t] = "ok" /\ ReadEof(eng'[t]))
  BY DEF CloseDiscard, TypeOK, EngStates
<1>3. QED
  BY <1>1, <1>2
  DEF CloseOf, Connected, ClosePlan, FinQueued, SidesDone, WriteSideDone,
      ReadSideDone

LEMMA CloseEndAbortKeep ==
    ASSUME TypeOK, NEW t \in Tasks, CloseOf(t),
           CloseEnd(t) \/ AbortBegin(t) \/ AbortEnd(t)
    PROVE  CloseOf(t)'
<1>1. /\ pc'[t] \in {"open", "aborting"}
      /\ eng'[t].conn \in {"estab", "closed"}
  <2>1. CASE CloseEnd(t)
    BY <2>1 DEF CloseEnd, CloseOf, Connected, TypeOK
  <2>2. CASE AbortBegin(t)
    BY <2>2 DEF AbortBegin, SocketAbort, TypeOK, EngStates
  <2>3. CASE AbortEnd(t)
    BY <2>3 DEF AbortEnd, CloseOf, Connected, TypeOK
  <2>4. QED
    BY <2>1, <2>2, <2>3
<1>2. QED
  BY <1>1 DEF CloseOf, Connected, ClosePlan, FinQueued, SidesDone

(* The engine and the peer keep CloseOf of a task: an established        *)
(* connection only becomes closed, our FIN only becomes acknowledged, and  *)
(* no data arrives after the peer's FIN.  A drained side stays drained:   *)
(* the peer acknowledges nothing once all is acknowledged.                 *)
LEMMA CloseEngineKeeps ==
    ASSUME TypeOK, NEW t \in Tasks, CloseOf(t), Engine(t)
    PROVE  CloseOf(t)'
<1> DEFINE e == eng[t]
<1> USE DEF CloseOf, Connected, ClosePlan, FinQueued, SidesDone,
            WriteSideDone, ReadSideDone, ReadEof
<1>1. /\ e \in EngStates
      /\ pc'[t] = pc[t] /\ what'[t] = what[t]
      /\ flushSt'[t] = flushSt[t] /\ readSt'[t] = readSt[t]
  BY DEF Engine, EngineStep, PeerAcks, SendRst, TypeOK
<1>2. CASE \/ e.conn = "syn" /\ EngineStep(t, [e EXCEPT !.conn = "estab"])
           \/ e.conn = "syn" /\ EngineStep(t, [e EXCEPT !.conn = "closed"])
           \/ e.conn = "listen" /\ EngineStep(t, [e EXCEPT !.conn = "estab"])
  <2>1. pc'[t] \notin {"open", "closing", "aborting"}
    BY <1>1, <1>2
  <2>2. QED
    BY <2>1, CloseLeaves
<1>3. CASE e.conn = "estab" /\ EngineStep(t, [e EXCEPT !.conn = "closed"])
  <2>1. eng'[t] = [e EXCEPT !.conn = "closed"]
    BY <1>3 DEF EngineStep, TypeOK
  <2>2. QED
    BY <1>1, <2>1 DEF EngStates
<1>4. CASE \/ /\ e.conn = "estab" /\ ~e.finIn /\ e.rxq < MaxQ
              /\ EngineStep(t, [e EXCEPT !.rxq = @ + 1])
           \/ e.conn = "estab" /\ ~e.finIn /\ EngineStep(t, [e EXCEPT !.finIn = TRUE])
  <2>1. /\ eng'[t].conn = e.conn /\ eng'[t].txq = e.txq
        /\ eng'[t].finOut = e.finOut /\ ~e.finIn
    BY <1>1, <1>4 DEF EngineStep, TypeOK, EngStates
  <2>2. QED
    BY <1>1, <2>1
<1>5. CASE PeerAcks(t)
  <2>1. /\ e.conn = "estab" /\ ~WriteSideDone(e)
        /\ eng'[t].conn = e.conn /\ eng'[t].finIn = e.finIn
        /\ eng'[t].rxq = e.rxq
        /\ eng'[t].finOut \in {e.finOut, "acked"}
    <3>1. CASE e.conn = "estab" /\ e.txq > 0 /\ EngineStep(t, [e EXCEPT !.txq = @ - 1])
      BY <1>1, <3>1 DEF EngineStep, TypeOK, EngStates
    <3>2. CASE /\ e.conn = "estab" /\ e.txq = 0 /\ e.finOut = "pending"
               /\ EngineStep(t, [e EXCEPT !.finOut = "acked"])
      BY <1>1, <3>2 DEF EngineStep, TypeOK, EngStates
    <3>3. QED
      BY <1>5, <3>1, <3>2 DEF PeerAcks
  <2>2. QED
    BY <1>1, <2>1
<1>6. CASE SendRst(t)
  <2>1. eng'[t] = [e EXCEPT !.rst = FALSE]
    BY <1>6 DEF SendRst, EngineStep, TypeOK
  <2>2. QED
    BY <1>1, <2>1 DEF EngStates
<1>7. QED
  BY <1>2, <1>3, <1>4, <1>5, <1>6 DEF Engine

LEMMA CloseStep ==
    ASSUME CloseInv, [Next]_vars
    PROVE  CloseInv'
<1> USE DEF CloseInv
<1>1. TypeOK'
  BY TypeStep
<1>2. CASE UNCHANGED vars
  BY <1>1, <1>2, CloseFrame DEF vars
<1>3. CASE Halted /\ UNCHANGED vars
  BY <1>1, <1>3, CloseFrame DEF vars
<1>4. ASSUME NEW t \in Tasks,
             \/ Connect(t) \/ Accept(t) \/ ConnectDone(t) \/ AcceptDone(t)
             \/ Read(t) \/ Write(t) \/ Flush(t) \/ Readable(t)
             \/ \E w \in Directions : CloseBegin(t, w)
             \/ CloseFlush(t) \/ CloseDiscard(t) \/ CloseEnd(t)
             \/ AbortBegin(t) \/ AbortEnd(t) \/ Drop(t) \/ Engine(t)
      PROVE  CloseInv'
  <2>1. CloseOf(t)'
    <3>1. CASE Connect(t) \/ Accept(t) \/ ConnectDone(t) \/ AcceptDone(t) \/ Drop(t)
      BY <3>1, CloseOpenDrop
    <3>2. CASE Read(t) \/ Write(t) \/ Flush(t) \/ Readable(t)
      BY <3>2, CloseUse
    <3>3. CASE \E w \in Directions : CloseBegin(t, w)
      BY <3>3, CloseBeginKeeps
    <3>4. CASE CloseFlush(t)
      BY <3>4, CloseFlushKeeps
    <3>5. CASE CloseDiscard(t)
      BY <3>5, CloseDiscardKeeps
    <3>6. CASE CloseEnd(t) \/ AbortBegin(t) \/ AbortEnd(t)
      BY <3>6, CloseEndAbortKeep
    <3>7. CASE Engine(t)
      BY <3>7, CloseEngineKeeps
    <3>8. QED
      BY <1>4, <3>1, <3>2, <3>3, <3>4, <3>5, <3>6, <3>7
  <2>2. OthersKept(t)
    BY <1>4, CloseOthers
  <2>3. ASSUME NEW u \in Tasks \ {t} PROVE CloseOf(u)'
    BY <2>2, CloseFrame DEF OthersKept
  <2>4. QED
    BY <1>1, <2>1, <2>3
<1>5. QED
  BY <1>2, <1>3, <1>4 DEF Next

(* The close invariant holds in every reachable state.                    *)
THEOREM CloseInvariant == Spec => []CloseInv
<1>1. Init => CloseInv
  BY EngFreshType DEF Init, CloseInv, CloseOf, Connected,
     ClosePlan, FinQueued, SidesDone, TypeOK, PoolInit, PoolTypeOK, PCs,
     Directions, SubStates, Results
<1>2. QED
  BY <1>1, CloseStep, PTL DEF Spec

(* The only step that takes a closing task back to "open" is CloseEnd:   *)
(* the other actions of the task start from another pc or keep it, and    *)
(* the actions of the other tasks leave its pc alone.                     *)
LEMMA OnlyCloseEndReopens ==
    ASSUME TypeOK, [Next]_vars, NEW t \in Tasks,
           pc[t] = "closing", pc'[t] = "open"
    PROVE  CloseEnd(t)
<1>1. CASE UNCHANGED vars \/ (Halted /\ UNCHANGED vars)
  BY <1>1 DEF vars
<1>2. ASSUME NEW u \in Tasks,
             \/ Connect(u) \/ Accept(u) \/ ConnectDone(u) \/ AcceptDone(u)
             \/ Read(u) \/ Write(u) \/ Flush(u) \/ Readable(u)
             \/ \E w \in Directions : CloseBegin(u, w)
             \/ CloseFlush(u) \/ CloseDiscard(u) \/ CloseEnd(u)
             \/ AbortBegin(u) \/ AbortEnd(u) \/ Drop(u) \/ Engine(u)
      PROVE  CloseEnd(t)
  <2>1. CASE u # t
    BY <1>2, <2>1, CloseOthers DEF OthersKept
  <2>2. CASE u = t
    <3>1. ~(Connect(t) \/ Accept(t) \/ ConnectDone(t) \/ AcceptDone(t))
      BY DEF Connect, Accept, NewNoBuffers, NewThenDrop, NewAndStart,
             ConnectDone, AcceptDone
    <3>2. ~(Read(t) \/ Write(t) \/ Flush(t) \/ Readable(t))
      BY DEF Read, Write, Flush, Readable
    <3>3. ~(\E w \in Directions : CloseBegin(t, w)) /\ ~AbortBegin(t) /\ ~AbortEnd(t)
      BY DEF CloseBegin, AbortBegin, AbortEnd
    <3>4. ~CloseFlush(t) /\ ~CloseDiscard(t)
      BY DEF CloseFlush, CloseDiscard, TypeOK
    <3>5. ~Drop(t)
      BY DEF Drop, DropSocket, Finish, TypeOK
    <3>6. ~Engine(t)
      BY DEF Engine, EngineStep, PeerAcks, SendRst
    <3>7. QED
      BY <1>2, <2>2, <3>1, <3>2, <3>3, <3>4, <3>5, <3>6
  <2>3. QED
    BY <2>1, <2>2
<1>3. QED
  BY <1>1, <1>2 DEF Next

(* TcpSocket::close returns Ok only once every direction it was asked to  *)
(* shut is drained: our FIN acknowledged (or the connection gone) for    *)
(* Write and Both, the peer's stream read to its end for Read and Both.  *)
(* The step of CloseEnd sees only that neither future failed; CloseInv   *)
(* says what that means of the engine socket.                             *)
THEOREM CloseDrained == Spec => CloseOkMeansDrained
<1>1. ASSUME CloseInv, [Next]_vars, NEW t \in Tasks,
             pc[t] = "closing", pc'[t] = "open", result'[t] = "Ok"
      PROVE  /\ what[t] \in {"Write", "Both"} => WriteSideDone(eng[t])
             /\ what[t] \in {"Read", "Both"} => ReadSideDone(eng[t])
  <2>1. CloseEnd(t)
    BY <1>1, OnlyCloseEndReopens DEF CloseInv
  <2>2. flushSt[t] \in {"none", "ok"} /\ readSt[t] \in {"none", "ok"}
    BY <1>1, <2>1 DEF CloseEnd, CloseJoined, CloseInv, TypeOK, SubStates
  <2>3. QED
    BY <1>1, <2>2 DEF CloseInv, CloseOf, ClosePlan, SidesDone
<1> DEFINE A == \A t \in Tasks :
         (pc[t] = "closing" /\ pc'[t] = "open" /\ result'[t] = "Ok") =>
            /\ what[t] \in {"Write", "Both"} => WriteSideDone(eng[t])
            /\ what[t] \in {"Read", "Both"} => ReadSideDone(eng[t])
<1>2. CloseInv /\ [Next]_vars => [A]_vars
  BY <1>1
<1>3. QED
  BY <1>2, CloseInvariant, PTL DEF Spec, CloseOkMeansDrained

=============================================================================
