----------------------------- MODULE Stack_proofs -----------------------------
(***************************************************************************)
(* Proofs about the stack composition, for every set of kinds, every pool  *)
(* size and every SocketSet size.  SetMatchesPools is inductive together  *)
(* with the type invariant: an Open adds the entry of a slot that was free *)
(* and so had none, and a Close removes the one entry of a used slot.     *)
(* With it, and SizedForPools, a counting argument shows no add panics.   *)
(***************************************************************************)
EXTENDS Stack, FiniteSetTheorems, TLAPS

Occupied == {entries[i] : i \in Entries} \ {Vacant}

IInv == TypeOK /\ SetMatchesPools

LEMMA InitInv == Init => IInv
<1> SUFFICES ASSUME Init PROVE IInv
  OBVIOUS
<1>1. TypeOK
  <2>1. DOMAIN pools = Kinds /\ \A k \in Kinds : pools[k] \in [P(k)!Slots -> BOOLEAN]
    BY DEF Init
  <2>2. \A i \in Entries : entries[i] \in StackOwners \cup {Vacant}
    BY StackAssumption DEF Init, Entries, StackOwners
  <2>3. entries \in [Entries -> StackOwners \cup WrapperOwners \cup {Vacant}]
    BY <2>2 DEF Init
  <2>4. QED
    BY <2>1, <2>3 DEF Init, TypeOK
<1>2. Live = {}
  BY StackAssumption DEF Init, Live, WrapperOwners, P!Slots
<1>3. Occupied = StackOwners
  BY StackAssumption DEF Init, Occupied, StackOwners, Entries, Vacant
<1>4. \A i, j \in Entries : i # j /\ entries[i] # Vacant => entries[i] # entries[j]
  BY StackAssumption DEF Init, Entries, Vacant
<1>5. QED
  BY <1>1, <1>2, <1>3, <1>4 DEF IInv, SetMatchesPools, Occupied


(* A wrapper's new for kind k keeps the pairing: the first free slot n had *)
(* no entry, and the first vacant entry now holds <<k, n>>; or the add     *)
(* panics, after which nothing more is claimed.                            *)
LEMMA OpenStep ==
    ASSUME IInv, ~panicked, NEW k \in Kinds, Open(k)
    PROVE  IInv'
<1> USE DEF IInv
<1>1. PICK n \in P(k)!Slots :
        /\ P(k)!IsFirstFree(n)
        /\ pools' = [pools EXCEPT ![k][n] = TRUE]
        /\ AddSocket(<<k, n>>)
  BY DEF Open
<1> DEFINE o == <<k, n>>
<1>2. o \in WrapperOwners /\ o \notin StackOwners /\ o # Vacant
  BY StackAssumption DEF WrapperOwners, StackOwners, Vacant
<1>3. ~pools[k][n]
  BY <1>1 DEF P!IsFirstFree
<1>4. pools' \in [Kinds -> UNION {[P(m)!Slots -> BOOLEAN] : m \in Kinds}]
      /\ DOMAIN pools' = Kinds
      /\ \A m \in Kinds : pools'[m] \in [P(m)!Slots -> BOOLEAN]
  BY <1>1 DEF TypeOK
<1>5. CASE SetFull /\ panicked' = TRUE /\ UNCHANGED entries
  BY <1>4, <1>5 DEF TypeOK, SetMatchesPools
<1>6. CASE \E i \in Entries : FirstVacant(i) /\ entries' = [entries EXCEPT ![i] = o]
           /\ UNCHANGED panicked
  <2>1. PICK i \in Entries : FirstVacant(i) /\ entries' = [entries EXCEPT ![i] = o]
    BY <1>6
  <2>2. o \notin Occupied
    <3>1. o \notin Live
      BY <1>3 DEF Live
    <3>2. QED
      BY <1>2, <3>1 DEF SetMatchesPools, Occupied
  <2>3. TypeOK'
    BY <1>2, <1>4, <1>6, <2>1 DEF TypeOK
  <2>4. Live' = Live \cup {o}
    BY <1>1, <2>3 DEF Live, WrapperOwners, TypeOK
  <2>5. Occupied' = Occupied \cup {o}
    BY <1>2, <2>1 DEF Occupied, FirstVacant, TypeOK
  <2>6. \A a, b \in Entries :
          a # b /\ entries'[a] # Vacant => entries'[a] # entries'[b]
    BY <2>1, <2>2 DEF Occupied, SetMatchesPools, TypeOK
  <2>7. QED
    BY <2>3, <2>4, <2>5, <2>6, <1>6 DEF SetMatchesPools, Occupied
<1>7. QED
  BY <1>1, <1>5, <1>6 DEF AddSocket

(* The drop of the wrapper holding slot n of kind k keeps the pairing:    *)
(* the one entry of <<k, n>> becomes vacant as the slot becomes free.     *)
LEMMA CloseStep ==
    ASSUME IInv, ~panicked, NEW k \in Kinds, NEW n \in P(k)!Slots, Close(k, n)
    PROVE  IInv'
<1> USE DEF IInv
<1> DEFINE o == <<k, n>>
<1>1. o \in WrapperOwners /\ o \notin StackOwners /\ o # Vacant
  BY StackAssumption DEF WrapperOwners, StackOwners, Vacant
<1>2. /\ pools' = [pools EXCEPT ![k][n] = FALSE]
      /\ entries' = [i \in Entries |-> IF entries[i] = o THEN Vacant ELSE entries[i]]
      /\ panicked' = panicked
  BY DEF Close, RemoveSocket
<1>3. TypeOK'
  BY <1>2 DEF TypeOK
<1>4. Live' = Live \ {o}
  BY <1>2, <1>3 DEF Live, WrapperOwners, TypeOK
<1>5. Occupied' = Occupied \ {o}
  BY <1>2 DEF Occupied, TypeOK
<1>6. \A a, b \in Entries :
        a # b /\ entries'[a] # Vacant => entries'[a] # entries'[b]
  BY <1>2 DEF SetMatchesPools, TypeOK
<1>7. QED
  BY <1>1, <1>3, <1>4, <1>5, <1>6 DEF SetMatchesPools, Occupied


LEMMA StepInv ==
    ASSUME IInv, [Next]_vars
    PROVE  IInv'
<1>1. CASE ~panicked /\ \E k \in Kinds : Open(k) \/ \E n \in P(k)!Slots : Close(k, n)
  BY <1>1, OpenStep, CloseStep
<1>2. CASE UNCHANGED vars
  BY <1>2 DEF vars, IInv, TypeOK, SetMatchesPools, Live, WrapperOwners
<1>3. QED
  BY <1>1, <1>2 DEF Next

(* SetMatchesPools (the property of the stack entries run), for every set  *)
(* of kinds, pool sizes and SocketSet size: until a panic, the socket set *)
(* holds the stack's own sockets and exactly one entry per used slot, so  *)
(* every wrapper's Drop removes the socket its new added.                 *)
THEOREM SetPairing == Spec => []SetMatchesPools
<1>1. IInv => SetMatchesPools
  BY DEF IInv
<1>2. QED
  BY InitInv, StepInv, <1>1, PTL DEF Spec

(* Typing of the stack (the type invariant of the stack entries run): the  *)
(* SocketSet keeps its SetCap entries, each vacant or held by a stack      *)
(* socket or by a slot of some pool, whatever sockets are opened and      *)
(* dropped, also after an add finds it full (borrowed storage never grows).*)
THEOREM StackTypeCorrect == Spec => []TypeOK
<1>1. IInv => TypeOK
  BY DEF IInv
<1>2. QED
  BY InitInv, StepInv, <1>1, PTL DEF Spec


-----------------------------------------------------------------------------
(***************************************************************************)
(* Panic freedom under SizedForPools.  A full set of SetCap distinct       *)
(* entries would need SetCap distinct owners, but while a pool has a free  *)
(* slot there are at most Reserved + Cardinality(WrapperOwners) - 1 live   *)
(* owners: the pigeonhole principle gives two equal entries, which         *)
(* SetMatchesPools forbids.  So the add in Open never finds the set full.  *)
(***************************************************************************)
LEMMA WrapperOwnersFinite == IsFiniteSet(WrapperOwners)
<1> DEFINE Part(k) == {k} \X P(k)!Slots
           Parts == {Part(k) : k \in Kinds}
<1>1. \A k \in Kinds : IsFiniteSet(Part(k))
  <2> SUFFICES ASSUME NEW k \in Kinds PROVE IsFiniteSet(Part(k))
    OBVIOUS
  <2>1. IsFiniteSet({k})
    BY FS_Singleton
  <2>2. IsFiniteSet(P(k)!Slots)
    <3>1. PoolN[k] - 1 \in Int
      BY StackAssumption
    <3>2. QED
      BY <3>1, FS_Interval DEF P!Slots
  <2>3. QED
    BY <2>1, <2>2, FS_Product
<1>2. IsFiniteSet(Parts)
  <2>1. [k \in Kinds |-> Part(k)] \in Surjection(Kinds, Parts)
    BY DEF Surjection
  <2>2. QED
    BY <2>1, StackAssumption, FS_Surjection
<1>3. QED
  BY <1>1, <1>2, FS_UNION DEF WrapperOwners

LEMMA StackOwnersCard ==
    IsFiniteSet(StackOwners) /\ Cardinality(StackOwners) = Reserved
<1>1. IsFiniteSet(0 .. Reserved - 1) /\ Cardinality(0 .. Reserved - 1) = Reserved
  BY FS_Interval, StackAssumption
<1>2. IsFiniteSet({"stack"}) /\ Cardinality({"stack"}) = 1
  BY FS_Singleton
<1>3. IsFiniteSet({"stack"} \X (0 .. Reserved - 1))
      /\ Cardinality({"stack"} \X (0 .. Reserved - 1)) = 1 * Reserved
  BY <1>1, <1>2, FS_Product
<1>4. QED
  BY <1>3, StackAssumption DEF StackOwners

(* While the first free slot n of kind k is free, the set is not full.     *)
LEMMA NotFullWhileFree ==
    ASSUME SizedForPools, IInv, ~panicked,
           NEW k \in Kinds, NEW n \in P(k)!Slots, ~pools[k][n]
    PROVE  ~SetFull
<1> DEFINE o == <<k, n>>
           W == WrapperOwners
<1> SUFFICES ASSUME SetFull PROVE FALSE
  OBVIOUS
<1>1. IsFiniteSet(W) /\ Cardinality(W) \in Nat
  BY WrapperOwnersFinite, FS_CardinalityType
<1>2. o \in W /\ Live \subseteq W \ {o}
  BY DEF WrapperOwners, Live
<1>3. IsFiniteSet(W \ {o}) /\ Cardinality(W \ {o}) = Cardinality(W) - 1
  BY <1>1, <1>2, FS_RemoveElement
<1>4. IsFiniteSet(Live) /\ Cardinality(Live) <= Cardinality(W) - 1
  BY <1>2, <1>3, FS_Subset
<1>5. Occupied = StackOwners \cup Live
  BY DEF IInv, SetMatchesPools, Occupied
<1>6. IsFiniteSet(Occupied) /\ Cardinality(Occupied) <= Reserved + Cardinality(Live)
  <2>1. IsFiniteSet(StackOwners \cap Live)
        /\ Cardinality(StackOwners \cap Live) \in Nat
    BY <1>4, StackOwnersCard, FS_Intersection, FS_CardinalityType
  <2>2. Cardinality(Live) \in Nat
    BY <1>4, FS_CardinalityType
  <2>3. IsFiniteSet(StackOwners \cup Live)
        /\ Cardinality(StackOwners \cup Live) =
             Cardinality(StackOwners) + Cardinality(Live)
             - Cardinality(StackOwners \cap Live)
    BY <1>4, StackOwnersCard, FS_Union
  <2>4. IsFiniteSet(Occupied)
    BY <1>5, <2>3, Zenon
  <2>5. Cardinality(Occupied) = Cardinality(StackOwners \cup Live)
    BY <1>5, Zenon
  <2> DEFINE cO == Cardinality(Occupied)
             cS == Cardinality(StackOwners)
             cL == Cardinality(Live)
             cI == Cardinality(StackOwners \cap Live)
  <2>6. cO = cS + cL - cI
    BY <2>3, <2>5
  <2>7. cS = Reserved
    BY StackOwnersCard
  <2>8. cI \in Nat /\ cL \in Nat
    BY <2>1, <2>2
  <2>9. cO <= Reserved + cL
    <3> HIDE DEF cO, cS, cL, cI
    <3> QED
      BY <2>6, <2>7, <2>8, StackAssumption
  <2>10. QED
    BY <2>4, <2>9
<1>7. Cardinality(Occupied) < Cardinality(Entries)
  <2>1. Cardinality(Entries) = SetCap
    <3>1. SetCap - 1 \in Int
      BY StackAssumption
    <3>2. QED
      BY <3>1, StackAssumption, FS_Interval DEF Entries
  <2>2. Cardinality(Live) \in Nat
    BY <1>4, FS_CardinalityType
  <2>3. Reserved + Cardinality(W) <= SetCap
    BY DEF SizedForPools
  <2> DEFINE cO == Cardinality(Occupied)
             cE == Cardinality(Entries)
             cL == Cardinality(Live)
             cW == Cardinality(W)
  <2>4. /\ cO <= Reserved + cL /\ cL <= cW - 1 /\ Reserved + cW <= SetCap
        /\ cE = SetCap /\ cL \in Nat /\ cW \in Nat /\ cO \in Nat
    BY <1>1, <1>4, <1>6, <2>1, <2>2, <2>3, FS_CardinalityType
  <2>5. cO < cE
    <3> HIDE DEF cO, cE, cL, cW
    <3> QED
      BY <2>4, StackAssumption
  <2>6. QED
    BY <2>5
<1>8. entries \in [Entries -> Occupied]
  BY DEF SetFull, IInv, TypeOK, Occupied
<1>9. PICK x, y \in Entries : x # y /\ entries[x] = entries[y]
  <2>1. IsFiniteSet(Entries)
    <3>1. SetCap - 1 \in Int
      BY StackAssumption
    <3>2. QED
      BY <3>1, FS_Interval DEF Entries
  <2>2. QED
    BY <1>6, <1>7, <1>8, <2>1, FS_PigeonHole
<1>10. QED
  BY <1>9 DEF SetFull, IInv, SetMatchesPools


NInv == IInv /\ ~panicked

LEMMA NoPanicStep ==
    ASSUME SizedForPools, NInv, [Next]_vars
    PROVE  NInv'
<1> USE DEF NInv
<1>1. ASSUME NEW k \in Kinds, Open(k) PROVE NInv'
  <2>1. PICK n \in P(k)!Slots :
          /\ P(k)!IsFirstFree(n)
          /\ pools' = [pools EXCEPT ![k][n] = TRUE]
          /\ AddSocket(<<k, n>>)
    BY <1>1 DEF Open
  <2>2. ~SetFull
    BY <2>1, NotFullWhileFree DEF P!IsFirstFree
  <2>3. panicked' = panicked
    BY <2>1, <2>2 DEF AddSocket
  <2>4. QED
    BY <1>1, <2>3, OpenStep
<1>2. ASSUME NEW k \in Kinds, NEW n \in P(k)!Slots, Close(k, n) PROVE NInv'
  BY <1>2, CloseStep DEF Close
<1>3. CASE UNCHANGED vars
  BY <1>3, StepInv DEF vars
<1>4. QED
  BY <1>1, <1>2, <1>3 DEF Next

(* NoSocketSetPanic (the property of the stack sizing run), for every set  *)
(* of kinds, pool sizes and SocketSet size with SizedForPools: no         *)
(* sequence of wrapper news and drops of any kind makes SocketSet::add    *)
(* panic when the set has an entry for the stack's own sockets and for    *)
(* every slot of every pool.  The NOTE's per-pool condition is weaker, and *)
(* the docsizing run shows it is not enough.                               *)
THEOREM NoPanicWhenSized ==
    ASSUME SizedForPools
    PROVE  Spec => []NoSocketSetPanic
<1>1. Init => NInv
  BY InitInv DEF Init, NInv
<1>2. NInv /\ [Next]_vars => NInv'
  BY NoPanicStep
<1>3. NInv => NoSocketSetPanic
  BY DEF NInv, NoSocketSetPanic
<1>4. QED
  BY <1>1, <1>2, <1>3, PTL DEF Spec

=============================================================================
