-------------------------------- MODULE Stack --------------------------------
(***************************************************************************)
(* The factories of one embassy-net stack together: Tcp, Udp and Raw (and  *)
(* any number of each) are each given a pool of socket buffers, but every  *)
(* socket they make is added to the one SocketSet of the stack, whose      *)
(* storage (StackResources) has a fixed number of entries, some of them    *)
(* taken by the stack's own DNS and DHCP sockets.                          *)
(*                                                                         *)
(* A wrapper's new allocates from its kind's pool (Pool::alloc) and then   *)
(* builds the embassy socket, whose constructor adds it to the SocketSet;  *)
(* SocketSet::add takes the first vacant entry and, with borrowed storage, *)
(* panics with `adding a socket to a full SocketSet` when there is none.   *)
(* The wrapper's Drop frees the slot and the field drop of the embassy     *)
(* socket removes the entry, with no await in between.  The pools are      *)
(* instances of Pool; the entries are kept by owner: a stack socket, or    *)
(* the <<kind, slot>> of the wrapper that made it.                         *)
(***************************************************************************)
EXTENDS Integers, FiniteSets

CONSTANTS
    Kinds,      \* the socket kinds with a factory on the stack
    PoolN,      \* PoolN[k]: the capacity N of the Pool given to kind k
    SetCap,     \* the entries of the stack's SocketSet storage
    Reserved    \* the entries the stack's own DNS/DHCP sockets take

ASSUME StackAssumption ==
    /\ IsFiniteSet(Kinds) /\ Kinds \cap {"stack", "vacant"} = {}
    /\ PoolN \in [Kinds -> Nat]
    /\ SetCap \in Nat
    /\ Reserved \in 0 .. SetCap

VARIABLES
    pools,      \* pools[k]: the used flags of kind k's Pool
    entries,    \* entries[i]: the owner of SocketSet entry i, or Vacant
    panicked    \* SocketSet::add panicked; the program has stopped

vars == <<pools, entries, panicked>>

(* The type-erased pool (DynPool) each factory forwards alloc/free to.     *)
P(k) == INSTANCE Pool WITH N <- PoolN[k], used <- pools[k]

Entries == 0 .. SetCap - 1

Vacant == <<"vacant", 0>>

StackOwners == {"stack"} \X (0 .. Reserved - 1)

WrapperOwners == UNION {{k} \X P(k)!Slots : k \in Kinds}

(* The wrapper sockets alive now: one per used slot of each pool.          *)
Live == {o \in WrapperOwners : pools[o[1]][o[2]]}

TypeOK ==
    /\ DOMAIN pools = Kinds
    /\ \A k \in Kinds : pools[k] \in [P(k)!Slots -> BOOLEAN]
    /\ entries \in [Entries -> StackOwners \cup WrapperOwners \cup {Vacant}]
    /\ panicked \in BOOLEAN

(* Stack::new: the stack's own sockets in the first entries; Pool::new.    *)
Init ==
    /\ pools = [k \in Kinds |-> [n \in P(k)!Slots |-> FALSE]]
    /\ entries = [i \in Entries |->
                    IF i < Reserved THEN <<"stack", i>> ELSE Vacant]
    /\ panicked = FALSE

-----------------------------------------------------------------------------
(* SocketSet::add: the first vacant entry, or a panic when there is none.  *)
FirstVacant(i) ==
    /\ entries[i] = Vacant
    /\ \A j \in 0 .. i - 1 : entries[j] # Vacant

SetFull == \A i \in Entries : entries[i] # Vacant

(* Mutant: a full set grows by one entry (owned, not borrowed storage).    *)
AddSocketGrows(o) ==
    /\ \/ \E i \in Entries : FirstVacant(i) /\ entries' = [entries EXCEPT ![i] = o]
       \/ SetFull /\ entries' = [i \in 0 .. SetCap |->
                                   IF i < SetCap THEN entries[i] ELSE o]
    /\ UNCHANGED panicked

AddSocket(o) ==
    \/ /\ \E i \in Entries : FirstVacant(i) /\ entries' = [entries EXCEPT ![i] = o]
       /\ UNCHANGED panicked
    \/ SetFull /\ panicked' = TRUE /\ UNCHANGED entries

(* SocketSet::remove of the entry the embassy socket's handle names.       *)
RemoveSocket(o) ==
    entries' = [i \in Entries |-> IF entries[i] = o THEN Vacant ELSE entries[i]]

(* TcpSocket::new / UdpSocket::new / RawSocket::new past the NoBuffers     *)
(* check: the first free slot of the kind's pool, then the embassy socket  *)
(* over its buffers, added to the set.  (When the pool is exhausted new    *)
(* returns NoBuffers and nothing changes; the error paths of bind and      *)
(* connect that drop the new socket are a later Close.)                    *)
Open(k) ==
    \E n \in P(k)!Slots :
        /\ P(k)!IsFirstFree(n)
        /\ pools' = [pools EXCEPT ![k][n] = TRUE]
        /\ AddSocket(<<k, n>>)

(* Mutant: the embassy socket is not dropped with the wrapper, so its      *)
(* entry stays in the set (a mem::forget of the field).                    *)
CloseKeepsSocket(k, n) ==
    /\ pools[k][n]
    /\ pools' = [pools EXCEPT ![k][n] = FALSE]
    /\ UNCHANGED <<entries, panicked>>

(* Drop of the wrapper: free the slot (Pool::free), then the field drop of *)
(* the embassy socket removes its entry.                                   *)
Close(k, n) ==
    /\ pools[k][n]
    /\ pools' = [pools EXCEPT ![k][n] = FALSE]
    /\ RemoveSocket(<<k, n>>)
    /\ UNCHANGED panicked

Next ==
    \/ /\ ~panicked
       /\ \E k \in Kinds : Open(k) \/ \E n \in P(k)!Slots : Close(k, n)
    \/ panicked /\ UNCHANGED vars

Spec == Init /\ [][Next]_vars

-----------------------------------------------------------------------------
(* The sizing under which no add can panic: the SocketSet has an entry    *)
(* for each of the stack's own sockets and for each slot of every pool.   *)
SizedForPools == Reserved + Cardinality(WrapperOwners) <= SetCap

(* Creating a socket never panics: whatever the program opens and drops,   *)
(* SocketSet::add, called from a wrapper's new, always finds a vacant      *)
(* entry.  Holds when the entries cover the stack's own sockets and every *)
(* slot of every pool; the NOTE on Tcp::new, Udp::new and Raw::new asks    *)
(* only that each pool alone be no larger than the set.                    *)
NoSocketSetPanic == ~panicked

(* Until a panic, the SocketSet holds exactly the stack's own sockets and  *)
(* one entry for each used slot of each pool, never two for the same      *)
(* slot: new's add and Drop's remove stay paired with Pool::alloc and      *)
(* Pool::free across any sequence of opens and drops of all kinds.         *)
SetMatchesPools ==
    ~panicked =>
        /\ {entries[i] : i \in Entries} \ {Vacant} = StackOwners \cup Live
        /\ \A i, j \in Entries :
              i # j /\ entries[i] # Vacant => entries[i] # entries[j]

=============================================================================
