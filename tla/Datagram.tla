------------------------------- MODULE Datagram -------------------------------
(***************************************************************************)
(* The packet-oriented socket wrappers of edge-nal-embassy: UdpSocket      *)
(* (udp.rs) and RawSocket (raw.rs), each over its own pool of four-region  *)
(* buffers (tx bytes, rx bytes, tx and rx packet metadata).  Kind selects  *)
(* which one; the two differ in their bind path and in what Drop does.     *)
(*                                                                         *)
(* Each task of Tasks holds at most one socket at a time.  Send and        *)
(* receive are one await each and leave the wrapper's state alone except   *)
(* for their result; the split halves are shared references to the same  *)
(* socket and own nothing, so they need no state of their own.             *)
(***************************************************************************)
EXTENDS Pool

CONSTANTS
    Tasks,      \* the tasks that own sockets of this kind
    Kind        \* "udp" (udp.rs) or "raw" (raw.rs)

ASSUME DTasksAssumption == Tasks # {}
ASSUME KindAssumption == Kind \in {"udp", "raw"}

VARIABLES
    pc,         \* "idle" (no socket) or "bound"
    token,      \* the wrapper's buffer_token
    bound,      \* the slot whose regions the engine socket uses
    result      \* result of the task's last operation

vars == <<used, pc, token, bound, result>>

(* UdpError variants (Recv, Send, Bind wrap the engine's errors).          *)
UdpErrors == {"Recv", "Send", "Bind", "NoBuffers", "UnsupportedProto",
              "MulticastGroupTableFull", "MulticastUnaddressable"}

(* RawError variants.                                                      *)
RawErrors == {"Recv", "NoBuffers"}

Results == {"none", "Ok"} \cup UdpErrors \cup RawErrors

TypeOK ==
    /\ PoolTypeOK
    /\ pc \in [Tasks -> {"idle", "bound"}]
    /\ token \in [Tasks -> Slots \cup {NoToken}]
    /\ bound \in [Tasks -> Slots \cup {NoToken}]
    /\ result \in [Tasks -> Results]

Init ==
    /\ PoolInit
    /\ pc = [t \in Tasks |-> "idle"]
    /\ token = [t \in Tasks |-> NoToken]
    /\ bound = [t \in Tasks |-> NoToken]
    /\ result = [t \in Tasks |-> "none"]

Return(t, r) == result' = [result EXCEPT ![t] = r]

-----------------------------------------------------------------------------
(***************************************************************************)
(* Creating a socket.  UdpSocket::new / RawSocket::new take a descriptor   *)
(* from the type-erased pool (NoBuffers when it is exhausted) and build    *)
(* the engine socket over its four regions.                                *)
(***************************************************************************)
NewNoBuffers(t) ==
    /\ pc[t] = "idle"
    /\ PoolExhausted
    /\ Return(t, "NoBuffers")
    /\ UNCHANGED <<used, pc, token, bound>>

(* The descriptor's alloc: Pool::alloc's first free slot n, its regions    *)
(* handed to the engine socket and its address kept as the token.          *)
TakeBuffers(t, n) ==
    /\ Alloc(n)
    /\ token' = [token EXCEPT ![t] = n]
    /\ bound' = [bound EXCEPT ![t] = n]

NewOk(t) ==
    /\ pc[t] = "idle"
    /\ \E n \in Slots : TakeBuffers(t, n)
    /\ pc' = [pc EXCEPT ![t] = "bound"]
    /\ Return(t, "Ok")

(* Mutant: the bind error path keeps the slot allocated.                   *)
BindThenDropLeak(t, r) ==
    /\ pc[t] = "idle"
    /\ \E n \in Slots : Alloc(n)
    /\ Return(t, r)
    /\ UNCHANGED <<pc, token, bound>>

(* Udp::bind after a successful new: the local address is converted       *)
(* (UnsupportedProto) and the engine socket bound (Bind); either error     *)
(* returns with `?`, dropping the socket: close, free, leave the socket    *)
(* set, with no await in between.  The slot is taken and given back.       *)
BindThenDrop(t, r) ==
    /\ pc[t] = "idle"
    /\ \E n \in Slots : IsFirstFree(n)
    /\ Return(t, r)
    /\ UNCHANGED <<used, pc, token, bound>>

UdpBind(t) ==
    /\ Kind = "udp"
    /\ \/ NewNoBuffers(t)
       \/ BindThenDrop(t, "UnsupportedProto")
       \/ BindThenDrop(t, "Bind")
       \/ NewOk(t)

(* Raw::bind is RawSocket::new and nothing else.                           *)
RawBind(t) ==
    /\ Kind = "raw"
    /\ NewNoBuffers(t) \/ NewOk(t)

(***************************************************************************)
(* Send and receive: one await each, on the socket or on a split half (a   *)
(* shared reference), changing nothing but the result.                     *)
(***************************************************************************)
(* UdpSend: to_emb_socket (UnsupportedProto), then send_to (Send).         *)
UdpSend(t) ==
    /\ Kind = "udp"
    /\ pc[t] = "bound"
    /\ \E r \in {"Ok", "UnsupportedProto", "Send"} : Return(t, r)
    /\ UNCHANGED <<used, pc, token, bound>>

(* RawSend: whatever poll_send resolves with is discarded; always Ok.      *)
RawSend(t) ==
    /\ Kind = "raw"
    /\ pc[t] = "bound"
    /\ Return(t, "Ok")
    /\ UNCHANGED <<used, pc, token, bound>>

(* join_v4/leave_v4/join_v6/leave_v6.  Built without the multicast        *)
(* feature they fail with UnsupportedProto; with it, the address is        *)
(* converted and the stack's group table updated (its errors mapped by     *)
(* From<MulticastError>).  Either build may be the one running.  The       *)
(* stack's group table is shared state outside the wrapper, not kept here. *)
UdpMulticast(t) ==
    /\ Kind = "udp"
    /\ pc[t] = "bound"
    /\ \E r \in {"Ok", "UnsupportedProto", "MulticastGroupTableFull",
                 "MulticastUnaddressable"} : Return(t, r)
    /\ UNCHANGED <<used, pc, token, bound>>

(* UdpReceive / RawReceive: recv_from / poll_recv, which may fail with     *)
(* Truncated (Recv).                                                        *)
Receive(t) ==
    /\ pc[t] = "bound"
    /\ \E r \in {"Ok", "Recv"} : Return(t, r)
    /\ UNCHANGED <<used, pc, token, bound>>

(***************************************************************************)
(* Drop.  UdpSocket's Drop closes the engine socket, then frees the token; *)
(* RawSocket's only frees it.  In both, the embassy socket field is        *)
(* dropped right after, which removes it from the stack's socket set, so   *)
(* the engine stops using the regions in the same step.  close() changes  *)
(* nothing the model keeps, so the two drops have the same effect.         *)
(***************************************************************************)
(* Mutant: the dropped wrapper is left in a state of its own instead of   *)
(* returning the task to one that can bind again.                         *)
DropLeavesDead(t) ==
    /\ pc[t] = "bound"
    /\ Free(token[t])
    /\ token' = [token EXCEPT ![t] = NoToken]
    /\ bound' = [bound EXCEPT ![t] = NoToken]
    /\ pc' = [pc EXCEPT ![t] = "dropped"]
    /\ UNCHANGED result

(* Mutant: the engine socket is not removed from the socket set when the  *)
(* wrapper is dropped (the field drop skipped, e.g. by a mem::forget).     *)
DropKeepsEngine(t) ==
    /\ pc[t] = "bound"
    /\ Free(token[t])
    /\ token' = [token EXCEPT ![t] = NoToken]
    /\ pc' = [pc EXCEPT ![t] = "idle"]
    /\ UNCHANGED <<bound, result>>

Drop(t) ==
    /\ pc[t] = "bound"
    /\ Free(token[t])
    /\ token' = [token EXCEPT ![t] = NoToken]
    /\ bound' = [bound EXCEPT ![t] = NoToken]
    /\ pc' = [pc EXCEPT ![t] = "idle"]
    /\ UNCHANGED result

UdpDrop(t) == Kind = "udp" /\ Drop(t)

RawDrop(t) == Kind = "raw" /\ Drop(t)

Next ==
    \E t \in Tasks :
        \/ UdpBind(t) \/ RawBind(t)
        \/ UdpSend(t) \/ RawSend(t)
        \/ UdpMulticast(t) \/ Receive(t)
        \/ UdpDrop(t) \/ RawDrop(t)

Spec == Init /\ [][Next]_vars

-----------------------------------------------------------------------------
(* The refinement mapping: the holders of slot n are the tasks whose      *)
(* wrapper holds n as its buffer_token.                                    *)
Holders == [n \in Slots |-> {t \in Tasks : token[t] = n}]

Abstract == INSTANCE SlotAllocator WITH holders <- Holders

(* The wrappers over lib.rs Pool implement the abstract allocator: every   *)
(* step either leaves the tokens alone or is one first-fit acquire by a    *)
(* task holding nothing, or one release by the slot's holder (new, the     *)
(* error paths that allocate and free in one step, and Drop).              *)
AllocatorRefinement == Abstract!Spec

(* Slot ownership of the datagram pool (udp.rs / raw.rs new and Drop over  *)
(* lib.rs Pool): a slot is used exactly when a live socket holds its token,*)
(* no two sockets hold the same token, and the regions an engine socket    *)
(* uses belong to a used slot held by that socket and no other.            *)
BufferOwnership ==
    /\ \A n \in Slots : used[n] <=> \E t \in Tasks : token[t] = n
    /\ \A t, u \in Tasks : t # u /\ token[t] # NoToken => token[t] # token[u]
    /\ \A t \in Tasks : bound[t] # NoToken =>
          /\ used[bound[t]]
          /\ \A u \in Tasks \ {t} : bound[u] # bound[t] /\ token[u] # bound[t]

=============================================================================
