------------------------------ MODULE TcpSocket ------------------------------
(***************************************************************************)
(* The TCP socket wrapper of edge-nal-embassy (tcp.rs) over the buffer     *)
(* pool of lib.rs, with the part of the embassy-net TCP socket it relies   *)
(* on as an environment.                                                    *)
(*                                                                         *)
(* Each task of Tasks runs at most one TcpSocket at a time: it creates one *)
(* by Tcp::connect or TcpAccept::accept, uses it, may close or abort it,   *)
(* and drops it, after which it may create another.  Tasks interleave only *)
(* at the awaits of the code (single-threaded cooperative executor), so    *)
(* every action below is the code between two awaits, run to completion.   *)
(*                                                                         *)
(* State of a task t:                                                       *)
(*   pc[t]      where its code is suspended (or "idle" without a socket);  *)
(*   token[t]   the wrapper's buffer_token, a slot of the pool;            *)
(*   bound[t]   the slot whose regions the engine socket was built over:   *)
(*              the engine keeps using them until that socket is dropped;  *)
(*   eng[t]     the engine socket's connection, abstracted to what the     *)
(*              awaits of tcp.rs wait on;                                  *)
(*   what[t], flushSt[t], readSt[t]  the close in progress: its direction  *)
(*              and the state of its flush and discard futures;            *)
(*   result[t]  the result of the task's last completed operation.         *)
(***************************************************************************)
EXTENDS Pool

CONSTANTS
    Tasks,      \* the tasks that own TCP sockets drawn from one pool
    MaxQ        \* bound on queued bytes in each direction of the engine

ASSUME TasksAssumption == Tasks # {}
ASSUME MaxQAssumption == MaxQ \in Nat

VARIABLES pc, token, bound, eng, what, flushSt, readSt, result

vars == <<used, pc, token, bound, eng, what, flushSt, readSt, result>>

PCs == {"idle", "connecting", "accepting", "open", "closing", "aborting",
        "panicked"}

(* The Close enum of edge-nal, and "none" when no close is in progress.    *)
Directions == {"Read", "Write", "Both"}

(* State of one of the two futures joined by a close.                      *)
SubStates == {"none", "run", "ok", "err"}

(* TcpError variants, with General(e) split by the future that failed.     *)
Results == {"none", "Ok", "NoBuffers", "UnsupportedProto", "ConnectErr",
            "AcceptErr", "GeneralErr", "FlushErr", "DiscardErr"}

(***************************************************************************)
(* The engine socket.  conn is "none" before connect/listen, "listen",     *)
(* "syn" (connect sent), "estab" (including the peer's half-close), and    *)
(* "closed" after a reset or abort.  txq/rxq count unacknowledged sent and *)
(* unread received bytes; finIn says the peer's FIN arrived; finOut is our *)
(* FIN ("pending" until acknowledged); rst is a reset still to be sent.    *)
(***************************************************************************)
Conns == {"none", "listen", "syn", "estab", "closed"}

EngStates == [conn : Conns, txq : 0 .. MaxQ, rxq : 0 .. MaxQ,
              finIn : BOOLEAN, finOut : {"none", "pending", "acked"},
              rst : BOOLEAN]

EngFresh == [conn |-> "none", txq |-> 0, rxq |-> 0, finIn |-> FALSE,
             finOut |-> "none", rst |-> FALSE]

(* smoltcp close(): a listening or connecting socket goes to Closed, an    *)
(* established one queues its FIN; otherwise nothing happens.              *)
SocketClose(e) ==
    IF e.conn \in {"listen", "syn"} THEN [e EXCEPT !.conn = "closed"]
    ELSE IF e.conn = "estab" /\ e.finOut = "none"
         THEN [e EXCEPT !.finOut = "pending"]
         ELSE e

(* smoltcp abort(): Closed at once, one RST to send if there is a peer.    *)
SocketAbort(e) ==
    [e EXCEPT !.conn = "closed", !.rst = e.conn \in {"syn", "estab"}]

(* The condition embassy's flush() waits for: no data pending on a live    *)
(* connection, no unacknowledged FIN, no RST still to be sent.             *)
Quiescent(e) ==
    /\ e.txq = 0 \/ e.conn = "closed"
    /\ e.finOut # "pending" \/ e.conn = "closed"
    /\ ~e.rst

TypeOK ==
    /\ PoolTypeOK
    /\ pc \in [Tasks -> PCs]
    /\ token \in [Tasks -> Slots \cup {NoToken}]
    /\ bound \in [Tasks -> Slots \cup {NoToken}]
    /\ eng \in [Tasks -> EngStates]
    /\ what \in [Tasks -> Directions \cup {"none"}]
    /\ flushSt \in [Tasks -> SubStates]
    /\ readSt \in [Tasks -> SubStates]
    /\ result \in [Tasks -> Results]

Init ==
    /\ PoolInit
    /\ pc = [t \in Tasks |-> "idle"]
    /\ token = [t \in Tasks |-> NoToken]
    /\ bound = [t \in Tasks |-> NoToken]
    /\ eng = [t \in Tasks |-> EngFresh]
    /\ what = [t \in Tasks |-> "none"]
    /\ flushSt = [t \in Tasks |-> "none"]
    /\ readSt = [t \in Tasks |-> "none"]
    /\ result = [t \in Tasks |-> "none"]

(* A panic (unwrap! on None) halts the whole no_std program.               *)
Halted == \E t \in Tasks : pc[t] = "panicked"

-----------------------------------------------------------------------------
(***************************************************************************)
(* Creating a socket.  TcpSocket::new takes a slot from the pool (first    *)
(* fit) and builds the engine socket over its regions; when the pool is    *)
(* exhausted it returns NoBuffers and nothing is allocated.  connect and   *)
(* accept then convert the address and start the engine operation; an     *)
(* error there returns with `?`, which drops the new socket: Drop closes   *)
(* the engine socket and frees the slot, all before the first await.       *)
(***************************************************************************)

Finish(t, r) ==
    /\ pc' = [pc EXCEPT ![t] = "idle"]
    /\ result' = [result EXCEPT ![t] = r]

(* TcpSocket::new fails: the pool has no free slot.                        *)
NewNoBuffers(t) ==
    /\ pc[t] = "idle"
    /\ PoolExhausted
    /\ Finish(t, "NoBuffers")
    /\ UNCHANGED <<used, token, bound, eng, what, flushSt, readSt>>

(* Mutant: the error path leaks the slot (the socket is not dropped).     *)
NewThenDropLeak(t, r) ==
    /\ pc[t] = "idle"
    /\ \E n \in Slots : Alloc(n)
    /\ Finish(t, r)
    /\ UNCHANGED <<token, bound, eng, what, flushSt, readSt>>

(* TcpSocket::new succeeds and the operation fails before its first await, *)
(* with error r: the slot is allocated, the socket dropped, the slot freed.*)
NewThenDrop(t, r) ==
    /\ pc[t] = "idle"
    /\ \E n \in Slots : IsFirstFree(n)
    /\ Finish(t, r)
    /\ UNCHANGED <<used, token, bound, eng, what, flushSt, readSt>>

(* TcpSocket::new succeeds and the engine operation starts: conn is the    *)
(* state it leaves the engine socket in, p where the task awaits it.       *)
NewAndStart(t, conn, p) ==
    /\ pc[t] = "idle"
    /\ \E n \in Slots :
         /\ Alloc(n)
         /\ token' = [token EXCEPT ![t] = n]
         /\ bound' = [bound EXCEPT ![t] = n]
    /\ eng' = [eng EXCEPT ![t] = [EngFresh EXCEPT !.conn = conn]]
    /\ pc' = [pc EXCEPT ![t] = p]
    /\ UNCHANGED <<what, flushSt, readSt, result>>

(* Tcp::connect: to_emb_socket fails for an address family not built in, *)
(* and the engine's connect() fails at once with NoRoute for an            *)
(* unaddressable remote; otherwise the task awaits the handshake.          *)
Connect(t) ==
    \/ NewNoBuffers(t)
    \/ NewThenDrop(t, "UnsupportedProto")
    \/ NewThenDrop(t, "ConnectErr")
    \/ NewAndStart(t, "syn", "connecting")

(* TcpAccept::accept: to_emb_bind_socket may fail, listen() may fail at    *)
(* once (port 0); otherwise the task awaits an incoming connection.        *)
Accept(t) ==
    \/ NewNoBuffers(t)
    \/ NewThenDrop(t, "UnsupportedProto")
    \/ NewThenDrop(t, "AcceptErr")
    \/ NewAndStart(t, "listen", "accepting")

(***************************************************************************)
(* Drop for TcpSocket: close() the engine socket, free the token through   *)
(* the type-erased pool, then (field drop) the embassy socket leaves the   *)
(* stack's socket set, so the engine stops using the regions.  No await   *)
(* separates the three, so they are one step.  A task may drop its socket  *)
(* in any state that holds one, also while an operation is suspended: the *)
(* caller abandoning the future and then the socket.  r is the result the *)
(* caller sees (an error propagated with `?`, or none for a plain drop).   *)
(***************************************************************************)
DropSocket(t, r) ==
    /\ token[t] # NoToken
    /\ Free(token[t])
    /\ token' = [token EXCEPT ![t] = NoToken]
    /\ bound' = [bound EXCEPT ![t] = NoToken]
    /\ eng' = [eng EXCEPT ![t] = EngFresh]
    /\ what' = [what EXCEPT ![t] = "none"]
    /\ flushSt' = [flushSt EXCEPT ![t] = "none"]
    /\ readSt' = [readSt EXCEPT ![t] = "none"]
    /\ Finish(t, r)

Drop(t) ==
    /\ pc[t] \in {"connecting", "accepting", "open", "closing", "aborting"}
    /\ DropSocket(t, result[t])

(* The connect await resolves: Ok once established, ConnectionReset (and   *)
(* the socket dropped by `?`) once the engine socket is closed.            *)
ConnectDone(t) ==
    /\ pc[t] = "connecting"
    /\ \/ /\ eng[t].conn = "estab"
          /\ pc' = [pc EXCEPT ![t] = "open"]
          /\ result' = [result EXCEPT ![t] = "Ok"]
          /\ UNCHANGED <<used, token, bound, eng, what, flushSt, readSt>>
       \/ /\ eng[t].conn = "closed"
          /\ DropSocket(t, "ConnectErr")

(* The accept await resolves once the state left Listen; then accept      *)
(* unwraps local_endpoint(), which smoltcp only has while a connection     *)
(* tuple exists: a connection reset before the task ran makes it None.     *)
AcceptDone(t) ==
    /\ pc[t] = "accepting"
    /\ eng[t].conn \in {"estab", "closed"}
    /\ pc' = [pc EXCEPT ![t] = IF eng[t].conn = "estab" THEN "open"
                                                      ELSE "panicked"]
    /\ result' = [result EXCEPT ![t] = "Ok"]
    /\ UNCHANGED <<used, token, bound, eng, what, flushSt, readSt>>

-----------------------------------------------------------------------------
(* Read and Write on an open socket (each one await, then return).         *)

(* Read: buffered data first, whatever the connection state (the engine  *)
(* may receive while its receive buffer is not empty); once it is empty,  *)
(* Ok(0) after the peer's FIN, ConnectionReset after a reset; otherwise   *)
(* it waits.                                                               *)
ReadReady(e) == e.rxq > 0
ReadEof(e) == e.finIn /\ e.rxq = 0
ReadFails(e) == e.conn = "closed" /\ ~e.finIn /\ e.rxq = 0

Read(t) ==
    /\ pc[t] = "open"
    /\ \/ /\ ReadReady(eng[t])
          /\ eng' = [eng EXCEPT ![t].rxq = @ - 1]
          /\ result' = [result EXCEPT ![t] = "Ok"]
       \/ /\ ReadEof(eng[t])
          /\ result' = [result EXCEPT ![t] = "Ok"]
          /\ UNCHANGED eng
       \/ /\ ReadFails(eng[t])
          /\ result' = [result EXCEPT ![t] = "GeneralErr"]
          /\ UNCHANGED eng
    /\ UNCHANGED <<used, pc, token, bound, what, flushSt, readSt>>

(* Mutant: Write ignores a full transmit buffer.                          *)
WriteNoFullCheck(t) ==
    /\ pc[t] = "open"
    /\ \/ /\ eng[t].conn = "estab" /\ eng[t].finOut = "none"
          /\ eng' = [eng EXCEPT ![t].txq = @ + 1]
          /\ result' = [result EXCEPT ![t] = "Ok"]
       \/ /\ eng[t].conn # "estab" \/ eng[t].finOut # "none"
          /\ result' = [result EXCEPT ![t] = "GeneralErr"]
          /\ UNCHANGED eng
    /\ UNCHANGED <<used, pc, token, bound, what, flushSt, readSt>>

(* Write: queues data while the socket may send (established, our FIN not *)
(* queued); fails with ConnectionReset otherwise; waits while it is full.  *)
Write(t) ==
    /\ pc[t] = "open"
    /\ \/ /\ eng[t].conn = "estab" /\ eng[t].finOut = "none"
          /\ eng[t].txq < MaxQ
          /\ eng' = [eng EXCEPT ![t].txq = @ + 1]
          /\ result' = [result EXCEPT ![t] = "Ok"]
       \/ /\ eng[t].conn # "estab" \/ eng[t].finOut # "none"
          /\ result' = [result EXCEPT ![t] = "GeneralErr"]
          /\ UNCHANGED eng
    /\ UNCHANGED <<used, pc, token, bound, what, flushSt, readSt>>

(* Write::flush, on the socket or on its write half: one await on        *)
(* embassy's flush, which resolves with Ok once Quiescent and has no     *)
(* error path, so the map_err of the wrapper never fires.                  *)
Flush(t) ==
    /\ pc[t] = "open"
    /\ Quiescent(eng[t])
    /\ result' = [result EXCEPT ![t] = "Ok"]
    /\ UNCHANGED <<used, pc, token, bound, eng, what, flushSt, readSt>>

(* Readable::readable, on the socket or on its read half: wait_read_ready  *)
(* resolves once data is buffered or the receive side is finished (the    *)
(* peer's FIN, or the connection gone), and the result is always Ok.      *)
Readable(t) ==
    /\ pc[t] = "open"
    /\ eng[t].rxq > 0 \/ eng[t].finIn \/ eng[t].conn = "closed"
    /\ result' = [result EXCEPT ![t] = "Ok"]
    /\ UNCHANGED <<used, pc, token, bound, eng, what, flushSt, readSt>>

-----------------------------------------------------------------------------
(***************************************************************************)
(* TcpSocket::close(what).  For Write and Both it first calls close() on   *)
(* the engine socket.  Read runs discard_all_data, Write runs flush, Both *)
(* joins the two; join waits for both futures whatever they return, then   *)
(* the match reports the flush error first, then the discard error.        *)
(***************************************************************************)
CloseBegin(t, w) ==
    /\ pc[t] = "open"
    /\ eng' = [eng EXCEPT ![t] = IF w \in {"Both", "Write"}
                                 THEN SocketClose(@) ELSE @]
    /\ what' = [what EXCEPT ![t] = w]
    /\ flushSt' = [flushSt EXCEPT ![t] = IF w \in {"Both", "Write"}
                                         THEN "run" ELSE "none"]
    /\ readSt' = [readSt EXCEPT ![t] = IF w \in {"Both", "Read"}
                                       THEN "run" ELSE "none"]
    /\ pc' = [pc EXCEPT ![t] = "closing"]
    /\ UNCHANGED <<used, token, bound, result>>

(* The flush future completes: embassy's flush returns Ok once Quiescent *)
(* and never an error, so the FlushErr arm of close's match is dead.      *)
CloseFlush(t) ==
    /\ pc[t] = "closing"
    /\ flushSt[t] = "run"
    /\ Quiescent(eng[t])
    /\ flushSt' = [flushSt EXCEPT ![t] = "ok"]
    /\ UNCHANGED <<used, pc, token, bound, eng, what, readSt, result>>

(* Mutant: discard_all_data's loop does not stop on Ok(0) (a `>= 0` for   *)
(* the `> 0`), so it keeps reading after end of stream.                   *)
CloseDiscardPastEof(t) ==
    /\ pc[t] = "closing"
    /\ readSt[t] = "run"
    /\ \/ /\ ReadReady(eng[t])
          /\ eng' = [eng EXCEPT ![t].rxq = @ - 1]
       \/ ReadEof(eng[t]) /\ UNCHANGED eng
    /\ UNCHANGED <<used, pc, token, bound, what, flushSt, readSt, result>>

(* One iteration of discard_all_data's loop: read into the scratch buffer; *)
(* continue while it returns > 0, stop on Ok(0), stop with the error.      *)
CloseDiscard(t) ==
    /\ pc[t] = "closing"
    /\ readSt[t] = "run"
    /\ \/ /\ ReadReady(eng[t])
          /\ eng' = [eng EXCEPT ![t].rxq = @ - 1]
          /\ UNCHANGED readSt
       \/ /\ ReadEof(eng[t])
          /\ readSt' = [readSt EXCEPT ![t] = "ok"]
          /\ UNCHANGED eng
       \/ /\ ReadFails(eng[t])
          /\ readSt' = [readSt EXCEPT ![t] = "err"]
          /\ UNCHANGED eng
    /\ UNCHANGED <<used, pc, token, bound, what, flushSt, result>>

(* Mutant: select instead of join, the close ends when either finishes.   *)
CloseJoinedSelect(t) == flushSt[t] # "run" \/ readSt[t] # "run"

(* The futures the close started have all finished.                        *)
CloseJoined(t) == flushSt[t] # "run" /\ readSt[t] # "run"

CloseEnd(t) ==
    /\ pc[t] = "closing"
    /\ CloseJoined(t)
    /\ result' = [result EXCEPT ![t] =
                    IF flushSt[t] = "err" THEN "FlushErr"
                    ELSE IF readSt[t] = "err" THEN "DiscardErr"
                    ELSE "Ok"]
    /\ pc' = [pc EXCEPT ![t] = "open"]
    /\ what' = [what EXCEPT ![t] = "none"]
    /\ flushSt' = [flushSt EXCEPT ![t] = "none"]
    /\ readSt' = [readSt EXCEPT ![t] = "none"]
    /\ UNCHANGED <<used, token, bound, eng>>

(* TcpSocket::abort: abort() the engine socket, then await flush().        *)
AbortBegin(t) ==
    /\ pc[t] = "open"
    /\ eng' = [eng EXCEPT ![t] = SocketAbort(@)]
    /\ pc' = [pc EXCEPT ![t] = "aborting"]
    /\ UNCHANGED <<used, token, bound, what, flushSt, readSt, result>>

(* Mutant: the abort's flush waits for the transmit queue to empty even   *)
(* though the aborted connection will never send it.                       *)
AbortEndWaitsTxEmpty(t) ==
    /\ pc[t] = "aborting"
    /\ Quiescent(eng[t]) /\ eng[t].txq = 0
    /\ pc' = [pc EXCEPT ![t] = "open"]
    /\ result' = [result EXCEPT ![t] = "Ok"]
    /\ UNCHANGED <<used, token, bound, eng, what, flushSt, readSt>>

AbortEnd(t) ==
    /\ pc[t] = "aborting"
    /\ Quiescent(eng[t])
    /\ pc' = [pc EXCEPT ![t] = "open"]
    /\ result' = [result EXCEPT ![t] = "Ok"]
    /\ UNCHANGED <<used, token, bound, eng, what, flushSt, readSt>>

-----------------------------------------------------------------------------
(***************************************************************************)
(* The engine and the peer: what the network does to a task's engine       *)
(* socket between the task's steps.  Only a socket still in the stack's    *)
(* socket set (bound to a slot) changes.                                   *)
(***************************************************************************)
EngineStep(t, e) ==
    /\ bound[t] # NoToken
    /\ eng' = [eng EXCEPT ![t] = e]
    /\ UNCHANGED <<used, pc, token, bound, what, flushSt, readSt, result>>

(* The peer acknowledges one byte, or our FIN once all data is acked.     *)
PeerAcks(t) ==
    LET e == eng[t] IN
    \/ e.conn = "estab" /\ e.txq > 0 /\ EngineStep(t, [e EXCEPT !.txq = @ - 1])
    \/ /\ e.conn = "estab" /\ e.txq = 0 /\ e.finOut = "pending"
       /\ EngineStep(t, [e EXCEPT !.finOut = "acked"])

(* The RST queued by abort() is sent.                                       *)
SendRst(t) == eng[t].rst /\ EngineStep(t, [eng[t] EXCEPT !.rst = FALSE])


Engine(t) ==
    LET e == eng[t] IN
    \/ e.conn = "syn" /\ EngineStep(t, [e EXCEPT !.conn = "estab"])
    \/ e.conn = "syn" /\ EngineStep(t, [e EXCEPT !.conn = "closed"])
    \/ e.conn = "listen" /\ EngineStep(t, [e EXCEPT !.conn = "estab"])
    \/ e.conn = "estab" /\ EngineStep(t, [e EXCEPT !.conn = "closed"])
    \/ /\ e.conn = "estab" /\ ~e.finIn /\ e.rxq < MaxQ
       /\ EngineStep(t, [e EXCEPT !.rxq = @ + 1])
    \/ e.conn = "estab" /\ ~e.finIn /\ EngineStep(t, [e EXCEPT !.finIn = TRUE])
    \/ PeerAcks(t)
    \/ SendRst(t)

-----------------------------------------------------------------------------
Next ==
    \/ /\ ~Halted
       /\ \E t \in Tasks :
            \/ Connect(t) \/ Accept(t) \/ ConnectDone(t) \/ AcceptDone(t)
            \/ Read(t) \/ Write(t) \/ Flush(t) \/ Readable(t)
            \/ \E w \in Directions : CloseBegin(t, w)
            \/ CloseFlush(t) \/ CloseDiscard(t) \/ CloseEnd(t)
            \/ AbortBegin(t) \/ AbortEnd(t)
            \/ Drop(t)
            \/ Engine(t)
    \/ Halted /\ UNCHANGED vars

Spec == Init /\ [][Next]_vars

(***************************************************************************)
(* Fairness.  The executor polls every woken future, so a task whose       *)
(* flush, discard, close or abort can complete eventually completes it;   *)
(* the engine polled by the stack eventually sends a queued RST.  The      *)
(* peer is assumed to keep acknowledging what we send (smoltcp has no      *)
(* timeout by default, so without that assumption a flush may wait        *)
(* forever).  The user's own steps and the peer's data, FIN and resets    *)
(* are not fair.                                                           *)
(***************************************************************************)
Live(A) == ~Halted /\ A

Fairness ==
    \A t \in Tasks :
        /\ WF_vars(Live(CloseFlush(t)))
        /\ WF_vars(Live(CloseDiscard(t)))
        /\ WF_vars(Live(CloseEnd(t)))
        /\ WF_vars(Live(AbortEnd(t)))
        /\ WF_vars(Live(PeerAcks(t)))
        /\ WF_vars(Live(SendRst(t)))

FairSpec == Spec /\ Fairness

-----------------------------------------------------------------------------
(***************************************************************************)
(* Properties.                                                             *)
(***************************************************************************)

(* Slot ownership (lib.rs Pool::alloc/free, tcp.rs TcpSocket::new and      *)
(* Drop): a slot is marked used exactly when some live socket holds its    *)
(* token, and no two sockets hold the same token.  A leaked slot on an     *)
(* error path, or a slot handed out twice, breaks it.                      *)
SlotOwnership ==
    /\ \A n \in Slots : used[n] <=> \E t \in Tasks : token[t] = n
    /\ \A t, u \in Tasks : t # u /\ token[t] # NoToken => token[t] # token[u]

(* The sides of a close that have completed: our data and FIN acknowledged *)
(* (or the connection gone), and the peer's stream read to its end.       *)
WriteSideDone(e) == e.conn = "closed" \/ (e.txq = 0 /\ e.finOut = "acked")
ReadSideDone(e) == ReadEof(e)

(* TcpSocket::close returns Ok only once every direction it was asked to   *)
(* shut has finished: for Both, the join has waited for both the flush of *)
(* the FIN and the discard up to end of stream.                            *)
CloseOkMeansDrained ==
    [][\A t \in Tasks :
         (pc[t] = "closing" /\ pc'[t] = "open" /\ result'[t] = "Ok") =>
            /\ what[t] \in {"Write", "Both"} => WriteSideDone(eng[t])
            /\ what[t] \in {"Read", "Both"} => ReadSideDone(eng[t])]_vars

(* A close(Write) or an abort in progress eventually returns (or the       *)
(* program halts), given a peer that acknowledges: the flush await of      *)
(* TcpSocket::close and TcpSocket::abort never hangs.                      *)
ShutdownTerminates ==
    \A t \in Tasks :
        (pc[t] = "aborting" \/ (pc[t] = "closing" /\ what[t] = "Write"))
            ~> (pc[t] \notin {"closing", "aborting"} \/ Halted)

(* A close(Read) or close(Both) whose peer has ended its stream (FIN      *)
(* received, or the connection reset) eventually returns: discard_all_data *)
(* reads what is left and stops on Ok(0) or on the error, and the join    *)
(* then completes.  While the peer keeps sending and never closes, the    *)
(* loop rightly keeps reading, which is why the peer's end is the premise. *)
DiscardTerminates ==
    \A t \in Tasks :
        (/\ pc[t] = "closing" /\ what[t] \in {"Read", "Both"}
         /\ (eng[t].finIn \/ eng[t].conn = "closed"))
            ~> (pc[t] # "closing" \/ Halted)

(* TcpAccept::accept never panics: the unwrap! of local_endpoint() after   *)
(* the accept await always finds an endpoint.                              *)
AcceptNeverPanics == \A t \in Tasks : pc[t] # "panicked"

(* The refinement mapping: the holders of slot n are the tasks whose      *)
(* wrapper holds n as its buffer_token.                                    *)
Holders == [n \in Slots |-> {t \in Tasks : token[t] = n}]

Abstract == INSTANCE SlotAllocator WITH holders <- Holders

(* The wrappers over lib.rs Pool implement the abstract allocator: every   *)
(* step either leaves the tokens alone or is one first-fit acquire by a    *)
(* task holding nothing, or one release by the slot's holder (new, the     *)
(* error paths that allocate and free in one step, and Drop).              *)
AllocatorRefinement == Abstract!Spec

=============================================================================
