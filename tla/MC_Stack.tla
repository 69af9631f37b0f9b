------------------------------- MODULE MC_Stack -------------------------------
(* Instances of the stack composition: a TCP, a UDP and a raw factory.     *)
EXTENDS Stack, TLC

(* Sized as the NOTE on Tcp::new asks: each pool no larger than the set.   *)
MC_DocKinds == {"tcp", "udp", "raw"}
MC_DocPoolN == [k \in MC_DocKinds |-> 2]

(* Sized so that the stack's sockets and every pool's slots fit together.  *)
MC_SumKinds == {"tcp", "udp", "raw"}
MC_SumPoolN == ("tcp" :> 2) @@ ("udp" :> 2) @@ ("raw" :> 1)

=============================================================================
