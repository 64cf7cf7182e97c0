----------------------------- MODULE MCWsServer -----------------------------
(* WsServer on small instances. *)
EXTENDS WsServer, TLC

MCSymmetry == Permutations(Conns)
=============================================================================
