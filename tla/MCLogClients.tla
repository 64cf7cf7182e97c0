---------------------------- MODULE MCLogClients ----------------------------
(* LogClients on small instances, with the sizes of socksvr.h scaled down: a  *)
(* node has room for two or three packets.                                    *)
(*                                                                            *)
(* A header, and the place of a body, are read again only while the body is   *)
(* read or bufLock is held; and when the server thread has ended, nothing     *)
(* happens and no Client is left that a property speaks of.  States that      *)
(* differ in nothing else are taken as one.                                   *)
EXTENDS LogClients

InUse(c) == pending[c] = <<"body">> \/ bufLock[c] = "held"
MCView ==
    IF serverThread = "ended" THEN <<dumps>>
    ELSE <<serverThread, objVars, peer, buffers, bufLock, dataVars, dumps,
           [c \in Clients |-> IF InUse(c) THEN <<pckHeader[c], body[c]>> ELSE <<>>]>>
=============================================================================
