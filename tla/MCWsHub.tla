------------------------------ MODULE MCWsHub ------------------------------
(* Small instances of WsHub for TLC: of two clients, one is a global admin *)
(* without projects and the others belong to the only project.             *)
EXTENDS WsHub, TLC

CONSTANT admin, ours

MCMember == [c \in Client |-> IF c = admin THEN {} ELSE {ours}]
=============================================================================
