---------------------------- MODULE MC_OrderServer ----------------------------
(* Two client sockets that both declare client_id 1, three requests each of *)
(* two bytes: records split across reads, two connections polled in       *)
(* either order, a close with requests still in flight, and a second      *)
(* connection whose ClientId differs from the id its requests declare.    *)
EXTENDS OrderServer

CONSTANTS s1, s2

MCSockets == {s1, s2}
MCDeclared == [s \in MCSockets |-> 1]
MCMaxReqs == 3
MCRecordSize == 2
=============================================================================
