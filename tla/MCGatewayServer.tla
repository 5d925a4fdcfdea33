-------------------------- MODULE MCGatewayServer --------------------------
(* A small instance of GatewayServer: two members of one community behind one
   adapter. *)
EXTENDS GatewayServer
CONSTANTS r1, r2, adapter, alice, bob

OneAdapter == [r \in {r1, r2} |-> adapter]
TwoMembers == [r \in {r1, r2} |-> IF r = r1 THEN alice ELSE bob]
=============================================================================
