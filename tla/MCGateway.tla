------------------------------ MODULE MCGateway ------------------------------
(* One provider, a manual refresh beside the lifespan's own, and two       *)
(* tokens.                                                                 *)
EXTENDS Gateway
=============================================================================
