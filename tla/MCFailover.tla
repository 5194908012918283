----------------------------- MODULE MCFailover -----------------------------
(* A request of each kind of endpoint, and two providers, one sick and one *)
(* healthy, in either order, or none at all.                               *)
EXTENDS Failover, TLC

CONSTANTS sick, well, chat, messages

MCRequests == {chat, messages}

MCEndpoint == (chat :> "chat") @@ (messages :> "messages")

MCProviders == {sick, well}

MCSick == {sick}

MCOrders == {<<>>, <<sick, well>>, <<well, sick>>}

=============================================================================
