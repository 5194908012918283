-------------------------- MODULE MCRequestPipeline --------------------------
(* Two requests, with the one virtual key or another credential and nonces *)
(* that clash; a tick is a minute.                                         *)
EXTENDS RequestPipeline, TLC

CONSTANTS n1

MCNonces == {n1}

Unary == [endpoint |-> "chat", credential |-> "virtual", nonce |-> n1, stream |-> FALSE,
          encrypt |-> TRUE, key |-> "good"]

MCForms ==
    {Unary,
     [Unary EXCEPT !.credential = "master", !.stream = TRUE],
     [Unary EXCEPT !.credential = "master", !.nonce = Malformed],
     [Unary EXCEPT !.credential = "other"],
     [Unary EXCEPT !.endpoint = "messages", !.nonce = None]}

MCLimits == 0 .. 2

Symmetric == Permutations(Requests)

=============================================================================
