---------------------------- MODULE AdmissionGate ----------------------------
(***************************************************************************)
(* What a circuit breaker promises, whatever it counts and whichever       *)
(* states it names: callers come in freely until the gate trips; a tripped *)
(* gate lets nobody in for RestTime, then hands out one permission every   *)
(* ProbeGap until a caller it let in reports a success.  A failure         *)
(* reported to a tripped gate restarts its rest.                           *)
(***************************************************************************)
EXTENDS Integers

CONSTANTS Callers, RestTime, ProbeGap

VARIABLES
    tripped,    \* the gate withholds permissions
    wait,       \* time until the next permission
    busy        \* the callers that were let in and have not left

gateVars == <<tripped, wait, busy>>

GateInit == ~tripped /\ wait = 0 /\ busy = {}

Permission ==
    \/ ~tripped /\ UNCHANGED <<tripped, wait>>
    \/ tripped /\ wait = 0 /\ wait' = ProbeGap /\ UNCHANGED tripped

Enter(c) ==
    /\ c \notin busy
    /\ Permission
    /\ busy' = busy \cup {c}

(* A permission nobody used: the next one is as far away as if it had been *)
Waste == Permission /\ UNCHANGED busy

Succeed(c) ==
    /\ c \in busy
    /\ tripped' = FALSE
    /\ wait' = 0
    /\ busy' = busy \ {c}

(* A failed caller may stay, to try again *)
Fail(c) ==
    /\ c \in busy
    /\ \/ ~tripped /\ UNCHANGED <<tripped, wait>>
       \/ tripped' = TRUE /\ wait' = RestTime
    /\ busy' \in {busy, busy \ {c}}

Leave(c) ==
    /\ c \in busy
    /\ busy' = busy \ {c}
    /\ UNCHANGED <<tripped, wait>>

GateTick == wait > 0 /\ wait' = wait - 1 /\ UNCHANGED <<tripped, busy>>

GateNext ==
    \/ Waste
    \/ GateTick
    \/ \E c \in Callers : Enter(c) \/ Succeed(c) \/ Fail(c) \/ Leave(c)

GateSpec == GateInit /\ [][GateNext]_gateVars

=============================================================================
