---------------------------- MODULE ServerLifecycle ----------------------------
(***************************************************************************)
(* What serve() promises, whatever its connections do: connections are     *)
(* opened only while it serves, hooks run only once none is left or the    *)
(* shutdown timeout has passed, and it does not serve again.               *)
(***************************************************************************)
CONSTANT Conns

VARIABLES phase,    \* of the server
          open,     \* connections it is responsible for
          expired   \* the shutdown timeout has passed

vars == <<phase, open, expired>>

Init == phase = "serving" /\ open = {} /\ expired = FALSE

Open(c) ==
    /\ phase = "serving"
    /\ open' = open \cup {c}
    /\ UNCHANGED <<phase, expired>>

Close ==
    /\ open' \in SUBSET open
    /\ UNCHANGED <<phase, expired>>

Drain == phase = "serving" /\ phase' = "draining" /\ UNCHANGED <<open, expired>>

RunHooks ==
    /\ phase = "draining" /\ phase' = "hooks"
    /\ open = {} \/ expired'
    /\ UNCHANGED open

Stop ==
    /\ phase = "hooks" \/ (phase = "draining" /\ (open = {} \/ expired'))
    /\ phase' = "stopped" /\ open' = {}

\* The future of serve() is dropped.
Drop ==
    /\ phase \notin {"stopped", "dropped"} /\ phase' = "dropped"
    /\ open' = {}
    /\ UNCHANGED expired

Next == (\E c \in Conns : Open(c)) \/ Close \/ Drain \/ RunHooks \/ Stop \/ Drop

Spec == Init /\ [][Next]_vars
=============================================================================
