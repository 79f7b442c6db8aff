----------------------------- MODULE JobLedger -----------------------------
(***************************************************************************)
(* What the cold path promises about its scoring jobs: a published turn is *)
(* pending until it is finished, in one place, once. Nothing is lost but   *)
(* by a fault, in the very step of the fault, which changes the phase of   *)
(* the process: the death of the worker costs the job it had just taken, a *)
(* stop the job in the worker's hands, and the end of the process all that *)
(* is pending, for none of it is persisted.                                *)
(***************************************************************************)
CONSTANT Turns

VARIABLES
    phase,     \* "serving"; "crippled": without its worker; "stopping"; "down"
    pending, finished, lost

vars == <<phase, pending, finished, lost>>

Init ==
    /\ phase = "serving"
    /\ pending = {}
    /\ finished = {}
    /\ lost = {}

Publish(t) ==
    /\ phase \in {"serving", "crippled"}
    /\ t \notin pending \cup finished \cup lost
    /\ pending' = pending \cup {t}
    /\ UNCHANGED <<phase, finished, lost>>

Finish(t) ==
    /\ phase = "serving"
    /\ t \in pending
    /\ pending' = pending \ {t}
    /\ finished' = finished \cup {t}
    /\ UNCHANGED <<phase, lost>>

Lose(some) ==
    /\ some \subseteq pending
    /\ pending' = pending \ some
    /\ lost' = lost \cup some
    /\ UNCHANGED finished

WorkerDies ==
    /\ phase = "serving"
    /\ phase' = "crippled"
    /\ \E t \in pending : Lose({t})

Stop ==
    /\ phase \in {"serving", "crippled"}
    /\ phase' = "stopping"
    /\ \/ Lose({})
       \/ phase = "serving" /\ \E t \in pending : Lose({t})

End ==
    /\ phase # "down"
    /\ phase' = "down"
    /\ Lose(pending)

Start ==
    /\ phase = "down"
    /\ phase' = "serving"
    /\ UNCHANGED <<pending, finished, lost>>

Next ==
    \/ \E t \in Turns : Publish(t) \/ Finish(t)
    \/ WorkerDies \/ Stop \/ End \/ Start

Spec == Init /\ [][Next]_vars
=============================================================================
