--------------------------------- MODULE OneShot ---------------------------------
(***************************************************************************)
(* What dispatch promises.  A claimed operation may take effect once, at   *)
(* any later time; doubt about it may be recorded; it is recorded as done  *)
(* only after the effect, and then for good.                               *)
(***************************************************************************)
CONSTANT Operations

VARIABLES
    status,   \* what the evidence says about each operation
    effect    \* operations whose effect has happened

Init ==
    /\ status = [o \in Operations |-> "prepared"]
    /\ effect = {}

\* The capability is spent; the outcome may be in doubt at once.
Claim(o) ==
    /\ status[o] = "prepared"
    /\ \E s \in {"dispatching", "outcome_unknown"} :
          status' = [status EXCEPT ![o] = s]
    /\ UNCHANGED effect

TakeEffect(o) ==
    /\ status[o] # "prepared"
    /\ o \notin effect
    /\ effect' = effect \cup {o}
    /\ UNCHANGED status

Doubt(os) ==
    /\ \A o \in os : status[o] = "dispatching"
    /\ status' = [o \in Operations |->
                    IF o \in os THEN "outcome_unknown" ELSE status[o]]
    /\ UNCHANGED effect

Finish(o) ==
    /\ status[o] \in {"dispatching", "outcome_unknown"}
    /\ o \in effect
    /\ status' = [status EXCEPT ![o] = "completed"]
    /\ UNCHANGED effect

Next ==
    \/ \E o \in Operations : Claim(o) \/ TakeEffect(o) \/ Finish(o)
    \/ \E os \in SUBSET Operations : Doubt(os)

Spec == Init /\ [][Next]_<<status, effect>>

================================================================================
