-------------------------------- MODULE GatewayEffect --------------------------------
(***************************************************************************)
(* What a gateway operation promises, whatever the number of attempts: the *)
(* remote side takes effect at most once, what the operation reports is    *)
(* what happened, and an operation that expired has no effect, then or     *)
(* later.                                                                  *)
(***************************************************************************)
CONSTANT Operations

VARIABLES
    effect,     \* what the remote side did: "none", "completed", "application_error"
    known       \* what the gateway reports: "open", "completed", "failed", "expired"

Report == [completed |-> "completed", application_error |-> "failed",
           none |-> "expired"]

Init ==
    /\ effect = [o \in Operations |-> "none"]
    /\ known = [o \in Operations |-> "open"]

TakeEffect(o) ==
    /\ effect[o] = "none"
    /\ known[o] = "open"
    /\ \E e \in {"completed", "application_error"} :
          effect' = [effect EXCEPT ![o] = e]
    /\ UNCHANGED known

Settle(o) ==
    /\ known[o] = "open"
    /\ known' = [known EXCEPT ![o] = Report[effect[o]]]
    /\ UNCHANGED effect

Next == \E o \in Operations : TakeEffect(o) \/ Settle(o)

Spec == Init /\ [][Next]_<<effect, known>>

==================================================================================
