--------------------------- MODULE MCLocalControlPlane ---------------------------
(***************************************************************************)
(* An instance of LocalControlPlane for TLC: two sessions, two requests at *)
(* a time, one packet identifier and three packets that bear it: policy    *)
(* allows one, denies one, and asks for approval of the third.             *)
(***************************************************************************)
EXTENDS LocalControlPlane, TLC

Ordinary == [blocked |-> FALSE, forbidden |-> FALSE, gated |-> FALSE,
             requires_approval |-> FALSE, risk_level |-> 4]
Risky == [Ordinary EXCEPT !.risk_level = 5]
Forbidden == [Ordinary EXCEPT !.forbidden = TRUE]
MCContents == {Ordinary, Risky, Forbidden}

Everything == {LOCAL_OPERATOR_CAPABILITY}
              \cup {RequiredCapability[t] : t \in Tables}
MCGrants == {Everything}

MCInstants == 0..1
MCTtls == 0..1

\* The answer of the last step decides nothing: states that differ in it alone
\* are one state.
WithoutAnswer == <<clock, operator, session, row, call>>

Symmetry == Permutations(Sessions) \cup Permutations(Calls)
====
