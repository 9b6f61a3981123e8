-------------------------------- MODULE MCRuntime --------------------------------
(***************************************************************************)
(* One decision with its requester and approver, one docker operation, and *)
(* two workers.                                                            *)
(***************************************************************************)
EXTENDS Runtime

CONSTANTS d1, requester, approver, base, c1, foreign

mc_IdentityOf == [s \in Sessions |-> s]
mc_RoleOf == [s \in Sessions |-> "operator"]
mc_Requester == [d \in Decisions |-> requester]
mc_Approver == [d \in Decisions |-> approver]
mc_DecidedAt == [d \in Decisions |-> 1]
mc_ApprovalExpiry == [d \in Decisions |-> 3]
mc_SessionIssued == [s \in Sessions |-> 0]
mc_SessionExpires == [s \in Sessions |-> 4]
mc_Adapter == [d \in Decisions |-> "docker"]
mc_Base == [d \in Decisions |-> base]
mc_Result == [d \in Decisions |-> c1]

================================================================================
