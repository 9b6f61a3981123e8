------------------------------ MODULE MCAuthority ------------------------------
(***************************************************************************)
(* A small instance of Authority: one decision, made in a requester's      *)
(* session and approved in a session of the owner, who may hold a second   *)
(* one.                                                                    *)
(***************************************************************************)
EXTENDS Authority

CONSTANTS d1, requester, approver, second, k1

mc_Identities == {"operator_1", "owner_1"}
mc_IdentityOf ==
    [s \in Sessions |-> IF s = requester THEN "operator_1" ELSE "owner_1"]
mc_RoleOf == [s \in Sessions |-> IF s = requester THEN "operator" ELSE "owner"]
mc_Requester == [d \in Decisions |-> requester]
mc_Approver == [d \in Decisions |-> approver]
mc_DecidedAt == [d \in Decisions |-> 1]
mc_ApprovalExpiry == [d \in Decisions |-> 5]
mc_SessionIssued == [s \in Sessions |-> 0]
mc_SessionExpires == [s \in Sessions |-> IF s = approver THEN 4 ELSE 5]

================================================================================
