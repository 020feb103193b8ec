----------------------------- MODULE MCApproval -----------------------------
(***************************************************************************)
(* Instances of ApprovalExecution: one mcpInvoke request, and three        *)
(* destructive requests, of which two ask to delete the same item and one  *)
(* to delete a relation property.  Two workers serve them.                 *)
(***************************************************************************)
EXTENDS ApprovalExecution, TLC

CONSTANTS m1, i1, i2, p1, owner, other, item, property

McpRequests == {m1}
McpUsers == {owner, other}

GenericRequests == {i1, i2, p1}
GenericUsers == {owner}
GenericResources == {item, property}

KindOf == [r \in Requests |-> CASE r = m1 -> "mcpInvoke" [] r = p1 -> "property.delete" [] OTHER -> "item.delete"]
RunActorOf == [r \in Requests |-> owner]
TargetOf == [r \in Requests \ {m1} |-> IF r = p1 THEN property ELSE item]

\* The workers are interchangeable, and so are the two requests on the item.
GenericSymmetry == Permutations(Workers) \cup Permutations({i1, i2})
=============================================================================
