---------------------------- MODULE MCToolLease ----------------------------
(* ToolLease for TLC: three concurrent callers; two requests under one call *)
(* id, one that can be repeated and one that consumes its target.           *)
EXTENDS ToolLease, TLC

CONSTANTS c1, c2, c3, create, delete, update

MCCallers == {c1, c2, c3}
MCRequests == {create, delete, update}
MCKindOf == create :> "create" @@ delete :> "delete" @@ update :> "update"
Symmetric == Permutations(MCCallers)
=============================================================================
