-------------------------- MODULE MCProviderRoles ---------------------------
(***************************************************************************)
(* Constants of ProviderRoles for TLC: two roles and the demonstration's   *)
(* list of the console, whose first provider plays both.                   *)
(***************************************************************************)
EXTENDS ProviderRoles, TLC

CONSTANTS r1, r2   \* model values

MCRoles == {r1, r2}
MCDemo == 1 :> {r1, r2} @@ 2 :> {}
Symmetric == Permutations(MCRoles) \cup Permutations(Tabs) \cup Permutations(Calls)
=============================================================================
