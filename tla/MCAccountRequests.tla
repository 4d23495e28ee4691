--------------------------- MODULE MCAccountRequests ---------------------------
(* Instances of AccountRequests for TLC. *)
EXTENDS AccountRequestsProperties, TLC

Symmetry == Permutations(Requests) \cup Permutations(Secrets)

\* The factors and the challenge of an account have no column in common with
\* its mailed tokens, which are exercised apart.
FactorsOrTokens == {Operations \ {"sendToken", "useToken"}, {"sendToken", "useToken"}}
=============================================================================
