----------------------------- MODULE MCInteraction -----------------------------
(* Instances of Interaction for TLC. *)
EXTENDS InteractionProperties, TLC

Symmetry == Permutations(Browsers) \cup Permutations(Organizations) \cup Permutations(Interactions)

OneOrg == [NoRequest EXCEPT !.oneOrg = TRUE]
OneOrgRequests == {OneOrg}

Checked == [NoLink EXCEPT !.member = TRUE, !.checked = TRUE]
CheckedLinks == {Checked}
=============================================================================
