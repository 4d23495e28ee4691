--------------------------- MODULE MCOrganizationInfo ---------------------------
(* Instances of OrganizationInfo for TLC. *)
EXTENDS OrganizationInfoProperties, TLC

Symmetry == Permutations(Sirets)

\* A line to refuse and one to import.
SmallFiles ==
  {<<[domain |-> None, siret |-> s], [domain |-> d, siret |-> s]>> : d \in Domains, s \in Sirets}
=============================================================================
