----------------------- MODULE OrganizationInfoProperties -----------------------
(* What OrganizationInfo promises of the rows and of what rests on them.   *)
EXTENDS OrganizationInfo

(***************************************************************************)
(* Everything has its type: of an organization that asks not to show its   *)
(* names none are stored (hideNonDiffusibleData), and ids are those of one *)
(* row.                                                                    *)
(***************************************************************************)
TypeOK ==
  /\ establishment \in [Sirets -> Establishment]
  /\ changes \in 0 .. MaxChanges
  /\ row \in [Sirets -> Row \cup {None}]
  /\ \A s, t \in Stored : row[s].id = row[t].id => s = t
  /\ emailDomains \subseteq Sirets \X Domains \X Types
  /\ link \subseteq Users \X Sirets
  /\ request \in [Users -> Request]
  /\ refresh \in Refresh
  /\ file \in Files
  /\ domainJob \in DomainJob
  /\ starts \in 0 .. MaxStarts
  /\ missed \subseteq Sirets
  /\ wasActive \in [Actors -> BOOLEAN]

(***************************************************************************)
(* Whoever else writes the row meanwhile, a user joins, and a domain is    *)
(* imported for, only an organization that INSEE could say was active      *)
(* after the request, or the script, had turned to it: what an older       *)
(* answer has left in the row is never relied on.                          *)
(***************************************************************************)
OnlyActiveIsUsed ==
  [][/\ \A u \in Users, s \in Sirets :
          <<u, s>> \in link' \ link => wasActive[u]
     /\ \A s \in Sirets, d \in Domains :
          <<s, d, "none">> \in emailDomains' \ emailDomains => wasActive["import-domains"]]_vars

(***************************************************************************)
(* When update-organizations-info says "Update completed!", every          *)
(* organization has information, except those INSEE gave none for: though  *)
(* rows are read by their offset, none is gone by because others appear or *)
(* are filled in meanwhile.                                                *)
(***************************************************************************)
EveryOrganizationIsFetched ==
  refresh.pc = "completed" => \A s \in Stored : row[s].info = NoInfo => s \in missed
=============================================================================
