--------------------------- MODULE OrganizationKinds ---------------------------
(***************************************************************************)
(* What an organization is taken for, of what INSEE says of it             *)
(* (src/services/organization.ts).  Labels of legal categories and         *)
(* activities, and ranges of employees, are told apart as far as the code  *)
(* does; "unknown" is the range of an organization without employees or    *)
(* of which none is known.                                                 *)
(***************************************************************************)

Categories ==
  {"individual", "sarl", "sas", "association", "commune", "associated_commune",
   "public_school", "other"}
Activities == {"pre_primary", "primary", "secondary", "other"}
Staff == {"unknown", "up_to_2", "up_to_49", "50_and_more"}

isEntrepriseUnipersonnelle(o) ==
  o.category \in {"individual", "sarl", "sas"} /\ o.staff \in {"unknown", "up_to_2"}

hasLessThanFiftyEmployees(o) == o.staff # "50_and_more"

isSmallAssociation(o) == o.category = "association" /\ hasLessThanFiftyEmployees(o)

isCommune(o) == o.category \in {"commune", "associated_commune"}

isEtablissementScolaireDuPremierEtSecondDegre(o) ==
  \/ o.category = "public_school" /\ o.activity = "secondary"
  \/ o.category = "commune" /\ o.activity \in {"pre_primary", "primary"}

\* The register that knows the official contact.
HasMayor(o) == isCommune(o) /\ ~isEtablissementScolaireDuPremierEtSecondDegre(o)
HasHeadTeacher(o) == isEtablissementScolaireDuPremierEtSecondDegre(o)
=============================================================================
