--------------------------- MODULE MCOrganizations ---------------------------
(* Instances of Organizations for TLC. *)
EXTENDS OrganizationsProperties, TLC

Symmetry == Permutations(Requests)

First == CHOOSE u \in Users : TRUE

\* Colleagues, or one of them with an address of a free provider.
Colleagues == {[u \in Users |-> "org.fr"],
               [u \in Users |-> IF u = First THEN "org.fr" ELSE "free.fr"]}

Free == {"free.fr"}

Case(category, activity, staff, bypass, contact) ==
  [category |-> category, activity |-> activity, staff |-> staff, bypass |-> bypass,
   contact |-> contact]
\* The contact is one of the users, or somebody else.
SixOrganizations ==
  {Case("sarl", "other", "up_to_2", FALSE, None),
   Case("association", "other", "up_to_49", FALSE, None),
   Case("sas", "other", "50_and_more", FALSE, None),
   Case("other", "other", "unknown", TRUE, None),
   Case("commune", "other", "up_to_49", FALSE, [user |-> First, domain |-> "org.fr"]),
   Case("commune", "primary", "50_and_more", FALSE, [user |-> None, domain |-> "free.fr"])}
Rows == {{}, {<<"org.fr", "null">>}, {<<"org.fr", "trackdechets_postal_mail">>}}
=============================================================================
