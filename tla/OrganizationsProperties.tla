------------------------ MODULE OrganizationsProperties ------------------------
(* What Organizations promises of links, domains and moderations.          *)
EXTENDS Organizations

(***************************************************************************)
(* Everything has its type: links and domains are those of                 *)
(* types/user-organization-link.ts and types/email-domain.ts, and there    *)
(* are no fewer than no moderations (repositories/moderation.ts).          *)
(***************************************************************************)
TypeOK ==
  /\ organization \in Organization
  /\ email \in Emails
  /\ domains \subseteq DomainNames \X DomainTypes
  /\ link \in [Users -> Link \cup {None}]
  /\ moderation \in [Users \X ModerationTypes -> Nat]
  /\ request \in [Requests -> Request]
  /\ received \in 0..MaxRequests
  /\ crossed \in BOOLEAN
  /\ doubled \subseteq Users

(***************************************************************************)
(* A link that says its user was verified by the domain of the address is  *)
(* that of a user whose domain is known to the organization, however       *)
(* joins, marks and departures interleave (managers/organization/join.ts,  *)
(* mark-domain-as-verified.ts).                                            *)
(***************************************************************************)
DomainLinksRestOnADomain ==
  \A u \in Users :
    link[u] # None /\ link[u].type = "domain" =>
      \E type \in DomainTypes \ {"null"} : <<email[u], type>> \in domains

(***************************************************************************)
(* An organization that is suggested to a user is one the user can join    *)
(* without a moderator: the two are decided in different queries on the    *)
(* same table (getOrganizationSuggestions, joinOrganization).              *)
(***************************************************************************)
SuggestedOrganizationsNeedNoModerator ==
  \A r \in Requests :
    request[r].suggested => request[r].pc \notin {"review", "block"}

(***************************************************************************)
(* "UserAlreadyAskedToJoinOrganizationError" (managers/organization):      *)
(* nobody has two requests to join pending, unless two joins of the user   *)
(* overlapped: the table has no key that would prevent it.                 *)
(***************************************************************************)
OnePendingRequest ==
  \A u \in Users : moderation[<<u, "organization_join_block">>] > 1 => u \in doubled

(***************************************************************************)
(* Once a domain is marked as verified, no member of that domain is left   *)
(* with a link to be verified (null or "unipersonnelle"), unless a join    *)
(* overlapped the marking or one died (mark-domain-as-verified.ts).        *)
(***************************************************************************)
MarkingReachesEveryMember ==
  [][\A r \in Requests :
       /\ request[r].pc \in {"members", "upgrade"}
       /\ request'[r].pc \notin {"members", "upgrade"}
       /\ ~crossed'
       => \A u \in Users :
            link'[u] # None /\ email[u] = request[r].domain =>
              link'[u].type \notin Upgraded]_vars

Status(l) ==
  IF l = None THEN "outside"
  ELSE IF l.needs THEN "to_confirm"
  ELSE IF l.type \in Asserted THEN "asserted" ELSE "verified"

Abstract == INSTANCE Membership WITH status <- [u \in Users |-> Status(link[u])]

(***************************************************************************)
(* Whatever overlaps or dies: a user comes in once, and what was verified  *)
(* stays verified until the user leaves.                                   *)
(***************************************************************************)
ImplementsMembership == Abstract!Spec
=============================================================================
