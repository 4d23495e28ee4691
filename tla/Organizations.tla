----------------------------- MODULE Organizations -----------------------------
(***************************************************************************)
(* One organization, await by await: who joins it and with what            *)
(* verification (src/managers/organization/join.ts), moderators who force  *)
(* a join or verify a domain (src/controllers/api.ts), the code sent to    *)
(* the official contact, and leaving.                                      *)
(*                                                                         *)
(* A step is a query, or a call of a service, with the code that runs      *)
(* until the next one; no transaction holds the queries of a request       *)
(* together, but the tables have keys: one link for a user, one row for a  *)
(* domain and its type.                                                    *)
(***************************************************************************)
EXTENDS OrganizationKinds, Integers, FiniteSets

CONSTANTS
  None,
  Users,
  Emails,           \* functions from users to the domains of their addresses
  FreeDomains,      \* domains of free mail providers, as the flags have them
  Cases,            \* the organizations to look at
  Tables,           \* what email_domains may hold at first
  Requests,         \* the requests that may be in flight at once
  MaxRequests       \* bound: how many requests are received altogether

VARIABLES
  organization,     \* what INSEE and the directories say of it, and the flag
                    \* FEATURE_BYPASS_MODERATION; never changes
  email,            \* the domain of the address of a user; never changes
  domains,          \* its rows in email_domains: pairs of a domain and a type
  link,             \* its rows in users_organizations
  moderation,       \* how many pending moderations of a type a user has
  request,          \* the requests in flight
  received,         \* how many requests were received so far
  crossed,          \* history: requests that join or mark have overlapped, or one has died
  doubled           \* history: users of whom two joins have overlapped

vars == <<organization, email, domains, link, moderation, request, received, crossed, doubled>>


DomainTypes == {"verified", "external", "trackdechets_postal_mail", "official_contact", "null"}

\* The types of a link that no check stands behind, and all of them.
Asserted ==
  {"null", "no_validation_means_available", "no_verification_means_for_small_association",
   "no_verification_means_for_entreprise_unipersonnelle"}
LinkTypes ==
  Asserted \cup {"domain", "official_contact_email", "code_sent_to_official_contact_email", "bypassed"}

ModerationTypes == {"organization_join_block", "non_verified_domain"}

Joining == {"join", "forceJoin"}
Marking == {"mark"}
Codes == {"sendCode", "verifyCode"}

DomainNames == UNION {{e[u] : u \in Users} : e \in Emails}

Link == [type : LinkTypes, external : BOOLEAN, needs : BOOLEAN, code : BOOLEAN]

LinkOf(type) == [type |-> type, external |-> FALSE, needs |-> FALSE, code |-> FALSE]

Contact == [user : Users \cup {None}, domain : DomainNames]
Organization ==
  [category : Categories, activity : Activities, staff : Staff, bypass : BOOLEAN,
   contact : Contact \cup {None}]

ASSUME CasesAssumption == Cases \subseteq Organization
ASSUME EmailsAssumption == \A e \in Emails : DOMAIN e = Users
ASSUME TablesAssumption == Tables \subseteq SUBSET (DomainNames \X DomainTypes)
ASSUME NoneAssumption ==
  None \notin Users \cup DomainNames \cup Link \cup Contact \cup Joining \cup Marking \cup Codes
ASSUME MaxRequestsAssumption == MaxRequests \in Nat

Positions ==
  {"idle", "links", "moderation", "domains", "contact", "review", "block", "insert",
   "mark", "add", "members", "upgrade", "member", "sendCode", "verifyCode"}

\* pc is the next query; domain is the one that is marked; seen and contact are
\* what earlier queries have found, link what is decided, todo whom to upgrade.
Request ==
  [op : Joining \cup Marking \cup Codes \cup {None}, pc : Positions,
   user : Users \cup {None}, confirmed : BOOLEAN, external : BOOLEAN,
   domain : DomainNames \cup {None}, contact : Contact \cup {None},
   seen : SUBSET (DomainNames \X DomainTypes), link : Link \cup {None},
   todo : SUBSET Users, suggested : BOOLEAN]

Idle == [op |-> None, pc |-> "idle", user |-> None, confirmed |-> FALSE, external |-> FALSE,
         domain |-> None, contact |-> None, seen |-> {}, link |-> None, todo |-> {},
         suggested |-> FALSE]

InFlight == {r \in Requests : request[r] # Idle}

Init ==
  /\ organization \in Cases
  /\ email \in Emails
  /\ domains \in Tables
  /\ link = [u \in Users |-> None]
  /\ moderation = [m \in Users \X ModerationTypes |-> 0]
  /\ request = [r \in Requests |-> Idle]
  /\ received = 0
  /\ crossed = FALSE
  /\ doubled = {}

-------------------------------------------------------------------------------
(* What joinOrganization decides, of the domains and the contact it has    *)
(* found.  The first rule that applies holds.                              *)

usesAFreeEmailProvider(domain) == domain \in FreeDomains

\* getOrganizationSuggestions; some more are left out where there are too many,
\* and those of the education authorities.
Suggested(u) ==
  /\ ~usesAFreeEmailProvider(email[u])
  /\ \E type \in {"verified", "trackdechets_postal_mail"} : <<email[u], type>> \in domains

When(condition, l) == IF condition THEN l ELSE None

WithoutVerification == <<
  When(isEntrepriseUnipersonnelle(organization),
       LinkOf("no_verification_means_for_entreprise_unipersonnelle")),
  When(isSmallAssociation(organization),
       LinkOf("no_verification_means_for_small_association")) >>

OfficialContact(u, c) ==
  LET mayor == HasMayor(organization) /\ c # None
      head == HasHeadTeacher(organization) /\ c # None
      code == [LinkOf("code_sent_to_official_contact_email") EXCEPT !.needs = TRUE]
  IN <<
    When((mayor \/ head) /\ c.user = u, LinkOf("official_contact_email")),
    When(mayor /\ ~usesAFreeEmailProvider(c.domain) /\ c.domain = email[u], LinkOf("domain")),
    When(mayor /\ usesAFreeEmailProvider(email[u])
               /\ (usesAFreeEmailProvider(c.domain) \/ hasLessThanFiftyEmployees(organization)),
         code),
    When(head, code) >>

\* Mistake: the domains verified by a letter are forgotten.
KnownDomainsButLetters(u, seen) ==
  LET Has(type) == <<email[u], type>> \in seen IN <<
    When(Has("verified"), LinkOf("domain")),
    When(Has("external"), [LinkOf("domain") EXCEPT !.external = TRUE]),
    When(organization.bypass, LinkOf("bypassed")),
    When(Has("null"), LinkOf("null")) >>

KnownDomains(u, seen) ==
  LET Has(type) == <<email[u], type>> \in seen IN <<
    When(Has("verified"), LinkOf("domain")),
    When(Has("external"), [LinkOf("domain") EXCEPT !.external = TRUE]),
    When(Has("trackdechets_postal_mail"), LinkOf("domain")),
    When(organization.bypass, LinkOf("bypassed")),
    When(Has("null"), LinkOf("null")) >>

\* None where a moderator has to decide.
FirstThatApplies(rules) ==
  LET applies == {i \in DOMAIN rules : rules[i] # None} IN
  IF applies = {} THEN None
  ELSE rules[CHOOSE i \in applies : \A j \in applies : i <= j]

Otherwise(decided, rules) == IF decided # None THEN decided ELSE FirstThatApplies(rules)

Decision(u, seen, c) ==
  Otherwise(Otherwise(FirstThatApplies(WithoutVerification), OfficialContact(u, c)),
            KnownDomains(u, seen))

forceJoinLink(u, seen, external) ==
  LET type == IF \E t \in {"verified", "trackdechets_postal_mail", "external"} :
                   <<email[u], t>> \in seen
              THEN "domain" ELSE "no_validation_means_available"
  IN [LinkOf(type) EXCEPT !.external = external]

-------------------------------------------------------------------------------
Ends(r) == request' = [request EXCEPT ![r] = Idle]
Goes(r, pc) == request' = [request EXCEPT ![r].pc = pc]
Reads == UNCHANGED <<domains, link, moderation>>
Bystanders == UNCHANGED <<organization, email, received, crossed, doubled>>

\* The request of r, having found seen and c, goes on to its last queries.
Decides(r, seen, c) ==
  LET x == request[r]
      decided == Decision(x.user, seen, c)
  IN request' = [request EXCEPT ![r] =
       [x EXCEPT !.seen = seen, !.contact = c, !.link = decided, !.todo = {},
                 !.pc = IF decided = None THEN "block"
                        ELSE IF decided.type = "null" THEN "review" ELSE "insert"]]

FirstQuery(op) ==
  CASE op \in Joining -> "links" [] op \in Marking -> "mark" [] op \in Codes -> "member"

Arguments(op) ==
  [user : IF op \in Marking THEN {None} ELSE Users,
   domain : IF op \in Marking THEN DomainNames ELSE {None},
   confirmed : IF op = "join" THEN BOOLEAN ELSE {FALSE},
   external : IF op = "forceJoin" THEN BOOLEAN ELSE {FALSE}]

NewRequest(op, a) ==
  [op |-> op, pc |-> FirstQuery(op), user |-> a.user, domain |-> a.domain,
   confirmed |-> a.confirmed, external |-> a.external, contact |-> None, seen |-> {},
   link |-> None, todo |-> {}, suggested |-> op = "join" /\ Suggested(a.user)]

Joins(x, u) == x.op = "join" /\ x.user = u

Receive(r) ==
  /\ request[r] = Idle
  /\ received < MaxRequests
  /\ \E op \in Joining \cup Marking \cup Codes : \E a \in Arguments(op) :
       /\ request' = [request EXCEPT ![r] = NewRequest(op, a)]
       /\ crossed' = (\/ crossed
                      \/ op \notin Codes /\ \E s \in InFlight : request[s].op \notin Codes)
       /\ doubled' = IF op = "join" /\ \E s \in InFlight : Joins(request[s], a.user)
                     THEN doubled \cup {a.user} ELSE doubled
  /\ received' = received + 1
  /\ Reads /\ UNCHANGED <<organization, email>>

\* A query or a service fails: the request ends where it is.  Only where the
\* directory is asked, FindContact, the failure is caught.
Dies(r) ==
  /\ request[r] # Idle
  /\ Ends(r)
  /\ crossed' = TRUE
  /\ Reads /\ UNCHANGED <<organization, email, received, doubled>>

-------------------------------------------------------------------------------
(* joinOrganization, and forceJoinOrganization with its controller.        *)

\* The INSEE is asked and the organization stored first: it may be refused.
FindLinks(r) ==
  /\ request[r].pc = "links"
  /\ \/ Ends(r)
     \/ /\ link[request[r].user] = None
        /\ Goes(r, IF request[r].op = "join" THEN "moderation" ELSE "domains")
  /\ Reads /\ Bystanders

\* Mistake: the other type of moderation is looked for.
FindReview(r) ==
  /\ request[r].pc = "moderation"
  /\ IF moderation[<<request[r].user, "non_verified_domain">>] > 0
     THEN Ends(r) ELSE Goes(r, "domains")
  /\ Reads /\ Bystanders

FindModeration(r) ==
  /\ request[r].pc = "moderation"
  /\ IF moderation[<<request[r].user, "organization_join_block">>] > 0
     THEN Ends(r) ELSE Goes(r, "domains")
  /\ Reads /\ Bystanders

\* isAFreeEmailProvider is asked with the whole address here: whether its
\* library takes a free one for free is left open.
MustConfirm(x) ==
  /\ ~isEntrepriseUnipersonnelle(organization) /\ ~isSmallAssociation(organization)
  /\ usesAFreeEmailProvider(email[x.user])
  /\ ~hasLessThanFiftyEmployees(organization)
  /\ ~x.confirmed

ReadDomains(r) ==
  LET x == request[r] IN
  /\ x.pc = "domains"
  /\ \/ x.op = "join" /\ MustConfirm(x) /\ Ends(r)
     \/ /\ x.op = "join" /\ (HasMayor(organization) \/ HasHeadTeacher(organization))
        /\ request' = [request EXCEPT ![r].pc = "contact", ![r].seen = domains]
     \/ /\ x.op = "join" /\ ~HasMayor(organization) /\ ~HasHeadTeacher(organization)
        /\ Decides(r, domains, None)
     \/ /\ x.op = "forceJoin"
        /\ request' = [request EXCEPT ![r].pc = "insert",
             ![r].link = forceJoinLink(x.user, domains, x.external)]
  /\ Reads /\ Bystanders

\* The directory may not answer; the domain of the contact of a commune is
\* verified first.
FindContact(r) ==
  /\ request[r].pc = "contact"
  /\ \E c \in {organization.contact, None} :
       IF HasMayor(organization) /\ c # None /\ ~usesAFreeEmailProvider(c.domain)
       THEN request' = [request EXCEPT ![r].pc = "mark", ![r].domain = c.domain,
                                       ![r].contact = c]
       ELSE Decides(r, request[r].seen, c)
  /\ Reads /\ Bystanders

Moderate(r, type) ==
  moderation' = [moderation EXCEPT ![<<request[r].user, type>>] = @ + 1]

AskForReview(r) ==
  /\ request[r].pc = "review"
  /\ Moderate(r, "non_verified_domain")
  /\ Goes(r, "insert")
  /\ UNCHANGED <<domains, link>> /\ Bystanders

\* startCripsConversation, createModeration
Block(r) ==
  /\ request[r].pc = "block"
  /\ Moderate(r, "organization_join_block")
  /\ Ends(r)
  /\ UNCHANGED <<domains, link>> /\ Bystanders

\* Mistake: a link that is there is replaced.
InsertOrReplace(r) ==
  LET x == request[r] IN
  /\ x.pc = "insert"
  /\ link' = [link EXCEPT ![x.user] = x.link]
  /\ Ends(r)
  /\ UNCHANGED <<domains, moderation>> /\ Bystanders

\* linkUserToOrganization: the insertion fails where there is a link.
Insert(r) ==
  LET x == request[r] IN
  /\ x.pc = "insert"
  /\ link' = IF link[x.user] = None THEN [link EXCEPT ![x.user] = x.link] ELSE link
  /\ Ends(r)
  /\ UNCHANGED <<domains, moderation>> /\ Bystanders

-------------------------------------------------------------------------------
(* markDomainAsVerified, of a moderator or within a join.                  *)

TypeOfMark(x) == IF x.op = "join" THEN "official_contact" ELSE "verified"

\* joinOrganization goes on with the domains it has read before.
AfterMark(r) ==
  IF request[r].op = "join" THEN Decides(r, request[r].seen, request[r].contact) ELSE Ends(r)

FindDomain(r) ==
  LET x == request[r] IN
  /\ x.pc = "mark"
  /\ Goes(r, IF <<x.domain, TypeOfMark(x)>> \in domains THEN "members" ELSE "add")
  /\ Reads /\ Bystanders

\* The insertion fails where the row has been inserted since.
AddDomain(r) ==
  LET x == request[r]
      row == <<x.domain, TypeOfMark(x)>>
  IN
  /\ x.pc = "add"
  /\ domains' = domains \cup {row}
  /\ IF row \in domains THEN Ends(r) ELSE Goes(r, "members")
  /\ UNCHANGED <<link, moderation>> /\ Bystanders

\* No link has the second one: forceJoinLink spells it otherwise.
Upgraded ==
  {"null", "no_verification_means_available",
   "no_verification_means_for_entreprise_unipersonnelle"}

\* Mistake: members of any domain are upgraded.
MembersOfAnyDomain(domain) ==
  {u \in Users : link[u] # None /\ link[u].type \in Upgraded}

\* Mistake: links without a type are forgotten.
MembersWithAType(domain) ==
  {u \in Users : /\ link[u] # None /\ email[u] = domain
                 /\ link[u].type \in Upgraded \ {"null"}}

MembersToUpgrade(domain) ==
  {u \in Users : link[u] # None /\ email[u] = domain /\ link[u].type \in Upgraded}

ReadMembers(r) ==
  LET todo == MembersToUpgrade(request[r].domain) IN
  /\ request[r].pc = "members"
  /\ IF todo = {} THEN AfterMark(r)
     ELSE request' = [request EXCEPT ![r].pc = "upgrade", ![r].todo = todo]
  /\ Reads /\ Bystanders

\* One of the updates of Promise.all
Upgrade(r) ==
  LET x == request[r] IN
  /\ x.pc = "upgrade"
  /\ \E u \in x.todo :
       /\ link' = IF link[u] = None THEN link ELSE [link EXCEPT ![u].type = "domain"]
       /\ IF x.todo = {u} THEN AfterMark(r)
          ELSE request' = [request EXCEPT ![r].todo = @ \ {u}]
  /\ UNCHANGED <<domains, moderation>> /\ Bystanders

-------------------------------------------------------------------------------
(* The code sent to the official contact.                                  *)

FindMember(r) ==
  LET x == request[r] IN
  /\ x.pc = "member"
  /\ \/ Ends(r)
     \/ /\ link[x.user] # None
        /\ IF x.op = "sendCode" THEN link[x.user].needs /\ organization.contact # None
           ELSE link[x.user].code
        /\ Goes(r, x.op)
  /\ Reads /\ Bystanders

SendCode(r) ==
  LET u == request[r].user IN
  /\ request[r].pc = "sendCode"
  /\ link' = IF link[u] = None THEN link ELSE [link EXCEPT ![u].code = TRUE]
  /\ Ends(r)
  /\ UNCHANGED <<domains, moderation>> /\ Bystanders

VerifyCode(r) ==
  LET u == request[r].user IN
  /\ request[r].pc = "verifyCode"
  /\ link' = IF link[u] = None THEN link
             ELSE [link EXCEPT ![u].needs = FALSE, ![u].code = FALSE]
  /\ Ends(r)
  /\ UNCHANGED <<domains, moderation>> /\ Bystanders

-------------------------------------------------------------------------------
(* Handlers whose one query decides.                                       *)

quitOrganization(u) ==
  /\ link[u] # None
  /\ link' = [link EXCEPT ![u] = None]
  /\ UNCHANGED <<domains, moderation, request>> /\ Bystanders

\* Mistake: the moderation need not be there.
DropModeration(u, type) ==
  /\ moderation' = [moderation EXCEPT ![<<u, type>>] = @ - 1]
  /\ UNCHANGED <<domains, link, request>> /\ Bystanders

\* The user cancels it, or a moderator has dealt with it.
cancelModeration(u, type) ==
  /\ moderation[<<u, type>>] > 0
  /\ moderation' = [moderation EXCEPT ![<<u, type>>] = @ - 1]
  /\ UNCHANGED <<domains, link, request>> /\ Bystanders

-------------------------------------------------------------------------------
Proceed(r) ==
  \/ FindLinks(r) \/ FindModeration(r) \/ ReadDomains(r) \/ FindContact(r)
  \/ AskForReview(r) \/ Block(r) \/ Insert(r)
  \/ FindDomain(r) \/ AddDomain(r) \/ ReadMembers(r) \/ Upgrade(r)
  \/ FindMember(r) \/ SendCode(r) \/ VerifyCode(r)

Next ==
  \/ \E r \in Requests : Receive(r) \/ Dies(r) \/ Proceed(r)
  \/ \E u \in Users :
       \/ quitOrganization(u)
       \/ \E type \in ModerationTypes : cancelModeration(u, type)

Spec == Init /\ [][Next]_vars
=============================================================================
