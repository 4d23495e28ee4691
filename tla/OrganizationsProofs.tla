-------------------------- MODULE OrganizationsProofs --------------------------
(***************************************************************************)
(* Proofs about Organizations, for any users, addresses, organizations,    *)
(* domains and numbers of requests.                                        *)
(***************************************************************************)
EXTENDS OrganizationsProperties, TLAPS

-------------------------------------------------------------------------------
(* What joinOrganization decides.                                          *)

\* The first of at most five rules is the least that applies.
LEMMA LeastOfFive ==
  ASSUME NEW S, S \subseteq 1..5, S # {}
  PROVE  \E i \in S : \A j \in S : i <= j
<1>1. CASE 1 \in S
  BY <1>1
<1>2. CASE 1 \notin S /\ 2 \in S
  BY <1>2
<1>3. CASE 1 \notin S /\ 2 \notin S /\ 3 \in S
  BY <1>3
<1>4. CASE 1 \notin S /\ 2 \notin S /\ 3 \notin S /\ 4 \in S
  BY <1>4
<1>5. CASE 1 \notin S /\ 2 \notin S /\ 3 \notin S /\ 4 \notin S
  <2>1. \A i \in S : i \in 1..5 /\ i \notin {1, 2, 3, 4}
    BY <1>5
  <2>2. \A i \in S : i = 5
    BY <2>1
  <2>3. \A i, j \in S : i <= j
    BY <2>2
  <2> QED
    BY <2>3
<1> QED
  BY <1>1, <1>2, <1>3, <1>4, <1>5

LEMMA FirstRule ==
  ASSUME NEW rules, DOMAIN rules \subseteq 1..5
  PROVE  \/ /\ FirstThatApplies(rules) = None
            /\ \A i \in DOMAIN rules : rules[i] = None
         \/ \E i \in DOMAIN rules :
              /\ FirstThatApplies(rules) = rules[i]
              /\ rules[i] # None
              /\ \A j \in DOMAIN rules : j < i => rules[j] = None
<1> DEFINE applies == {i \in DOMAIN rules : rules[i] # None}
<1>1. CASE applies = {}
  BY <1>1 DEF FirstThatApplies
<1>2. CASE applies # {}
  <2> DEFINE least == CHOOSE i \in applies : \A j \in applies : i <= j
  <2>1. least \in applies /\ \A j \in applies : least <= j
    BY <1>2, LeastOfFive
  <2>2. FirstThatApplies(rules) = rules[least]
    BY <1>2 DEF FirstThatApplies
  <2> HIDE DEF least
  <2>3. \A j \in DOMAIN rules : j < least => rules[j] = None
    BY <2>1
  <2> QED
    BY <2>1, <2>2, <2>3
<1> QED
  BY <1>1, <1>2

\* A link that is still to be confirmed says by what.
Sound(l) == l.needs => l.type \notin Asserted

LEMMA LinksOfTypes ==
  ASSUME NEW type \in LinkTypes
  PROVE  /\ LinkOf(type) \in Link /\ LinkOf(type) # None /\ Sound(LinkOf(type))
         /\ LinkOf(type).type = type
         /\ [LinkOf(type) EXCEPT !.external = TRUE] \in Link
         /\ Sound([LinkOf(type) EXCEPT !.external = TRUE])
         /\ [LinkOf(type) EXCEPT !.external = TRUE].type = type
<1>1. LinkOf(type) \in Link /\ LinkOf(type).type = type /\ LinkOf(type).needs = FALSE
  BY DEF LinkOf, Link
<1>2. \A l \in Link : l # None
  BY NoneAssumption
<1> DEFINE l == [LinkOf(type) EXCEPT !.external = TRUE]
<1>3. l \in Link /\ l.type = type /\ l.needs = FALSE
  BY <1>1 DEF Link
<1> QED
  BY <1>1, <1>2, <1>3 DEF Sound

LEMMA FirstOfTwo ==
  ASSUME NEW a, NEW b
  PROVE  FirstThatApplies(<<a, b>>) = IF a # None THEN a ELSE b
<1> DEFINE rules == <<a, b>>
<1>1. DOMAIN rules = {1, 2} /\ rules[1] = a /\ rules[2] = b
  OBVIOUS
<1> HIDE DEF rules
<1>2. DOMAIN rules \subseteq 1..5 /\ 1 < 2
  BY <1>1
<1> QED
  BY <1>1, <1>2, FirstRule DEF rules

LEMMA FirstOfFour ==
  ASSUME NEW a, NEW b, NEW c, NEW d
  PROVE  FirstThatApplies(<<a, b, c, d>>) =
           IF a # None THEN a ELSE IF b # None THEN b ELSE IF c # None THEN c ELSE d
<1> DEFINE rules == <<a, b, c, d>>
<1>1. DOMAIN rules = {1, 2, 3, 4}
      /\ rules[1] = a /\ rules[2] = b /\ rules[3] = c /\ rules[4] = d
  OBVIOUS
<1> HIDE DEF rules
<1>2. DOMAIN rules \subseteq 1..5 /\ 1 < 2 /\ 1 < 3 /\ 1 < 4 /\ 2 < 3 /\ 2 < 4 /\ 3 < 4
  BY <1>1
<1> QED
  BY <1>1, <1>2, FirstRule DEF rules

LEMMA FirstOfFive ==
  ASSUME NEW a, NEW b, NEW c, NEW d, NEW e
  PROVE  FirstThatApplies(<<a, b, c, d, e>>) =
           IF a # None THEN a ELSE IF b # None THEN b ELSE IF c # None THEN c
           ELSE IF d # None THEN d ELSE e
<1> DEFINE rules == <<a, b, c, d, e>>
<1>1. DOMAIN rules = {1, 2, 3, 4, 5}
      /\ rules[1] = a /\ rules[2] = b /\ rules[3] = c /\ rules[4] = d /\ rules[5] = e
  OBVIOUS
<1> HIDE DEF rules
<1>2. DOMAIN rules \subseteq 1..5
      /\ 1 < 2 /\ 1 < 3 /\ 1 < 4 /\ 1 < 5 /\ 2 < 3 /\ 2 < 4 /\ 2 < 5 /\ 3 < 4 /\ 3 < 5 /\ 4 < 5
  BY <1>1
<1> QED
  BY <1>1, <1>2, FirstRule DEF rules

\* The domain of the official contact vouches for u.
ContactVouches(u, c) ==
  HasMayor(organization) /\ c # None /\ ~usesAFreeEmailProvider(c.domain) /\ c.domain = email[u]

DomainVouches(u, seen) ==
  \E type \in {"verified", "external", "trackdechets_postal_mail"} : <<email[u], type>> \in seen

LEMMA WithoutVerificationDecides ==
  LET l == FirstThatApplies(WithoutVerification)
  IN l \in Link \cup {None} /\ (l # None => Sound(l) /\ l.type \notin {"domain", "null"})
<1> DEFINE one == LinkOf("no_verification_means_for_entreprise_unipersonnelle")
           two == LinkOf("no_verification_means_for_small_association")
<1>1. FirstThatApplies(WithoutVerification) \in {None, one, two}
  BY FirstOfTwo DEF WithoutVerification, When
<1>2. /\ one \in Link /\ Sound(one)
      /\ one.type = "no_verification_means_for_entreprise_unipersonnelle"
      /\ two \in Link /\ Sound(two)
      /\ two.type = "no_verification_means_for_small_association"
  BY LinksOfTypes DEF LinkTypes, Asserted
<1> HIDE DEF one, two
<1> QED
  BY <1>1, <1>2

LEMMA OfficialContactDecides ==
  ASSUME NEW u, NEW c
  PROVE  LET l == FirstThatApplies(OfficialContact(u, c)) IN
         /\ l \in Link \cup {None}
         /\ l # None => Sound(l) /\ l.type # "null"
         /\ l # None /\ l.type = "domain" => ContactVouches(u, c)
<1> DEFINE email_ == LinkOf("official_contact_email")
           domain == LinkOf("domain")
           plain == LinkOf("code_sent_to_official_contact_email")
           code == [plain EXCEPT !.needs = TRUE]
<1> DEFINE mayor == HasMayor(organization) /\ c # None
           head == HasHeadTeacher(organization) /\ c # None
           one == When((mayor \/ head) /\ c.user = u, email_)
           two == When(mayor /\ ~usesAFreeEmailProvider(c.domain) /\ c.domain = email[u], domain)
           three == When(mayor /\ usesAFreeEmailProvider(email[u])
                         /\ (usesAFreeEmailProvider(c.domain)
                             \/ hasLessThanFiftyEmployees(organization)), code)
           four == When(head, code)
<1>1. /\ one \in {None, email_} /\ two \in {None, domain}
      /\ three \in {None, code} /\ four \in {None, code}
      /\ two # None => ContactVouches(u, c)
  BY DEF When, ContactVouches
<1>5. OfficialContact(u, c) = <<one, two, three, four>>
  BY DEF OfficialContact
<1>2. /\ email_ \in Link /\ Sound(email_) /\ email_.type = "official_contact_email"
      /\ domain \in Link /\ Sound(domain) /\ domain.type = "domain" /\ domain # None
      /\ plain \in Link /\ plain.type = "code_sent_to_official_contact_email"
  BY LinksOfTypes DEF LinkTypes
<1>3. code \in Link /\ code.type = "code_sent_to_official_contact_email"
  BY <1>2 DEF Link
<1>4. Sound(code)
  BY <1>3 DEF Sound, Asserted
<1> HIDE DEF email_, domain, plain, code, one, two, three, four
<1>6. FirstThatApplies(OfficialContact(u, c)) =
        IF one # None THEN one ELSE IF two # None THEN two ELSE IF three # None THEN three ELSE four
  BY <1>5, FirstOfFour
<1> QED
  BY <1>1, <1>2, <1>3, <1>4, <1>6

LEMMA KnownDomainsDecide ==
  ASSUME NEW u, NEW seen
  PROVE  LET l == FirstThatApplies(KnownDomains(u, seen)) IN
         /\ l \in Link \cup {None}
         /\ l # None => Sound(l)
         /\ l # None /\ l.type = "domain" => DomainVouches(u, seen)
         /\ DomainVouches(u, seen) => l # None /\ l.type = "domain"
<1> DEFINE domain == LinkOf("domain")
           external == [domain EXCEPT !.external = TRUE]
           bypassed == LinkOf("bypassed")
           null == LinkOf("null")
           l == FirstThatApplies(KnownDomains(u, seen))
<1>1. /\ domain \in Link /\ Sound(domain) /\ domain.type = "domain" /\ domain # None
      /\ external \in Link /\ Sound(external) /\ external.type = "domain"
      /\ bypassed \in Link /\ Sound(bypassed) /\ bypassed.type = "bypassed"
      /\ null \in Link /\ Sound(null) /\ null.type = "null"
  BY LinksOfTypes DEF LinkTypes, Asserted
<1>2. external # None
  BY <1>1, NoneAssumption
<1> DEFINE one == When(<<email[u], "verified">> \in seen, domain)
           two == When(<<email[u], "external">> \in seen, external)
           three == When(<<email[u], "trackdechets_postal_mail">> \in seen, domain)
           four == When(organization.bypass, bypassed)
           five == When(<<email[u], "null">> \in seen, null)
<1>3. /\ one \in {None, domain} /\ two \in {None, external} /\ three \in {None, domain}
      /\ four \in {None, bypassed} /\ five \in {None, null}
      /\ DomainVouches(u, seen) <=> one # None \/ two # None \/ three # None
  <2> HIDE DEF domain, external, bypassed, null
  <2> QED
    BY <1>1, <1>2 DEF When, DomainVouches
<1>4. KnownDomains(u, seen) = <<one, two, three, four, five>>
  BY DEF KnownDomains
<1> HIDE DEF domain, external, bypassed, null, one, two, three, four, five
<1>5. FirstThatApplies(KnownDomains(u, seen)) =
        IF one # None THEN one ELSE IF two # None THEN two ELSE IF three # None THEN three
        ELSE IF four # None THEN four ELSE five
  BY <1>4, FirstOfFive
<1> QED
  BY <1>1, <1>2, <1>3, <1>5

LEMMA DecisionFollowsRules ==
  ASSUME NEW u, NEW seen, NEW c
  PROVE  LET l == Decision(u, seen, c) IN
         /\ l \in Link \cup {None}
         /\ l # None => Sound(l)
         /\ l # None /\ l.type = "domain" => ContactVouches(u, c) \/ DomainVouches(u, seen)
         /\ DomainVouches(u, seen) => l # None /\ l.type # "null"
<1> DEFINE one == FirstThatApplies(WithoutVerification)
           two == FirstThatApplies(OfficialContact(u, c))
           three == FirstThatApplies(KnownDomains(u, seen))
<1>1. one \in Link \cup {None} /\ (one # None => Sound(one) /\ one.type \notin {"domain", "null"})
  BY WithoutVerificationDecides
<1>2. /\ two \in Link \cup {None}
      /\ two # None => Sound(two) /\ two.type # "null"
      /\ two # None /\ two.type = "domain" => ContactVouches(u, c)
  BY OfficialContactDecides
<1>3. /\ three \in Link \cup {None}
      /\ three # None => Sound(three)
      /\ three # None /\ three.type = "domain" => DomainVouches(u, seen)
      /\ DomainVouches(u, seen) => three # None /\ three.type = "domain"
  BY KnownDomainsDecide
<1>4. Decision(u, seen, c) = IF one # None THEN one ELSE IF two # None THEN two ELSE three
  BY DEF Decision, Otherwise
<1> HIDE DEF one, two, three
<1> QED
  BY <1>1, <1>2, <1>3, <1>4

LEMMA ForcedLinks ==
  ASSUME NEW u, NEW seen, NEW external \in BOOLEAN
  PROVE  LET l == forceJoinLink(u, seen, external) IN
         l \in Link /\ Sound(l) /\ (l.type = "domain" => DomainVouches(u, seen))
<1> DEFINE type == IF DomainVouches(u, seen) THEN "domain" ELSE "no_validation_means_available"
           l == [LinkOf(type) EXCEPT !.external = external]
<1>1. forceJoinLink(u, seen, external) = l
  BY DEF forceJoinLink, DomainVouches
<1>2. type \in LinkTypes /\ (type = "domain" => DomainVouches(u, seen))
  BY DEF LinkTypes, Asserted
<1>3. LinkOf(type) \in Link /\ LinkOf(type).type = type /\ LinkOf(type).needs = FALSE
  BY <1>2 DEF LinkOf, Link
<1> HIDE DEF type
<1>4. l \in Link /\ l.type = type /\ l.needs = FALSE
  BY <1>3 DEF Link
<1> HIDE DEF l
<1> QED
  BY <1>1, <1>2, <1>4 DEF Sound

-------------------------------------------------------------------------------
(* Types.                                                                  *)

\* What the position of a request tells of its kind.
Placed(x) ==
  /\ x.op \in Joining \cup Codes => x.user \in Users
  /\ x.pc \in {"links", "domains", "insert"} => x.op \in Joining
  /\ x.pc \in {"moderation", "contact", "review", "block"} => x.op = "join"
  /\ x.pc \in {"mark", "add", "members", "upgrade"}
       => x.op \in {"join", "mark"} /\ x.domain \in DomainNames
  /\ x.pc \in {"member", "sendCode", "verifyCode"} => x.op \in Codes

TypeInv == TypeOK /\ \A r \in Requests : Placed(request[r])

LEMMA IdleIsPlaced == Idle \in Request /\ Placed(Idle)
<1>1. Idle \in Request
  BY DEF Idle, Request, Positions
<1>2. None \notin Joining \cup Codes
  BY NoneAssumption
<1> QED
  BY <1>1, <1>2 DEF Idle, Placed

LEMMA TypeInit == Init => TypeInv
<1> SUFFICES ASSUME Init PROVE TypeInv
  OBVIOUS
<1>1. organization \in Organization /\ domains \subseteq DomainNames \X DomainTypes
  BY CasesAssumption, TablesAssumption DEF Init
<1>2. request \in [Requests -> Request] /\ \A r \in Requests : Placed(request[r])
  BY IdleIsPlaced DEF Init
<1>3. link \in [Users -> Link \cup {None}] /\ moderation \in [Users \X ModerationTypes -> Nat]
  BY DEF Init
<1>4. received \in 0..MaxRequests
  BY MaxRequestsAssumption DEF Init
<1>5. email \in Emails /\ crossed \in BOOLEAN /\ doubled \subseteq Users
  BY DEF Init
<1> QED
  BY <1>1, <1>2, <1>3, <1>4, <1>5 DEF TypeInv, TypeOK

\* What a step has to show of the request that takes it.
LEMMA RequestTypes ==
  ASSUME TypeInv, NEW r \in Requests, NEW x, x \in Request, Placed(x),
         request' = [request EXCEPT ![r] = x]
  PROVE  request' \in [Requests -> Request] /\ \A s \in Requests : Placed(request'[s])
BY DEF TypeInv, TypeOK

LEMMA EndTypes ==
  ASSUME TypeInv, NEW r \in Requests, Ends(r)
  PROVE  request' \in [Requests -> Request] /\ \A s \in Requests : Placed(request'[s])
BY IdleIsPlaced, RequestTypes DEF Ends

\* The position a request may go to from another.
Follows(x, pc) ==
  /\ pc \in {"domains", "insert"} => x.op \in Joining
  /\ pc \in {"moderation", "contact", "review", "block"} => x.op = "join"
  /\ pc \in {"mark", "add", "members", "upgrade"}
       => x.op \in {"join", "mark"} /\ x.domain \in DomainNames
  /\ pc \in {"sendCode", "verifyCode"} => x.op \in Codes
  /\ pc \in Positions \ {"links", "member"}

LEMMA GoTypes ==
  ASSUME TypeInv, NEW r \in Requests, NEW pc, Follows(request[r], pc), Goes(r, pc)
  PROVE  request' \in [Requests -> Request] /\ \A s \in Requests : Placed(request'[s])
<1> DEFINE x == [request[r] EXCEPT !.pc = pc]
<1>1. request' = [request EXCEPT ![r] = x]
  BY DEF Goes
<1>2. request[r] \in Request /\ Placed(request[r])
  BY DEF TypeInv, TypeOK
<1>3. x \in Request /\ x.pc = pc /\ x.op = request[r].op /\ x.user = request[r].user
      /\ x.domain = request[r].domain
  BY <1>2 DEF Request, Follows
<1> HIDE DEF x
<1>4. Placed(x)
  BY <1>2, <1>3 DEF Placed, Follows
<1> QED
  BY <1>1, <1>3, <1>4, RequestTypes

LEMMA DecideTypes ==
  ASSUME TypeInv, NEW r \in Requests, request[r].op = "join",
         NEW seen \in SUBSET (DomainNames \X DomainTypes), NEW c \in Contact \cup {None},
         Decides(r, seen, c)
  PROVE  request' \in [Requests -> Request] /\ \A s \in Requests : Placed(request'[s])
<1> DEFINE d == Decision(request[r].user, seen, c)
           pc == IF d = None THEN "block" ELSE IF d.type = "null" THEN "review" ELSE "insert"
           x == [request[r] EXCEPT !.seen = seen, !.contact = c, !.link = d, !.todo = {}, !.pc = pc]
<1>1. request' = [request EXCEPT ![r] = x]
  BY DEF Decides
<1>2. request[r] \in Request /\ Placed(request[r])
  BY DEF TypeInv, TypeOK
<1>3. d \in Link \cup {None}
  BY DecisionFollowsRules
<1>4. pc \in {"block", "review", "insert"} /\ pc \in Positions
  BY DEF Positions
<1> HIDE DEF d, pc
<1>5. x \in Request /\ x.pc = pc /\ x.op = "join" /\ x.user = request[r].user
  BY <1>2, <1>3, <1>4 DEF Request
<1> HIDE DEF x
<1>6. Placed(x)
  BY <1>2, <1>4, <1>5 DEF Placed, Joining
<1> QED
  BY <1>1, <1>5, <1>6, RequestTypes

LEMMA NewRequestTypes ==
  ASSUME NEW op \in Joining \cup Marking \cup Codes, NEW a \in Arguments(op)
  PROVE  NewRequest(op, a) \in Request /\ Placed(NewRequest(op, a))
<1> DEFINE x == NewRequest(op, a)
           suggested == op = "join" /\ Suggested(a.user)
<1>1. /\ a.user \in Users \cup {None} /\ a.domain \in DomainNames \cup {None}
      /\ a.confirmed \in BOOLEAN /\ a.external \in BOOLEAN
      /\ op \in Joining \cup Codes => a.user \in Users
      /\ op \in Marking => a.domain \in DomainNames
  BY DEF Arguments, Joining, Marking, Codes
<1>2. /\ FirstQuery(op) \in {"links", "mark", "member"} /\ FirstQuery(op) \in Positions
      /\ FirstQuery(op) = "links" => op \in Joining
      /\ FirstQuery(op) = "mark" => op \in Marking
      /\ FirstQuery(op) = "member" => op \in Codes
  BY DEF FirstQuery, Joining, Marking, Codes, Positions
<1>3. x \in Request
  <2>1. CASE suggested
    <3>1. x = [op |-> op, pc |-> FirstQuery(op), user |-> a.user, domain |-> a.domain,
               confirmed |-> a.confirmed, external |-> a.external, contact |-> None,
               seen |-> {}, link |-> None, todo |-> {}, suggested |-> TRUE]
      <4>1. suggested = TRUE
        BY <2>1
      <4> QED
        BY <4>1, Zenon DEF NewRequest
    <3> QED
      BY <1>1, <1>2, <3>1 DEF Request
  <2>2. CASE ~suggested
    <3>1. x = [op |-> op, pc |-> FirstQuery(op), user |-> a.user, domain |-> a.domain,
               confirmed |-> a.confirmed, external |-> a.external, contact |-> None,
               seen |-> {}, link |-> None, todo |-> {}, suggested |-> FALSE]
      <4>1. suggested = FALSE
        BY <2>2
      <4> QED
        BY <4>1, Zenon DEF NewRequest
    <3> QED
      BY <1>1, <1>2, <3>1 DEF Request
  <2> QED
    BY <2>1, <2>2
<1>4. x.op = op /\ x.pc = FirstQuery(op) /\ x.user = a.user /\ x.domain = a.domain
  BY DEF NewRequest
<1> HIDE DEF x
<1>5. Placed(x)
  BY <1>1, <1>2, <1>4 DEF Placed, Joining, Marking, Codes
<1> QED
  BY <1>3, <1>5 DEF x

LEMMA ReceiveTypes ==
  ASSUME TypeInv, NEW r \in Requests, Receive(r)
  PROVE  TypeInv'
<1>1. PICK op \in Joining \cup Marking \cup Codes : \E a \in Arguments(op) :
        /\ request' = [request EXCEPT ![r] = NewRequest(op, a)]
        /\ doubled' = IF op = "join" /\ \E s \in InFlight : Joins(request[s], a.user)
                      THEN doubled \cup {a.user} ELSE doubled
  BY DEF Receive
<1>2. PICK a \in Arguments(op) :
        /\ request' = [request EXCEPT ![r] = NewRequest(op, a)]
        /\ doubled' = IF op = "join" /\ \E s \in InFlight : Joins(request[s], a.user)
                      THEN doubled \cup {a.user} ELSE doubled
  BY <1>1
<1>3. request' \in [Requests -> Request] /\ \A s \in Requests : Placed(request'[s])
  BY <1>2, NewRequestTypes, RequestTypes
<1>4. received' \in 0..MaxRequests
  BY MaxRequestsAssumption DEF Receive, TypeInv, TypeOK
<1>5. crossed' \in BOOLEAN
  BY DEF Receive
<1>6. op = "join" => a.user \in Users
  BY DEF Arguments, Marking
<1>7. doubled' \subseteq Users
  BY <1>2, <1>6 DEF TypeInv, TypeOK
<1> QED
  BY <1>3, <1>4, <1>5, <1>7 DEF TypeInv, TypeOK, Receive, Reads

RequestsTyped == request \in [Requests -> Request] /\ \A s \in Requests : Placed(request[s])

\* A step of a request touches the rows in one of a few ways.
LEMMA RowTypes ==
  ASSUME TypeInv, Bystanders, RequestsTyped',
         \/ domains' = domains
         \/ \E row \in DomainNames \X DomainTypes : domains' = domains \cup {row},
         \/ link' = link
         \/ \E u \in Users, l \in Link \cup {None} : link' = [link EXCEPT ![u] = l],
         \/ moderation' = moderation
         \/ \E m \in Users \X ModerationTypes, n \in Nat : moderation' = [moderation EXCEPT ![m] = n]
  PROVE  TypeInv'
<1>1. domains' \subseteq DomainNames \X DomainTypes
  BY DEF TypeInv, TypeOK
<1>2. link' \in [Users -> Link \cup {None}]
  BY DEF TypeInv, TypeOK
<1>3. moderation' \in [Users \X ModerationTypes -> Nat]
  BY DEF TypeInv, TypeOK
<1> QED
  BY <1>1, <1>2, <1>3 DEF TypeInv, TypeOK, RequestsTyped, Bystanders

LEMMA JoinTypes ==
  ASSUME TypeInv, NEW r \in Requests,
         FindLinks(r) \/ FindModeration(r) \/ ReadDomains(r) \/ FindContact(r)
  PROVE  TypeInv'
<1> DEFINE x == request[r]
<1>1. x \in Request /\ Placed(x)
  BY DEF TypeInv, TypeOK
<1>2. Bystanders /\ Reads
  BY DEF FindLinks, FindModeration, ReadDomains, FindContact
<1>3. RequestsTyped'
  <2>1. CASE Ends(r)
    BY <2>1, EndTypes DEF RequestsTyped
  <2>2. CASE FindLinks(r) /\ ~Ends(r)
    <3>1. PICK pc \in {"moderation", "domains"} : Goes(r, pc) /\ Follows(x, pc)
      BY <1>1, <2>2 DEF FindLinks, Follows, Placed, Positions
    <3> QED
      BY <3>1, GoTypes DEF RequestsTyped
  <2>3. CASE FindModeration(r) /\ ~Ends(r)
    <3>1. Goes(r, "domains") /\ Follows(x, "domains")
      BY <1>1, <2>3 DEF FindModeration, Follows, Placed, Positions, Joining
    <3> QED
      BY <3>1, GoTypes DEF RequestsTyped
  <2>4. CASE ReadDomains(r) /\ ~Ends(r)
    <3>1. domains \in SUBSET (DomainNames \X DomainTypes)
      BY DEF TypeInv, TypeOK
    <3>2. CASE x.op = "join" /\ Decides(r, domains, None)
      BY <3>1, <3>2, DecideTypes DEF RequestsTyped
    <3>3. CASE x.op = "join" /\ request' = [request EXCEPT ![r].pc = "contact", ![r].seen = domains]
      <4> DEFINE y == [x EXCEPT !.pc = "contact", !.seen = domains]
      <4>1. request' = [request EXCEPT ![r] = y]
        BY <3>3
      <4>2. y \in Request /\ y.pc = "contact" /\ y.op = "join" /\ y.user = x.user
        BY <1>1, <3>1, <3>3 DEF Request, Positions
      <4> HIDE DEF y
      <4>3. Placed(y)
        BY <1>1, <3>3, <4>2 DEF Placed, Joining
      <4> QED
        BY <4>1, <4>2, <4>3, RequestTypes DEF RequestsTyped
    <3>4. CASE /\ x.op = "forceJoin"
               /\ request' = [request EXCEPT ![r].pc = "insert",
                                ![r].link = forceJoinLink(x.user, domains, x.external)]
      <4> DEFINE l == forceJoinLink(x.user, domains, x.external)
                 y == [x EXCEPT !.pc = "insert", !.link = l]
      <4>1. request' = [request EXCEPT ![r] = y]
        BY <3>4
      <4>2. x.external \in BOOLEAN
        BY <1>1 DEF Request
      <4>3. l \in Link
        BY <4>2, ForcedLinks
      <4> HIDE DEF l
      <4>4. y \in Request /\ y.pc = "insert" /\ y.op = "forceJoin" /\ y.user = x.user
        BY <1>1, <3>4, <4>3 DEF Request, Positions
      <4> HIDE DEF y
      <4>5. Placed(y)
        BY <1>1, <3>4, <4>4 DEF Placed, Joining
      <4> QED
        BY <4>1, <4>4, <4>5, RequestTypes DEF RequestsTyped
    <3> QED
      BY <2>4, <3>2, <3>3, <3>4 DEF ReadDomains
  <2>5. CASE FindContact(r)
    <3>1. PICK c \in {organization.contact, None} :
            IF HasMayor(organization) /\ c # None /\ ~usesAFreeEmailProvider(c.domain)
            THEN request' = [request EXCEPT ![r].pc = "mark", ![r].domain = c.domain,
                                            ![r].contact = c]
            ELSE Decides(r, x.seen, c)
      BY <2>5 DEF FindContact
    <3>2. c \in Contact \cup {None} /\ x.op = "join" /\ x.seen \in SUBSET (DomainNames \X DomainTypes)
      <4>1. organization \in Organization /\ x.pc = "contact"
        BY <2>5 DEF TypeInv, TypeOK, FindContact
      <4> QED
        BY <1>1, <4>1 DEF Organization, Request, Placed
    <3>3. CASE Decides(r, x.seen, c)
      BY <3>2, <3>3, DecideTypes DEF RequestsTyped
    <3>4. CASE /\ c # None
               /\ request' = [request EXCEPT ![r].pc = "mark", ![r].domain = c.domain,
                                             ![r].contact = c]
      <4> DEFINE y == [x EXCEPT !.pc = "mark", !.domain = c.domain, !.contact = c]
      <4>1. request' = [request EXCEPT ![r] = y]
        BY <3>4
      <4>2. c \in Contact /\ c.domain \in DomainNames
        BY <3>2, <3>4 DEF Contact
      <4>3. y \in Request /\ y.pc = "mark" /\ y.op = "join" /\ y.user = x.user /\ y.domain = c.domain
        BY <1>1, <3>2, <4>2 DEF Request, Positions
      <4> HIDE DEF y
      <4>4. Placed(y)
        BY <1>1, <3>2, <4>2, <4>3 DEF Placed, Joining
      <4> QED
        BY <4>1, <4>3, <4>4, RequestTypes DEF RequestsTyped
    <3> QED
      BY <3>1, <3>3, <3>4
  <2> QED
    BY <2>1, <2>2, <2>3, <2>4, <2>5
<1> QED
  BY <1>2, <1>3, RowTypes DEF Reads
LEMMA WriteTypes ==
  ASSUME TypeInv, NEW r \in Requests,
         AskForReview(r) \/ Block(r) \/ Insert(r)
  PROVE  TypeInv'
<1> DEFINE x == request[r]
<1>1. x \in Request /\ Placed(x)
  BY DEF TypeInv, TypeOK
<1>2. Bystanders /\ domains' = domains
  BY DEF AskForReview, Block, Insert
<1>3. RequestsTyped'
  <2>1. CASE Ends(r)
    BY <2>1, EndTypes DEF RequestsTyped
  <2>2. CASE AskForReview(r)
    <3>1. Goes(r, "insert") /\ Follows(x, "insert")
      BY <1>1, <2>2 DEF AskForReview, Follows, Placed, Positions, Joining
    <3> QED
      BY <3>1, GoTypes DEF RequestsTyped
  <2> QED
    BY <2>1, <2>2 DEF Block, Insert
<1>4. CASE Insert(r)
  <2>1. x.user \in Users /\ x.link \in Link \cup {None} /\ moderation' = moderation
    BY <1>1, <1>4 DEF Insert, Placed, Request, Joining
  <2>2. link' = link \/ link' = [link EXCEPT ![x.user] = x.link]
    BY <1>4 DEF Insert
  <2> QED
    BY <1>2, <1>3, <2>1, <2>2, RowTypes
<1>5. CASE AskForReview(r) \/ Block(r)
  <2>1. PICK type \in {"organization_join_block", "non_verified_domain"} : Moderate(r, type)
    BY <1>5 DEF AskForReview, Block
  <2> DEFINE m == <<x.user, type>>
  <2>2. m \in Users \X ModerationTypes /\ link' = link
    BY <1>1, <1>5 DEF AskForReview, Block, Placed, Joining, ModerationTypes
  <2>3. moderation' = [moderation EXCEPT ![m] = moderation[m] + 1]
    BY <2>1 DEF Moderate
  <2>4. moderation[m] + 1 \in Nat
    BY <2>2 DEF TypeInv, TypeOK
  <2> QED
    BY <1>2, <1>3, <2>2, <2>3, <2>4, RowTypes
<1> QED
  BY <1>4, <1>5

LEMMA AfterMarkTypes ==
  ASSUME TypeInv, NEW r \in Requests, AfterMark(r),
         request[r].pc \in {"mark", "add", "members", "upgrade"}
  PROVE  RequestsTyped'
<1>1. request[r] \in Request
  BY DEF TypeInv, TypeOK
<1>2. CASE request[r].op = "join"
  <2>1. request[r].seen \in SUBSET (DomainNames \X DomainTypes)
        /\ request[r].contact \in Contact \cup {None}
    BY <1>1 DEF Request
  <2>2. Decides(r, request[r].seen, request[r].contact)
    BY <1>2 DEF AfterMark
  <2> QED
    BY <1>2, <2>1, <2>2, DecideTypes DEF RequestsTyped
<1>3. CASE Ends(r)
  BY <1>3, EndTypes DEF RequestsTyped
<1> QED
  BY <1>2, <1>3 DEF AfterMark

LEMMA MarkTypes ==
  ASSUME TypeInv, NEW r \in Requests,
         FindDomain(r) \/ AddDomain(r) \/ ReadMembers(r)
  PROVE  TypeInv'
<1> DEFINE x == request[r]
           row == <<x.domain, TypeOfMark(x)>>
<1>1. x \in Request /\ Placed(x)
  BY DEF TypeInv, TypeOK
<1>2. Bystanders /\ link' = link /\ moderation' = moderation
  BY DEF FindDomain, AddDomain, ReadMembers, Reads
<1>3. x.pc \in {"mark", "add", "members"} /\ Follows(x, "add") /\ Follows(x, "members")
  BY <1>1 DEF FindDomain, AddDomain, ReadMembers, Placed, Follows, Positions
<1>4. RequestsTyped'
  <2>1. CASE Ends(r)
    BY <2>1, EndTypes DEF RequestsTyped
  <2>2. CASE Goes(r, "add") \/ Goes(r, "members")
    BY <1>3, <2>2, GoTypes DEF RequestsTyped
  <2>3. CASE ReadMembers(r)
    <3>1. CASE AfterMark(r)
      BY <1>3, <3>1, AfterMarkTypes
    <3>2. CASE request' = [request EXCEPT ![r].pc = "upgrade",
                                          ![r].todo = MembersToUpgrade(x.domain)]
      <4> DEFINE todo == MembersToUpgrade(x.domain)
                 y == [x EXCEPT !.pc = "upgrade", !.todo = todo]
      <4>1. request' = [request EXCEPT ![r] = y]
        BY <3>2
      <4>2. todo \in SUBSET Users
        BY DEF MembersToUpgrade
      <4> HIDE DEF todo
      <4>3. y \in Request /\ y.pc = "upgrade" /\ y.op = x.op /\ y.user = x.user
            /\ y.domain = x.domain
        BY <1>1, <4>2 DEF Request, Positions
      <4> HIDE DEF y
      <4>4. Placed(y)
        BY <1>1, <1>3, <4>3 DEF Placed, Follows
      <4> QED
        BY <4>1, <4>3, <4>4, RequestTypes DEF RequestsTyped
    <3> QED
      BY <2>3, <3>1, <3>2 DEF ReadMembers
  <2> QED
    BY <2>1, <2>2, <2>3 DEF FindDomain, AddDomain
<1>5. domains' = domains \/ \E d \in DomainNames \X DomainTypes : domains' = domains \cup {d}
  <2>1. row \in DomainNames \X DomainTypes
    BY <1>3 DEF Follows, TypeOfMark, DomainTypes
  <2>2. domains' = domains \/ domains' = domains \cup {row}
    BY DEF FindDomain, AddDomain, ReadMembers, Reads
  <2> QED
    BY <2>1, <2>2
<1> QED
  BY <1>2, <1>4, <1>5, RowTypes

LEMMA UpgradeTypes ==
  ASSUME TypeInv, NEW r \in Requests, Upgrade(r)
  PROVE  TypeInv'
<1> DEFINE x == request[r]
<1>1. x \in Request /\ Placed(x) /\ x.pc = "upgrade"
  BY DEF TypeInv, TypeOK, Upgrade
<1>2. Bystanders /\ domains' = domains /\ moderation' = moderation
  BY DEF Upgrade
<1>3. PICK u \in x.todo :
        /\ link' = IF link[u] = None THEN link ELSE [link EXCEPT ![u].type = "domain"]
        /\ IF x.todo = {u} THEN AfterMark(r)
           ELSE request' = [request EXCEPT ![r].todo = @ \ {u}]
  BY DEF Upgrade
<1>4. u \in Users
  BY <1>1 DEF Request
<1>5. RequestsTyped'
  <2>1. CASE AfterMark(r)
    BY <1>1, <2>1, AfterMarkTypes
  <2>2. CASE request' = [request EXCEPT ![r].todo = @ \ {u}]
    <3> DEFINE y == [x EXCEPT !.todo = x.todo \ {u}]
    <3>1. request' = [request EXCEPT ![r] = y]
      BY <2>2
    <3>2. y \in Request /\ y.pc = x.pc /\ y.op = x.op /\ y.user = x.user /\ y.domain = x.domain
      BY <1>1 DEF Request
    <3> HIDE DEF y
    <3>3. Placed(y)
      BY <1>1, <3>2 DEF Placed
    <3> QED
      BY <3>1, <3>2, <3>3, RequestTypes DEF RequestsTyped
  <2> QED
    BY <1>3, <2>1, <2>2
<1>6. link' = link \/ \E v \in Users, l \in Link \cup {None} : link' = [link EXCEPT ![v] = l]
  <2>1. CASE link[u] = None
    BY <1>3, <2>1
  <2>2. CASE link[u] # None
    <3> DEFINE l == [link[u] EXCEPT !.type = "domain"]
    <3>1. link' = [link EXCEPT ![u] = l]
      BY <1>3, <2>2
    <3>2. link[u] \in Link
      BY <1>4, <2>2 DEF TypeInv, TypeOK
    <3>3. l \in Link
      BY <3>2 DEF Link, LinkTypes
    <3> HIDE DEF l
    <3> QED
      BY <1>4, <3>1, <3>3
  <2> QED
    BY <2>1, <2>2
<1> QED
  BY <1>2, <1>5, <1>6, RowTypes

LEMMA CodeTypes ==
  ASSUME TypeInv, NEW r \in Requests, FindMember(r) \/ SendCode(r) \/ VerifyCode(r)
  PROVE  TypeInv'
<1> DEFINE x == request[r]
           u == x.user
<1>1. x \in Request /\ Placed(x) /\ x.op \in Codes /\ u \in Users
  BY DEF TypeInv, TypeOK, FindMember, SendCode, VerifyCode, Placed
<1>2. Bystanders /\ domains' = domains /\ moderation' = moderation
  BY DEF FindMember, SendCode, VerifyCode, Reads
<1>3. RequestsTyped'
  <2>1. CASE Ends(r)
    BY <2>1, EndTypes DEF RequestsTyped
  <2>2. CASE Goes(r, x.op)
    <3>1. Follows(x, x.op)
      BY <1>1 DEF Follows, Codes, Positions
    <3> QED
      BY <2>2, <3>1, GoTypes DEF RequestsTyped
  <2> QED
    BY <2>1, <2>2 DEF FindMember, SendCode, VerifyCode
<1>4. link' = link \/ \E v \in Users, l \in Link \cup {None} : link' = [link EXCEPT ![v] = l]
  <2>1. CASE link' = link
    BY <2>1
  <2>2. CASE SendCode(r) /\ link[u] # None
    <3> DEFINE l == [link[u] EXCEPT !.code = TRUE]
    <3>1. link' = [link EXCEPT ![u] = l] /\ link[u] \in Link
      BY <1>1, <2>2 DEF SendCode, TypeInv, TypeOK
    <3>2. l \in Link
      BY <3>1 DEF Link
    <3> HIDE DEF l
    <3> QED
      BY <1>1, <3>1, <3>2
  <2>3. CASE VerifyCode(r) /\ link[u] # None
    <3> DEFINE l == [link[u] EXCEPT !.needs = FALSE, !.code = FALSE]
    <3>1. link' = [link EXCEPT ![u] = l] /\ link[u] \in Link
      BY <1>1, <2>3 DEF VerifyCode, TypeInv, TypeOK
    <3>2. l \in Link
      BY <3>1 DEF Link
    <3> HIDE DEF l
    <3> QED
      BY <1>1, <3>1, <3>2
  <2> QED
    BY <2>1, <2>2, <2>3 DEF FindMember, SendCode, VerifyCode, Reads
<1> QED
  BY <1>2, <1>3, <1>4, RowTypes

LEMMA DiesTypes ==
  ASSUME TypeInv, NEW r \in Requests, Dies(r)
  PROVE  TypeInv'
<1>1. request' \in [Requests -> Request] /\ \A s \in Requests : Placed(request'[s])
  BY EndTypes DEF Dies
<1> QED
  BY <1>1 DEF Dies, Reads, TypeInv, TypeOK

LEMMA HandlerTypes ==
  ASSUME TypeInv, NEW u \in Users,
         quitOrganization(u) \/ \E type \in ModerationTypes : cancelModeration(u, type)
  PROVE  TypeInv'
<1>1. RequestsTyped'
  BY DEF TypeInv, TypeOK, RequestsTyped, quitOrganization, cancelModeration
<1>2. CASE quitOrganization(u)
  <2>1. link' = [link EXCEPT ![u] = None] /\ domains' = domains /\ moderation' = moderation
        /\ Bystanders
    BY <1>2 DEF quitOrganization
  <2> QED
    BY <1>1, <2>1, RowTypes
<1>3. CASE \E type \in ModerationTypes : cancelModeration(u, type)
  <2>1. PICK type \in ModerationTypes : cancelModeration(u, type)
    BY <1>3
  <2> DEFINE m == <<u, type>>
  <2>2. /\ moderation[m] > 0 /\ moderation' = [moderation EXCEPT ![m] = moderation[m] - 1]
        /\ domains' = domains /\ link' = link /\ Bystanders
    BY <2>1 DEF cancelModeration
  <2>3. m \in Users \X ModerationTypes /\ moderation[m] \in Nat
    BY DEF TypeInv, TypeOK
  <2>4. moderation[m] - 1 \in Nat
    BY <2>2, <2>3
  <2> HIDE DEF m
  <2> QED
    BY <1>1, <2>2, <2>3, <2>4, RowTypes
<1> QED
  BY <1>2, <1>3

LEMMA NextTypes == TypeInv /\ [Next]_vars => TypeInv'
<1> SUFFICES ASSUME TypeInv, [Next]_vars PROVE TypeInv'
  OBVIOUS
<1>1. CASE vars' = vars
  BY <1>1 DEF vars, TypeInv, TypeOK
<1>2. ASSUME NEW r \in Requests, Receive(r) PROVE TypeInv'
  BY <1>2, ReceiveTypes
<1>3. ASSUME NEW r \in Requests, Dies(r) PROVE TypeInv'
  BY <1>3, DiesTypes
<1>4. ASSUME NEW r \in Requests, Proceed(r) PROVE TypeInv'
  BY <1>4, JoinTypes, WriteTypes, MarkTypes, UpgradeTypes, CodeTypes DEF Proceed
<1>5. ASSUME NEW u \in Users,
             quitOrganization(u) \/ \E type \in ModerationTypes : cancelModeration(u, type)
      PROVE  TypeInv'
  BY <1>5, HandlerTypes
<1> QED
  BY <1>1, <1>2, <1>3, <1>4, <1>5 DEF Next

(***************************************************************************)
(* Everything has its type, and a request only reaches the queries of its  *)
(* kind: a link is inserted for a request to join only.                    *)
(***************************************************************************)
THEOREM TypeCorrect == Spec => []TypeOK
<1>1. Init => TypeInv
  BY TypeInit
<1>2. TypeInv /\ [Next]_vars => TypeInv'
  BY NextTypes
<1>3. TypeInv => TypeOK
  BY DEF TypeInv
<1> QED
  BY <1>1, <1>2, <1>3, PTL DEF Spec
-------------------------------------------------------------------------------
(* What the links and the decisions rest on.  Domains are only added, so   *)
(* that a request may decide of a table it has read long before.           *)

KnownBy(d, D) == \E type \in DomainTypes \ {"null"} : <<d, type>> \in D
Vouched(d, D) ==
  \E type \in {"verified", "external", "trackdechets_postal_mail"} : <<d, type>> \in D

LinkRests(l, d, D) == l # None => Sound(l) /\ (l.type = "domain" => KnownBy(d, D))

RequestRests(x, D, e) ==
  /\ LinkRests(x.link, e[x.user], D)
  /\ x.seen \subseteq D
  /\ x.pc \in {"members", "upgrade"} => <<x.domain, TypeOfMark(x)>> \in D
  /\ x.pc = "upgrade" => \A u \in x.todo : e[u] = x.domain
  /\ x.op = "join" /\ x.pc \in {"mark", "add", "members", "upgrade"}
       => x.contact # None /\ x.domain = x.contact.domain

\* A suggestion holds until the request decides.
SuggestionHolds(x, D, e) ==
  x.suggested =>
    /\ x.op = "join"
    /\ Vouched(e[x.user], D)
    /\ x.pc \in {"contact", "mark", "add", "members", "upgrade"} => Vouched(e[x.user], x.seen)
    /\ x.pc \notin {"review", "block"}

Rests(x, D, e) == RequestRests(x, D, e) /\ SuggestionHolds(x, D, e)

LinksRest == \A u \in Users : LinkRests(link[u], email[u], domains)
RequestsRest == \A r \in Requests : Rests(request[r], domains, email)
RestInv == LinksRest /\ RequestsRest

LEMMA MoreIsKnown ==
  ASSUME NEW D, NEW E, D \subseteq E, NEW d
  PROVE  /\ KnownBy(d, D) => KnownBy(d, E)
         /\ Vouched(d, D) => Vouched(d, E)
         /\ \A l : LinkRests(l, d, D) => LinkRests(l, d, E)
BY DEF KnownBy, Vouched, LinkRests

LEMMA MoreRests ==
  ASSUME NEW D, NEW E, D \subseteq E, NEW e, NEW x, Rests(x, D, e)
  PROVE  Rests(x, E, e)
<1>1. RequestRests(x, E, e)
  <2>1. LinkRests(x.link, e[x.user], E)
    BY MoreIsKnown DEF Rests, RequestRests
  <2> QED
    BY <2>1 DEF Rests, RequestRests
<1>2. SuggestionHolds(x, E, e)
  BY MoreIsKnown DEF Rests, SuggestionHolds
<1> QED
  BY <1>1, <1>2 DEF Rests

LEMMA VouchedIsKnown ==
  ASSUME NEW d, NEW D, Vouched(d, D)
  PROVE  KnownBy(d, D)
BY DEF Vouched, KnownBy, DomainTypes

LEMMA IdleRests == \A D, e : Rests(Idle, D, e)
<1> SUFFICES ASSUME NEW D, NEW e PROVE Rests(Idle, D, e)
  OBVIOUS
<1>1. RequestRests(Idle, D, e)
  BY DEF Idle, RequestRests, LinkRests
<1>2. Idle.suggested = FALSE
  BY DEF Idle
<1> QED
  BY <1>1, <1>2 DEF Rests, SuggestionHolds

LEMMA RestInit == Init => RestInv
<1> SUFFICES ASSUME Init PROVE RestInv
  OBVIOUS
<1>1. LinksRest
  BY DEF Init, LinksRest, LinkRests
<1>2. RequestsRest
  BY IdleRests DEF Init, RequestsRest
<1> QED
  BY <1>1, <1>2 DEF RestInv

\* A step of one request.
LEMMA OneRequestRests ==
  ASSUME TypeInv, RestInv, NEW r \in Requests, NEW x, Rests(x, domains', email),
         request' = [request EXCEPT ![r] = x], domains \subseteq domains', email' = email
  PROVE  RequestsRest'
<1>1. ASSUME NEW s \in Requests PROVE Rests(request'[s], domains', email')
  <2>1. CASE s = r
    BY <2>1 DEF TypeInv, TypeOK
  <2>2. CASE s # r
    <3>1. request'[s] = request[s]
      BY <2>2 DEF TypeInv, TypeOK
    <3>2. Rests(request[s], domains', email)
      BY MoreRests DEF RestInv, RequestsRest
    <3> QED
      BY <3>1, <3>2
  <2> QED
    BY <2>1, <2>2
<1> QED
  BY <1>1 DEF RequestsRest

LEMMA EndRests ==
  ASSUME TypeInv, RestInv, NEW r \in Requests, Ends(r), domains \subseteq domains', email' = email
  PROVE  RequestsRest'
BY IdleRests, OneRequestRests DEF Ends

\* Where a request goes on to pc, all that pc asks for is shown.
LEMMA GoRests ==
  ASSUME TypeInv, RestInv, NEW r \in Requests, NEW pc, Goes(r, pc),
         domains \subseteq domains', email' = email,
         pc \notin {"upgrade", "review", "block", "contact", "mark"},
         pc \in {"add", "members"} => request[r].pc \in {"mark", "add"},
         pc = "members" => <<request[r].domain, TypeOfMark(request[r])>> \in domains'
  PROVE  RequestsRest'
<1> DEFINE w == request[r]
           x == [w EXCEPT !.pc = pc]
<1>1. request' = [request EXCEPT ![r] = x]
  BY DEF Goes
<1>2. w \in Request
  BY DEF TypeInv, TypeOK
<1>3. /\ x.pc = pc /\ x.op = w.op /\ x.user = w.user /\ x.domain = w.domain
      /\ x.contact = w.contact /\ x.seen = w.seen /\ x.link = w.link /\ x.todo = w.todo
      /\ x.suggested = w.suggested
  BY <1>2 DEF Request
<1>4. Rests(w, domains', email)
  BY MoreRests DEF RestInv, RequestsRest
<1> HIDE DEF x
<1>5. TypeOfMark(x) = TypeOfMark(w)
  BY <1>3 DEF TypeOfMark
<1>6. RequestRests(x, domains', email)
  BY <1>3, <1>4, <1>5 DEF Rests, RequestRests
<1>7. SuggestionHolds(x, domains', email)
  BY <1>3, <1>4 DEF Rests, SuggestionHolds
<1> QED
  BY <1>1, <1>6, <1>7, OneRequestRests DEF Rests

LEMMA DecideRests ==
  ASSUME TypeInv, RestInv, NEW r \in Requests, NEW seen, NEW c, Decides(r, seen, c),
         domains \subseteq domains', email' = email, seen \subseteq domains',
         request[r].op = "join",
         request[r].suggested => Vouched(email[request[r].user], seen),
         ContactVouches(request[r].user, c) => KnownBy(email[request[r].user], domains')
  PROVE  RequestsRest'
<1> DEFINE w == request[r]
           u == w.user
           d == Decision(u, seen, c)
           pc == IF d = None THEN "block" ELSE IF d.type = "null" THEN "review" ELSE "insert"
           x == [w EXCEPT !.seen = seen, !.contact = c, !.link = d, !.todo = {}, !.pc = pc]
<1>1. request' = [request EXCEPT ![r] = x]
  BY DEF Decides
<1>2. w \in Request
  BY DEF TypeInv, TypeOK
<1>3. /\ d # None => Sound(d)
      /\ d # None /\ d.type = "domain" => ContactVouches(u, c) \/ DomainVouches(u, seen)
      /\ DomainVouches(u, seen) => d # None /\ d.type # "null"
  BY DecisionFollowsRules
<1>4. DomainVouches(u, seen) <=> Vouched(email[u], seen)
  BY DEF DomainVouches, Vouched
<1>5. LinkRests(d, email[u], domains')
  <2>1. Vouched(email[u], seen) => KnownBy(email[u], domains')
    BY MoreIsKnown, VouchedIsKnown
  <2> HIDE DEF d
  <2> QED
    BY <1>3, <1>4, <2>1 DEF LinkRests
<1>6. w.suggested => pc = "insert"
  BY <1>3, <1>4
<1>7. pc \in {"block", "review", "insert"}
  OBVIOUS
<1> HIDE DEF d, pc
<1>8. /\ x.pc = pc /\ x.op = w.op /\ x.user = u /\ x.seen = seen /\ x.link = d
      /\ x.suggested = w.suggested
  BY <1>2 DEF Request
<1> HIDE DEF x
<1>9. RequestRests(x, domains', email)
  BY <1>5, <1>7, <1>8 DEF RequestRests
<1>10. SuggestionHolds(x, domains', email)
  <2>1. w.suggested => Vouched(email[u], domains')
    BY MoreIsKnown
  <2> QED
    BY <1>6, <1>8, <2>1 DEF SuggestionHolds
<1> QED
  BY <1>1, <1>9, <1>10, OneRequestRests DEF Rests
LEMMA NewRequestRests ==
  ASSUME TypeInv, NEW op \in Joining \cup Marking \cup Codes, NEW a \in Arguments(op)
  PROVE  Rests(NewRequest(op, a), domains, email)
<1> DEFINE x == NewRequest(op, a)
<1>1. /\ x.op = op /\ x.user = a.user /\ x.pc = FirstQuery(op) /\ x.link = None /\ x.seen = {}
      /\ x.suggested = (op = "join" /\ Suggested(a.user))
  BY DEF NewRequest
<1>2. FirstQuery(op) \in {"links", "mark", "member"} /\ (op = "join" => FirstQuery(op) = "links")
  BY DEF FirstQuery, Joining, Marking, Codes
<1> HIDE DEF x
<1>3. x.suggested => op = "join" /\ Suggested(a.user)
  BY <1>1
<1>4. Suggested(a.user) => Vouched(email[a.user], domains)
  BY DEF Suggested, Vouched
<1>5. RequestRests(x, domains, email)
  BY <1>1, <1>2 DEF RequestRests, LinkRests
<1>6. SuggestionHolds(x, domains, email)
  BY <1>1, <1>2, <1>3, <1>4 DEF SuggestionHolds
<1> QED
  BY <1>5, <1>6 DEF Rests, x

LEMMA ReceiveRests ==
  ASSUME TypeInv, RestInv, NEW r \in Requests, Receive(r)
  PROVE  RestInv'
<1>1. PICK op \in Joining \cup Marking \cup Codes : \E a \in Arguments(op) :
        request' = [request EXCEPT ![r] = NewRequest(op, a)]
  BY DEF Receive
<1>2. PICK a \in Arguments(op) : request' = [request EXCEPT ![r] = NewRequest(op, a)]
  BY <1>1
<1>3. domains' = domains /\ link' = link /\ email' = email
  BY DEF Receive, Reads
<1>4. RequestsRest'
  BY <1>2, <1>3, NewRequestRests, OneRequestRests
<1> QED
  BY <1>3, <1>4 DEF RestInv, LinksRest

LEMMA LinksRestStill ==
  ASSUME RestInv, domains \subseteq domains', link' = link, email' = email
  PROVE  LinksRest'
BY MoreIsKnown DEF RestInv, LinksRest

LEMMA JoinRests ==
  ASSUME TypeInv, RestInv, NEW r \in Requests,
         FindLinks(r) \/ FindModeration(r) \/ ReadDomains(r) \/ FindContact(r)
  PROVE  RestInv'
<1> DEFINE x == request[r]
           u == x.user
<1>1. x \in Request /\ Placed(x) /\ Rests(x, domains, email)
  BY DEF TypeInv, TypeOK, RestInv, RequestsRest
<1>2. domains' = domains /\ link' = link /\ email' = email
  BY DEF FindLinks, FindModeration, ReadDomains, FindContact, Bystanders, Reads
<1>3. RequestsRest'
  <2>1. CASE Ends(r)
    BY <1>2, <2>1, EndRests
  <2>2. CASE (FindLinks(r) \/ FindModeration(r)) /\ ~Ends(r)
    <3>1. PICK pc \in {"moderation", "domains"} : Goes(r, pc)
      BY <2>2 DEF FindLinks, FindModeration
    <3> QED
      BY <1>2, <3>1, GoRests
  <2>3. CASE ReadDomains(r) /\ ~Ends(r)
    <3>1. x.suggested => Vouched(email[u], domains)
      BY <1>1 DEF Rests, SuggestionHolds
    <3>2. CASE x.op = "join" /\ Decides(r, domains, None)
      BY <1>2, <3>1, <3>2, DecideRests DEF ContactVouches
    <3>3. CASE x.op = "join" /\ request' = [request EXCEPT ![r].pc = "contact", ![r].seen = domains]
      <4> DEFINE y == [x EXCEPT !.pc = "contact", !.seen = domains]
      <4>1. request' = [request EXCEPT ![r] = y]
        BY <3>3
      <4>2. /\ y.pc = "contact" /\ y.op = "join" /\ y.user = u /\ y.seen = domains
            /\ y.link = x.link /\ y.suggested = x.suggested
        BY <1>1, <3>3 DEF Request
      <4> HIDE DEF y
      <4>3. RequestRests(y, domains, email)
        BY <1>1, <4>2 DEF Rests, RequestRests
      <4>4. SuggestionHolds(y, domains, email)
        BY <3>1, <4>2 DEF SuggestionHolds
      <4> QED
        BY <1>2, <4>1, <4>3, <4>4, OneRequestRests DEF Rests
    <3>4. CASE /\ x.op = "forceJoin"
               /\ request' = [request EXCEPT ![r].pc = "insert",
                                ![r].link = forceJoinLink(u, domains, x.external)]
      <4> DEFINE l == forceJoinLink(u, domains, x.external)
                 y == [x EXCEPT !.pc = "insert", !.link = l]
      <4>1. request' = [request EXCEPT ![r] = y]
        BY <3>4
      <4>2. x.external \in BOOLEAN
        BY <1>1 DEF Request
      <4>3. Sound(l) /\ (l.type = "domain" => DomainVouches(u, domains))
        BY <4>2, ForcedLinks
      <4> HIDE DEF l
      <4>4. LinkRests(l, email[u], domains)
        BY <4>3, VouchedIsKnown DEF LinkRests, DomainVouches, Vouched
      <4>5. /\ y.pc = "insert" /\ y.op = "forceJoin" /\ y.user = u /\ y.seen = x.seen
            /\ y.link = l /\ y.suggested = x.suggested
        BY <1>1, <3>4 DEF Request
      <4> HIDE DEF y
      <4>6. RequestRests(y, domains, email)
        BY <1>1, <4>4, <4>5 DEF Rests, RequestRests
      <4>7. SuggestionHolds(y, domains, email)
        BY <1>1, <3>4, <4>5 DEF Rests, SuggestionHolds
      <4> QED
        BY <1>2, <4>1, <4>6, <4>7, OneRequestRests DEF Rests
    <3> QED
      BY <2>3, <3>2, <3>3, <3>4 DEF ReadDomains
  <2>4. CASE FindContact(r)
    <3>1. PICK c \in {organization.contact, None} :
            IF HasMayor(organization) /\ c # None /\ ~usesAFreeEmailProvider(c.domain)
            THEN request' = [request EXCEPT ![r].pc = "mark", ![r].domain = c.domain,
                                            ![r].contact = c]
            ELSE Decides(r, x.seen, c)
      BY <2>4 DEF FindContact
    <3>2. x.pc = "contact" /\ x.op = "join"
      BY <1>1, <2>4 DEF FindContact, Placed
    <3>3. x.seen \subseteq domains /\ (x.suggested => Vouched(email[u], x.seen))
      BY <1>1, <3>2 DEF Rests, RequestRests, SuggestionHolds
    <3>4. CASE /\ ~(HasMayor(organization) /\ c # None /\ ~usesAFreeEmailProvider(c.domain))
               /\ Decides(r, x.seen, c)
      BY <1>2, <3>2, <3>3, <3>4, DecideRests DEF ContactVouches
    <3>5. CASE /\ c # None
               /\ request' = [request EXCEPT ![r].pc = "mark", ![r].domain = c.domain,
                                             ![r].contact = c]
      <4> DEFINE y == [x EXCEPT !.pc = "mark", !.domain = c.domain, !.contact = c]
      <4>1. request' = [request EXCEPT ![r] = y]
        BY <3>5
      <4>2. /\ y.pc = "mark" /\ y.op = "join" /\ y.user = u /\ y.domain = c.domain
            /\ y.contact = c /\ y.seen = x.seen /\ y.link = x.link /\ y.suggested = x.suggested
        BY <1>1, <3>2 DEF Request
      <4> HIDE DEF y
      <4>3. RequestRests(y, domains, email)
        BY <1>1, <3>5, <4>2 DEF Rests, RequestRests
      <4>4. SuggestionHolds(y, domains, email)
        BY <1>1, <3>3, <4>2 DEF Rests, SuggestionHolds
      <4> QED
        BY <1>2, <4>1, <4>3, <4>4, OneRequestRests DEF Rests
    <3> QED
      BY <3>1, <3>4, <3>5
  <2> QED
    BY <2>1, <2>2, <2>3, <2>4
<1> QED
  BY <1>2, <1>3, LinksRestStill DEF RestInv

LEMMA WriteRests ==
  ASSUME TypeInv, RestInv, NEW r \in Requests,
         AskForReview(r) \/ Block(r) \/ Insert(r)
  PROVE  RestInv'
<1> DEFINE x == request[r]
<1>1. x \in Request /\ Placed(x) /\ Rests(x, domains, email)
  BY DEF TypeInv, TypeOK, RestInv, RequestsRest
<1>2. domains' = domains /\ email' = email
  BY DEF AskForReview, Block, Insert, Bystanders
<1>3. RequestsRest'
  <2>1. CASE Ends(r)
    BY <1>2, <2>1, EndRests
  <2>2. CASE Goes(r, "insert")
    BY <1>2, <2>2, GoRests
  <2> QED
    BY <2>1, <2>2 DEF AskForReview, Block, Insert
<1>4. LinksRest'
  <2>1. CASE link' = link
    BY <1>2, <2>1, LinksRestStill
  <2>2. CASE link' = [link EXCEPT ![x.user] = x.link]
    <3>1. LinkRests(x.link, email[x.user], domains)
      BY <1>1 DEF Rests, RequestRests
    <3> QED
      BY <1>2, <2>2, <3>1 DEF LinksRest, RestInv, TypeInv, TypeOK
  <2> QED
    BY <2>1, <2>2 DEF AskForReview, Block, Insert
<1> QED
  BY <1>3, <1>4 DEF RestInv

LEMMA AfterMarkRests ==
  ASSUME TypeInv, RestInv, NEW r \in Requests, AfterMark(r),
         request[r].pc \in {"members", "upgrade"},
         domains' = domains, email' = email
  PROVE  RequestsRest'
<1> DEFINE x == request[r]
           u == x.user
<1>1. Rests(x, domains, email)
  BY DEF RestInv, RequestsRest
<1>2. CASE x.op = "join"
  <2>1. x.seen \subseteq domains /\ (x.suggested => Vouched(email[u], x.seen))
    BY <1>1 DEF Rests, RequestRests, SuggestionHolds
  <2>2. <<x.contact.domain, "official_contact">> \in domains
    BY <1>1, <1>2 DEF Rests, RequestRests, TypeOfMark
  <2>3. ContactVouches(u, x.contact) => KnownBy(email[u], domains)
    BY <2>2 DEF ContactVouches, KnownBy, DomainTypes
  <2>4. Decides(r, x.seen, x.contact)
    BY <1>2 DEF AfterMark
  <2> QED
    BY <1>2, <2>1, <2>3, <2>4, DecideRests
<1>3. CASE Ends(r)
  BY <1>3, EndRests
<1> QED
  BY <1>2, <1>3 DEF AfterMark

LEMMA MarkRests ==
  ASSUME TypeInv, RestInv, NEW r \in Requests,
         FindDomain(r) \/ AddDomain(r) \/ ReadMembers(r)
  PROVE  RestInv'
<1> DEFINE x == request[r]
<1>1. x \in Request /\ Rests(x, domains, email) /\ x.pc \in {"mark", "add", "members"}
  BY DEF TypeInv, TypeOK, RestInv, RequestsRest, FindDomain, AddDomain, ReadMembers
<1>2. domains \subseteq domains' /\ email' = email /\ link' = link
  BY DEF FindDomain, AddDomain, ReadMembers, Bystanders, Reads
<1>3. RequestsRest'
  <2>1. CASE Ends(r)
    BY <1>2, <2>1, EndRests
  <2>2. CASE FindDomain(r)
    <3>1. domains' = domains /\ x.pc = "mark"
      BY <2>2 DEF FindDomain, Reads
    <3>2. CASE Goes(r, "members") /\ <<x.domain, TypeOfMark(x)>> \in domains
      BY <1>2, <3>1, <3>2, GoRests
    <3>3. CASE Goes(r, "add")
      BY <1>2, <3>1, <3>3, GoRests
    <3> QED
      BY <2>2, <3>2, <3>3 DEF FindDomain
  <2>3. CASE AddDomain(r) /\ ~Ends(r)
    <3>1. Goes(r, "members") /\ <<x.domain, TypeOfMark(x)>> \in domains' /\ x.pc = "add"
      BY <2>3 DEF AddDomain
    <3> QED
      BY <1>2, <3>1, GoRests
  <2>4. CASE ReadMembers(r)
    <3>1. domains' = domains /\ x.pc = "members"
      BY <2>4 DEF ReadMembers, Reads
    <3>2. CASE AfterMark(r)
      BY <1>2, <3>1, <3>2, AfterMarkRests
    <3>3. CASE request' = [request EXCEPT ![r].pc = "upgrade",
                                          ![r].todo = MembersToUpgrade(x.domain)]
      <4> DEFINE todo == MembersToUpgrade(x.domain)
                 y == [x EXCEPT !.pc = "upgrade", !.todo = todo]
      <4>1. request' = [request EXCEPT ![r] = y]
        BY <3>3
      <4>2. \A u \in todo : email[u] = x.domain
        BY DEF MembersToUpgrade
      <4> HIDE DEF todo
      <4>3. /\ y.pc = "upgrade" /\ y.op = x.op /\ y.user = x.user /\ y.domain = x.domain
            /\ y.contact = x.contact /\ y.seen = x.seen /\ y.link = x.link /\ y.todo = todo
            /\ y.suggested = x.suggested
        BY <1>1 DEF Request
      <4> HIDE DEF y
      <4>4. TypeOfMark(y) = TypeOfMark(x)
        BY <4>3 DEF TypeOfMark
      <4>5. RequestRests(y, domains, email)
        BY <1>1, <3>1, <4>2, <4>3, <4>4 DEF Rests, RequestRests
      <4>6. SuggestionHolds(y, domains, email)
        BY <1>1, <3>1, <4>3 DEF Rests, SuggestionHolds
      <4> QED
        BY <1>2, <3>1, <4>1, <4>5, <4>6, OneRequestRests DEF Rests
    <3> QED
      BY <2>4, <3>2, <3>3 DEF ReadMembers
  <2> QED
    BY <2>1, <2>2, <2>3, <2>4
<1> QED
  BY <1>2, <1>3, LinksRestStill DEF RestInv

\* A link that is upgraded is that of a member with the domain that was marked.
LEMMA UpgradeRests ==
  ASSUME TypeInv, RestInv, NEW r \in Requests, Upgrade(r)
  PROVE  RestInv'
<1> DEFINE x == request[r]
<1>1. x \in Request /\ Rests(x, domains, email) /\ x.pc = "upgrade"
  BY DEF TypeInv, TypeOK, RestInv, RequestsRest, Upgrade
<1>2. domains' = domains /\ email' = email
  BY DEF Upgrade, Bystanders
<1>3. PICK u \in x.todo :
        /\ link' = IF link[u] = None THEN link ELSE [link EXCEPT ![u].type = "domain"]
        /\ IF x.todo = {u} THEN AfterMark(r)
           ELSE request' = [request EXCEPT ![r].todo = @ \ {u}]
  BY DEF Upgrade
<1>4. u \in Users
  BY <1>1 DEF Request
<1>5. RequestsRest'
  <2>1. CASE AfterMark(r)
    BY <1>1, <1>2, <2>1, AfterMarkRests
  <2>2. CASE request' = [request EXCEPT ![r].todo = @ \ {u}]
    <3> DEFINE y == [x EXCEPT !.todo = x.todo \ {u}]
    <3>1. request' = [request EXCEPT ![r] = y]
      BY <2>2
    <3>2. /\ y.pc = x.pc /\ y.op = x.op /\ y.user = x.user /\ y.domain = x.domain
          /\ y.contact = x.contact /\ y.seen = x.seen /\ y.link = x.link
          /\ y.todo = x.todo \ {u} /\ y.suggested = x.suggested
      BY <1>1 DEF Request
    <3> HIDE DEF y
    <3>3. TypeOfMark(y) = TypeOfMark(x)
      BY <3>2 DEF TypeOfMark
    <3>4. RequestRests(y, domains, email)
      BY <1>1, <3>2, <3>3 DEF Rests, RequestRests
    <3>5. SuggestionHolds(y, domains, email)
      BY <1>1, <3>2 DEF Rests, SuggestionHolds
    <3> QED
      BY <1>2, <3>1, <3>4, <3>5, OneRequestRests DEF Rests
  <2> QED
    BY <1>3, <2>1, <2>2
<1>6. LinksRest'
  <2>1. CASE link[u] = None
    BY <1>2, <1>3, <2>1, LinksRestStill
  <2>2. CASE link[u] # None
    <3> DEFINE l == [link[u] EXCEPT !.type = "domain"]
    <3>1. link' = [link EXCEPT ![u] = l] /\ link[u] \in Link
      BY <1>3, <1>4, <2>2 DEF TypeInv, TypeOK
    <3>2. l.type = "domain" /\ "domain" \notin Asserted
      BY <3>1 DEF Link, Asserted
    <3>3. KnownBy(email[u], domains)
      <4>1. email[u] = x.domain /\ <<x.domain, TypeOfMark(x)>> \in domains
        BY <1>1 DEF Rests, RequestRests
      <4>2. TypeOfMark(x) \in DomainTypes \ {"null"}
        BY DEF TypeOfMark, DomainTypes
      <4> QED
        BY <4>1, <4>2 DEF KnownBy
    <3> HIDE DEF l
    <3>4. LinkRests(l, email[u], domains)
      BY <3>2, <3>3 DEF LinkRests, Sound
    <3> QED
      BY <1>2, <3>1, <3>4 DEF LinksRest, RestInv, TypeInv, TypeOK
  <2> QED
    BY <2>1, <2>2
<1> QED
  BY <1>5, <1>6 DEF RestInv
LEMMA CodeRests ==
  ASSUME TypeInv, RestInv, NEW r \in Requests, FindMember(r) \/ SendCode(r) \/ VerifyCode(r)
  PROVE  RestInv'
<1> DEFINE x == request[r]
           u == x.user
<1>1. x \in Request /\ Placed(x) /\ x.op \in Codes /\ u \in Users
  BY DEF TypeInv, TypeOK, FindMember, SendCode, VerifyCode, Placed
<1>2. domains' = domains /\ email' = email
  BY DEF FindMember, SendCode, VerifyCode, Reads, Bystanders
<1>3. RequestsRest'
  <2>1. CASE Ends(r)
    BY <1>2, <2>1, EndRests
  <2>2. CASE FindMember(r) /\ Goes(r, x.op)
    <3>1. x.op \in {"sendCode", "verifyCode"}
      BY <1>1 DEF Codes
    <3> QED
      BY <1>2, <2>2, <3>1, GoRests
  <2> QED
    BY <2>1, <2>2 DEF FindMember, SendCode, VerifyCode
<1>4. LinksRest'
  <2>1. CASE link' = link
    BY <1>2, <2>1, LinksRestStill
  <2>2. CASE link' # link
    <3>1. PICK l : /\ link' = [link EXCEPT ![u] = l] /\ link[u] # None
                   /\ \/ l = [link[u] EXCEPT !.code = TRUE]
                      \/ l = [link[u] EXCEPT !.needs = FALSE, !.code = FALSE]
      BY <2>2 DEF FindMember, SendCode, VerifyCode, Reads
    <3>2. link[u] \in Link /\ LinkRests(link[u], email[u], domains)
      BY <1>1, <3>1 DEF TypeInv, TypeOK, RestInv, LinksRest
    <3>3. l.type = link[u].type /\ (l.needs => link[u].needs)
      BY <3>1, <3>2 DEF Link
    <3>4. LinkRests(l, email[u], domains)
      BY <3>1, <3>2, <3>3 DEF LinkRests, Sound
    <3> QED
      BY <1>2, <3>1, <3>4 DEF LinksRest, RestInv, TypeInv, TypeOK
  <2> QED
    BY <2>1, <2>2
<1> QED
  BY <1>3, <1>4 DEF RestInv

LEMMA HandlerRests ==
  ASSUME TypeInv, RestInv, NEW u \in Users,
         quitOrganization(u) \/ \E type \in ModerationTypes : cancelModeration(u, type)
  PROVE  RestInv'
<1>1. domains' = domains /\ email' = email /\ request' = request
  BY DEF quitOrganization, cancelModeration, Bystanders
<1>2. link' = link \/ link' = [link EXCEPT ![u] = None]
  BY DEF quitOrganization, cancelModeration
<1>3. LinksRest'
  BY <1>1, <1>2 DEF RestInv, LinksRest, LinkRests, TypeInv, TypeOK
<1> QED
  BY <1>1, <1>3 DEF RestInv, RequestsRest

LEMMA NextRests == TypeInv /\ RestInv /\ [Next]_vars => RestInv'
<1> SUFFICES ASSUME TypeInv, RestInv, [Next]_vars PROVE RestInv'
  OBVIOUS
<1>1. CASE vars' = vars
  BY <1>1 DEF vars, RestInv, LinksRest, RequestsRest
<1>2. ASSUME NEW r \in Requests, Receive(r) PROVE RestInv'
  BY <1>2, ReceiveRests
<1>3. ASSUME NEW r \in Requests, Dies(r) PROVE RestInv'
  <2>1. Ends(r) /\ domains' = domains /\ link' = link /\ email' = email
    BY <1>3 DEF Dies, Reads
  <2> QED
    BY <2>1, EndRests, LinksRestStill DEF RestInv
<1>4. ASSUME NEW r \in Requests, Proceed(r) PROVE RestInv'
  BY <1>4, JoinRests, WriteRests, MarkRests, UpgradeRests, CodeRests DEF Proceed
<1>5. ASSUME NEW u \in Users,
             quitOrganization(u) \/ \E type \in ModerationTypes : cancelModeration(u, type)
      PROVE  RestInv'
  BY <1>5, HandlerRests
<1> QED
  BY <1>1, <1>2, <1>3, <1>4, <1>5 DEF Next

LEMMA Invariant == Spec => [](TypeInv /\ RestInv)
<1>1. Init => TypeInv /\ RestInv
  BY TypeInit, RestInit
<1>2. TypeInv /\ RestInv /\ [Next]_vars => (TypeInv /\ RestInv)'
  BY NextTypes, NextRests
<1> QED
  BY <1>1, <1>2, PTL DEF Spec

(***************************************************************************)
(* However joins, marks, codes and departures interleave, and wherever a   *)
(* request dies: whoever is said to be verified by a domain has an address *)
(* of a domain that the organization knows.                                *)
(***************************************************************************)
THEOREM DomainLinks == Spec => []DomainLinksRestOnADomain
<1>1. TypeInv /\ RestInv => DomainLinksRestOnADomain
  <2> SUFFICES ASSUME RestInv, NEW u \in Users, link[u] # None, link[u].type = "domain"
               PROVE  \E type \in DomainTypes \ {"null"} : <<email[u], type>> \in domains
    BY DEF DomainLinksRestOnADomain
  <2>1. LinkRests(link[u], email[u], domains)
    BY DEF RestInv, LinksRest
  <2> QED
    BY <2>1 DEF LinkRests, KnownBy
<1> QED
  BY <1>1, Invariant, PTL

(***************************************************************************)
(* A join of an organization that was suggested never waits for a          *)
(* moderator, whatever is written to the table of domains between the      *)
(* query of the suggestion and that of the decision.                       *)
(***************************************************************************)
THEOREM Suggestions == Spec => []SuggestedOrganizationsNeedNoModerator
<1>1. TypeInv /\ RestInv => SuggestedOrganizationsNeedNoModerator
  <2> SUFFICES ASSUME RestInv, NEW r \in Requests, request[r].suggested
               PROVE  request[r].pc \notin {"review", "block"}
    BY DEF SuggestedOrganizationsNeedNoModerator
  <2> QED
    BY DEF RestInv, RequestsRest, Rests, SuggestionHolds
<1> QED
  BY <1>1, Invariant, PTL

-------------------------------------------------------------------------------
(* The refinement: what a step of Organizations is to Membership.          *)

Statuses == [u \in Users |-> Status(link[u])]

LEMMA InsideOrNot ==
  ASSUME NEW l \in Link
  PROVE  Status(l) \in {"asserted", "to_confirm", "verified"} /\ Status(None) = "outside"
         /\ Status(l) # "outside"
<1>1. l # None
  BY NoneAssumption
<1> QED
  BY <1>1 DEF Status

\* A step that changes one link, if any, is a step of its user.
LEMMA OneLink ==
  ASSUME TypeInv, NEW u \in Users, NEW l \in Link \cup {None}, link' = [link EXCEPT ![u] = l],
         \/ Status(l) = Status(link[u])
         \/ link[u] = None
         \/ l = None
         \/ Status(link[u]) \in {"asserted", "to_confirm"} /\ Status(l) = "verified"
  PROVE  [Abstract!Next]_Statuses
<1>1. Statuses' = [Statuses EXCEPT ![u] = Status(l)]
  BY DEF Statuses, TypeInv, TypeOK
<1>2. Statuses[u] = Status(link[u]) /\ link[u] \in Link \cup {None}
  BY DEF Statuses, TypeInv, TypeOK
<1>3. CASE Status(l) = Status(link[u])
  <2>1. Statuses' = Statuses
    BY <1>1, <1>2, <1>3 DEF Statuses
  <2> QED
    BY <2>1
<1>4. CASE link[u] = None /\ l # None
  <2>1. Status(link[u]) = "outside" /\ Status(l) \in {"asserted", "to_confirm", "verified"}
    BY <1>4, InsideOrNot DEF Status
  <2>2. Abstract!Enters(u)
    BY <1>1, <1>2, <2>1 DEF Abstract!Enters, Abstract!Becomes, Abstract!Inside, Statuses
  <2> QED
    BY <2>2 DEF Abstract!Next
<1>5. CASE link[u] # None /\ l = None
  <2>1. Status(link[u]) \in {"asserted", "to_confirm", "verified"} /\ Status(l) = "outside"
    BY <1>2, <1>5, InsideOrNot
  <2>2. Abstract!Leaves(u)
    BY <1>1, <1>2, <2>1 DEF Abstract!Leaves, Abstract!Becomes, Abstract!Inside, Statuses
  <2> QED
    BY <2>2 DEF Abstract!Next
<1>6. CASE Status(link[u]) \in {"asserted", "to_confirm"} /\ Status(l) = "verified"
  <2>1. Abstract!IsVerified(u)
    BY <1>1, <1>2, <1>6 DEF Abstract!IsVerified, Abstract!Becomes, Statuses
  <2> QED
    BY <2>1 DEF Abstract!Next
<1> QED
  BY <1>3, <1>4, <1>5, <1>6

LEMMA SameLinks ==
  ASSUME link' = link
  PROVE  [Abstract!Next]_Statuses
BY DEF Statuses

LEMMA RequestRefines ==
  ASSUME TypeInv, RestInv, NEW r \in Requests, Proceed(r)
  PROVE  [Abstract!Next]_Statuses
<1> DEFINE x == request[r]
<1>1. x \in Request /\ Placed(x) /\ Rests(x, domains, email)
  BY DEF TypeInv, TypeOK, RestInv, RequestsRest
<1>2. CASE link' = link
  BY <1>2, SameLinks
<1>3. CASE Insert(r) /\ link' # link
  <2>1. x.user \in Users /\ x.link \in Link \cup {None}
    BY <1>1, <1>3 DEF Insert, Placed, Request, Joining
  <2>2. link[x.user] = None /\ link' = [link EXCEPT ![x.user] = x.link]
    BY <1>3 DEF Insert
  <2> QED
    BY <2>1, <2>2, OneLink
<1>4. CASE Upgrade(r) /\ link' # link
  <2>1. PICK u \in x.todo : link' = IF link[u] = None THEN link
                                    ELSE [link EXCEPT ![u].type = "domain"]
    BY <1>4 DEF Upgrade
  <2> DEFINE l == [link[u] EXCEPT !.type = "domain"]
  <2>2. u \in Users /\ link[u] # None /\ link' = [link EXCEPT ![u] = l]
    BY <1>1, <1>4, <2>1 DEF Request
  <2>3. link[u] \in Link
    BY <2>2 DEF TypeInv, TypeOK
  <2>4. l \in Link /\ l.type = "domain" /\ l.needs = link[u].needs
    BY <2>3 DEF Link, LinkTypes
  <2> HIDE DEF l
  <2>5. l # None
    BY <2>4, NoneAssumption
  <2>6. Status(l) = Status(link[u]) \/ (Status(link[u]) = "asserted" /\ Status(l) = "verified")
    BY <2>2, <2>4, <2>5 DEF Status, Asserted
  <2> QED
    BY <2>2, <2>4, <2>6, OneLink
<1>5. CASE (SendCode(r) \/ VerifyCode(r)) /\ link' # link
  <2> DEFINE u == x.user
  <2>1. u \in Users
    BY <1>1, <1>5 DEF SendCode, VerifyCode, Placed
  <2>2. PICK l : /\ link' = [link EXCEPT ![u] = l] /\ link[u] # None
                 /\ \/ l = [link[u] EXCEPT !.code = TRUE]
                    \/ l = [link[u] EXCEPT !.needs = FALSE, !.code = FALSE]
    BY <1>5 DEF SendCode, VerifyCode
  <2>3. link[u] \in Link /\ Sound(link[u])
    BY <2>1, <2>2 DEF TypeInv, TypeOK, RestInv, LinksRest, LinkRests
  <2>4. l \in Link /\ l.type = link[u].type /\ (l.needs = link[u].needs \/ l.needs = FALSE)
    BY <2>2, <2>3 DEF Link
  <2>5. l # None
    BY <2>4, NoneAssumption
  <2>6. Status(l) = Status(link[u]) \/ (Status(link[u]) = "to_confirm" /\ Status(l) = "verified")
    BY <2>2, <2>3, <2>4, <2>5 DEF Status, Sound
  <2> QED
    BY <2>1, <2>2, <2>4, <2>6, OneLink
<1> QED
  BY <1>2, <1>3, <1>4, <1>5 DEF Proceed, FindLinks, FindModeration, ReadDomains, FindContact,
     AskForReview, Block, FindDomain, AddDomain, ReadMembers, FindMember, Reads

LEMMA StepRefines == TypeInv /\ RestInv /\ [Next]_vars => [Abstract!Next]_Statuses
<1> SUFFICES ASSUME TypeInv, RestInv, [Next]_vars PROVE [Abstract!Next]_Statuses
  OBVIOUS
<1>1. CASE link' = link
  BY <1>1, SameLinks
<1>2. ASSUME NEW r \in Requests, Proceed(r) PROVE [Abstract!Next]_Statuses
  BY <1>2, RequestRefines
<1>3. ASSUME NEW u \in Users, quitOrganization(u) PROVE [Abstract!Next]_Statuses
  <2>1. link' = [link EXCEPT ![u] = None]
    BY <1>3 DEF quitOrganization
  <2> QED
    BY <2>1, OneLink
<1> QED
  BY <1>1, <1>2, <1>3 DEF Next, Receive, Dies, Reads, cancelModeration, vars

(***************************************************************************)
(* Organizations implements Membership: nobody comes in twice, and what    *)
(* was verified stays verified until the user leaves.                      *)
(***************************************************************************)
THEOREM Refinement == Spec => ImplementsMembership
<1>1. Init => Abstract!Init
  <2> SUFFICES ASSUME Init PROVE Statuses = [u \in Users |-> "outside"]
    BY DEF Abstract!Init, Statuses
  <2>1. \A u \in Users : Status(link[u]) = "outside"
    BY DEF Init, Status
  <2> QED
    BY <2>1 DEF Statuses
<1>2. TypeInv /\ RestInv /\ [Next]_vars => [Abstract!Next]_[u \in Users |-> Status(link[u])]
  BY StepRefines DEF Statuses
<1> QED
  BY <1>1, <1>2, Invariant, PTL DEF Spec, ImplementsMembership, Abstract!Spec
-------------------------------------------------------------------------------
(* Pending requests to join.  A user whose joins have never overlapped has *)
(* at most one in flight; past the query of the moderations, none pends.   *)

JoinOf(u, r) == Joins(request[r], u)
Asking(x) == x.pc \notin {"links", "moderation"}

PendingOf(u) ==
  /\ \A r, s \in Requests : JoinOf(u, r) /\ JoinOf(u, s) => r = s
  /\ moderation[<<u, "organization_join_block">>] <= 1
  /\ \A r \in Requests :
       JoinOf(u, r) /\ Asking(request[r]) => moderation[<<u, "organization_join_block">>] = 0

PendingInv == \A u \in Users \ doubled : PendingOf(u)

LEMMA IdleJoinsNobody == \A u : ~Joins(Idle, u)
<1>1. None # "join"
  BY NoneAssumption DEF Joining
<1> QED
  BY <1>1 DEF Idle, Joins

LEMMA PendingInit == Init => PendingInv
<1> SUFFICES ASSUME Init, NEW u \in Users PROVE PendingOf(u)
  BY DEF PendingInv
<1>1. \A r \in Requests : ~JoinOf(u, r)
  BY IdleJoinsNobody DEF Init, JoinOf
<1>2. moderation[<<u, "organization_join_block">>] = 0
  BY DEF Init, ModerationTypes
<1> QED
  BY <1>1, <1>2 DEF PendingOf

\* A step that starts no join, and moderates no more than before.
LEMMA PendingStep ==
  ASSUME TypeInv, PendingInv, NEW r \in Requests, doubled' = doubled,
         \A s \in Requests : s # r => request'[s] = request[s],
         \A u : Joins(request'[r], u) =>
           /\ Joins(request[r], u)
           /\ Asking(request'[r]) =>
                \/ Asking(request[r])
                \/ moderation'[<<u, "organization_join_block">>] = 0,
         \A u \in Users : moderation'[<<u, "organization_join_block">>]
                            = moderation[<<u, "organization_join_block">>]
  PROVE  PendingInv'
<1> SUFFICES ASSUME NEW u \in Users \ doubled PROVE PendingOf(u)'
  BY DEF PendingInv
<1>1. PendingOf(u)
  BY DEF PendingInv
<1>2. \A s \in Requests : Joins(request'[s], u) => Joins(request[s], u)
  BY Zenon
<1>3. \A s \in Requests : Joins(request'[s], u) /\ Asking(request'[s]) =>
        \/ Asking(request[s])
        \/ moderation'[<<u, "organization_join_block">>] = 0
  BY Zenon
<1> QED
  BY <1>1, <1>2, <1>3 DEF PendingOf, JoinOf

LEMMA PendingEnds ==
  ASSUME TypeInv, PendingInv, NEW r \in Requests, Ends(r), doubled' = doubled,
         moderation' = moderation
  PROVE  PendingInv'
<1>1. request'[r] = Idle /\ \A s \in Requests : s # r => request'[s] = request[s]
  BY DEF Ends, TypeInv, TypeOK
<1>2. \A u : ~Joins(request'[r], u)
  BY <1>1, IdleJoinsNobody
<1> QED
  BY <1>1, <1>2, PendingStep

LEMMA PendingReceive ==
  ASSUME TypeInv, PendingInv, NEW r \in Requests, Receive(r)
  PROVE  PendingInv'
<1>1. PICK op \in Joining \cup Marking \cup Codes : \E a \in Arguments(op) :
        /\ request' = [request EXCEPT ![r] = NewRequest(op, a)]
        /\ doubled' = IF op = "join" /\ \E s \in InFlight : Joins(request[s], a.user)
                      THEN doubled \cup {a.user} ELSE doubled
  BY DEF Receive
<1>2. PICK a \in Arguments(op) :
        /\ request' = [request EXCEPT ![r] = NewRequest(op, a)]
        /\ doubled' = IF op = "join" /\ \E s \in InFlight : Joins(request[s], a.user)
                      THEN doubled \cup {a.user} ELSE doubled
  BY <1>1
<1>3. moderation' = moderation
  BY DEF Receive, Reads
<1>4. /\ request'[r] = NewRequest(op, a)
      /\ \A s \in Requests : s # r => request'[s] = request[s]
  BY <1>2 DEF TypeInv, TypeOK
<1>5. /\ \A u : Joins(request'[r], u) => op = "join" /\ a.user = u
      /\ op = "join" => ~Asking(request'[r])
  <2> DEFINE n == NewRequest(op, a)
  <2>1. n.op = op /\ n.user = a.user /\ n.pc = FirstQuery(op)
    BY DEF NewRequest
  <2>2. op = "join" => FirstQuery(op) = "links"
    BY DEF FirstQuery, Joining, Marking, Codes
  <2> HIDE DEF n
  <2>3. request'[r] = n
    BY <1>4 DEF n
  <2> QED
    BY <2>1, <2>2, <2>3 DEF Joins, Asking
<1> SUFFICES ASSUME NEW u \in Users \ doubled' PROVE PendingOf(u)'
  BY DEF PendingInv
<1>6. PendingOf(u)
  BY <1>2 DEF PendingInv
<1>7. CASE op = "join" /\ a.user = u
  <2>1. \A s \in Requests : ~Joins(request[s], u)
    <3> SUFFICES ASSUME NEW s \in Requests, Joins(request[s], u) PROVE FALSE
      OBVIOUS
    <3>1. s \in InFlight
      BY IdleJoinsNobody DEF InFlight
    <3> QED
      BY <1>2, <1>7, <3>1
  <2>2. \A s \in Requests : Joins(request'[s], u) => s = r /\ ~Asking(request'[s])
    BY <1>4, <1>5, <1>7, <2>1
  <2> QED
    BY <1>3, <1>6, <2>2 DEF PendingOf, JoinOf
<1>8. CASE ~(op = "join" /\ a.user = u)
  <2>1. \A s \in Requests : Joins(request'[s], u) => request'[s] = request[s]
    BY <1>4, <1>5, <1>8
  <2> QED
    BY <1>3, <1>6, <2>1 DEF PendingOf, JoinOf
<1> QED
  BY <1>7, <1>8

\* A request is blocked where none was pending, and it ends there.
LEMMA PendingBlock ==
  ASSUME TypeInv, PendingInv, NEW r \in Requests, Block(r)
  PROVE  PendingInv'
<1> DEFINE x == request[r]
           m == <<x.user, "organization_join_block">>
<1>1. x.op = "join" /\ x.user \in Users /\ Asking(x) /\ Joins(x, x.user)
  BY DEF TypeInv, TypeOK, Block, Placed, Joining, Asking, Joins
<1>2. moderation' = [moderation EXCEPT ![m] = moderation[m] + 1] /\ doubled' = doubled
  BY DEF Block, Moderate, Bystanders
<1>3. request'[r] = Idle /\ \A s \in Requests : s # r => request'[s] = request[s]
  BY DEF Block, Ends, TypeInv, TypeOK
<1>4. m \in Users \X ModerationTypes /\ moderation \in [Users \X ModerationTypes -> Nat]
  BY <1>1 DEF TypeInv, TypeOK, ModerationTypes
<1> SUFFICES ASSUME NEW u \in Users \ doubled PROVE PendingOf(u)'
  BY <1>2 DEF PendingInv
<1>5. PendingOf(u)
  BY DEF PendingInv
<1>6. \A s \in Requests : Joins(request'[s], u) => s # r /\ request'[s] = request[s]
  BY <1>3, IdleJoinsNobody
<1>7. CASE u = x.user
  <2>1. \A s \in Requests : ~Joins(request'[s], u)
    BY <1>1, <1>5, <1>6, <1>7 DEF PendingOf, JoinOf
  <2>2. moderation[m] = 0
    BY <1>1, <1>5, <1>7 DEF PendingOf, JoinOf
  <2>3. moderation'[m] = 1
    BY <1>2, <1>4, <2>2
  <2> QED
    BY <1>7, <2>1, <2>3 DEF PendingOf, JoinOf
<1>8. CASE u # x.user
  <2>1. moderation'[<<u, "organization_join_block">>] = moderation[<<u, "organization_join_block">>]
    <3>1. <<u, "organization_join_block">> # m
          /\ <<u, "organization_join_block">> \in Users \X ModerationTypes
      BY <1>8 DEF ModerationTypes
    <3> QED
      BY <1>2, <1>4, <3>1
  <2> QED
    BY <1>5, <1>6, <2>1 DEF PendingOf, JoinOf
<1> QED
  BY <1>7, <1>8

\* The other queries neither start a join nor ask for a moderator.
LEMMA PendingGoes ==
  ASSUME TypeInv, PendingInv, NEW r \in Requests, NEW y,
         request' = [request EXCEPT ![r] = y], y.op = request[r].op, y.user = request[r].user,
         \/ Asking(request[r])
         \/ ~Asking(y)
         \/ request[r].op # "join"
         \/ moderation[<<request[r].user, "organization_join_block">>] = 0,
         \A u \in Users : moderation'[<<u, "organization_join_block">>]
                            = moderation[<<u, "organization_join_block">>],
         doubled' = doubled
  PROVE  PendingInv'
<1> DEFINE x == request[r]
<1>1. request'[r] = y /\ \A s \in Requests : s # r => request'[s] = request[s]
  BY DEF TypeInv, TypeOK
<1>2. Placed(x)
  BY DEF TypeInv, TypeOK
<1>3. \A u : Joins(y, u) =>
        /\ Joins(x, u)
        /\ Asking(y) => Asking(x) \/ moderation'[<<u, "organization_join_block">>] = 0
  BY <1>2 DEF Joins, Placed, Joining
<1> HIDE DEF x
<1> QED
  BY <1>1, <1>3, PendingStep DEF x

\* Those of the request itself.
LEMMA PendingPc ==
  ASSUME TypeInv, PendingInv, NEW r \in Requests, NEW pc, Goes(r, pc),
         \/ Asking(request[r])
         \/ pc = "moderation"
         \/ request[r].op # "join"
         \/ moderation[<<request[r].user, "organization_join_block">>] = 0,
         \A u \in Users : moderation'[<<u, "organization_join_block">>]
                            = moderation[<<u, "organization_join_block">>],
         doubled' = doubled
  PROVE  PendingInv'
<1> DEFINE y == [request[r] EXCEPT !.pc = pc]
<1>1. request[r] \in Request
  BY DEF TypeInv, TypeOK
<1>2. request' = [request EXCEPT ![r] = y]
  BY DEF Goes
<1>3. y.op = request[r].op /\ y.user = request[r].user /\ y.pc = pc
  BY <1>1 DEF Request
<1> HIDE DEF y
<1>4. pc = "moderation" => ~Asking(y)
  BY <1>3 DEF Asking
<1> QED
  BY <1>2, <1>3, <1>4, PendingGoes

LEMMA PendingDecides ==
  ASSUME TypeInv, PendingInv, NEW r \in Requests, NEW seen, NEW c, Decides(r, seen, c),
         Asking(request[r]), moderation' = moderation, doubled' = doubled
  PROVE  PendingInv'
<1> DEFINE w == request[r]
           d == Decision(w.user, seen, c)
           pc == IF d = None THEN "block" ELSE IF d.type = "null" THEN "review" ELSE "insert"
           y == [w EXCEPT !.seen = seen, !.contact = c, !.link = d, !.todo = {}, !.pc = pc]
<1>1. request' = [request EXCEPT ![r] = y]
  BY DEF Decides
<1>2. w \in Request
  BY DEF TypeInv, TypeOK
<1> HIDE DEF d, pc
<1>3. y.op = w.op /\ y.user = w.user
  BY <1>2 DEF Request
<1> HIDE DEF y
<1> QED
  BY <1>1, <1>3, PendingGoes

LEMMA PendingAfterMark ==
  ASSUME TypeInv, PendingInv, NEW r \in Requests, AfterMark(r),
         Asking(request[r]), moderation' = moderation, doubled' = doubled
  PROVE  PendingInv'
BY PendingDecides, PendingEnds DEF AfterMark

LEMMA PendingProceed ==
  ASSUME TypeInv, PendingInv, NEW r \in Requests, Proceed(r)
  PROVE  PendingInv'
<1> DEFINE x == request[r]
           block == "organization_join_block"
<1>1. x \in Request /\ Placed(x)
  BY DEF TypeInv, TypeOK
<1>2. CASE FindLinks(r)
  <2>1. moderation' = moderation /\ doubled' = doubled
    BY <1>2 DEF FindLinks, Reads, Bystanders
  <2>2. Ends(r) \/ Goes(r, "moderation") \/ (Goes(r, "domains") /\ x.op # "join")
    BY <1>2 DEF FindLinks
  <2> QED
    BY <2>1, <2>2, PendingEnds, PendingPc
<1>3. CASE FindModeration(r)
  <2>1. moderation' = moderation /\ doubled' = doubled
    BY <1>3 DEF FindModeration, Reads, Bystanders
  <2>2. <<x.user, block>> \in Users \X ModerationTypes
    BY <1>1, <1>3 DEF FindModeration, Placed, Joining, ModerationTypes
  <2>3. moderation[<<x.user, block>>] \in Nat
    BY <2>2 DEF TypeInv, TypeOK
  <2>4. Ends(r) \/ (Goes(r, "domains") /\ moderation[<<x.user, block>>] = 0)
    BY <1>3, <2>3 DEF FindModeration
  <2> QED
    BY <2>1, <2>4, PendingEnds, PendingPc
<1>4. CASE ReadDomains(r)
  <2>1. moderation' = moderation /\ doubled' = doubled /\ Asking(x)
    BY <1>4 DEF ReadDomains, Reads, Bystanders, Asking
  <2>2. CASE Ends(r) \/ Decides(r, domains, None)
    BY <2>1, <2>2, PendingEnds, PendingDecides
  <2>3. CASE \/ request' = [request EXCEPT ![r].pc = "contact", ![r].seen = domains]
             \/ request' = [request EXCEPT ![r].pc = "insert",
                              ![r].link = forceJoinLink(x.user, domains, x.external)]
    <3>1. PICK y : /\ request' = [request EXCEPT ![r] = y]
                   /\ \/ y = [x EXCEPT !.pc = "contact", !.seen = domains]
                      \/ y = [x EXCEPT !.pc = "insert",
                                       !.link = forceJoinLink(x.user, domains, x.external)]
      BY <2>3
    <3>2. y.op = x.op /\ y.user = x.user
      BY <1>1, <3>1 DEF Request
    <3> QED
      BY <2>1, <3>1, <3>2, PendingGoes
  <2> QED
    BY <1>4, <2>2, <2>3 DEF ReadDomains
<1>5. CASE FindContact(r)
  <2>1. moderation' = moderation /\ doubled' = doubled /\ Asking(x)
    BY <1>5 DEF FindContact, Reads, Bystanders, Asking
  <2>2. PICK c : \/ request' = [request EXCEPT ![r].pc = "mark", ![r].domain = c.domain,
                                               ![r].contact = c]
                 \/ Decides(r, x.seen, c)
    BY <1>5 DEF FindContact
  <2>3. CASE Decides(r, x.seen, c)
    BY <2>1, <2>3, PendingDecides
  <2>4. CASE request' = [request EXCEPT ![r].pc = "mark", ![r].domain = c.domain,
                                        ![r].contact = c]
    <3> DEFINE y == [x EXCEPT !.pc = "mark", !.domain = c.domain, !.contact = c]
    <3>1. request' = [request EXCEPT ![r] = y]
      BY <2>4
    <3>2. y.op = x.op /\ y.user = x.user
      BY <1>1 DEF Request
    <3> HIDE DEF y
    <3> QED
      BY <2>1, <3>1, <3>2, PendingGoes
  <2> QED
    BY <2>2, <2>3, <2>4
<1>6. CASE AskForReview(r)
  <2>1. Goes(r, "insert") /\ doubled' = doubled /\ Asking(x)
    BY <1>6 DEF AskForReview, Bystanders, Asking
  <2>2. moderation' = [moderation EXCEPT ![<<x.user, "non_verified_domain">>] =
                         moderation[<<x.user, "non_verified_domain">>] + 1]
    BY <1>6 DEF AskForReview, Moderate
  <2>3. \A u \in Users : <<u, block>> # <<x.user, "non_verified_domain">>
    OBVIOUS
  <2>4. \A u \in Users : moderation'[<<u, block>>] = moderation[<<u, block>>]
    BY <2>2, <2>3 DEF TypeInv, TypeOK, ModerationTypes
  <2> QED
    BY <2>1, <2>4, PendingPc
<1>7. CASE Block(r)
  BY <1>7, PendingBlock
<1>8. CASE \/ Insert(r) \/ FindDomain(r) \/ AddDomain(r) \/ FindMember(r) \/ SendCode(r)
           \/ VerifyCode(r)
  <2>1. moderation' = moderation /\ doubled' = doubled /\ Asking(x)
    BY <1>8 DEF Insert, FindDomain, AddDomain, FindMember, SendCode, VerifyCode, Reads,
       Bystanders, Asking
  <2>2. Ends(r) \/ \E pc : Goes(r, pc)
    BY <1>8 DEF Insert, FindDomain, AddDomain, FindMember, SendCode, VerifyCode
  <2> QED
    BY <2>1, <2>2, PendingEnds, PendingPc
<1>9. CASE ReadMembers(r) \/ Upgrade(r)
  <2>1. moderation' = moderation /\ doubled' = doubled /\ Asking(x)
    BY <1>9 DEF ReadMembers, Upgrade, Reads, Bystanders, Asking
  <2>2. CASE AfterMark(r)
    BY <2>1, <2>2, PendingAfterMark
  <2>3. CASE ~AfterMark(r)
    <3>1. PICK y : /\ request' = [request EXCEPT ![r] = y]
                   /\ \/ y = [x EXCEPT !.pc = "upgrade", !.todo = MembersToUpgrade(x.domain)]
                      \/ \E u \in x.todo : y = [x EXCEPT !.todo = x.todo \ {u}]
      BY <1>9, <2>3 DEF ReadMembers, Upgrade
    <3>2. y.op = x.op /\ y.user = x.user
      BY <1>1, <3>1 DEF Request
    <3> QED
      BY <2>1, <3>1, <3>2, PendingGoes
  <2> QED
    BY <2>2, <2>3
<1> QED
  BY <1>2, <1>3, <1>4, <1>5, <1>6, <1>7, <1>8, <1>9 DEF Proceed

LEMMA PendingNext == TypeInv /\ PendingInv /\ [Next]_vars => PendingInv'
<1> SUFFICES ASSUME TypeInv, PendingInv, [Next]_vars PROVE PendingInv'
  OBVIOUS
<1>1. CASE vars' = vars
  BY <1>1 DEF vars, PendingInv, PendingOf, JoinOf
<1>2. ASSUME NEW r \in Requests, Receive(r) PROVE PendingInv'
  BY <1>2, PendingReceive
<1>3. ASSUME NEW r \in Requests, Dies(r) PROVE PendingInv'
  BY <1>3, PendingEnds DEF Dies, Reads
<1>4. ASSUME NEW r \in Requests, Proceed(r) PROVE PendingInv'
  BY <1>4, PendingProceed
<1>5. ASSUME NEW v \in Users, quitOrganization(v) PROVE PendingInv'
  BY <1>5 DEF quitOrganization, Bystanders, PendingInv, PendingOf, JoinOf
<1>6. ASSUME NEW v \in Users, NEW type \in ModerationTypes, cancelModeration(v, type)
      PROVE  PendingInv'
  <2> SUFFICES ASSUME NEW u \in Users \ doubled PROVE PendingOf(u)'
    BY <1>6 DEF PendingInv, cancelModeration, Bystanders
  <2> DEFINE m == <<v, type>>
             n == <<u, "organization_join_block">>
  <2>1. request' = request /\ PendingOf(u)
    BY <1>6 DEF cancelModeration, PendingInv
  <2>2. /\ moderation' = [moderation EXCEPT ![m] = moderation[m] - 1] /\ moderation[m] > 0
        /\ m \in Users \X ModerationTypes /\ n \in Users \X ModerationTypes
        /\ moderation \in [Users \X ModerationTypes -> Nat]
    BY <1>6 DEF cancelModeration, TypeInv, TypeOK, ModerationTypes
  <2>3. moderation[m] \in Nat /\ moderation[n] \in Nat
    BY <2>2
  <2> HIDE DEF m, n
  <2>4. moderation'[n] = moderation[n] \/ (m = n /\ moderation'[n] = moderation[n] - 1)
    BY <2>2
  <2>5. /\ \A r, s \in Requests : JoinOf(u, r) /\ JoinOf(u, s) => r = s
        /\ moderation[n] <= 1
        /\ \A r \in Requests : JoinOf(u, r) /\ Asking(request[r]) => moderation[n] = 0
    BY <2>1 DEF PendingOf, n
  <2>6. moderation'[n] <= 1
    BY <2>3, <2>4, <2>5
  <2>7. \A r \in Requests : JoinOf(u, r) /\ Asking(request[r]) => moderation'[n] = 0
    BY <2>2, <2>4, <2>5
  <2> QED
    BY <2>1, <2>5, <2>6, <2>7 DEF PendingOf, JoinOf, n
<1> QED
  BY <1>1, <1>2, <1>3, <1>4, <1>5, <1>6 DEF Next

(***************************************************************************)
(* Two pending requests of a user to join need two joins of the user that  *)
(* have overlapped.                                                        *)
(***************************************************************************)
THEOREM PendingRequests == Spec => []OnePendingRequest
<1>1. Init => PendingInv
  BY PendingInit
<1>2. TypeInv /\ PendingInv /\ [Next]_vars => PendingInv'
  BY PendingNext
<1>3. TypeInv /\ PendingInv => OnePendingRequest
  <2> SUFFICES ASSUME TypeInv, PendingInv, NEW u \in Users \ doubled
               PROVE  ~(moderation[<<u, "organization_join_block">>] > 1)
    BY DEF OnePendingRequest
  <2>1. moderation[<<u, "organization_join_block">>] \in Nat
    BY DEF TypeInv, TypeOK, ModerationTypes
  <2> QED
    BY <2>1 DEF PendingInv, PendingOf
<1> QED
  BY <1>1, <1>2, <1>3, Invariant, PTL DEF Spec
-------------------------------------------------------------------------------
(* Marking a domain.  Where no two requests that join or mark have         *)
(* overlapped and none has died, one works at a time, and a request that   *)
(* upgrades still has in hand every member there is to upgrade.            *)

Works(x) == x.op \in Joining \cup Marking

DoneInv ==
  ~crossed =>
    /\ \A r, s \in Requests : Works(request[r]) /\ Works(request[s]) => r = s
    /\ \A r \in Requests :
         request[r].pc = "upgrade" => MembersToUpgrade(request[r].domain) \subseteq request[r].todo

\* A step gives no member a link that is still to be upgraded.
NoneToUpgrade(u) ==
  link'[u] # None => link[u] # None /\ link'[u].type \in {link[u].type, "domain"}

LEMMA IdleDoesNotWork == ~Works(Idle) /\ Idle.pc = "idle"
<1>1. None \notin Joining \cup Marking
  BY NoneAssumption
<1> QED
  BY <1>1 DEF Works, Idle

LEMMA DoneInit == Init => DoneInv
BY IdleDoesNotWork DEF Init, DoneInv

LEMMA DoneStep ==
  ASSUME TypeInv, DoneInv, NEW r \in Requests, NEW y,
         request' = [request EXCEPT ![r] = y], crossed' = crossed, email' = email,
         Works(y) => Works(request[r]),
         \A u \in Users : NoneToUpgrade(u),
         y.pc = "upgrade" =>
           \A u \in Users : link'[u] # None /\ email[u] = y.domain /\ link'[u].type \in Upgraded
                              => u \in y.todo
  PROVE  DoneInv'
<1> SUFFICES ASSUME ~crossed
             PROVE  /\ \A q, s \in Requests : Works(request'[q]) /\ Works(request'[s]) => q = s
                    /\ \A s \in Requests : request'[s].pc = "upgrade" =>
                         MembersToUpgrade(request[s].domain)' \subseteq request'[s].todo
  BY DEF DoneInv
<1>1. request'[r] = y /\ \A s \in Requests : s # r => request'[s] = request[s]
  BY DEF TypeInv, TypeOK
<1>2. \A s \in Requests : Works(request'[s]) => Works(request[s])
  BY <1>1
<1>3. \A q, s \in Requests : Works(request'[q]) /\ Works(request'[s]) => q = s
  BY <1>2 DEF DoneInv
<1>4. ASSUME NEW s \in Requests, request'[s].pc = "upgrade"
      PROVE  MembersToUpgrade(request[s].domain)' \subseteq request'[s].todo
  <2>1. CASE s = r
    BY <1>1, <1>4, <2>1 DEF MembersToUpgrade
  <2>2. CASE s # r
    <3> DEFINE d == request[s].domain
    <3>1. request'[s] = request[s] /\ MembersToUpgrade(d) \subseteq request[s].todo
      BY <1>1, <1>4, <2>2 DEF DoneInv
    <3>2. \A u \in Users : link'[u] # None /\ email[u] = d /\ link'[u].type \in Upgraded
                             => u \in MembersToUpgrade(d)
      BY DEF NoneToUpgrade, MembersToUpgrade, Upgraded
    <3> QED
      BY <3>1, <3>2 DEF MembersToUpgrade
  <2> QED
    BY <2>1, <2>2
<1> QED
  BY <1>3, <1>4
\* The request of r ends, or goes on to another query than an upgrade.
Moves(r) ==
  \E y : /\ request' = [request EXCEPT ![r] = y]
         /\ Works(y) => Works(request[r])
         /\ y.pc # "upgrade"

LEMMA EndMoves == \A r \in Requests : Ends(r) => Moves(r)
BY IdleDoesNotWork DEF Ends, Moves

LEMMA GoMoves ==
  ASSUME TypeInv, NEW r \in Requests, NEW pc, pc # "upgrade", Goes(r, pc)
  PROVE  Moves(r)
<1> DEFINE y == [request[r] EXCEPT !.pc = pc]
<1>1. request' = [request EXCEPT ![r] = y]
  BY DEF Goes
<1>2. y.op = request[r].op /\ y.pc = pc
  BY DEF TypeInv, TypeOK, Request
<1> HIDE DEF y
<1> QED
  BY <1>1, <1>2 DEF Moves, Works

LEMMA DecideMoves ==
  ASSUME TypeInv, NEW r \in Requests, NEW seen, NEW c, Decides(r, seen, c)
  PROVE  Moves(r)
<1> DEFINE w == request[r]
           d == Decision(w.user, seen, c)
           pc == IF d = None THEN "block" ELSE IF d.type = "null" THEN "review" ELSE "insert"
           y == [w EXCEPT !.seen = seen, !.contact = c, !.link = d, !.todo = {}, !.pc = pc]
<1>1. request' = [request EXCEPT ![r] = y]
  BY DEF Decides
<1>2. w \in Request
  BY DEF TypeInv, TypeOK
<1>3. pc # "upgrade"
  OBVIOUS
<1> HIDE DEF d, pc
<1>4. y.op = w.op /\ y.pc = pc
  BY <1>2 DEF Request
<1> HIDE DEF y
<1> QED
  BY <1>1, <1>3, <1>4 DEF Moves, Works

LEMMA AfterMarkMoves ==
  ASSUME TypeInv, NEW r \in Requests, AfterMark(r)
  PROVE  Moves(r)
BY DecideMoves, EndMoves DEF AfterMark

LEMMA ReadMoves ==
  ASSUME TypeInv, NEW r \in Requests, ReadDomains(r) \/ FindContact(r)
  PROVE  Moves(r)
<1> DEFINE x == request[r]
<1>1. x \in Request
  BY DEF TypeInv, TypeOK
<1>2. CASE ReadDomains(r)
  <2>1. CASE request' = [request EXCEPT ![r].pc = "contact", ![r].seen = domains]
    <3> DEFINE y == [x EXCEPT !.pc = "contact", !.seen = domains]
    <3>1. request' = [request EXCEPT ![r] = y]
      BY <2>1
    <3>2. y.op = x.op /\ y.pc = "contact"
      BY <1>1 DEF Request
    <3> HIDE DEF y
    <3> QED
      BY <3>1, <3>2 DEF Moves, Works
  <2>2. CASE request' = [request EXCEPT ![r].pc = "insert",
                           ![r].link = forceJoinLink(x.user, domains, x.external)]
    <3> DEFINE l == forceJoinLink(x.user, domains, x.external)
               y == [x EXCEPT !.pc = "insert", !.link = l]
    <3>1. request' = [request EXCEPT ![r] = y]
      BY <2>2
    <3> HIDE DEF l
    <3>2. y.op = x.op /\ y.pc = "insert"
      BY <1>1 DEF Request
    <3> HIDE DEF y
    <3> QED
      BY <3>1, <3>2 DEF Moves, Works
  <2> QED
    BY <1>2, <2>1, <2>2, EndMoves, DecideMoves DEF ReadDomains
<1>3. CASE FindContact(r)
  <2>1. PICK c : \/ request' = [request EXCEPT ![r].pc = "mark", ![r].domain = c.domain,
                                               ![r].contact = c]
                 \/ Decides(r, x.seen, c)
    BY <1>3 DEF FindContact
  <2>2. CASE request' = [request EXCEPT ![r].pc = "mark", ![r].domain = c.domain,
                                        ![r].contact = c]
    <3> DEFINE y == [x EXCEPT !.pc = "mark", !.domain = c.domain, !.contact = c]
    <3>1. request' = [request EXCEPT ![r] = y]
      BY <2>2
    <3>2. y.op = x.op /\ y.pc = "mark"
      BY <1>1 DEF Request
    <3> HIDE DEF y
    <3> QED
      BY <3>1, <3>2 DEF Moves, Works
  <2> QED
    BY <2>1, <2>2, DecideMoves
<1> QED
  BY <1>2, <1>3

LEMMA OthersMove ==
  ASSUME TypeInv, NEW r \in Requests,
         \/ FindLinks(r) \/ FindModeration(r) \/ AskForReview(r) \/ Block(r) \/ Insert(r)
         \/ FindDomain(r) \/ AddDomain(r) \/ FindMember(r) \/ SendCode(r) \/ VerifyCode(r)
  PROVE  Moves(r)
<1>1. CASE Ends(r)
  BY <1>1, EndMoves
<1>2. CASE ~Ends(r)
  <2>1. request[r].op \in Codes => request[r].op # "upgrade"
    BY DEF Codes
  <2>2. FindMember(r) => request[r].op \in Codes
    BY DEF FindMember, TypeInv, Placed
  <2>3. PICK pc : pc # "upgrade" /\ Goes(r, pc)
    BY <1>2, <2>1, <2>2 DEF FindLinks, FindModeration, AskForReview, Block, Insert, FindDomain,
       AddDomain, FindMember, SendCode, VerifyCode
  <2> QED
    BY <2>3, GoMoves
<1> QED
  BY <1>1, <1>2

LEMMA DoneMoves ==
  ASSUME TypeInv, DoneInv, NEW r \in Requests, Moves(r), crossed' = crossed, email' = email,
         \A u \in Users : NoneToUpgrade(u)
  PROVE  DoneInv'
BY DoneStep DEF Moves

LEMMA SameLinksNoneToUpgrade == link' = link => \A u \in Users : NoneToUpgrade(u)
BY DEF NoneToUpgrade

\* Insert gives a link of any type, but where it works nobody upgrades.
LEMMA DoneInsert ==
  ASSUME TypeInv, DoneInv, NEW r \in Requests, Insert(r)
  PROVE  DoneInv'
<1>1. crossed' = crossed
  BY DEF Insert, Bystanders
<1>2. request'[r] = Idle /\ \A s \in Requests : s # r => request'[s] = request[s]
  BY DEF Insert, Ends, TypeInv, TypeOK
<1>3. Works(request[r])
  BY DEF TypeInv, Insert, Placed, Works
<1>4. \A s \in Requests : request[s].pc = "upgrade" => Works(request[s])
  BY DEF TypeInv, Placed, Works, Joining, Marking
<1>5. ~crossed => \A s \in Requests : request'[s].pc # "upgrade"
  BY <1>2, <1>3, <1>4, IdleDoesNotWork DEF DoneInv
<1>6. \A s \in Requests : Works(request'[s]) => Works(request[s])
  BY <1>2, IdleDoesNotWork
<1> QED
  BY <1>1, <1>5, <1>6 DEF DoneInv

LEMMA DoneUpgrade ==
  ASSUME TypeInv, DoneInv, NEW r \in Requests, ReadMembers(r) \/ Upgrade(r)
  PROVE  DoneInv'
<1> DEFINE x == request[r]
<1>1. x \in Request /\ crossed' = crossed /\ email' = email
  BY DEF TypeInv, TypeOK, ReadMembers, Upgrade, Bystanders
<1>2. CASE ReadMembers(r)
  <2>1. \A u \in Users : NoneToUpgrade(u)
    BY <1>2, SameLinksNoneToUpgrade DEF ReadMembers, Reads
  <2>2. CASE AfterMark(r)
    BY <1>1, <2>1, <2>2, AfterMarkMoves, DoneMoves
  <2>3. CASE request' = [request EXCEPT ![r].pc = "upgrade",
                                        ![r].todo = MembersToUpgrade(x.domain)]
    <3> DEFINE todo == MembersToUpgrade(x.domain)
               y == [x EXCEPT !.pc = "upgrade", !.todo = todo]
    <3>1. request' = [request EXCEPT ![r] = y]
      BY <2>3
    <3>2. \A u \in Users : link'[u] # None /\ email[u] = x.domain /\ link'[u].type \in Upgraded
                             => u \in todo
      BY <1>2 DEF MembersToUpgrade, ReadMembers, Reads
    <3> HIDE DEF todo
    <3>3. y.op = x.op /\ y.domain = x.domain /\ y.todo = todo
      BY <1>1 DEF Request
    <3> HIDE DEF y
    <3>4. Works(y) => Works(x)
      BY <3>3 DEF Works
    <3> QED
      BY <1>1, <2>1, <3>1, <3>2, <3>3, <3>4, DoneStep
  <2> QED
    BY <1>2, <2>2, <2>3 DEF ReadMembers
<1>3. CASE Upgrade(r)
  <2>1. PICK u \in x.todo :
          /\ link' = IF link[u] = None THEN link ELSE [link EXCEPT ![u].type = "domain"]
          /\ IF x.todo = {u} THEN AfterMark(r)
             ELSE request' = [request EXCEPT ![r].todo = @ \ {u}]
    BY <1>3 DEF Upgrade
  <2>2. u \in Users /\ link[u] \in Link \cup {None} /\ x.pc = "upgrade"
    BY <1>1, <1>3 DEF Request, Upgrade, TypeInv, TypeOK
  <2>3. /\ \A v \in Users : v # u => link'[v] = link[v]
        /\ link'[u] # None => link[u] # None /\ link'[u].type = "domain"
    <3>1. CASE link[u] = None
      BY <2>1, <3>1
    <3>2. CASE link[u] # None
      <4> DEFINE l == [link[u] EXCEPT !.type = "domain"]
      <4>1. link' = [link EXCEPT ![u] = l]
        BY <2>1, <3>2
      <4>2. l.type = "domain"
        BY <2>2, <3>2 DEF Link
      <4> HIDE DEF l
      <4> QED
        BY <2>2, <3>2, <4>1, <4>2 DEF TypeInv, TypeOK
    <3> QED
      BY <3>1, <3>2
  <2>4. \A v \in Users : NoneToUpgrade(v)
    BY <2>3 DEF NoneToUpgrade
  <2>5. CASE AfterMark(r)
    BY <1>1, <2>4, <2>5, AfterMarkMoves, DoneMoves
  <2>6. CASE request' = [request EXCEPT ![r].todo = @ \ {u}]
    <3> DEFINE y == [x EXCEPT !.todo = x.todo \ {u}]
    <3>1. request' = [request EXCEPT ![r] = y]
      BY <2>6
    <3>2. y.op = x.op /\ y.domain = x.domain /\ y.todo = x.todo \ {u}
      BY <1>1 DEF Request
    <3> HIDE DEF y
    <3>3. Works(y) => Works(x)
      BY <3>2 DEF Works
    <3>4. CASE crossed
      BY <1>1, <3>4 DEF DoneInv
    <3>5. CASE ~crossed
      <4>1. MembersToUpgrade(x.domain) \subseteq x.todo
        BY <2>2, <3>5 DEF DoneInv
      <4>2. ASSUME NEW v \in Users, link'[v] # None, email[v] = x.domain,
                   link'[v].type \in Upgraded
            PROVE  v \in x.todo \ {u}
        <5>1. v # u
          BY <2>3, <4>2 DEF Upgraded
        <5>2. v \in MembersToUpgrade(x.domain)
          BY <2>3, <4>2, <5>1 DEF MembersToUpgrade
        <5> QED
          BY <4>1, <5>1, <5>2
      <4> QED
        BY <1>1, <2>4, <3>1, <3>2, <3>3, <4>2, DoneStep
    <3> QED
      BY <3>4, <3>5
  <2> QED
    BY <2>1, <2>5, <2>6
<1> QED
  BY <1>2, <1>3

LEMMA CodesUpgradeNobody ==
  ASSUME TypeInv, NEW r \in Requests, SendCode(r) \/ VerifyCode(r)
  PROVE  \A u \in Users : NoneToUpgrade(u)
<1> DEFINE v == request[r].user
<1>1. CASE link' = link
  BY <1>1, SameLinksNoneToUpgrade
<1>2. CASE link' # link
  <2>1. PICK l : /\ link' = [link EXCEPT ![v] = l] /\ link[v] # None
                 /\ \/ l = [link[v] EXCEPT !.code = TRUE]
                    \/ l = [link[v] EXCEPT !.needs = FALSE, !.code = FALSE]
    BY <1>2 DEF SendCode, VerifyCode
  <2>2. v \in Users /\ link[v] \in Link
    BY <2>1 DEF SendCode, VerifyCode, TypeInv, TypeOK, Placed
  <2>3. l.type = link[v].type
    BY <2>1, <2>2 DEF Link
  <2> QED
    BY <2>1, <2>2, <2>3 DEF NoneToUpgrade, TypeInv, TypeOK
<1> QED
  BY <1>1, <1>2

LEMMA DoneProceed ==
  ASSUME TypeInv, DoneInv, NEW r \in Requests, Proceed(r)
  PROVE  DoneInv'
<1>1. CASE Insert(r)
  BY <1>1, DoneInsert
<1>2. CASE ReadMembers(r) \/ Upgrade(r)
  BY <1>2, DoneUpgrade
<1>3. CASE SendCode(r) \/ VerifyCode(r)
  BY <1>3, CodesUpgradeNobody, OthersMove, DoneMoves DEF SendCode, VerifyCode, Bystanders
<1>4. CASE \/ FindLinks(r) \/ FindModeration(r) \/ ReadDomains(r) \/ FindContact(r)
           \/ AskForReview(r) \/ Block(r) \/ FindDomain(r) \/ AddDomain(r) \/ FindMember(r)
  <2>1. link' = link /\ crossed' = crossed /\ email' = email
    BY <1>4 DEF FindLinks, FindModeration, ReadDomains, FindContact, AskForReview, Block,
       FindDomain, AddDomain, FindMember, Bystanders, Reads
  <2> QED
    BY <1>4, <2>1, ReadMoves, OthersMove, SameLinksNoneToUpgrade, DoneMoves
<1> QED
  BY <1>1, <1>2, <1>3, <1>4 DEF Proceed

LEMMA DoneReceive ==
  ASSUME TypeInv, DoneInv, NEW r \in Requests, Receive(r)
  PROVE  DoneInv'
<1>1. PICK op \in Joining \cup Marking \cup Codes : \E a \in Arguments(op) :
        /\ request' = [request EXCEPT ![r] = NewRequest(op, a)]
        /\ crossed' = (\/ crossed
                       \/ op \notin Codes /\ \E s \in InFlight : request[s].op \notin Codes)
  BY DEF Receive
<1>2. PICK a \in Arguments(op) : request' = [request EXCEPT ![r] = NewRequest(op, a)]
  BY <1>1
<1>3. link' = link /\ email' = email
  BY DEF Receive, Reads
<1> DEFINE n == NewRequest(op, a)
<1>4. n.op = op /\ n.pc = FirstQuery(op)
  BY DEF NewRequest
<1>5. FirstQuery(op) # "upgrade"
  BY DEF FirstQuery, Joining, Marking, Codes
<1> HIDE DEF n
<1>6. request'[r] = n /\ \A s \in Requests : s # r => request'[s] = request[s]
  BY <1>2 DEF n, TypeInv, TypeOK
<1> SUFFICES ASSUME ~crossed' PROVE DoneInv'
  BY DEF DoneInv
<1>7. ~crossed /\ (op \notin Codes => \A s \in InFlight : request[s].op \in Codes)
  BY <1>1
<1>8. \A s \in Requests : Works(request[s]) => s \in InFlight /\ request[s].op \notin Codes
  BY IdleDoesNotWork DEF InFlight, Works, Joining, Marking, Codes
<1>9. Works(n) => op \notin Codes
  BY <1>4 DEF Works, Joining, Marking, Codes
<1>10. \A q, s \in Requests : Works(request'[q]) /\ Works(request'[s]) => q = s
  BY <1>6, <1>7, <1>8, <1>9 DEF DoneInv
<1>11. \A s \in Requests : request'[s].pc = "upgrade" => s # r
  BY <1>4, <1>5, <1>6
<1> QED
  BY <1>3, <1>6, <1>7, <1>10, <1>11 DEF DoneInv, MembersToUpgrade

LEMMA DoneNext == TypeInv /\ DoneInv /\ [Next]_vars => DoneInv'
<1> SUFFICES ASSUME TypeInv, DoneInv, [Next]_vars PROVE DoneInv'
  OBVIOUS
<1>1. CASE vars' = vars
  BY <1>1 DEF vars, DoneInv, MembersToUpgrade
<1>2. ASSUME NEW r \in Requests, Receive(r) PROVE DoneInv'
  BY <1>2, DoneReceive
<1>3. ASSUME NEW r \in Requests, Dies(r) PROVE DoneInv'
  BY <1>3 DEF Dies, DoneInv
<1>4. ASSUME NEW r \in Requests, Proceed(r) PROVE DoneInv'
  BY <1>4, DoneProceed
<1>5. ASSUME NEW v \in Users,
             quitOrganization(v) \/ \E type \in ModerationTypes : cancelModeration(v, type)
      PROVE  DoneInv'
  <2>1. request' = request /\ crossed' = crossed /\ email' = email
    BY <1>5 DEF quitOrganization, cancelModeration, Bystanders
  <2>2. \A u \in Users : link'[u] # None => link'[u] = link[u]
    BY <1>5 DEF quitOrganization, cancelModeration, TypeInv, TypeOK
  <2> QED
    BY <2>1, <2>2 DEF DoneInv, MembersToUpgrade
<1> QED
  BY <1>1, <1>2, <1>3, <1>4, <1>5 DEF Next

\* Only the request itself, or its death, takes it from the members it upgrades.
LEMMA LastUpgrade ==
  ASSUME TypeInv, DoneInv, [Next]_vars, NEW r \in Requests,
         request[r].pc \in {"members", "upgrade"}, request'[r].pc \notin {"members", "upgrade"},
         ~crossed', NEW u \in Users, link'[u] # None, email[u] = request[r].domain
  PROVE  link'[u].type \notin Upgraded
<1> DEFINE x == request[r]
<1>1. x \in Request /\ request \in [Requests -> Request]
  BY DEF TypeInv, TypeOK
<1>2. request' # request
  OBVIOUS
<1>3. ASSUME NEW s \in Requests, s # r, request' # request,
             \/ Ends(s) \/ \E y : request' = [request EXCEPT ![s] = y]
      PROVE  FALSE
  BY <1>1, <1>3 DEF Ends
<1>4. CASE ReadMembers(r)
  <2>1. MembersToUpgrade(x.domain) = {} \/ request'[r].pc = "upgrade"
    BY <1>1, <1>4 DEF ReadMembers, Request
  <2>2. link' = link
    BY <1>4 DEF ReadMembers, Reads
  <2> QED
    BY <2>1, <2>2 DEF MembersToUpgrade
<1>5. CASE Upgrade(r)
  <2>1. PICK v \in x.todo :
          /\ link' = IF link[v] = None THEN link ELSE [link EXCEPT ![v].type = "domain"]
          /\ IF x.todo = {v} THEN AfterMark(r)
             ELSE request' = [request EXCEPT ![r].todo = @ \ {v}]
    BY <1>5 DEF Upgrade
  <2>2. v \in Users /\ x.pc = "upgrade" /\ ~crossed
    BY <1>1, <1>5 DEF Request, Upgrade, Bystanders
  <2>3. x.todo = {v}
    <3>1. CASE request' = [request EXCEPT ![r].todo = @ \ {v}]
      BY <1>1, <2>2, <3>1 DEF Request
    <3> QED
      BY <2>1, <3>1
  <2>4. MembersToUpgrade(x.domain) \subseteq {v}
    BY <2>2, <2>3 DEF DoneInv
  <2>5. CASE u = v
    <3>1. link[v] \in Link
      BY <2>1, <2>2, <2>5 DEF TypeInv, TypeOK
    <3>2. link'[v] = [link[v] EXCEPT !.type = "domain"]
      BY <2>1, <2>2, <2>5 DEF TypeInv, TypeOK
    <3>3. link'[v].type = "domain"
      BY <3>1, <3>2 DEF Link
    <3> QED
      BY <2>5, <3>3 DEF Upgraded
  <2>6. CASE u # v
    <3>1. link'[u] = link[u]
      BY <2>1, <2>6 DEF TypeInv, TypeOK
    <3> QED
      BY <2>4, <2>6, <3>1 DEF MembersToUpgrade
  <2> QED
    BY <2>5, <2>6
<1>6. ASSUME NEW s \in Requests, s # r, Proceed(s) PROVE FALSE
  <2>1. CASE ReadMembers(s)
    <3>1. AfterMark(s) => Moves(s)
      BY AfterMarkMoves
    <3> QED
      BY <1>1, <1>2, <1>6, <2>1, <3>1 DEF ReadMembers, Moves
  <2>2. CASE Upgrade(s)
    <3>1. AfterMark(s) => Moves(s)
      BY AfterMarkMoves
    <3> QED
      BY <1>1, <1>2, <1>6, <2>2, <3>1 DEF Upgrade, Moves
  <2>3. CASE Moves(s)
    BY <1>1, <1>2, <1>6, <2>3 DEF Moves
  <2> QED
    BY <1>6, <2>1, <2>2, <2>3, ReadMoves, OthersMove DEF Proceed
<1>7. CASE Proceed(r)
  BY <1>4, <1>5, <1>7 DEF Proceed, FindLinks, FindModeration, ReadDomains, FindContact,
     AskForReview, Block, Insert, FindDomain, AddDomain, FindMember, SendCode, VerifyCode
<1>8. ASSUME NEW s \in Requests, Receive(s) PROVE FALSE
  <2>1. PICK y : request[s] = Idle /\ request' = [request EXCEPT ![s] = y]
    BY <1>8 DEF Receive
  <2> QED
    BY <1>1, <1>3, <1>2, <2>1, IdleDoesNotWork
<1> QED
  BY <1>2, <1>6, <1>7, <1>8 DEF Next, Dies, quitOrganization, cancelModeration, vars

(***************************************************************************)
(* Where nothing overlaps and nothing dies, no member of a domain keeps a  *)
(* link to be verified once the request that marks it is past the members. *)
(***************************************************************************)
THEOREM MarkingReaches == Spec => MarkingReachesEveryMember
<1>1. Init => DoneInv
  BY DoneInit
<1>2. TypeInv /\ DoneInv /\ [Next]_vars => DoneInv'
  BY DoneNext
<1>3. TypeInv /\ DoneInv /\ [Next]_vars =>
        [\A r \in Requests :
           /\ request[r].pc \in {"members", "upgrade"}
           /\ request'[r].pc \notin {"members", "upgrade"}
           /\ ~crossed'
           => \A u \in Users :
                link'[u] # None /\ email[u] = request[r].domain =>
                  link'[u].type \notin Upgraded]_vars
  BY LastUpgrade
<1> QED
  BY <1>1, <1>2, <1>3, Invariant, PTL DEF Spec, MarkingReachesEveryMember
=============================================================================
