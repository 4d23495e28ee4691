--------------------------- MODULE InteractionProofs ---------------------------
(***************************************************************************)
(* Proofs about Interaction and InteractionJourney, for any users,         *)
(* browsers, organizations, requests, links and number of distractions.    *)
(***************************************************************************)
EXTENDS InteractionJourney, InteractionProperties, FiniteSetTheorems, TLAPS

-------------------------------------------------------------------------------
(* The requirements chain.                                                 *)

Rows ==
  [session : Session, selected : Organizations \cup {None}, links : [Organizations -> Link]]

LEMMA RowsOfSession ==
  ASSUME TypeOK, NEW s \in Session
  PROVE  RowsOf(s) \in Rows /\ RowsOf(s).session = s
<1>1. s.user \in Users \cup {None}
  BY DEF Session
<1>2. NoLink \in Link
  BY DEF NoLink, Link
<1>3. (IF s.user = None THEN None ELSE selected[s.user]) \in Organizations \cup {None}
  BY <1>1 DEF TypeOK
<1>4. (IF s.user = None THEN [o \in Organizations |-> NoLink] ELSE link[s.user])
        \in [Organizations -> Link]
  BY <1>1, <1>2 DEF TypeOK
<1> QED
  BY <1>3, <1>4 DEF RowsOf, Rows

LEMMA ClearFlagsOfSession ==
  ASSUME NEW s \in Session
  PROVE  /\ ClearFlags(s) \in Session
         /\ ClearFlags(s).user = s.user
         /\ ClearFlags(s).two = s.two
         /\ ClearFlags(s).dirigeant = s.dirigeant
         /\ ClearFlags(s).interaction = None
         /\ ClearFlags(s).oneOrg = FALSE
         /\ ClearFlags(s).twoFa = FALSE
BY DEF ClearFlags, Session

LEMMA SelectionOfRows ==
  ASSUME NEW w \in Rows
  PROVE  /\ WithSelection(w) \in Rows
         /\ WithSelection(w).session = w.session
         /\ WithSelection(w).links = w.links
<1>1. CASE w.session.oneOrg /\ w.selected = None /\ Cardinality(Memberships(w)) = 1
  <2>1. Memberships(w) # {}
    BY <1>1, FS_EmptySet
  <2>2. (CHOOSE o \in Memberships(w) : TRUE) \in Organizations
    BY <2>1 DEF Memberships
  <2>3. WithSelection(w) = [w EXCEPT !.selected = CHOOSE o \in Memberships(w) : TRUE]
    BY <1>1 DEF WithSelection
  <2> QED
    BY <2>2, <2>3 DEF Rows
<1>2. CASE ~(w.session.oneOrg /\ w.selected = None /\ Cardinality(Memberships(w)) = 1)
  BY <1>2 DEF WithSelection
<1> QED
  BY <1>1, <1>2

LEMMA GreetingOfRows ==
  ASSUME NEW w \in Rows, NEW o \in Organizations
  PROVE  Greet(w, o) \in Rows /\ Greet(w, o).session = w.session
<1>1. [w.links[o] EXCEPT !.greeted = TRUE] \in Link
  BY DEF Rows, Link
<1>2. [w.links EXCEPT ![o] = [w.links[o] EXCEPT !.greeted = TRUE]] \in [Organizations -> Link]
  BY <1>1 DEF Rows
<1>3. Greet(w, o) = [w EXCEPT !.links = [w.links EXCEPT ![o] = [w.links[o] EXCEPT !.greeted = TRUE]]]
  BY DEF Greet
<1> QED
  BY <1>2, <1>3 DEF Rows

\* The chain leaves the session as it is, or without the values of the
\* interaction.
LEMMA ChainOfRows ==
  ASSUME NEW w \in Rows, NEW x \in Chain(w)
  PROVE  x \in Rows /\ (x.session = w.session \/ x.session = ClearFlags(w.session))
<1>1. CASE Stop(w) = "connection-and-account"
  <2>1. x = [w EXCEPT !.session = ClearFlags(w.session)]
    BY <1>1 DEF Chain
  <2>2. ClearFlags(w.session) \in Session
    BY ClearFlagsOfSession DEF Rows
  <2> QED
    BY <2>1, <2>2 DEF Rows
<1>2. CASE Stop(w) = "welcome"
  <2>1. PICK o \in Concerned(WithSelection(w)) : x = Greet(WithSelection(w), o)
    BY <1>2 DEF Chain
  <2>2. o \in Organizations
    BY DEF Concerned, Memberships
  <2> QED
    BY <2>1, <2>2, SelectionOfRows, GreetingOfRows
<1>3. CASE Stop(w) \notin {"connection-and-account", "welcome"}
  <2>1. x = IF Passes(w, 4) THEN WithSelection(w) ELSE w
    BY <1>3 DEF Chain
  <2> QED
    BY <2>1, SelectionOfRows
<1> QED
  BY <1>1, <1>2, <1>3

LEMMA SavedRows ==
  ASSUME TypeOK, NEW b \in Browsers, NEW w \in Rows, Save(b, w)
  PROVE  /\ session' = [session EXCEPT ![b] = w.session]
         /\ session' \in [Browsers -> Session]
         /\ selected' \in [Users -> Organizations \cup {None}]
         /\ link' \in [Users -> [Organizations -> Link]]
<1>1. w.session \in Session /\ w.selected \in Organizations \cup {None}
      /\ w.links \in [Organizations -> Link]
  BY DEF Rows
<1> QED
  BY <1>1 DEF Save, TypeOK

-------------------------------------------------------------------------------
(* What a request on a page of the sign-in, or of the organizations, makes *)
(* of the session of its browser.                                          *)

\* The values of the interaction are kept, or dropped together.
KeepsValues(s, r) ==
  /\ s.dirigeant = r.dirigeant
  /\ \/ s.interaction = r.interaction /\ s.oneOrg = r.oneOrg /\ s.twoFa = r.twoFa
     \/ s.interaction = None /\ s.oneOrg = FALSE /\ s.twoFa = FALSE

\* The session s that a request starts from becomes t.
Leaves(s, t) == t.user = s.user /\ t.two = s.two /\ KeepsValues(t, s)

LEMMA LeavesItself ==
  ASSUME NEW s \in Session
  PROVE  Leaves(s, s) /\ Leaves(s, ClearFlags(s))
BY ClearFlagsOfSession DEF Leaves, KeepsValues

TypedRows ==
  /\ session' \in [Browsers -> Session]
  /\ selected' \in [Users -> Organizations \cup {None}]
  /\ link' \in [Users -> [Organizations -> Link]]

LEMMA SavedChain ==
  ASSUME TypeOK, NEW b \in Browsers, NEW w \in Rows, NEW x \in Chain(w), Save(b, x)
  PROVE  /\ TypedRows
         /\ \E t \in Session : session' = [session EXCEPT ![b] = t] /\ Leaves(w.session, t)
<1>1. x \in Rows /\ (x.session = w.session \/ x.session = ClearFlags(w.session))
  BY ChainOfRows
<1>2. TypedRows /\ session' = [session EXCEPT ![b] = x.session]
  BY <1>1, SavedRows DEF TypedRows
<1>3. w.session \in Session /\ x.session \in Session
  BY <1>1 DEF Rows
<1>4. Leaves(w.session, x.session)
  BY <1>1, <1>3, LeavesItself
<1> QED
  BY <1>2, <1>3, <1>4

LEMMA IssuedOrRedirected ==
  ASSUME TypeOK, NEW b \in Browsers, NEW w \in Rows, IssueSessionOrRedirect(b, w)
  PROVE  /\ TypedRows
         /\ \E t \in Session : session' = [session EXCEPT ![b] = t] /\ Leaves(w.session, t)
         /\ UNCHANGED <<provider, interaction>>
<1>1. PICK x \in Chain(w) : Save(b, x)
  BY DEF IssueSessionOrRedirect
<1>2. UNCHANGED <<provider, interaction>>
  BY DEF IssueSessionOrRedirect
<1> QED
  BY <1>1, <1>2, SavedChain

\* Who signed in with a session is on record.
Earns(e, b, s) == s.user # None => <<b, s.user, s.two>> \in e

SessionsEarned == \A b \in Browsers : Earns(earned, b, session[b])

\* What every such request does.
Route(b) ==
  /\ TypedRows
  /\ UNCHANGED <<provider, interaction>>
  /\ earned \subseteq earned' /\ earned' \subseteq Browsers \X Users \X BOOLEAN
  /\ \E t \in Session :
       /\ session' = [session EXCEPT ![b] = t]
       /\ KeepsValues(t, session[b])
       /\ Earns(earned', b, t)

\* The rows that a page works on, before the chain.
LEMMA RouteOfRows ==
  ASSUME TypeOK, NEW b \in Browsers, NEW w \in Rows, IssueSessionOrRedirect(b, w),
         KeepsValues(w.session, session[b]),
         earned \subseteq earned', earned' \subseteq Browsers \X Users \X BOOLEAN,
         Earns(earned', b, w.session)
  PROVE  Route(b)
<1>1. TypedRows /\ UNCHANGED <<provider, interaction>>
  BY IssuedOrRedirected
<1>2. PICK t \in Session : session' = [session EXCEPT ![b] = t] /\ Leaves(w.session, t)
  BY IssuedOrRedirected
<1>3. KeepsValues(t, session[b])
  BY <1>2 DEF Leaves, KeepsValues
<1>4. Earns(earned', b, t)
  BY <1>2 DEF Leaves, Earns
<1> QED
  BY <1>1, <1>2, <1>3, <1>4 DEF Route

LEMMA SessionOfBrowser ==
  ASSUME TypeOK, NEW b \in Browsers
  PROVE  /\ session[b] \in Session
         /\ RowsOf(session[b]) \in Rows
         /\ RowsOf(session[b]).session = session[b]
         /\ KeepsValues(session[b], session[b])
<1>1. session[b] \in Session
  BY DEF TypeOK
<1> QED
  BY <1>1, RowsOfSession DEF KeepsValues

\* A page that works on the links and the selection only.
LEMMA RouteOfLinks ==
  ASSUME TypeOK, SessionsEarned, NEW b \in Browsers, NEW w \in Rows,
         w.session = session[b], IssueSessionOrRedirect(b, w), UNCHANGED earned
  PROVE  Route(b)
<1>1. KeepsValues(w.session, session[b])
  BY SessionOfBrowser
<1>2. earned \subseteq earned' /\ earned' \subseteq Browsers \X Users \X BOOLEAN
  BY DEF TypeOK
<1>3. Earns(earned', b, w.session)
  BY DEF SessionsEarned
<1> QED
  BY <1>1, <1>2, <1>3, RouteOfRows

LEMMA SignedInRows ==
  ASSUME TypeOK, NEW b \in Browsers, NEW u \in Users, NEW two \in BOOLEAN
  PROVE  LET w == SignedIn(b, u, two) IN
         w \in Rows /\ w.session.user = u /\ w.session.two = two
         /\ KeepsValues(w.session, session[b])
<1> DEFINE s == NewSession(session[b], u, two)
<1>1. s \in Session /\ s.user = u /\ s.two = two /\ KeepsValues(s, session[b])
  BY SessionOfBrowser DEF NewSession, Session, KeepsValues
<1>2. RowsOf(s) \in Rows /\ RowsOf(s).session = s
  BY <1>1, RowsOfSession
<1>3. SignedIn(b, u, two) \in Rows /\ SignedIn(b, u, two).session = s
  BY <1>2 DEF SignedIn, Rows
<1> HIDE DEF s
<1> QED
  BY <1>1, <1>3

LEMMA SecondFactorRows ==
  ASSUME TypeOK, NEW b \in Browsers
  PROVE  LET w == WithTwoFactors(b) IN
         w \in Rows /\ w.session.user = session[b].user /\ w.session.two = TRUE
         /\ KeepsValues(w.session, session[b])
<1> DEFINE s == [session[b] EXCEPT !.two = TRUE]
<1>1. s \in Session /\ s.user = session[b].user /\ s.two = TRUE /\ KeepsValues(s, session[b])
  BY SessionOfBrowser DEF Session, KeepsValues
<1>2. WithTwoFactors(b) \in Rows /\ WithTwoFactors(b).session = s
  BY <1>1, RowsOfSession DEF WithTwoFactors
<1> HIDE DEF s
<1> QED
  BY <1>1, <1>2

LEMMA RowsOfOrganization ==
  ASSUME TypeOK, NEW b \in Browsers, NEW o \in Organizations
  PROVE  /\ \A joined \in JoinedLinks :
              Joined(b, o, joined) \in Rows /\ Joined(b, o, joined).session = session[b]
         /\ Selected(b, o) \in Rows /\ Selected(b, o).session = session[b]
         /\ Confirmed(b, o) \in Rows /\ Confirmed(b, o).session = session[b]
<1> DEFINE w == RowsOf(session[b])
<1>1. w \in Rows /\ w.session = session[b]
  BY SessionOfBrowser
<1>2. \A l \in Link : [w.links EXCEPT ![o] = l] \in [Organizations -> Link]
  BY <1>1 DEF Rows
<1>3. JoinedLinks \subseteq Link
  BY JoinedLinksAssumption DEF NewLink
<1>4. ASSUME NEW joined \in JoinedLinks
      PROVE  Joined(b, o, joined) \in Rows /\ Joined(b, o, joined).session = session[b]
  BY <1>1, <1>2, <1>3 DEF Joined, Rows
<1>5. Selected(b, o) \in Rows /\ Selected(b, o).session = session[b]
  BY <1>1 DEF Selected, Rows
<1>6. [w.links[o] EXCEPT !.pending = FALSE] \in Link
  BY <1>1 DEF Rows, Link
<1>7. Confirmed(b, o)
        = [w EXCEPT !.links = [w.links EXCEPT ![o] = [w.links[o] EXCEPT !.pending = FALSE]]]
  BY DEF Confirmed
<1>8. Confirmed(b, o) \in Rows /\ Confirmed(b, o).session = session[b]
  BY <1>1, <1>2, <1>6, <1>7 DEF Rows
<1> QED
  BY <1>4, <1>5, <1>8

LEMMA SignInRoute ==
  ASSUME TypeOK, NEW b \in Browsers, NEW u \in Users, NEW two \in BOOLEAN, SignIn(b, u, two)
  PROVE  Route(b)
<1> DEFINE w == SignedIn(b, u, two)
<1>1. w \in Rows /\ w.session.user = u /\ w.session.two = two /\ KeepsValues(w.session, session[b])
  BY SignedInRows
<1>2. IssueSessionOrRedirect(b, w) /\ earned' = earned \cup {<<b, u, two>>}
  BY DEF SignIn
<1> HIDE DEF w
<1>3. earned \subseteq earned' /\ earned' \subseteq Browsers \X Users \X BOOLEAN
  BY <1>2 DEF TypeOK
<1>4. Earns(earned', b, w.session)
  BY <1>1, <1>2 DEF Earns
<1> QED
  BY <1>1, <1>2, <1>3, <1>4, RouteOfRows

LEMMA SecondFactorRoute ==
  ASSUME TypeOK, NEW b \in Browsers, SecondFactor(b)
  PROVE  Route(b)
<1> DEFINE w == WithTwoFactors(b)
           u == session[b].user
<1>1. w \in Rows /\ w.session.user = u /\ w.session.two = TRUE /\ KeepsValues(w.session, session[b])
  BY SecondFactorRows
<1>2. IssueSessionOrRedirect(b, w) /\ earned' = earned \cup {<<b, u, TRUE>>} /\ u \in Users
  BY ForcedAssumption DEF SecondFactor
<1> HIDE DEF w, u
<1>3. earned \subseteq earned' /\ earned' \subseteq Browsers \X Users \X BOOLEAN
  <2>1. <<b, u, TRUE>> \in Browsers \X Users \X BOOLEAN
    BY <1>2
  <2> QED
    BY <1>2, <2>1 DEF TypeOK
<1>4. Earns(earned', b, w.session)
  BY <1>1, <1>2 DEF Earns
<1> QED
  BY <1>1, <1>2, <1>3, <1>4, RouteOfRows

\* A handler that stops behind the chain: the session is kept as it is.
LEMMA RouteOfRowsOnly ==
  ASSUME TypeOK, SessionsEarned, NEW b \in Browsers, NEW v \in Rows, v.session = session[b],
         Save(b, v), UNCHANGED <<provider, interaction, earned>>
  PROVE  Route(b)
<1>1. TypedRows /\ session' = [session EXCEPT ![b] = session[b]]
  BY SavedRows DEF TypedRows
<1>2. session[b] \in Session /\ KeepsValues(session[b], session[b])
  BY SessionOfBrowser
<1>3. Earns(earned', b, session[b])
  BY DEF SessionsEarned
<1>4. earned \subseteq earned' /\ earned' \subseteq Browsers \X Users \X BOOLEAN
  BY DEF TypeOK
<1> QED
  BY <1>1, <1>2, <1>3, <1>4 DEF Route

LEMMA OfficialContactPageRoute ==
  ASSUME TypeOK, SessionsEarned, NEW b \in Browsers, GetOfficialContactEmailVerification(b)
  PROVE  Route(b)
<1> DEFINE w == WithSelection(RowsOf(session[b]))
<1>1. w \in Rows /\ w.session = session[b]
  BY SessionOfBrowser, SelectionOfRows
<1>2. Save(b, w) /\ UNCHANGED <<provider, interaction, earned>>
  BY DEF GetOfficialContactEmailVerification
<1> HIDE DEF w
<1> QED
  BY <1>1, <1>2, RouteOfRowsOnly

LEMMA OrganizationRoute ==
  ASSUME TypeOK, SessionsEarned, NEW b \in Browsers, OrganizationRoutes(b)
  PROVE  Route(b)
<1> SUFFICES ASSUME NEW o \in Organizations,
                    \/ \E joined \in JoinedLinks : PostJoinOrganization(b, o, joined)
                    \/ PostSelectOrganization(b, o)
                    \/ PostOfficialContactEmailVerification(b, o)
                    \/ PostQuitOrganization(b, o)
             PROVE  Route(b)
  BY OfficialContactPageRoute DEF OrganizationRoutes
<1> DEFINE w == RowsOf(session[b])
<1>2. w \in Rows /\ w.session = session[b]
  BY SessionOfBrowser
<1>3. \A l \in Link : [w.links EXCEPT ![o] = l] \in [Organizations -> Link]
  BY <1>2 DEF Rows
<1>4. CASE \E joined \in JoinedLinks : PostJoinOrganization(b, o, joined)
  BY <1>4, RowsOfOrganization, RouteOfLinks DEF PostJoinOrganization
<1>5. CASE PostSelectOrganization(b, o)
  BY <1>5, RowsOfOrganization, RouteOfLinks DEF PostSelectOrganization
<1>6. CASE PostOfficialContactEmailVerification(b, o)
  BY <1>6, RowsOfOrganization, RouteOfLinks DEF PostOfficialContactEmailVerification
<1>7. CASE PostQuitOrganization(b, o)
  <2> DEFINE v == [w EXCEPT !.links[o] = NoLink]
  <2>1. NoLink \in Link
    BY DEF NoLink, Link
  <2>2. v \in Rows /\ v.session = session[b]
    BY <1>2, <1>3, <2>1 DEF Rows
  <2>3. Save(b, v) /\ UNCHANGED <<provider, interaction, earned>>
    BY <1>7 DEF PostQuitOrganization
  <2> HIDE DEF v
  <2> QED
    BY <2>2, <2>3, RouteOfRowsOnly
<1> QED
  BY <1>4, <1>5, <1>6, <1>7

LEMMA SignInRoutesRoute ==
  ASSUME TypeOK, SessionsEarned, NEW b \in Browsers, SignInRoutes(b)
  PROVE  Route(b)
<1>1. CASE \E u \in Users, two \in BOOLEAN : SignIn(b, u, two)
  BY <1>1, SignInRoute
<1>2. CASE SecondFactor(b)
  BY <1>2, SecondFactorRoute
<1>3. CASE VisitPage(b)
  <2>1. IssueSessionOrRedirect(b, RowsOf(session[b])) /\ UNCHANGED earned
    BY <1>3 DEF VisitPage
  <2> QED
    BY <2>1, SessionOfBrowser, RouteOfLinks
<1> QED
  BY <1>1, <1>2, <1>3 DEF SignInRoutes

-------------------------------------------------------------------------------
(* The levels (module AcrChecks).                                          *)

\* A set of levels is requested when one of them is.
LEMMA RequestedOneByOne ==
  ASSUME NEW prompt, NEW acrs
  PROVE  areAcrsRequestedInPrompt(prompt, acrs) <=>
           \E acr \in acrs : areAcrsRequestedInPrompt(prompt, {acr})
BY DEF areAcrsRequestedInPrompt

\* A level with two factors needs them.
LEMMA LevelNeedsTwo ==
  ASSUME NEW two \in BOOLEAN, NEW checked \in BOOLEAN, NEW dirigeant \in BOOLEAN,
         NEW always \in BOOLEAN, NEW prompt
  PROVE  /\ currentAcr(two, checked, dirigeant, always, prompt) \in Acr
         /\ currentAcr(two, checked, dirigeant, always, prompt) \in Aal2Acrs => two
         /\ currentAcr(two, checked, dirigeant, always, prompt)
              \in {"IAL2_AAL1", "IAL2_AAL2"} => checked
BY DEF currentAcr, Acr, Aal1Acrs, Aal2Acrs, CertificationDirigeant

LEMMA RequestedIsBoolean ==
  ASSUME NEW prompt
  PROVE  /\ twoFactorsAuthRequested(prompt) \in BOOLEAN
         /\ certificationDirigeantRequested(prompt) \in BOOLEAN
BY DEF twoFactorsAuthRequested, certificationDirigeantRequested, containsEssentialAcrs

\* The levels a session with, or without, two factors may obtain.
Obtained(prompt, always, two) ==
  IF always /\ ~isThereAnyRequestedAcr(prompt) THEN {"eidas1"}
  ELSE IF certificationDirigeantRequested(prompt) THEN {CertificationDirigeant}
  ELSE IF two THEN Aal2Acrs ELSE Aal1Acrs

LEMMA MetByObtained ==
  ASSUME NEW prompt, NEW always \in BOOLEAN, NEW two \in BOOLEAN, containsEssentialAcrs(prompt)
  PROVE  CanBeMet(prompt, always, two)
           <=> areAcrsRequestedInPrompt(prompt, Obtained(prompt, always, two))
<1> DEFINE Answered == {AnswerTo(prompt, always, two, checked) : checked \in BOOLEAN}
<1>1. Answered = Obtained(prompt, always, two)
  BY DEF AnswerTo, currentAcr, Obtained, Aal1Acrs, Aal2Acrs
<1>2. CanBeMet(prompt, always, two)
        <=> \E checked \in BOOLEAN :
              areAcrsRequestedInPrompt(prompt, {AnswerTo(prompt, always, two, checked)})
  BY DEF CanBeMet, isAcrSatisfied
<1>3. @ <=> \E acr \in Answered : areAcrsRequestedInPrompt(prompt, {acr})
  OBVIOUS
<1> QED
  BY <1>1, <1>2, <1>3, RequestedOneByOne

(***************************************************************************)
(* Of any prompt whatever, the start asks for two factors exactly when the *)
(* end needs them (services/acr-checks.ts).                                *)
(***************************************************************************)
THEOREM TwoFactorsNecessaryForPrompt ==
  ASSUME NEW prompt, NEW always \in BOOLEAN
  PROVE  twoFactorsAuthRequested(prompt)
           <=> CanBeMet(prompt, always, TRUE) /\ ~CanBeMet(prompt, always, FALSE)
<1> DEFINE Req(acrs) == areAcrsRequestedInPrompt(prompt, acrs)
<1>1. CASE ~containsEssentialAcrs(prompt)
  BY <1>1 DEF twoFactorsAuthRequested, CanBeMet, isAcrSatisfied
<1>2. CASE containsEssentialAcrs(prompt)
  <2>1. /\ CanBeMet(prompt, always, TRUE) <=> Req(Obtained(prompt, always, TRUE))
        /\ CanBeMet(prompt, always, FALSE) <=> Req(Obtained(prompt, always, FALSE))
    BY <1>2, MetByObtained
  <2>2. isThereAnyRequestedAcr(prompt) <=> Req(Aal1Acrs) \/ Req(Aal2Acrs)
    BY RequestedOneByOne DEF isThereAnyRequestedAcr
  <2>3. twoFactorsAuthRequested(prompt) <=> Req(Aal2Acrs) /\ ~Req(Aal1Acrs)
    BY <1>2 DEF twoFactorsAuthRequested
  <2>4. certificationDirigeantRequested(prompt) => ~Req(Aal1Acrs) /\ ~Req(Aal2Acrs)
    BY <2>2 DEF certificationDirigeantRequested, isThereAnyRequestedAcr
  <2> QED
    BY <2>1, <2>2, <2>3, <2>4 DEF Obtained
<1> QED
  BY <1>1, <1>2

\* How oidc-provider makes a prompt of a request for a level.
Made(prompt) ==
  containsEssentialAcrs(prompt) =>
    /\ prompt.essential
    /\ "essential_acr" \notin prompt.reasons => prompt.value = "absent"
    /\ "essential_acrs" \notin prompt.reasons => prompt.values = {}

LEMMA RequestedOfMade ==
  ASSUME NEW prompt, Made(prompt), containsEssentialAcrs(prompt), NEW acrs \in SUBSET Acr
  PROVE  areAcrsRequestedInPrompt(prompt, acrs)
           <=> ({prompt.value} \cup prompt.values) \cap acrs # {}
<1>1. "absent" \notin acrs
  BY DEF Acr, Aal1Acrs, Aal2Acrs, CertificationDirigeant
<1> QED
  BY <1>1 DEF Made, containsEssentialAcrs, areAcrsRequestedInPrompt

(***************************************************************************)
(* Of a prompt that oidc-provider makes, whatever levels it is about, some *)
(* session is accepted exactly if it is about an ordinary level or the     *)
(* special one that the feature flag leaves.                               *)
(***************************************************************************)
THEOREM PromptsThatCanBeMet ==
  ASSUME NEW prompt, Made(prompt), containsEssentialAcrs(prompt), NEW always \in BOOLEAN
  PROVE  (\E two \in BOOLEAN : CanBeMet(prompt, always, two))
           <=> ({prompt.value} \cup prompt.values) \cap
                 (Aal1Acrs \cup Aal2Acrs
                    \cup {IF always THEN "eidas1" ELSE CertificationDirigeant}) # {}
<1> DEFINE Req(acrs) == areAcrsRequestedInPrompt(prompt, acrs)
           special == IF always THEN "eidas1" ELSE CertificationDirigeant
<1>1. (\E two \in BOOLEAN : CanBeMet(prompt, always, two))
        <=> Req(Obtained(prompt, always, TRUE)) \/ Req(Obtained(prompt, always, FALSE))
  BY MetByObtained
<1>2. isThereAnyRequestedAcr(prompt) <=> Req(Aal1Acrs) \/ Req(Aal2Acrs)
  BY RequestedOneByOne DEF isThereAnyRequestedAcr
<1>3. certificationDirigeantRequested(prompt)
        <=> Req({CertificationDirigeant}) /\ ~isThereAnyRequestedAcr(prompt)
  BY DEF certificationDirigeantRequested, isThereAnyRequestedAcr
<1>4. Req(Obtained(prompt, always, TRUE)) \/ Req(Obtained(prompt, always, FALSE))
        <=> Req(Aal1Acrs) \/ Req(Aal2Acrs) \/ Req({special})
  BY <1>2, <1>3 DEF Obtained
<1>5. @ <=> Req(Aal1Acrs \cup Aal2Acrs \cup {special})
  BY RequestedOneByOne
<1>6. Aal1Acrs \cup Aal2Acrs \cup {special} \in SUBSET Acr
  BY DEF Acr
<1>7. Req(Aal1Acrs \cup Aal2Acrs \cup {special})
        <=> ({prompt.value} \cup prompt.values) \cap (Aal1Acrs \cup Aal2Acrs \cup {special}) # {}
  BY <1>6, RequestedOfMade
<1> QED
  BY <1>1, <1>4, <1>5, <1>7

-------------------------------------------------------------------------------
(* The decisions of oidc-provider.                                         *)

LEMMA UnusedIsTyped == Unused \in InteractionRecord /\ NoLogin \in Login /\ Made(NoPrompt)
<1>1. NoRequest \in Request
  BY DEF NoRequest, Request
<1>2. NoPrompt \in Prompt
  BY DEF NoPrompt, Prompt, PromptNames
<1>3. NoLogin \in Login
  BY DEF NoLogin, Login
<1>4. Made(NoPrompt)
  BY DEF Made, containsEssentialAcrs, NoPrompt
<1>5. "none" \in Stages
  BY DEF Stages
<1> QED
  BY <1>1, <1>2, <1>3, <1>4, <1>5 DEF Unused, InteractionRecord

LEMMA ReasonsAreReasons ==
  ASSUME NEW x, NEW p
  PROVE  /\ ReasonsToLogin(x, p) \subseteq LoginReasons
         /\ "no_session" \notin ReasonsToLogin(x, p) => p.account # None
         /\ "essential_acr" \in ReasonsToLogin(x, p) => x.request.acr # "absent"
         /\ "essential_acrs" \in ReasonsToLogin(x, p) => x.request.acrs # {}
BY DEF ReasonsToLogin, LoginReasons

LEMMA PromptedIsTyped ==
  ASSUME NEW x, x.request \in Request, x.browser \in Browsers \cup {None},
         NEW p \in Login, NEW name \in PromptNames
  PROVE  /\ Prompted(x, p, name) \in InteractionRecord
         /\ Prompted(x, p, name).stage = "prompted"
         /\ Prompted(x, p, name).browser = x.browser
         /\ Prompted(x, p, name).request = x.request
         /\ Prompted(x, p, name).login = NoLogin
         /\ Prompted(x, p, name).code = NoLogin
         /\ Made(Prompted(x, p, name).prompt)
<1> DEFINE reasons == IF name = "login" THEN ReasonsToLogin(x, p) ELSE {}
           level == reasons \cap {"essential_acr", "essential_acrs"} # {}
           prompt == [name |-> name, reasons |-> reasons, essential |-> level,
                      value |-> IF level THEN x.request.acr ELSE "absent",
                      values |-> IF level THEN x.request.acrs ELSE {}]
<1>1. Prompted(x, p, name) =
        [Unused EXCEPT !.stage = "prompted", !.browser = x.browser,
           !.request = x.request, !.origin = p.account, !.prompt = prompt]
  BY DEF Prompted
<1>2. /\ x.request.acr \in Acr \cup {"absent"} /\ x.request.acrs \in SUBSET Acr
      /\ x.request.acr = "absent" \/ x.request.acrs = {}
  BY DEF Request
<1>3. reasons \in SUBSET LoginReasons
  BY ReasonsAreReasons
<1>4. prompt \in Prompt
  BY <1>2, <1>3 DEF Prompt
<1>5. Made(prompt)
  <2> SUFFICES ASSUME containsEssentialAcrs(prompt)
               PROVE  /\ prompt.essential
                      /\ "essential_acr" \notin prompt.reasons => prompt.value = "absent"
                      /\ "essential_acrs" \notin prompt.reasons => prompt.values = {}
    BY DEF Made
  <2>1. level
    BY DEF containsEssentialAcrs
  <2>2. reasons = ReasonsToLogin(x, p)
    BY <2>1
  <2>3. "essential_acr" \in reasons => x.request.acrs = {}
    BY <2>2, <1>2, ReasonsAreReasons
  <2>4. "essential_acrs" \in reasons => x.request.acr = "absent"
    BY <2>2, <1>2, ReasonsAreReasons
  <2>5. prompt.essential /\ prompt.reasons = reasons
        /\ prompt.value = x.request.acr /\ prompt.values = x.request.acrs
    BY <2>1
  <2>6. "essential_acr" \in reasons \/ "essential_acrs" \in reasons
    BY <2>1
  <2> QED
    BY <2>3, <2>4, <2>5, <2>6
<1>6. p.account \in Users \cup {None} /\ "prompted" \in Stages
  BY DEF Login, Stages
<1> HIDE DEF prompt
<1> QED
  BY <1>1, <1>4, <1>5, <1>6, UnusedIsTyped DEF InteractionRecord, Unused

LEMMA LeastOfSix ==
  ASSUME NEW S, S \subseteq 1..6, S # {}
  PROVE  \E k \in S : \A j \in S : k <= j
<1>1. CASE 1 \in S
  BY <1>1
<1>2. CASE 1 \notin S /\ 2 \in S
  BY <1>2
<1>3. CASE 1 \notin S /\ 2 \notin S /\ 3 \in S
  BY <1>3
<1>4. CASE 1 \notin S /\ 2 \notin S /\ 3 \notin S /\ 4 \in S
  BY <1>4
<1>5. CASE 1 \notin S /\ 2 \notin S /\ 3 \notin S /\ 4 \notin S /\ 5 \in S
  BY <1>5
<1>6. CASE 1 \notin S /\ 2 \notin S /\ 3 \notin S /\ 4 \notin S /\ 5 \notin S
  <2>1. \A k \in S : k \in 1..6 /\ k \notin {1, 2, 3, 4, 5}
    BY <1>6
  <2>2. \A k \in S : k = 6
    BY <2>1
  <2>3. \A j, k \in S : k <= j
    BY <2>2
  <2> QED
    BY <2>3
<1> QED
  BY <1>1, <1>2, <1>3, <1>4, <1>5, <1>6

LEMMA DecisionIsTyped ==
  ASSUME NEW x, x.request \in Request, x.browser \in Browsers \cup {None}, NEW p \in Login
  PROVE  /\ Decide(x, p) \in InteractionRecord
         /\ Decide(x, p).stage \in {"prompted", "code"}
         /\ Decide(x, p).browser = x.browser
         /\ Decide(x, p).request = x.request
         /\ Decide(x, p).login = NoLogin
         /\ Decide(x, p).code # NoLogin => Decide(x, p).code = p /\ p.account # None
         /\ Decide(x, p).stage = "code" => Decide(x, p).code.account # None
         /\ Made(Decide(x, p).prompt)
<1> DEFINE due == {k \in 1..4 : DuePrompts(x, p)[k].due}
<1>1. CASE due = {}
  <2>1. Decide(x, p) = [Unused EXCEPT !.stage = "code", !.browser = x.browser,
                                      !.request = x.request, !.code = p]
    BY <1>1 DEF Decide
  <2>2. ~DuePrompts(x, p)[1].due
    BY <1>1
  <2>3. DuePrompts(x, p)[1].due <=> ReasonsToLogin(x, p) # {}
    BY DEF DuePrompts
  <2>4. p.account # None
    BY <2>2, <2>3, ReasonsAreReasons
  <2>5. "code" \in Stages
    BY DEF Stages
  <2> QED
    BY <2>1, <2>4, <2>5, UnusedIsTyped DEF InteractionRecord, Unused
<1>2. CASE due # {}
  <2> DEFINE k == CHOOSE k \in due : \A j \in due : k <= j
  <2>1. k \in 1..4
    BY <1>2, LeastOfSix
  <2>2. Decide(x, p) = Prompted(x, p, DuePrompts(x, p)[k].name)
    BY <1>2 DEF Decide
  <2> HIDE DEF k
  <2>3. DuePrompts(x, p)[k].name \in PromptNames
    BY <2>1 DEF DuePrompts, PromptNames
  <2> QED
    BY <2>2, <2>3, PromptedIsTyped
<1> QED
  BY <1>1, <1>2

-------------------------------------------------------------------------------
(* The inductive invariant.                                                *)

\* A session of the provider, an answer or a code l in the browser b is of
\* an account that signed in there, at a level it showed there.
LoginEarned(e, b, l) ==
  /\ l.account # None => \E two \in BOOLEAN : <<b, l.account, two>> \in e
  /\ l.acr \in Aal2Acrs => <<b, l.account, TRUE>> \in e

CodeEarned(e, b, code) == code # NoLogin => code.account # None /\ LoginEarned(e, b, code)

InteractionEarned(e, x) ==
  /\ LoginEarned(e, x.browser, x.login)
  /\ CodeEarned(e, x.browser, x.code)
  /\ x.stage = "code" => x.code.account # None

LoginsEarned ==
  /\ \A b \in Browsers : LoginEarned(earned, b, provider[b])
  /\ \A i \in Interactions : InteractionEarned(earned, interaction[i])

PromptsMade == \A i \in Interactions : Made(interaction[i].prompt)

\* A session s of the browser b that leads back to an interaction has its
\* values, until it is resumed.
LeadsBack(f, b, s) ==
  LET x == f[s.interaction] IN
  s.interaction \in Interactions =>
    /\ x.browser = b
    /\ x.stage \in {"prompted", "answered", "expired"}
    /\ s.oneOrg = x.request.oneOrg
    /\ s.dirigeant = certificationDirigeantRequested(x.prompt)
    /\ s.twoFa = twoFactorsAuthRequested(x.prompt)

SessionsLeadBack == \A b \in Browsers : LeadsBack(interaction, b, session[b])

Inv == TypeOK /\ SessionsEarned /\ LoginsEarned /\ PromptsMade /\ SessionsLeadBack

LEMMA MoreIsEarned ==
  ASSUME NEW e, NEW f, e \subseteq f, NEW b
  PROVE  /\ \A l : LoginEarned(e, b, l) => LoginEarned(f, b, l)
         /\ \A s : Earns(e, b, s) => Earns(f, b, s)
BY DEF LoginEarned, Earns

LEMMA MoreIsEarnedByInteraction ==
  ASSUME NEW e, NEW f, e \subseteq f, NEW x, InteractionEarned(e, x)
  PROVE  InteractionEarned(f, x)
BY MoreIsEarned DEF InteractionEarned, CodeEarned

LEMMA NoLoginIsEarned ==
  ASSUME NEW e, NEW b
  PROVE  LoginEarned(e, b, NoLogin) /\ CodeEarned(e, b, NoLogin)
BY DEF LoginEarned, CodeEarned, NoLogin, Aal2Acrs

LEMMA UnusedIsEarned ==
  ASSUME NEW e
  PROVE  InteractionEarned(e, Unused)
BY NoLoginIsEarned DEF InteractionEarned, Unused

LEMMA EmptySessionLeadsNowhere ==
  ASSUME NEW f, NEW b, NEW e
  PROVE  EmptySession \in Session /\ LeadsBack(f, b, EmptySession) /\ Earns(e, b, EmptySession)
BY NoneAssumption DEF EmptySession, Session, LeadsBack, Earns

LEMMA InitInv == Init => Inv
<1> SUFFICES ASSUME Init PROVE Inv
  OBVIOUS
<1>1. TypeOK
  <2>1. NoLink \in Link
    BY DEF NoLink, Link
  <2> QED
    BY <2>1, UnusedIsTyped, EmptySessionLeadsNowhere DEF Init, TypeOK
<1>2. SessionsEarned
  BY EmptySessionLeadsNowhere DEF Init, SessionsEarned
<1>3. LoginsEarned
  BY NoLoginIsEarned, UnusedIsEarned DEF Init, LoginsEarned
<1>4. PromptsMade
  BY UnusedIsTyped DEF Init, PromptsMade, Unused
<1>5. SessionsLeadBack
  BY EmptySessionLeadsNowhere DEF Init, SessionsLeadBack
<1> QED
  BY <1>1, <1>2, <1>3, <1>4, <1>5 DEF Inv

\* The values of an interaction are its own, kept or dropped.
LEMMA KeptValuesLeadBack ==
  ASSUME NEW f, NEW b, NEW s, NEW t, LeadsBack(f, b, s), KeepsValues(t, s)
  PROVE  LeadsBack(f, b, t)
<1>1. CASE t.interaction = None /\ t.oneOrg = FALSE /\ t.twoFa = FALSE
  BY <1>1, NoneAssumption DEF LeadsBack
<1>2. CASE t.interaction = s.interaction /\ t.oneOrg = s.oneOrg /\ t.twoFa = s.twoFa
  <2>1. t.dirigeant = s.dirigeant
    BY DEF KeepsValues
  <2> QED
    BY <1>2, <2>1 DEF LeadsBack
<1> QED
  BY <1>1, <1>2 DEF KeepsValues

LEMMA RouteInv ==
  ASSUME Inv, NEW b \in Browsers, Route(b)
  PROVE  Inv'
<1>1. TypeOK'
  BY DEF Inv, Route, TypeOK, TypedRows
<1>2. PICK t \in Session :
        session' = [session EXCEPT ![b] = t] /\ KeepsValues(t, session[b]) /\ Earns(earned', b, t)
  BY DEF Route
<1>3. \A c \in Browsers : session'[c] = IF c = b THEN t ELSE session[c]
  BY <1>2 DEF Inv, TypeOK
<1>4. earned \subseteq earned' /\ provider' = provider /\ interaction' = interaction
  BY DEF Route
<1>5. SessionsEarned'
  BY <1>2, <1>3, <1>4, MoreIsEarned DEF Inv, SessionsEarned
<1>6. LoginsEarned'
  BY <1>4, MoreIsEarned, MoreIsEarnedByInteraction DEF Inv, LoginsEarned
<1>7. PromptsMade'
  BY <1>4 DEF Inv, PromptsMade
<1>8. SessionsLeadBack'
  <2>1. LeadsBack(interaction, b, t)
    BY <1>2, KeptValuesLeadBack DEF Inv, SessionsLeadBack
  <2> QED
    BY <1>3, <1>4, <2>1 DEF Inv, SessionsLeadBack
<1> QED
  BY <1>1, <1>5, <1>6, <1>7, <1>8 DEF Inv

LEMMA RecordOfInteraction ==
  ASSUME Inv, NEW i \in Interactions
  PROVE  /\ interaction[i] \in InteractionRecord
         /\ interaction[i].request \in Request
         /\ interaction[i].browser \in Browsers \cup {None}
         /\ interaction[i].login \in Login
         /\ interaction[i].code \in Login
         /\ InteractionEarned(earned, interaction[i])
         /\ Made(interaction[i].prompt)
<1>1. interaction[i] \in InteractionRecord
  BY DEF Inv, TypeOK
<1> QED
  BY <1>1 DEF Inv, InteractionRecord, LoginsEarned, PromptsMade

LEMMA LedInteraction ==
  ASSUME Inv, NEW b \in Browsers, session[b].interaction \in Interactions
  PROVE  /\ interaction[session[b].interaction].browser = b
         /\ interaction[session[b].interaction].stage \in {"prompted", "answered", "expired"}
BY DEF Inv, SessionsLeadBack, LeadsBack

\* An interaction becomes y.
LEMMA ChangedInteraction ==
  ASSUME Inv, NEW i \in Interactions, NEW y \in InteractionRecord,
         interaction' = [interaction EXCEPT ![i] = y],
         InteractionEarned(earned, y), Made(y.prompt)
  PROVE  /\ interaction' \in [Interactions -> InteractionRecord]
         /\ \A j \in Interactions : InteractionEarned(earned, interaction'[j])
         /\ PromptsMade'
         /\ \A b \in Browsers, s \in Session :
              s.interaction # i /\ LeadsBack(interaction, b, s) => LeadsBack(interaction', b, s)
<1>1. interaction \in [Interactions -> InteractionRecord]
  BY DEF Inv, TypeOK
<1>2. \A j \in Interactions : interaction'[j] = IF j = i THEN y ELSE interaction[j]
  BY <1>1
<1>3. interaction' \in [Interactions -> InteractionRecord]
  BY <1>1
<1>4. \A j \in Interactions : InteractionEarned(earned, interaction'[j])
  BY <1>2 DEF Inv, LoginsEarned
<1>5. PromptsMade'
  BY <1>2 DEF Inv, PromptsMade
<1>6. ASSUME NEW b \in Browsers, NEW s \in Session, s.interaction # i,
             LeadsBack(interaction, b, s)
      PROVE  LeadsBack(interaction', b, s)
  <2>1. s.interaction \in Interactions =>
          interaction'[s.interaction] = interaction[s.interaction]
    BY <1>2, <1>6
  <2> QED
    BY <1>6, <2>1 DEF LeadsBack
<1> QED
  BY <1>3, <1>4, <1>5, <1>6

\* Only an interaction that no session leads back to becomes y.
LEMMA ForgottenInteraction ==
  ASSUME Inv, NEW i \in Interactions, NEW y \in InteractionRecord,
         interaction[i].stage \notin {"prompted", "answered", "expired"},
         interaction' = [interaction EXCEPT ![i] = y],
         InteractionEarned(earned, y), Made(y.prompt),
         provider' \in [Browsers -> Login],
         \A b \in Browsers : LoginEarned(earned, b, provider'[b]),
         UNCHANGED <<session, selected, link, earned>>
  PROVE  Inv'
<1>1. TypeOK'
  BY ChangedInteraction DEF Inv, TypeOK
<1>2. SessionsEarned'
  BY DEF Inv, SessionsEarned
<1>3. LoginsEarned'
  BY ChangedInteraction DEF LoginsEarned
<1>4. PromptsMade'
  BY ChangedInteraction
<1>5. ASSUME NEW b \in Browsers PROVE LeadsBack(interaction', b, session[b])
  <2>1. session[b] \in Session /\ LeadsBack(interaction, b, session[b])
    BY DEF Inv, TypeOK, SessionsLeadBack
  <2>2. session[b].interaction # i
    BY LedInteraction
  <2> QED
    BY <2>1, <2>2, ChangedInteraction
<1>6. SessionsLeadBack'
  BY <1>5 DEF SessionsLeadBack
<1> QED
  BY <1>1, <1>2, <1>3, <1>4, <1>6 DEF Inv

LEMMA AuthorizeInv ==
  ASSUME Inv, NEW b \in Browsers, NEW i \in Interactions, NEW request \in Requests,
         Authorize(b, i, request)
  PROVE  Inv'
<1> DEFINE x == [Unused EXCEPT !.browser = b, !.request = request]
           y == Decide(x, provider[b])
<1>1. x.request \in Request /\ x.request = request /\ x.browser = b
  BY RequestsAssumption DEF Unused
<1>2. provider[b] \in Login /\ LoginEarned(earned, b, provider[b])
  BY DEF Inv, TypeOK, LoginsEarned
<1>3. /\ interaction[i].stage = "none"
      /\ interaction' = [interaction EXCEPT ![i] = y]
      /\ UNCHANGED <<session, provider, selected, link, earned>>
  BY DEF Authorize
<1> HIDE DEF x
<1>4. y \in InteractionRecord /\ Made(y.prompt)
  BY <1>1, <1>2, DecisionIsTyped
<1>5. y.browser = b /\ y.login = NoLogin
      /\ (y.code # NoLogin => y.code = provider[b] /\ provider[b].account # None)
      /\ (y.stage = "code" => y.code.account # None)
  BY <1>1, <1>2, DecisionIsTyped
<1> HIDE DEF y
<1>6. InteractionEarned(earned, y)
  BY <1>2, <1>5, NoLoginIsEarned DEF InteractionEarned, CodeEarned
<1>7. provider' \in [Browsers -> Login] /\ \A c \in Browsers : LoginEarned(earned, c, provider'[c])
  BY <1>3 DEF Inv, TypeOK, LoginsEarned
<1> QED
  BY <1>3, <1>4, <1>6, <1>7, ForgottenInteraction

\* An interaction becomes y, and the session of its browser, t by now, leads
\* back to it no more.
LEMMA SettledInteraction ==
  ASSUME Inv, NEW b \in Browsers, NEW i \in Interactions, NEW y \in InteractionRecord,
         interaction[i].browser = b,
         interaction' = [interaction EXCEPT ![i] = y],
         InteractionEarned(earned, y), Made(y.prompt),
         NEW t \in Session, session' = [session EXCEPT ![b] = t], t.interaction # i,
         LeadsBack(interaction, b, t), Earns(earned, b, t), TypedRows,
         provider' \in [Browsers -> Login],
         \A c \in Browsers : LoginEarned(earned, c, provider'[c]),
         UNCHANGED earned
  PROVE  Inv'
<1>1. \A c \in Browsers : session'[c] = IF c = b THEN t ELSE session[c]
  BY DEF Inv, TypeOK
<1>2. TypeOK'
  BY ChangedInteraction DEF Inv, TypeOK, TypedRows
<1>3. SessionsEarned'
  BY <1>1 DEF Inv, SessionsEarned
<1>4. LoginsEarned' /\ PromptsMade'
  BY ChangedInteraction DEF Inv, LoginsEarned
<1>5. ASSUME NEW c \in Browsers PROVE LeadsBack(interaction', c, session'[c])
  <2>1. CASE c = b
    <3>1. LeadsBack(interaction', b, t)
      BY ChangedInteraction
    <3> QED
      BY <1>1, <2>1, <3>1
  <2>2. CASE c # b
    <3>1. session[c] \in Session /\ LeadsBack(interaction, c, session[c])
      BY DEF Inv, TypeOK, SessionsLeadBack
    <3>2. session[c].interaction # i
      BY <2>2, LedInteraction
    <3> QED
      BY <1>1, <2>2, <3>1, <3>2, ChangedInteraction
  <2> QED
    BY <2>1, <2>2
<1>6. SessionsLeadBack'
  BY <1>5 DEF SessionsLeadBack
<1> QED
  BY <1>2, <1>3, <1>4, <1>6 DEF Inv

\* The session of a browser without the values of an interaction.
LEMMA ClearedSession ==
  ASSUME Inv, NEW b \in Browsers
  PROVE  /\ ClearFlags(session[b]) \in Session
         /\ ClearFlags(session[b]).interaction = None
         /\ LeadsBack(interaction, b, ClearFlags(session[b]))
         /\ Earns(earned, b, ClearFlags(session[b]))
         /\ KeepsValues(ClearFlags(session[b]), session[b])
<1> DEFINE t == ClearFlags(session[b])
<1>1. session[b] \in Session /\ Earns(earned, b, session[b])
  BY DEF Inv, TypeOK, SessionsEarned
<1>2. t \in Session /\ Leaves(session[b], t) /\ t.interaction = None
  BY <1>1, LeavesItself, ClearFlagsOfSession
<1> HIDE DEF t
<1>3. LeadsBack(interaction, b, t)
  BY <1>2, NoneAssumption DEF LeadsBack
<1>4. Earns(earned, b, t) /\ KeepsValues(t, session[b])
  BY <1>1, <1>2 DEF Leaves, Earns
<1> QED
  BY <1>2, <1>3, <1>4 DEF t

LEMMA ResumeInv ==
  ASSUME Inv, NEW b \in Browsers, NEW i \in Interactions, Resume(b, i)
  PROVE  Inv'
<1> DEFINE x == interaction[i]
           y == Decide(x, x.login)
           s == session[b]
           t == [s EXCEPT !.interaction = IF s.interaction = i THEN Former ELSE s.interaction]
<1>1. /\ x.request \in Request /\ x.browser \in Browsers \cup {None} /\ x.login \in Login
      /\ LoginEarned(earned, x.browser, x.login)
  BY RecordOfInteraction DEF InteractionEarned
<1>2. /\ x.browser = b /\ x.stage = "answered"
      /\ provider' = [provider EXCEPT ![b] = x.login]
      /\ interaction' = [interaction EXCEPT ![i] = y]
      /\ session' = [session EXCEPT
           ![b].interaction = IF s.interaction = i THEN Former ELSE s.interaction]
      /\ UNCHANGED <<selected, link, earned>>
  BY DEF Resume, Inv, TypeOK
<1>3. y \in InteractionRecord /\ Made(y.prompt)
  BY <1>1, DecisionIsTyped
<1>4. y.browser = b /\ y.login = NoLogin
      /\ (y.code # NoLogin => y.code = x.login /\ x.login.account # None)
      /\ (y.stage = "code" => y.code.account # None)
  BY <1>1, <1>2, DecisionIsTyped
<1> HIDE DEF y
<1>5. InteractionEarned(earned, y)
  BY <1>1, <1>2, <1>4, NoLoginIsEarned DEF InteractionEarned, CodeEarned
<1>6. provider' \in [Browsers -> Login] /\ \A c \in Browsers : LoginEarned(earned, c, provider'[c])
  BY <1>1, <1>2 DEF Inv, TypeOK, LoginsEarned
<1>7. s \in Session /\ Earns(earned, b, s) /\ LeadsBack(interaction, b, s)
  BY DEF Inv, TypeOK, SessionsEarned, SessionsLeadBack
<1>8. session' = [session EXCEPT ![b] = t]
  BY <1>2 DEF Inv, TypeOK
<1>9. /\ t \in Session /\ t.user = s.user /\ t.two = s.two
      /\ t.interaction = (IF s.interaction = i THEN Former ELSE s.interaction)
      /\ t.oneOrg = s.oneOrg /\ t.twoFa = s.twoFa /\ t.dirigeant = s.dirigeant
  BY <1>7 DEF Session
<1> HIDE DEF s, t
<1>10. t.interaction # i /\ LeadsBack(interaction, b, t) /\ Earns(earned, b, t)
  BY <1>7, <1>9, FormerAssumption DEF LeadsBack, Earns
<1>11. TypedRows
  BY <1>2, <1>8, <1>9 DEF Inv, TypeOK, TypedRows
<1> QED
  BY <1>2, <1>3, <1>5, <1>6, <1>8, <1>9, <1>10, <1>11, SettledInteraction

LEMMA TokenRequestInv ==
  ASSUME Inv, NEW i \in Interactions, TokenRequest(i)
  PROVE  Inv'
<1> DEFINE x == interaction[i]
           o == selected[x.code.account]
           told == x.request.oneOrg => o # None /\ link[x.code.account][o].member
           y == [x EXCEPT !.stage = IF told THEN "claims" ELSE "failed",
                          !.organization = IF told /\ x.request.oneOrg THEN o ELSE None]
<1>1. x \in InteractionRecord /\ InteractionEarned(earned, x) /\ Made(x.prompt)
  BY RecordOfInteraction
<1>2. /\ x.stage = "code"
      /\ interaction' = [interaction EXCEPT
           ![i].stage = IF told THEN "claims" ELSE "failed",
           ![i].organization = IF told /\ x.request.oneOrg THEN o ELSE None]
      /\ UNCHANGED <<session, provider, selected, link, earned>>
  BY DEF TokenRequest
<1>3. interaction' = [interaction EXCEPT ![i] = y]
  BY <1>2 DEF Inv, TypeOK
<1>4. \A u \in Users : selected[u] \in Organizations \cup {None}
  BY DEF Inv, TypeOK
<1>5. x.code.account \in Users
  BY <1>1, <1>2 DEF InteractionRecord, Login, InteractionEarned
<1>6. /\ y.login = x.login /\ y.code = x.code /\ y.browser = x.browser /\ y.prompt = x.prompt
      /\ y.stage # "code"
  BY <1>1 DEF InteractionRecord
<1>7. y \in InteractionRecord
  BY <1>1, <1>4, <1>5 DEF InteractionRecord, Stages
<1>8. provider' \in [Browsers -> Login] /\ \A c \in Browsers : LoginEarned(earned, c, provider'[c])
  BY <1>2 DEF Inv, TypeOK, LoginsEarned
<1> HIDE DEF y
<1>9. InteractionEarned(earned, y) /\ Made(y.prompt)
  BY <1>1, <1>6 DEF InteractionEarned
<1>10. x.stage \notin {"prompted", "answered", "expired"} /\ UNCHANGED <<session, selected, link, earned>>
  BY <1>2
<1> QED
  BY <1>3, <1>7, <1>8, <1>9, <1>10, ForgottenInteraction

LEMMA InteractionStartInv ==
  ASSUME Inv, NEW b \in Browsers, NEW i \in Interactions, InteractionStart(b, i)
  PROVE  Inv'
<1> DEFINE x == interaction[i]
           t == WithValuesOf(session[b], i)
<1>1. /\ x.browser = b /\ x.stage \in {"prompted", "answered"}
      /\ session' = [session EXCEPT ![b] = t]
      /\ UNCHANGED <<provider, interaction, selected, link, earned>>
  BY DEF InteractionStart, Found, Pending, Inv, TypeOK
<1>2. session[b] \in Session /\ Earns(earned, b, session[b])
  BY DEF Inv, TypeOK, SessionsEarned
<1>3. x.request.oneOrg \in BOOLEAN
  BY RecordOfInteraction DEF Request
<1>4. twoFactorsAuthRequested(x.prompt) \in BOOLEAN /\ certificationDirigeantRequested(x.prompt) \in BOOLEAN
  BY RequestedIsBoolean
<1>5. session' = [session EXCEPT ![b] = t]
  BY <1>1
<1>6. /\ t.user = session[b].user /\ t.two = session[b].two
      /\ t.interaction = i /\ t.oneOrg = x.request.oneOrg
      /\ t.twoFa = twoFactorsAuthRequested(x.prompt)
      /\ t.dirigeant = certificationDirigeantRequested(x.prompt)
  BY <1>2 DEF Session, WithValuesOf
<1>7. t \in Session
  BY <1>2, <1>3, <1>4 DEF Session, WithValuesOf
<1> HIDE DEF t
<1>8. \A c \in Browsers : session'[c] = IF c = b THEN t ELSE session[c]
  BY <1>5 DEF Inv, TypeOK
<1>9. TypeOK'
  <2>1. UNCHANGED <<provider, interaction, selected, link, earned>>
    BY <1>1
  <2> QED
    BY <1>5, <1>7, <2>1 DEF Inv, TypeOK
<1>10. Earns(earned, b, t)
  BY <1>2, <1>6 DEF Earns
<1>11. SessionsEarned'
  BY <1>1, <1>8, <1>10 DEF Inv, SessionsEarned
<1>12. LoginsEarned' /\ PromptsMade'
  BY <1>1 DEF Inv, LoginsEarned, PromptsMade
<1>13. LeadsBack(interaction, b, t)
  BY <1>1, <1>6 DEF LeadsBack
<1>14. SessionsLeadBack'
  BY <1>1, <1>8, <1>13 DEF Inv, SessionsLeadBack
<1> QED
  BY <1>9, <1>11, <1>12, <1>14 DEF Inv

LEMMA InteractionErrorInv ==
  ASSUME Inv, NEW b \in Browsers, NEW i \in Interactions \cup {Former}, InteractionError(b, i)
  PROVE  Inv'
<1>1. /\ session' = [session EXCEPT ![b] = ClearFlags(session[b])]
      /\ UNCHANGED <<provider, selected, link, earned>>
  BY DEF InteractionError, Inv, TypeOK
<1>2. /\ ClearFlags(session[b]) \in Session
      /\ KeepsValues(ClearFlags(session[b]), session[b])
      /\ Earns(earned, b, ClearFlags(session[b]))
  BY ClearedSession
<1>3. TypedRows
  BY <1>1, <1>2 DEF Inv, TypeOK, TypedRows
<1>4. provider' \in [Browsers -> Login] /\ \A c \in Browsers : LoginEarned(earned, c, provider'[c])
  BY <1>1 DEF Inv, TypeOK, LoginsEarned
<1>5. CASE Found(b, i)
  <2> DEFINE y == [Unused EXCEPT !.stage = "denied"]
  <2>1. interaction' = [interaction EXCEPT ![i] = y]
    BY <1>5 DEF InteractionError
  <2>2. y \in InteractionRecord /\ y.browser = Unused.browser /\ y.login = Unused.login
        /\ y.code = Unused.code /\ y.prompt = NoPrompt /\ y.stage = "denied"
    BY UnusedIsTyped DEF InteractionRecord, Unused, Stages
  <2>3. InteractionEarned(earned, y) /\ Made(y.prompt)
    BY <2>2, UnusedIsEarned, UnusedIsTyped DEF InteractionEarned
  <2>4. i \in Interactions /\ interaction[i].browser = b
    BY <1>5 DEF Found, Pending
  <2>5. LeadsBack(interaction, b, ClearFlags(session[b])) /\ ClearFlags(session[b]).interaction # i
    BY <2>4, ClearedSession, NoneAssumption
  <2> HIDE DEF y
  <2> QED
    BY <1>1, <1>2, <1>3, <1>4, <2>1, <2>2, <2>3, <2>4, <2>5, SettledInteraction
<1>6. CASE ~Found(b, i)
  <2>1. interaction' = interaction
    BY <1>6 DEF InteractionError
  <2>2. Route(b)
    BY <1>1, <1>2, <1>3, <2>1 DEF Route, Inv, TypeOK
  <2> QED
    BY <2>2, RouteInv
<1> QED
  BY <1>5, <1>6

LEMMA PassedMeetsAll ==
  ASSUME NEW w, Stop(w) = "passed"
  PROVE  \A k \in 1..6 : Meets(w, k)
<1>1. CASE Passes(w, 6)
  BY <1>1 DEF Passes
<1>2. CASE ~Passes(w, 6)
  <2> DEFINE missed == {k \in 1..6 : ~Meets(w, k)}
             stops == CHOOSE k \in 1..6 : Passes(w, k - 1) /\ ~Meets(w, k)
  <2>1. missed # {} /\ missed \subseteq 1..6
    BY <1>2 DEF Passes
  <2>2. PICK k \in missed : \A j \in missed : k <= j
    BY <2>1, LeastOfSix
  <2>3. k \in 1..6 /\ \A j \in 1..(k - 1) : Meets(w, j)
    BY <2>2
  <2>4. stops \in 1..6
    BY <2>2, <2>3 DEF Passes
  <2>5. Stop(w) = Redirects(w)[stops]
    BY <1>2 DEF Stop
  <2> HIDE DEF stops
  <2>6. Stop(w) # "passed"
    BY <2>4, <2>5 DEF Redirects
  <2> QED
    BY <2>6
<1> QED
  BY <1>1, <1>2

\* The answer of a session that passed the chain.
LEMMA AnswerIsEarned ==
  ASSUME Inv, NEW b \in Browsers, NEW w \in Rows, w.session = session[b],
         session[b].user # None, NEW prompt
  PROVE  Answer(w, prompt) \in Login /\ LoginEarned(earned, b, Answer(w, prompt))
<1> DEFINE checked == w.session.oneOrg /\ w.links[w.selected].checked
           l == Answer(w, prompt)
<1>1. session[b] \in Session /\ <<b, session[b].user, session[b].two>> \in earned
  BY DEF Inv, TypeOK, SessionsEarned, Earns
<1>2. session[b].user \in Users /\ session[b].two \in BOOLEAN /\ session[b].dirigeant \in BOOLEAN
  BY <1>1 DEF Session
<1>3. checked \in BOOLEAN
  OBVIOUS
<1>4. /\ l.account = session[b].user
      /\ l.acr = currentAcr(session[b].two, checked, session[b].dirigeant, AlwaysEidas1, prompt)
      /\ l = [account |-> l.account, acr |-> l.acr]
  BY DEF Answer
<1> HIDE DEF checked, l
<1>5. l.acr \in Acr /\ (l.acr \in Aal2Acrs => session[b].two)
  BY <1>2, <1>3, <1>4, LevelNeedsTwo, FlagAssumption
<1>6. l \in Login
  BY <1>2, <1>4, <1>5 DEF Login
<1>7. \E two \in BOOLEAN : <<b, l.account, two>> \in earned
  BY <1>1, <1>2, <1>4
<1>8. l.acr \in Aal2Acrs => <<b, l.account, TRUE>> \in earned
  <2> SUFFICES ASSUME l.acr \in Aal2Acrs PROVE <<b, l.account, TRUE>> \in earned
    OBVIOUS
  <2>1. session[b].two = TRUE
    BY <1>2, <1>5
  <2> QED
    BY <1>1, <1>4, <2>1
<1> QED
  BY <1>6, <1>7, <1>8 DEF l, LoginEarned

LEMMA InteractionEndInv ==
  ASSUME Inv, NEW b \in Browsers, NEW i \in Interactions, InteractionEnd(b, i)
  PROVE  Inv'
<1> DEFINE x == interaction[i]
           before == RowsOf(session[b])
           w == WithSelection(before)
<1>1. before \in Rows /\ before.session = session[b]
  BY SessionOfBrowser DEF Inv
<1>2. w \in Rows /\ w.session = session[b]
  BY <1>1, SelectionOfRows
<1>3. Pending(b, i) /\ UNCHANGED <<provider, earned>>
  BY DEF InteractionEnd
<1>4. x \in InteractionRecord /\ InteractionEarned(earned, x) /\ Made(x.prompt) /\ x.browser = b
  BY <1>3, RecordOfInteraction DEF Pending
<1>5. CASE Stop(before) = "passed" /\ Answers(b, i, w)
  <2> DEFINE l == Answer(w, x.prompt)
             v == [w EXCEPT !.session = ClearFlags(w.session)]
             y == [x EXCEPT !.stage = "answered", !.login = l,
                            !.select = x.prompt.name = "select_organization",
                            !.update = x.prompt.name = "update_userinfo"]
  <2>1. /\ Save(b, v)
        /\ interaction' = [interaction EXCEPT
             ![i].stage = "answered", ![i].login = Answer(w, x.prompt),
             ![i].select = x.prompt.name = "select_organization",
             ![i].update = x.prompt.name = "update_userinfo"]
    BY <1>5 DEF InteractionEnd
  <2>2. interaction' = [interaction EXCEPT ![i] = y]
    BY <2>1 DEF Inv, TypeOK
  <2>3. Meets(before, 1)
    BY <1>5, PassedMeetsAll
  <2>4. session[b].user # None
    BY <1>1, <2>3 DEF Meets
  <2>5. l \in Login /\ LoginEarned(earned, b, l)
    BY <1>2, <2>4, AnswerIsEarned
  <2> HIDE DEF l
  <2>6. y \in InteractionRecord
    BY <1>4, <2>5 DEF InteractionRecord, Stages
  <2>7. y.browser = b /\ y.login = l /\ y.code = x.code /\ y.prompt = x.prompt /\ y.stage = "answered"
    BY <1>4 DEF InteractionRecord
  <2> HIDE DEF y
  <2>8. InteractionEarned(earned, y) /\ Made(y.prompt)
    BY <1>4, <2>5, <2>7 DEF InteractionEarned
  <2>9. ClearFlags(w.session) \in Session
    BY <1>2, ClearFlagsOfSession DEF Rows
  <2>10. v \in Rows /\ v.session = ClearFlags(session[b])
    BY <1>2, <2>9 DEF Rows
  <2>11. TypedRows /\ session' = [session EXCEPT ![b] = ClearFlags(session[b])]
    BY <2>1, <2>10, SavedRows DEF Inv, TypedRows
  <2>12. /\ ClearFlags(session[b]) \in Session
         /\ ClearFlags(session[b]).interaction # i
         /\ LeadsBack(interaction, b, ClearFlags(session[b]))
         /\ Earns(earned, b, ClearFlags(session[b]))
    BY ClearedSession, NoneAssumption
  <2>13. provider' \in [Browsers -> Login]
         /\ \A c \in Browsers : LoginEarned(earned, c, provider'[c])
    BY <1>3 DEF Inv, TypeOK, LoginsEarned
  <2> QED
    BY <1>3, <1>4, <2>2, <2>6, <2>8, <2>11, <2>12, <2>13, SettledInteraction
<1>6. CASE ~(Stop(before) = "passed" /\ Answers(b, i, w))
  <2>1. PICK y \in Chain(before) : Save(b, y)
    BY <1>6 DEF InteractionEnd
  <2>2. UNCHANGED <<provider, interaction>> /\ UNCHANGED earned
    BY <1>3, <1>6 DEF InteractionEnd
  <2>3. TypedRows
    BY <1>1, <2>1, SavedChain DEF Inv
  <2>4. PICK t \in Session : session' = [session EXCEPT ![b] = t] /\ Leaves(session[b], t)
    BY <1>1, <2>1, SavedChain DEF Inv
  <2>5. KeepsValues(t, session[b])
    BY <2>4 DEF Leaves
  <2>6. Earns(earned', b, t)
    BY <2>2, <2>4 DEF Leaves, Earns, Inv, SessionsEarned
  <2>7. Route(b)
    BY <2>2, <2>3, <2>4, <2>5, <2>6 DEF Route, Inv, TypeOK
  <2> QED
    BY <2>7, RouteInv
<1> QED
  BY <1>5, <1>6

LEMMA InteractionExpiresInv ==
  ASSUME Inv, NEW i \in Interactions, InteractionExpires(i)
  PROVE  Inv'
<1> DEFINE x == interaction[i]
           y == [x EXCEPT !.stage = "expired", !.login = NoLogin]
<1>1. x \in InteractionRecord /\ InteractionEarned(earned, x) /\ Made(x.prompt)
  BY RecordOfInteraction
<1>2. /\ interaction' = [interaction EXCEPT ![i].stage = "expired", ![i].login = NoLogin]
      /\ UNCHANGED <<session, provider, selected, link, earned>>
  BY DEF InteractionExpires
<1>3. interaction' = [interaction EXCEPT ![i] = y]
  BY <1>2 DEF Inv, TypeOK
<1>4. /\ y.browser = x.browser /\ y.login = NoLogin /\ y.code = x.code /\ y.stage = "expired"
      /\ y.prompt = x.prompt /\ y.request = x.request
  BY <1>1 DEF InteractionRecord
<1>5. y \in InteractionRecord
  BY <1>1, UnusedIsTyped DEF InteractionRecord, Stages
<1> HIDE DEF y
<1>6. InteractionEarned(earned, y) /\ Made(y.prompt)
  BY <1>1, <1>4, NoLoginIsEarned DEF InteractionEarned
<1>7. TypeOK'
  BY <1>2, <1>3, <1>5, <1>6, ChangedInteraction DEF Inv, TypeOK
<1>8. SessionsEarned'
  BY <1>2 DEF Inv, SessionsEarned
<1>9. LoginsEarned' /\ PromptsMade'
  BY <1>2, <1>3, <1>5, <1>6, ChangedInteraction DEF Inv, LoginsEarned
<1>10. ASSUME NEW b \in Browsers PROVE LeadsBack(interaction', b, session[b])
  <2>1. session[b] \in Session /\ LeadsBack(interaction, b, session[b])
    BY DEF Inv, TypeOK, SessionsLeadBack
  <2>2. CASE session[b].interaction # i
    BY <1>3, <1>5, <1>6, <2>1, <2>2, ChangedInteraction
  <2>3. CASE session[b].interaction = i
    <3>1. interaction'[i] = y
      BY <1>3 DEF Inv, TypeOK
    <3> QED
      BY <1>4, <2>1, <2>3, <3>1 DEF LeadsBack
  <2> QED
    BY <2>2, <2>3
<1>11. SessionsLeadBack'
  BY <1>2, <1>10 DEF SessionsLeadBack
<1> QED
  BY <1>7, <1>8, <1>9, <1>11 DEF Inv

\* A session ends.
LEMMA EmptiedSession ==
  ASSUME Inv, NEW b \in Browsers, session' = [session EXCEPT ![b] = EmptySession],
         selected' \in [Users -> Organizations \cup {None}],
         UNCHANGED <<provider, interaction, link, earned>>
  PROVE  Inv'
<1>1. \A c \in Browsers : session'[c] = IF c = b THEN EmptySession ELSE session[c]
  BY DEF Inv, TypeOK
<1>2. TypeOK'
  BY EmptySessionLeadsNowhere DEF Inv, TypeOK
<1>3. SessionsEarned'
  BY <1>1, EmptySessionLeadsNowhere DEF Inv, SessionsEarned
<1>4. LoginsEarned' /\ PromptsMade'
  BY DEF Inv, LoginsEarned, PromptsMade
<1>5. SessionsLeadBack'
  BY <1>1, EmptySessionLeadsNowhere DEF Inv, SessionsLeadBack
<1> QED
  BY <1>2, <1>3, <1>4, <1>5 DEF Inv

LEMMA SessionEndsInv ==
  ASSUME Inv, NEW b \in Browsers, Logout(b) \/ SessionExpires(b) \/ ProviderSessionEnds(b)
  PROVE  Inv'
<1>1. CASE Logout(b)
  <2>1. selected' \in [Users -> Organizations \cup {None}]
    BY <1>1 DEF Logout, Inv, TypeOK
  <2> QED
    BY <1>1, <2>1, EmptiedSession DEF Logout
<1>2. CASE SessionExpires(b)
  BY <1>2, EmptiedSession DEF SessionExpires, Inv, TypeOK
<1>3. CASE ProviderSessionEnds(b)
  <2>1. provider' = [provider EXCEPT ![b] = NoLogin]
        /\ UNCHANGED <<session, interaction, selected, link, earned>>
    BY <1>3 DEF ProviderSessionEnds
  <2>2. TypeOK'
    BY <2>1, UnusedIsTyped DEF Inv, TypeOK
  <2>3. LoginsEarned'
    BY <2>1, NoLoginIsEarned DEF Inv, TypeOK, LoginsEarned
  <2> QED
    BY <2>1, <2>2, <2>3 DEF Inv, SessionsEarned, PromptsMade, SessionsLeadBack
<1> QED
  BY <1>1, <1>2, <1>3

LEMMA NextInv ==
  ASSUME Inv, [Next]_vars
  PROVE  Inv'
<1>1. CASE UNCHANGED vars
  BY <1>1 DEF vars, Inv, TypeOK, SessionsEarned, LoginsEarned, PromptsMade, SessionsLeadBack
<1>2. ASSUME NEW b \in Browsers, SignInRoutes(b) \/ OrganizationRoutes(b)
      PROVE  Inv'
  BY <1>2, SignInRoutesRoute, OrganizationRoute, RouteInv DEF Inv
<1>3. ASSUME NEW b \in Browsers, InteractionRoutes(b)
      PROVE  Inv'
  <2>1. CASE \E i \in Interactions : \/ \E request \in Requests : Authorize(b, i, request)
                                    \/ InteractionStart(b, i)
                                    \/ InteractionEnd(b, i)
                                    \/ Resume(b, i)
    BY <2>1, AuthorizeInv, InteractionStartInv, InteractionEndInv, ResumeInv
  <2>2. CASE \E i \in Interactions \cup {Former} : InteractionError(b, i)
    BY <2>2, InteractionErrorInv
  <2> QED
    BY <1>3, <2>1, <2>2 DEF InteractionRoutes
<1>4. ASSUME NEW b \in Browsers, Logout(b) \/ SessionExpires(b) \/ ProviderSessionEnds(b)
      PROVE  Inv'
  BY <1>4, SessionEndsInv
<1>5. ASSUME NEW i \in Interactions, TokenRequest(i) \/ InteractionExpires(i)
      PROVE  Inv'
  BY <1>5, TokenRequestInv, InteractionExpiresInv
<1> QED
  BY <1>1, <1>2, <1>3, <1>4, <1>5 DEF Next

LEMMA Inductive == Spec => []Inv
<1>1. Init => Inv
  BY InitInv
<1>2. Inv /\ [Next]_vars => Inv'
  BY NextInv
<1> QED
  BY <1>1, <1>2, PTL DEF Spec

-------------------------------------------------------------------------------
(***************************************************************************)
(* Every state of sessions, interactions, links and codes is well typed    *)
(* (controllers/interaction.ts, middlewares/user.ts).                      *)
(***************************************************************************)
THEOREM TypeCorrect == Spec => []TypeOK
<1>1. Inv => TypeOK
  BY DEF Inv
<1> QED
  BY <1>1, Inductive, PTL

(***************************************************************************)
(* Whatever users share a browser, and however the session of the provider *)
(* and the express session go separate ways, a code is for an account that *)
(* signed in there, at a level it showed there (controllers/interaction.ts *)
(* and the session of oidc-provider).                                      *)
(***************************************************************************)
THEOREM LevelsAreEarned == Spec => []LevelIsEarned
<1>1. Inv => LevelIsEarned
  BY DEF Inv, LoginsEarned, InteractionEarned, CodeEarned, LoginEarned, LevelIsEarned, Issued
<1> QED
  BY <1>1, Inductive, PTL

(***************************************************************************)
(* For any requests, and either value of the feature flag, the start of an *)
(* interaction asks for two factors exactly when its end needs them        *)
(* (services/acr-checks.ts).                                               *)
(***************************************************************************)
THEOREM TwoFactorsNecessary == Spec => []TwoFactorsRequestedIsNecessary
<1>1. TwoFactorsRequestedIsNecessary
  BY TwoFactorsNecessaryForPrompt, FlagAssumption DEF TwoFactorsRequestedIsNecessary
<1> QED
  BY <1>1, PTL

(***************************************************************************)
(* For any requests, and either value of the feature flag, a user is asked *)
(* to sign in for a level that some session obtains, unless the client     *)
(* wants none but the special level that the flag takes away               *)
(* (services/acr-checks.ts).                                               *)
(***************************************************************************)
THEOREM RequestsCanBeMet == Spec => []RequestsThatCanBeMet
<1>1. Inv => RequestsThatCanBeMet
  BY PromptsThatCanBeMet, FlagAssumption DEF Inv, PromptsMade, RequestsThatCanBeMet
<1> QED
  BY <1>1, Inductive, PTL

-------------------------------------------------------------------------------
(* The consistency of identities.                                          *)

ConsistencyCheckedOf(login) ==
  \E o \in Organizations :
    /\ selected'[login.account] = o
    /\ LET l == link'[login.account][o] IN l.member /\ l.checked /\ ~l.pending

Consistent(i) ==
  LET login == interaction[i].login' IN
  (login # interaction[i].login /\ login.acr \in {"IAL2_AAL1", "IAL2_AAL2"}) =>
    ConsistencyCheckedOf(login)

\* An answer that is kept, or dropped, is consistent.
LEMMA KeptLoginIsConsistent ==
  ASSUME NEW i \in Interactions,
         interaction[i].login' = interaction[i].login \/ interaction[i].login' = NoLogin
  PROVE  Consistent(i)
BY DEF Consistent, NoLogin

\* The answer of a session that passed the chain is.
LEMMA AnswerIsConsistent ==
  ASSUME Inv, NEW b \in Browsers, NEW before \in Rows, before.session = session[b],
         Stop(before) = "passed", LinkIsSet(WithSelection(before)),
         Save(b, [WithSelection(before) EXCEPT !.session = ClearFlags(@)]), NEW prompt,
         Answer(WithSelection(before), prompt).acr \in {"IAL2_AAL1", "IAL2_AAL2"}
  PROVE  ConsistencyCheckedOf(Answer(WithSelection(before), prompt))
<1> DEFINE w == WithSelection(before)
           checked == w.session.oneOrg /\ w.links[w.selected].checked
           u == session[b].user
           o == w.selected
<1>1. w \in Rows /\ w.session = session[b] /\ w.links = before.links
  BY SelectionOfRows
<1>2. Meets(before, 1) /\ Meets(before, 4) /\ Meets(before, 5)
  BY PassedMeetsAll
<1>3. u \in Users /\ session[b].two \in BOOLEAN /\ session[b].dirigeant \in BOOLEAN
  BY <1>2 DEF Meets, Inv, TypeOK, Session
<1>4. checked
  <2>1. checked \in BOOLEAN
    OBVIOUS
  <2>2. Answer(w, prompt).acr
          = currentAcr(session[b].two, checked, session[b].dirigeant, AlwaysEidas1, prompt)
    BY <1>1 DEF Answer
  <2> HIDE DEF checked, w
  <2> QED
    BY <1>3, <2>1, <2>2, LevelNeedsTwo, FlagAssumption DEF w
<1>5. w.links[o].member
  BY <1>4 DEF LinkIsSet
<1>6. o # None
  BY <1>1, <1>2, <1>4 DEF Meets
<1>7. o \in Organizations
  BY <1>1, <1>6 DEF Rows
<1>8. o \in Concerned(w)
  BY <1>4, <1>5, <1>7 DEF Concerned, Memberships
<1>9. ~w.links[o].pending
  BY <1>1, <1>2, <1>8 DEF Meets
<1>10. selected'[u] = o /\ link'[u] = w.links
  <2> DEFINE v == [w EXCEPT !.session = ClearFlags(w.session)]
  <2>1. v.session = ClearFlags(w.session) /\ v.selected = w.selected /\ v.links = w.links
    BY <1>1 DEF Rows
  <2>2. v.session.user = u
    BY <1>1, <2>1, ClearFlagsOfSession DEF Rows
  <2>3. Save(b, v)
    OBVIOUS
  <2> HIDE DEF v, w
  <2> QED
    BY <1>3, <2>1, <2>2, <2>3 DEF Save
<1>11. Answer(w, prompt).account = u
  BY <1>1 DEF Answer
<1> HIDE DEF u, o, w
<1> QED
  BY <1>4, <1>5, <1>7, <1>9, <1>10, <1>11 DEF ConsistencyCheckedOf, o, w

LEMMA EndIsConsistent ==
  ASSUME Inv, NEW b \in Browsers, NEW i \in Interactions, InteractionEnd(b, i),
         NEW j \in Interactions
  PROVE  Consistent(j)
<1> DEFINE x == interaction[i]
           before == RowsOf(session[b])
           w == WithSelection(before)
<1>1. before \in Rows /\ before.session = session[b]
  BY SessionOfBrowser DEF Inv
<1>2. CASE Stop(before) = "passed" /\ Answers(b, i, w)
  <2>1. /\ Save(b, [w EXCEPT !.session = ClearFlags(@)])
        /\ interaction' = [interaction EXCEPT
             ![i].stage = "answered", ![i].login = Answer(w, x.prompt),
             ![i].select = x.prompt.name = "select_organization",
             ![i].update = x.prompt.name = "update_userinfo"]
    BY <1>2 DEF InteractionEnd
  <2>2. CASE j = i
    <3>1. interaction[j].login' = Answer(w, x.prompt)
      BY <2>1, <2>2, RecordOfInteraction DEF Inv, TypeOK, InteractionRecord
    <3>2. LinkIsSet(w)
      BY <1>2 DEF Answers
    <3> QED
      BY <1>1, <1>2, <2>1, <3>1, <3>2, AnswerIsConsistent DEF Consistent
  <2>3. CASE j # i
    <3>1. interaction[j].login' = interaction[j].login
      BY <2>1, <2>3 DEF Inv, TypeOK
    <3> QED
      BY <3>1, KeptLoginIsConsistent
  <2> QED
    BY <2>2, <2>3
<1>3. CASE ~(Stop(before) = "passed" /\ Answers(b, i, w))
  <2>1. interaction' = interaction
    BY <1>3 DEF InteractionEnd
  <2> QED
    BY <2>1, KeptLoginIsConsistent
<1> QED
  BY <1>2, <1>3

LEMMA NextIsConsistent ==
  ASSUME Inv, [Next]_vars, NEW j \in Interactions
  PROVE  Consistent(j)
<1> USE KeptLoginIsConsistent
<1>1. CASE UNCHANGED interaction
  BY <1>1
<1>2. ASSUME NEW b \in Browsers, SignInRoutes(b) \/ OrganizationRoutes(b)
      PROVE  Consistent(j)
  <2>1. Route(b)
    BY <1>2, SignInRoutesRoute, OrganizationRoute DEF Inv
  <2> QED
    BY <1>1, <2>1 DEF Route
<1>3. ASSUME NEW b \in Browsers, NEW i \in Interactions, NEW request \in Requests,
             Authorize(b, i, request)
      PROVE  Consistent(j)
  <2> DEFINE x == [Unused EXCEPT !.browser = b, !.request = request]
             y == Decide(x, provider[b])
  <2>1. x.request \in Request /\ x.browser \in Browsers \cup {None}
    BY RequestsAssumption DEF Unused
  <2>2. provider[b] \in Login
    BY DEF Inv, TypeOK
  <2> HIDE DEF x
  <2>3. y.login = NoLogin
    BY <2>1, <2>2, DecisionIsTyped
  <2>4. interaction' = [interaction EXCEPT ![i] = y]
    BY <1>3 DEF Authorize, x
  <2> HIDE DEF y
  <2> QED
    BY <2>3, <2>4 DEF Inv, TypeOK
<1>4. ASSUME NEW b \in Browsers, NEW i \in Interactions, Resume(b, i)
      PROVE  Consistent(j)
  <2> DEFINE y == Decide(interaction[i], interaction[i].login)
  <2>1. y.login = NoLogin
    BY RecordOfInteraction, DecisionIsTyped
  <2>2. interaction' = [interaction EXCEPT ![i] = y]
    BY <1>4 DEF Resume
  <2> HIDE DEF y
  <2> QED
    BY <2>1, <2>2 DEF Inv, TypeOK
<1>5. ASSUME NEW b \in Browsers, NEW i \in Interactions, InteractionStart(b, i)
      PROVE  Consistent(j)
  BY <1>1, <1>5 DEF InteractionStart
<1>6. ASSUME NEW b \in Browsers, NEW i \in Interactions, InteractionEnd(b, i)
      PROVE  Consistent(j)
  BY <1>6, EndIsConsistent
<1>7. ASSUME NEW b \in Browsers, NEW i \in Interactions \cup {Former}, InteractionError(b, i)
      PROVE  Consistent(j)
  BY <1>7 DEF InteractionError, Inv, TypeOK, Unused
<1>8. ASSUME NEW i \in Interactions, TokenRequest(i)
      PROVE  Consistent(j)
  <2>1. interaction[j].login' = interaction[j].login
    BY <1>8, RecordOfInteraction DEF TokenRequest, Inv, TypeOK, InteractionRecord
  <2> QED
    BY <2>1
<1>9. ASSUME NEW i \in Interactions, InteractionExpires(i)
      PROVE  Consistent(j)
  <2>1. interaction[j].login' = interaction[j].login \/ interaction[j].login' = NoLogin
    BY <1>9, RecordOfInteraction DEF InteractionExpires, Inv, TypeOK, InteractionRecord
  <2> QED
    BY <2>1
<1>10. ASSUME NEW b \in Browsers, Logout(b) \/ SessionExpires(b) \/ ProviderSessionEnds(b)
      PROVE  Consistent(j)
  BY <1>1, <1>10 DEF Logout, SessionExpires, ProviderSessionEnds
<1>11. CASE UNCHANGED vars
  BY <1>1, <1>11 DEF vars
<1> QED
  BY <1>2, <1>3, <1>4, <1>5, <1>6, <1>7, <1>8, <1>9, <1>10, <1>11
     DEF Next, InteractionRoutes

(***************************************************************************)
(* For any number of users, organizations and open requests, an            *)
(* interaction is answered with a consistency-checked level only for a     *)
(* user whose selected organization was joined by a check that is done     *)
(* (isIdentityConsistencyChecked and the chain of middlewares/user.ts).    *)
(***************************************************************************)
THEOREM ConsistencyChecked == Spec => ConsistencyIsChecked
<1>1. Inv /\ [Next]_vars => [\A i \in Interactions : Consistent(i)]_vars
  BY NextIsConsistent
<1>2. Spec => [][\A i \in Interactions : Consistent(i)]_vars
  BY <1>1, Inductive, PTL DEF Spec
<1>3. (\A i \in Interactions : Consistent(i)) <=>
        \A i \in Interactions :
          LET login == interaction[i].login' IN
          (login # interaction[i].login /\ login.acr \in {"IAL2_AAL1", "IAL2_AAL2"}) =>
            \E o \in Organizations :
              /\ selected'[login.account] = o
              /\ LET l == link'[login.account][o] IN l.member /\ l.checked /\ ~l.pending
  BY DEF Consistent, ConsistencyCheckedOf
<1> QED
  BY <1>2, <1>3, PTL DEF ConsistencyIsChecked

-------------------------------------------------------------------------------
(* Answers given in turn.                                                  *)

\* What interaction i is answered with is its own.
OwnAnswer(i) ==
  LET x == interaction[i]
      login == interaction[i].login'
  IN  /\ login.acr = CertificationDirigeant
           <=> certificationDirigeantRequested(x.prompt) /\ ~AlwaysEidas1
      /\ login.acr \in {"IAL2_AAL1", "IAL2_AAL2"} => x.request.oneOrg
      /\ x.request.oneOrg =>
           \E o \in Organizations :
             selected'[login.account] = o /\ link'[login.account][o].member

\* With the value of its own prompt, and without the flag, an interaction has
\* the certification level exactly if it asked for it.
LEMMA CertificationIsRequested ==
  ASSUME NEW two \in BOOLEAN, NEW checked \in BOOLEAN, NEW always \in BOOLEAN, NEW prompt
  PROVE  currentAcr(two, checked, certificationDirigeantRequested(prompt), always, prompt)
             = CertificationDirigeant
           <=> certificationDirigeantRequested(prompt) /\ ~always
<1>1. certificationDirigeantRequested(prompt) => ~isThereAnyRequestedAcr(prompt)
  BY DEF certificationDirigeantRequested, isThereAnyRequestedAcr
<1> QED
  BY <1>1 DEF currentAcr, CertificationDirigeant

\* An answer that is saved with what the session leads back to.
LEMMA AnswerIsItsOwn ==
  ASSUME Inv, NEW b \in Browsers, NEW i \in Interactions, interaction[i].browser = b,
         session[b].interaction = i, NEW before \in Rows, before.session = session[b],
         Stop(before) = "passed", LinkIsSet(WithSelection(before)),
         Save(b, [WithSelection(before) EXCEPT !.session = ClearFlags(@)]),
         interaction[i].login' = Answer(WithSelection(before), interaction[i].prompt)
  PROVE  OwnAnswer(i)
<1> DEFINE x == interaction[i]
           w == WithSelection(before)
           checked == w.session.oneOrg /\ w.links[w.selected].checked
           u == session[b].user
           l == Answer(w, x.prompt)
<1>1. w \in Rows /\ w.session = session[b]
  BY SelectionOfRows
<1>2. Meets(before, 1) /\ Meets(before, 4)
  BY PassedMeetsAll
<1>3. /\ session[b] \in Session /\ u \in Users
      /\ session[b].two \in BOOLEAN /\ session[b].dirigeant \in BOOLEAN
  BY <1>2 DEF Meets, Inv, TypeOK, Session
<1>4. /\ session[b].oneOrg = x.request.oneOrg
      /\ session[b].dirigeant = certificationDirigeantRequested(x.prompt)
  BY DEF Inv, SessionsLeadBack, LeadsBack
<1>5. l.account = u /\ l.acr = currentAcr(session[b].two, checked, session[b].dirigeant,
                                          AlwaysEidas1, x.prompt)
  BY <1>1 DEF Answer
<1>6. checked \in BOOLEAN /\ (checked => x.request.oneOrg)
  BY <1>1, <1>4
<1>7. x.request.oneOrg => w.selected \in Organizations /\ w.links[w.selected].member
  <2> SUFFICES ASSUME x.request.oneOrg
               PROVE  w.selected \in Organizations /\ w.links[w.selected].member
    OBVIOUS
  <2>1. w.session.oneOrg /\ w.selected # None
    BY <1>1, <1>2, <1>4 DEF Meets
  <2> QED
    BY <1>1, <2>1 DEF LinkIsSet, Rows
<1>8. selected'[u] = w.selected /\ link'[u] = w.links
  <2> DEFINE v == [w EXCEPT !.session = ClearFlags(w.session)]
  <2>1. v.session = ClearFlags(w.session) /\ v.selected = w.selected /\ v.links = w.links
    BY <1>1 DEF Rows
  <2>2. v.session.user = u
    BY <1>1, <2>1, ClearFlagsOfSession DEF Rows
  <2>3. Save(b, v)
    OBVIOUS
  <2> HIDE DEF v, w
  <2> QED
    BY <1>3, <2>1, <2>2, <2>3 DEF Save
<1>9. interaction[i].login' = l
  OBVIOUS
<1> HIDE DEF w, checked, u, l
<1>10. l.acr = CertificationDirigeant
         <=> certificationDirigeantRequested(x.prompt) /\ ~AlwaysEidas1
  BY <1>3, <1>4, <1>5, <1>6, CertificationIsRequested, FlagAssumption
<1>11. l.acr \in {"IAL2_AAL1", "IAL2_AAL2"} => x.request.oneOrg
  BY <1>3, <1>5, <1>6, LevelNeedsTwo, FlagAssumption
<1>12. x.request.oneOrg => \E o \in Organizations :
         selected'[l.account] = o /\ link'[l.account][o].member
  BY <1>5, <1>7, <1>8
<1> QED
  BY <1>9, <1>10, <1>11, <1>12 DEF OwnAnswer

\* Only the end of an interaction answers it.
LEMMA OnlyEndsAnswer ==
  ASSUME Inv, [Next]_vars, NEW i \in Interactions,
         interaction[i]' # interaction[i], interaction[i].stage' = "answered"
  PROVE  \E b \in Browsers : InteractionEnd(b, i)
<1>1. interaction' # interaction
  OBVIOUS
<1>2. ASSUME NEW y \in InteractionRecord, NEW j \in Interactions,
             interaction' = [interaction EXCEPT ![j] = y], y.stage # "answered"
      PROVE  FALSE
  BY <1>2 DEF Inv, TypeOK
<1>3. ASSUME NEW b \in Browsers, SignInRoutes(b) \/ OrganizationRoutes(b)
      PROVE  FALSE
  BY <1>1, <1>3, SignInRoutesRoute, OrganizationRoute DEF Inv, Route
<1>4. ASSUME NEW b \in Browsers, NEW j \in Interactions, NEW request \in Requests,
             Authorize(b, j, request)
      PROVE  FALSE
  <2> DEFINE x == [Unused EXCEPT !.browser = b, !.request = request]
             y == Decide(x, provider[b])
  <2>1. x.request \in Request /\ x.browser \in Browsers \cup {None}
    BY RequestsAssumption DEF Unused
  <2>2. provider[b] \in Login
    BY DEF Inv, TypeOK
  <2>3. interaction' = [interaction EXCEPT ![j] = y]
    BY <1>4 DEF Authorize
  <2> HIDE DEF x
  <2>4. y \in InteractionRecord /\ y.stage # "answered"
    BY <2>1, <2>2, DecisionIsTyped
  <2> HIDE DEF y
  <2> QED
    BY <1>2, <2>3, <2>4
<1>5. ASSUME NEW b \in Browsers, NEW j \in Interactions, Resume(b, j)
      PROVE  FALSE
  <2> DEFINE y == Decide(interaction[j], interaction[j].login)
  <2>1. y \in InteractionRecord /\ y.stage # "answered"
    BY RecordOfInteraction, DecisionIsTyped
  <2>2. interaction' = [interaction EXCEPT ![j] = y]
    BY <1>5 DEF Resume
  <2> HIDE DEF y
  <2> QED
    BY <1>2, <2>1, <2>2
<1>6. ASSUME NEW b \in Browsers, NEW j \in Interactions, InteractionStart(b, j)
      PROVE  FALSE
  BY <1>1, <1>6 DEF InteractionStart
<1>7. ASSUME NEW b \in Browsers, NEW j \in Interactions, InteractionEnd(b, j)
      PROVE  j = i
  BY <1>7 DEF InteractionEnd, Inv, TypeOK
<1>8. ASSUME NEW b \in Browsers, NEW j \in Interactions \cup {Former}, InteractionError(b, j)
      PROVE  FALSE
  <2> DEFINE y == [Unused EXCEPT !.stage = "denied"]
  <2>1. Found(b, j) /\ interaction' = [interaction EXCEPT ![j] = y]
    BY <1>1, <1>8 DEF InteractionError
  <2>2. j \in Interactions
    BY <2>1 DEF Found, Pending
  <2>3. y \in InteractionRecord /\ y.stage # "answered"
    BY UnusedIsTyped DEF InteractionRecord, Unused, Stages
  <2> HIDE DEF y
  <2> QED
    BY <1>2, <2>1, <2>2, <2>3
<1>9. ASSUME NEW j \in Interactions, TokenRequest(j) \/ InteractionExpires(j)
      PROVE  FALSE
  <2>1. interaction'[j].stage # "answered" /\ (i # j => interaction'[i] = interaction[i])
    BY <1>9, RecordOfInteraction DEF TokenRequest, InteractionExpires, Inv, TypeOK, InteractionRecord
  <2> QED
    BY <2>1
<1>10. ASSUME NEW b \in Browsers, Logout(b) \/ SessionExpires(b) \/ ProviderSessionEnds(b)
       PROVE  FALSE
  BY <1>1, <1>10 DEF Logout, SessionExpires, ProviderSessionEnds
<1>11. ~(UNCHANGED vars)
  BY <1>1 DEF vars
<1> QED
  BY <1>3, <1>4, <1>5, <1>6, <1>7, <1>8, <1>9, <1>10, <1>11 DEF Next, InteractionRoutes

LEMMA NextAnswersItsOwn ==
  ASSUME Inv, [Next]_vars, NEW i \in Interactions, AnsweredInTurn(i)
  PROVE  OwnAnswer(i)
<1>1. PICK b \in Browsers : InteractionEnd(b, i)
  BY OnlyEndsAnswer DEF AnsweredInTurn
<1> DEFINE x == interaction[i]
           before == RowsOf(session[b])
           w == WithSelection(before)
<1>2. before \in Rows /\ before.session = session[b]
  BY SessionOfBrowser DEF Inv
<1>3. x.browser = b /\ session[b].interaction = i
  BY <1>1 DEF InteractionEnd, Pending, AnsweredInTurn
<1>4. interaction' # interaction
  BY DEF AnsweredInTurn
<1>5. /\ Stop(before) = "passed" /\ Answers(b, i, w)
      /\ Save(b, [w EXCEPT !.session = ClearFlags(@)])
      /\ interaction' = [interaction EXCEPT
           ![i].stage = "answered", ![i].login = Answer(w, x.prompt),
           ![i].select = x.prompt.name = "select_organization",
           ![i].update = x.prompt.name = "update_userinfo"]
  BY <1>1, <1>4 DEF InteractionEnd
<1>6. interaction[i].login' = Answer(w, x.prompt)
  BY <1>5, RecordOfInteraction DEF Inv, TypeOK, InteractionRecord
<1>7. LinkIsSet(w)
  BY <1>5 DEF Answers
<1> QED
  BY <1>2, <1>3, <1>5, <1>6, <1>7, AnswerIsItsOwn

(***************************************************************************)
(* For any number of browsers, users and open requests: whatever else a    *)
(* browser started, answered or gave up, an interaction that its session   *)
(* leads back to is answered by what its own client asked for, in the      *)
(* level as in the organization (controllers/interaction.ts, and           *)
(* managers/session/authenticated.ts that carries the values over a        *)
(* sign-in).                                                               *)
(***************************************************************************)
THEOREM AnswersTheirOwn == Spec => AnswersAreTheirOwn
<1>1. Inv /\ [Next]_vars => [\A i \in Interactions : AnsweredInTurn(i) => OwnAnswer(i)]_vars
  BY NextAnswersItsOwn
<1>2. Spec => [][\A i \in Interactions : AnsweredInTurn(i) => OwnAnswer(i)]_vars
  BY <1>1, Inductive, PTL DEF Spec
<1>3. (\A i \in Interactions : AnsweredInTurn(i) => OwnAnswer(i)) <=>
        \A i \in Interactions : AnsweredInTurn(i) =>
          LET x == interaction[i]
              login == interaction[i].login'
          IN  /\ login.acr = CertificationDirigeant
                   <=> certificationDirigeantRequested(x.prompt) /\ ~AlwaysEidas1
              /\ login.acr \in {"IAL2_AAL1", "IAL2_AAL2"} => x.request.oneOrg
              /\ x.request.oneOrg =>
                   \E o \in Organizations :
                     selected'[login.account] = o /\ link'[login.account][o].member
  BY DEF OwnAnswer
<1> QED
  BY <1>2, <1>3, PTL DEF AnswersAreTheirOwn

-------------------------------------------------------------------------------
(* What a request makes of the links.                                      *)

\* Two links that differ by the greeting only.
SameStanding(l, m) == m.member = l.member /\ m.checked = l.checked /\ m.pending = l.pending

\* A user comes in, leaves or has a link confirmed.
Moves(l, m) ==
  \/ ~l.member /\ \E joined \in JoinedLinks : SameStanding(joined, m)
  \/ SameStanding(NoLink, m)
  \/ SameStanding([l EXCEPT !.pending = FALSE], m)

LinksStay == \A u \in Users, o \in Organizations : SameStanding(link[u][o], link'[u][o])

LinkMoves(u, o) ==
  /\ Moves(link[u][o], link'[u][o])
  /\ \A v \in Users, p \in Organizations :
       v # u \/ p # o => SameStanding(link[v][p], link'[v][p])

LinksMove ==
  /\ link' \in [Users -> [Organizations -> Link]]
  /\ LinksStay \/ \E u \in Users, o \in Organizations : LinkMoves(u, o)

LEMMA ChainKeepsStandings ==
  ASSUME NEW w \in Rows, NEW x \in Chain(w)
  PROVE  \A o \in Organizations : SameStanding(w.links[o], x.links[o])
<1>1. CASE Stop(w) = "connection-and-account"
  BY <1>1 DEF Chain, SameStanding, Rows
<1>2. CASE Stop(w) = "welcome"
  <2> DEFINE v == WithSelection(w)
  <2>1. PICK o \in Concerned(v) : x = Greet(v, o)
    BY <1>2 DEF Chain
  <2>2. v \in Rows /\ v.links = w.links
    BY SelectionOfRows
  <2> HIDE DEF v
  <2>3. o \in Organizations
    BY DEF Concerned, Memberships
  <2>4. x.links = [v.links EXCEPT ![o] = [v.links[o] EXCEPT !.greeted = TRUE]]
    BY <2>1, <2>2 DEF Greet, Rows
  <2> QED
    BY <2>2, <2>3, <2>4 DEF SameStanding, Rows, Link
<1>3. CASE Stop(w) \notin {"connection-and-account", "welcome"}
  <2>1. x = IF Passes(w, 4) THEN WithSelection(w) ELSE w
    BY <1>3 DEF Chain
  <2> QED
    BY <2>1, SelectionOfRows DEF SameStanding
<1> QED
  BY <1>1, <1>2, <1>3

\* The rows of a session are the links of its user.
LEMMA LinksOfRows ==
  ASSUME TypeOK, NEW s \in Session, s.user \in Users
  PROVE  RowsOf(s).links = link[s.user]
<1>1. s.user # None
  BY NoneAssumption
<1> QED
  BY <1>1 DEF RowsOf

\* Rows are saved whose links stand as those of the user of the session.
LEMMA SavedStandings ==
  ASSUME TypeOK, NEW b \in Browsers, NEW w \in Rows, Save(b, w),
         w.session.user \in Users =>
           \A o \in Organizations : SameStanding(link[w.session.user][o], w.links[o])
  PROVE  LinksMove
<1>1. link' \in [Users -> [Organizations -> Link]]
  BY SavedRows
<1>2. \A u \in Users : link'[u] = IF u = w.session.user THEN w.links ELSE link[u]
  BY DEF Save
<1>3. LinksStay
  BY <1>2 DEF LinksStay, SameStanding
<1> QED
  BY <1>1, <1>3 DEF LinksMove

\* Rows are saved where one link of the user has moved.
LEMMA SavedMove ==
  ASSUME TypeOK, NEW b \in Browsers, NEW w \in Rows, Save(b, w), NEW o \in Organizations,
         w.session.user \in Users =>
           /\ Moves(link[w.session.user][o], w.links[o])
           /\ \A p \in Organizations \ {o} : SameStanding(link[w.session.user][p], w.links[p])
  PROVE  LinksMove
<1>1. link' \in [Users -> [Organizations -> Link]]
  BY SavedRows
<1>2. \A u \in Users : link'[u] = IF u = w.session.user THEN w.links ELSE link[u]
  BY DEF Save
<1>3. CASE w.session.user \in Users
  <2>1. LinkMoves(w.session.user, o)
    BY <1>2, <1>3 DEF LinkMoves, SameStanding
  <2> QED
    BY <1>1, <1>3, <2>1 DEF LinksMove
<1>4. CASE w.session.user \notin Users
  <2>1. LinksStay
    BY <1>2, <1>4 DEF LinksStay, SameStanding
  <2> QED
    BY <1>1, <2>1 DEF LinksMove
<1> QED
  BY <1>3, <1>4

LEMMA IssuedRows ==
  ASSUME NEW b \in Browsers, NEW w \in Rows, IssueSessionOrRedirect(b, w)
  PROVE  \E x \in Rows : /\ Save(b, x)
                         /\ x.session.user = w.session.user
                         /\ \A o \in Organizations : SameStanding(w.links[o], x.links[o])
<1>1. PICK x \in Chain(w) : Save(b, x)
  BY DEF IssueSessionOrRedirect
<1>2. x \in Rows /\ x.session.user = w.session.user
  BY ChainOfRows, ClearFlagsOfSession DEF Rows
<1> QED
  BY <1>1, <1>2, ChainKeepsStandings

\* A page that leaves the links to the chain.
LEMMA IssuedStandings ==
  ASSUME TypeOK, NEW b \in Browsers, NEW w \in Rows, IssueSessionOrRedirect(b, w),
         w.session.user \in Users => w.links = link[w.session.user]
  PROVE  LinksMove
<1>1. PICK x \in Rows : /\ Save(b, x)
                        /\ x.session.user = w.session.user
                        /\ \A o \in Organizations : SameStanding(w.links[o], x.links[o])
  BY IssuedRows
<1> QED
  BY <1>1, SavedStandings

\* A page that moves a link, before the chain.
LEMMA IssuedMove ==
  ASSUME TypeOK, NEW b \in Browsers, NEW w \in Rows, IssueSessionOrRedirect(b, w),
         NEW o \in Organizations, NEW l \in Link,
         w.session.user \in Users =>
           /\ w.links = [link[w.session.user] EXCEPT ![o] = l]
           /\ Moves(link[w.session.user][o], l)
  PROVE  LinksMove
<1>1. PICK x \in Rows : /\ Save(b, x)
                        /\ x.session.user = w.session.user
                        /\ \A p \in Organizations : SameStanding(w.links[p], x.links[p])
  BY IssuedRows
<1>2. ASSUME w.session.user \in Users
      PROVE  /\ Moves(link[w.session.user][o], x.links[o])
             /\ \A p \in Organizations \ {o} : SameStanding(link[w.session.user][p], x.links[p])
  <2>1. link[w.session.user] \in [Organizations -> Link]
    BY <1>2 DEF TypeOK
  <2>2. w.links[o] = l /\ \A p \in Organizations \ {o} : w.links[p] = link[w.session.user][p]
    BY <1>2, <2>1
  <2>3. SameStanding(l, x.links[o]) /\ Moves(link[w.session.user][o], l)
    BY <1>1, <1>2, <2>2
  <2>4. Moves(link[w.session.user][o], x.links[o])
    BY <2>3 DEF Moves, SameStanding
  <2> QED
    BY <1>1, <2>2, <2>4
<1> QED
  BY <1>1, <1>2, SavedMove

LEMMA LinksStayAsTheyAre ==
  ASSUME TypeOK, link' = link
  PROVE  LinksMove
BY DEF TypeOK, LinksMove, LinksStay, SameStanding

LEMMA SignInMoves ==
  ASSUME TypeOK, NEW b \in Browsers, SignInRoutes(b)
  PROVE  LinksMove
<1>1. ASSUME NEW u \in Users, NEW two \in BOOLEAN, SignIn(b, u, two)
      PROVE  LinksMove
  <2> DEFINE s == NewSession(session[b], u, two)
             w == SignedIn(b, u, two)
  <2>1. w \in Rows /\ w.session.user = u /\ IssueSessionOrRedirect(b, w)
    BY <1>1, SignedInRows DEF SignIn
  <2>2. s \in Session /\ s.user = u
    BY SessionOfBrowser DEF NewSession, Session
  <2>3. RowsOf(s) \in Rows /\ RowsOf(s).links = link[u]
    BY <2>2, LinksOfRows, RowsOfSession
  <2>4. w = [RowsOf(s) EXCEPT !.selected = None]
    BY DEF SignedIn
  <2> HIDE DEF s, w
  <2>5. w.links = link[u]
    BY <2>3, <2>4 DEF Rows
  <2> QED
    BY <2>1, <2>5, IssuedStandings
<1>2. CASE SecondFactor(b)
  <2> DEFINE s == [session[b] EXCEPT !.two = TRUE]
             w == WithTwoFactors(b)
  <2>1. w \in Rows /\ w.session.user = session[b].user /\ IssueSessionOrRedirect(b, w)
    BY <1>2, SecondFactorRows DEF SecondFactor
  <2>2. s \in Session /\ s.user = session[b].user /\ w = RowsOf(s)
    BY SessionOfBrowser DEF Session, WithTwoFactors
  <2> HIDE DEF s, w
  <2> QED
    BY <2>1, <2>2, LinksOfRows, IssuedStandings
<1>3. CASE VisitPage(b)
  <2>1. IssueSessionOrRedirect(b, RowsOf(session[b]))
    BY <1>3 DEF VisitPage
  <2> QED
    BY <2>1, SessionOfBrowser, LinksOfRows, IssuedStandings
<1> QED
  BY <1>1, <1>2, <1>3 DEF SignInRoutes

LEMMA OrganizationMoves ==
  ASSUME TypeOK, NEW b \in Browsers, OrganizationRoutes(b)
  PROVE  LinksMove
<1> DEFINE w == RowsOf(session[b])
<1>1. w \in Rows /\ w.session = session[b]
  BY SessionOfBrowser
<1>2. w.session.user \in Users => w.links = link[w.session.user]
  BY <1>1, SessionOfBrowser, LinksOfRows
<1>3. ASSUME NEW o \in Organizations, NEW joined \in JoinedLinks,
             PostJoinOrganization(b, o, joined)
      PROVE  LinksMove
  <2>1. /\ IssueSessionOrRedirect(b, Joined(b, o, joined)) /\ ~w.links[o].member
        /\ Joined(b, o, joined) \in Rows /\ Joined(b, o, joined).session = session[b]
    BY <1>3, RowsOfOrganization DEF PostJoinOrganization
  <2>2. Joined(b, o, joined).links = [w.links EXCEPT ![o] = joined] /\ joined \in Link
    BY <1>1, JoinedLinksAssumption DEF Joined, Rows, NewLink
  <2>3. Moves(w.links[o], joined)
    BY <2>1 DEF Moves, SameStanding
  <2> DEFINE v == Joined(b, o, joined)
  <2>4. v \in Rows /\ IssueSessionOrRedirect(b, v) /\ joined \in Link
    BY <2>1, <2>2
  <2> HIDE DEF w
  <2>5. v.session.user \in Users =>
          /\ v.links = [link[v.session.user] EXCEPT ![o] = joined]
          /\ Moves(link[v.session.user][o], joined)
    BY <1>1, <1>2, <2>1, <2>2, <2>3
  <2> HIDE DEF v
  <2> QED
    BY <2>4, <2>5, IssuedMove
<1>4. ASSUME NEW o \in Organizations, PostSelectOrganization(b, o)
      PROVE  LinksMove
  <2>1. /\ IssueSessionOrRedirect(b, Selected(b, o))
        /\ Selected(b, o) \in Rows /\ Selected(b, o).session = session[b]
    BY <1>4, RowsOfOrganization DEF PostSelectOrganization
  <2>2. Selected(b, o).links = w.links
    BY <1>1 DEF Selected, Rows
  <2> HIDE DEF w
  <2> QED
    BY <1>1, <1>2, <2>1, <2>2, IssuedStandings
<1>5. ASSUME NEW o \in Organizations, PostOfficialContactEmailVerification(b, o)
      PROVE  LinksMove
  <2> DEFINE l == [w.links[o] EXCEPT !.pending = FALSE]
  <2>1. /\ IssueSessionOrRedirect(b, Confirmed(b, o))
        /\ Confirmed(b, o) \in Rows /\ Confirmed(b, o).session = session[b]
    BY <1>5, RowsOfOrganization DEF PostOfficialContactEmailVerification
  <2>2. l \in Link /\ Confirmed(b, o).links = [w.links EXCEPT ![o] = l]
    BY <1>1 DEF Confirmed, Rows, Link
  <2>3. Moves(w.links[o], l)
    BY DEF Moves, SameStanding
  <2> HIDE DEF w, l
  <2> QED
    BY <1>1, <1>2, <2>1, <2>2, <2>3, IssuedMove
<1>6. CASE GetOfficialContactEmailVerification(b)
  <2>1. Save(b, WithSelection(w)) /\ WithSelection(w) \in Rows
        /\ WithSelection(w).session = w.session /\ WithSelection(w).links = w.links
    BY <1>1, <1>6, SelectionOfRows DEF GetOfficialContactEmailVerification
  <2> HIDE DEF w
  <2> QED
    BY <1>2, <2>1, SavedStandings DEF SameStanding
<1>7. ASSUME NEW o \in Organizations, PostQuitOrganization(b, o)
      PROVE  LinksMove
  <2> DEFINE v == [w EXCEPT !.links[o] = NoLink]
  <2>1. Save(b, v)
    BY <1>7 DEF PostQuitOrganization
  <2>2. NoLink \in Link
    BY DEF NoLink, Link
  <2>3. v \in Rows /\ v.session = w.session /\ v.links = [w.links EXCEPT ![o] = NoLink]
    BY <1>1, <2>2 DEF Rows
  <2> HIDE DEF v, w
  <2>4. w.links \in [Organizations -> Link] /\ Moves(w.links[o], NoLink)
    BY <1>1 DEF Rows, Moves, SameStanding
  <2>5. v.links[o] = NoLink /\ \A p \in Organizations \ {o} : SameStanding(w.links[p], v.links[p])
    BY <2>3, <2>4 DEF SameStanding
  <2> QED
    BY <1>2, <2>1, <2>3, <2>4, <2>5, SavedMove
<1> QED
  BY <1>3, <1>4, <1>5, <1>6, <1>7 DEF OrganizationRoutes

LEMMA InteractionEndMoves ==
  ASSUME TypeOK, NEW b \in Browsers, NEW i \in Interactions, InteractionEnd(b, i)
  PROVE  LinksMove
<1> DEFINE before == RowsOf(session[b])
           w == WithSelection(before)
<1>1. before \in Rows /\ before.session = session[b]
  BY SessionOfBrowser
<1>2. before.session.user \in Users => before.links = link[before.session.user]
  BY <1>1, SessionOfBrowser, LinksOfRows
<1>3. w \in Rows /\ w.session = before.session /\ w.links = before.links
  BY <1>1, SelectionOfRows
<1>4. \/ Save(b, [w EXCEPT !.session = ClearFlags(w.session)])
      \/ \E y \in Chain(before) : Save(b, y)
  BY DEF InteractionEnd
<1> HIDE DEF before, w
<1>5. CASE Save(b, [w EXCEPT !.session = ClearFlags(w.session)])
  <2> DEFINE v == [w EXCEPT !.session = ClearFlags(w.session)]
  <2>1. ClearFlags(w.session) \in Session /\ ClearFlags(w.session).user = w.session.user
    BY <1>3, ClearFlagsOfSession DEF Rows
  <2>2. v \in Rows /\ v.session.user = before.session.user /\ v.links = before.links
    BY <1>3, <2>1 DEF Rows
  <2>3. Save(b, v)
    BY <1>5
  <2> HIDE DEF v
  <2> QED
    BY <1>2, <2>2, <2>3, SavedStandings DEF SameStanding
<1>6. ASSUME NEW y \in Chain(before), Save(b, y)
      PROVE  LinksMove
  <2>1. y \in Rows /\ y.session.user = before.session.user
    BY <1>1, ChainOfRows, ClearFlagsOfSession DEF Rows
  <2>2. \A o \in Organizations : SameStanding(before.links[o], y.links[o])
    BY <1>1, ChainKeepsStandings
  <2> QED
    BY <1>2, <1>6, <2>1, <2>2, SavedStandings
<1> QED
  BY <1>4, <1>5, <1>6

\* Every request moves one link at most.
LEMMA NextMoves ==
  ASSUME TypeOK, [Next]_vars
  PROVE  LinksMove
<1>1. CASE link' = link
  BY <1>1, LinksStayAsTheyAre
<1>2. ASSUME NEW b \in Browsers, SignInRoutes(b) \/ OrganizationRoutes(b)
      PROVE  LinksMove
  BY <1>2, SignInMoves, OrganizationMoves
<1>3. ASSUME NEW b \in Browsers, NEW i \in Interactions, InteractionEnd(b, i)
      PROVE  LinksMove
  BY <1>3, InteractionEndMoves
<1>4. ASSUME NEW b \in Browsers, InteractionRoutes(b)
      PROVE  link' = link \/ \E i \in Interactions : InteractionEnd(b, i)
  <2>1. ASSUME NEW i \in Interactions, NEW request \in Requests, Authorize(b, i, request)
        PROVE  link' = link
    BY <2>1, Zenon DEF Authorize
  <2>2. ASSUME NEW i, InteractionStart(b, i) \/ InteractionError(b, i) \/ Resume(b, i)
        PROVE  link' = link
    BY <2>2, Zenon DEF InteractionStart, InteractionError, Resume
  <2> QED
    BY <1>4, <2>1, <2>2 DEF InteractionRoutes
<1>5. ASSUME NEW b \in Browsers, Logout(b) \/ SessionExpires(b) \/ ProviderSessionEnds(b)
      PROVE  link' = link
  BY <1>5 DEF Logout, SessionExpires, ProviderSessionEnds
<1>6. ASSUME NEW i \in Interactions, TokenRequest(i) \/ InteractionExpires(i)
      PROVE  link' = link
  BY <1>6 DEF TokenRequest, InteractionExpires
<1>7. CASE UNCHANGED vars
  BY <1>1, <1>7 DEF vars
<1> QED
  BY <1>1, <1>2, <1>3, <1>4, <1>5, <1>6, <1>7 DEF Next

-------------------------------------------------------------------------------
(* The places of the users.                                                *)

\* A link to be confirmed is one that counts as checked.
Checkable(l) == l.pending => l.checked

LinksCheckable == \A u \in Users, o \in Organizations : Checkable(link[u][o])

LEMMA MovesKeepCheckable ==
  ASSUME NEW l \in Link, NEW m \in Link, Checkable(l), Moves(l, m) \/ SameStanding(l, m)
  PROVE  Checkable(m)
<1>1. \A joined \in JoinedLinks : joined \in Link /\ Checkable(joined)
  BY JoinedLinksAssumption DEF NewLink, Checkable
<1>2. Checkable(NoLink)
  BY DEF NoLink, Checkable
<1>3. [l EXCEPT !.pending = FALSE].pending = FALSE
  BY DEF Link
<1> QED
  BY <1>1, <1>2, <1>3 DEF Moves, SameStanding, Checkable

LEMMA LinksStayCheckable ==
  ASSUME TypeOK, LinksCheckable, LinksMove
  PROVE  LinksCheckable'
<1> SUFFICES ASSUME NEW v \in Users, NEW p \in Organizations PROVE Checkable(link'[v][p])
  BY DEF LinksCheckable
<1>1. link[v][p] \in Link /\ link'[v][p] \in Link
  BY DEF TypeOK, LinksMove
<1>2. Moves(link[v][p], link'[v][p]) \/ SameStanding(link[v][p], link'[v][p])
  BY DEF LinksMove, LinksStay, LinkMoves
<1>3. Checkable(link[v][p])
  BY DEF LinksCheckable
<1> QED
  BY <1>1, <1>2, <1>3, MovesKeepCheckable

Standings == [place \in Users \X Organizations |-> StandingOf(link[place[1]][place[2]])]

LEMMA SameStandingOf ==
  ASSUME NEW l, NEW m, SameStanding(l, m)
  PROVE  StandingOf(m) = StandingOf(l)
BY DEF SameStanding, StandingOf

LEMMA StandingMoves ==
  ASSUME NEW l \in Link, NEW m \in Link, Checkable(l), Moves(l, m)
  PROVE  \/ StandingOf(m) = StandingOf(l)
         \/ StandingOf(l) = "outside" /\ StandingOf(m) \in {"asserted", "to_confirm", "verified"}
         \/ StandingOf(l) = "to_confirm" /\ StandingOf(m) = "verified"
         \/ StandingOf(l) \in {"asserted", "to_confirm", "verified"} /\ StandingOf(m) = "outside"
<1>1. CASE ~l.member
  BY <1>1 DEF StandingOf
<1>2. CASE SameStanding(NoLink, m)
  BY <1>2 DEF StandingOf, SameStanding, NoLink
<1>3. CASE l.member /\ SameStanding([l EXCEPT !.pending = FALSE], m)
  <2>1. m.member = l.member /\ m.checked = l.checked /\ m.pending = FALSE
    BY <1>3 DEF SameStanding, Link
  <2> QED
    BY <1>3, <2>1 DEF StandingOf, Checkable
<1> QED
  BY <1>1, <1>2, <1>3 DEF Moves

LEMMA MoveRefines ==
  ASSUME TypeOK, LinksCheckable, link' \in [Users -> [Organizations -> Link]],
         NEW u \in Users, NEW o \in Organizations, LinkMoves(u, o)
  PROVE  [Places!Next]_Standings
<1> DEFINE before == StandingOf(link[u][o])
           after == StandingOf(link'[u][o])
<1>1. \A v \in Users, p \in Organizations :
        <<v, p>> # <<u, o>> => StandingOf(link'[v][p]) = StandingOf(link[v][p])
  BY SameStandingOf DEF LinkMoves
<1>2. Standings' = [Standings EXCEPT ![<<u, o>>] = after]
  <2>1. \A place \in Users \X Organizations :
          StandingOf(link'[place[1]][place[2]])
            = IF place = <<u, o>> THEN after ELSE StandingOf(link[place[1]][place[2]])
    BY <1>1
  <2> HIDE DEF after
  <2> QED
    BY <2>1 DEF Standings
<1>3. Standings[<<u, o>>] = before
  BY DEF Standings
<1>4. \/ after = before
      \/ before = "outside" /\ after \in {"asserted", "to_confirm", "verified"}
      \/ before = "to_confirm" /\ after = "verified"
      \/ before \in {"asserted", "to_confirm", "verified"} /\ after = "outside"
  <2>1. link[u][o] \in Link /\ link'[u][o] \in Link
    BY DEF TypeOK
  <2> QED
    BY <2>1, StandingMoves DEF LinksCheckable, LinkMoves
<1> HIDE DEF before, after
<1>5. CASE after = before
  BY <1>2, <1>3, <1>5 DEF Standings
<1>6. CASE before = "outside" /\ after \in {"asserted", "to_confirm", "verified"}
  <2>1. Places!Enters(<<u, o>>)
    BY <1>2, <1>3, <1>6 DEF Places!Enters, Places!Becomes, Places!Inside, Standings
  <2> QED
    BY <2>1 DEF Places!Next
<1>7. CASE before = "to_confirm" /\ after = "verified"
  <2>1. Places!IsVerified(<<u, o>>)
    BY <1>2, <1>3, <1>7 DEF Places!IsVerified, Places!Becomes, Standings
  <2> QED
    BY <2>1 DEF Places!Next
<1>8. CASE before \in {"asserted", "to_confirm", "verified"} /\ after = "outside"
  <2>1. Places!Leaves(<<u, o>>)
    BY <1>2, <1>3, <1>8 DEF Places!Leaves, Places!Becomes, Places!Inside, Standings
  <2> QED
    BY <2>1 DEF Places!Next
<1> QED
  BY <1>4, <1>5, <1>6, <1>7, <1>8

LEMMA StepRefines ==
  ASSUME TypeOK, LinksCheckable, [Next]_vars
  PROVE  LinksCheckable' /\ [Places!Next]_Standings
<1>1. LinksMove
  BY NextMoves
<1>2. CASE LinksStay
  <2>1. \A place \in Users \X Organizations :
          StandingOf(link'[place[1]][place[2]]) = StandingOf(link[place[1]][place[2]])
    BY <1>2, SameStandingOf DEF LinksStay
  <2>2. Standings' = Standings
    BY <2>1 DEF Standings
  <2> QED
    BY <1>1, <2>2, LinksStayCheckable
<1>3. ASSUME NEW u \in Users, NEW o \in Organizations, LinkMoves(u, o)
      PROVE  [Places!Next]_Standings
  BY <1>1, <1>3, MoveRefines DEF LinksMove
<1> QED
  BY <1>1, <1>2, <1>3, LinksStayCheckable DEF LinksMove

(***************************************************************************)
(* Interaction implements Membership, with a place for every user in every *)
(* organization: no request moves more than one of them, the chain none,   *)
(* and what was verified stays so until the user leaves.                   *)
(***************************************************************************)
THEOREM Refinement == Spec => ImplementsMembership
<1>1. Init => Places!Init /\ LinksCheckable
  <2> SUFFICES ASSUME Init
               PROVE  /\ Standings = [place \in Users \X Organizations |-> "outside"]
                      /\ LinksCheckable
    BY DEF Places!Init, Standings
  <2>1. \A u \in Users, o \in Organizations : link[u][o] = NoLink
    BY DEF Init
  <2>2. StandingOf(NoLink) = "outside" /\ Checkable(NoLink)
    BY DEF StandingOf, Checkable, NoLink
  <2>3. \A place \in Users \X Organizations :
          StandingOf(link[place[1]][place[2]]) = "outside"
    BY <2>1, <2>2
  <2> QED
    BY <2>1, <2>2, <2>3 DEF Standings, LinksCheckable
<1>2. TypeOK /\ LinksCheckable /\ [Next]_vars =>
        LinksCheckable' /\ [Places!Next]_[place \in Users \X Organizations |->
                                            StandingOf(link[place[1]][place[2]])]
  BY StepRefines DEF Standings
<1> QED
  BY <1>1, <1>2, TypeCorrect, PTL DEF Spec, ImplementsMembership, Places!Spec

-------------------------------------------------------------------------------
(* Pages.                                                                  *)

OfInteraction == {"interaction", "interaction-login", "resume", "error"}

\* Those that a session leads to.
OfSession == {"interaction-login", "error"}

PageTyped(p) ==
  /\ p \in Pages
  /\ p.name \in OfInteraction => p.of \in Interactions \/ (p.of = Former /\ p.name \in OfSession)
  /\ p.name = "official-contact" => p.of \in Organizations

PagesTyped == page \in [Browsers -> Pages] /\ \A b \in Browsers : PageTyped(page[b])

PageNames == DOMAIN Gate \cup Ends \cup OfInteraction

LEMMA PlainPage ==
  ASSUME NEW name \in PageNames \ (OfInteraction \cup {"official-contact"})
  PROVE  PageTyped(Page(name, None))
BY DEF PageTyped, Page, Pages, PageNames, OfInteraction

LEMMA InteractionPage ==
  ASSUME NEW i \in Interactions, NEW name \in OfInteraction \cup {"client"}
  PROVE  PageTyped(Page(name, i))
BY DEF PageTyped, Page, Pages, OfInteraction, Ends, Gate

LEMMA PageOfSession ==
  ASSUME NEW s \in Session, s.interaction # None, NEW name \in OfSession
  PROVE  PageTyped(Page(name, s.interaction))
<1>1. s.interaction \in Interactions \cup {Former}
  BY DEF Session
<1> QED
  BY <1>1 DEF PageTyped, Page, Pages, OfInteraction, OfSession

LEMMA StopsAtAPage ==
  ASSUME NEW w, Stop(w) # "passed"
  PROVE  /\ Stop(w) \in {"start-sign-in", "2fa-sign-in", "connection-and-account",
                         "join-organization", "select-organization", "official-contact",
                         "welcome"}
         /\ Stop(w) = "official-contact" =>
              \E o \in Concerned(WithSelection(w)) : w.links[o].pending
<1> DEFINE missed == {k \in 1..6 : ~Meets(w, k)}
           stops == CHOOSE k \in 1..6 : Passes(w, k - 1) /\ ~Meets(w, k)
<1>1. ~Passes(w, 6)
  BY DEF Stop
<1>2. missed # {} /\ missed \subseteq 1..6
  BY <1>1 DEF Passes
<1>3. PICK k \in missed : \A j \in missed : k <= j
  BY <1>2, LeastOfSix
<1>4. k \in 1..6 /\ \A j \in 1..(k - 1) : Meets(w, j)
  BY <1>3
<1>5. stops \in 1..6 /\ ~Meets(w, stops)
  BY <1>3, <1>4 DEF Passes
<1>6. Stop(w) = Redirects(w)[stops]
  BY <1>1 DEF Stop
<1> HIDE DEF stops
<1>7. Stop(w) = "official-contact" => stops = 5
  BY <1>5, <1>6 DEF Redirects
<1>8. Stop(w) = "official-contact" => \E o \in Concerned(WithSelection(w)) : w.links[o].pending
  BY <1>5, <1>7 DEF Meets
<1>9. Stop(w) \in {"start-sign-in", "2fa-sign-in", "connection-and-account",
                   "join-organization", "select-organization", "official-contact", "welcome"}
  BY <1>5, <1>6 DEF Redirects
<1> QED
  BY <1>8, <1>9

LEMMA ObstacleIsAPage ==
  ASSUME NEW w \in Rows, Stop(w) # "passed"
  PROVE  PageTyped(Obstacle(w))
<1>1. CASE Stop(w) = "official-contact"
  <2> DEFINE o == CHOOSE o \in Concerned(WithSelection(w)) : w.links[o].pending
  <2>1. o \in Concerned(WithSelection(w))
    BY <1>1, StopsAtAPage
  <2>2. o \in Organizations
    BY <2>1 DEF Concerned, Memberships
  <2>3. Obstacle(w) = Page("official-contact", o)
    BY <1>1 DEF Obstacle
  <2> HIDE DEF o
  <2> QED
    BY <2>2, <2>3 DEF PageTyped, Page, Pages, Gate, OfInteraction
<1>2. CASE Stop(w) # "official-contact"
  <2>1. Obstacle(w) = Page(Stop(w), None)
    BY <1>2 DEF Obstacle
  <2>2. Stop(w) \in PageNames \ (OfInteraction \cup {"official-contact"})
    BY <1>2, StopsAtAPage DEF PageNames, OfInteraction, Gate, Ends
  <2> QED
    BY <2>1, <2>2, PlainPage
<1> QED
  BY <1>1, <1>2

LEMMA LandingIsAPage ==
  ASSUME NEW w \in Rows
  PROVE  PageTyped(Landing(w))
<1>1. w.session \in Session
  BY DEF Rows
<1>2. "home" \in PageNames \ (OfInteraction \cup {"official-contact"})
  BY DEF PageNames, OfInteraction, Ends
<1>3. "interaction-login" \in OfSession
  BY DEF OfSession
<1> QED
  BY <1>1, <1>2, <1>3, ObstacleIsAPage, PlainPage, PageOfSession DEF Landing

LEMMA ErrorIsAPage ==
  ASSUME NEW s \in Session
  PROVE  PageTyped(ErrorPage(s))
<1>1. "error" \in OfSession
  BY DEF OfSession
<1>2. "error-without-link" \in PageNames \ (OfInteraction \cup {"official-contact"})
  BY DEF PageNames, OfInteraction, Ends
<1> QED
  BY <1>1, <1>2, PlainPage, PageOfSession DEF ErrorPage

LEMMA DecisionLeadsToAPage ==
  ASSUME NEW i \in Interactions, NEW x
  PROVE  PageTyped(AfterDecision(i, x))
BY InteractionPage DEF AfterDecision, OfInteraction

LEMMA PromptLeadsToAPage ==
  ASSUME NEW i \in Interactions, NEW prompt
  PROVE  PageTyped(PageOfPrompt(i, prompt))
<1>1. {"start-sign-in", "select-organization", "personal-information"}
        \subseteq PageNames \ (OfInteraction \cup {"official-contact"})
  BY DEF PageNames, OfInteraction, Gate
<1>2. "interaction-login" \in OfInteraction
  BY DEF OfInteraction
<1> QED
  BY <1>1, <1>2, PlainPage, InteractionPage DEF PageOfPrompt

LEMMA EndLeadsToAPage ==
  ASSUME Inv, NEW b \in Browsers, NEW i
  PROVE  PageTyped(PageOfEnd(b, i))
<1> DEFINE w == RowsOf(session[b])
<1>1. w \in Rows /\ w.session \in Session
  BY SessionOfBrowser DEF Inv
<1>2. "home" \in PageNames \ (OfInteraction \cup {"official-contact"})
  BY DEF PageNames, OfInteraction, Ends
<1>3. "resume" \in OfInteraction
  BY DEF OfInteraction
<1>4. PageTyped(ErrorPage(w.session)) /\ PageTyped(Page("home", None))
      /\ (Found(b, i) => PageTyped(Page("resume", i)))
  BY <1>1, <1>2, <1>3, ErrorIsAPage, PlainPage, InteractionPage DEF Found, Pending
<1>5. Stop(w) # "passed" => PageTyped(Obstacle(w))
  BY <1>1, ObstacleIsAPage
<1> QED
  BY <1>4, <1>5 DEF PageOfEnd

-------------------------------------------------------------------------------
(* Every answer to a page is one of the steps of Interaction, or changes   *)
(* nothing, and leads to a page.                                           *)

LeadsToAPage(b) == \E p : PageTyped(p) /\ MoveTo(b, p)

Answered(b) == [Next]_vars /\ LeadsToAPage(b) /\ UNCHANGED distractions

LEMMA SignInAnswered ==
  ASSUME Inv, PagesTyped, NEW b \in Browsers,
         AskedForMore(b) \/ SignsIn(b) \/ GivesSecondFactor(b) \/ ChangesEmail(b) \/ Continues(b)
  PROVE  Answered(b)
<1>1. PageTyped(Landing(RowsOf(session[b]))) /\ PageTyped(Page("start-sign-in", None))
  <2>1. "start-sign-in" \in PageNames \ (OfInteraction \cup {"official-contact"})
    BY DEF PageNames, OfInteraction, Gate
  <2> QED
    BY <2>1, SessionOfBrowser, LandingIsAPage, PlainPage DEF Inv
<1>2. CASE AskedForMore(b) \/ Continues(b)
  <2>1. VisitPage(b) /\ MoveTo(b, Landing(RowsOf(session[b]))) /\ UNCHANGED distractions
    BY <1>2 DEF AskedForMore, Continues, Behind, At
  <2> QED
    BY <1>1, <2>1 DEF Answered, LeadsToAPage, Next, SignInRoutes
<1>3. CASE SignsIn(b)
  <2>1. PICK u \in Users, two \in BOOLEAN :
          SignIn(b, u, two) /\ MoveTo(b, Landing(SignedIn(b, u, two)))
    BY <1>3 DEF SignsIn
  <2>2. PageTyped(Landing(SignedIn(b, u, two)))
    BY SignedInRows, LandingIsAPage DEF Inv
  <2> QED
    BY <1>3, <2>1, <2>2 DEF SignsIn, Behind, At, Answered, LeadsToAPage, Next, SignInRoutes
<1>4. CASE GivesSecondFactor(b)
  <2>1. PageTyped(Landing(WithTwoFactors(b)))
    BY SecondFactorRows, LandingIsAPage DEF Inv
  <2> QED
    BY <1>4, <2>1 DEF GivesSecondFactor, Behind, At, Answered, LeadsToAPage, Next, SignInRoutes
<1>5. CASE ChangesEmail(b)
  BY <1>1, <1>5 DEF ChangesEmail, Behind, At, Answered, LeadsToAPage
<1> QED
  BY <1>2, <1>3, <1>4, <1>5

LEMMA OrganizationAnswered ==
  ASSUME Inv, PagesTyped, NEW b \in Browsers,
         Joins(b) \/ HasJoinedAlready(b) \/ Selects(b) \/ Confirms(b) \/ NothingToConfirm(b)
  PROVE  Answered(b)
<1>1. {"home", "join-organization"} \subseteq PageNames \ (OfInteraction \cup {"official-contact"})
  BY DEF PageNames, OfInteraction, Gate, Ends
<1>2. \A o \in Organizations :
        /\ \A joined \in JoinedLinks : PageTyped(Landing(Joined(b, o, joined)))
        /\ PageTyped(Landing(Selected(b, o)))
        /\ PageTyped(Landing(Confirmed(b, o)))
  BY RowsOfOrganization, LandingIsAPage DEF Inv
<1>3. CASE Joins(b)
  <2>1. PICK o \in Organizations, joined \in JoinedLinks :
          PostJoinOrganization(b, o, joined) /\ MoveTo(b, Landing(Joined(b, o, joined)))
    BY <1>3 DEF Joins
  <2> QED
    BY <1>2, <1>3, <2>1 DEF Joins, Behind, At, Answered, LeadsToAPage, Next, OrganizationRoutes
<1>4. CASE HasJoinedAlready(b)
  BY <1>1, <1>4, PlainPage DEF HasJoinedAlready, Behind, At, Answered, LeadsToAPage
<1>5. CASE Selects(b)
  <2>1. PICK o \in Organizations :
          PostSelectOrganization(b, o) /\ MoveTo(b, Landing(Selected(b, o)))
    BY <1>5 DEF Selects
  <2> QED
    BY <1>2, <1>5, <2>1 DEF Selects, Behind, At, Answered, LeadsToAPage, Next, OrganizationRoutes
<1>6. CASE Confirms(b)
  <2>1. page[b].of \in Organizations
    BY <1>6 DEF Confirms, Behind, At, PagesTyped, PageTyped
  <2> QED
    BY <1>2, <1>6, <2>1
       DEF Confirms, Behind, At, Answered, LeadsToAPage, Next, OrganizationRoutes
<1>7. CASE NothingToConfirm(b)
  <2> DEFINE w == WithSelection(RowsOf(session[b]))
  <2>1. w.session \in Session
    BY SessionOfBrowser, SelectionOfRows DEF Inv
  <2>2. MoveTo(b, IF w.links[page[b].of].member THEN Page("join-organization", None)
                  ELSE ErrorPage(w.session))
    BY <1>7 DEF NothingToConfirm
  <2>3. PageTyped(Page("join-organization", None)) /\ PageTyped(ErrorPage(w.session))
    BY <1>1, <2>1, PlainPage, ErrorIsAPage
  <2> HIDE DEF w
  <2>4. UNCHANGED distractions
    BY <1>7 DEF NothingToConfirm, Behind, At
  <2> QED
    BY <1>7, <2>2, <2>3, <2>4
       DEF NothingToConfirm, Answered, LeadsToAPage, Next, OrganizationRoutes
<1> QED
  BY <1>3, <1>4, <1>5, <1>6, <1>7

LEMMA InteractionAnswered ==
  ASSUME Inv, PagesTyped, NEW b \in Browsers,
         \/ StartsInteraction(b) \/ StartsLostInteraction(b)
         \/ EndsInteraction(b)
         \/ Resumes(b) \/ ResumesLostInteraction(b)
         \/ FollowsErrorLink(b)
  PROVE  Answered(b)
<1> DEFINE i == page[b].of
<1>1. /\ i \in Interactions \cup {Former}
      /\ (At(b, "interaction") \/ At(b, "resume") => i \in Interactions)
  BY DEF PagesTyped, PageTyped, OfInteraction, OfSession, At, StartsInteraction,
         StartsLostInteraction, EndsInteraction, Resumes, ResumesLostInteraction, FollowsErrorLink
<1>2. /\ PageTyped(Page("error-without-link", None))
      /\ (i \in Interactions => PageTyped(Page("client", i)))
  <2>1. "error-without-link" \in PageNames \ (OfInteraction \cup {"official-contact"})
    BY DEF PageNames, OfInteraction, Ends
  <2> QED
    BY <2>1, PlainPage, InteractionPage
<1>3. CASE StartsInteraction(b)
  <2>1. i \in Interactions /\ InteractionStart(b, i) /\ UNCHANGED distractions
        /\ MoveTo(b, PageOfPrompt(i, interaction[i].prompt))
    BY <1>1, <1>3 DEF StartsInteraction, At
  <2> QED
    BY <2>1, PromptLeadsToAPage DEF Answered, LeadsToAPage, Next, InteractionRoutes
<1>4. CASE StartsLostInteraction(b)
  <2>1. PageTyped(ErrorPage(session[b]))
    BY SessionOfBrowser, ErrorIsAPage DEF Inv
  <2> QED
    BY <1>4, <2>1 DEF StartsLostInteraction, At, Answered, LeadsToAPage
<1>5. CASE EndsInteraction(b)
  <2>1. PageTyped(PageOfEnd(b, i))
    BY EndLeadsToAPage
  <2>2. /\ (InteractionEnd(b, i) /\ i \in Interactions) \/ VisitPage(b)
        /\ MoveTo(b, PageOfEnd(b, i)) /\ UNCHANGED distractions
    BY <1>5 DEF EndsInteraction, At, Pending
  <2> QED
    BY <2>1, <2>2 DEF Answered, LeadsToAPage, Next, InteractionRoutes, SignInRoutes
<1>6. CASE Resumes(b)
  <2>1. i \in Interactions /\ Resume(b, i) /\ UNCHANGED distractions
        /\ MoveTo(b, AfterDecision(i, interaction'[i]))
    BY <1>1, <1>6 DEF Resumes, At
  <2> QED
    BY <2>1, DecisionLeadsToAPage DEF Answered, LeadsToAPage, Next, InteractionRoutes
<1>7. CASE ResumesLostInteraction(b)
  BY <1>2, <1>7 DEF ResumesLostInteraction, At, Answered, LeadsToAPage
<1>8. CASE FollowsErrorLink(b)
  <2>1. InteractionError(b, i) /\ UNCHANGED distractions
        /\ MoveTo(b, IF Found(b, i) THEN Page("client", i) ELSE Page("error-without-link", None))
    BY <1>8 DEF FollowsErrorLink, At
  <2>2. Found(b, i) => i \in Interactions
    BY DEF Found, Pending
  <2> QED
    BY <1>1, <1>2, <2>1, <2>2 DEF Answered, LeadsToAPage, Next, InteractionRoutes
<1> QED
  BY <1>3, <1>4, <1>5, <1>6, <1>7, <1>8

-------------------------------------------------------------------------------
(* The invariant.                                                          *)

JourneyInv == Inv /\ PagesTyped /\ distractions \in 0..MaxDistractions

LEMMA JourneyInitInv == JourneyInit => JourneyInv
<1> SUFFICES ASSUME JourneyInit PROVE JourneyInv
  OBVIOUS
<1>1. Inv
  BY InitInv DEF JourneyInit
<1>2. "home" \in PageNames \ (OfInteraction \cup {"official-contact"})
  BY DEF PageNames, OfInteraction, Ends
<1>3. PageTyped(Page("home", None))
  BY <1>2, PlainPage
<1>4. PagesTyped
  BY <1>3 DEF JourneyInit, PagesTyped, PageTyped
<1> QED
  BY <1>1, <1>4, DistractionsAssumption DEF JourneyInv, JourneyInit

LEMMA LedToAPage ==
  ASSUME PagesTyped, NEW b \in Browsers, LeadsToAPage(b)
  PROVE  PagesTyped'
<1>1. PICK p : PageTyped(p) /\ page' = [page EXCEPT ![b] = p]
  BY DEF LeadsToAPage, MoveTo
<1>2. \A c \in Browsers : page'[c] = IF c = b THEN p ELSE page[c]
  BY <1>1 DEF PagesTyped
<1>3. page' \in [Browsers -> Pages]
  BY <1>1 DEF PagesTyped, PageTyped
<1> QED
  BY <1>1, <1>2, <1>3 DEF PagesTyped, PageTyped

LEMMA AnsweredInv ==
  ASSUME JourneyInv, NEW b \in Browsers, Answered(b)
  PROVE  JourneyInv'
<1>1. Inv'
  BY NextInv DEF Answered, JourneyInv
<1> QED
  BY <1>1, LedToAPage DEF Answered, JourneyInv

LEMMA DistractionStep ==
  ASSUME NEW b \in Browsers, Distraction(b)
  PROVE  Next
<1>1. \/ SignInRoutes(b)
      \/ OrganizationRoutes(b)
      \/ Logout(b) \/ SessionExpires(b) \/ ProviderSessionEnds(b)
      \/ \E i \in Interactions :
           InteractionStart(b, i) \/ InteractionEnd(b, i) \/ InteractionExpires(i)
  BY DEF Distraction
<1> QED
  BY <1>1 DEF Next, InteractionRoutes

LEMMA DistractionInv ==
  ASSUME JourneyInv, NEW b \in Browsers, Distraction(b)
  PROVE  JourneyInv'
<1>1. Next
  BY DistractionStep
<1>2. Inv'
  BY <1>1, NextInv DEF JourneyInv
<1>3. PagesTyped'
  BY DEF Distraction, JourneyInv, PagesTyped
<1>4. distractions' \in 0..MaxDistractions
  BY DistractionsAssumption DEF Distraction, JourneyInv
<1> QED
  BY <1>2, <1>3, <1>4 DEF JourneyInv

\* What happens on the way is a step of Interaction, or only leads to another page.
LEMMA JourneyStep ==
  ASSUME JourneyInv, [JourneyNext]_journeyVars
  PROVE  [Next]_vars
<1>1. ASSUME NEW b \in Browsers, Proceed(b)
      PROVE  [Next]_vars
  BY <1>1, SignInAnswered, OrganizationAnswered, InteractionAnswered
     DEF Proceed, JourneyInv, Answered
<1>2. ASSUME NEW b \in Browsers, Distraction(b)
      PROVE  Next
  BY <1>2, DistractionStep
<1>3. ASSUME NEW b \in Browsers, NEW i \in Interactions, NEW request \in Requests,
             Asks(b, i, request)
      PROVE  Next
  BY <1>3 DEF Asks, Next, InteractionRoutes
<1>4. ASSUME NEW i \in Interactions, Redeem(i)
      PROVE  Next
  BY <1>4 DEF Redeem, Next
<1>5. CASE UNCHANGED journeyVars
  BY <1>5 DEF journeyVars
<1> QED
  BY <1>1, <1>2, <1>3, <1>4, <1>5 DEF JourneyNext

LEMMA JourneyNextInv ==
  ASSUME JourneyInv, [JourneyNext]_journeyVars
  PROVE  JourneyInv'
<1>1. CASE UNCHANGED journeyVars
  <2>1. UNCHANGED vars /\ UNCHANGED page /\ UNCHANGED distractions
    BY <1>1 DEF journeyVars
  <2>2. Inv'
    BY <2>1, NextInv DEF JourneyInv
  <2> QED
    BY <2>1, <2>2 DEF JourneyInv, PagesTyped
<1>2. ASSUME NEW b \in Browsers, Proceed(b)
      PROVE  JourneyInv'
  <2>1. Answered(b)
    BY <1>2, SignInAnswered, OrganizationAnswered, InteractionAnswered DEF Proceed, JourneyInv
  <2> QED
    BY <2>1, AnsweredInv
<1>3. ASSUME NEW b \in Browsers, NEW i \in Interactions, NEW request \in Requests,
             Asks(b, i, request)
      PROVE  JourneyInv'
  <2>1. Next /\ UNCHANGED distractions /\ MoveTo(b, AfterDecision(i, interaction'[i]))
    BY <1>3 DEF Asks, Next, InteractionRoutes
  <2>2. Answered(b)
    BY <2>1, DecisionLeadsToAPage DEF Answered, LeadsToAPage
  <2> QED
    BY <2>2, AnsweredInv
<1>4. ASSUME NEW i \in Interactions, Redeem(i)
      PROVE  JourneyInv'
  <2>1. Next /\ UNCHANGED <<page, distractions>>
    BY <1>4 DEF Redeem, Next
  <2>2. Inv'
    BY <2>1, NextInv DEF JourneyInv
  <2> QED
    BY <2>1, <2>2 DEF JourneyInv, PagesTyped
<1> QED
  BY <1>1, <1>2, <1>3, <1>4, DistractionInv DEF JourneyNext

LEMMA JourneyInductive == JourneySpec => []JourneyInv
<1>1. JourneyInit => JourneyInv
  BY JourneyInitInv
<1>2. JourneyInv /\ [JourneyNext]_journeyVars => JourneyInv'
  BY JourneyNextInv
<1> QED
  BY <1>1, <1>2, PTL DEF JourneySpec

-------------------------------------------------------------------------------
(***************************************************************************)
(* Whatever answers a page is given, every browser is on a page the code   *)
(* serves (controllers/interaction.ts, middlewares/user.ts).               *)
(***************************************************************************)
THEOREM JourneysKeepToPages == JourneySpec => []JourneyTypeOK
<1>1. JourneyInv => JourneyTypeOK
  BY DEF JourneyInv, PagesTyped, JourneyTypeOK
<1> QED
  BY <1>1, JourneyInductive, PTL

(***************************************************************************)
(* Whatever pages a browser is led through, it does nothing that the       *)
(* requests of Interaction do not do in some order: the redirects and      *)
(* forms are a schedule of them (controllers/interaction.ts and            *)
(* middlewares/user.ts answer each request alone).                         *)
(***************************************************************************)
THEOREM JourneysAreInteractions == JourneySpec => Spec
<1>1. JourneyInit => Init
  BY DEF JourneyInit
<1>2. JourneyInv /\ [JourneyNext]_journeyVars => [Next]_vars
  BY JourneyStep
<1> QED
  BY <1>1, <1>2, JourneyInductive, PTL DEF JourneySpec, Spec

(***************************************************************************)
(* So what is promised of levels holds on every way through the pages: a   *)
(* code is issued for who signed in with that browser, at a level that was *)
(* earned there, and an answer with a checked identity for a selection     *)
(* that was checked.                                                       *)
(***************************************************************************)
THEOREM LevelsAreEarnedOnJourneys == JourneySpec => []LevelIsEarned /\ ConsistencyIsChecked
BY JourneysAreInteractions, LevelsAreEarned, ConsistencyChecked, PTL

(***************************************************************************)
(* And on every way through the pages, for any number of interferences,    *)
(* what an interaction is answered with in turn is its own.                *)
(***************************************************************************)
THEOREM AnswersTheirOwnOnJourneys == JourneySpec => AnswersAreTheirOwn
BY JourneysAreInteractions, AnswersTheirOwn, PTL

(***************************************************************************)
(* And on every way through the pages a second factor is asked for exactly *)
(* when the end of the interaction would refuse every session without one, *)
(* and a user is asked to sign in for a level that a session can obtain if *)
(* the client accepts one that exists (services/acr-checks.ts).            *)
(***************************************************************************)
THEOREM RequestsAreMetOnJourneys ==
  JourneySpec => []TwoFactorsRequestedIsNecessary /\ []RequestsThatCanBeMet
BY JourneysAreInteractions, TwoFactorsNecessary, RequestsCanBeMet, PTL

(***************************************************************************)
(* And users keep their places on every way through the pages: no redirect *)
(* or form takes a verified membership back.                               *)
(***************************************************************************)
THEOREM PlacesOnJourneys == JourneySpec => ImplementsMembership
BY JourneysAreInteractions, Refinement, PTL
=============================================================================
