------------------------------ MODULE Interaction ------------------------------
(***************************************************************************)
(* How an OpenID client's request is answered: the prompts of              *)
(* oidc-provider and of src/services/oidc-policy.ts, the interactions of   *)
(* src/controllers/interaction.ts, the requirements a session must meet    *)
(* before it is issued (the end of the chain in src/middlewares/user.ts),  *)
(* the organization a user selects, and the claims the client reads last.  *)
(*                                                                         *)
(* Module SignIn has what happens before: a SignIn here is a sign-in whose *)
(* email is verified and whose personal informations are known.  One       *)
(* action is one request, which a browser may make whatever page it shows. *)
(***************************************************************************)
EXTENDS AcrChecks, Naturals

CONSTANTS
  Users, Browsers, None,
  Organizations,
  Capable,          \* the users with a second factor
  Forced,           \* those who always have to use it
  Interactions,     \* the authorization requests that are made
  Former,           \* the uid of a prompt that was resumed: every prompt has a new one
  Requests,         \* what they may ask for
  JoinedLinks,      \* how a user may join an organization
  AlwaysEidas1      \* FEATURE_ALWAYS_RETURN_EIDAS1_FOR_ACR

ASSUME NoneAssumption == None \notin Users \cup Organizations \cup Interactions
ASSUME FormerAssumption == Former \notin Interactions \cup {None}
ASSUME ForcedAssumption == Forced \subseteq Capable /\ Capable \subseteq Users

\* oneOrg is mustReturnOneOrganizationInPayload of the scope; the level that
\* is essential is given by the value of the acr claim or by its values
\* (neither: the client accepts any level).
Request ==
  {r \in [oneOrg : BOOLEAN, acr : Acr \cup {"absent"}, acrs : SUBSET Acr,
          prompt : {"none", "login", "select_organization", "update_userinfo"}] :
     r.acr = "absent" \/ r.acrs = {}}

ASSUME RequestsAssumption == Requests \subseteq Request
ASSUME FlagAssumption == AlwaysEidas1 \in BOOLEAN

VARIABLES
  session,      \* the express session of a browser
  provider,     \* the session oidc-provider keeps for a browser, with its own cookie
  interaction,  \* the authorization requests
  selected,     \* the selected organization of a user (Redis)
  link,         \* link[u][o], the users_organizations row of a user
  earned        \* history: who signed in with a browser, with two factors or not
vars == <<session, provider, interaction, selected, link, earned>>

\* needs_official_contact_email_verification is "pending"; such a link has a
\* verification type that counts as checked.
Link == [member : BOOLEAN, checked : BOOLEAN, pending : BOOLEAN, greeted : BOOLEAN]

\* The link of a user who joins: self-asserted, checked, or to be checked with
\* the official contact of the organization.
NewLink ==
  {l \in Link : l.member /\ ~l.greeted /\ (l.pending => l.checked)}

ASSUME JoinedLinksAssumption == JoinedLinks \subseteq NewLink

NoLink == [member |-> FALSE, checked |-> FALSE, pending |-> FALSE, greeted |-> FALSE]

Session ==
  [user : Users \cup {None}, two : BOOLEAN,
   interaction : Interactions \cup {None, Former},
   oneOrg : BOOLEAN, twoFa : BOOLEAN, dirigeant : BOOLEAN]

EmptySession ==
  [user |-> None, two |-> FALSE, interaction |-> None,
   oneOrg |-> FALSE, twoFa |-> FALSE, dirigeant |-> FALSE]

Login == [account : Users \cup {None}, acr : Acr \cup {"none"}]
NoLogin == [account |-> None, acr |-> "none"]

Stages == {"none", "prompted", "answered", "code", "claims", "failed", "denied",
           "expired"}

\* login, select and update are the result of the interaction; origin is the
\* account of the provider's session when the prompt was made; code is what
\* was issued, organization what the client was told.
InteractionRecord ==
  [stage : Stages, browser : Browsers \cup {None}, request : Request, prompt : Prompt,
   origin : Users \cup {None}, login : Login, select : BOOLEAN, update : BOOLEAN,
   code : Login, organization : Organizations \cup {None}]

TypeOK ==
  /\ session \in [Browsers -> Session]
  /\ provider \in [Browsers -> Login]
  /\ interaction \in [Interactions -> InteractionRecord]
  /\ selected \in [Users -> Organizations \cup {None}]
  /\ link \in [Users -> [Organizations -> Link]]
  /\ earned \subseteq Browsers \X Users \X BOOLEAN

NoPrompt ==
  [name |-> "choose_organization", reasons |-> {}, essential |-> FALSE,
   value |-> "absent", values |-> {}]

NoRequest == [oneOrg |-> FALSE, acr |-> "absent", acrs |-> {}, prompt |-> "none"]

Unused ==
  [stage |-> "none", browser |-> None, request |-> NoRequest, prompt |-> NoPrompt,
   origin |-> None, login |-> NoLogin, select |-> FALSE, update |-> FALSE,
   code |-> NoLogin, organization |-> None]

Init ==
  /\ session = [b \in Browsers |-> EmptySession]
  /\ provider = [b \in Browsers |-> NoLogin]
  /\ interaction = [i \in Interactions |-> Unused]
  /\ selected = [u \in Users |-> None]
  /\ link = [u \in Users |-> [o \in Organizations |-> NoLink]]
  /\ earned = {}

-------------------------------------------------------------------------------
(***************************************************************************)
(* The requirements chain, over a session with the rows of its user.       *)
(***************************************************************************)
RowsOf(s) ==
  [session |-> s,
   selected |-> IF s.user = None THEN None ELSE selected[s.user],
   links |-> IF s.user = None THEN [o \in Organizations |-> NoLink] ELSE link[s.user]]

Save(b, w) ==
  /\ session' = [session EXCEPT ![b] = w.session]
  /\ selected' = [u \in Users |-> IF u = w.session.user THEN w.selected ELSE selected[u]]
  /\ link' = [u \in Users |-> IF u = w.session.user THEN w.links ELSE link[u]]

NeedsTwoFactor(s) == (s.user \in Forced \/ s.twoFa) /\ ~s.two

Memberships(w) == {o \in Organizations : w.links[o].member}

\* The only organization of a user is selected without asking.
WithSelection(w) ==
  IF w.session.oneOrg /\ w.selected = None /\ Cardinality(Memberships(w)) = 1
  THEN [w EXCEPT !.selected = CHOOSE o \in Memberships(w) : TRUE]
  ELSE w

\* Mistake: only the clients that list all organizations are looked after.
ConcernedIfAll(w) == IF w.session.oneOrg THEN {} ELSE Memberships(w)

\* The links the chain looks at: the selected one, or all of them.
Concerned(w) ==
  IF w.session.oneOrg THEN Memberships(w) \cap {w.selected} ELSE Memberships(w)

\* What must hold, in order.
Meets(w, k) ==
  LET concerned == Concerned(WithSelection(w)) IN
  CASE k = 1 -> w.session.user # None
    [] k = 2 -> ~NeedsTwoFactor(w.session)
    [] k = 3 -> Memberships(w) # {}
    [] k = 4 -> w.session.oneOrg => WithSelection(w).selected # None
    [] k = 5 -> \A o \in concerned : ~w.links[o].pending
    [] k = 6 -> \A o \in concerned : w.links[o].greeted

\* Where the chain redirects otherwise.
Redirects(w) ==
  << "start-sign-in",
     IF w.session.user \in Capable THEN "2fa-sign-in" ELSE "connection-and-account",
     "join-organization", "select-organization", "official-contact", "welcome" >>

\* The first n links of the chain let a request pass.
Passes(w, n) == \A k \in 1..n : Meets(w, k)

\* Where the whole chain ends.
Stop(w) ==
  IF Passes(w, 6) THEN "passed"
  ELSE Redirects(w)[CHOOSE k \in 1..6 : Passes(w, k - 1) /\ ~Meets(w, k)]

ClearFlags(s) == [s EXCEPT !.interaction = None, !.oneOrg = FALSE, !.twoFa = FALSE]

\* Mistake: the link is written anew with the greeting.
GreetAnew(w, o) == [w EXCEPT !.links[o] = [NoLink EXCEPT !.member = TRUE, !.greeted = TRUE]]

\* Mistake: the greeting is not saved.
GreetNobody(w, o) == w

Greet(w, o) == [w EXCEPT !.links[o].greeted = TRUE]

\* What the chain may leave behind: the flow is broken for want of a second
\* factor, an organization is selected, the user is greeted for one of the
\* links.
Chain(w) ==
  CASE Stop(w) = "connection-and-account" -> {[w EXCEPT !.session = ClearFlags(@)]}
    [] Stop(w) = "welcome" ->
         {Greet(WithSelection(w), o) :
            o \in {p \in Concerned(WithSelection(w)) : ~w.links[p].greeted}}
    [] OTHER -> {IF Passes(w, 4) THEN WithSelection(w) ELSE w}

\* The chain, then issueSessionOrRedirectController, which changes nothing.
IssueSessionOrRedirect(b, w) ==
  /\ \E x \in Chain(w) : Save(b, x)
  /\ UNCHANGED <<provider, interaction>>

-------------------------------------------------------------------------------
(***************************************************************************)
(* The pages of the sign-in.  Each handler is what it makes of the session *)
(* and of the rows of its user; the chain runs behind it.                  *)
(***************************************************************************)

\* Mistake: whoever signs in next is taken to have two factors too.
NewSessionOnTopOf(s, u, two) == [s EXCEPT !.user = u, !.two = @ \/ two]

\* createAuthenticatedSession keeps the values of the interaction.
NewSession(s, u, two) == [s EXCEPT !.user = u, !.two = two]

\* The selection is per user and not per session: it is deleted.
SignedIn(b, u, two) == [RowsOf(NewSession(session[b], u, two)) EXCEPT !.selected = None]

SignIn(b, u, two) ==
  /\ two => u \in Capable
  /\ IssueSessionOrRedirect(b, SignedIn(b, u, two))
  /\ earned' = earned \cup {<<b, u, two>>}

WithTwoFactors(b) == RowsOf([session[b] EXCEPT !.two = TRUE])

SecondFactor(b) ==
  /\ session[b].user \in Capable
  /\ IssueSessionOrRedirect(b, WithTwoFactors(b))
  /\ earned' = earned \cup {<<b, session[b].user, TRUE>>}

\* A page behind the whole chain, as /users/welcome, or a form that only
\* leads to it, as that of the personal informations.
VisitPage(b) ==
  /\ IssueSessionOrRedirect(b, RowsOf(session[b]))
  /\ UNCHANGED earned

Joined(b, o, joined) ==
  [RowsOf(session[b]) EXCEPT !.links[o] = joined,
                             !.selected = IF session[b].oneOrg THEN o ELSE @]

PostJoinOrganization(b, o, joined) ==
  /\ Passes(RowsOf(session[b]), 2)
  /\ ~RowsOf(session[b]).links[o].member
  /\ IssueSessionOrRedirect(b, Joined(b, o, joined))
  /\ UNCHANGED earned

Selected(b, o) == [RowsOf(session[b]) EXCEPT !.selected = o]

PostSelectOrganization(b, o) ==
  /\ Passes(RowsOf(session[b]), 3)
  /\ RowsOf(session[b]).links[o].member
  /\ IssueSessionOrRedirect(b, Selected(b, o))
  /\ UNCHANGED earned

Confirmed(b, o) == [RowsOf(session[b]) EXCEPT !.links[o].pending = FALSE]

\* The page is behind the selection only; it changes nothing else.
GetOfficialContactEmailVerification(b) ==
  /\ Passes(RowsOf(session[b]), 4)
  /\ Save(b, WithSelection(RowsOf(session[b])))
  /\ UNCHANGED <<provider, interaction, earned>>

\* The code mailed to the official contact is given.
PostOfficialContactEmailVerification(b, o) ==
  /\ Passes(RowsOf(session[b]), 4)
  /\ RowsOf(session[b]).links[o].pending
  /\ IssueSessionOrRedirect(b, Confirmed(b, o))
  /\ UNCHANGED earned

\* The selection is left as it is.
PostQuitOrganization(b, o) ==
  LET w == RowsOf(session[b]) IN
  /\ Passes(w, 3)
  /\ w.links[o].member
  /\ Save(b, [w EXCEPT !.links[o] = NoLink])
  /\ UNCHANGED <<provider, interaction, earned>>

-------------------------------------------------------------------------------
(***************************************************************************)
(* oidc-provider.                                                          *)
(***************************************************************************)

\* The reasons of the login prompt: the client wants one that was not made in
\* this request, there is no session, or not at the level wanted.
ReasonsToLogin(x, p) ==
  {reason \in LoginReasons :
     CASE reason = "login_prompt" -> x.request.prompt = "login" /\ x.login = NoLogin
       [] reason = "no_session" -> p.account = None
       [] reason = "essential_acr" -> x.request.acr \notin {"absent", p.acr}
       [] OTHER -> x.request.acrs # {} /\ p.acr \notin x.request.acrs}

\* The prompts that are due, of which the first is made.
DuePrompts(x, p) ==
  << [name |-> "login", due |-> ReasonsToLogin(x, p) # {}],
     [name |-> "choose_organization",
      due |-> x.request.oneOrg /\ p.account # None /\ selected[p.account] = None],
     [name |-> "select_organization",
      due |-> x.request.prompt = "select_organization" /\ ~x.select],
     [name |-> "update_userinfo",
      due |-> x.request.prompt = "update_userinfo" /\ ~x.update] >>

Prompted(x, p, name) ==
  LET reasons == IF name = "login" THEN ReasonsToLogin(x, p) ELSE {}
      level == reasons \cap {"essential_acr", "essential_acrs"} # {}
  IN  [Unused EXCEPT !.stage = "prompted", !.browser = x.browser,
         !.request = x.request, !.origin = p.account,
         !.prompt = [name |-> name, reasons |-> reasons, essential |-> level,
                     value |-> IF level THEN x.request.acr ELSE "absent",
                     values |-> IF level THEN x.request.acrs ELSE {}]]

\* A prompt is made, or a code issued for the session p of the provider.
Decide(x, p) ==
  LET due == {k \in 1..4 : DuePrompts(x, p)[k].due} IN
  IF due = {}
  THEN [Unused EXCEPT !.stage = "code", !.browser = x.browser,
                      !.request = x.request, !.code = p]
  ELSE Prompted(x, p, DuePrompts(x, p)[CHOOSE k \in due : \A j \in due : k <= j].name)

\* A client sends the browser to /oauth/authorize.
Authorize(b, i, request) ==
  LET x == Decide([Unused EXCEPT !.browser = b, !.request = request], provider[b]) IN
  /\ interaction[i].stage = "none"
  /\ interaction' = [interaction EXCEPT ![i] = x]
  /\ UNCHANGED <<session, provider, selected, link, earned>>

\* oidc-provider finds an interaction again as long as the account of its
\* session is the one the prompt was made for.
SamePrincipal(b, i) == interaction[i].origin \in {None, provider[b].account}

\* The interaction was answered: the account of the answer has the session of
\* the provider, and what is due is decided again.  The prompt is destroyed; a
\* session that still leads to it leads nowhere from now on.
Resume(b, i) ==
  LET x == interaction[i]
      y == Decide(x, x.login)
  IN  /\ x.browser = b /\ x.stage = "answered"
      /\ SamePrincipal(b, i)
      /\ provider' = [provider EXCEPT ![b] = x.login]
      /\ interaction' = [interaction EXCEPT ![i] = y]
      /\ session' = [session EXCEPT
           ![b].interaction = IF @ = i THEN Former ELSE @]
      /\ UNCHANGED <<selected, link, earned>>

\* The client exchanges the code; the claims are read now.  It fails when one
\* organization is to be told and none is selected, or not one of the user's.
TokenRequest(i) ==
  LET x == interaction[i]
      u == x.code.account
      o == selected[u]
      told == x.request.oneOrg => o # None /\ link[u][o].member
  IN  /\ x.stage = "code"
      /\ interaction' = [interaction EXCEPT
           ![i].stage = IF told THEN "claims" ELSE "failed",
           ![i].organization = IF told /\ x.request.oneOrg THEN o ELSE None]
      /\ UNCHANGED <<session, provider, selected, link, earned>>

-------------------------------------------------------------------------------
(***************************************************************************)
(* Interactions (src/controllers/interaction.ts).                          *)
(***************************************************************************)
Pending(b, i) ==
  /\ i \in Interactions
  /\ interaction[i].browser = b
  /\ interaction[i].stage \in {"prompted", "answered"}

\* interactionDetails and interactionFinished do not throw SessionNotFound:
\* until it is resumed, an interaction is found after its answer as well.
Found(b, i) == Pending(b, i) /\ SamePrincipal(b, i)

\* Mistake: the value that nothing drops is not reset either.
ValuesOnTopOf(s, i) ==
  LET x == interaction[i] IN
  [s EXCEPT !.interaction = i,
            !.oneOrg = x.request.oneOrg,
            !.twoFa = twoFactorsAuthRequested(x.prompt),
            !.dirigeant = @ \/ certificationDirigeantRequested(x.prompt)]

\* What the start of an interaction writes to a session.
WithValuesOf(s, i) ==
  LET x == interaction[i] IN
  [s EXCEPT !.interaction = i,
            !.oneOrg = x.request.oneOrg,
            !.twoFa = twoFactorsAuthRequested(x.prompt),
            !.dirigeant = certificationDirigeantRequested(x.prompt)]

InteractionStart(b, i) ==
  /\ Found(b, i)
  /\ session' = [session EXCEPT ![b] = WithValuesOf(@, i)]
  /\ UNCHANGED <<provider, interaction, selected, link, earned>>

\* The answer for a session that passed the chain, given the prompt.
Answer(w, prompt) ==
  LET consistencyChecked == w.session.oneOrg /\ w.links[w.selected].checked IN
  [account |-> w.session.user,
   acr |-> currentAcr(w.session.two, consistencyChecked, w.session.dirigeant,
                      AlwaysEidas1, prompt)]

LinkIsSet(w) == w.session.oneOrg => w.links[w.selected].member

\* What remains of a request that passed the chain: an error for want of a
\* link, the home page when the session of the provider is another account's
\* by now, the refusal of a level that cannot be had, or the answer.
Answers(b, i, w) ==
  /\ LinkIsSet(w)
  /\ SamePrincipal(b, i)
  /\ isAcrSatisfied(interaction[i].prompt, Answer(w, interaction[i].prompt).acr)

InteractionEnd(b, i) ==
  LET x == interaction[i]
      before == RowsOf(session[b])
      w == WithSelection(before)
  IN  /\ Pending(b, i)
      /\ IF Stop(before) = "passed" /\ Answers(b, i, w)
         THEN /\ Save(b, [w EXCEPT !.session = ClearFlags(@)])
              /\ interaction' = [interaction EXCEPT
                   ![i].stage = "answered", ![i].login = Answer(w, x.prompt),
                   ![i].select = x.prompt.name = "select_organization",
                   ![i].update = x.prompt.name = "update_userinfo"]
         ELSE /\ \E y \in Chain(before) : Save(b, y)
              /\ UNCHANGED interaction
      /\ UNCHANGED <<provider, earned>>

\* From an error page: the client is told, if oidc-provider still knows the
\* interaction.
InteractionError(b, i) ==
  /\ session' = [session EXCEPT ![b] = ClearFlags(@)]
  /\ interaction' = IF Found(b, i)
                    THEN [interaction EXCEPT ![i] = [Unused EXCEPT !.stage = "denied"]]
                    ELSE interaction
  /\ UNCHANGED <<provider, selected, link, earned>>

\* "we may have taken to long to provide a session to the user"
InteractionExpires(i) ==
  /\ interaction[i].stage \in {"prompted", "answered"}
  /\ interaction' = [interaction EXCEPT ![i].stage = "expired", ![i].login = NoLogin]
  /\ UNCHANGED <<session, provider, selected, link, earned>>

-------------------------------------------------------------------------------
(***************************************************************************)
(* The end of sessions.                                                    *)
(***************************************************************************)

\* destroyAuthenticatedSession, on a page of the logout.
Logout(b) ==
  /\ session[b] # EmptySession
  /\ session' = [session EXCEPT ![b] = EmptySession]
  /\ selected' = [u \in Users |-> IF u = session[b].user THEN None ELSE selected[u]]
  /\ UNCHANGED link
  /\ UNCHANGED <<provider, interaction, earned>>

SessionExpires(b) ==
  /\ session[b] # EmptySession
  /\ session' = [session EXCEPT ![b] = EmptySession]
  /\ UNCHANGED <<provider, interaction, selected, link, earned>>

\* The logout is confirmed to the provider, or its session expires.
ProviderSessionEnds(b) ==
  /\ provider[b] # NoLogin
  /\ provider' = [provider EXCEPT ![b] = NoLogin]
  /\ UNCHANGED <<session, interaction, selected, link, earned>>
-------------------------------------------------------------------------------
SignInRoutes(b) ==
  \/ \E u \in Users, two \in BOOLEAN : SignIn(b, u, two)
  \/ SecondFactor(b)
  \/ VisitPage(b)

OrganizationRoutes(b) ==
  \/ GetOfficialContactEmailVerification(b)
  \/ \E o \in Organizations :
       \/ \E joined \in JoinedLinks : PostJoinOrganization(b, o, joined)
       \/ PostSelectOrganization(b, o)
       \/ PostOfficialContactEmailVerification(b, o)
       \/ PostQuitOrganization(b, o)

InteractionRoutes(b) ==
  \/ \E i \in Interactions :
       \/ \E request \in Requests : Authorize(b, i, request)
       \/ InteractionStart(b, i)
       \/ InteractionEnd(b, i)
       \/ Resume(b, i)
  \/ \E i \in Interactions \cup {Former} : InteractionError(b, i)

Next ==
  \/ \E b \in Browsers :
       \/ SignInRoutes(b)
       \/ OrganizationRoutes(b)
       \/ InteractionRoutes(b)
       \/ Logout(b)
       \/ SessionExpires(b)
       \/ ProviderSessionEnds(b)
  \/ \E i \in Interactions : TokenRequest(i) \/ InteractionExpires(i)

Spec == Init /\ [][Next]_vars
=============================================================================
