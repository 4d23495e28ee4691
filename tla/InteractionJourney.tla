-------------------------- MODULE InteractionJourney --------------------------
(***************************************************************************)
(* The way of a browser through an authorization request: every redirect   *)
(* of module Interaction is followed, every page is answered, and the way  *)
(* must come to an end.  Another tab, a clock or a sign-out may interfere  *)
(* for a while.                                                            *)
(***************************************************************************)
EXTENDS Interaction

CONSTANTS
  MaxDistractions   \* how many times something interferes

ASSUME DistractionsAssumption == MaxDistractions \in Nat

VARIABLES
  page,             \* where a browser is: a page, and the interaction or organization of it
  distractions      \* how many times something interfered
journeyVars == <<vars, page, distractions>>

\* A page shown behind a part of the requirements chain, by its number of links.
Gate ==
  [name \in {"start-sign-in", "2fa-sign-in", "join-organization", "personal-information",
             "select-organization", "official-contact", "welcome"} |->
     CASE name = "start-sign-in" -> 0
       [] name = "2fa-sign-in" -> 1
       [] name \in {"join-organization", "personal-information"} -> 2
       [] name = "select-organization" -> 3
       [] name = "official-contact" -> 4
       [] OTHER -> 6]

\* An error page without a link, and the page that says a second factor is
\* missing, lead nowhere; nor does the home page, as far as a request goes.
Ends == {"home", "client", "connection-and-account", "error-without-link"}

Page(name, of) == [name |-> name, of |-> of]

Pages ==
  [name : DOMAIN Gate \cup Ends \cup {"error", "interaction", "interaction-login", "resume"},
   of : Interactions \cup Organizations \cup {None, Former}]

JourneyTypeOK == page \in [Browsers -> Pages] /\ distractions \in 0..MaxDistractions

JourneyInit ==
  /\ Init
  /\ page = [b \in Browsers |-> Page("home", None)]
  /\ distractions = 0

AtEnd(b) == page[b].name \in Ends

-------------------------------------------------------------------------------
At(b, name) == page[b].name = name /\ UNCHANGED distractions

MoveTo(b, p) == page' = [page EXCEPT ![b] = p]

\* The page of the first condition that is not met; one of an official
\* contact is that of a link to confirm.
Obstacle(w) ==
  Page(Stop(w),
       IF Stop(w) = "official-contact"
       THEN CHOOSE o \in Concerned(WithSelection(w)) : w.links[o].pending
       ELSE None)

\* Mistake: the interaction is forgotten on the way.
LandingAtHome(w) == IF Stop(w) # "passed" THEN Obstacle(w) ELSE Page("home", None)

\* Where the chain and issueSessionOrRedirectController send a request.
Landing(w) ==
  IF Stop(w) # "passed" THEN Obstacle(w)
  ELSE IF w.session.interaction # None THEN Page("interaction-login", w.session.interaction)
  ELSE Page("home", None)

\* Error pages link to the end of the interaction in the session.
ErrorPage(s) ==
  IF s.interaction # None THEN Page("error", s.interaction)
  ELSE Page("error-without-link", None)

\* What /oauth/authorize and the resume endpoint redirect to.
AfterDecision(i, x) ==
  Page(IF x.stage = "prompted" THEN "interaction" ELSE "client", i)

\* The client sends the browser with a new request.
Asks(b, i, request) ==
  /\ AtEnd(b) /\ UNCHANGED distractions
  /\ Authorize(b, i, request)
  /\ MoveTo(b, AfterDecision(i, interaction'[i]))

-------------------------------------------------------------------------------
(***************************************************************************)
(* The pages of the sign-in, each with the form it shows.                  *)
(***************************************************************************)
Behind(b, name) == At(b, name) /\ Passes(RowsOf(session[b]), Gate[name])

\* The page asks for more than the browser has (any more).
AskedForMore(b) ==
  /\ page[b].name \in DOMAIN Gate
  /\ ~Passes(RowsOf(session[b]), Gate[page[b].name])
  /\ VisitPage(b)
  /\ MoveTo(b, Landing(RowsOf(session[b])))
  /\ UNCHANGED distractions

SignsIn(b) ==
  /\ Behind(b, "start-sign-in")
  /\ \E u \in Users, two \in BOOLEAN :
       SignIn(b, u, two) /\ MoveTo(b, Landing(SignedIn(b, u, two)))

GivesSecondFactor(b) ==
  /\ Behind(b, "2fa-sign-in")
  /\ SecondFactor(b) /\ MoveTo(b, Landing(WithTwoFactors(b)))

\* A user without a second factor, who signed in meanwhile in another tab:
\* the page offers nothing but to use another email.
ChangesEmail(b) ==
  /\ Behind(b, "2fa-sign-in")
  /\ session[b].user \notin Capable
  /\ MoveTo(b, Page("start-sign-in", None))
  /\ UNCHANGED vars

Joins(b) ==
  /\ Behind(b, "join-organization")
  /\ \E o \in Organizations, joined \in JoinedLinks :
       PostJoinOrganization(b, o, joined) /\ MoveTo(b, Landing(Joined(b, o, joined)))

\* "user_in_organization_already": another tab joined it, and the user goes to
\* the home page.
HasJoinedAlready(b) ==
  /\ Behind(b, "join-organization")
  /\ Memberships(RowsOf(session[b])) # {}
  /\ MoveTo(b, Page("home", None))
  /\ UNCHANGED vars

Selects(b) ==
  /\ Behind(b, "select-organization")
  /\ \E o \in Organizations :
       PostSelectOrganization(b, o) /\ MoveTo(b, Landing(Selected(b, o)))

Confirms(b) ==
  LET o == page[b].of IN
  /\ Behind(b, "official-contact")
  /\ PostOfficialContactEmailVerification(b, o)
  /\ MoveTo(b, Landing(Confirmed(b, o)))

\* "official_contact_email_verification_not_needed", or no such link.
NothingToConfirm(b) ==
  LET o == page[b].of
      w == WithSelection(RowsOf(session[b]))
  IN  /\ Behind(b, "official-contact")
      /\ ~w.links[o].pending
      /\ GetOfficialContactEmailVerification(b)
      /\ MoveTo(b, IF w.links[o].member THEN Page("join-organization", None)
                   ELSE ErrorPage(w.session))

\* The forms that only lead on.
Continues(b) ==
  /\ \/ Behind(b, "welcome")
     \/ Behind(b, "personal-information")
  /\ VisitPage(b) /\ MoveTo(b, Landing(RowsOf(session[b])))

-------------------------------------------------------------------------------
(***************************************************************************)
(* The redirects of the interaction controllers and of oidc-provider.      *)
(***************************************************************************)

\* Mistake: a page is looked up by the name of the prompt.
PageNamedAfterPrompt(i, prompt) == Page(prompt.name, None)

PageOfPrompt(i, prompt) ==
  IF prompt.name = "login" /\ "login_prompt" \in prompt.reasons
  THEN Page("start-sign-in", None)
  ELSE IF prompt.name \in {"login", "choose_organization"} THEN Page("interaction-login", i)
  ELSE IF prompt.name = "select_organization" THEN Page("select-organization", None)
  ELSE Page("personal-information", None)

StartsInteraction(b) ==
  LET i == page[b].of IN
  /\ At(b, "interaction")
  /\ InteractionStart(b, i)
  /\ MoveTo(b, PageOfPrompt(i, interaction[i].prompt))

\* interactionDetails throws SessionNotFound: expired, denied, resumed, or
\* another account has the session of the provider by now.
StartsLostInteraction(b) ==
  LET i == page[b].of IN
  /\ At(b, "interaction")
  /\ ~Found(b, i)
  /\ MoveTo(b, ErrorPage(session[b]))
  /\ UNCHANGED vars

\* What the end of an interaction redirects to.
PageOfEnd(b, i) ==
  LET w == RowsOf(session[b])
      chosen == WithSelection(w)
  IN  IF Stop(w) # "passed" THEN Obstacle(w)
      ELSE IF ~LinkIsSet(chosen) THEN ErrorPage(w.session)
      ELSE IF ~Found(b, i) THEN Page("home", None)
      ELSE IF Answers(b, i, chosen) THEN Page("resume", i)
      ELSE ErrorPage(w.session)

EndsInteraction(b) ==
  LET i == page[b].of IN
  /\ At(b, "interaction-login")
  /\ IF Pending(b, i) THEN InteractionEnd(b, i) ELSE VisitPage(b)
  /\ MoveTo(b, PageOfEnd(b, i))

Resumes(b) ==
  LET i == page[b].of IN
  /\ At(b, "resume")
  /\ Resume(b, i)
  /\ MoveTo(b, AfterDecision(i, interaction'[i]))

ResumesLostInteraction(b) ==
  LET i == page[b].of IN
  /\ At(b, "resume")
  /\ ~(interaction[i].stage = "answered" /\ SamePrincipal(b, i))
  /\ MoveTo(b, Page("error-without-link", None))
  /\ UNCHANGED vars

FollowsErrorLink(b) ==
  LET i == page[b].of IN
  /\ At(b, "error")
  /\ InteractionError(b, i)
  /\ MoveTo(b, IF Found(b, i) THEN Page("client", i)
               ELSE Page("error-without-link", None))

-------------------------------------------------------------------------------
\* Elsewhere in the browser, or by the passing of time; the page stays.
Distraction(b) ==
  /\ distractions < MaxDistractions
  /\ distractions' = distractions + 1
  /\ UNCHANGED page
  /\ \/ SignInRoutes(b)
     \/ OrganizationRoutes(b)
     \/ Logout(b)
     \/ SessionExpires(b)
     \/ ProviderSessionEnds(b)
     \/ \E i \in Interactions :
          InteractionStart(b, i) \/ InteractionEnd(b, i) \/ InteractionExpires(i)

Proceed(b) ==
  \/ AskedForMore(b)
  \/ SignsIn(b) \/ GivesSecondFactor(b) \/ ChangesEmail(b)
  \/ Joins(b) \/ HasJoinedAlready(b) \/ Selects(b) \/ Confirms(b) \/ NothingToConfirm(b)
  \/ Continues(b)
  \/ StartsInteraction(b) \/ StartsLostInteraction(b)
  \/ EndsInteraction(b)
  \/ Resumes(b) \/ ResumesLostInteraction(b)
  \/ FollowsErrorLink(b)

Redeem(i) == TokenRequest(i) /\ UNCHANGED <<page, distractions>>

JourneyNext ==
  \/ \E b \in Browsers :
       \/ Proceed(b)
       \/ Distraction(b)
       \/ \E i \in Interactions, request \in Requests : Asks(b, i, request)
  \/ \E i \in Interactions : Redeem(i)

\* Browsers follow redirects and users answer the page they are shown.
JourneySpec ==
  JourneyInit /\ [][JourneyNext]_journeyVars /\ \A b \in Browsers : WF_journeyVars(Proceed(b))

(***************************************************************************)
(* A browser never stays under way for ever: whatever interferes, redirects*)
(* and forms lead to the client, to the home page or to a page that says   *)
(* what is wrong (middlewares/user.ts and controllers/interaction.ts       *)
(* redirect to each other's pages).                                        *)
(***************************************************************************)
JourneysEnd == \A b \in Browsers : []<>AtEnd(b)

(***************************************************************************)
(* A request nothing interferes with is answered: from each of its prompts *)
(* on, its interaction comes to a code or a refusal, or its user learns    *)
(* that a second factor is missing; it is never forgotten on the way, nor  *)
(* prompted for ever.                                                      *)
(***************************************************************************)
RequestsAreAnswered ==
  \A b \in Browsers, i \in Interactions :
    page[b] = Page("interaction", i) ~>
      \/ interaction[i].stage \notin {"prompted", "answered"}
      \/ distractions > 0
      \/ page[b].name = "connection-and-account"
=============================================================================
