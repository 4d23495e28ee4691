------------------------- MODULE InteractionProperties -------------------------
(***************************************************************************)
(* What the requests of module Interaction must guarantee together.        *)
(***************************************************************************)
EXTENDS Interaction

Issued(i) == interaction[i].code # NoLogin

(***************************************************************************)
(* A code is issued for an account that signed in with that very browser,  *)
(* and a two-factor level only if that account showed two factors there:   *)
(* whatever users shared the browser, and however the session of the       *)
(* provider and the express session went separate ways                     *)
(* (controllers/interaction.ts computes the level from the one, codes are  *)
(* issued from the other).                                                 *)
(***************************************************************************)
LevelIsEarned ==
  \A i \in Interactions : Issued(i) =>
    LET x == interaction[i] IN
    /\ \E two \in BOOLEAN : <<x.browser, x.code.account, two>> \in earned
    /\ x.code.acr \in Aal2Acrs => <<x.browser, x.code.account, TRUE>> \in earned

\* Interaction i is answered by a browser whose session leads back to it.
AnsweredInTurn(i) ==
  /\ interaction[i]' # interaction[i] /\ interaction[i].stage' = "answered"
  /\ session[interaction[i].browser].interaction = i

(***************************************************************************)
(* What an interaction is answered with, in turn, is decided by what its   *)
(* own client asked for, whichever others the browser started, answered    *)
(* or gave up before, and whoever signed in meanwhile: it has the          *)
(* certification level exactly if it asked for it, a client that is told   *)
(* one organization gets the answer of a user who selected one and is a    *)
(* member of it, and only such a client gets a consistency-checked level.  *)
(* controllers/interaction.ts decides by values in the session that an     *)
(* earlier request left there, and drops all of them but one.              *)
(***************************************************************************)
AnswersAreTheirOwn ==
  [][\A i \in Interactions : AnsweredInTurn(i) =>
       LET x == interaction[i]
           login == interaction[i].login'
       IN  /\ login.acr = CertificationDirigeant
                <=> certificationDirigeantRequested(x.prompt) /\ ~AlwaysEidas1
           /\ login.acr \in {"IAL2_AAL1", "IAL2_AAL2"} => x.request.oneOrg
           /\ x.request.oneOrg =>
                \E o \in Organizations :
                  selected'[login.account] = o /\ link'[login.account][o].member]_vars

(***************************************************************************)
(* An interaction is answered with a consistency-checked level only for a  *)
(* user whose selected organization was joined by a check that is done:    *)
(* isIdentityConsistencyChecked counts the verification type of a link     *)
(* whose official contact has not answered yet, and relies on the chain to *)
(* stop the user before.                                                   *)
(***************************************************************************)
ConsistencyIsChecked ==
  [][\A i \in Interactions :
       LET login == interaction[i].login' IN
       (login # interaction[i].login /\ login.acr \in {"IAL2_AAL1", "IAL2_AAL2"}) =>
         \E o \in Organizations :
           /\ selected'[login.account] = o
           /\ LET l == link'[login.account][o] IN l.member /\ l.checked /\ ~l.pending]_vars

\* The user is signed in already: a code is issued without any prompt.
IssuedSilently(i) == interaction[i].stage = "none" /\ interaction'[i].stage = "code"

(***************************************************************************)
(* A client that is told one organization gets a code at once only for an  *)
(* account that has selected one it is a member of: "End-User must select  *)
(* one organization" (services/oidc-policy.ts), and the claims of the code *)
(* are refused otherwise ("organization should be set",                    *)
(* services/oidc-account-adapter.ts).                                      *)
(***************************************************************************)
SilentCodesNameAMembership ==
  [][\A i \in Interactions :
       LET x == interaction[i]' IN
       (IssuedSilently(i) /\ x.request.oneOrg) =>
         \E o \in Organizations :
           selected[x.code.account] = o /\ link[x.code.account][o].member]_vars

Asked(i) == interaction[i].stage = "prompted"

(***************************************************************************)
(* The interaction start asks the user for a second factor exactly when    *)
(* the interaction end would refuse every session that lacks one and       *)
(* accept some session that has one: the two controllers read the same     *)
(* prompt through different functions (services/acr-checks.ts), at two     *)
(* ends of a journey of redirections.                                      *)
(***************************************************************************)
TwoFactorsRequestedIsNecessary ==
  \A i \in Interactions : Asked(i) =>
    LET CanEnd(two) == CanBeMet(interaction[i].prompt, AlwaysEidas1, two) IN
    twoFactorsAuthRequested(interaction[i].prompt) <=> CanEnd(TRUE) /\ ~CanEnd(FALSE)

(***************************************************************************)
(* A user is asked to sign in for a level that some session obtains, if    *)
(* the client accepts one of the four ordinary levels, or the one special  *)
(* level the feature flag leaves, and only then: with                      *)
(* FEATURE_ALWAYS_RETURN_EIDAS1_FOR_ACR no session ever obtains the        *)
(* certification-dirigeant level, without it none obtains eidas1, and the  *)
(* interaction of a client that wants only that one has no end.            *)
(***************************************************************************)
RequestsThatCanBeMet ==
  \A i \in Interactions : Asked(i) =>
    LET prompt == interaction[i].prompt
        special == IF AlwaysEidas1 THEN "eidas1" ELSE CertificationDirigeant
    IN  containsEssentialAcrs(prompt) =>
          ((\E two \in BOOLEAN : CanBeMet(prompt, AlwaysEidas1, two))
             <=> ({prompt.value} \cup prompt.values) \cap
                   (Aal1Acrs \cup Aal2Acrs \cup {special}) # {})

\* Where a user stands in an organization, by the link.
StandingOf(l) ==
  IF ~l.member THEN "outside"
  ELSE IF l.pending THEN "to_confirm"
  ELSE IF l.checked THEN "verified" ELSE "asserted"

\* Every user has a place of its own in every organization.
Places ==
  INSTANCE Membership WITH
    Users <- Users \X Organizations,
    status <- [place \in Users \X Organizations |-> StandingOf(link[place[1]][place[2]])]

(***************************************************************************)
(* Whatever pages a user is led through: a request changes the place of    *)
(* that user in one organization at most, and what was verified there      *)
(* stays so until the user leaves (controllers/organization.ts; the chain  *)
(* of middlewares/user.ts writes to links as well).                        *)
(***************************************************************************)
ImplementsMembership == Places!Spec
=============================================================================
