------------------------- MODULE MCInteractionJourney -------------------------
(* Instances of InteractionJourney for TLC. *)
EXTENDS InteractionJourney, InteractionProperties, TLC

OneOrg == [NoRequest EXCEPT !.oneOrg = TRUE]
Update == [NoRequest EXCEPT !.prompt = "update_userinfo"]
SignInAnew == [OneOrg EXCEPT !.prompt = "login"]
Select == [OneOrg EXCEPT !.prompt = "select_organization"]
SelectTwoFactors == [Select EXCEPT !.acrs = Aal2Acrs]
SelectCertified == [Select EXCEPT !.acrs = {CertificationDirigeant}]

SelfAsserted == [NoLink EXCEPT !.member = TRUE]
\* To be checked with the official contact of the organization.
ToBeChecked == [SelfAsserted EXCEPT !.checked = TRUE, !.pending = TRUE]
ToCheck == {ToBeChecked}
SelfAssertedOrToCheck == {SelfAsserted, ToBeChecked}
UsualRequests == {Update, SignInAnew, SelectTwoFactors}

OneTwoFactors == [NoRequest EXCEPT !.acr = "IAL1_AAL2"]
TwoFactorsIfPossible == [OneOrg EXCEPT !.acrs = {"IAL1_AAL1", "IAL1_AAL2"}]
Dirigeant == [OneOrg EXCEPT !.acr = CertificationDirigeant]
DirigeantOrEidas1 == [NoRequest EXCEPT !.acrs = {CertificationDirigeant, "eidas1"}]
Eidas1 == [NoRequest EXCEPT !.acr = "eidas1"]
LevelRequests == {OneTwoFactors, TwoFactorsIfPossible, Dirigeant, DirigeantOrEidas1, Eidas1}

Made == {i \in Interactions : interaction[i].stage # "none"}

\* Two of the usual requests, or one for a certification and one that asks for
\* no level, with links that were checked; or any one request.
TwoUsualOrOneLevel ==
  \/ /\ \/ \A i \in Made : interaction[i].request \in UsualRequests
        \/ {interaction[i].request : i \in Made} = {Dirigeant, Update}
     /\ \A u \in Users, o \in Organizations : link[u][o].member => link[u][o].checked
  \/ Made = {CHOOSE i \in Interactions : TRUE}

AnyRequests == UsualRequests \cup LevelRequests

SpecOfEach ==
  JourneyInit /\ [][JourneyNext /\ TwoUsualOrOneLevel']_journeyVars
  /\ \A b \in Browsers : WF_journeyVars(Proceed(b))
CertifiedSelection == {SelectCertified}
=============================================================================
