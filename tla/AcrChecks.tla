------------------------------ MODULE AcrChecks ------------------------------
(***************************************************************************)
(* What an OpenID client's request for an assurance level ("acr") means:   *)
(* src/services/acr-checks.ts, and the acr the interaction end computes    *)
(* (src/controllers/interaction.ts).                                       *)
(*                                                                         *)
(* A prompt is what oidc-provider hands to the interaction: its name, the  *)
(* reasons for it and, when a reason is an unmet acr, the requested value  *)
(* or values.  An absent list of values and an empty one behave the same.  *)
(*                                                                         *)
(* Operators whose comment begins with "Mistake" are what the next one     *)
(* would be with a bug in it; nothing uses them.                           *)
(***************************************************************************)
EXTENDS FiniteSets

Aal1Acrs == {"IAL1_AAL1", "IAL2_AAL1"}
Aal2Acrs == {"IAL1_AAL2", "IAL2_AAL2"}
CertificationDirigeant == "CERTIFICATION_DIRIGEANT"
Acr == Aal1Acrs \cup Aal2Acrs \cup {CertificationDirigeant, "eidas1"}

PromptNames ==
  {"login", "choose_organization", "select_organization", "update_userinfo"}
LoginReasons == {"login_prompt", "no_session", "essential_acr", "essential_acrs"}

Prompt == [name : PromptNames, reasons : SUBSET LoginReasons,
           essential : BOOLEAN, value : Acr \cup {"absent"}, values : SUBSET Acr]

containsEssentialAcrs(prompt) ==
  /\ prompt.name = "login"
  /\ prompt.reasons \cap {"essential_acr", "essential_acrs"} # {}

\* Mistake: a request with several values is not looked at.
AreAcrsRequestedByValue(prompt, acrs) ==
  /\ prompt.name = "login"
  /\ prompt.essential
  /\ "essential_acr" \in prompt.reasons /\ prompt.value \in acrs

areAcrsRequestedInPrompt(prompt, acrs) ==
  /\ prompt.name = "login"
  /\ prompt.essential
  /\ \/ "essential_acr" \in prompt.reasons /\ prompt.value \in acrs
     \/ "essential_acrs" \in prompt.reasons /\ prompt.values \cap acrs # {}

\* Mistake: two factors are asked of the user as soon as they are of use.
TwoFactorsAuthWelcome(prompt) ==
  containsEssentialAcrs(prompt) /\ areAcrsRequestedInPrompt(prompt, Aal2Acrs)

\* Two factors are asked of the user when only two-factor levels would do.
twoFactorsAuthRequested(prompt) ==
  /\ containsEssentialAcrs(prompt)
  /\ areAcrsRequestedInPrompt(prompt, Aal2Acrs)
  /\ ~areAcrsRequestedInPrompt(prompt, Aal1Acrs)

\* The certification is delivered when no ordinary level would do.
certificationDirigeantRequested(prompt) ==
  /\ containsEssentialAcrs(prompt)
  /\ areAcrsRequestedInPrompt(prompt, {CertificationDirigeant})
  /\ ~areAcrsRequestedInPrompt(prompt, Aal1Acrs \cup Aal2Acrs)

isThereAnyRequestedAcr(prompt) ==
  areAcrsRequestedInPrompt(prompt, Aal1Acrs \cup Aal2Acrs)

isAcrSatisfied(prompt, currentAcr) ==
  containsEssentialAcrs(prompt) => areAcrsRequestedInPrompt(prompt, {currentAcr})

\* The level the interaction end computes for a session; alwaysEidas1 is
\* FEATURE_ALWAYS_RETURN_EIDAS1_FOR_ACR.
currentAcr(twoFactored, consistencyChecked, dirigeantRequested, alwaysEidas1, prompt) ==
  IF alwaysEidas1 /\ ~isThereAnyRequestedAcr(prompt) THEN "eidas1"
  ELSE IF dirigeantRequested THEN CertificationDirigeant
  ELSE IF consistencyChecked
       THEN IF twoFactored THEN "IAL2_AAL2" ELSE "IAL2_AAL1"
       ELSE IF twoFactored THEN "IAL1_AAL2" ELSE "IAL1_AAL1"
-------------------------------------------------------------------------------
\* What a session obtains, given the factors and the link its user has.
AnswerTo(prompt, alwaysEidas1, twoFactored, consistencyChecked) ==
  currentAcr(twoFactored, consistencyChecked,
             certificationDirigeantRequested(prompt), alwaysEidas1, prompt)

\* Some session would be accepted, whatever the link of its user.
CanBeMet(prompt, alwaysEidas1, twoFactored) ==
  \E checked \in BOOLEAN :
    isAcrSatisfied(prompt, AnswerTo(prompt, alwaysEidas1, twoFactored, checked))
=============================================================================
