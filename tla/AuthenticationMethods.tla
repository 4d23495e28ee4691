------------------------ MODULE AuthenticationMethods ------------------------
(***************************************************************************)
(* The authentication method references ("amr") of a session and what they *)
(* amount to: src/services/security.ts, and the parts of                   *)
(* src/managers/session/authenticated.ts that read them.                   *)
(*                                                                         *)
(* The code keeps the references in an array without duplicates and only   *)
(* ever asks whether a value is in it, so a set stands for the array.      *)
(***************************************************************************)
EXTENDS Naturals

\* Every value a session's amr may hold.
AmrValue == {"pwd", "email-link", "email-otp", "totp", "pop", "uv", "mfa"}

\* The methods with which createAuthenticatedSession is called.
FirstFactors == {"pwd", "email-link", "pop"}

\* Operators whose comment begins with "Mistake" are what the next one would
\* be with a bug in it; nothing uses them.

\* Mistake: signing in with a password makes a browser trusted.
TRUSTED_AMR_VALUES_WITH_PASSWORDS ==
  {"pwd", "pop", "totp", "email-link", "email-otp"}

\* Methods that show possession of the mailbox or of an authenticator: the
\* browser they are used from is trusted for the user from then on.
TRUSTED_AMR_VALUES == {"pop", "totp", "email-link", "email-otp"}

\* Mistake: a passkey that verified its user still counts as one factor.
IsTwoFactorAuthenticatedByTwoMeans(amr) ==
  amr \cap {"pwd", "email-link"} # {} /\ amr \cap {"totp", "pop"} # {}

isTwoFactorAuthenticated(amr) ==
  \/ amr \cap {"pwd", "email-link"} # {} /\ amr \cap {"totp", "pop"} # {}
  \/ {"pop", "uv"} \subseteq amr

isOneFactorAuthenticated(amr) == amr \cap FirstFactors # {}

\* "mfa" is added by the first method that makes the session two-factor.
addAuthenticationMethodReference(amr, method) ==
  LET newAmr == amr \cup {method}
  IN  newAmr \cup IF isTwoFactorAuthenticated(newAmr) THEN {"mfa"} ELSE {}

\* Several methods in a row, as a passkey that verifies its user adds "pop"
\* and then "uv": the order does not matter (AddingOneByOne proves it).
addAuthenticationMethodReferences(amr, methods) ==
  LET newAmr == amr \cup methods
  IN  newAmr \cup IF isTwoFactorAuthenticated(newAmr) THEN {"mfa"} ELSE {}

\* What clients are told: the internal values are dropped, a magic link is a
\* "mail" authentication.
standardizedAmr(amr) ==
  (amr \ {"uv", "email-otp", "email-link"})
    \cup IF "email-link" \in amr THEN {"mail"} ELSE {}
=============================================================================
