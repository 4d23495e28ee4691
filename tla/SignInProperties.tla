---------------------------- MODULE SignInProperties ----------------------------
(***************************************************************************)
(* What the requests of module SignIn must guarantee together.             *)
(***************************************************************************)
EXTENDS SignIn

(***************************************************************************)
(* A session can only be issued from a browser where the mailbox or an     *)
(* authenticator of that very user was used at some time, whatever users   *)
(* shared the browser and whatever the password was (the promise behind    *)
(* checkUserIsVerifiedMiddleware and the one-user trusted-browser cookie). *)
(***************************************************************************)
TrustIsEarned ==
  AuthenticateBrowser =>
    \A b \in Browsers : Issuable(b) => <<b, session[b].user>> \in possession

\* Why it holds: the cookie is only ever set along with a proof of possession.
CookiesAreEarned ==
  \A b \in Browsers : trusted[b] # None => <<b, trusted[b]>> \in possession

(***************************************************************************)
(* Whoever is sent to the second factor page finds there a factor that     *)
(* completes the session: an authenticator app, or a passkey that is not   *)
(* the factor already used (controllers/user/2fa-sign-in.ts hides passkeys *)
(* from a session that used one).                                          *)
(***************************************************************************)
SecondFactorPageOffersAFactor ==
  \A b \in Browsers :
    LET s == session[b] IN
    (NeedsTwoFactor(s) /\ is2FACapable(account[s.user])) =>
      account[s.user].totp \/ "pop" \notin s.amr

(***************************************************************************)
(* Two-factor authentication is never forced on an account that has no     *)
(* second factor: its user could sign in nowhere (2fa.ts throws            *)
(* UserIsNot2faCapableError rather than let this happen).                  *)
(***************************************************************************)
ForcedUserIsCapable ==
  \A u \in Users : account[u].force2fa => is2FACapable(account[u])

(***************************************************************************)
(* The pages of the sign-in never redirect in circles, for a session whose *)
(* copy of email_verified is not behind the database: every chain of       *)
(* redirects ends at a page the user can act on.                           *)
(***************************************************************************)
RedirectsSettleWhenCurrent ==
  \A b \in Browsers :
    (Connected(b) /\ session[b].verified = account[session[b].user].verified) =>
      \A page \in DOMAIN PageLevel : Settles(b, page)

(***************************************************************************)
(* The notification no_need_to_verify_email_address tells the user that    *)
(* the address needs no verification any more; the page it is shown on     *)
(* must then not send the user back to verify it.                          *)
(***************************************************************************)
RedirectsSettle ==
  \A b \in Browsers :
    Connected(b) => \A page \in DOMAIN PageLevel : Settles(b, page)

(***************************************************************************)
(* The auth_time a client is given is never before the sign-in of the      *)
(* session it is given for: session.user is the row as updated by the      *)
(* sign-in, never the row read before it.                                  *)
(***************************************************************************)
AuthTimeNotBeforeSignIn ==
  \A b \in Browsers : Connected(b) =>
    /\ ownSignIn[b] = "last" => session[b].lastSignIn = "last"
    /\ ownSignIn[b] = "earlier" => session[b].lastSignIn # "old"

(***************************************************************************)
(* The means of authentication of an account that has a second factor are  *)
(* only changed from a session of its user that used one.                  *)
(***************************************************************************)
FactorsOf(u) == <<account[u].totp, account[u].passkeys, account[u].force2fa>>

FactorsChangeWithTwoFactors ==
  [][\A u \in Users :
       (FactorsOf(u)' # FactorsOf(u) /\ is2FACapable(account[u])) =>
         \E b \in Browsers :
           session[b].user = u /\ isTwoFactorAuthenticated(session[b].amr)]_vars

(***************************************************************************)
(* A session passes to another user only by a sign-in of that user with a  *)
(* single method: no factor shown for one user counts for another, though  *)
(* the browser keeps the interaction that was going on.                    *)
(***************************************************************************)
FactorsAreNotInherited ==
  [][\A b \in Browsers :
       session'[b].user \notin {session[b].user, None} =>
         session'[b].amr \in {{"pwd"}, {"email-link"}, {"pop", "uv", "mfa"}}]_vars
=============================================================================
