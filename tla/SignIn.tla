-------------------------------- MODULE SignIn --------------------------------
(***************************************************************************)
(* Authentication in ProConnect Identite: the users table, the express     *)
(* sessions and trusted-browser cookies of the browsers, and every route   *)
(* that signs a user in, adds a factor to a session, verifies an email     *)
(* address or changes the means of authentication of an account.           *)
(*                                                                         *)
(* One action is one request: the middleware chain in front of the route   *)
(* (src/routers/user.ts, src/routers/main.ts), its controller and the      *)
(* chain that runs behind it.  Requests of different browsers interleave   *)
(* freely; the awaits inside one request are those of AccountRequests.     *)
(***************************************************************************)
EXTENDS AuthenticationMethods, FiniteSets

CONSTANTS
  Users,            \* the persons, each with one email address
  Browsers,         \* each with one cookie jar
  None,             \* no user
  Passkeys,         \* the WebAuthn authenticators a user may register
  Mails,            \* the mailed secrets exercised: "verify", "magic", "reset"
  Clocks,           \* the delays that may elapse: "sign-in", "token", "verification"
  AuthenticateBrowser, \* FEATURE_AUTHENTICATE_BROWSER
  InitialAccounts   \* the rows the users table may start with

ASSUME NoneAssumption == None \notin Users
ASSUME MailsAssumption == Mails \subseteq {"verify", "magic", "reset"}
ASSUME ClocksAssumption == Clocks \subseteq {"sign-in", "token", "verification"}

VARIABLES
  account,      \* the row of a user in the users and authenticators tables
  session,      \* the express session of a browser
  trusted,      \* the user id in the trusted-browser cookie of a browser
  possession,   \* history: <<b, u>> when u's mailbox or authenticator was used from b
  ownSignIn     \* history: when the session of a browser was itself signed in

vars == <<account, session, trusted, possession, ownSignIn>>

(***************************************************************************)
(* users.last_sign_in_at, compared only with "fifteen minutes ago" and     *)
(* with the other sign-ins of the same user: the last sign-in, an earlier  *)
(* one that is still recent, or one that is not recent any more.           *)
(***************************************************************************)
SignInTime == {"old", "earlier", "last"}

\* email_verified and "email_verified_at is less than three months old" are
\* two fields: a sign-up resets the first and leaves the second.  A token is
\* in "tokens" while it is set and not expired, the only test made of it.
Account ==
  [exists : BOOLEAN, password : BOOLEAN, verified : BOOLEAN,
   verifiedRecently : BOOLEAN, tokens : SUBSET Mails, totp : BOOLEAN,
   passkeys : SUBSET Passkeys, force2fa : BOOLEAN, info : BOOLEAN,
   lastSignIn : SignInTime]

ASSUME InitialAccountsAssumption == InitialAccounts \subseteq Account

\* session.user is a copy of the row: verified, info and lastSignIn are the
\* fields of that copy the code reads.  twoFa is twoFactorsAuthRequested.
Session ==
  [email : Users \cup {None}, user : Users \cup {None}, verified : BOOLEAN,
   info : BOOLEAN, lastSignIn : SignInTime, amr : SUBSET AmrValue,
   twoFa : BOOLEAN]

EmptySession ==
  [email |-> None, user |-> None, verified |-> FALSE, info |-> FALSE,
   lastSignIn |-> "old", amr |-> {}, twoFa |-> FALSE]

TypeOK ==
  /\ account \in [Users -> Account]
  /\ session \in [Browsers -> Session]
  /\ trusted \in [Browsers -> Users \cup {None}]
  /\ possession \subseteq Browsers \X Users
  /\ ownSignIn \in [Browsers -> SignInTime]

Init ==
  /\ account \in [Users -> InitialAccounts]
  /\ session = [b \in Browsers |-> EmptySession]
  /\ trusted = [b \in Browsers |-> None]
  /\ possession = {}
  /\ ownSignIn = [b \in Browsers |-> "old"]

-------------------------------------------------------------------------------
(***************************************************************************)
(* The row of a user as the managers update it (src/managers).  Operators  *)
(* whose comment begins with "Mistake" are what the next one would be with *)
(* a bug in it: no action uses them.                                       *)
(***************************************************************************)

NewAccount ==
  [exists |-> TRUE, password |-> FALSE, verified |-> FALSE,
   verifiedRecently |-> FALSE, tokens |-> {}, totp |-> FALSE, passkeys |-> {},
   force2fa |-> FALSE, info |-> FALSE, lastSignIn |-> "old"]

\* A new row, or the first password of an account that has none, whose email
\* must then be verified again.
signupWithPassword(a) ==
  IF a.exists THEN [a EXCEPT !.verified = FALSE, !.password = TRUE]
  ELSE [NewAccount EXCEPT !.password = TRUE]

\* Mistake: last_sign_in_at is null in a new row, and compared as it is.
SendMagicLinkEmailNeverSignedIn(a) ==
  [(IF a.exists THEN a ELSE [NewAccount EXCEPT !.lastSignIn = "never"])
     EXCEPT !.tokens = @ \cup {"magic"}]

\* An unknown email gets an account.
sendSendMagicLinkEmail(a) ==
  [(IF a.exists THEN a ELSE NewAccount) EXCEPT !.tokens = @ \cup {"magic"}]

\* The secret m of a mail is used: it is cleared, the address is verified.
UseMail(a, m) ==
  [a EXCEPT !.verified = TRUE, !.verifiedRecently = TRUE, !.tokens = @ \ {m}]

loginWithMagicLink(a) == UseMail(a, "magic")

verifyEmail(a) == UseMail(a, "verify")

changePassword(a) == [UseMail(a, "reset") EXCEPT !.password = TRUE]

is2FACapable(a) == a.totp \/ a.passkeys # {}

\* The rows were written by this code: nobody is forced who is not capable,
\* and a user without a row has no means of authentication and no mail.
ASSUME InitialRowsAssumption ==
  \A a \in InitialAccounts :
    /\ a.force2fa => is2FACapable(a)
    /\ ~a.exists => ~is2FACapable(a) /\ a.tokens = {}

\* Registering a means of authentication turns force_2fa on.
confirmAuthenticatorAppRegistration(a) ==
  [a EXCEPT !.totp = TRUE, !.force2fa = TRUE]

verifyRegistration(a, k) ==
  [a EXCEPT !.passkeys = @ \cup {k}, !.force2fa = TRUE]

\* Mistake: force_2fa stays when the last means is deleted.
DisableForce2faNever(a) == a

\* Deleting the last one turns it off.
DisableForce2faUnlessCapable(a) ==
  [a EXCEPT !.force2fa = @ /\ is2FACapable(a)]

deleteAuthenticatorAppConfiguration(a) ==
  DisableForce2faUnlessCapable([a EXCEPT !.totp = FALSE])

deleteUserAuthenticator(a, k) ==
  DisableForce2faUnlessCapable([a EXCEPT !.passkeys = @ \ {k}])

-------------------------------------------------------------------------------
(***************************************************************************)
(* Sessions.                                                               *)
(***************************************************************************)

isWithinAuthenticatedSession(s) == s.user # None /\ isOneFactorAuthenticated(s.amr)

\* Mistake: the time of the sign-in is not copied from the row.
RefreshKeepingSignInTime(s, a) == [s EXCEPT !.verified = a.verified, !.info = a.info]

\* updateUserInAuthenticatedSession: the copy is replaced by the row a.
Refresh(s, a) ==
  [s EXCEPT !.verified = a.verified, !.info = a.info, !.lastSignIn = a.lastSignIn]

\* Mistake: any trusted-browser cookie will do, whoever it names.
IsBrowserTrustedForAnyone(b) == AuthenticateBrowser => trusted[b] # None

isBrowserTrusted(b) == AuthenticateBrowser => trusted[b] = session[b].user

hasUserAuthenticatedRecently(s) == s.lastSignIn # "old"

(***************************************************************************)
(* The middleware chain (src/middlewares/user.ts), as what the requests of *)
(* a browser that is signed in get past.                                   *)
(***************************************************************************)
NeedsTwoFactor(s) ==
  /\ isWithinAuthenticatedSession(s)
  /\ account[s.user].force2fa \/ s.twoFa
  /\ ~isTwoFactorAuthenticated(s.amr)

Connected(b) == isWithinAuthenticatedSession(session[b])
TwoFactorDone(b) == Connected(b) /\ ~NeedsTwoFactor(session[b])
EmailVerified(b) ==
  /\ TwoFactorDone(b)
  /\ session[b].verified
  /\ account[session[b].user].verifiedRecently
  /\ isBrowserTrusted(b)
HasPersonalInformations(b) == EmailVerified(b) /\ session[b].info

\* Mistake: a recent sign-in is enough.
CanAccessAdminWithOneFactor(b) ==
  HasPersonalInformations(b) /\ hasUserAuthenticatedRecently(session[b])

CanAccessAdmin(b) ==
  /\ HasPersonalInformations(b)
  /\ hasUserAuthenticatedRecently(session[b])
  /\ is2FACapable(account[session[b].user]) => isTwoFactorAuthenticated(session[b].amr)

\* A chain that finds no way for the user to bring a second factor gives up
\* the connexion flow: the flags of the interaction are dropped.  Only a new
\* session meets it; whoever adds a factor has one.
\* Mistake: the flags are kept, and so is the requirement.
EnforceForever(s, a) == s

Enforce(s, a) ==
  IF s.twoFa /\ ~isTwoFactorAuthenticated(s.amr) /\ ~is2FACapable(a)
  THEN [s EXCEPT !.twoFa = FALSE] ELSE s

-------------------------------------------------------------------------------
(***************************************************************************)
(* Signing in.                                                             *)
(***************************************************************************)

\* Mistake: what was shown for the user before is kept for the next.
NewSessionOnTopOf(s, u, methods) ==
  [s EXCEPT !.user = u, !.email = None,
            !.amr = addAuthenticationMethodReferences(s.amr, methods)]

\* The session is regenerated; only the navigation values are carried over.
NewSession(s, u, methods) ==
  [EmptySession EXCEPT !.user = u, !.twoFa = s.twoFa,
                       !.amr = addAuthenticationMethodReferences({}, methods)]

\* The row a of u is dated and copied into a new session, and a method of
\* possession makes the browser trusted.  What is the last sign-in of u in
\* other sessions is not the last one any more.
CreateAuthenticatedSession(b, u, a, methods) ==
  LET signedIn == [a EXCEPT !.lastSignIn = "last"]
      fresh == Refresh(NewSession(session[b], u, methods), signedIn)
      Superseded(c, time) ==
        IF c # b /\ session[c].user = u /\ time = "last" THEN "earlier" ELSE time
  IN  /\ account' = [account EXCEPT ![u] = signedIn]
      /\ session' = [c \in Browsers |->
           IF c = b THEN Enforce(fresh, signedIn)
           ELSE [session[c] EXCEPT !.lastSignIn = Superseded(c, @)]]
      /\ ownSignIn' = [c \in Browsers |->
           IF c = b THEN "last" ELSE Superseded(c, ownSignIn[c])]
      /\ trusted' = IF methods \cap TRUSTED_AMR_VALUES # {}
                     THEN [trusted EXCEPT ![b] = u] ELSE trusted
      /\ possession' = possession \cup IF methods = {"pwd"} THEN {} ELSE {<<b, u>>}

\* The email typed on the start page is kept in the session; also a signed-in
\* user may type one.
PostStartSignIn(b, u) ==
  /\ session' = [session EXCEPT ![b].email = u]
  /\ UNCHANGED <<account, trusted, possession, ownSignIn>>

\* A wrong password only redirects.
PostSignIn(b) ==
  LET u == session[b].email IN
  /\ u # None
  /\ account[u].exists /\ account[u].password
  /\ CreateAuthenticatedSession(b, u, account[u], {"pwd"})

\* Only an email that has no password yet is signed up.
PostSignUp(b) ==
  LET u == session[b].email IN
  /\ u # None
  /\ ~(account[u].exists /\ account[u].password)
  /\ CreateAuthenticatedSession(b, u, signupWithPassword(account[u]), {"pwd"})

PostSendMagicLink(b) ==
  LET u == session[b].email IN
  /\ u # None
  /\ "magic" \in Mails
  /\ account' = [account EXCEPT ![u] = sendSendMagicLinkEmail(@)]
  /\ UNCHANGED <<session, trusted, possession, ownSignIn>>

\* The link may be opened in any browser.
PostSignInWithMagicLink(b, u) ==
  /\ "magic" \in account[u].tokens
  /\ CreateAuthenticatedSession(b, u, loginWithMagicLink(account[u]), {"email-link"})

\* A passkey as first factor must verify its user.
PostSignInWithPasskey(b) ==
  LET u == session[b].email IN
  /\ u # None
  /\ account[u].passkeys # {}
  /\ CreateAuthenticatedSession(b, u, account[u], {"pop", "uv"})

-------------------------------------------------------------------------------
(***************************************************************************)
(* Adding to an authenticated session.                                     *)
(***************************************************************************)

\* addAuthenticationMethodReferenceInSession for each of the methods, the row
\* of the user having become a.  All of them are methods of possession.
AddMethods(b, a, methods) ==
  /\ account' = [account EXCEPT ![session[b].user] = a]
  /\ session' = [session EXCEPT ![b] =
       [Refresh(session[b], a) EXCEPT
          !.amr = addAuthenticationMethodReferences(session[b].amr, methods)]]
  /\ trusted' = [trusted EXCEPT ![b] = session[b].user]
  /\ possession' = possession \cup {<<b, session[b].user>>}
  /\ UNCHANGED ownSignIn

\* The row and the copy of it in the session change, nothing else.
UpdateUser(b, a) ==
  /\ account' = [account EXCEPT ![session[b].user] = a]
  /\ session' = [session EXCEPT ![b] = Refresh(@, a)]
  /\ UNCHANGED <<trusted, possession, ownSignIn>>

PostSecondFactorTotp(b) ==
  LET u == session[b].user IN
  /\ Connected(b)
  /\ account[u].totp
  /\ AddMethods(b, account[u], {"totp"})

PasskeyMethods(userVerified) == {"pop"} \cup IF userVerified THEN {"uv"} ELSE {}

\* A passkey as second factor need not verify its user.
PostSecondFactorPasskey(b, userVerified) ==
  LET u == session[b].user IN
  /\ Connected(b)
  /\ account[u].passkeys # {}
  /\ AddMethods(b, account[u], PasskeyMethods(userVerified))

\* The page sends a code unless the last one still holds.
NoNeedVerifyEmailAddress(b) ==
  LET a == account[session[b].user] IN
  isBrowserTrusted(b) /\ a.verified /\ a.verifiedRecently

GetVerifyEmail(b) ==
  LET a == account[session[b].user] IN
  /\ "verify" \in Mails
  /\ TwoFactorDone(b)
  /\ ~NoNeedVerifyEmailAddress(b)
  /\ UpdateUser(b, [a EXCEPT !.tokens = @ \cup {"verify"}])

PostVerifyEmail(b) ==
  LET u == session[b].user IN
  /\ TwoFactorDone(b)
  /\ "verify" \in account[u].tokens
  /\ AddMethods(b, verifyEmail(account[u]), {"email-otp"})

\* The names and the job a user gives; asked for once the email is verified.
PostPersonalInformations(b) ==
  /\ EmailVerified(b)
  /\ UpdateUser(b, [account[session[b].user] EXCEPT !.info = TRUE])

-------------------------------------------------------------------------------
(***************************************************************************)
(* The means of authentication of an account.                              *)
(***************************************************************************)

\* The email of a signed-in user, or the one that is typed and kept as on the
\* start page, whether or not there is an account.
PostResetPassword(b, u) ==
  /\ "reset" \in Mails
  /\ Connected(b) => u = session[b].user
  /\ session' = IF Connected(b) THEN session ELSE [session EXCEPT ![b].email = u]
  /\ account' = IF account[u].exists
                 THEN [account EXCEPT ![u].tokens = @ \cup {"reset"}] ELSE account
  /\ UNCHANGED <<trusted, possession, ownSignIn>>

\* The link is opened in any browser, which is trusted from then on; sessions
\* are left as they are.
PostChangePassword(b, u) ==
  /\ "reset" \in account[u].tokens
  /\ account' = [account EXCEPT ![u] = changePassword(@)]
  /\ trusted' = [trusted EXCEPT ![b] = u]
  /\ possession' = possession \cup {<<b, u>>}
  /\ UNCHANGED <<session, ownSignIn>>

PostAuthenticatorAppConfiguration(b) ==
  LET a == account[session[b].user] IN
  /\ CanAccessAdmin(b)
  /\ AddMethods(b, confirmAuthenticatorAppRegistration(a), {"totp"})

PostVerifyRegistration(b, k, userVerified) ==
  LET a == account[session[b].user] IN
  /\ CanAccessAdmin(b)
  /\ k \notin a.passkeys
  /\ AddMethods(b, verifyRegistration(a, k), PasskeyMethods(userVerified))

PostDeleteAuthenticatorApp(b) ==
  /\ CanAccessAdmin(b)
  /\ UpdateUser(b, deleteAuthenticatorAppConfiguration(account[session[b].user]))

\* Unlike the other handlers this one leaves the session's copy as it is.
DeletePasskey(b, k) ==
  LET u == session[b].user IN
  /\ CanAccessAdmin(b)
  /\ k \in account[u].passkeys
  /\ account' = [account EXCEPT ![u] = deleteUserAuthenticator(@, k)]
  /\ UNCHANGED <<session, trusted, possession, ownSignIn>>

PostSetForce2fa(b, force) ==
  LET a == account[session[b].user] IN
  /\ CanAccessAdmin(b)
  /\ force => is2FACapable(a)
  /\ UpdateUser(b, [a EXCEPT !.force2fa = force])

-------------------------------------------------------------------------------
(***************************************************************************)
(* The interaction of an OpenID client, reduced to whether it asks for two *)
(* factors (module Interaction has the rest), the end of sessions, and     *)
(* time.                                                                   *)
(***************************************************************************)

InteractionStart(b, twoFa) ==
  /\ session' = [session EXCEPT ![b].twoFa = twoFa]
  /\ UNCHANGED <<account, trusted, possession, ownSignIn>>

\* The session's requirements as far as they concern authentication are met.
Issuable(b) == HasPersonalInformations(b)

\* The client is answered, the flags of the interaction are cleared.
InteractionEnd(b) ==
  /\ Issuable(b)
  /\ session' = [session EXCEPT ![b].twoFa = FALSE]
  /\ UNCHANGED <<account, trusted, possession, ownSignIn>>

\* Any page behind the chain, when the user has no second factor to bring.
BreakConnexionFlow(b) ==
  /\ NeedsTwoFactor(session[b])
  /\ session' = [session EXCEPT ![b] = Enforce(@, account[@.user])]
  /\ UNCHANGED <<account, trusted, possession, ownSignIn>>

\* Logout, or the session is not used for SESSION_MAX_AGE.
EndSession(b) ==
  /\ session[b] # EmptySession
  /\ session' = [session EXCEPT ![b] = EmptySession]
  /\ ownSignIn' = [ownSignIn EXCEPT ![b] = "old"]
  /\ UNCHANGED <<account, trusted, possession>>

\* trusted-browser cookies have a lifetime too.
TrustedBrowserCookieExpires(b) ==
  /\ "verification" \in Clocks
  /\ trusted[b] # None
  /\ trusted' = [trusted EXCEPT ![b] = None]
  /\ UNCHANGED <<account, session, possession, ownSignIn>>

TokenExpires(u) ==
  /\ "token" \in Clocks
  /\ \E m \in account[u].tokens :
       account' = [account EXCEPT ![u].tokens = @ \ {m}]
  /\ UNCHANGED <<session, trusted, possession, ownSignIn>>

VerificationExpires(u) ==
  /\ "verification" \in Clocks
  /\ account' = [account EXCEPT ![u].verifiedRecently = FALSE]
  /\ UNCHANGED <<session, trusted, possession, ownSignIn>>

\* Fifteen minutes since the earlier sign-ins of u, or since all of them.
SignInsGrowOld(u, times) ==
  LET Aged(time) == IF time \in times THEN "old" ELSE time IN
  /\ "sign-in" \in Clocks
  /\ account' = [account EXCEPT ![u].lastSignIn = Aged(@)]
  /\ session' = [b \in Browsers |->
       IF session[b].user = u THEN [session[b] EXCEPT !.lastSignIn = Aged(@)]
       ELSE session[b]]
  /\ ownSignIn' = [b \in Browsers |->
       IF session[b].user = u THEN Aged(ownSignIn[b]) ELSE ownSignIn[b]]
  /\ UNCHANGED <<trusted, possession>>

-------------------------------------------------------------------------------
Next ==
  \/ \E b \in Browsers :
       \/ \E u \in Users :
            \/ PostStartSignIn(b, u)
            \/ PostSignInWithMagicLink(b, u)
            \/ PostResetPassword(b, u)
            \/ PostChangePassword(b, u)
       \/ PostSignIn(b)
       \/ PostSignUp(b)
       \/ PostSendMagicLink(b)
       \/ PostSignInWithPasskey(b)
       \/ PostSecondFactorTotp(b)
       \/ \E userVerified \in BOOLEAN : PostSecondFactorPasskey(b, userVerified)
       \/ GetVerifyEmail(b)
       \/ PostVerifyEmail(b)
       \/ PostPersonalInformations(b)
       \/ PostAuthenticatorAppConfiguration(b)
       \/ \E k \in Passkeys, userVerified \in BOOLEAN :
            PostVerifyRegistration(b, k, userVerified)
       \/ PostDeleteAuthenticatorApp(b)
       \/ \E k \in Passkeys : DeletePasskey(b, k)
       \/ \E force \in BOOLEAN : PostSetForce2fa(b, force)
       \/ \E twoFa \in BOOLEAN : InteractionStart(b, twoFa)
       \/ InteractionEnd(b)
       \/ BreakConnexionFlow(b)
       \/ EndSession(b)
       \/ TrustedBrowserCookieExpires(b)
  \/ \E u \in Users :
       \/ TokenExpires(u)
       \/ VerificationExpires(u)
       \/ \E times \in {{"earlier"}, {"earlier", "last"}} : SignInsGrowOld(u, times)

Spec == Init /\ [][Next]_vars

-------------------------------------------------------------------------------
(***************************************************************************)
(* Where a GET of a page sends a browser that is signed in with session s: *)
(* the routes of src/routers/user.ts and src/routers/main.ts with the      *)
(* chain in front of each, up to the pages about organizations.            *)
(***************************************************************************)

\* How many of the Obstacles stand in front of a page.
PageLevel ==
  [page \in {"start-sign-in", "2fa-sign-in", "verify-email",
             "personal-information", "home", "connection-and-account"} |->
     CASE page = "start-sign-in" -> 0
       [] page = "2fa-sign-in" -> 1
       [] page = "verify-email" -> 2
       [] page = "personal-information" -> 3
       [] page = "home" -> 4
       [] page = "connection-and-account" -> 6]

\* The chain in its order: what must hold, and where it redirects otherwise.
Obstacles(b, s) ==
  LET a == account[s.user] IN
  << [met |-> isWithinAuthenticatedSession(s), page |-> "start-sign-in"],
     [met |-> ~NeedsTwoFactor(s),
      page |-> IF is2FACapable(a) THEN "2fa-sign-in" ELSE "connection-and-account"],
     [met |-> s.verified /\ a.verifiedRecently /\ isBrowserTrusted(b),
      page |-> "verify-email"],
     [met |-> s.info, page |-> "personal-information"],
     [met |-> hasUserAuthenticatedRecently(s), page |-> "start-sign-in"],
     [met |-> is2FACapable(a) => isTwoFactorAuthenticated(s.amr),
      page |-> "2fa-sign-in"] >>

Unmet(b, s, page) == {i \in 1..PageLevel[page] : ~Obstacles(b, s)[i].met}

\* getVerifyEmailController redirects when there is nothing to verify.
Renders(b, s, page) ==
  /\ Unmet(b, s, page) = {}
  /\ ~(page = "verify-email" /\ NoNeedVerifyEmailAddress(b))

Hop(b, s, page) ==
  LET unmet == Unmet(b, s, page)
      first == CHOOSE i \in unmet : \A j \in unmet : i <= j
  IN  IF unmet # {} THEN Obstacles(b, s)[first].page
      ELSE IF Renders(b, s, page) THEN page
      ELSE "personal-information"

\* Following redirects from a page ends at a page that renders.  The first
\* hop may drop the flags of the interaction.
Settles(b, page) ==
  LET s == Enforce(session[b], account[session[b].user])
      visited[n \in 1..6] == IF n = 1 THEN Hop(b, session[b], page)
                             ELSE Hop(b, s, visited[n - 1])
  IN  Renders(b, session[b], page) \/ Renders(b, s, visited[6])
=============================================================================
