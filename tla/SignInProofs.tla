----------------------------- MODULE SignInProofs -----------------------------
(***************************************************************************)
(* What holds of SignIn for every set of users, browsers, passkeys and     *)
(* initial accounts, and whether or not browsers are authenticated.        *)
(***************************************************************************)
EXTENDS SignInProperties, TLAPS

(***************************************************************************)
(* Adding the methods of a ceremony one after the other, as the            *)
(* controllers do, adds the set of them, as the actions do.                *)
(***************************************************************************)
LEMMA AddingOneByOne ==
  ASSUME NEW amr, NEW m, NEW n, m # "mfa", n # "mfa"
  PROVE  addAuthenticationMethodReference(addAuthenticationMethodReference(amr, m), n)
           = addAuthenticationMethodReferences(amr, {m, n})
<1> DEFINE one == amr \cup {m}
           both == amr \cup {m, n}
<1>1. isTwoFactorAuthenticated(one) => isTwoFactorAuthenticated(both)
  BY DEF isTwoFactorAuthenticated
<1>2. isTwoFactorAuthenticated(both \cup {"mfa"}) <=> isTwoFactorAuthenticated(both)
  BY DEF isTwoFactorAuthenticated
<1>3. CASE isTwoFactorAuthenticated(one)
  <2>1. addAuthenticationMethodReference(amr, m) \cup {n} = both \cup {"mfa"}
    BY <1>3 DEF addAuthenticationMethodReference
  <2> QED BY <2>1, <1>1, <1>2, <1>3
        DEF addAuthenticationMethodReference, addAuthenticationMethodReferences
<1>4. CASE ~isTwoFactorAuthenticated(one)
  <2>1. addAuthenticationMethodReference(amr, m) \cup {n} = both
    BY <1>4 DEF addAuthenticationMethodReference
  <2> QED BY <2>1 DEF addAuthenticationMethodReference, addAuthenticationMethodReferences
<1> QED BY <1>3, <1>4

\* Adding references never loses one, nor the two factors they amount to.
LEMMA AddingReferences ==
  ASSUME NEW amr \in SUBSET AmrValue, NEW methods \in SUBSET AmrValue
  PROVE  /\ addAuthenticationMethodReferences(amr, methods) \in SUBSET AmrValue
         /\ amr \cup methods \subseteq addAuthenticationMethodReferences(amr, methods)
         /\ isTwoFactorAuthenticated(amr) =>
              isTwoFactorAuthenticated(addAuthenticationMethodReferences(amr, methods))
BY DEF addAuthenticationMethodReferences, isTwoFactorAuthenticated, AmrValue

-------------------------------------------------------------------------------
(***************************************************************************)
(* Types.                                                                  *)
(***************************************************************************)

\* What the managers make of a row is a row.
LEMMA RowTypes ==
  ASSUME NEW a \in Account
  PROVE  /\ NewAccount \in Account
         /\ signupWithPassword(a) \in Account
         /\ "magic" \in Mails => sendSendMagicLinkEmail(a) \in Account
         /\ \A m \in Mails : [a EXCEPT !.tokens = @ \cup {m}] \in Account
         /\ \A m : UseMail(a, m) \in Account
         /\ changePassword(a) \in Account
         /\ confirmAuthenticatorAppRegistration(a) \in Account
         /\ \A k \in Passkeys : verifyRegistration(a, k) \in Account
         /\ deleteAuthenticatorAppConfiguration(a) \in Account
         /\ \A k : deleteUserAuthenticator(a, k) \in Account
<1>1. NewAccount \in Account
  BY DEF NewAccount, Account, SignInTime
<1>2. signupWithPassword(a) \in Account
  BY <1>1 DEF signupWithPassword, Account
<1>3. "magic" \in Mails => sendSendMagicLinkEmail(a) \in Account
  BY <1>1 DEF sendSendMagicLinkEmail, Account
<1>4. \A m \in Mails : [a EXCEPT !.tokens = @ \cup {m}] \in Account
  BY DEF Account
<1>5. \A m : UseMail(a, m) \in Account
  BY DEF UseMail, Account
<1>6. changePassword(a) \in Account
  BY <1>5 DEF changePassword, Account
<1>7. confirmAuthenticatorAppRegistration(a) \in Account
  BY DEF confirmAuthenticatorAppRegistration, Account
<1>8. \A k \in Passkeys : verifyRegistration(a, k) \in Account
  BY DEF verifyRegistration, Account
<1>9. \A r \in Account : DisableForce2faUnlessCapable(r) \in Account
  BY DEF DisableForce2faUnlessCapable, is2FACapable, Account
<1>10. [a EXCEPT !.totp = FALSE] \in Account
  BY DEF Account
<1>11. \A k : [a EXCEPT !.passkeys = @ \ {k}] \in Account
  BY DEF Account
<1>12. deleteAuthenticatorAppConfiguration(a) \in Account
  BY <1>9, <1>10 DEF deleteAuthenticatorAppConfiguration
<1>13. \A k : deleteUserAuthenticator(a, k) \in Account
  BY <1>9, <1>11 DEF deleteUserAuthenticator
<1> QED BY <1>1, <1>2, <1>3, <1>4, <1>5, <1>6, <1>7, <1>8, <1>12, <1>13

LEMMA SessionTypes ==
  /\ EmptySession \in Session
  /\ \A s \in Session, a \in Account :
       Refresh(s, a) \in Session /\ Enforce(s, a) \in Session
  /\ \A s \in Session, u \in Users, methods \in SUBSET AmrValue :
       NewSession(s, u, methods) \in Session
<1>1. EmptySession \in Session
  BY DEF EmptySession, Session, SignInTime
<1>2. ASSUME NEW s \in Session, NEW a \in Account
      PROVE  Refresh(s, a) \in Session /\ Enforce(s, a) \in Session
  BY DEF Refresh, Enforce, Session, Account
<1>3. ASSUME NEW s \in Session, NEW u \in Users, NEW methods \in SUBSET AmrValue
      PROVE  NewSession(s, u, methods) \in Session
  <2>1. addAuthenticationMethodReferences({}, methods) \in SUBSET AmrValue
    BY AddingReferences
  <2> QED BY <1>1, <2>1 DEF NewSession, Session
<1> QED BY <1>1, <1>2, <1>3

\* The methods a sign-in starts with.
SignInMethods == {{"pwd"}, {"email-link"}, {"pop", "uv"}}

LEMMA CreateAuthenticatedSessionType ==
  ASSUME TypeOK, NEW b \in Browsers, NEW u \in Users, NEW a \in Account,
         NEW methods \in SignInMethods, CreateAuthenticatedSession(b, u, a, methods)
  PROVE  TypeOK'
<1> DEFINE signedIn == [a EXCEPT !.lastSignIn = "last"]
<1>0. methods \in SUBSET AmrValue
  BY DEF SignInMethods, AmrValue
<1>1. signedIn \in Account
  BY DEF Account, SignInTime
<1>2. account' \in [Users -> Account]
  BY <1>1 DEF CreateAuthenticatedSession, TypeOK
<1>3. Enforce(Refresh(NewSession(session[b], u, methods), signedIn), signedIn) \in Session
  BY <1>0, <1>1, SessionTypes DEF TypeOK
<1>4. session' \in [Browsers -> Session]
  BY <1>3 DEF CreateAuthenticatedSession, TypeOK, Session, SignInTime
<1>5. ownSignIn' \in [Browsers -> SignInTime]
  BY DEF CreateAuthenticatedSession, TypeOK, SignInTime
<1>6. trusted' \in [Browsers -> Users \cup {None}] /\ possession' \subseteq Browsers \X Users
  BY DEF CreateAuthenticatedSession, TypeOK
<1> QED BY <1>2, <1>4, <1>5, <1>6 DEF TypeOK

LEMMA AddMethodsType ==
  ASSUME TypeOK, NEW b \in Browsers, session[b].user # None, NEW a \in Account,
         NEW methods \in SUBSET AmrValue, AddMethods(b, a, methods)
  PROVE  TypeOK'
<1>1. session[b].user \in Users /\ session[b].amr \in SUBSET AmrValue
  BY DEF TypeOK, Session
<1>2. Refresh(session[b], a) \in Session /\ Refresh(session[b], a).amr = session[b].amr
  BY SessionTypes DEF TypeOK, Refresh, Session
<1>3. addAuthenticationMethodReferences(session[b].amr, methods) \in SUBSET AmrValue
  BY <1>1, AddingReferences
<1>4. session'[b] \in Session
  BY <1>2, <1>3 DEF AddMethods, TypeOK, Session
<1>5. session' \in [Browsers -> Session]
  BY <1>4 DEF AddMethods, TypeOK
<1>6. /\ account' \in [Users -> Account] /\ trusted' \in [Browsers -> Users \cup {None}]
      /\ possession' \subseteq Browsers \X Users /\ ownSignIn' \in [Browsers -> SignInTime]
  BY <1>1 DEF AddMethods, TypeOK
<1> QED BY <1>5, <1>6 DEF TypeOK

LEMMA UpdateUserType ==
  ASSUME TypeOK, NEW b \in Browsers, session[b].user # None, NEW a \in Account,
         UpdateUser(b, a)
  PROVE  TypeOK'
<1>1. session[b].user \in Users
  BY DEF TypeOK, Session
<1>2. Refresh(session[b], a) \in Session
  BY SessionTypes DEF TypeOK
<1> QED BY <1>1, <1>2 DEF UpdateUser, TypeOK

\* What every action that is not a sign-in is open to: a user who has a row.
LEMMA ConnectedUser ==
  ASSUME TypeOK, NEW b \in Browsers, Connected(b)
  PROVE  /\ session[b].user # None
         /\ session[b].user \in Users
         /\ account[session[b].user] \in Account
BY DEF TypeOK, Session, Connected, isWithinAuthenticatedSession

LEMMA ChainConnects ==
  ASSUME NEW b \in Browsers, TwoFactorDone(b) \/ EmailVerified(b) \/ CanAccessAdmin(b)
  PROVE  Connected(b)
BY DEF TwoFactorDone, EmailVerified, HasPersonalInformations, CanAccessAdmin

(***************************************************************************)
(* One lemma for the steps of a browser, one for the others: each action   *)
(* is one of the three lemmas above or changes a field or two.             *)
(***************************************************************************)
LEMMA SignInStepsType ==
  ASSUME TypeOK, NEW b \in Browsers,
         \/ PostSignIn(b) \/ PostSignUp(b) \/ PostSignInWithPasskey(b)
         \/ \E u \in Users : PostSignInWithMagicLink(b, u)
  PROVE  TypeOK'
<1>0. session[b].email \in Users \cup {None} /\ \A u \in Users : account[u] \in Account
  BY DEF TypeOK, Session
<1>1. CASE PostSignIn(b)
  BY <1>0, <1>1, CreateAuthenticatedSessionType DEF PostSignIn, SignInMethods
<1>2. CASE PostSignUp(b)
  <2>1. session[b].email \in Users /\ signupWithPassword(account[session[b].email]) \in Account
    BY <1>0, <1>2, RowTypes DEF PostSignUp
  <2> QED BY <2>1, <1>2, CreateAuthenticatedSessionType DEF PostSignUp, SignInMethods
<1>3. CASE PostSignInWithPasskey(b)
  BY <1>0, <1>3, CreateAuthenticatedSessionType DEF PostSignInWithPasskey, SignInMethods
<1>4. CASE \E u \in Users : PostSignInWithMagicLink(b, u)
  <2>1. PICK u \in Users : PostSignInWithMagicLink(b, u)
    BY <1>4
  <2>2. loginWithMagicLink(account[u]) \in Account
    BY <1>0, RowTypes DEF loginWithMagicLink
  <2> QED BY <2>1, <2>2, CreateAuthenticatedSessionType
        DEF PostSignInWithMagicLink, SignInMethods
<1> QED BY <1>1, <1>2, <1>3, <1>4

LEMMA AddingStepsType ==
  ASSUME TypeOK, NEW b \in Browsers,
         \/ PostSecondFactorTotp(b) \/ PostVerifyEmail(b)
         \/ PostAuthenticatorAppConfiguration(b)
         \/ \E uv \in BOOLEAN : PostSecondFactorPasskey(b, uv)
         \/ \E k \in Passkeys, uv \in BOOLEAN : PostVerifyRegistration(b, k, uv)
  PROVE  TypeOK'
<1> DEFINE row == account[session[b].user]
<1>0. Connected(b)
  BY ChainConnects DEF PostSecondFactorTotp, PostVerifyEmail, PostSecondFactorPasskey,
       PostAuthenticatorAppConfiguration, PostVerifyRegistration
<1>1. session[b].user # None /\ row \in Account
  BY <1>0, ConnectedUser
<1>2. {"totp"} \in SUBSET AmrValue /\ {"email-otp"} \in SUBSET AmrValue
      /\ \A uv \in BOOLEAN : PasskeyMethods(uv) \in SUBSET AmrValue
  BY DEF AmrValue, PasskeyMethods
<1>3. CASE PostSecondFactorTotp(b)
  BY <1>1, <1>2, <1>3, AddMethodsType DEF PostSecondFactorTotp
<1>4. CASE PostVerifyEmail(b)
  <2>1. verifyEmail(row) \in Account
    BY <1>1, RowTypes DEF verifyEmail
  <2> QED BY <1>1, <1>2, <1>4, <2>1, AddMethodsType DEF PostVerifyEmail
<1>5. CASE PostAuthenticatorAppConfiguration(b)
  <2>1. confirmAuthenticatorAppRegistration(row) \in Account
    BY <1>1, RowTypes
  <2> QED BY <1>1, <1>2, <1>5, <2>1, AddMethodsType
        DEF PostAuthenticatorAppConfiguration
<1>6. CASE \E uv \in BOOLEAN : PostSecondFactorPasskey(b, uv)
  BY <1>1, <1>2, <1>6, AddMethodsType DEF PostSecondFactorPasskey
<1>7. CASE \E k \in Passkeys, uv \in BOOLEAN : PostVerifyRegistration(b, k, uv)
  <2>1. PICK k \in Passkeys, uv \in BOOLEAN : PostVerifyRegistration(b, k, uv)
    BY <1>7
  <2>2. verifyRegistration(row, k) \in Account
    BY <1>1, RowTypes
  <2> QED BY <1>1, <1>2, <2>1, <2>2, AddMethodsType DEF PostVerifyRegistration
<1> QED BY <1>3, <1>4, <1>5, <1>6, <1>7

LEMMA UpdatingStepsType ==
  ASSUME TypeOK, NEW b \in Browsers,
         \/ GetVerifyEmail(b) \/ PostPersonalInformations(b)
         \/ PostDeleteAuthenticatorApp(b)
         \/ \E force \in BOOLEAN : PostSetForce2fa(b, force)
  PROVE  TypeOK'
<1> DEFINE row == account[session[b].user]
<1>0. Connected(b)
  BY ChainConnects DEF GetVerifyEmail, PostPersonalInformations,
       PostDeleteAuthenticatorApp, PostSetForce2fa
<1>1. session[b].user # None /\ row \in Account
  BY <1>0, ConnectedUser
<1>2. CASE GetVerifyEmail(b)
  <2>1. [row EXCEPT !.tokens = @ \cup {"verify"}] \in Account
    BY <1>1, <1>2, RowTypes DEF GetVerifyEmail
  <2> QED BY <1>1, <1>2, <2>1, UpdateUserType DEF GetVerifyEmail
<1>3. CASE PostPersonalInformations(b)
  <2>1. [row EXCEPT !.info = TRUE] \in Account
    BY <1>1 DEF Account
  <2> QED BY <1>1, <1>3, <2>1, UpdateUserType DEF PostPersonalInformations
<1>4. CASE PostDeleteAuthenticatorApp(b)
  <2>1. deleteAuthenticatorAppConfiguration(row) \in Account
    BY <1>1, RowTypes
  <2> QED BY <1>1, <1>4, <2>1, UpdateUserType DEF PostDeleteAuthenticatorApp
<1>5. CASE \E force \in BOOLEAN : PostSetForce2fa(b, force)
  <2>1. \A force \in BOOLEAN : [row EXCEPT !.force2fa = force] \in Account
    BY <1>1 DEF Account
  <2> QED BY <1>1, <1>5, <2>1, UpdateUserType DEF PostSetForce2fa
<1> QED BY <1>2, <1>3, <1>4, <1>5

LEMMA BrowserStepsType ==
  ASSUME TypeOK, NEW b \in Browsers,
         \/ \E u \in Users :
              PostStartSignIn(b, u) \/ PostResetPassword(b, u) \/ PostChangePassword(b, u)
         \/ \E k \in Passkeys : DeletePasskey(b, k)
         \/ \E twoFa \in BOOLEAN : InteractionStart(b, twoFa)
         \/ PostSendMagicLink(b) \/ InteractionEnd(b) \/ BreakConnexionFlow(b)
         \/ EndSession(b) \/ TrustedBrowserCookieExpires(b)
  PROVE  TypeOK'
<1>0. /\ session[b] \in Session /\ session[b].email \in Users \cup {None}
      /\ \A u \in Users : account[u] \in Account
  BY DEF TypeOK, Session
<1>1. CASE \E u \in Users : PostStartSignIn(b, u)
  <2>1. \A u \in Users : [session[b] EXCEPT !.email = u] \in Session
    BY <1>0 DEF Session
  <2> QED BY <1>1, <2>1 DEF PostStartSignIn, TypeOK
<1>2. CASE PostSendMagicLink(b)
  <2>1. /\ session[b].email \in Users
        /\ sendSendMagicLinkEmail(account[session[b].email]) \in Account
    BY <1>0, <1>2, RowTypes DEF PostSendMagicLink
  <2> QED BY <1>2, <2>1 DEF PostSendMagicLink, TypeOK
<1>3. CASE \E u \in Users : PostChangePassword(b, u)
  <2>1. \A u \in Users : changePassword(account[u]) \in Account
    BY <1>0, RowTypes
  <2> QED BY <1>3, <2>1 DEF PostChangePassword, TypeOK
<1>4. CASE \E k \in Passkeys : DeletePasskey(b, k)
  <2>1. Connected(b)
    BY <1>4, ChainConnects DEF DeletePasskey
  <2>2. \A k : deleteUserAuthenticator(account[session[b].user], k) \in Account
    BY <2>1, ConnectedUser, RowTypes
  <2> QED BY <1>4, <2>1, <2>2, ConnectedUser DEF DeletePasskey, TypeOK
<1>5. CASE \E twoFa \in BOOLEAN : InteractionStart(b, twoFa)
  <2>1. \A twoFa \in BOOLEAN : [session[b] EXCEPT !.twoFa = twoFa] \in Session
    BY <1>0 DEF Session
  <2> QED BY <1>5, <2>1 DEF InteractionStart, TypeOK
<1>6. CASE InteractionEnd(b)
  <2>1. [session[b] EXCEPT !.twoFa = FALSE] \in Session
    BY <1>0 DEF Session
  <2> QED BY <1>6, <2>1 DEF InteractionEnd, TypeOK
<1>7. CASE BreakConnexionFlow(b)
  <2>1. session[b].user \in Users
    BY <1>0, <1>7 DEF BreakConnexionFlow, NeedsTwoFactor, isWithinAuthenticatedSession, Session
  <2>2. Enforce(session[b], account[session[b].user]) \in Session
    BY <1>0, <2>1, SessionTypes
  <2> QED BY <1>7, <2>2 DEF BreakConnexionFlow, TypeOK
<1>8. CASE EndSession(b)
  BY <1>8, SessionTypes DEF EndSession, TypeOK, SignInTime
<1>9. CASE TrustedBrowserCookieExpires(b)
  BY <1>9 DEF TrustedBrowserCookieExpires, TypeOK
<1>10. CASE \E u \in Users : PostResetPassword(b, u)
  <2>1. PICK u \in Users : PostResetPassword(b, u)
    BY <1>10
  <2>2. [account[u] EXCEPT !.tokens = @ \cup {"reset"}] \in Account
    BY <1>0, <2>1, RowTypes DEF PostResetPassword
  <2>3. [session[b] EXCEPT !.email = u] \in Session
    BY <1>0 DEF Session
  <2> QED BY <2>1, <2>2, <2>3 DEF PostResetPassword, TypeOK
<1> QED BY <1>1, <1>2, <1>3, <1>4, <1>5, <1>6, <1>7, <1>8, <1>9, <1>10

LEMMA UserStepsType ==
  ASSUME TypeOK, NEW u \in Users,
         \/ TokenExpires(u) \/ VerificationExpires(u)
         \/ \E times : SignInsGrowOld(u, times)
  PROVE  TypeOK'
<1>0. account[u] \in Account
  BY DEF TypeOK
<1>2. CASE TokenExpires(u)
  <2>1. \A m : [account[u] EXCEPT !.tokens = @ \ {m}] \in Account
    BY <1>0 DEF Account
  <2> QED BY <1>2, <2>1 DEF TokenExpires, TypeOK
<1>3. CASE VerificationExpires(u)
  <2>1. [account[u] EXCEPT !.verifiedRecently = FALSE] \in Account
    BY <1>0 DEF Account
  <2> QED BY <1>3, <2>1 DEF VerificationExpires, TypeOK
<1>4. ASSUME NEW times, SignInsGrowOld(u, times) PROVE TypeOK'
  <2> DEFINE aged(time) == IF time \in times THEN "old" ELSE time
  <2>1. \A time \in SignInTime : aged(time) \in SignInTime
    BY DEF SignInTime
  <2>2. account' \in [Users -> Account]
    <3>1. [account[u] EXCEPT !.lastSignIn = aged(account[u].lastSignIn)] \in Account
      BY <1>0, <2>1 DEF Account
    <3> QED BY <1>4, <3>1 DEF SignInsGrowOld, TypeOK
  <2>3. session' \in [Browsers -> Session]
    <3>1. \A b \in Browsers :
            [session[b] EXCEPT !.lastSignIn = aged(session[b].lastSignIn)] \in Session
      BY <2>1 DEF TypeOK, Session
    <3> QED BY <1>4, <3>1 DEF SignInsGrowOld, TypeOK
  <2>4. ownSignIn' \in [Browsers -> SignInTime]
    BY <1>4, <2>1 DEF SignInsGrowOld, TypeOK
  <2> QED BY <1>4, <2>2, <2>3, <2>4 DEF SignInsGrowOld, TypeOK
<1> QED BY <1>2, <1>3, <1>4

(***************************************************************************)
(* Every variable keeps its type.                                          *)
(***************************************************************************)
THEOREM TypeCorrect == Spec => []TypeOK
<1>1. Init => TypeOK
  BY InitialAccountsAssumption, SessionTypes DEF Init, TypeOK, SignInTime
<1>2. TypeOK /\ [Next]_vars => TypeOK'
  <2> SUFFICES ASSUME TypeOK, [Next]_vars PROVE TypeOK'
    OBVIOUS
  <2>1. CASE UNCHANGED vars
    BY <2>1 DEF vars, TypeOK
  <2>2. CASE Next
    BY <2>2, SignInStepsType, AddingStepsType, UpdatingStepsType, BrowserStepsType,
       UserStepsType DEF Next
  <2> QED BY <2>1, <2>2
<1> QED BY <1>1, <1>2, PTL DEF Spec

-------------------------------------------------------------------------------
(***************************************************************************)
(* What the steps do to the cookies: the one lemma about all actions that  *)
(* the theorems on trust rest on.                                          *)
(***************************************************************************)
LEMMA CookieSteps ==
  ASSUME TypeOK, [Next]_vars
  PROVE  \/ UNCHANGED trusted /\ possession \subseteq possession'
         \/ \E b \in Browsers, u \in Users :
              /\ trusted' = [trusted EXCEPT ![b] = u]
              /\ possession' = possession \cup {<<b, u>>}
         \/ \E b \in Browsers :
              trusted' = [trusted EXCEPT ![b] = None] /\ UNCHANGED possession
<1> DEFINE Goal ==
      \/ UNCHANGED trusted /\ possession \subseteq possession'
      \/ \E b \in Browsers, u \in Users :
           /\ trusted' = [trusted EXCEPT ![b] = u]
           /\ possession' = possession \cup {<<b, u>>}
      \/ \E b \in Browsers :
           trusted' = [trusted EXCEPT ![b] = None] /\ UNCHANGED possession
<1>1. ASSUME NEW b \in Browsers, NEW u \in Users, NEW a, NEW methods \in SignInMethods,
             CreateAuthenticatedSession(b, u, a, methods)
      PROVE  Goal
  <2>1. CASE methods = {"pwd"}
    BY <1>1, <2>1 DEF CreateAuthenticatedSession, TRUSTED_AMR_VALUES
  <2>2. CASE methods # {"pwd"}
    <3>1. methods \cap TRUSTED_AMR_VALUES # {}
      BY <2>2 DEF SignInMethods, TRUSTED_AMR_VALUES
    <3> QED BY <1>1, <2>2, <3>1 DEF CreateAuthenticatedSession
  <2> QED BY <2>1, <2>2
<1>2. ASSUME NEW b \in Browsers, Connected(b), NEW a, NEW methods, AddMethods(b, a, methods)
      PROVE  Goal
  BY <1>2, ConnectedUser DEF AddMethods
<1>3. ASSUME NEW b \in Browsers,
             PostSignIn(b) \/ PostSignUp(b) \/ PostSignInWithPasskey(b)
      PROVE  Goal
  <2>1. session[b].email \in Users
    BY <1>3 DEF TypeOK, Session, PostSignIn, PostSignUp, PostSignInWithPasskey
  <2> HIDE DEF Goal
  <2> QED BY <1>1, <1>3, <2>1
        DEF SignInMethods, PostSignIn, PostSignUp, PostSignInWithPasskey
<1>4. ASSUME NEW b \in Browsers, NEW u \in Users, PostSignInWithMagicLink(b, u)
      PROVE  Goal
  <2> HIDE DEF Goal
  <2> QED BY <1>1, <1>4 DEF SignInMethods, PostSignInWithMagicLink
<1>5. ASSUME NEW b \in Browsers,
             \/ PostSecondFactorTotp(b) \/ PostVerifyEmail(b)
             \/ PostAuthenticatorAppConfiguration(b)
             \/ \E uv \in BOOLEAN : PostSecondFactorPasskey(b, uv)
             \/ \E k \in Passkeys, uv \in BOOLEAN : PostVerifyRegistration(b, k, uv)
      PROVE  Goal
  <2>1. Connected(b)
    BY <1>5, ChainConnects DEF PostSecondFactorTotp, PostVerifyEmail,
         PostSecondFactorPasskey, PostAuthenticatorAppConfiguration, PostVerifyRegistration
  <2> HIDE DEF Goal
  <2> QED BY <1>2, <1>5, <2>1 DEF PostSecondFactorTotp, PostVerifyEmail,
        PostSecondFactorPasskey, PostAuthenticatorAppConfiguration, PostVerifyRegistration
<1>6. ASSUME NEW b \in Browsers, NEW u \in Users, PostChangePassword(b, u)
      PROVE  Goal
  BY <1>6 DEF PostChangePassword
<1>7. ASSUME NEW b \in Browsers, TrustedBrowserCookieExpires(b)
      PROVE  Goal
  BY <1>7 DEF TrustedBrowserCookieExpires
<1>8. ASSUME NEW b \in Browsers,
             \/ GetVerifyEmail(b) \/ PostPersonalInformations(b)
             \/ PostDeleteAuthenticatorApp(b) \/ PostSendMagicLink(b)
             \/ \E force \in BOOLEAN : PostSetForce2fa(b, force)
             \/ \E k \in Passkeys : DeletePasskey(b, k)
             \/ \E u \in Users : PostStartSignIn(b, u) \/ PostResetPassword(b, u)
             \/ \E twoFa \in BOOLEAN : InteractionStart(b, twoFa)
             \/ InteractionEnd(b) \/ BreakConnexionFlow(b) \/ EndSession(b)
      PROVE  Goal
  <2>1. UNCHANGED <<trusted, possession>>
    BY <1>8 DEF GetVerifyEmail, PostPersonalInformations, PostDeleteAuthenticatorApp,
         PostSendMagicLink, PostSetForce2fa, UpdateUser, DeletePasskey, PostStartSignIn,
         PostResetPassword, InteractionStart, InteractionEnd, BreakConnexionFlow, EndSession
  <2> QED BY <2>1
<1>9. ASSUME NEW u \in Users,
             \/ TokenExpires(u) \/ VerificationExpires(u)
             \/ \E times : SignInsGrowOld(u, times)
      PROVE  Goal
  BY <1>9 DEF TokenExpires, VerificationExpires, SignInsGrowOld
<1>10. CASE UNCHANGED vars
  BY <1>10 DEF vars
<1>11. ASSUME Next PROVE Goal
  <2> HIDE DEF Goal
  <2>1. ASSUME NEW b \in Browsers, NEW u \in Users,
               \/ PostStartSignIn(b, u) \/ PostSignInWithMagicLink(b, u)
               \/ PostResetPassword(b, u) \/ PostChangePassword(b, u)
        PROVE  Goal
    BY <2>1, <1>4, <1>6, <1>8
  <2> QED BY <1>11, <2>1, <1>3, <1>5, <1>7, <1>8, <1>9 DEF Next
<1> QED BY <1>10, <1>11

(***************************************************************************)
(* A trusted-browser cookie names a user whose mailbox or authenticator    *)
(* was used from that browser.                                             *)
(***************************************************************************)
THEOREM CookiesEarned == Spec => []CookiesAreEarned
<1>1. Init => CookiesAreEarned
  BY DEF Init, CookiesAreEarned
<1>2. TypeOK /\ CookiesAreEarned /\ [Next]_vars => CookiesAreEarned'
  BY CookieSteps, NoneAssumption DEF CookiesAreEarned, TypeOK
<1> QED BY <1>1, <1>2, TypeCorrect, PTL DEF Spec

(***************************************************************************)
(* Sessions are issued only from browsers where a proof of possession of   *)
(* the session's own user was given.                                       *)
(***************************************************************************)
THEOREM TrustEarned == Spec => []TrustIsEarned
<1>1. CookiesAreEarned => TrustIsEarned
  BY DEF CookiesAreEarned, TrustIsEarned, Issuable, HasPersonalInformations,
     EmailVerified, isBrowserTrusted, TwoFactorDone, Connected, isWithinAuthenticatedSession
<1> QED BY <1>1, CookiesEarned, PTL

-------------------------------------------------------------------------------
(***************************************************************************)
(* What a step does to the factors shown in one session.                   *)
(***************************************************************************)
AddedMethods == {{"totp"}, {"email-otp"}, {"pop"}, {"pop", "uv"}}

SessionStep(s, t) ==
  \/ t.user = s.user /\ t.amr = s.amr
  \/ t.user = None /\ t.amr = {}
  \/ \E methods \in SignInMethods : t.amr = addAuthenticationMethodReferences({}, methods)
  \/ /\ isWithinAuthenticatedSession(s) /\ t.user = s.user
     /\ \E methods \in AddedMethods : t.amr = addAuthenticationMethodReferences(s.amr, methods)

LEMMA SessionSteps ==
  ASSUME TypeOK, [Next]_vars, NEW c \in Browsers
  PROVE  SessionStep(session[c], session'[c])
<1>0. /\ session \in [Browsers -> Session] /\ account \in [Users -> Account]
      /\ \A b \in Browsers : session[b].email \in Users \cup {None}
  BY DEF TypeOK, Session
<1>1. ASSUME NEW b \in Browsers, NEW u \in Users, NEW a \in Account,
             NEW methods \in SignInMethods, CreateAuthenticatedSession(b, u, a, methods)
      PROVE  SessionStep(session[c], session'[c])
  <2>1. CASE c = b
    <3> DEFINE signedIn == [a EXCEPT !.lastSignIn = "last"]
               new == NewSession(session[b], u, methods)
               fresh == Refresh(new, signedIn)
    <3>1. session'[c] = Enforce(fresh, signedIn)
      BY <1>0, <1>1, <2>1 DEF CreateAuthenticatedSession
    <3>2. new \in Session /\ new.amr = addAuthenticationMethodReferences({}, methods)
      <4>1. methods \in SUBSET AmrValue
        BY DEF SignInMethods, AmrValue
      <4> QED BY <1>0, <4>1, SessionTypes DEF NewSession, EmptySession
    <3>3. fresh \in Session /\ fresh.amr = new.amr
      BY <3>2 DEF Refresh, Session, Account, SignInTime
    <3>4. Enforce(fresh, signedIn).amr = fresh.amr
      BY <3>3 DEF Enforce, Session
    <3> QED BY <3>1, <3>2, <3>3, <3>4 DEF SessionStep
  <2>2. CASE c # b
    BY <1>0, <1>1, <2>2 DEF CreateAuthenticatedSession, SessionStep, Session
  <2> QED BY <2>1, <2>2
<1>2. ASSUME NEW b \in Browsers, Connected(b), NEW a \in Account,
             NEW methods \in AddedMethods, AddMethods(b, a, methods)
      PROVE  SessionStep(session[c], session'[c])
  <2>1. CASE c = b
    <3>1. Refresh(session[b], a) \in Session /\ Refresh(session[b], a).user = session[b].user
      BY <1>0, SessionTypes DEF Refresh, Session
    <3>2. /\ session'[c].user = session[b].user
          /\ session'[c].amr = addAuthenticationMethodReferences(session[b].amr, methods)
      BY <1>0, <1>2, <2>1, <3>1 DEF AddMethods, Session
    <3> QED BY <1>2, <2>1, <3>2 DEF SessionStep, Connected
  <2>2. CASE c # b
    BY <1>0, <1>2, <2>2 DEF AddMethods, SessionStep
  <2> QED BY <2>1, <2>2
<1>3. ASSUME NEW b \in Browsers, NEW a, UpdateUser(b, a)
      PROVE  SessionStep(session[c], session'[c])
  <2>1. \A s \in Session : Refresh(s, a).user = s.user /\ Refresh(s, a).amr = s.amr
    BY DEF Refresh, Session
  <2> QED BY <1>0, <1>3, <2>1 DEF UpdateUser, SessionStep
<1>4. ASSUME NEW b \in Browsers,
             PostSignIn(b) \/ PostSignUp(b) \/ PostSignInWithPasskey(b)
      PROVE  SessionStep(session[c], session'[c])
  <2>1. session[b].email \in Users
    BY <1>0, <1>4 DEF PostSignIn, PostSignUp, PostSignInWithPasskey
  <2>2. /\ account[session[b].email] \in Account
        /\ signupWithPassword(account[session[b].email]) \in Account
    BY <1>0, <2>1, RowTypes
  <2> QED BY <1>1, <1>4, <2>1, <2>2
        DEF SignInMethods, PostSignIn, PostSignUp, PostSignInWithPasskey
<1>5. ASSUME NEW b \in Browsers, NEW u \in Users, PostSignInWithMagicLink(b, u)
      PROVE  SessionStep(session[c], session'[c])
  <2>1. loginWithMagicLink(account[u]) \in Account
    BY <1>0, RowTypes DEF loginWithMagicLink
  <2> QED BY <1>1, <1>5, <2>1 DEF SignInMethods, PostSignInWithMagicLink
<1>6. ASSUME NEW b \in Browsers,
             \/ PostSecondFactorTotp(b) \/ PostVerifyEmail(b)
             \/ PostAuthenticatorAppConfiguration(b)
             \/ \E uv \in BOOLEAN : PostSecondFactorPasskey(b, uv)
             \/ \E k \in Passkeys, uv \in BOOLEAN : PostVerifyRegistration(b, k, uv)
      PROVE  SessionStep(session[c], session'[c])
  <2>1. Connected(b)
    BY <1>6, ChainConnects DEF PostSecondFactorTotp, PostVerifyEmail,
         PostSecondFactorPasskey, PostAuthenticatorAppConfiguration, PostVerifyRegistration
  <2> DEFINE row == account[session[b].user]
  <2>2. /\ row \in Account /\ verifyEmail(row) \in Account
        /\ confirmAuthenticatorAppRegistration(row) \in Account
        /\ \A k \in Passkeys : verifyRegistration(row, k) \in Account
    BY <2>1, ConnectedUser, RowTypes DEF verifyEmail
  <2>3. /\ {"totp"} \in AddedMethods /\ {"email-otp"} \in AddedMethods
        /\ \A uv \in BOOLEAN : PasskeyMethods(uv) \in AddedMethods
    BY DEF AddedMethods, PasskeyMethods
  <2> QED BY <1>2, <1>6, <2>1, <2>2, <2>3 DEF PostSecondFactorTotp, PostVerifyEmail,
        PostSecondFactorPasskey, PostAuthenticatorAppConfiguration, PostVerifyRegistration
<1>7. ASSUME NEW b \in Browsers,
             \/ GetVerifyEmail(b) \/ PostPersonalInformations(b)
             \/ PostDeleteAuthenticatorApp(b)
             \/ \E force \in BOOLEAN : PostSetForce2fa(b, force)
      PROVE  SessionStep(session[c], session'[c])
  BY <1>3, <1>7 DEF GetVerifyEmail, PostPersonalInformations,
     PostDeleteAuthenticatorApp, PostSetForce2fa
<1>8. ASSUME NEW b \in Browsers,
             \/ \E u \in Users : PostStartSignIn(b, u) \/ PostResetPassword(b, u)
             \/ \E twoFa \in BOOLEAN : InteractionStart(b, twoFa)
             \/ InteractionEnd(b) \/ BreakConnexionFlow(b) \/ EndSession(b)
      PROVE  SessionStep(session[c], session'[c])
  <2>1. \A s \in Session : \A a : Enforce(s, a).user = s.user /\ Enforce(s, a).amr = s.amr
    BY DEF Enforce, Session
  <2> QED BY <1>0, <1>8, <2>1 DEF PostStartSignIn, PostResetPassword, InteractionStart, InteractionEnd,
        BreakConnexionFlow, EndSession, EmptySession, SessionStep, Session
<1>9. ASSUME UNCHANGED session
      PROVE  SessionStep(session[c], session'[c])
  BY <1>9 DEF SessionStep
<1>10. ASSUME NEW b \in Browsers,
              \/ \E u \in Users : PostChangePassword(b, u)
              \/ \E k \in Passkeys : DeletePasskey(b, k)
              \/ PostSendMagicLink(b) \/ TrustedBrowserCookieExpires(b)
       PROVE  UNCHANGED session
  BY <1>10 DEF PostChangePassword, DeletePasskey, PostSendMagicLink,
     TrustedBrowserCookieExpires
<1>11. ASSUME NEW u \in Users, NEW times, SignInsGrowOld(u, times)
       PROVE  SessionStep(session[c], session'[c])
  BY <1>0, <1>11 DEF SignInsGrowOld, SessionStep, Session
<1>12. ASSUME NEW u \in Users,
              TokenExpires(u) \/ VerificationExpires(u)
       PROVE  UNCHANGED session
  BY <1>12 DEF TokenExpires, VerificationExpires
<1>13. CASE UNCHANGED vars
  BY <1>9, <1>13 DEF vars
<1>14. CASE Next
  <2>1. ASSUME NEW b \in Browsers, NEW u \in Users,
               \/ PostStartSignIn(b, u) \/ PostSignInWithMagicLink(b, u)
               \/ PostResetPassword(b, u) \/ PostChangePassword(b, u)
        PROVE  SessionStep(session[c], session'[c])
    BY <2>1, <1>5, <1>8, <1>9, <1>10
  <2> QED BY <1>14, <2>1, <1>4, <1>6, <1>7, <1>8, <1>9, <1>10, <1>11, <1>12 DEF Next
<1> QED BY <1>13, <1>14

(***************************************************************************)
(* A session that used a passkey has two factors: either it began with a   *)
(* verified user, or the passkey came on top of another first factor.      *)
(***************************************************************************)
PasskeysComplete ==
  \A b \in Browsers : "pop" \in session[b].amr => isTwoFactorAuthenticated(session[b].amr)

THEOREM PasskeysCompleteSessions == Spec => []PasskeysComplete
<1>1. Init => PasskeysComplete
  BY DEF Init, PasskeysComplete, EmptySession
<1>2. TypeOK /\ PasskeysComplete /\ [Next]_vars => PasskeysComplete'
  <2> SUFFICES ASSUME TypeOK, PasskeysComplete, [Next]_vars, NEW c \in Browsers,
                      "pop" \in session'[c].amr
               PROVE  isTwoFactorAuthenticated(session'[c].amr)
    BY DEF PasskeysComplete
  <2>1. SessionStep(session[c], session'[c])
    BY SessionSteps
  <2>2. CASE session'[c].amr \in {session[c].amr, {}}
    BY <2>2 DEF PasskeysComplete
  <2>3. CASE \E methods \in SignInMethods :
               session'[c].amr = addAuthenticationMethodReferences({}, methods)
    BY <2>3 DEF SignInMethods, addAuthenticationMethodReferences, isTwoFactorAuthenticated
  <2>4. CASE /\ isWithinAuthenticatedSession(session[c])
             /\ \E methods \in AddedMethods :
                  session'[c].amr = addAuthenticationMethodReferences(session[c].amr, methods)
    <3>1. PICK methods \in AddedMethods :
            session'[c].amr = addAuthenticationMethodReferences(session[c].amr, methods)
      BY <2>4
    <3>2. session[c].amr \in SUBSET AmrValue /\ methods \in SUBSET AmrValue
      BY DEF TypeOK, Session, AddedMethods, AmrValue
    <3>3. CASE "pop" \in session[c].amr
      BY <3>1, <3>2, <3>3, AddingReferences DEF PasskeysComplete
    <3>4. CASE "pop" \notin session[c].amr
      BY <2>4, <3>1, <3>4 DEF isWithinAuthenticatedSession, isOneFactorAuthenticated,
         FirstFactors, addAuthenticationMethodReferences, isTwoFactorAuthenticated
    <3> QED BY <3>3, <3>4
  <2> QED BY <2>1, <2>2, <2>3, <2>4 DEF SessionStep
<1> QED BY <1>1, <1>2, TypeCorrect, PTL DEF Spec

(***************************************************************************)
(* The second factor page, which hides passkeys from a session that used   *)
(* one, always has a factor to offer to a user who has any.                *)
(***************************************************************************)
THEOREM SecondFactorPageHasAFactor == Spec => []SecondFactorPageOffersAFactor
<1>1. PasskeysComplete => SecondFactorPageOffersAFactor
  BY DEF PasskeysComplete, SecondFactorPageOffersAFactor, NeedsTwoFactor
<1> QED BY <1>1, PasskeysCompleteSessions, PTL

(***************************************************************************)
(* A browser passes from one user to another with no factor of the first.  *)
(***************************************************************************)
THEOREM NoFactorIsInherited == Spec => FactorsAreNotInherited
<1>1. TypeOK /\ [Next]_vars =>
        \A b \in Browsers :
          session'[b].user \notin {session[b].user, None} =>
            session'[b].amr \in {{"pwd"}, {"email-link"}, {"pop", "uv", "mfa"}}
  <2> SUFFICES ASSUME TypeOK, [Next]_vars, NEW b \in Browsers,
                      session'[b].user \notin {session[b].user, None}
               PROVE  session'[b].amr \in {{"pwd"}, {"email-link"}, {"pop", "uv", "mfa"}}
    OBVIOUS
  <2>1. \E methods \in SignInMethods :
          session'[b].amr = addAuthenticationMethodReferences({}, methods)
    BY SessionSteps DEF SessionStep
  <2> QED BY <2>1 DEF SignInMethods, addAuthenticationMethodReferences, isTwoFactorAuthenticated
<1>2. TypeOK /\ [Next]_vars =>
        [\A b \in Browsers :
          session'[b].user \notin {session[b].user, None} =>
            session'[b].amr \in {{"pwd"}, {"email-link"}, {"pop", "uv", "mfa"}}]_vars
  BY <1>1
<1> QED BY <1>2, TypeCorrect, PTL DEF Spec, FactorsAreNotInherited

-------------------------------------------------------------------------------
(***************************************************************************)
(* What a step does to the means of authentication of one account.         *)
(***************************************************************************)
Factors(a) == <<a.totp, a.passkeys, a.force2fa>>

\* Row a becomes row r, the session of some administering browser permitting.
AccountStep(u, a, r) ==
  \/ Factors(r) = Factors(a)
  \/ ~a.exists /\ ~r.force2fa
  \/ /\ r.force2fa => is2FACapable(r)
     /\ \E b \in Browsers : session[b].user = u /\ CanAccessAdmin(b)

LEMMA RowFactors ==
  ASSUME NEW a \in Account
  PROVE  /\ \A r \in {signupWithPassword(a), sendSendMagicLinkEmail(a)} :
              Factors(r) = Factors(a) \/ (~a.exists /\ ~r.force2fa)
         /\ \A r \in {loginWithMagicLink(a), verifyEmail(a), changePassword(a)} :
              Factors(r) = Factors(a)
         /\ is2FACapable(confirmAuthenticatorAppRegistration(a))
         /\ \A k \in Passkeys : is2FACapable(verifyRegistration(a, k))
         /\ \A k : LET r == deleteUserAuthenticator(a, k)
                   IN  r.force2fa => is2FACapable(r)
         /\ LET r == deleteAuthenticatorAppConfiguration(a)
            IN  r.force2fa => is2FACapable(r)
<1>1. \A r \in {signupWithPassword(a), sendSendMagicLinkEmail(a)} :
        Factors(r) = Factors(a) \/ (~a.exists /\ ~r.force2fa)
  BY DEF signupWithPassword, sendSendMagicLinkEmail, NewAccount, Factors, Account
<1>2. \A r \in {loginWithMagicLink(a), verifyEmail(a), changePassword(a)} :
        Factors(r) = Factors(a)
  BY DEF loginWithMagicLink, verifyEmail, changePassword, UseMail, Factors, Account
<1>3. is2FACapable(confirmAuthenticatorAppRegistration(a))
  BY DEF is2FACapable, confirmAuthenticatorAppRegistration, Account
<1>4. \A k \in Passkeys : is2FACapable(verifyRegistration(a, k))
  BY DEF is2FACapable, verifyRegistration, Account
<1>5. \A r \in Account : DisableForce2faUnlessCapable(r).force2fa =>
        is2FACapable(DisableForce2faUnlessCapable(r))
  BY DEF DisableForce2faUnlessCapable, is2FACapable, Account
<1>6. \A k : [a EXCEPT !.passkeys = @ \ {k}] \in Account
  BY DEF Account
<1>7. [a EXCEPT !.totp = FALSE] \in Account
  BY DEF Account
<1> QED BY <1>1, <1>2, <1>3, <1>4, <1>5, <1>6, <1>7
      DEF deleteUserAuthenticator, deleteAuthenticatorAppConfiguration

LEMMA AccountSteps ==
  ASSUME TypeOK, [Next]_vars, NEW v \in Users
  PROVE  AccountStep(v, account[v], account'[v])
<1>0. /\ account \in [Users -> Account]
      /\ \A b \in Browsers : session[b].user \in Users \cup {None}
      /\ \A b \in Browsers : session[b].email \in Users \cup {None}
  BY DEF TypeOK, Session
<1>1. ASSUME account'[v] = account[v]
      PROVE  AccountStep(v, account[v], account'[v])
  BY <1>1 DEF AccountStep
<1>2. ASSUME NEW u \in Users, NEW r, account' = [account EXCEPT ![u] = r],
             AccountStep(u, account[u], r)
      PROVE  AccountStep(v, account[v], account'[v])
  BY <1>0, <1>1, <1>2
<1>3. ASSUME NEW b \in Browsers, NEW u \in Users, NEW r \in Account, NEW methods,
             CreateAuthenticatedSession(b, u, r, methods),
             Factors(r) = Factors(account[u]) \/ (~account[u].exists /\ ~r.force2fa)
      PROVE  AccountStep(v, account[v], account'[v])
  <2> DEFINE signedIn == [r EXCEPT !.lastSignIn = "last"]
  <2>1. Factors(signedIn) = Factors(r) /\ signedIn.force2fa = r.force2fa
    BY DEF Factors, Account
  <2>2. AccountStep(u, account[u], signedIn)
    BY <1>3, <2>1 DEF AccountStep
  <2>3. account' = [account EXCEPT ![u] = signedIn]
    BY <1>3 DEF CreateAuthenticatedSession
  <2> HIDE DEF signedIn
  <2> QED BY <1>2, <2>2, <2>3
<1>4. ASSUME NEW b \in Browsers,
             PostSignIn(b) \/ PostSignUp(b) \/ PostSignInWithPasskey(b)
      PROVE  AccountStep(v, account[v], account'[v])
  <2>1. session[b].email \in Users /\ account[session[b].email] \in Account
    BY <1>0, <1>4 DEF PostSignIn, PostSignUp, PostSignInWithPasskey
  <2>2. signupWithPassword(account[session[b].email]) \in Account
    BY <2>1, RowTypes
  <2> QED BY <1>3, <1>4, <2>1, <2>2, RowFactors
        DEF PostSignIn, PostSignUp, PostSignInWithPasskey
<1>5. ASSUME NEW b \in Browsers, NEW u \in Users, PostSignInWithMagicLink(b, u)
      PROVE  AccountStep(v, account[v], account'[v])
  <2>1. loginWithMagicLink(account[u]) \in Account
    BY <1>0, RowTypes DEF loginWithMagicLink
  <2>2. Factors(loginWithMagicLink(account[u])) = Factors(account[u])
    BY <1>0, RowFactors
  <2> QED BY <1>3, <1>5, <2>1, <2>2 DEF PostSignInWithMagicLink
<1>6. ASSUME NEW b \in Browsers, PostSendMagicLink(b)
      PROVE  AccountStep(v, account[v], account'[v])
  <2> DEFINE u == session[b].email
  <2>1. u \in Users
    BY <1>0, <1>6 DEF PostSendMagicLink
  <2>2. AccountStep(u, account[u], sendSendMagicLinkEmail(account[u]))
    BY <1>0, <2>1, RowFactors DEF AccountStep
  <2> QED BY <1>2, <1>6, <2>1, <2>2 DEF PostSendMagicLink
<1>7. ASSUME NEW b \in Browsers, NEW u \in Users, PostChangePassword(b, u)
      PROVE  AccountStep(v, account[v], account'[v])
  <2>1. AccountStep(u, account[u], changePassword(account[u]))
    BY <1>0, RowFactors DEF AccountStep
  <2> QED BY <1>2, <1>7, <2>1 DEF PostChangePassword
<1>8. ASSUME NEW b \in Browsers, Connected(b), NEW r,
             account' = [account EXCEPT ![session[b].user] = r],
             \/ Factors(r) = Factors(account[session[b].user])
             \/ CanAccessAdmin(b) /\ (r.force2fa => is2FACapable(r))
      PROVE  AccountStep(v, account[v], account'[v])
  <2>1. AccountStep(session[b].user, account[session[b].user], r)
    BY <1>8 DEF AccountStep
  <2> QED BY <1>2, <1>8, <2>1, ConnectedUser
<1>9. ASSUME NEW b \in Browsers,
             \/ PostSecondFactorTotp(b) \/ PostVerifyEmail(b)
             \/ \E uv \in BOOLEAN : PostSecondFactorPasskey(b, uv)
      PROVE  AccountStep(v, account[v], account'[v])
  <2>1. Connected(b)
    BY <1>9, ChainConnects DEF PostSecondFactorTotp, PostVerifyEmail, PostSecondFactorPasskey
  <2>2. Factors(verifyEmail(account[session[b].user])) = Factors(account[session[b].user])
    BY <2>1, ConnectedUser, RowFactors
  <2> QED BY <1>8, <1>9, <2>1, <2>2
        DEF PostSecondFactorTotp, PostVerifyEmail, PostSecondFactorPasskey, AddMethods
<1>10. ASSUME NEW b \in Browsers,
              \/ PostAuthenticatorAppConfiguration(b)
              \/ \E k \in Passkeys, uv \in BOOLEAN : PostVerifyRegistration(b, k, uv)
              \/ \E k \in Passkeys : DeletePasskey(b, k)
              \/ PostDeleteAuthenticatorApp(b)
       PROVE  AccountStep(v, account[v], account'[v])
  <2> DEFINE row == account[session[b].user]
  <2>1. CanAccessAdmin(b) /\ Connected(b)
    BY <1>10, ChainConnects DEF PostAuthenticatorAppConfiguration, PostVerifyRegistration,
         DeletePasskey, PostDeleteAuthenticatorApp
  <2>2. row \in Account
    BY <2>1, ConnectedUser
  <2>3. CASE PostAuthenticatorAppConfiguration(b)
    BY <1>8, <2>1, <2>2, <2>3, RowFactors DEF PostAuthenticatorAppConfiguration, AddMethods
  <2>4. CASE \E k \in Passkeys, uv \in BOOLEAN : PostVerifyRegistration(b, k, uv)
    <3>1. PICK k \in Passkeys, uv \in BOOLEAN : PostVerifyRegistration(b, k, uv)
      BY <2>4
    <3>2. is2FACapable(verifyRegistration(row, k))
      BY <2>2, RowFactors
    <3> QED BY <1>8, <2>1, <3>1, <3>2 DEF PostVerifyRegistration, AddMethods
  <2>5. CASE \E k \in Passkeys : DeletePasskey(b, k)
    <3>1. PICK k \in Passkeys : DeletePasskey(b, k)
      BY <2>5
    <3>2. deleteUserAuthenticator(row, k).force2fa =>
            is2FACapable(deleteUserAuthenticator(row, k))
      BY <2>2, RowFactors
    <3> QED BY <1>8, <2>1, <3>1, <3>2 DEF DeletePasskey
  <2>6. CASE PostDeleteAuthenticatorApp(b)
    BY <1>8, <2>1, <2>2, <2>6, RowFactors DEF PostDeleteAuthenticatorApp, UpdateUser
  <2> QED BY <1>10, <2>3, <2>4, <2>5, <2>6
<1>11. ASSUME NEW b \in Browsers, NEW force \in BOOLEAN, PostSetForce2fa(b, force)
       PROVE  AccountStep(v, account[v], account'[v])
  <2> DEFINE row == account[session[b].user]
             r == [row EXCEPT !.force2fa = force]
  <2>1. CanAccessAdmin(b) /\ Connected(b)
    BY <1>11, ChainConnects DEF PostSetForce2fa
  <2>2. row \in Account
    BY <2>1, ConnectedUser
  <2>3. r.force2fa => is2FACapable(r)
    BY <1>11, <2>2 DEF PostSetForce2fa, is2FACapable, Account
  <2>4. account' = [account EXCEPT ![session[b].user] = r]
    BY <1>11 DEF PostSetForce2fa, UpdateUser
  <2> HIDE DEF r
  <2> QED BY <1>8, <2>1, <2>3, <2>4
<1>12. ASSUME NEW b \in Browsers, GetVerifyEmail(b) \/ PostPersonalInformations(b)
       PROVE  AccountStep(v, account[v], account'[v])
  <2> DEFINE row == account[session[b].user]
  <2>1. Connected(b)
    BY <1>12, ChainConnects DEF GetVerifyEmail, PostPersonalInformations
  <2>2. /\ Factors([row EXCEPT !.tokens = @ \cup {"verify"}]) = Factors(row)
        /\ Factors([row EXCEPT !.info = TRUE]) = Factors(row)
    BY <2>1, ConnectedUser DEF Factors, Account
  <2> QED BY <1>8, <1>12, <2>1, <2>2 DEF GetVerifyEmail, PostPersonalInformations, UpdateUser
<1>13. ASSUME NEW u \in Users,
              \/ TokenExpires(u) \/ VerificationExpires(u)
              \/ \E times : SignInsGrowOld(u, times)
       PROVE  AccountStep(v, account[v], account'[v])
  <2>1. Factors(account'[v]) = Factors(account[v])
    BY <1>0, <1>13 DEF TokenExpires, VerificationExpires,
       SignInsGrowOld, Factors, Account
  <2> QED BY <2>1 DEF AccountStep
<1>14. ASSUME NEW b \in Browsers,
              \/ \E u \in Users : PostStartSignIn(b, u)
              \/ \E twoFa \in BOOLEAN : InteractionStart(b, twoFa)
              \/ InteractionEnd(b) \/ BreakConnexionFlow(b) \/ EndSession(b)
              \/ TrustedBrowserCookieExpires(b)
       PROVE  AccountStep(v, account[v], account'[v])
  BY <1>1, <1>14 DEF PostStartSignIn, InteractionStart, InteractionEnd,
     BreakConnexionFlow, EndSession, TrustedBrowserCookieExpires
<1>15. ASSUME NEW b \in Browsers, NEW u \in Users, PostResetPassword(b, u)
       PROVE  AccountStep(v, account[v], account'[v])
  <2>1. Factors(account'[v]) = Factors(account[v])
    BY <1>0, <1>15 DEF PostResetPassword, Factors, Account
  <2> QED BY <2>1 DEF AccountStep
<1>16. CASE UNCHANGED vars
  BY <1>1, <1>16 DEF vars
<1>17. CASE Next
  <2>1. ASSUME NEW b \in Browsers, NEW u \in Users,
               \/ PostStartSignIn(b, u) \/ PostSignInWithMagicLink(b, u)
               \/ PostResetPassword(b, u) \/ PostChangePassword(b, u)
        PROVE  AccountStep(v, account[v], account'[v])
    BY <2>1, <1>5, <1>7, <1>14, <1>15
  <2> QED BY <1>17, <2>1, <1>4, <1>6, <1>9, <1>10, <1>11, <1>12, <1>13, <1>14 DEF Next
<1> QED BY <1>16, <1>17

(***************************************************************************)
(* No account is forced to use a second factor that it does not have.      *)
(***************************************************************************)
THEOREM NobodyIsLockedOut == Spec => []ForcedUserIsCapable
<1>1. Init => ForcedUserIsCapable
  BY InitialRowsAssumption DEF Init, ForcedUserIsCapable
<1>2. TypeOK /\ ForcedUserIsCapable /\ [Next]_vars => ForcedUserIsCapable'
  BY AccountSteps DEF AccountStep, Factors, ForcedUserIsCapable, is2FACapable
<1> QED BY <1>1, <1>2, TypeCorrect, PTL DEF Spec

-------------------------------------------------------------------------------
(***************************************************************************)
(* Rows and the times of sign-ins.                                         *)
(***************************************************************************)

\* A user without a row has no means of authentication, no mail and no session.
RowsOfSessions ==
  /\ \A u \in Users :
       ~account[u].exists => ~is2FACapable(account[u]) /\ account[u].tokens = {}
  /\ \A b \in Browsers : session[b].user # None => account[session[b].user].exists

NotBefore(time, signIn) ==
  /\ signIn = "last" => time = "last"
  /\ signIn = "earlier" => time # "old"

\* Neither the copy of a session nor the row it is taken from is behind its own sign-in.
TimesOfSessions ==
  \A b \in Browsers : session[b].user # None =>
    /\ NotBefore(session[b].lastSignIn, ownSignIn[b])
    /\ NotBefore(account[session[b].user].lastSignIn, ownSignIn[b])

RowInv == TypeOK /\ RowsOfSessions /\ TimesOfSessions

\* What most steps do to a row, and to the session of a browser.
RowStays(a, r) ==
  /\ a.exists => r.exists /\ r.lastSignIn = a.lastSignIn
  /\ ~r.exists => (is2FACapable(r) => is2FACapable(a)) /\ r.tokens \subseteq a.tokens

SessionStays(b) ==
  \/ session'[b].user = None
  \/ /\ session'[b].user = session[b].user /\ ownSignIn'[b] = ownSignIn[b]
     /\ session'[b].lastSignIn \in {session[b].lastSignIn, account[session[b].user].lastSignIn}

LEMMA StaysKeep ==
  ASSUME RowInv, TypeOK', \A u \in Users : RowStays(account[u], account'[u]),
         \A b \in Browsers : SessionStays(b)
  PROVE  RowInv'
<1>1. TypeOK /\ RowsOfSessions /\ TimesOfSessions
  BY DEF RowInv
<1>2. ASSUME NEW u \in Users, ~account'[u].exists
      PROVE  ~is2FACapable(account'[u]) /\ account'[u].tokens = {}
  BY <1>1, <1>2 DEF RowStays, RowsOfSessions
<1>3. ASSUME NEW b \in Browsers, session'[b].user # None
      PROVE  /\ account'[session'[b].user].exists
             /\ NotBefore(session'[b].lastSignIn, ownSignIn'[b])
             /\ NotBefore(account'[session'[b].user].lastSignIn, ownSignIn'[b])
  <2>1. /\ session'[b].user = session[b].user /\ ownSignIn'[b] = ownSignIn[b]
        /\ session'[b].lastSignIn \in {session[b].lastSignIn, account[session[b].user].lastSignIn}
    BY <1>3 DEF SessionStays
  <2>2. session[b].user \in Users
    BY <1>1, <1>3, <2>1 DEF TypeOK, Session
  <2>3. account[session[b].user].exists
    BY <1>1, <1>3, <2>1 DEF RowsOfSessions
  <2>4. /\ account'[session[b].user].exists
        /\ account'[session[b].user].lastSignIn = account[session[b].user].lastSignIn
    BY <2>2, <2>3 DEF RowStays
  <2>5. /\ NotBefore(session[b].lastSignIn, ownSignIn[b])
        /\ NotBefore(account[session[b].user].lastSignIn, ownSignIn[b])
    BY <1>1, <1>3, <2>1 DEF TimesOfSessions
  <2> QED BY <2>1, <2>4, <2>5
<1> QED BY <1>2, <1>3 DEF RowInv, RowsOfSessions, TimesOfSessions

\* What the managers do to a row.
LEMMA ManagersKeep ==
  ASSUME NEW a \in Account
  PROVE  /\ RowStays(a, a)
         /\ RowStays(a, sendSendMagicLinkEmail(a))
         /\ \A r \in {verifyEmail(a), changePassword(a)} : RowStays(a, r)
         /\ \A m : RowStays(a, [a EXCEPT !.tokens = @ \ {m}])
         /\ RowStays(a, [a EXCEPT !.info = TRUE])
         /\ RowStays(a, [a EXCEPT !.verifiedRecently = FALSE])
         /\ \A force \in BOOLEAN : RowStays(a, [a EXCEPT !.force2fa = force])
         /\ RowStays(a, deleteAuthenticatorAppConfiguration(a))
         /\ \A k : RowStays(a, deleteUserAuthenticator(a, k))
         /\ a.exists =>
              /\ \A m : RowStays(a, [a EXCEPT !.tokens = @ \cup {m}])
              /\ RowStays(a, confirmAuthenticatorAppRegistration(a))
              /\ \A k : RowStays(a, verifyRegistration(a, k))
<1>1. RowStays(a, a)
  BY DEF RowStays
<1>2. RowStays(a, sendSendMagicLinkEmail(a))
  BY DEF RowStays, sendSendMagicLinkEmail, NewAccount, Account
<1>3. \A r \in {verifyEmail(a), changePassword(a)} : RowStays(a, r)
  BY DEF RowStays, verifyEmail, changePassword, UseMail, is2FACapable, Account
<1>4. \A m : RowStays(a, [a EXCEPT !.tokens = @ \ {m}])
  BY DEF RowStays, is2FACapable, Account
<1>5. /\ RowStays(a, [a EXCEPT !.info = TRUE])
      /\ RowStays(a, [a EXCEPT !.verifiedRecently = FALSE])
      /\ \A force \in BOOLEAN : RowStays(a, [a EXCEPT !.force2fa = force])
  BY DEF RowStays, is2FACapable, Account
<1>6. \A r \in Account : RowStays(r, DisableForce2faUnlessCapable(r))
  BY DEF RowStays, DisableForce2faUnlessCapable, is2FACapable, Account
<1>7. ASSUME NEW r \in Account, RowStays(a, r)
      PROVE  RowStays(a, DisableForce2faUnlessCapable(r))
  <2>1. RowStays(r, DisableForce2faUnlessCapable(r))
    BY <1>6
  <2> QED BY <1>7, <2>1 DEF RowStays
<1>8. RowStays(a, deleteAuthenticatorAppConfiguration(a))
  <2>1. [a EXCEPT !.totp = FALSE] \in Account /\ RowStays(a, [a EXCEPT !.totp = FALSE])
    BY DEF RowStays, is2FACapable, Account
  <2> QED BY <1>7, <2>1 DEF deleteAuthenticatorAppConfiguration
<1>9. \A k : RowStays(a, deleteUserAuthenticator(a, k))
  <2>1. \A k : /\ [a EXCEPT !.passkeys = @ \ {k}] \in Account
               /\ RowStays(a, [a EXCEPT !.passkeys = @ \ {k}])
    BY DEF RowStays, is2FACapable, Account
  <2> QED BY <1>7, <2>1 DEF deleteUserAuthenticator
<1>10. a.exists =>
         /\ \A m : RowStays(a, [a EXCEPT !.tokens = @ \cup {m}])
         /\ RowStays(a, confirmAuthenticatorAppRegistration(a))
         /\ \A k : RowStays(a, verifyRegistration(a, k))
  BY DEF RowStays, confirmAuthenticatorAppRegistration, verifyRegistration, Account
<1> QED BY <1>1, <1>2, <1>3, <1>4, <1>5, <1>8, <1>9, <1>10

LEMMA SignInKeeps ==
  ASSUME RowInv, TypeOK', NEW b \in Browsers, NEW u \in Users, NEW a \in Account, a.exists,
         NEW methods \in SignInMethods, CreateAuthenticatedSession(b, u, a, methods)
  PROVE  RowInv'
<1> DEFINE signedIn == [a EXCEPT !.lastSignIn = "last"]
           new == NewSession(session[b], u, methods)
           fresh == Refresh(new, signedIn)
           Superseded(c, time) ==
             IF c # b /\ session[c].user = u /\ time = "last" THEN "earlier" ELSE time
<1>1. TypeOK /\ RowsOfSessions /\ TimesOfSessions
  BY DEF RowInv
<1>2. signedIn \in Account /\ signedIn.exists /\ signedIn.lastSignIn = "last"
  BY DEF Account, SignInTime
<1>3. account' = [account EXCEPT ![u] = signedIn]
  BY DEF CreateAuthenticatedSession
<1>4. session'[b] = Enforce(fresh, signedIn) /\ ownSignIn'[b] = "last"
  BY DEF CreateAuthenticatedSession
<1>5. session'[b].user = u /\ session'[b].lastSignIn = "last"
  <2>1. methods \in SUBSET AmrValue
    BY DEF SignInMethods, AmrValue
  <2>2. new \in Session /\ new.user = u
    BY <1>1, <2>1, SessionTypes DEF TypeOK, NewSession, EmptySession
  <2>3. fresh \in Session /\ fresh.user = u /\ fresh.lastSignIn = "last"
    BY <1>2, <2>2, SessionTypes DEF Refresh, Session
  <2>4. Enforce(fresh, signedIn).user = u /\ Enforce(fresh, signedIn).lastSignIn = "last"
    BY <2>3 DEF Enforce, Session
  <2> QED BY <1>4, <2>4
<1>6. \A c \in Browsers \ {b} :
        /\ session'[c].user = session[c].user
        /\ session'[c].lastSignIn = Superseded(c, session[c].lastSignIn)
        /\ ownSignIn'[c] = Superseded(c, ownSignIn[c])
  BY <1>1 DEF CreateAuthenticatedSession, TypeOK, Session
<1> HIDE DEF signedIn, new, fresh
<1>7. account'[u] = signedIn /\ \A v \in Users \ {u} : account'[v] = account[v]
  BY <1>1, <1>3 DEF TypeOK
<1>8. ASSUME NEW v \in Users, ~account'[v].exists
      PROVE  ~is2FACapable(account'[v]) /\ account'[v].tokens = {}
  BY <1>1, <1>2, <1>7, <1>8 DEF RowsOfSessions
<1>9. ASSUME NEW c \in Browsers, session'[c].user # None
      PROVE  /\ account'[session'[c].user].exists
             /\ NotBefore(session'[c].lastSignIn, ownSignIn'[c])
             /\ NotBefore(account'[session'[c].user].lastSignIn, ownSignIn'[c])
  <2>1. CASE c = b
    BY <1>2, <1>4, <1>5, <1>7, <2>1 DEF NotBefore
  <2>2. CASE c # b
    <3>1. /\ session[c].user \in Users
          /\ account[session[c].user].exists
          /\ NotBefore(session[c].lastSignIn, ownSignIn[c])
          /\ NotBefore(account[session[c].user].lastSignIn, ownSignIn[c])
      BY <1>1, <1>6, <1>9, <2>2 DEF RowsOfSessions, TimesOfSessions, TypeOK, Session
    <3>2. CASE session[c].user = u
      BY <1>2, <1>6, <1>7, <2>2, <3>1, <3>2 DEF NotBefore
    <3>3. CASE session[c].user # u
      BY <1>6, <1>7, <2>2, <3>1, <3>3
    <3> QED BY <3>2, <3>3
  <2> QED BY <2>1, <2>2
<1> QED BY <1>8, <1>9 DEF RowInv, RowsOfSessions, TimesOfSessions

LEMMA GrowingOldKeeps ==
  ASSUME RowInv, TypeOK', NEW u \in Users,
         NEW times \in {{"earlier"}, {"earlier", "last"}}, SignInsGrowOld(u, times)
  PROVE  RowInv'
<1> DEFINE Aged(time) == IF time \in times THEN "old" ELSE time
<1>1. TypeOK /\ RowsOfSessions /\ TimesOfSessions
  BY DEF RowInv
<1>2. \A v \in Users : /\ account'[v].exists = account[v].exists
                       /\ account'[v].totp = account[v].totp
                       /\ account'[v].passkeys = account[v].passkeys
                       /\ account'[v].tokens = account[v].tokens
                       /\ account'[v].lastSignIn =
                            IF v = u THEN Aged(account[v].lastSignIn) ELSE account[v].lastSignIn
  BY <1>1 DEF SignInsGrowOld, TypeOK, Account
<1>3. \A b \in Browsers :
        /\ session'[b].user = session[b].user
        /\ session[b].user = u => /\ session'[b].lastSignIn = Aged(session[b].lastSignIn)
                                  /\ ownSignIn'[b] = Aged(ownSignIn[b])
        /\ session[b].user # u => /\ session'[b].lastSignIn = session[b].lastSignIn
                                  /\ ownSignIn'[b] = ownSignIn[b]
  BY <1>1 DEF SignInsGrowOld, TypeOK, Session
<1>4. \A time, signIn \in SignInTime :
        NotBefore(time, signIn) => NotBefore(Aged(time), Aged(signIn))
  BY DEF NotBefore, SignInTime
<1>5. ASSUME NEW b \in Browsers, session[b].user # None
      PROVE  /\ account'[session'[b].user].exists
             /\ NotBefore(session'[b].lastSignIn, ownSignIn'[b])
             /\ NotBefore(account'[session'[b].user].lastSignIn, ownSignIn'[b])
  <2>1. /\ session[b].user \in Users
        /\ account[session[b].user].exists
        /\ NotBefore(session[b].lastSignIn, ownSignIn[b])
        /\ NotBefore(account[session[b].user].lastSignIn, ownSignIn[b])
    BY <1>1, <1>5 DEF RowsOfSessions, TimesOfSessions, TypeOK, Session
  <2>2. /\ session[b].lastSignIn \in SignInTime /\ ownSignIn[b] \in SignInTime
        /\ account[session[b].user].lastSignIn \in SignInTime
    BY <1>1, <2>1 DEF TypeOK, Session, Account
  <2> HIDE DEF Aged
  <2>3. CASE session[b].user = u
    BY <1>2, <1>3, <1>4, <2>1, <2>2, <2>3
  <2>4. CASE session[b].user # u
    BY <1>2, <1>3, <2>1, <2>4
  <2> QED BY <2>3, <2>4
<1>6. RowsOfSessions' /\ TimesOfSessions'
  BY <1>1, <1>2, <1>3, <1>5 DEF RowsOfSessions, TimesOfSessions, is2FACapable
<1> QED BY <1>6 DEF RowInv

\* The steps of a user who is connected, and whose row becomes r.
LEMMA ConnectedKeeps ==
  ASSUME RowInv, TypeOK', NEW b \in Browsers, Connected(b), NEW r \in Account,
         RowStays(account[session[b].user], r),
         \/ \E methods \in SUBSET AmrValue : AddMethods(b, r, methods)
         \/ UpdateUser(b, r)
         \/ account' = [account EXCEPT ![session[b].user] = r] /\ UNCHANGED <<session, ownSignIn>>
  PROVE  RowInv'
<1> DEFINE u == session[b].user
<1>1. TypeOK /\ u \in Users /\ account[u] \in Account /\ account[u].exists
  BY ConnectedUser DEF RowInv, RowsOfSessions
<1>2. account' = [account EXCEPT ![u] = r] /\ UNCHANGED ownSignIn
  BY DEF AddMethods, UpdateUser
<1>3. r.lastSignIn = account[u].lastSignIn
  BY <1>1 DEF RowStays
<1>4. \A v \in Users : RowStays(account[v], account'[v])
  BY <1>1, <1>2, ManagersKeep DEF TypeOK
<1>5. \A c \in Browsers : SessionStays(c)
  <2>1. session[b] \in Session /\ Refresh(session[b], r) \in Session
    BY <1>1, SessionTypes DEF TypeOK
  <2>2. Refresh(session[b], r).user = u /\ Refresh(session[b], r).lastSignIn = account[u].lastSignIn
    BY <1>3, <2>1 DEF Refresh, Session
  <2>3. session'[b].user = u
        /\ session'[b].lastSignIn \in {session[b].lastSignIn, account[u].lastSignIn}
    BY <1>1, <2>1, <2>2 DEF AddMethods, UpdateUser, TypeOK, Session
  <2>4. \A c \in Browsers \ {b} : session'[c] = session[c]
    BY <1>1 DEF AddMethods, UpdateUser, TypeOK
  <2> QED BY <1>2, <2>3, <2>4 DEF SessionStays
<1> QED BY <1>4, <1>5, StaysKeep

LEMMA RowInvStep == RowInv /\ TypeOK' /\ [Next]_vars => RowInv'
<1> SUFFICES ASSUME RowInv, TypeOK', [Next]_vars PROVE RowInv'
  OBVIOUS
<1>0. /\ TypeOK /\ RowsOfSessions
      /\ \A u \in Users : account[u] \in Account
      /\ \A b \in Browsers : session[b] \in Session /\ session[b].email \in Users \cup {None}
  BY DEF RowInv, TypeOK, Session
<1>1. ASSUME \A u \in Users : RowStays(account[u], account'[u]), UNCHANGED <<session, ownSignIn>>
      PROVE  RowInv'
  <2>1. \A b \in Browsers : SessionStays(b)
    BY <1>1 DEF SessionStays
  <2> QED BY <1>1, <2>1, StaysKeep
<1>2. ASSUME NEW b \in Browsers,
             PostSignIn(b) \/ PostSignUp(b) \/ PostSignInWithPasskey(b)
      PROVE  RowInv'
  <2> DEFINE u == session[b].email
  <2>1. u \in Users /\ account[u] \in Account
    BY <1>0, <1>2 DEF PostSignIn, PostSignUp, PostSignInWithPasskey
  <2>2. CASE PostSignIn(b)
    BY <2>1, <2>2, SignInKeeps DEF PostSignIn, SignInMethods
  <2>3. CASE PostSignUp(b)
    <3> HIDE DEF u
    <3>1. signupWithPassword(account[u]) \in Account
      BY <2>1, RowTypes
    <3>2. signupWithPassword(account[u]).exists
      BY <2>1 DEF signupWithPassword, NewAccount, Account
    <3> USE DEF u
    <3> QED BY <2>1, <2>3, <3>1, <3>2, SignInKeeps DEF PostSignUp, SignInMethods
  <2>4. CASE PostSignInWithPasskey(b)
    <3>1. account[u].exists
      BY <1>0, <2>1, <2>4 DEF PostSignInWithPasskey, RowsOfSessions, is2FACapable
    <3> QED BY <2>1, <2>4, <3>1, SignInKeeps DEF PostSignInWithPasskey, SignInMethods
  <2> QED BY <1>2, <2>2, <2>3, <2>4
<1>3. ASSUME NEW b \in Browsers, NEW u \in Users, PostSignInWithMagicLink(b, u)
      PROVE  RowInv'
  <2>1. account[u].exists
    BY <1>0, <1>3 DEF PostSignInWithMagicLink, RowsOfSessions
  <2>2. loginWithMagicLink(account[u]) \in Account
    BY <1>0, RowTypes DEF loginWithMagicLink
  <2>3. loginWithMagicLink(account[u]).exists
    BY <1>0, <2>1 DEF loginWithMagicLink, UseMail, Account
  <2> QED BY <1>3, <2>2, <2>3, SignInKeeps DEF PostSignInWithMagicLink, SignInMethods
<1>4. ASSUME NEW b \in Browsers, PostSendMagicLink(b)
      PROVE  RowInv'
  <2>1. \A u \in Users : RowStays(account[u], account'[u])
    BY <1>0, <1>4, ManagersKeep DEF PostSendMagicLink, TypeOK
  <2> QED BY <1>1, <1>4, <2>1 DEF PostSendMagicLink
<1>5. ASSUME NEW b \in Browsers, NEW u \in Users, PostChangePassword(b, u)
      PROVE  RowInv'
  <2>1. \A v \in Users : RowStays(account[v], account'[v])
    BY <1>0, <1>5, ManagersKeep DEF PostChangePassword, TypeOK
  <2> QED BY <1>1, <1>5, <2>1 DEF PostChangePassword
<1>6. ASSUME NEW b \in Browsers,
             \/ PostSecondFactorTotp(b) \/ PostVerifyEmail(b)
             \/ PostAuthenticatorAppConfiguration(b)
             \/ \E uv \in BOOLEAN : PostSecondFactorPasskey(b, uv)
             \/ \E k \in Passkeys, uv \in BOOLEAN : PostVerifyRegistration(b, k, uv)
      PROVE  RowInv'
  <2> DEFINE row == account[session[b].user]
  <2>1. Connected(b)
    BY <1>6, ChainConnects DEF PostSecondFactorTotp, PostVerifyEmail,
         PostSecondFactorPasskey, PostAuthenticatorAppConfiguration, PostVerifyRegistration
  <2>2. row \in Account /\ row.exists
    BY <1>0, <2>1, ConnectedUser DEF RowsOfSessions
  <2>3. /\ verifyEmail(row) \in Account
        /\ confirmAuthenticatorAppRegistration(row) \in Account
        /\ \A k \in Passkeys : verifyRegistration(row, k) \in Account
    BY <2>2, RowTypes DEF verifyEmail
  <2>4. /\ RowStays(row, row) /\ RowStays(row, verifyEmail(row))
        /\ RowStays(row, confirmAuthenticatorAppRegistration(row))
        /\ \A k : RowStays(row, verifyRegistration(row, k))
    BY <2>2, ManagersKeep
  <2>5. /\ {"totp"} \in SUBSET AmrValue /\ {"email-otp"} \in SUBSET AmrValue
        /\ \A uv \in BOOLEAN : PasskeyMethods(uv) \in SUBSET AmrValue
    BY DEF AmrValue, PasskeyMethods
  <2> QED BY <1>6, <2>1, <2>2, <2>3, <2>4, <2>5, ConnectedKeeps DEF PostSecondFactorTotp,
        PostVerifyEmail, PostSecondFactorPasskey, PostAuthenticatorAppConfiguration,
        PostVerifyRegistration
<1>7. ASSUME NEW b \in Browsers,
             \/ GetVerifyEmail(b) \/ PostPersonalInformations(b)
             \/ PostDeleteAuthenticatorApp(b)
             \/ \E force \in BOOLEAN : PostSetForce2fa(b, force)
             \/ \E k \in Passkeys : DeletePasskey(b, k)
      PROVE  RowInv'
  <2> DEFINE row == account[session[b].user]
  <2>1. Connected(b)
    BY <1>7, ChainConnects DEF GetVerifyEmail, PostPersonalInformations,
         PostDeleteAuthenticatorApp, PostSetForce2fa, DeletePasskey
  <2>2. row \in Account /\ row.exists /\ session[b].user \in Users
    BY <1>0, <2>1, ConnectedUser DEF RowsOfSessions
  <2>3. CASE GetVerifyEmail(b)
    <3>1. [row EXCEPT !.tokens = @ \cup {"verify"}] \in Account
      BY <2>2, <2>3, RowTypes DEF GetVerifyEmail
    <3>2. RowStays(row, [row EXCEPT !.tokens = @ \cup {"verify"}])
      BY <2>2, ManagersKeep
    <3> QED BY <2>1, <2>3, <3>1, <3>2, ConnectedKeeps DEF GetVerifyEmail
  <2>4. CASE PostPersonalInformations(b)
    <3>1. [row EXCEPT !.info = TRUE] \in Account
      BY <2>2 DEF Account
    <3>2. RowStays(row, [row EXCEPT !.info = TRUE])
      BY <2>2, ManagersKeep
    <3> QED BY <2>1, <2>4, <3>1, <3>2, ConnectedKeeps DEF PostPersonalInformations
  <2>5. CASE PostDeleteAuthenticatorApp(b)
    <3>1. /\ deleteAuthenticatorAppConfiguration(row) \in Account
          /\ RowStays(row, deleteAuthenticatorAppConfiguration(row))
      BY <2>2, RowTypes, ManagersKeep
    <3> QED BY <2>1, <2>5, <3>1, ConnectedKeeps DEF PostDeleteAuthenticatorApp
  <2>6. ASSUME NEW force \in BOOLEAN, PostSetForce2fa(b, force)
        PROVE  RowInv'
    <3>1. [row EXCEPT !.force2fa = force] \in Account
      BY <2>2 DEF Account
    <3>2. RowStays(row, [row EXCEPT !.force2fa = force])
      BY <2>2, ManagersKeep
    <3> QED BY <2>1, <2>6, <3>1, <3>2, ConnectedKeeps DEF PostSetForce2fa
  <2>7. ASSUME NEW k \in Passkeys, DeletePasskey(b, k)
        PROVE  RowInv'
    <3>1. /\ deleteUserAuthenticator(row, k) \in Account
          /\ RowStays(row, deleteUserAuthenticator(row, k))
      BY <2>2, RowTypes, ManagersKeep
    <3> QED BY <2>1, <2>7, <3>1, ConnectedKeeps DEF DeletePasskey
  <2> QED BY <1>7, <2>3, <2>4, <2>5, <2>6, <2>7
<1>8. ASSUME NEW b \in Browsers, NEW u \in Users, PostResetPassword(b, u)
      PROVE  RowInv'
  <2>1. \A v \in Users : RowStays(account[v], account'[v])
    BY <1>0, <1>8, ManagersKeep DEF PostResetPassword, TypeOK
  <2>2. \A c \in Browsers : SessionStays(c)
    BY <1>0, <1>8 DEF PostResetPassword, SessionStays, TypeOK, Session
  <2> QED BY <2>1, <2>2, StaysKeep
<1>9. ASSUME NEW b \in Browsers,
             \/ \E u \in Users : PostStartSignIn(b, u)
             \/ \E twoFa \in BOOLEAN : InteractionStart(b, twoFa)
             \/ InteractionEnd(b) \/ BreakConnexionFlow(b) \/ EndSession(b)
      PROVE  RowInv'
  <2>1. \A v \in Users : RowStays(account[v], account'[v])
    BY <1>0, <1>9, ManagersKeep DEF PostStartSignIn, InteractionStart, InteractionEnd,
       BreakConnexionFlow, EndSession
  <2>2. \A s \in Session : \A a : Enforce(s, a).user = s.user
                                  /\ Enforce(s, a).lastSignIn = s.lastSignIn
    BY DEF Enforce, Session
  <2>3. \A c \in Browsers : SessionStays(c)
    BY <1>0, <1>9, <2>2 DEF PostStartSignIn, InteractionStart, InteractionEnd,
       BreakConnexionFlow, EndSession, EmptySession, SessionStays, TypeOK, Session
  <2> QED BY <2>1, <2>3, StaysKeep
<1>10. ASSUME NEW b \in Browsers, TrustedBrowserCookieExpires(b)
       PROVE  RowInv'
  BY <1>0, <1>1, <1>10, ManagersKeep DEF TrustedBrowserCookieExpires
<1>11. ASSUME NEW u \in Users, TokenExpires(u) \/ VerificationExpires(u)
       PROVE  RowInv'
  <2>1. CASE TokenExpires(u)
    <3>1. PICK m : account' = [account EXCEPT ![u].tokens = @ \ {m}]
      BY <2>1 DEF TokenExpires
    <3>2. RowStays(account[u], [account[u] EXCEPT !.tokens = @ \ {m}])
      BY <1>0, ManagersKeep
    <3>3. \A v \in Users : RowStays(account[v], account'[v])
      BY <1>0, <3>1, <3>2, ManagersKeep DEF TypeOK
    <3> QED BY <1>1, <2>1, <3>3 DEF TokenExpires
  <2>2. CASE VerificationExpires(u)
    <3>1. \A v \in Users : RowStays(account[v], account'[v])
      BY <1>0, <2>2, ManagersKeep DEF VerificationExpires, TypeOK
    <3> QED BY <1>1, <2>2, <3>1 DEF VerificationExpires
  <2> QED BY <1>11, <2>1, <2>2
<1>12. CASE UNCHANGED vars
  BY <1>0, <1>1, <1>12, ManagersKeep DEF vars
<1>13. CASE Next
  <2>1. ASSUME NEW b \in Browsers, NEW u \in Users,
               \/ PostStartSignIn(b, u) \/ PostSignInWithMagicLink(b, u)
               \/ PostResetPassword(b, u) \/ PostChangePassword(b, u)
        PROVE  RowInv'
    BY <2>1, <1>3, <1>5, <1>8, <1>9
  <2> QED BY <1>13, <2>1, <1>2, <1>4, <1>6, <1>7, <1>9, <1>10, <1>11, GrowingOldKeeps DEF Next
<1> QED BY <1>12, <1>13

LEMMA RowInvariant == Spec => []RowInv
<1>1. Init => RowInv
  <2> SUFFICES ASSUME Init PROVE RowInv
    OBVIOUS
  <2>1. TypeOK
    BY InitialAccountsAssumption, SessionTypes DEF Init, TypeOK, SignInTime
  <2>2. \A b \in Browsers : session[b].user = None
    BY DEF Init, EmptySession
  <2>3. \A u \in Users : account[u] \in InitialAccounts
    BY DEF Init
  <2> QED BY <2>1, <2>2, <2>3, InitialRowsAssumption
        DEF RowInv, RowsOfSessions, TimesOfSessions
<1> QED BY <1>1, RowInvStep, TypeCorrect, PTL DEF Spec

(***************************************************************************)
(* The auth_time of a session is never before the sign-in of that session, *)
(* whatever the user does in other browsers and however long ago it was.   *)
(***************************************************************************)
THEOREM AuthTimes == Spec => []AuthTimeNotBeforeSignIn
<1>1. RowInv => AuthTimeNotBeforeSignIn
  BY DEF RowInv, TimesOfSessions, NotBefore, AuthTimeNotBeforeSignIn, Connected,
     isWithinAuthenticatedSession
<1> QED BY <1>1, RowInvariant, PTL

(***************************************************************************)
(* The factors of an account that has one change only from a session of    *)
(* its user that used two.                                                 *)
(***************************************************************************)
THEOREM FactorsAreProtected == Spec => FactorsChangeWithTwoFactors
<1> DEFINE Protected ==
      \A u \in Users :
        (FactorsOf(u)' # FactorsOf(u) /\ is2FACapable(account[u])) =>
          \E b \in Browsers :
            session[b].user = u /\ isTwoFactorAuthenticated(session[b].amr)
<1>1. RowInv /\ [Next]_vars => Protected
  <2> SUFFICES ASSUME RowInv, [Next]_vars, NEW u \in Users,
                      FactorsOf(u)' # FactorsOf(u), is2FACapable(account[u])
               PROVE  \E b \in Browsers :
                        session[b].user = u /\ isTwoFactorAuthenticated(session[b].amr)
    OBVIOUS
  <2>1. AccountStep(u, account[u], account'[u])
    BY AccountSteps DEF RowInv
  <2>2. Factors(account'[u]) # Factors(account[u])
    BY DEF FactorsOf, Factors
  <2>3. account[u].exists
    BY DEF RowInv, RowsOfSessions
  <2>4. PICK b \in Browsers : session[b].user = u /\ CanAccessAdmin(b)
    BY <2>1, <2>2, <2>3 DEF AccountStep
  <2> QED BY <2>4 DEF CanAccessAdmin
<1>2. FactorsChangeWithTwoFactors <=> [][Protected]_vars
  BY DEF FactorsChangeWithTwoFactors
<1> HIDE DEF Protected
<1> QED BY <1>1, <1>2, RowInvariant, PTL DEF Spec

-------------------------------------------------------------------------------
(***************************************************************************)
(* Redirects.                                                              *)
(***************************************************************************)

SignInPages ==
  {"start-sign-in", "2fa-sign-in", "verify-email", "personal-information", "home",
   "connection-and-account"}

LEMMA Levels ==
  /\ DOMAIN PageLevel = SignInPages
  /\ PageLevel["start-sign-in"] = 0 /\ PageLevel["2fa-sign-in"] = 1
  /\ PageLevel["verify-email"] = 2 /\ PageLevel["personal-information"] = 3
  /\ PageLevel["home"] = 4 /\ PageLevel["connection-and-account"] = 6
BY DEF PageLevel, SignInPages

\* The chain in front of a page, read as a list of cases.
LEMMA HopByCases ==
  ASSUME NEW b, NEW s, NEW page \in SignInPages, NEW i \in 1..PageLevel[page],
         ~Obstacles(b, s)[i].met, \A j \in 1..(i - 1) : Obstacles(b, s)[j].met
  PROVE  Hop(b, s, page) = Obstacles(b, s)[i].page
<1> DEFINE unmet == Unmet(b, s, page)
           first == CHOOSE k \in unmet : \A j \in unmet : k <= j
<1>1. PageLevel[page] \in 0..6
  BY Levels DEF SignInPages
<1>2. i \in unmet /\ unmet \subseteq 1..6
  BY <1>1 DEF Unmet
<1>3. \A j \in unmet : i <= j
  <2> SUFFICES ASSUME NEW j \in unmet, j < i PROVE FALSE
    BY <1>1, <1>2
  <2>1. j \in 1..(i - 1)
    BY <1>2
  <2> QED BY <2>1 DEF Unmet
<1>4. first \in unmet /\ \A j \in unmet : first <= j
  BY <1>2, <1>3
<1>5. first = i
  BY <1>2, <1>3, <1>4
<1> HIDE DEF first
<1> QED BY <1>2, <1>5 DEF Hop, first

LEMMA HopOfOpenPage ==
  ASSUME NEW b, NEW s, NEW page, Renders(b, s, page)
  PROVE  Hop(b, s, page) = page
BY DEF Hop, Renders

\* Whoever is asked for a second factor has one: the requirement is dropped otherwise, and
\* nobody is forced who has none.
LEMMA NeedsMeansCapable ==
  ASSUME TypeOK, ForcedUserIsCapable, NEW b \in Browsers, Connected(b),
         NeedsTwoFactor(Enforce(session[b], account[session[b].user]))
  PROVE  is2FACapable(account[session[b].user])
<1> DEFINE s == session[b]
           t == Enforce(s, account[s.user])
<1>1. s \in Session /\ s.user \in Users
  BY ConnectedUser DEF TypeOK
<1>2. t.user = s.user /\ t.amr = s.amr
  BY <1>1 DEF Enforce, Session
<1>3. t.twoFa /\ ~isTwoFactorAuthenticated(s.amr) => is2FACapable(account[s.user])
  BY <1>1 DEF Enforce, Session
<1> HIDE DEF t
<1> QED BY <1>1, <1>2, <1>3 DEF NeedsTwoFactor, ForcedUserIsCapable, t

\* With a copy that is current, a redirect leads to a page that is shown.
LEMMA OneHop ==
  ASSUME NEW b \in Browsers, NEW s, NEW page \in SignInPages,
         isWithinAuthenticatedSession(s),
         NeedsTwoFactor(s) => is2FACapable(account[s.user]),
         s.user = session[b].user, s.verified = account[s.user].verified
  PROVE  Renders(b, s, Hop(b, s, page))
<1> DEFINE a == account[s.user]
           o == Obstacles(b, s)
           next == Hop(b, s, page)
<1>1. /\ o[1].met
      /\ o[2].met = ~NeedsTwoFactor(s)
      /\ o[2].page = IF is2FACapable(a) THEN "2fa-sign-in" ELSE "connection-and-account"
      /\ o[3].met = (s.verified /\ a.verifiedRecently /\ isBrowserTrusted(b))
      /\ o[3].page = "verify-email"
      /\ o[4].met = s.info /\ o[4].page = "personal-information"
      /\ o[5].met = hasUserAuthenticatedRecently(s) /\ o[5].page = "start-sign-in"
      /\ o[6].met = (is2FACapable(a) => isTwoFactorAuthenticated(s.amr))
      /\ o[6].page = "2fa-sign-in"
  BY DEF Obstacles
<1>2. o[3].met => NoNeedVerifyEmailAddress(b)
  BY <1>1 DEF NoNeedVerifyEmailAddress
<1>3. NoNeedVerifyEmailAddress(b) => o[3].met
  BY <1>1 DEF NoNeedVerifyEmailAddress
<1> HIDE DEF o
\* The pages that are shown.
<1>4. Renders(b, s, "start-sign-in")
  BY Levels DEF Renders, Unmet
<1>5. Renders(b, s, "2fa-sign-in")
  BY <1>1, Levels DEF Renders, Unmet, o
<1>6. o[2].met /\ ~o[3].met => Renders(b, s, "verify-email")
  BY <1>1, <1>3, Levels DEF Renders, Unmet, o
<1>7. o[2].met /\ o[3].met => Renders(b, s, "personal-information")
  BY <1>1, Levels DEF Renders, Unmet, o
\* The first obstacle of the page decides.
<1> DEFINE level == PageLevel[page]
<1>8. level \in {0, 1, 2, 3, 4, 6}
  BY Levels DEF SignInPages
<1>9. \A i \in 1..level :
        ~o[i].met /\ (\A j \in 1..(i - 1) : o[j].met) => next = o[i].page
  BY HopByCases DEF o
<1> HIDE DEF next, level
<1>10. CASE level > 1 /\ ~o[2].met
  <2>1. next = o[2].page
    BY <1>1, <1>8, <1>9, <1>10
  <2> QED BY <1>1, <1>5, <1>10, <2>1 DEF next
<1>11. CASE level > 2 /\ o[2].met /\ ~o[3].met
  <2>1. next = o[3].page
    BY <1>1, <1>8, <1>9, <1>11
  <2> QED BY <1>1, <1>6, <1>11, <2>1 DEF next
<1>12. CASE level > 3 /\ o[2].met /\ o[3].met /\ ~o[4].met
  <2>1. next = o[4].page
    BY <1>1, <1>8, <1>9, <1>12
  <2> QED BY <1>1, <1>7, <1>12, <2>1 DEF next
<1>13. CASE level > 4 /\ o[2].met /\ o[3].met /\ o[4].met /\ ~o[5].met
  <2>1. next = o[5].page
    BY <1>1, <1>8, <1>9, <1>13
  <2> QED BY <1>1, <1>4, <2>1 DEF next
<1>14. CASE level > 4 /\ o[2].met /\ o[3].met /\ o[4].met /\ o[5].met /\ ~o[6].met
  <2>1. next = o[6].page
    BY <1>1, <1>8, <1>9, <1>14
  <2> QED BY <1>1, <1>5, <2>1 DEF next
<1>15. CASE \A i \in 1..level : o[i].met
  <2>1. Unmet(b, s, page) = {}
    BY <1>15 DEF Unmet, o, level
  <2>2. CASE ~(page = "verify-email" /\ NoNeedVerifyEmailAddress(b))
    <3>1. Renders(b, s, page)
      BY <2>1, <2>2 DEF Renders
    <3> QED BY <3>1, HopOfOpenPage
  <2>3. CASE page = "verify-email" /\ NoNeedVerifyEmailAddress(b)
    <3>1. next = "personal-information"
      BY <2>1, <2>3 DEF next, Hop, Renders
    <3>2. o[2].met /\ o[3].met
      BY <1>3, <1>15, <2>3, Levels DEF level
    <3> QED BY <1>7, <3>1, <3>2 DEF next
  <2> QED BY <2>2, <2>3
<1> QED BY <1>1, <1>8, <1>10, <1>11, <1>12, <1>13, <1>14, <1>15

LEMMA LeastOfSix ==
  ASSUME NEW S, S \subseteq 1..6, S # {}
  PROVE  \E k \in S : \A j \in S : k <= j
<1>1. CASE 1 \in S
  BY <1>1
<1>2. CASE 1 \notin S /\ 2 \in S
  BY <1>2
<1>3. CASE 1 \notin S /\ 2 \notin S /\ 3 \in S
  BY <1>3
<1>4. CASE 1 \notin S /\ 2 \notin S /\ 3 \notin S /\ 4 \in S
  BY <1>4
<1>5. CASE 1 \notin S /\ 2 \notin S /\ 3 \notin S /\ 4 \notin S /\ 5 \in S
  BY <1>5
<1>6. CASE 1 \notin S /\ 2 \notin S /\ 3 \notin S /\ 4 \notin S /\ 5 \notin S
  <2>1. \A k \in S : k \in 1..6 /\ k \notin {1, 2, 3, 4, 5}
    BY <1>6
  <2>2. \A k \in S : k = 6
    BY <2>1
  <2>3. \A j, k \in S : k <= j
    BY <2>2
  <2> QED
    BY <2>3
<1> QED
  BY <1>1, <1>2, <1>3, <1>4, <1>5, <1>6

LEMMA HopsAreToPages ==
  ASSUME NEW b, NEW s, NEW page \in SignInPages
  PROVE  Hop(b, s, page) \in SignInPages
<1> DEFINE unmet == Unmet(b, s, page)
           first == CHOOSE i \in unmet : \A j \in unmet : i <= j
<1>1. CASE unmet = {}
  BY <1>1 DEF Hop, SignInPages
<1>2. CASE unmet # {}
  <2>1. unmet \subseteq 1..6
    BY Levels DEF Unmet, SignInPages
  <2>2. PICK i \in unmet : \A j \in unmet : i <= j
    BY <1>2, <2>1, LeastOfSix
  <2>3. first \in 1..6
    BY <2>1, <2>2
  <2>4. Hop(b, s, page) = Obstacles(b, s)[first].page
    BY <1>2 DEF Hop
  <2> HIDE DEF first
  <2> QED BY <2>3, <2>4 DEF Obstacles, SignInPages
<1> QED BY <1>1, <1>2

LEMMA CurrentCopySettles ==
  ASSUME TypeOK, ForcedUserIsCapable, NEW b \in Browsers, Connected(b),
         session[b].verified = account[session[b].user].verified,
         NEW page \in SignInPages
  PROVE  Settles(b, page)
<1> DEFINE s == Enforce(session[b], account[session[b].user])
           begin == Hop(b, session[b], page)
           end == Hop(b, s, begin)
           Visited(v) == v = [n \in 1..6 |-> IF n = 1 THEN begin ELSE Hop(b, s, v[n - 1])]
<1>1. /\ s.user = session[b].user /\ s.amr = session[b].amr
      /\ s.verified = session[b].verified
  BY DEF TypeOK, Enforce, Session
<1>2. isWithinAuthenticatedSession(s)
  BY <1>1 DEF Connected, isWithinAuthenticatedSession
<1>3. NeedsTwoFactor(s) => is2FACapable(account[s.user])
  BY <1>1, NeedsMeansCapable
<1>4. begin \in SignInPages
  BY HopsAreToPages
<1> HIDE DEF s, begin
<1>5. Renders(b, s, end) /\ Hop(b, s, end) = end
  BY <1>1, <1>2, <1>3, <1>4, OneHop, HopOfOpenPage
<1> HIDE DEF end
<1>6. Visited([n \in 1..6 |-> IF n = 1 THEN begin ELSE end])
  BY <1>5 DEF end
<1>7. ASSUME NEW v, Visited(v) PROVE v[6] = end
  <2>1. v[1] = begin /\ v[2] = Hop(b, s, v[1]) /\ v[3] = Hop(b, s, v[2])
        /\ v[4] = Hop(b, s, v[3]) /\ v[5] = Hop(b, s, v[4]) /\ v[6] = Hop(b, s, v[5])
    BY <1>7
  <2> QED BY <1>5, <2>1 DEF end
<1>8. (CHOOSE v : Visited(v))[6] = end
  BY <1>6, <1>7
<1> QED BY <1>5, <1>8 DEF Settles, s, begin

(***************************************************************************)
(* However the sessions of a user, its row and the trusted browsers        *)
(* change, the redirects of the sign-in pages come to a page that is shown *)
(* after two hops, unless the session's copy of email_verified is behind   *)
(* the row (middlewares/user.ts, controllers/user/verify-email.ts).        *)
(***************************************************************************)
THEOREM RedirectsComeToAPage == Spec => []RedirectsSettleWhenCurrent
<1>1. TypeOK /\ ForcedUserIsCapable => RedirectsSettleWhenCurrent
  BY CurrentCopySettles, Levels DEF RedirectsSettleWhenCurrent
<1> QED BY <1>1, TypeCorrect, NobodyIsLockedOut, PTL
=============================================================================
