---------------------------- MODULE AccountRequests ----------------------------
(***************************************************************************)
(* The requests that change the second factors and the one-time secrets of *)
(* one account, await by await: src/managers/2fa.ts, totp.ts, webauthn.ts  *)
(* and the mailed tokens of user.ts.  SignIn takes each of them as one     *)
(* step; here each query is a step, and no transaction holds them together.*)
(*                                                                         *)
(* Several requests are in flight for the account: of several sessions, of *)
(* a browser that sends a form twice.  A step is a query, or a call of a   *)
(* service, with the code that runs until the next one.                    *)
(***************************************************************************)
EXTENDS Integers, FiniteSets

CONSTANTS
  None,
  Requests,         \* the requests that may be in flight at once
  MaxRequests,      \* bound: how many requests are received altogether
  Passkeys,
  Secrets,          \* the values of challenges and tokens; each is generated once
  Offers            \* the sets of operations that are exercised together

VARIABLES
  account,          \* the row of the account and its rows in authenticators
  request,          \* the requests in flight
  received,         \* how many requests were received so far
  generated,        \* the secrets that have been generated
  delivered,        \* the last secret of a kind that reached the user
  offered,          \* which operations this behaviour exercises
  accepted,         \* history: <<s, late>> when s was accepted, late if it had been before
  before,           \* history: the account when no request was in flight last
  disturbed,        \* history: requests have overlapped, or one has died
  contended         \* history: requests that conflict have overlapped, or one has died

vars == <<account, request, received, generated, delivered, offered,
          accepted, before, disturbed, contended>>

Absent == -1

TokenKinds == {"verify", "magic", "reset"}
Kinds == {"challenge"} \cup TokenKinds

Asking == {"getOptions", "sendToken"}
Answering == {"verifyRegistration", "verifyAuthentication", "useToken"}
Enforcing == {"enableForce2fa", "confirmTotp", "verifyRegistration"}
Removing == {"deleteTotp", "deleteAuthenticator"}
Operations == Asking \cup Answering \cup Enforcing \cup Removing \cup {"disableForce2fa"}

ASSUME NoneAssumption == None \notin Operations \cup Kinds \cup Passkeys \cup Secrets
ASSUME OffersAssumption == Offers \subseteq SUBSET Operations
ASSUME MaxRequestsAssumption == MaxRequests \in Nat

\* keys is how often a passkey that is registered was used.
Account ==
  [totp : BOOLEAN, force : BOOLEAN, keys : [Passkeys -> Nat \cup {Absent}],
   secret : [Kinds -> Secrets \cup {None}]]

Positions == {"idle", "store", "deliver", "totp", "keys", "force", "find", "spend",
              "clear", "authenticator", "create", "count"}

\* pc is the next query; seen is what an earlier one has found; late tells that
\* the secret had been accepted before this request began.
Request ==
  [op : Operations \cup {None}, pc : Positions, kind : Kinds \cup {None},
   key : Passkeys \cup {None}, secret : Secrets \cup {None},
   seen : Secrets \cup {None} \cup Nat, late : BOOLEAN]

Idle == [op |-> None, pc |-> "idle", kind |-> None, key |-> None,
         secret |-> None, seen |-> None, late |-> FALSE]

InFlight == {r \in Requests : request[r] # Idle}
Quiet == InFlight = {}

Spent(s) == \E late \in BOOLEAN : <<s, late>> \in accepted

is2FACapable(a) == a.totp \/ \E k \in Passkeys : a.keys[k] # Absent

Init ==
  /\ account \in [totp : BOOLEAN, force : BOOLEAN, keys : [Passkeys -> {Absent, 0}],
                  secret : {[kind \in Kinds |-> None]}]
  /\ account.force => is2FACapable(account)
  /\ request = [r \in Requests |-> Idle]
  /\ received = 0
  /\ generated = {}
  /\ delivered = [kind \in Kinds |-> None]
  /\ offered \in Offers
  /\ accepted = {}
  /\ before = account
  /\ disturbed = FALSE
  /\ contended = FALSE

-------------------------------------------------------------------------------
(* Every step ends in one of these.                                        *)

Goes(r, pc) == request' = [request EXCEPT ![r].pc = pc]

\* The account is quiet again when the last request ends.
Ends(r) ==
  /\ request' = [request EXCEPT ![r] = Idle]
  /\ before' = IF InFlight = {r} THEN account' ELSE before

\* The request goes on, or it ends; nothing else is touched.
Continues(r, pc) == Goes(r, pc) /\ UNCHANGED before
Bystanders == UNCHANGED <<received, offered, disturbed, contended>>
NothingIssued == UNCHANGED <<generated, delivered>>
Refuses(r) == UNCHANGED <<account, accepted>> /\ Ends(r)
Accepts(r) == accepted' = accepted \cup {<<request[r].secret, request[r].late>>}

-------------------------------------------------------------------------------
FirstQuery(op) ==
  CASE op \in {"getOptions", "sendToken", "confirmTotp"} \cup Removing -> "store"
    [] op \in Answering -> "find"
    [] op = "enableForce2fa" -> "totp"
    [] op = "disableForce2fa" -> "force"

\* What a request may carry: a key where one is registered, used or deleted, a
\* secret that a browser has received where one is answered.
Arguments(op) ==
  [kind : CASE op \in {"getOptions", "verifyRegistration", "verifyAuthentication"} -> {"challenge"}
            [] op \in {"sendToken", "useToken"} -> TokenKinds
            [] OTHER -> {None},
   key : IF op \in {"verifyRegistration", "verifyAuthentication", "deleteAuthenticator"}
         THEN Passkeys ELSE {None},
   secret : IF op \in Answering THEN generated \cup {None} ELSE {None}]

\* One enforces the second factor while the other removes one; one sends a token
\* of a kind while the other sends or uses one of that kind.
Conflict(x, y) ==
  \/ x.op \in Enforcing /\ y.op \in Removing
  \/ x.op = "sendToken" /\ y.op \in {"sendToken", "useToken"} /\ x.kind = y.kind

Receive(r) ==
  /\ request[r] = Idle
  /\ received < MaxRequests
  /\ \E op \in offered : \E a \in Arguments(op) :
       LET x == [op |-> op, pc |-> FirstQuery(op), kind |-> a.kind, key |-> a.key,
                 secret |-> a.secret, seen |-> None, late |-> Spent(a.secret)]
       IN /\ request' = [request EXCEPT ![r] = x]
          /\ contended' = (contended \/ \E s \in InFlight :
               Conflict(x, request[s]) \/ Conflict(request[s], x))
  /\ received' = received + 1
  /\ disturbed' = (disturbed \/ ~Quiet)
  /\ UNCHANGED <<account, generated, delivered, offered, accepted, before>>

\* A query, a mail or a service fails: the request ends where it is.
Dies(r) ==
  /\ request[r] # Idle
  /\ Refuses(r)
  /\ disturbed' = TRUE
  /\ contended' = TRUE
  /\ NothingIssued
  /\ UNCHANGED <<received, offered>>

-------------------------------------------------------------------------------
(* Changing the second factors.                                            *)

\* confirmAuthenticatorAppRegistration, deleteAuthenticatorAppConfiguration
StoreTotp(r) ==
  /\ request[r].pc = "store"
  /\ request[r].op \in {"confirmTotp", "deleteTotp"}
  /\ account' = [account EXCEPT !.totp = request[r].op = "confirmTotp"]
  /\ Continues(r, "totp")
  /\ Bystanders /\ NothingIssued /\ UNCHANGED accepted

\* Mistake: nobody looks whether a second factor is left.
DeleteAuthenticatorOnly(r) ==
  LET k == request[r].key IN
  /\ request[r].pc = "store"
  /\ request[r].op = "deleteAuthenticator"
  /\ account' = [account EXCEPT !.keys[k] = Absent]
  /\ Ends(r)
  /\ Bystanders /\ NothingIssued /\ UNCHANGED accepted

\* deleteUserAuthenticator
DeleteAuthenticator(r) ==
  LET k == request[r].key IN
  /\ request[r].pc = "store"
  /\ request[r].op = "deleteAuthenticator"
  /\ IF account.keys[k] # Absent
     THEN /\ account' = [account EXCEPT !.keys[k] = Absent]
          /\ Continues(r, "totp")
          /\ UNCHANGED accepted
     ELSE Refuses(r)
  /\ Bystanders /\ NothingIssued

\* The outcome of is2FACapable: who enforces goes on if the account is capable,
\* who removes goes on if it is not.
AfterCapability(r, capable) ==
  IF capable = (request[r].op \in Enforcing)
  THEN Continues(r, "force") /\ UNCHANGED <<account, accepted>>
  ELSE Refuses(r)

\* isAuthenticatorAppConfiguredForUser
CheckTotp(r) ==
  /\ request[r].pc = "totp"
  /\ IF account.totp
     THEN AfterCapability(r, TRUE)
     ELSE Continues(r, "keys") /\ UNCHANGED <<account, accepted>>
  /\ Bystanders /\ NothingIssued

\* Mistake: the protection is switched off whatever is left.
CheckTotpOnly(r) ==
  /\ request[r].pc = "keys"
  /\ AfterCapability(r, FALSE)
  /\ Bystanders /\ NothingIssued

\* isWebauthnConfiguredForUser
CheckKeys(r) ==
  /\ request[r].pc = "keys"
  /\ AfterCapability(r, \E k \in Passkeys : account.keys[k] # Absent)
  /\ Bystanders /\ NothingIssued

\* the update of enableForce2fa and of disableForce2fa
WriteForce(r) ==
  /\ request[r].pc = "force"
  /\ account' = [account EXCEPT !.force = request[r].op \in Enforcing]
  /\ Ends(r)
  /\ Bystanders /\ NothingIssued /\ UNCHANGED accepted

-------------------------------------------------------------------------------
(* Secrets that are to be used once.  A challenge comes with the answer to *)
(* the request; a token is mailed once it is stored.                       *)

StoreSecret(r) ==
  /\ request[r].pc = "store"
  /\ request[r].op \in Asking
  /\ \E s \in Secrets \ generated :
       /\ account' = [account EXCEPT !.secret[request[r].kind] = s]
       /\ generated' = generated \cup {s}
       /\ request' = [request EXCEPT ![r].pc = "deliver", ![r].secret = s]
  /\ Bystanders /\ UNCHANGED <<delivered, accepted, before>>

\* sendEmailAddressVerificationEmail: the address needs no verification, or the
\* code that was sent is still good.
CodeNotSent(r) ==
  /\ request[r].pc = "store"
  /\ request[r].kind = "verify" /\ request[r].op = "sendToken"
  /\ Refuses(r)
  /\ Bystanders /\ NothingIssued

Deliver(r) ==
  /\ request[r].pc = "deliver"
  /\ delivered' = [delivered EXCEPT ![request[r].kind] = request[r].secret]
  /\ UNCHANGED <<account, generated, accepted>>
  /\ Ends(r)
  /\ Bystanders

\* Mistake: an empty token matches an empty column.
FindTokenOrNothing(r) ==
  /\ request[r].pc = "find"
  /\ request[r].op = "useToken"
  /\ IF account.secret[request[r].kind] = request[r].secret
     THEN Continues(r, "spend") /\ UNCHANGED <<account, accepted>>
     ELSE Refuses(r)
  /\ Bystanders /\ NothingIssued

\* findByEmail, findByMagicLinkToken, findByResetPasswordToken
FindToken(r) ==
  /\ request[r].pc = "find"
  /\ request[r].op = "useToken"
  /\ IF /\ request[r].secret # None
        /\ account.secret[request[r].kind] = request[r].secret
     THEN Continues(r, "spend") /\ UNCHANGED <<account, accepted>>
     ELSE Refuses(r)
  /\ Bystanders /\ NothingIssued

\* Mistake: the token is spent although the password is refused.
RefusePasswordAndToken(r) ==
  /\ request[r].pc = "spend"
  /\ request[r].kind = "reset"
  /\ account' = [account EXCEPT !.secret["reset"] = None]
  /\ Ends(r)
  /\ Bystanders /\ NothingIssued /\ UNCHANGED accepted

\* changePassword: isPasswordSecure, hasPasswordBeenPwned
RefusePassword(r) ==
  /\ request[r].pc = "spend"
  /\ request[r].kind = "reset"
  /\ Refuses(r)
  /\ Bystanders /\ NothingIssued

\* Mistake: the token stays in the row, as some codes do until they expire.
KeepToken(r) ==
  /\ request[r].pc = "spend"
  /\ Accepts(r)
  /\ UNCHANGED account
  /\ Ends(r)
  /\ Bystanders /\ NothingIssued

\* the update of verifyEmail, loginWithMagicLink and changePassword
SpendToken(r) ==
  /\ request[r].pc = "spend"
  /\ account' = [account EXCEPT !.secret[request[r].kind] = None]
  /\ Accepts(r)
  /\ Ends(r)
  /\ Bystanders /\ NothingIssued

\* findUserByEmail of verifyRegistration and of verifyAuthentication
FindChallenge(r) ==
  /\ request[r].pc = "find"
  /\ request[r].kind = "challenge"
  /\ IF account.secret["challenge"] # None
     THEN /\ request' = [request EXCEPT ![r].pc = "clear",
                                        ![r].seen = account.secret["challenge"]]
          /\ UNCHANGED <<account, accepted, before>>
     ELSE Refuses(r)
  /\ Bystanders /\ NothingIssued

\* The challenge is cleared; then a registration is verified at once.
ClearChallenge(r) ==
  LET x == request[r] IN
  /\ x.pc = "clear"
  /\ account' = [account EXCEPT !.secret["challenge"] = None]
  /\ IF x.op = "verifyAuthentication" THEN Continues(r, "authenticator")
     ELSE IF x.secret = x.seen THEN Continues(r, "create")
     ELSE Ends(r)
  /\ Bystanders /\ NothingIssued /\ UNCHANGED accepted

\* getAuthenticatorFriendlyName, createAuthenticator: credential_id is the key
\* of the table.
CreateAuthenticator(r) ==
  LET k == request[r].key IN
  /\ request[r].pc = "create"
  /\ IF account.keys[k] = Absent
     THEN /\ account' = [account EXCEPT !.keys[k] = 0]
          /\ Accepts(r)
          /\ Continues(r, "totp")
     ELSE Refuses(r)
  /\ Bystanders /\ NothingIssued

\* findAuthenticator, then the verification of the answer
FindAuthenticator(r) ==
  LET x == request[r] IN
  /\ x.pc = "authenticator"
  /\ IF account.keys[x.key] # Absent /\ x.secret = x.seen
     THEN /\ request' = [request EXCEPT ![r].pc = "count", ![r].seen = account.keys[x.key]]
          /\ UNCHANGED <<account, accepted, before>>
     ELSE Refuses(r)
  /\ Bystanders /\ NothingIssued

\* updateAuthenticator
CountUse(r) ==
  LET k == request[r].key IN
  /\ request[r].pc = "count"
  /\ account' = IF account.keys[k] = Absent THEN account
                ELSE [account EXCEPT !.keys[k] = request[r].seen + 1]
  /\ Accepts(r)
  /\ Ends(r)
  /\ Bystanders /\ NothingIssued

-------------------------------------------------------------------------------
Proceed(r) ==
  \/ StoreTotp(r) \/ DeleteAuthenticator(r)
  \/ CheckTotp(r) \/ CheckKeys(r) \/ WriteForce(r)
  \/ StoreSecret(r) \/ CodeNotSent(r) \/ Deliver(r)
  \/ FindToken(r) \/ RefusePassword(r) \/ SpendToken(r)
  \/ FindChallenge(r) \/ ClearChallenge(r)
  \/ CreateAuthenticator(r) \/ FindAuthenticator(r) \/ CountUse(r)

Next == \E r \in Requests : Receive(r) \/ Dies(r) \/ Proceed(r)

Spec == Init /\ [][Next]_vars
=============================================================================
