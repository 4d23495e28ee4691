------------------------- MODULE AccountRequestsProofs -------------------------
(***************************************************************************)
(* Proofs about AccountRequests, for any number of requests, passkeys and  *)
(* secrets.                                                                *)
(***************************************************************************)
EXTENDS AccountRequestsProperties, TLAPS

-------------------------------------------------------------------------------
(* Types.                                                                  *)

\* What the position of a request tells of its kind and of what it has found.
Placed(x) ==
  /\ x.op \in {"getOptions", "verifyRegistration", "verifyAuthentication"}
       => x.kind = "challenge"
  /\ x.op \in {"sendToken", "useToken"} => x.kind \in TokenKinds
  /\ x.kind = "challenge"
       => x.op \in {"getOptions", "verifyRegistration", "verifyAuthentication"}
  /\ x.op \in {"verifyRegistration", "verifyAuthentication", "deleteAuthenticator"}
       => x.key \in Passkeys
  /\ x.pc \in {"find"} => x.op \in Answering
  /\ x.pc \in {"clear", "authenticator", "create", "count"}
       => x.op \in {"verifyRegistration", "verifyAuthentication"}
  /\ x.pc = "spend" => x.op = "useToken"
  /\ x.pc = "deliver" => x.op \in Asking /\ x.secret \in Secrets
  /\ x.pc \in {"clear", "authenticator"} => x.seen \in Secrets
  /\ x.pc \in {"spend", "create", "count"} => x.secret \in Secrets
  /\ x.pc = "count" => x.seen \in Nat

TypeInv == TypeOK /\ \A r \in Requests : Placed(request[r])

LEMMA IdleIsPlaced == Idle \in Request /\ Placed(Idle)
<1>1. Idle \in Request
  BY DEF Idle, Request, Positions
<1>2. None # "challenge" /\ None \notin Operations
  BY NoneAssumption DEF Kinds
<1>3. Placed(Idle)
  BY <1>2 DEF Idle, Placed, Operations, Asking, Answering, Enforcing, Removing
<1> QED
  BY <1>1, <1>3

LEMMA TypeInit == Init => TypeInv
<1> SUFFICES ASSUME Init PROVE TypeInv
  OBVIOUS
<1>1. account \in Account
  BY DEF Init, Account, Absent
<1>2. Idle \in Request /\ Placed(Idle)
  BY IdleIsPlaced
<1>3. offered \subseteq Operations
  BY OffersAssumption DEF Init
<1>4. before \in Account /\ request \in [Requests -> Request]
  BY <1>1, <1>2 DEF Init
<1>5. received \in 0..MaxRequests
  BY MaxRequestsAssumption DEF Init
<1>6. /\ generated \subseteq Secrets /\ accepted \subseteq Secrets \X BOOLEAN
      /\ delivered \in [Kinds -> Secrets \cup {None}]
      /\ disturbed \in BOOLEAN /\ contended \in BOOLEAN
  BY DEF Init
<1>7. \A r \in Requests : Placed(request[r])
  BY <1>2 DEF Init
<1> QED
  BY <1>1, <1>3, <1>4, <1>5, <1>6, <1>7 DEF TypeInv, TypeOK

\* What a step has to show of the request that takes it.
LEMMA RequestTypes ==
  ASSUME TypeInv, NEW r \in Requests, NEW x, x \in Request, Placed(x),
         request' = [request EXCEPT ![r] = x]
  PROVE  request' \in [Requests -> Request] /\ \A s \in Requests : Placed(request'[s])
BY DEF TypeInv, TypeOK

LEMMA EndTypes ==
  ASSUME TypeInv, NEW r \in Requests, Ends(r), account' \in Account
  PROVE  /\ request' \in [Requests -> Request] /\ \A s \in Requests : Placed(request'[s])
         /\ before' \in Account
<1>1. before' \in Account
  BY DEF Ends, TypeInv, TypeOK
<1> QED
  BY <1>1, IdleIsPlaced, RequestTypes DEF Ends

\* A request that goes on keeps all but its position.
LEMMA GoTypes ==
  ASSUME TypeInv, NEW r \in Requests, NEW pc \in Positions, Goes(r, pc),
         Placed([request[r] EXCEPT !.pc = pc])
  PROVE  request' \in [Requests -> Request] /\ \A s \in Requests : Placed(request'[s])
<1> DEFINE x == [request[r] EXCEPT !.pc = pc]
<1>1. request[r] \in Request
  BY DEF TypeInv, TypeOK
<1>2. x \in Request
  BY <1>1 DEF Request
<1>3. request' = [request EXCEPT ![r] = x]
  BY DEF Goes
<1> QED
  BY <1>2, <1>3, RequestTypes

LEMMA AccountTypes ==
  ASSUME NEW a \in Account
  PROVE  /\ \A v \in BOOLEAN : [a EXCEPT !.totp = v] \in Account
         /\ \A v \in BOOLEAN : [a EXCEPT !.force = v] \in Account
         /\ \A k : \A n \in Nat \cup {Absent} : [a EXCEPT !.keys[k] = n] \in Account
         /\ \A kind : \A v \in Secrets \cup {None} : [a EXCEPT !.secret[kind] = v] \in Account
BY DEF Account

LEMMA ReceiveTypes ==
  ASSUME TypeInv, NEW r \in Requests, Receive(r)
  PROVE  TypeInv'
<1>1. PICK op \in offered : \E a \in Arguments(op) :
        LET x == [op |-> op, pc |-> FirstQuery(op), kind |-> a.kind, key |-> a.key,
                  secret |-> a.secret, seen |-> None, late |-> Spent(a.secret)]
        IN  request' = [request EXCEPT ![r] = x]
  BY DEF Receive
<1>2. PICK a \in Arguments(op) :
        LET x == [op |-> op, pc |-> FirstQuery(op), kind |-> a.kind, key |-> a.key,
                  secret |-> a.secret, seen |-> None, late |-> Spent(a.secret)]
        IN  request' = [request EXCEPT ![r] = x]
  BY <1>1
<1> DEFINE x == [op |-> op, pc |-> FirstQuery(op), kind |-> a.kind, key |-> a.key,
                 secret |-> a.secret, seen |-> None, late |-> Spent(a.secret)]
<1>3. op \in Operations
  BY DEF TypeInv, TypeOK
<1>4. FirstQuery(op) \in {"store", "find", "totp", "force"}
  BY <1>3 DEF FirstQuery, Operations, Asking, Answering, Enforcing, Removing
<1>5. FirstQuery(op) = "find" => op \in Answering
  BY <1>3 DEF FirstQuery, Operations, Asking, Answering, Enforcing, Removing
<1>6. /\ a.kind \in Kinds \cup {None}
      /\ a.key \in Passkeys \cup {None}
      /\ a.secret \in Secrets \cup {None}
  BY <1>3 DEF Arguments, TypeInv, TypeOK, Kinds
<1>7. /\ op \in {"getOptions", "verifyRegistration", "verifyAuthentication"} => a.kind = "challenge"
      /\ op \in {"sendToken", "useToken"} => a.kind \in TokenKinds
      /\ a.kind = "challenge" => op \in {"getOptions", "verifyRegistration", "verifyAuthentication"}
      /\ op \in {"verifyRegistration", "verifyAuthentication", "deleteAuthenticator"} => a.key \in Passkeys
  BY <1>3, NoneAssumption DEF Arguments, Kinds, TokenKinds
<1>8. x \in Request
  BY <1>3, <1>4, <1>6 DEF Request, Positions, Spent
<1>9. Placed(x)
  BY <1>4, <1>5, <1>7 DEF Placed
<1>10. request' \in [Requests -> Request] /\ \A s \in Requests : Placed(request'[s])
  BY <1>2, <1>8, <1>9, RequestTypes
<1>11. received' \in 0..MaxRequests /\ contended' \in BOOLEAN /\ disturbed' \in BOOLEAN
  BY MaxRequestsAssumption DEF Receive, TypeInv, TypeOK
<1> QED
  BY <1>10, <1>11 DEF Receive, TypeInv, TypeOK

\* Bookkeeping leaves the types of what it does not mention alone.
LEMMA StepTypes ==
  ASSUME TypeInv, Bystanders, account' \in Account, before' \in Account,
         request' \in [Requests -> Request], \A s \in Requests : Placed(request'[s]),
         generated' \subseteq Secrets, accepted' \subseteq Secrets \X BOOLEAN,
         delivered' \in [Kinds -> Secrets \cup {None}]
  PROVE  TypeInv'
BY DEF Bystanders, TypeInv, TypeOK

\* A request that ends, or goes on, without a secret being issued.
LEMMA EndStepTypes ==
  ASSUME TypeInv, NEW r \in Requests, Bystanders, NothingIssued, account' \in Account,
         accepted' \subseteq Secrets \X BOOLEAN, Ends(r)
  PROVE  TypeInv'
<1>1. /\ generated' \subseteq Secrets
      /\ delivered' \in [Kinds -> Secrets \cup {None}]
  BY DEF NothingIssued, TypeInv, TypeOK
<1> QED
  BY <1>1, EndTypes, StepTypes

LEMMA GoStepTypes ==
  ASSUME TypeInv, NEW r \in Requests, Bystanders, NothingIssued, account' \in Account,
         accepted' \subseteq Secrets \X BOOLEAN, NEW pc \in Positions, Continues(r, pc),
         Placed([request[r] EXCEPT !.pc = pc])
  PROVE  TypeInv'
<1>1. /\ generated' \subseteq Secrets
      /\ delivered' \in [Kinds -> Secrets \cup {None}]
      /\ before' \in Account
  BY DEF NothingIssued, Continues, TypeInv, TypeOK
<1>2. request' \in [Requests -> Request] /\ \A s \in Requests : Placed(request'[s])
  BY GoTypes DEF Continues
<1> QED
  BY <1>1, <1>2, StepTypes

LEMMA RefusalTypes ==
  ASSUME TypeInv, NEW r \in Requests, Bystanders, NothingIssued, Refuses(r)
  PROVE  TypeInv'
<1>1. account' \in Account /\ accepted' \subseteq Secrets \X BOOLEAN /\ Ends(r)
  BY DEF Refuses, TypeInv, TypeOK
<1> QED
  BY <1>1, EndStepTypes

LEMMA AcceptTypes ==
  ASSUME TypeInv, NEW r \in Requests, Accepts(r), request[r].secret \in Secrets
  PROVE  accepted' \subseteq Secrets \X BOOLEAN
<1>1. request[r].late \in BOOLEAN
  BY DEF TypeInv, TypeOK, Request
<1> QED
  BY <1>1 DEF Accepts, TypeInv, TypeOK

\* A request that may go on from one position to the other.
LEMMA GoesFurther ==
  ASSUME NEW x \in Request, Placed(x)
  PROVE  /\ x.pc \in Positions /\ x.kind \in Kinds \cup {None}
         /\ \A pc \in {"totp", "keys", "force"} : Placed([x EXCEPT !.pc = pc])
         /\ x.op = "useToken" /\ x.secret \in Secrets => Placed([x EXCEPT !.pc = "spend"])
         /\ x.pc = "clear" => Placed([x EXCEPT !.pc = "authenticator"])
         /\ x.pc = "clear" /\ x.secret = x.seen => Placed([x EXCEPT !.pc = "create"])
BY DEF Request, Placed

LEMMA ForceAsWritten ==
  ASSUME NEW r \in Requests, WriteForce(r)
  PROVE  /\ request[r].op \in Enforcing => account' = [account EXCEPT !.force = TRUE]
         /\ request[r].op \notin Enforcing => account' = [account EXCEPT !.force = FALSE]
<1>1. ASSUME request[r].op \in Enforcing PROVE account' = [account EXCEPT !.force = TRUE]
  <2>1. (request[r].op \in Enforcing) = TRUE
    BY <1>1
  <2> QED
    BY <2>1, Zenon DEF WriteForce
<1>2. ASSUME request[r].op \notin Enforcing PROVE account' = [account EXCEPT !.force = FALSE]
  <2>1. (request[r].op \in Enforcing) = FALSE
    BY <1>2
  <2> QED
    BY <2>1, Zenon DEF WriteForce
<1> QED
  BY <1>1, <1>2

\* The steps that change the second factors.
LEMMA FactorTypes ==
  ASSUME TypeInv, NEW r \in Requests,
         StoreTotp(r) \/ DeleteAuthenticator(r) \/ CheckTotp(r) \/ CheckKeys(r) \/ WriteForce(r)
  PROVE  TypeInv'
<1> DEFINE x == request[r]
<1>1. x \in Request /\ Placed(x) /\ account \in Account /\ accepted \subseteq Secrets \X BOOLEAN
  BY DEF TypeInv, TypeOK
<1>2. \A pc \in {"totp", "keys", "force"} : pc \in Positions /\ Placed([x EXCEPT !.pc = pc])
  BY <1>1, GoesFurther DEF Positions
<1>3. CASE StoreTotp(r)
  <2>1. account' \in Account
    BY <1>1, <1>3, AccountTypes DEF StoreTotp
  <2> QED
    BY <1>1, <1>2, <1>3, <2>1, GoStepTypes DEF StoreTotp
<1>4. CASE DeleteAuthenticator(r)
  <2>1. CASE account.keys[x.key] # Absent
    <3>1. account' \in Account
      BY <1>1, <1>4, <2>1 DEF DeleteAuthenticator, Account
    <3> QED
      BY <1>1, <1>2, <1>4, <2>1, <3>1, GoStepTypes DEF DeleteAuthenticator
  <2>2. CASE account.keys[x.key] = Absent
    BY <1>4, <2>2, RefusalTypes DEF DeleteAuthenticator
  <2> QED
    BY <2>1, <2>2
<1>5. ASSUME NEW capable \in BOOLEAN, AfterCapability(r, capable), Bystanders, NothingIssued
      PROVE  TypeInv'
  <2>1. CASE capable = (x.op \in Enforcing)
    <3>1. /\ Continues(r, "force") /\ account' \in Account
          /\ accepted' \subseteq Secrets \X BOOLEAN
      BY <1>1, <1>5, <2>1 DEF AfterCapability
    <3> QED
      BY <1>2, <1>5, <3>1, GoStepTypes
  <2>2. CASE capable # (x.op \in Enforcing)
    BY <1>5, <2>2, RefusalTypes DEF AfterCapability
  <2> QED
    BY <2>1, <2>2
<1>6. CASE CheckTotp(r)
  <2>1. CASE account.totp
    BY <1>5, <1>6, <2>1 DEF CheckTotp
  <2>2. CASE ~account.totp
    <3>1. /\ Continues(r, "keys") /\ account' \in Account
          /\ accepted' \subseteq Secrets \X BOOLEAN
      BY <1>1, <1>6, <2>2 DEF CheckTotp
    <3> QED
      BY <1>2, <1>6, <3>1, GoStepTypes DEF CheckTotp
  <2> QED
    BY <2>1, <2>2
<1>7. CASE CheckKeys(r)
  BY <1>5, <1>7 DEF CheckKeys
<1>8. CASE WriteForce(r)
  <2>1. account' \in Account
    BY <1>1, <1>8, ForceAsWritten, AccountTypes
  <2> QED
    BY <1>1, <1>8, <2>1, EndStepTypes DEF WriteForce
<1> QED
  BY <1>3, <1>4, <1>6, <1>7, <1>8

\* The steps that issue a secret or answer with one.
LEMMA SecretTypes ==
  ASSUME TypeInv, NEW r \in Requests,
         \/ StoreSecret(r) \/ CodeNotSent(r) \/ Deliver(r)
         \/ FindToken(r) \/ RefusePassword(r) \/ SpendToken(r)
  PROVE  TypeInv'
<1> DEFINE x == request[r]
<1>1. x \in Request /\ Placed(x) /\ account \in Account /\ accepted \subseteq Secrets \X BOOLEAN
  BY DEF TypeInv, TypeOK
<1>2. CASE StoreSecret(r)
  <2>1. PICK s \in Secrets \ generated :
          /\ account' = [account EXCEPT !.secret[x.kind] = s]
          /\ generated' = generated \cup {s}
          /\ request' = [request EXCEPT ![r].pc = "deliver", ![r].secret = s]
    BY <1>2 DEF StoreSecret
  <2> DEFINE y == [x EXCEPT !.pc = "deliver", !.secret = s]
  <2>2. y \in Request
    BY <1>1 DEF Request, Positions
  <2>3. x.op \in Asking
    BY <1>2 DEF StoreSecret
  <2>4. Placed(y)
    BY <1>1, <2>3 DEF Placed, Request
  <2>5. request' = [request EXCEPT ![r] = y]
    BY <2>1
  <2>6. request' \in [Requests -> Request] /\ \A t \in Requests : Placed(request'[t])
    BY <2>2, <2>4, <2>5, RequestTypes
  <2>7. account' \in Account
    BY <1>1, <2>1 DEF Account
  <2>8. generated' \subseteq Secrets
    BY <2>1 DEF TypeInv, TypeOK
  <2> QED
    BY <1>2, <2>6, <2>7, <2>8, StepTypes DEF StoreSecret, TypeInv, TypeOK
<1>3. CASE CodeNotSent(r)
  BY <1>3, RefusalTypes DEF CodeNotSent
<1>4. CASE Deliver(r)
  <2>1. x.kind \in Kinds /\ x.secret \in Secrets
    BY <1>1, <1>4 DEF Deliver, Placed, Asking, Kinds, TokenKinds
  <2>2. delivered' \in [Kinds -> Secrets \cup {None}]
    BY <1>4, <2>1 DEF Deliver, TypeInv, TypeOK
  <2>3. /\ request' \in [Requests -> Request] /\ \A t \in Requests : Placed(request'[t])
        /\ before' \in Account
    BY <1>1, <1>4, EndTypes DEF Deliver
  <2> QED
    BY <1>1, <1>4, <2>2, <2>3, StepTypes DEF Deliver, TypeInv, TypeOK
<1>5. CASE FindToken(r)
  <2>1. CASE x.secret # None /\ account.secret[x.kind] = x.secret
    <3>1. x.op = "useToken" /\ x.secret \in Secrets
      BY <1>1, <1>5, <2>1 DEF FindToken, Request
    <3>2. /\ Continues(r, "spend") /\ account' \in Account
          /\ accepted' \subseteq Secrets \X BOOLEAN /\ "spend" \in Positions
      BY <1>1, <1>5, <2>1 DEF FindToken, Positions
    <3> QED
      BY <1>1, <1>5, <3>1, <3>2, GoesFurther, GoStepTypes DEF FindToken
  <2>2. CASE ~(x.secret # None /\ account.secret[x.kind] = x.secret)
    BY <1>5, <2>2, RefusalTypes DEF FindToken
  <2> QED
    BY <2>1, <2>2
<1>6. CASE RefusePassword(r)
  BY <1>6, RefusalTypes DEF RefusePassword
<1>7. CASE SpendToken(r)
  <2>1. account' \in Account
    BY <1>1, <1>7 DEF SpendToken, Account
  <2>2. accepted' \subseteq Secrets \X BOOLEAN
    BY <1>1, <1>7, AcceptTypes DEF SpendToken, Placed
  <2> QED
    BY <1>7, <2>1, <2>2, EndStepTypes DEF SpendToken
<1> QED
  BY <1>2, <1>3, <1>4, <1>5, <1>6, <1>7

\* The steps of the ceremonies of passkeys.
LEMMA PasskeyTypes ==
  ASSUME TypeInv, NEW r \in Requests,
         \/ FindChallenge(r) \/ ClearChallenge(r) \/ CreateAuthenticator(r)
         \/ FindAuthenticator(r) \/ CountUse(r)
  PROVE  TypeInv'
<1> DEFINE x == request[r]
<1>1. x \in Request /\ Placed(x) /\ account \in Account /\ accepted \subseteq Secrets \X BOOLEAN
  BY DEF TypeInv, TypeOK
<1>2. CASE FindChallenge(r)
  <2> DEFINE y == [x EXCEPT !.pc = "clear", !.seen = account.secret["challenge"]]
  <2>1. CASE account.secret["challenge"] # None
    <3>1. account.secret["challenge"] \in Secrets
      BY <1>1, <2>1 DEF Account, Kinds
    <3>2. y \in Request
      BY <1>1, <3>1 DEF Request, Positions
    <3>3. x.op \in {"verifyRegistration", "verifyAuthentication"}
      BY <1>1, <1>2 DEF FindChallenge, Placed, Answering
    <3>4. Placed(y)
      BY <1>1, <3>1, <3>3 DEF Placed, Request
    <3>5. request' = [request EXCEPT ![r] = y]
      BY <1>2, <2>1 DEF FindChallenge
    <3>6. request' \in [Requests -> Request] /\ \A t \in Requests : Placed(request'[t])
      BY <3>2, <3>4, <3>5, RequestTypes
    <3> QED
      BY <1>1, <1>2, <2>1, <3>6, StepTypes DEF FindChallenge, NothingIssued, TypeInv, TypeOK
  <2>2. CASE account.secret["challenge"] = None
    BY <1>2, <2>2, RefusalTypes DEF FindChallenge
  <2> QED
    BY <2>1, <2>2
<1>3. CASE ClearChallenge(r)
  <2>1. account' \in Account
    BY <1>1, <1>3 DEF ClearChallenge, Account
  <2>2. accepted' \subseteq Secrets \X BOOLEAN
    BY <1>1, <1>3 DEF ClearChallenge
  <2>3. x.pc = "clear" /\ Bystanders /\ NothingIssued
    BY <1>3 DEF ClearChallenge
  <2>4. CASE x.op = "verifyAuthentication"
    <3>1. Continues(r, "authenticator") /\ "authenticator" \in Positions
      BY <1>3, <2>4 DEF ClearChallenge, Positions
    <3> QED
      BY <1>1, <2>1, <2>2, <2>3, <3>1, GoesFurther, GoStepTypes
  <2>5. CASE x.op # "verifyAuthentication" /\ x.secret = x.seen
    <3>1. Continues(r, "create") /\ "create" \in Positions
      BY <1>3, <2>5 DEF ClearChallenge, Positions
    <3> QED
      BY <1>1, <2>1, <2>2, <2>3, <2>5, <3>1, GoesFurther, GoStepTypes
  <2>6. CASE x.op # "verifyAuthentication" /\ x.secret # x.seen
    BY <1>3, <2>1, <2>2, <2>3, <2>6, EndStepTypes DEF ClearChallenge
  <2> QED
    BY <2>4, <2>5, <2>6
<1>4. CASE CreateAuthenticator(r)
  <2>1. CASE account.keys[x.key] = Absent
    <3>1. account' \in Account
      BY <1>1, <1>4, <2>1 DEF CreateAuthenticator, Account
    <3>2. accepted' \subseteq Secrets \X BOOLEAN
      BY <1>1, <1>4, <2>1, AcceptTypes DEF CreateAuthenticator, Placed
    <3>3. Continues(r, "totp") /\ "totp" \in Positions /\ Bystanders /\ NothingIssued
      BY <1>4, <2>1 DEF CreateAuthenticator, Positions
    <3> QED
      BY <1>1, <3>1, <3>2, <3>3, GoesFurther, GoStepTypes
  <2>2. CASE account.keys[x.key] # Absent
    BY <1>4, <2>2, RefusalTypes DEF CreateAuthenticator
  <2> QED
    BY <2>1, <2>2
<1>5. CASE FindAuthenticator(r)
  <2> DEFINE y == [x EXCEPT !.pc = "count", !.seen = account.keys[x.key]]
  <2>1. CASE account.keys[x.key] # Absent /\ x.secret = x.seen
    <3>1. x.op \in {"verifyRegistration", "verifyAuthentication"} /\ x.key \in Passkeys
          /\ x.secret \in Secrets
      BY <1>1, <1>5, <2>1 DEF FindAuthenticator, Placed
    <3>2. account.keys[x.key] \in Nat
      BY <1>1, <2>1, <3>1 DEF Account
    <3>3. y \in Request
      BY <1>1, <3>2 DEF Request, Positions
    <3>4. Placed(y)
      BY <1>1, <3>1, <3>2 DEF Placed, Request
    <3>5. request' = [request EXCEPT ![r] = y]
      BY <1>5, <2>1 DEF FindAuthenticator
    <3>6. request' \in [Requests -> Request] /\ \A t \in Requests : Placed(request'[t])
      BY <3>3, <3>4, <3>5, RequestTypes
    <3> QED
      BY <1>1, <1>5, <2>1, <3>6, StepTypes DEF FindAuthenticator, NothingIssued, TypeInv, TypeOK
  <2>2. CASE ~(account.keys[x.key] # Absent /\ x.secret = x.seen)
    BY <1>5, <2>2, RefusalTypes DEF FindAuthenticator
  <2> QED
    BY <2>1, <2>2
<1>6. CASE CountUse(r)
  <2>1. x.seen \in Nat /\ x.secret \in Secrets
    BY <1>1, <1>6 DEF CountUse, Placed
  <2>2. account' \in Account
    BY <1>1, <1>6, <2>1 DEF CountUse, Account
  <2>3. accepted' \subseteq Secrets \X BOOLEAN
    BY <1>6, <2>1, AcceptTypes DEF CountUse
  <2> QED
    BY <1>6, <2>2, <2>3, EndStepTypes DEF CountUse
<1> QED
  BY <1>2, <1>3, <1>4, <1>5, <1>6

LEMMA TypeStep == TypeInv /\ [Next]_vars => TypeInv'
<1> SUFFICES ASSUME TypeInv, [Next]_vars PROVE TypeInv'
  OBVIOUS
<1>1. CASE UNCHANGED vars
  BY <1>1 DEF vars, TypeInv, TypeOK
<1>2. ASSUME NEW r \in Requests, Dies(r) PROVE TypeInv'
  <2>1. account' \in Account /\ accepted' \subseteq Secrets \X BOOLEAN /\ Ends(r)
    BY <1>2 DEF Dies, Refuses, TypeInv, TypeOK
  <2> QED
    BY <1>2, <2>1, EndTypes DEF Dies, NothingIssued, TypeInv, TypeOK
<1>3. ASSUME NEW r \in Requests, Proceed(r) PROVE TypeInv'
  BY <1>3, FactorTypes, SecretTypes, PasskeyTypes DEF Proceed
<1> QED
  BY <1>1, <1>2, <1>3, ReceiveTypes DEF Next

(***************************************************************************)
(* Everything keeps its type, whatever the requests and their order.       *)
(***************************************************************************)
THEOREM TypeCorrect == Spec => []TypeOK
<1>1. TypeInv => TypeOK
  BY DEF TypeInv
<1> QED
  BY <1>1, TypeInit, TypeStep, PTL DEF Spec

-------------------------------------------------------------------------------
(* Lock-outs.  As long as no request that enforces the second factor       *)
(* overlaps one that removes a factor, what is2FACapable has answered is   *)
(* still true when force_2fa is written, and who removes the last factor   *)
(* is on the way to switch the protection off.                             *)

NoConflict == \A r, s \in Requests :
  ~(request[r].op \in Enforcing /\ request[s].op \in Removing)
CapableWhenForced == \A r \in Requests :
  request[r].op \in Enforcing /\ request[r].pc = "force" => is2FACapable(account)
SomeoneRelaxes == account.force /\ ~is2FACapable(account) =>
  \E r \in Requests :
    request[r].op \in Removing /\ request[r].pc \in {"totp", "keys", "force"}

LockoutInv == ~contended => NoConflict /\ CapableWhenForced /\ SomeoneRelaxes

LEMMA IdleChangesNothing == Idle.op \notin Operations
BY NoneAssumption DEF Idle

\* A step of a request that removes nothing, takes no factor away and does not
\* get as far as the write.
LEMMA HarmlessStep ==
  ASSUME TypeInv, LockoutInv, NEW r \in Requests, contended' = contended,
         account'.force = account.force, is2FACapable(account) => is2FACapable(account'),
         request[r].op \notin Removing,
         \A s \in Requests \ {r} : request'[s] = request[s],
         request'[r].op \in {request[r].op, Idle.op}, request'[r].pc # "force"
  PROVE  LockoutInv'
<1> SUFFICES ASSUME ~contended PROVE (NoConflict /\ CapableWhenForced /\ SomeoneRelaxes)'
  BY DEF LockoutInv
<1>1. request'[r].op \notin Removing
  BY IdleChangesNothing DEF Operations
<1>2. NoConflict'
  BY <1>1, IdleChangesNothing DEF LockoutInv, NoConflict, Operations
<1>3. CapableWhenForced'
  BY DEF LockoutInv, CapableWhenForced
<1>4. SomeoneRelaxes'
  BY DEF LockoutInv, SomeoneRelaxes
<1> QED
  BY <1>2, <1>3, <1>4

LEMMA LockoutReceive ==
  ASSUME TypeInv, LockoutInv, NEW r \in Requests, Receive(r)
  PROVE  LockoutInv'
<1> SUFFICES ASSUME ~contended' PROVE (NoConflict /\ CapableWhenForced /\ SomeoneRelaxes)'
  BY DEF LockoutInv
<1>0. PICK op \in offered : \E kind, key, secret, late :
        LET x == [op |-> op, pc |-> FirstQuery(op), kind |-> kind, key |-> key,
                  secret |-> secret, seen |-> None, late |-> late]
        IN /\ request' = [request EXCEPT ![r] = x]
           /\ contended' = (contended \/ \E s \in InFlight :
                Conflict(x, request[s]) \/ Conflict(request[s], x))
  BY DEF Receive
<1>1. PICK kind, key, secret, late :
        LET x == [op |-> op, pc |-> FirstQuery(op), kind |-> kind, key |-> key,
                  secret |-> secret, seen |-> None, late |-> late]
        IN /\ request' = [request EXCEPT ![r] = x]
           /\ contended' = (contended \/ \E s \in InFlight :
                Conflict(x, request[s]) \/ Conflict(request[s], x))
  BY <1>0
<1> DEFINE x == [op |-> op, pc |-> FirstQuery(op), kind |-> kind, key |-> key,
                 secret |-> secret, seen |-> None, late |-> late]
<1>2. ~contended /\ \A s \in InFlight : ~Conflict(x, request[s]) /\ ~Conflict(request[s], x)
  BY <1>1
<1>3. op \in Operations /\ request[r] = Idle /\ request \in [Requests -> Request]
  BY DEF Receive, TypeInv, TypeOK
<1>4. op \in Enforcing => FirstQuery(op) # "force"
  BY DEF FirstQuery, Enforcing, Removing, Answering
<1>5. request'[r] = x /\ \A s \in Requests \ {r} : request'[s] = request[s]
  BY <1>1, <1>3
<1>6. account' = account
  BY DEF Receive
<1>7. \A s \in Requests : /\ ~(op \in Enforcing /\ request[s].op \in Removing)
                          /\ ~(op \in Removing /\ request[s].op \in Enforcing)
  <2> SUFFICES ASSUME NEW s \in Requests
               PROVE  /\ ~(op \in Enforcing /\ request[s].op \in Removing)
                      /\ ~(op \in Removing /\ request[s].op \in Enforcing)
    OBVIOUS
  <2>1. CASE request[s] = Idle
    BY <2>1, IdleChangesNothing DEF Operations
  <2>2. CASE request[s] # Idle
    BY <1>2, <2>2 DEF InFlight, Conflict
  <2> QED
    BY <2>1, <2>2
<1>8. NoConflict'
  <2>1. op \notin Enforcing \/ op \notin Removing
    BY DEF Enforcing, Removing
  <2> QED
    BY <1>2, <1>5, <1>7, <2>1 DEF LockoutInv, NoConflict
<1>9. CapableWhenForced'
  BY <1>2, <1>4, <1>5, <1>6 DEF LockoutInv, CapableWhenForced
<1>10. SomeoneRelaxes'
  BY <1>2, <1>3, <1>5, <1>6, IdleChangesNothing DEF LockoutInv, SomeoneRelaxes, Operations
<1> QED
  BY <1>8, <1>9, <1>10

\* Only the row of its own request changes with a step.
LEMMA OnlyOwnRequest ==
  ASSUME TypeInv, NEW r \in Requests
  PROVE  /\ \A pc : Goes(r, pc) => /\ request'[r] = [request[r] EXCEPT !.pc = pc]
                                  /\ request'[r].op = request[r].op /\ request'[r].pc = pc
         /\ Ends(r) => request'[r] = Idle
         /\ Ends(r) \/ (\E pc : Goes(r, pc))
              => \A s \in Requests \ {r} : request'[s] = request[s]
BY DEF Goes, Ends, TypeInv, TypeOK, Request

LEMMA IdleEnds == Idle.pc # "force"
BY DEF Idle

\* What removes a factor is on the way to look whether one is left.
LEMMA RemovingStep ==
  ASSUME TypeInv, LockoutInv, NEW r \in Requests, contended' = contended,
         request[r].op \in Removing, Goes(r, "totp")
  PROVE  LockoutInv'
<1> SUFFICES ASSUME ~contended PROVE (NoConflict /\ CapableWhenForced /\ SomeoneRelaxes)'
  BY DEF LockoutInv
<1>1. /\ request'[r].op = request[r].op /\ request'[r].pc = "totp"
      /\ \A s \in Requests \ {r} : request'[s] = request[s]
  BY OnlyOwnRequest
<1>2. NoConflict'
  BY <1>1 DEF LockoutInv, NoConflict
<1>3. CapableWhenForced'
  BY <1>1, <1>2 DEF NoConflict, CapableWhenForced
<1>4. SomeoneRelaxes'
  BY <1>1 DEF SomeoneRelaxes
<1> QED
  BY <1>2, <1>3, <1>4

\* A request that goes on without touching the account.
LEMMA LookingStep ==
  ASSUME TypeInv, LockoutInv, NEW r \in Requests, contended' = contended,
         account' = account,
         NEW pc \in {"keys", "force"}, Goes(r, pc),
         request[r].op \in Enforcing /\ pc = "force" => is2FACapable(account)
  PROVE  LockoutInv'
<1> SUFFICES ASSUME ~contended PROVE (NoConflict /\ CapableWhenForced /\ SomeoneRelaxes)'
  BY DEF LockoutInv
<1>1. /\ request'[r].op = request[r].op /\ request'[r].pc = pc
      /\ \A s \in Requests \ {r} : request'[s] = request[s]
  BY OnlyOwnRequest
<1>2. NoConflict'
  BY <1>1 DEF LockoutInv, NoConflict
<1>3. CapableWhenForced'
  BY <1>1 DEF LockoutInv, CapableWhenForced
<1>4. SomeoneRelaxes'
  BY <1>1 DEF LockoutInv, SomeoneRelaxes
<1> QED
  BY <1>2, <1>3, <1>4

\* A request that ends without touching the account, and is not needed any more.
LEMMA LeavingStep ==
  ASSUME TypeInv, LockoutInv, NEW r \in Requests, contended' = contended,
         account' = account, Ends(r),
         request[r].op \in Removing => request[r].pc = "store" \/ is2FACapable(account)
  PROVE  LockoutInv'
<1> SUFFICES ASSUME ~contended PROVE (NoConflict /\ CapableWhenForced /\ SomeoneRelaxes)'
  BY DEF LockoutInv
<1>1. request'[r] = Idle /\ \A s \in Requests \ {r} : request'[s] = request[s]
  BY OnlyOwnRequest
<1>2. NoConflict'
  BY <1>1, IdleChangesNothing DEF LockoutInv, NoConflict, Operations
<1>3. CapableWhenForced'
  BY <1>1, IdleEnds DEF LockoutInv, CapableWhenForced
<1>4. SomeoneRelaxes'
  BY <1>1 DEF LockoutInv, SomeoneRelaxes
<1> QED
  BY <1>2, <1>3, <1>4

LEMMA LockoutFactors ==
  ASSUME TypeInv, LockoutInv, NEW r \in Requests,
         StoreTotp(r) \/ DeleteAuthenticator(r) \/ CheckTotp(r) \/ CheckKeys(r) \/ WriteForce(r)
  PROVE  LockoutInv'
<1> DEFINE x == request[r]
<1>0. contended' = contended
  BY DEF StoreTotp, DeleteAuthenticator, CheckTotp, CheckKeys, WriteForce, Bystanders
<1>1. account \in Account
  BY DEF TypeInv, TypeOK
<1>2. CASE StoreTotp(r)
  <2>1. CASE x.op = "confirmTotp"
    <3>1. account' = [account EXCEPT !.totp = TRUE] /\ Goes(r, "totp")
      <4>1. (x.op = "confirmTotp") = TRUE
        BY <2>1
      <4> QED
        BY <1>2, <4>1, Zenon DEF StoreTotp, Continues
    <3>2. account'.force = account.force /\ is2FACapable(account')
      BY <1>1, <3>1 DEF Account, is2FACapable
    <3>3. x.op \notin Removing
      BY <2>1 DEF Removing
    <3> QED
      <4>1. /\ request'[r].op = x.op /\ request'[r].pc = "totp"
            /\ \A s \in Requests \ {r} : request'[s] = request[s]
        BY <3>1, OnlyOwnRequest
      <4> QED
        BY <1>0, <3>2, <3>3, <4>1, HarmlessStep
  <2>2. CASE x.op = "deleteTotp"
    BY <1>0, <1>2, <2>2, RemovingStep DEF StoreTotp, Continues, Removing
  <2> QED
    BY <1>2, <2>1, <2>2 DEF StoreTotp
<1>3. CASE DeleteAuthenticator(r)
  <2>1. x.op \in Removing /\ x.pc = "store"
    BY <1>3 DEF DeleteAuthenticator, Removing
  <2>2. CASE account.keys[x.key] # Absent
    BY <1>0, <1>3, <2>1, <2>2, RemovingStep DEF DeleteAuthenticator, Continues
  <2>3. CASE account.keys[x.key] = Absent
    BY <1>0, <1>3, <2>1, <2>3, LeavingStep DEF DeleteAuthenticator, Refuses
  <2> QED
    BY <2>2, <2>3
\* A factor that was found is there; one that was not may have come since.
<1>4. ASSUME NEW capable \in BOOLEAN, capable => is2FACapable(account),
             AfterCapability(r, capable)
      PROVE  LockoutInv'
  <2>1. CASE capable = (x.op \in Enforcing)
    <3>1. Goes(r, "force") /\ account' = account
      BY <1>4, <2>1 DEF AfterCapability, Continues
    <3>2. x.op \in Enforcing => is2FACapable(account)
      BY <1>4, <2>1
    <3> QED
      BY <1>0, <3>1, <3>2, LookingStep
  <2>2. CASE capable # (x.op \in Enforcing)
    <3>1. Ends(r) /\ account' = account
      BY <1>4, <2>2 DEF AfterCapability, Refuses
    <3>2. x.op \in Removing => is2FACapable(account)
      BY <1>4, <2>2 DEF Removing, Enforcing
    <3> QED
      BY <1>0, <3>1, <3>2, LeavingStep
  <2> QED
    BY <2>1, <2>2
<1>5. CASE CheckTotp(r)
  <2>1. CASE account.totp
    <3>1. is2FACapable(account)
      BY <2>1 DEF is2FACapable
    <3>2. AfterCapability(r, TRUE)
      BY <1>5, <2>1 DEF CheckTotp
    <3> QED
      BY <1>4, <3>1, <3>2
  <2>2. CASE ~account.totp
    BY <1>0, <1>5, <2>2, LookingStep DEF CheckTotp, Continues
  <2> QED
    BY <2>1, <2>2
<1>6. CASE CheckKeys(r)
  <2> DEFINE capable == \E k \in Passkeys : account.keys[k] # Absent
  <2>1. capable \in BOOLEAN /\ (capable => is2FACapable(account)) /\ AfterCapability(r, capable)
    BY <1>6 DEF CheckKeys, is2FACapable
  <2> HIDE DEF capable
  <2> QED
    BY <1>4, <2>1
<1>7. CASE WriteForce(r)
  <2>1. x.pc = "force" /\ Ends(r)
    BY <1>7 DEF WriteForce
  <2>2. /\ request'[r] = Idle /\ \A s \in Requests \ {r} : request'[s] = request[s]
    BY <2>1, OnlyOwnRequest
  <2>3. is2FACapable(account') <=> is2FACapable(account)
    BY <1>1, <1>7, ForceAsWritten DEF Account, is2FACapable
  <2> SUFFICES ASSUME ~contended PROVE (NoConflict /\ CapableWhenForced /\ SomeoneRelaxes)'
    BY <1>0 DEF LockoutInv
  <2>4. NoConflict'
    BY <2>2, IdleChangesNothing DEF LockoutInv, NoConflict, Operations
  <2>5. CapableWhenForced'
    BY <2>2, <2>3, IdleEnds DEF LockoutInv, CapableWhenForced
  <2>6. SomeoneRelaxes'
    <3>1. CASE x.op \in Enforcing
      BY <2>1, <2>3, <3>1 DEF LockoutInv, CapableWhenForced, SomeoneRelaxes
    <3>2. CASE x.op \notin Enforcing
      <4>1. account'.force = FALSE
        BY <1>1, <1>7, <3>2, ForceAsWritten DEF Account
      <4> QED
        BY <4>1 DEF SomeoneRelaxes
    <3> QED
      BY <3>1, <3>2
  <2> QED
    BY <2>4, <2>5, <2>6
<1> QED
  BY <1>2, <1>3, <1>5, <1>6, <1>7

LEMMA LockoutSecrets ==
  ASSUME TypeInv, LockoutInv, NEW r \in Requests,
         \/ StoreSecret(r) \/ CodeNotSent(r) \/ Deliver(r)
         \/ FindToken(r) \/ RefusePassword(r) \/ SpendToken(r)
         \/ FindChallenge(r) \/ ClearChallenge(r) \/ CreateAuthenticator(r)
         \/ FindAuthenticator(r) \/ CountUse(r)
  PROVE  LockoutInv'
<1> DEFINE x == request[r]
<1>1. x \in Request /\ Placed(x) /\ account \in Account /\ request \in [Requests -> Request]
  BY DEF TypeInv, TypeOK
<1>2. contended' = contended
  BY DEF StoreSecret, CodeNotSent, Deliver, FindToken, RefusePassword, SpendToken, FindChallenge,
    ClearChallenge, CreateAuthenticator, FindAuthenticator, CountUse, Bystanders
<1>3. x.op \notin Removing
  <2>1. x.pc \in {"deliver", "find", "spend", "clear", "create", "authenticator", "count"}
        \/ x.op \in Asking
    BY DEF StoreSecret, CodeNotSent, Deliver, FindToken, RefusePassword, SpendToken, FindChallenge,
      ClearChallenge, CreateAuthenticator, FindAuthenticator, CountUse, Asking
  <2> QED
    BY <1>1, <2>1 DEF Placed, Asking, Answering, Removing
<1>4. account'.force = account.force /\ (is2FACapable(account) => is2FACapable(account'))
  <2>1. CASE account' = account
    BY <2>1
  <2>2. ASSUME NEW kind, NEW s, account' = [account EXCEPT !.secret[kind] = s] PROVE <1>4
    BY <1>1, <2>2 DEF Account, is2FACapable
  <2>3. ASSUME NEW k, NEW n \in Nat, account' = [account EXCEPT !.keys[k] = n] PROVE <1>4
    BY <1>1, <2>3 DEF Account, is2FACapable, Absent
  <2>4. CASE StoreSecret(r)
    BY <2>2, <2>4 DEF StoreSecret
  <2>5. CASE SpendToken(r) \/ ClearChallenge(r)
    BY <2>2, <2>5 DEF SpendToken, ClearChallenge
  <2>6. CASE CreateAuthenticator(r)
    BY <2>1, <2>3, <2>6 DEF CreateAuthenticator, Refuses
  <2>7. CASE CountUse(r)
    <3>1. x.seen + 1 \in Nat
      BY <1>1, <2>7 DEF CountUse, Placed
    <3> QED
      BY <2>1, <2>3, <2>7, <3>1 DEF CountUse
  <2>8. CASE \/ CodeNotSent(r) \/ Deliver(r) \/ FindToken(r) \/ RefusePassword(r)
             \/ FindChallenge(r) \/ FindAuthenticator(r)
    BY <2>1, <2>8 DEF CodeNotSent, Deliver, FindToken, RefusePassword, FindChallenge,
      FindAuthenticator, Refuses
  <2> QED
    BY <2>4, <2>5, <2>6, <2>7, <2>8
<1>5. \/ Ends(r)
      \/ \E pc \in Positions \ {"force"} : Goes(r, pc)
      \/ \E pc \in Positions \ {"force"} : \E v :
           \/ request' = [request EXCEPT ![r].pc = pc, ![r].secret = v]
           \/ request' = [request EXCEPT ![r].pc = pc, ![r].seen = v]
  <2>1. {"deliver", "spend", "clear", "create", "authenticator", "totp", "count"}
          \subseteq Positions \ {"force"}
    BY DEF Positions
  <2>2. CASE StoreSecret(r) \/ FindChallenge(r) \/ FindAuthenticator(r)
    BY <2>1, <2>2 DEF StoreSecret, FindChallenge, FindAuthenticator, Refuses
  <2>3. CASE FindToken(r) \/ ClearChallenge(r) \/ CreateAuthenticator(r)
    BY <2>1, <2>3 DEF FindToken, ClearChallenge, CreateAuthenticator, Refuses, Continues
  <2>4. CASE CodeNotSent(r) \/ Deliver(r) \/ RefusePassword(r) \/ SpendToken(r) \/ CountUse(r)
    BY <2>4 DEF CodeNotSent, Deliver, RefusePassword, SpendToken, CountUse, Refuses
  <2> QED
    BY <2>2, <2>3, <2>4
<1>6. /\ \A s \in Requests \ {r} : request'[s] = request[s]
      /\ request'[r].op \in {x.op, Idle.op} /\ request'[r].pc # "force"
  <2>1. CASE Ends(r)
    BY <2>1, OnlyOwnRequest, IdleEnds
  <2>2. CASE \E pc \in Positions \ {"force"} : Goes(r, pc)
    BY <2>2, OnlyOwnRequest
  <2>3. CASE \E pc \in Positions \ {"force"} : \E v :
           \/ request' = [request EXCEPT ![r].pc = pc, ![r].secret = v]
           \/ request' = [request EXCEPT ![r].pc = pc, ![r].seen = v]
    BY <1>1, <2>3 DEF Request
  <2> QED
    BY <1>5, <2>1, <2>2, <2>3
<1> QED
  BY <1>2, <1>3, <1>4, <1>6, HarmlessStep

LEMMA LockoutInit == Init => LockoutInv
BY IdleChangesNothing DEF Init, LockoutInv, NoConflict, CapableWhenForced, SomeoneRelaxes, Operations

LEMMA LockoutStep == TypeInv /\ LockoutInv /\ [Next]_vars => LockoutInv'
<1> SUFFICES ASSUME TypeInv, LockoutInv, [Next]_vars PROVE LockoutInv'
  OBVIOUS
<1>1. CASE UNCHANGED vars
  BY <1>1 DEF vars, LockoutInv, NoConflict, CapableWhenForced, SomeoneRelaxes
<1>2. ASSUME NEW r \in Requests, Dies(r) PROVE LockoutInv'
  BY <1>2 DEF Dies, LockoutInv
<1>3. ASSUME NEW r \in Requests, Proceed(r) PROVE LockoutInv'
  BY <1>3, LockoutFactors, LockoutSecrets DEF Proceed
<1> QED
  BY <1>1, <1>2, <1>3, LockoutReceive DEF Next

(***************************************************************************)
(* An account demands a second factor it does not have, once its requests  *)
(* have ended, only if a request that enforces one has overlapped one that *)
(* removes one, or a request has died half-way.                            *)
(***************************************************************************)
THEOREM NoLockoutWithoutContention == Spec => []LockoutNeedsContention
<1>1. LockoutInv => LockoutNeedsContention
  BY IdleChangesNothing DEF LockoutInv, LockoutNeedsContention, SomeoneRelaxes, Quiet, InFlight,
    Operations
<1> QED
  BY <1>1, TypeInit, TypeStep, LockoutInit, LockoutStep, PTL DEF Spec

-------------------------------------------------------------------------------
(* Secrets are accepted once.  A secret in a column has not been accepted; *)
(* a request that has found one there knows a secret that no other column  *)
(* will ever hold, because every secret that is stored is a new one; and   *)
(* whoever accepts a secret has found it in its column, when it was not    *)
(* spent, and has cleared the column since.                                *)

OnlyIn(k, s) == \A kind \in Kinds \ {k} : account.secret[kind] # s
Nowhere(s) == \A kind \in Kinds : account.secret[kind] # s

Columns ==
  /\ \A kind \in Kinds : /\ account.secret[kind] \in generated \cup {None}
                         /\ ~Spent(account.secret[kind])
  /\ \A k, l \in Kinds :
       k # l /\ account.secret[k] # None => account.secret[k] # account.secret[l]
Acceptances ==
  /\ accepted \subseteq generated \X BOOLEAN
  /\ SecretsAreAcceptedOnce

Holds(x) ==
  /\ x.op \in Asking => ~x.late
  /\ x.late => Spent(x.secret)
  /\ x.pc = "spend" => x.secret \in generated /\ ~x.late /\ OnlyIn(x.kind, x.secret)
  /\ x.pc \in {"clear", "authenticator"} => x.seen \in generated /\ (x.late => x.secret # x.seen)
  /\ x.pc = "clear" => OnlyIn("challenge", x.seen)
  /\ x.pc = "authenticator" => Nowhere(x.seen)
  /\ x.pc \in {"create", "count"} => x.secret \in generated /\ ~x.late /\ Nowhere(x.secret)

SecretInv == Columns /\ Acceptances /\ \A r \in Requests : Holds(request[r])

\* A column keeps its secret, loses it or gets one that nobody has seen.
ColumnsMove ==
  /\ \A kind \in Kinds : account'.secret[kind] \in {account.secret[kind], None} \cup (Secrets \ generated)
  /\ generated \subseteq generated' /\ accepted \subseteq accepted'

LEMMA HoldsOn ==
  ASSUME TypeInv, ColumnsMove, NEW s, request'[s] = request[s], Holds(request[s])
  PROVE  Holds(request[s])'
<1> DEFINE x == request[s]
<1>1. generated \subseteq Secrets /\ None \notin Secrets
  BY NoneAssumption DEF TypeInv, TypeOK
<1>2. Spent(x.secret) => Spent(x.secret)'
  BY DEF ColumnsMove, Spent
<1>3. /\ x.secret \in generated => (Nowhere(x.secret) => Nowhere(x.secret)')
      /\ x.seen \in generated => (Nowhere(x.seen) => Nowhere(x.seen)')
      /\ x.secret \in generated => (OnlyIn(x.kind, x.secret) => OnlyIn(x.kind, x.secret)')
      /\ x.seen \in generated => (OnlyIn("challenge", x.seen) => OnlyIn("challenge", x.seen)')
  BY <1>1 DEF ColumnsMove, Nowhere, OnlyIn
<1>4. generated \subseteq generated'
  BY DEF ColumnsMove
<1> QED
  BY <1>2, <1>3, <1>4 DEF Holds

LEMMA IdleHolds == Holds(Idle)
<1>1. Idle.op \notin Asking
  BY IdleChangesNothing DEF Operations
<1> QED
  BY <1>1 DEF Idle, Holds

\* A request that has found nothing yet, or needs no more what it has found.
LEMMA HoldsNothing ==
  ASSUME NEW x \in Request, Holds(x), NEW pc \in {"totp", "keys", "force"}
  PROVE  Holds([x EXCEPT !.pc = pc])
BY DEF Holds, Request

\* The steps that leave the columns and what was accepted alone.
LEMMA SecretsUntouched ==
  ASSUME TypeInv, SecretInv, NEW r \in Requests, account'.secret = account.secret,
         generated' = generated, accepted' = accepted,
         NEW y, request'[r] = y, Holds(y),
         \A s \in Requests \ {r} : request'[s] = request[s]
  PROVE  SecretInv'
<1>1. ColumnsMove
  BY DEF ColumnsMove
<1>2. ASSUME NEW s \in Requests PROVE Holds(request[s])'
  <2>1. CASE s = r
    BY <2>1 DEF Holds, Spent, OnlyIn, Nowhere
  <2>2. CASE s # r
    BY <1>1, <2>2, HoldsOn DEF SecretInv
  <2> QED
    BY <2>1, <2>2
<1>3. Columns' /\ Acceptances'
  BY DEF SecretInv, Columns, Acceptances, SecretsAreAcceptedOnce, Spent
<1> QED
  BY <1>2, <1>3 DEF SecretInv

LEMMA SecretsEnd ==
  ASSUME TypeInv, SecretInv, NEW r \in Requests, account'.secret = account.secret,
         generated' = generated, accepted' = accepted, Ends(r)
  PROVE  SecretInv'
BY IdleHolds, OnlyOwnRequest, SecretsUntouched

LEMMA SecretsGo ==
  ASSUME TypeInv, SecretInv, NEW r \in Requests, account'.secret = account.secret,
         generated' = generated, accepted' = accepted,
         NEW pc \in {"totp", "keys", "force"}, Goes(r, pc)
  PROVE  SecretInv'
<1> DEFINE y == [request[r] EXCEPT !.pc = pc]
<1>1. request[r] \in Request /\ Holds(request[r])
  BY DEF TypeInv, TypeOK, SecretInv
<1>2. Holds(y)
  BY <1>1, HoldsNothing
<1>3. request'[r] = y /\ \A s \in Requests \ {r} : request'[s] = request[s]
  BY OnlyOwnRequest
<1> QED
  BY <1>2, <1>3, SecretsUntouched

LEMMA SecretsReceive ==
  ASSUME TypeInv, SecretInv, NEW r \in Requests, Receive(r)
  PROVE  SecretInv'
<1>1. PICK op \in offered : \E a \in Arguments(op) :
        LET x == [op |-> op, pc |-> FirstQuery(op), kind |-> a.kind, key |-> a.key,
                  secret |-> a.secret, seen |-> None, late |-> Spent(a.secret)]
        IN  request' = [request EXCEPT ![r] = x]
  BY DEF Receive
<1>2. PICK a \in Arguments(op) :
        LET x == [op |-> op, pc |-> FirstQuery(op), kind |-> a.kind, key |-> a.key,
                  secret |-> a.secret, seen |-> None, late |-> Spent(a.secret)]
        IN  request' = [request EXCEPT ![r] = x]
  BY <1>1
<1> DEFINE x == [op |-> op, pc |-> FirstQuery(op), kind |-> a.kind, key |-> a.key,
                 secret |-> a.secret, seen |-> None, late |-> Spent(a.secret)]
<1>3. op \in Operations
  BY DEF TypeInv, TypeOK
<1>4. FirstQuery(op) \in {"store", "find", "totp", "force"}
  BY <1>3 DEF FirstQuery, Operations, Asking, Answering, Enforcing, Removing
<1>5. op \in Asking => ~Spent(a.secret)
  <2>1. op \in Asking => a.secret = None
    BY DEF Arguments, Asking, Answering
  <2>2. ~Spent(None)
    BY NoneAssumption DEF SecretInv, Acceptances, Spent, TypeInv, TypeOK
  <2> QED
    BY <2>1, <2>2
<1>6. Holds(x)
  BY <1>4, <1>5 DEF Holds
<1>7. request'[r] = x /\ \A s \in Requests \ {r} : request'[s] = request[s]
  BY <1>2 DEF TypeInv, TypeOK
<1>8. account' = account /\ generated' = generated /\ accepted' = accepted
  BY DEF Receive
<1> HIDE DEF x
<1> QED
  BY <1>6, <1>7, <1>8, SecretsUntouched

LEMMA SecretsFactors ==
  ASSUME TypeInv, SecretInv, NEW r \in Requests,
         StoreTotp(r) \/ DeleteAuthenticator(r) \/ CheckTotp(r) \/ CheckKeys(r) \/ WriteForce(r)
  PROVE  SecretInv'
<1>1. account'.secret = account.secret
  BY DEF StoreTotp, DeleteAuthenticator, CheckTotp, CheckKeys, WriteForce, AfterCapability, Refuses,
    TypeInv, TypeOK, Account
<1>2. generated' = generated /\ accepted' = accepted
  BY DEF StoreTotp, DeleteAuthenticator, CheckTotp, CheckKeys, WriteForce, AfterCapability, Refuses,
    NothingIssued
<1>3. Ends(r) \/ \E pc \in {"totp", "keys", "force"} : Goes(r, pc)
  BY DEF StoreTotp, DeleteAuthenticator, CheckTotp, CheckKeys, WriteForce, AfterCapability, Refuses,
    Continues
<1> QED
  BY <1>1, <1>2, <1>3, SecretsEnd, SecretsGo

LEMMA SecretsFound ==
  ASSUME TypeInv, SecretInv, NEW r \in Requests,
         FindToken(r) \/ FindChallenge(r) \/ FindAuthenticator(r)
  PROVE  SecretInv'
<1> DEFINE x == request[r]
<1>1. /\ x \in Request /\ Placed(x) /\ Holds(x) /\ request \in [Requests -> Request]
      /\ account \in Account
  BY DEF TypeInv, TypeOK, SecretInv
<1>2. generated' = generated /\ accepted' = accepted /\ account' = account
  BY DEF FindToken, FindChallenge, FindAuthenticator, Refuses, NothingIssued
<1>3. CASE Ends(r)
  BY <1>2, <1>3, SecretsEnd
<1>4. CASE FindToken(r) /\ x.secret # None /\ account.secret[x.kind] = x.secret
  <2> DEFINE y == [x EXCEPT !.pc = "spend"]
  <2>1. x.kind \in TokenKinds /\ TokenKinds \subseteq Kinds
    BY <1>1, <1>4 DEF FindToken, Placed, Kinds
  <2>2. x.secret \in generated /\ ~Spent(x.secret) /\ OnlyIn(x.kind, x.secret)
    BY <1>4, <2>1 DEF SecretInv, Columns, OnlyIn
  <2>3. Holds(y)
    BY <1>1, <2>2 DEF Holds, Request
  <2>4. request'[r] = y /\ \A s \in Requests \ {r} : request'[s] = request[s]
    BY <1>4, OnlyOwnRequest DEF FindToken, Continues
  <2> QED
    BY <1>2, <2>3, <2>4, SecretsUntouched
<1>5. CASE FindChallenge(r) /\ account.secret["challenge"] # None
  <2> DEFINE y == [x EXCEPT !.pc = "clear", !.seen = account.secret["challenge"]]
  <2>1. /\ account.secret["challenge"] \in generated
        /\ ~Spent(account.secret["challenge"])
        /\ OnlyIn("challenge", account.secret["challenge"])
    BY <1>5 DEF SecretInv, Columns, OnlyIn, Kinds
  <2>2. Holds(y)
    BY <1>1, <2>1 DEF Holds, Request
  <2>3. request'[r] = y /\ \A s \in Requests \ {r} : request'[s] = request[s]
    BY <1>1, <1>5 DEF FindChallenge, Request
  <2> QED
    BY <1>2, <2>2, <2>3, SecretsUntouched
<1>6. CASE FindAuthenticator(r) /\ account.keys[x.key] # Absent /\ x.secret = x.seen
  <2> DEFINE y == [x EXCEPT !.pc = "count", !.seen = account.keys[x.key]]
  <2>1. Holds(y)
    BY <1>1, <1>6 DEF Holds, Request, FindAuthenticator
  <2>2. request'[r] = y /\ \A s \in Requests \ {r} : request'[s] = request[s]
    BY <1>1, <1>6 DEF FindAuthenticator, Request
  <2> QED
    BY <1>2, <2>1, <2>2, SecretsUntouched
<1> QED
  BY <1>3, <1>4, <1>5, <1>6 DEF FindToken, FindChallenge, FindAuthenticator, Refuses

LEMMA SecretsStored ==
  ASSUME TypeInv, SecretInv, NEW r \in Requests, StoreSecret(r)
  PROVE  SecretInv'
<1> DEFINE x == request[r]
<1>1. /\ x \in Request /\ Placed(x) /\ Holds(x) /\ request \in [Requests -> Request]
      /\ account \in Account /\ None \notin Secrets /\ generated \subseteq Secrets
  BY NoneAssumption DEF TypeInv, TypeOK, SecretInv
<1>2. PICK s \in Secrets \ generated :
        /\ account' = [account EXCEPT !.secret[x.kind] = s]
        /\ generated' = generated \cup {s}
        /\ request' = [request EXCEPT ![r].pc = "deliver", ![r].secret = s]
  BY DEF StoreSecret
<1>3. accepted' = accepted /\ accepted \subseteq generated \X BOOLEAN /\ x.op \in Asking
  BY DEF StoreSecret, SecretInv, Acceptances
<1>4. account'.secret = [account.secret EXCEPT ![x.kind] = s]
  BY <1>1, <1>2 DEF Account
<1>5. ~Spent(s)
  BY <1>2, <1>3 DEF Spent
<1>6. Columns'
  <2>1. \A kind \in Kinds : account'.secret[kind] = IF kind = x.kind THEN s ELSE account.secret[kind]
    BY <1>1, <1>4 DEF Account
  <2>2. \A kind \in Kinds : /\ account'.secret[kind] \in generated' \cup {None}
                           /\ ~Spent(account'.secret[kind])
    BY <1>2, <1>5, <2>1 DEF SecretInv, Columns
  <2>3. \A k, l \in Kinds :
          k # l /\ account'.secret[k] # None => account'.secret[k] # account'.secret[l]
    BY <1>1, <1>2, <2>1 DEF SecretInv, Columns
  <2> QED
    BY <1>3, <2>2, <2>3 DEF Columns, Spent
<1>7. Acceptances'
  BY <1>2, <1>3 DEF SecretInv, Acceptances, SecretsAreAcceptedOnce
<1>8. ColumnsMove
  BY <1>1, <1>2, <1>3, <1>4 DEF ColumnsMove, Account
<1>9. ASSUME NEW t \in Requests PROVE Holds(request[t])'
  <2>1. CASE t = r
    <3>1. request'[r] = [x EXCEPT !.pc = "deliver", !.secret = s]
      BY <1>1, <1>2
    <3>2. ~x.late
      BY <1>1, <1>3 DEF Holds
    <3> QED
      BY <1>1, <2>1, <3>1, <3>2 DEF Holds, Request
  <2>2. CASE t # r
    BY <1>1, <1>2, <1>8, <2>2, HoldsOn DEF SecretInv
  <2> QED
    BY <2>1, <2>2
<1> QED
  BY <1>6, <1>7, <1>9 DEF SecretInv

LEMMA SecretsCleared ==
  ASSUME TypeInv, SecretInv, NEW r \in Requests, ClearChallenge(r)
  PROVE  SecretInv'
<1> DEFINE x == request[r]
<1>1. /\ x \in Request /\ Placed(x) /\ Holds(x) /\ request \in [Requests -> Request]
      /\ account \in Account /\ None \notin Secrets /\ generated \subseteq Secrets
      /\ "challenge" \in Kinds
  BY NoneAssumption DEF TypeInv, TypeOK, SecretInv, Kinds
<1>2. account'.secret = [account.secret EXCEPT !["challenge"] = None]
  BY <1>1 DEF ClearChallenge, Account
<1>3. accepted' = accepted /\ generated' = generated
  BY DEF ClearChallenge, NothingIssued
<1>4. \A kind \in Kinds :
        account'.secret[kind] = IF kind = "challenge" THEN None ELSE account.secret[kind]
  BY <1>1, <1>2 DEF Account
<1>5. ~Spent(None)
  BY <1>1 DEF SecretInv, Acceptances, Spent
<1>6. Columns' /\ Acceptances'
  BY <1>3, <1>4, <1>5 DEF SecretInv, Columns, Acceptances, SecretsAreAcceptedOnce, Spent
<1>7. ColumnsMove
  BY <1>3, <1>4 DEF ColumnsMove
<1>8. x.seen \in generated /\ (x.late => x.secret # x.seen) /\ OnlyIn("challenge", x.seen)
  BY <1>1 DEF ClearChallenge, Holds
<1>9. \A kind \in Kinds : account'.secret[kind] # x.seen
  BY <1>1, <1>4, <1>8 DEF OnlyIn
<1>10. Holds(request[r])'
  <2>1. CASE Ends(r)
    BY <2>1, OnlyOwnRequest, IdleHolds DEF Holds, Idle, Spent
  <2>2. CASE Goes(r, "authenticator")
    <3>1. request'[r] = [x EXCEPT !.pc = "authenticator"]
      BY <2>2, OnlyOwnRequest
    <3> QED
      BY <1>1, <1>3, <1>8, <1>9, <3>1 DEF Holds, Request, Nowhere, Spent
  <2>3. CASE Goes(r, "create") /\ x.secret = x.seen
    <3>1. request'[r] = [x EXCEPT !.pc = "create"]
      BY <2>3, OnlyOwnRequest
    <3> QED
      BY <1>1, <1>3, <1>8, <1>9, <2>3, <3>1 DEF Holds, Request, Nowhere, Spent
  <2> QED
    BY <2>1, <2>2, <2>3 DEF ClearChallenge, Continues
<1>11. ASSUME NEW t \in Requests PROVE Holds(request[t])'
  <2>1. CASE t = r
    BY <1>10, <2>1
  <2>2. CASE t # r
    <3>1. request'[t] = request[t]
      BY <1>1, <2>2, OnlyOwnRequest DEF ClearChallenge, Continues
    <3> QED
      BY <1>7, <3>1, HoldsOn DEF SecretInv
  <2> QED
    BY <2>1, <2>2
<1> QED
  BY <1>6, <1>11 DEF SecretInv

\* Whoever accepts a secret has taken care that it is in no column any more.
LEMMA SecretsAccepted ==
  ASSUME TypeInv, SecretInv, NEW r \in Requests, Accepts(r), generated' = generated,
         request[r].secret \in generated, ~request[r].late,
         \A kind \in Kinds : /\ account'.secret[kind] \in {account.secret[kind], None}
                            /\ account'.secret[kind] # request[r].secret,
         \/ Ends(r)
         \/ Goes(r, "totp")
  PROVE  SecretInv'
<1> DEFINE x == request[r]
<1>1. /\ x \in Request /\ Placed(x) /\ Holds(x) /\ None \notin Secrets /\ generated \subseteq Secrets
  BY NoneAssumption DEF TypeInv, TypeOK, SecretInv
<1>2. accepted' = accepted \cup {<<x.secret, FALSE>>}
  <2>1. x.late = FALSE
    BY <1>1 DEF Request
  <2> QED
    BY <2>1, Zenon DEF Accepts
<1>3. \A s : Spent(s)' => Spent(s) \/ s = x.secret
  BY <1>2 DEF Spent
<1>4. Columns'
  <2>1. \A kind \in Kinds : account'.secret[kind] \in generated \cup {None}
    BY DEF SecretInv, Columns
  <2>2. ~Spent(None)
    BY <1>1 DEF SecretInv, Acceptances, Spent
  <2>3. ASSUME NEW kind \in Kinds, NEW late \in BOOLEAN
        PROVE  <<account'.secret[kind], late>> \notin accepted'
    BY <1>2, <2>2 DEF SecretInv, Columns, Spent
  <2>4. \A k, l \in Kinds :
          k # l /\ account'.secret[k] # None => account'.secret[k] # account'.secret[l]
    BY DEF SecretInv, Columns
  <2> QED
    BY <2>1, <2>3, <2>4 DEF Columns, Spent
<1>5. Acceptances'
  <2>1. <<x.secret, FALSE>> \in generated \X BOOLEAN
    OBVIOUS
  <2>2. accepted' \subseteq generated' \X BOOLEAN
    BY <1>2, <2>1 DEF SecretInv, Acceptances
  <2>3. \A s \in Secrets : <<s, TRUE>> # <<x.secret, FALSE>>
    OBVIOUS
  <2>4. \A s \in Secrets : <<s, TRUE>> \notin accepted'
    BY <1>2, <2>3 DEF SecretInv, Acceptances, SecretsAreAcceptedOnce
  <2> QED
    BY <2>2, <2>4 DEF Acceptances, SecretsAreAcceptedOnce
<1>6. ColumnsMove
  BY <1>2 DEF ColumnsMove
<1>7. ASSUME NEW t \in Requests PROVE Holds(request[t])'
  <2>1. CASE t = r /\ Ends(r)
    BY <2>1, OnlyOwnRequest, IdleHolds DEF Holds, Idle
  <2>2. CASE t = r /\ Goes(r, "totp")
    <3>1. request'[r] = [x EXCEPT !.pc = "totp"]
      BY <2>2, OnlyOwnRequest
    <3> QED
      BY <1>1, <2>2, <3>1 DEF Holds, Request
  <2>3. CASE t # r
    <3>1. request'[t] = request[t]
      BY <2>3, OnlyOwnRequest
    <3> QED
      BY <1>6, <3>1, HoldsOn DEF SecretInv
  <2> QED
    BY <2>1, <2>2, <2>3
<1> QED
  BY <1>4, <1>5, <1>7 DEF SecretInv

LEMMA SecretsUsed ==
  ASSUME TypeInv, SecretInv, NEW r \in Requests,
         SpendToken(r) \/ CreateAuthenticator(r) \/ CountUse(r)
  PROVE  SecretInv'
<1> DEFINE x == request[r]
<1>1. /\ x \in Request /\ Placed(x) /\ Holds(x) /\ account \in Account
      /\ None \notin Secrets /\ generated \subseteq Secrets
  BY NoneAssumption DEF TypeInv, TypeOK, SecretInv
<1>2. generated' = generated
  BY DEF SpendToken, CreateAuthenticator, CountUse, NothingIssued
<1>3. CASE SpendToken(r)
  <2>1. x.secret \in generated /\ ~x.late /\ OnlyIn(x.kind, x.secret)
    BY <1>1, <1>3 DEF SpendToken, Holds
  <2>2. account'.secret = [account.secret EXCEPT ![x.kind] = None]
    BY <1>1, <1>3 DEF SpendToken, Account
  <2>3. \A kind \in Kinds : account'.secret[kind] = IF kind = x.kind THEN None ELSE account.secret[kind]
    BY <1>1, <2>2 DEF Account
  <2>4. \A kind \in Kinds : /\ account'.secret[kind] \in {account.secret[kind], None}
                           /\ account'.secret[kind] # x.secret
    BY <1>1, <2>1, <2>3 DEF OnlyIn
  <2> QED
    BY <1>2, <1>3, <2>1, <2>4, SecretsAccepted DEF SpendToken
<1>4. CASE CreateAuthenticator(r)
  <2>1. x.secret \in generated /\ ~x.late /\ Nowhere(x.secret)
    BY <1>1, <1>4 DEF CreateAuthenticator, Holds
  <2>2. account'.secret = account.secret
    BY <1>1, <1>4 DEF CreateAuthenticator, Refuses, Account
  <2>3. CASE account.keys[x.key] = Absent
    BY <1>2, <1>4, <2>1, <2>2, <2>3, SecretsAccepted DEF CreateAuthenticator, Continues, Nowhere
  <2>4. CASE account.keys[x.key] # Absent
    BY <1>2, <1>4, <2>2, <2>4, SecretsEnd DEF CreateAuthenticator, Refuses
  <2> QED
    BY <2>3, <2>4
<1>5. CASE CountUse(r)
  <2>1. x.secret \in generated /\ ~x.late /\ Nowhere(x.secret)
    BY <1>1, <1>5 DEF CountUse, Holds
  <2>2. account'.secret = account.secret
    BY <1>1, <1>5 DEF CountUse, Account
  <2> QED
    BY <1>2, <1>5, <2>1, <2>2, SecretsAccepted DEF CountUse, Nowhere
<1> QED
  BY <1>3, <1>4, <1>5

LEMMA SecretsInit == Init => SecretInv
<1> SUFFICES ASSUME Init PROVE SecretInv
  OBVIOUS
<1>1. Columns /\ Acceptances
  BY DEF Init, Columns, Acceptances, SecretsAreAcceptedOnce, Spent
<1>2. \A r \in Requests : Holds(request[r])
  BY IdleHolds DEF Init
<1> QED
  BY <1>1, <1>2 DEF SecretInv

LEMMA SecretsStep == TypeInv /\ SecretInv /\ [Next]_vars => SecretInv'
<1> SUFFICES ASSUME TypeInv, SecretInv, [Next]_vars PROVE SecretInv'
  OBVIOUS
<1>1. CASE UNCHANGED vars
  BY <1>1 DEF vars, SecretInv, Columns, Acceptances, SecretsAreAcceptedOnce, Spent, Holds, OnlyIn,
    Nowhere
<1>2. ASSUME NEW r \in Requests, Dies(r) PROVE SecretInv'
  BY <1>2, SecretsEnd DEF Dies, Refuses, NothingIssued
<1>3. ASSUME NEW r \in Requests, CodeNotSent(r) \/ Deliver(r) \/ RefusePassword(r) PROVE SecretInv'
  BY <1>3, SecretsEnd DEF CodeNotSent, Deliver, RefusePassword, Refuses, NothingIssued
<1>4. ASSUME NEW r \in Requests, Proceed(r) PROVE SecretInv'
  BY <1>3, <1>4, SecretsFactors, SecretsStored, SecretsFound, SecretsCleared, SecretsUsed DEF Proceed
<1> QED
  BY <1>1, <1>2, <1>4, SecretsReceive DEF Next

(***************************************************************************)
(* A challenge or a mailed token is accepted by no request that began      *)
(* after it had been accepted, for any number of requests in flight.       *)
(***************************************************************************)
THEOREM SecretsOnce == Spec => []SecretsAreAcceptedOnce
<1>1. SecretInv => SecretsAreAcceptedOnce
  BY DEF SecretInv, Acceptances
<1> QED
  BY <1>1, TypeInit, TypeStep, SecretsInit, SecretsStep, PTL DEF Spec

-------------------------------------------------------------------------------
(* The last mail works.  As long as no two requests that send or use a     *)
(* token of a kind overlap, one of them sending, the column of the kind    *)
(* holds the token that is being mailed or was mailed last, until a        *)
(* request that has found it there clears the column and accepts it.       *)

Sends(x, kind) == x.op = "sendToken" /\ x.kind = kind
Mails(x, kind) == Sends(x, kind) /\ x.pc = "deliver"

SendersAlone == \A r, s \in Requests, kind \in TokenKinds :
  r # s /\ Sends(request[r], kind) =>
    ~(request[s].op \in {"sendToken", "useToken"} /\ request[s].kind = kind)
MailedIsStored == \A r \in Requests, kind \in TokenKinds :
  Mails(request[r], kind) => account.secret[kind] = request[r].secret
FoundIsStored == \A r \in Requests :
  request[r].pc = "spend" => account.secret[request[r].kind] \in {request[r].secret, None}
DeliveredIsStored == \A kind \in TokenKinds :
  (\A r \in Requests : ~Mails(request[r], kind)) =>
    (delivered[kind] # None /\ ~Spent(delivered[kind]) =>
       account.secret[kind] = delivered[kind])

MailInv == ~contended => SendersAlone /\ MailedIsStored /\ FoundIsStored /\ DeliveredIsStored

\* A step that neither stores, mails nor spends a token.
LEMMA NoMailStep ==
  ASSUME TypeInv, MailInv, NEW r \in Requests, contended' = contended,
         delivered' = delivered, accepted \subseteq accepted',
         \A kind \in TokenKinds : account'.secret[kind] = account.secret[kind],
         \A s \in Requests \ {r} : request'[s] = request[s],
         \/ request'[r] = Idle
         \/ /\ request'[r].op = request[r].op
            /\ request'[r].kind = request[r].kind
            /\ request'[r].pc # "deliver"
            /\ request'[r].pc = "spend" =>
                 request'[r].kind \in TokenKinds
                   /\ account.secret[request'[r].kind] = request'[r].secret,
         request[r].pc # "deliver"
  PROVE  MailInv'
<1> SUFFICES ASSUME ~contended
             PROVE  (SendersAlone /\ MailedIsStored /\ FoundIsStored /\ DeliveredIsStored)'
  BY DEF MailInv
<1>1. Idle.op \notin {"sendToken", "useToken"} /\ Idle.pc \notin {"spend", "deliver"}
  BY IdleChangesNothing DEF Idle, Operations, Asking, Answering
<1>2. SendersAlone'
  BY <1>1 DEF MailInv, SendersAlone, Sends
<1>3. MailedIsStored'
  BY <1>1 DEF MailInv, MailedIsStored, Mails, Sends
<1>4. FoundIsStored'
  <2>1. \A s \in Requests : request[s].pc = "spend" => request[s].kind \in TokenKinds
    BY DEF TypeInv, Placed
  <2> QED
    BY <1>1, <2>1 DEF MailInv, FoundIsStored
<1>5. DeliveredIsStored'
  <2> SUFFICES ASSUME NEW kind \in TokenKinds, \A s \in Requests : ~Mails(request'[s], kind),
                      delivered[kind] # None, ~Spent(delivered[kind])'
               PROVE  account'.secret[kind] = delivered[kind]
    BY DEF DeliveredIsStored, Mails, Sends
  <2>1. \A s \in Requests : ~Mails(request[s], kind)
    BY DEF Mails
  <2>2. ~Spent(delivered[kind])
    BY DEF Spent
  <2> QED
    BY <2>1, <2>2 DEF MailInv, DeliveredIsStored
<1> QED
  BY <1>2, <1>3, <1>4, <1>5

LEMMA MailReceive ==
  ASSUME TypeInv, MailInv, NEW r \in Requests, Receive(r)
  PROVE  MailInv'
<1> SUFFICES ASSUME ~contended'
             PROVE  (SendersAlone /\ MailedIsStored /\ FoundIsStored /\ DeliveredIsStored)'
  BY DEF MailInv
<1>0. PICK op \in offered : \E kind, key, secret, late :
        LET x == [op |-> op, pc |-> FirstQuery(op), kind |-> kind, key |-> key,
                  secret |-> secret, seen |-> None, late |-> late]
        IN /\ request' = [request EXCEPT ![r] = x]
           /\ contended' = (contended \/ \E s \in InFlight :
                Conflict(x, request[s]) \/ Conflict(request[s], x))
  BY DEF Receive
<1>1. PICK kind, key, secret, late :
        LET x == [op |-> op, pc |-> FirstQuery(op), kind |-> kind, key |-> key,
                  secret |-> secret, seen |-> None, late |-> late]
        IN /\ request' = [request EXCEPT ![r] = x]
           /\ contended' = (contended \/ \E s \in InFlight :
                Conflict(x, request[s]) \/ Conflict(request[s], x))
  BY <1>0
<1> DEFINE x == [op |-> op, pc |-> FirstQuery(op), kind |-> kind, key |-> key,
                 secret |-> secret, seen |-> None, late |-> late]
<1>2. ~contended /\ \A s \in InFlight : ~Conflict(x, request[s]) /\ ~Conflict(request[s], x)
  BY <1>1
<1>3. op \in Operations /\ request[r] = Idle /\ request \in [Requests -> Request]
  BY DEF Receive, TypeInv, TypeOK
<1>4. FirstQuery(op) \in {"store", "find", "totp", "force"}
  BY <1>3 DEF FirstQuery, Operations, Asking, Answering, Enforcing, Removing
<1>5. request'[r] = x /\ \A s \in Requests \ {r} : request'[s] = request[s]
  BY <1>1, <1>3
<1>6. x.op = op /\ x.kind = kind /\ x.pc \notin {"deliver", "spend"}
  BY <1>4
<1>7. Idle.op \notin {"sendToken", "useToken"} /\ Idle.pc \notin {"spend", "deliver"}
  BY IdleChangesNothing DEF Idle, Operations, Asking, Answering
<1>8. ASSUME NEW s \in Requests
      PROVE  /\ ~(op = "sendToken" /\ request[s].op \in {"sendToken", "useToken"}
                                 /\ request[s].kind = kind)
             /\ ~(request[s].op = "sendToken" /\ op \in {"sendToken", "useToken"}
                                           /\ request[s].kind = kind)
  <2>1. CASE request[s] = Idle
    BY <1>7, <2>1
  <2>2. CASE request[s] # Idle
    BY <1>2, <1>6, <2>2 DEF InFlight, Conflict
  <2> QED
    BY <2>1, <2>2
<1> HIDE DEF x
<1>9. SendersAlone'
  BY <1>2, <1>5, <1>6, <1>8 DEF MailInv, SendersAlone, Sends
<1>10. account' = account /\ delivered' = delivered /\ accepted' = accepted
  BY DEF Receive
<1>11. MailedIsStored' /\ FoundIsStored'
  BY <1>2, <1>5, <1>6, <1>10 DEF MailInv, MailedIsStored, FoundIsStored, Mails, Sends
<1>12. DeliveredIsStored'
  BY <1>2, <1>3, <1>5, <1>6, <1>7, <1>10 DEF MailInv, DeliveredIsStored, Mails, Sends, Spent
<1> QED
  BY <1>9, <1>11, <1>12

\* The steps that have nothing to do with mailed tokens.
LEMMA MailFactors ==
  ASSUME TypeInv, MailInv, NEW r \in Requests,
         \/ StoreTotp(r) \/ DeleteAuthenticator(r) \/ CheckTotp(r) \/ CheckKeys(r) \/ WriteForce(r)
         \/ ClearChallenge(r) \/ CreateAuthenticator(r) \/ CountUse(r)
         \/ CodeNotSent(r) \/ FindToken(r) \/ RefusePassword(r)
  PROVE  MailInv'
<1> DEFINE x == request[r]
<1>1. /\ x \in Request /\ Placed(x) /\ account \in Account /\ "challenge" \notin TokenKinds
      /\ TokenKinds \subseteq Kinds /\ request \in [Requests -> Request]
  BY DEF TypeInv, TypeOK, Kinds, TokenKinds
<1>2. contended' = contended /\ delivered' = delivered
  BY DEF StoreTotp, DeleteAuthenticator, CheckTotp, CheckKeys, WriteForce, ClearChallenge,
    CreateAuthenticator, CountUse, CodeNotSent, FindToken, RefusePassword, Bystanders, NothingIssued
<1>3. accepted \subseteq accepted'
  BY DEF StoreTotp, DeleteAuthenticator, CheckTotp, CheckKeys, WriteForce, ClearChallenge,
    CreateAuthenticator, CountUse, CodeNotSent, FindToken, RefusePassword, AfterCapability, Refuses,
    Accepts
<1>4. \A kind \in TokenKinds : account'.secret[kind] = account.secret[kind]
  BY <1>1 DEF StoreTotp, DeleteAuthenticator, CheckTotp, CheckKeys, WriteForce, ClearChallenge,
    CreateAuthenticator, CountUse, CodeNotSent, FindToken, RefusePassword, AfterCapability, Refuses,
    Account
<1>5. x.pc # "deliver"
  BY DEF StoreTotp, DeleteAuthenticator, CheckTotp, CheckKeys, WriteForce, ClearChallenge,
    CreateAuthenticator, CountUse, CodeNotSent, FindToken, RefusePassword
<1>6. \/ Ends(r)
      \/ \E pc \in {"totp", "keys", "force", "authenticator", "create"} : Goes(r, pc)
      \/ FindToken(r) /\ Goes(r, "spend") /\ account.secret[x.kind] = x.secret
  BY DEF StoreTotp, DeleteAuthenticator, CheckTotp, CheckKeys, WriteForce, ClearChallenge,
    CreateAuthenticator, CountUse, CodeNotSent, FindToken, RefusePassword, AfterCapability, Refuses,
    Continues
<1>7. CASE Ends(r)
  BY <1>2, <1>3, <1>4, <1>5, <1>7, OnlyOwnRequest, NoMailStep
<1>8. ASSUME NEW pc \in {"totp", "keys", "force", "authenticator", "create"}, Goes(r, pc)
      PROVE  MailInv'
  <2>1. /\ request'[r] = [x EXCEPT !.pc = pc]
        /\ \A s \in Requests \ {r} : request'[s] = request[s]
    BY <1>8, OnlyOwnRequest
  <2>2. /\ request'[r].op = x.op /\ request'[r].kind = x.kind
        /\ request'[r].pc \notin {"deliver", "spend"}
    BY <1>1, <2>1 DEF Request
  <2> QED
    BY <1>2, <1>3, <1>4, <1>5, <2>1, <2>2, NoMailStep
<1>9. CASE FindToken(r) /\ Goes(r, "spend") /\ account.secret[x.kind] = x.secret
  <2>1. /\ request'[r] = [x EXCEPT !.pc = "spend"]
        /\ \A s \in Requests \ {r} : request'[s] = request[s]
    BY <1>9, OnlyOwnRequest
  <2>2. x.kind \in TokenKinds
    BY <1>1, <1>9 DEF FindToken, Placed
  <2>3. /\ request'[r].op = x.op /\ request'[r].kind = x.kind /\ request'[r].pc # "deliver"
        /\ request'[r].secret = x.secret
    BY <1>1, <2>1 DEF Request
  <2> QED
    BY <1>2, <1>3, <1>4, <1>5, <1>9, <2>1, <2>2, <2>3, NoMailStep
<1> QED
  BY <1>6, <1>7, <1>8, <1>9

LEMMA MailLooks ==
  ASSUME TypeInv, MailInv, NEW r \in Requests, FindChallenge(r) \/ FindAuthenticator(r)
  PROVE  MailInv'
<1> DEFINE x == request[r]
<1>1. x \in Request /\ request \in [Requests -> Request]
  BY DEF TypeInv, TypeOK
<1>2. /\ contended' = contended /\ delivered' = delivered /\ accepted' = accepted
      /\ account' = account /\ x.pc # "deliver"
  BY DEF FindChallenge, FindAuthenticator, Bystanders, NothingIssued, Refuses
<1>3. \/ Ends(r)
      \/ \E pc \in {"clear", "count"} : \E v : request' = [request EXCEPT ![r].pc = pc, ![r].seen = v]
  BY DEF FindChallenge, FindAuthenticator, Refuses
<1>4. \A s \in Requests \ {r} : request'[s] = request[s]
  BY <1>1, <1>3, OnlyOwnRequest
<1>5. \/ request'[r] = Idle
      \/ /\ request'[r].op = x.op /\ request'[r].kind = x.kind
         /\ request'[r].pc \notin {"deliver", "spend"}
  BY <1>1, <1>3, OnlyOwnRequest DEF Request
<1> QED
  BY <1>2, <1>4, <1>5, NoMailStep

LEMMA MailStored ==
  ASSUME TypeInv, MailInv, NEW r \in Requests, StoreSecret(r)
  PROVE  MailInv'
<1> DEFINE x == request[r]
<1>1. /\ x \in Request /\ Placed(x) /\ account \in Account /\ "challenge" \notin TokenKinds
      /\ TokenKinds \subseteq Kinds /\ request \in [Requests -> Request]
  BY DEF TypeInv, TypeOK, Kinds, TokenKinds
<1>2. PICK s \in Secrets \ generated :
        /\ account' = [account EXCEPT !.secret[x.kind] = s]
        /\ request' = [request EXCEPT ![r].pc = "deliver", ![r].secret = s]
  BY DEF StoreSecret
<1>3. contended' = contended /\ delivered' = delivered /\ accepted' = accepted
  BY DEF StoreSecret, Bystanders
<1> SUFFICES ASSUME ~contended
             PROVE  (SendersAlone /\ MailedIsStored /\ FoundIsStored /\ DeliveredIsStored)'
  BY <1>3 DEF MailInv
<1>4. /\ \A t \in Requests \ {r} : request'[t] = request[t]
      /\ request'[r].op = x.op /\ request'[r].kind = x.kind
      /\ request'[r].pc = "deliver" /\ request'[r].secret = s
  BY <1>1, <1>2 DEF Request
<1>5. \A kind \in Kinds : account'.secret[kind] = IF kind = x.kind THEN s ELSE account.secret[kind]
  BY <1>1, <1>2 DEF Account
<1>6. x.kind \in TokenKinds => x.op = "sendToken"
  BY <1>1 DEF StoreSecret, Placed, Asking
<1>7. SendersAlone'
  BY <1>4 DEF MailInv, SendersAlone, Sends
\* No other request sends or uses a token of the kind.
<1>8. \A t \in Requests \ {r} : x.kind \in TokenKinds /\ request[t].kind = x.kind =>
        request[t].op \notin {"sendToken", "useToken"}
  BY <1>6 DEF MailInv, SendersAlone, Sends
<1>9. MailedIsStored'
  BY <1>1, <1>4, <1>5, <1>8 DEF MailInv, MailedIsStored, Mails, Sends
<1>10. FoundIsStored'
  <2>1. \A t \in Requests : request[t].pc = "spend" =>
          request[t].op = "useToken" /\ request[t].kind \in TokenKinds
    BY DEF TypeInv, Placed
  <2> QED
    BY <1>1, <1>4, <1>5, <1>8, <2>1 DEF MailInv, FoundIsStored
<1>11. DeliveredIsStored'
  <2> SUFFICES ASSUME NEW kind \in TokenKinds, \A t \in Requests : ~Mails(request[t], kind)',
                      delivered[kind] # None, ~Spent(delivered[kind])
               PROVE  account'.secret[kind] = delivered[kind]
    BY <1>3 DEF DeliveredIsStored, Spent
  <2>1. kind # x.kind
    BY <1>4, <1>6 DEF Mails, Sends
  <2>2. \A t \in Requests : ~Mails(request[t], kind)
    BY <1>4, <2>1 DEF Mails, Sends
  <2> QED
    BY <1>1, <1>5, <2>1, <2>2 DEF MailInv, DeliveredIsStored
<1> QED
  BY <1>7, <1>9, <1>10, <1>11

LEMMA MailDelivered ==
  ASSUME TypeInv, MailInv, NEW r \in Requests, Deliver(r)
  PROVE  MailInv'
<1> DEFINE x == request[r]
<1>1. /\ x \in Request /\ Placed(x) /\ "challenge" \notin TokenKinds
      /\ TokenKinds \subseteq Kinds /\ delivered \in [Kinds -> Secrets \cup {None}]
  BY DEF TypeInv, TypeOK, Kinds, TokenKinds
<1>2. /\ delivered' = [delivered EXCEPT ![x.kind] = x.secret]
      /\ contended' = contended /\ accepted' = accepted /\ account' = account /\ x.pc = "deliver"
  BY DEF Deliver, Bystanders
<1> SUFFICES ASSUME ~contended
             PROVE  (SendersAlone /\ MailedIsStored /\ FoundIsStored /\ DeliveredIsStored)'
  BY <1>2 DEF MailInv
<1>3. request'[r] = Idle /\ \A t \in Requests \ {r} : request'[t] = request[t]
  BY OnlyOwnRequest DEF Deliver
<1>4. Idle.op \notin {"sendToken", "useToken"} /\ Idle.pc \notin {"spend", "deliver"}
  BY IdleChangesNothing DEF Idle, Operations, Asking, Answering
<1>5. SendersAlone'
  BY <1>3, <1>4 DEF MailInv, SendersAlone, Sends
<1>6. MailedIsStored' /\ FoundIsStored'
  BY <1>2, <1>3, <1>4 DEF MailInv, MailedIsStored, FoundIsStored, Mails, Sends
<1>7. DeliveredIsStored'
  <2> SUFFICES ASSUME NEW kind \in TokenKinds, \A t \in Requests : ~Mails(request[t], kind)',
                      delivered'[kind] # None, ~Spent(delivered'[kind])
               PROVE  account.secret[kind] = delivered'[kind]
    BY <1>2 DEF DeliveredIsStored, Spent
  <2>1. CASE kind = x.kind
    <3>1. x.op = "sendToken"
      BY <1>1, <1>2, <2>1 DEF Placed, Asking
    <3>2. account.secret[kind] = x.secret
      BY <1>2, <2>1, <3>1 DEF MailInv, MailedIsStored, Mails, Sends
    <3> QED
      BY <1>1, <1>2, <2>1, <3>2
  <2>2. CASE kind # x.kind
    <3>1. \A t \in Requests : ~Mails(request[t], kind)
      BY <1>3, <2>2 DEF Mails, Sends
    <3>2. delivered'[kind] = delivered[kind]
      BY <1>1, <1>2, <2>2
    <3> QED
      BY <3>1, <3>2 DEF MailInv, DeliveredIsStored
  <2> QED
    BY <2>1, <2>2
<1> QED
  BY <1>5, <1>6, <1>7

LEMMA MailSpent ==
  ASSUME TypeInv, MailInv, NEW r \in Requests, SpendToken(r)
  PROVE  MailInv'
<1> DEFINE x == request[r]
<1>1. /\ x \in Request /\ Placed(x) /\ account \in Account /\ "challenge" \notin TokenKinds
      /\ TokenKinds \subseteq Kinds
  BY DEF TypeInv, TypeOK, Kinds, TokenKinds
<1>2. /\ delivered' = delivered /\ contended' = contended
      /\ account' = [account EXCEPT !.secret[x.kind] = None]
      /\ accepted' = accepted \cup {<<x.secret, x.late>>}
      /\ x.op = "useToken" /\ x.kind \in TokenKinds /\ x.pc = "spend"
  BY <1>1 DEF SpendToken, Bystanders, NothingIssued, Accepts, Placed
<1> SUFFICES ASSUME ~contended
             PROVE  (SendersAlone /\ MailedIsStored /\ FoundIsStored /\ DeliveredIsStored)'
  BY <1>2 DEF MailInv
<1>3. request'[r] = Idle /\ \A t \in Requests \ {r} : request'[t] = request[t]
  BY OnlyOwnRequest DEF SpendToken
<1>4. Idle.op \notin {"sendToken", "useToken"} /\ Idle.pc \notin {"spend", "deliver"}
  BY IdleChangesNothing DEF Idle, Operations, Asking, Answering
<1>5. \A kind \in Kinds : account'.secret[kind] = IF kind = x.kind THEN None ELSE account.secret[kind]
  BY <1>1, <1>2 DEF Account
\* No request is sending a token of the kind.
<1>6. \A t \in Requests : ~Sends(request[t], x.kind)
  BY <1>2 DEF MailInv, SendersAlone, Sends
<1>7. SendersAlone'
  BY <1>3, <1>4 DEF MailInv, SendersAlone, Sends
<1>8. MailedIsStored'
  <2>1. ASSUME NEW t \in Requests, NEW kind \in TokenKinds, Mails(request[t], kind)'
        PROVE  account'.secret[kind] = request'[t].secret
    <3>1. t # r /\ Mails(request[t], kind) /\ request'[t] = request[t]
      BY <1>3, <1>4, <2>1 DEF Mails, Sends
    <3>2. kind # x.kind
      BY <1>6, <3>1 DEF Mails
    <3> QED
      BY <1>1, <1>5, <3>1, <3>2 DEF MailInv, MailedIsStored
  <2> QED
    BY <2>1 DEF MailedIsStored
<1>9. FoundIsStored'
  <2>1. \A t \in Requests : request[t].pc = "spend" => request[t].kind \in TokenKinds
    BY DEF TypeInv, Placed
  <2> QED
    BY <1>1, <1>3, <1>4, <1>5, <2>1 DEF MailInv, FoundIsStored
<1>10. DeliveredIsStored'
  <2> SUFFICES ASSUME NEW kind \in TokenKinds, \A t \in Requests : ~Mails(request[t], kind)',
                      delivered[kind] # None, ~Spent(delivered[kind])'
               PROVE  account'.secret[kind] = delivered[kind]
    BY <1>2 DEF DeliveredIsStored, Spent
  <2>1. \A t \in Requests : ~Mails(request[t], kind)
    BY <1>2, <1>3 DEF Mails
  <2>2. ~Spent(delivered[kind])
    BY <1>2 DEF Spent
  <2>3. account.secret[kind] = delivered[kind]
    BY <2>1, <2>2 DEF MailInv, DeliveredIsStored
  <2>4. CASE kind = x.kind
    <3>1. delivered[kind] = x.secret
      BY <1>2, <2>3, <2>4 DEF MailInv, FoundIsStored
    <3>2. x.late \in BOOLEAN /\ <<x.secret, x.late>> \in accepted'
      BY <1>1, <1>2 DEF Request
    <3>3. Spent(delivered[kind])'
      BY <1>2, <3>1, <3>2 DEF Spent
    <3> QED
      BY <1>2, <3>3
  <2>5. CASE kind # x.kind
    BY <1>1, <1>5, <2>3, <2>5
  <2> QED
    BY <2>4, <2>5
<1> QED
  BY <1>7, <1>8, <1>9, <1>10

LEMMA MailInit == Init => MailInv
<1>1. Idle.op \notin {"sendToken", "useToken"} /\ Idle.pc \notin {"spend", "deliver"}
  BY IdleChangesNothing DEF Idle, Operations, Asking, Answering
<1>2. TokenKinds \subseteq Kinds
  BY DEF Kinds
<1> QED
  BY <1>1, <1>2 DEF Init, MailInv, SendersAlone, MailedIsStored, FoundIsStored, DeliveredIsStored,
    Mails, Sends

LEMMA MailStep == TypeInv /\ MailInv /\ [Next]_vars => MailInv'
<1> SUFFICES ASSUME TypeInv, MailInv, [Next]_vars PROVE MailInv'
  OBVIOUS
<1>1. CASE UNCHANGED vars
  BY <1>1 DEF vars, MailInv, SendersAlone, MailedIsStored, FoundIsStored, DeliveredIsStored, Mails,
    Sends, Spent
<1>2. ASSUME NEW r \in Requests, Dies(r) PROVE MailInv'
  BY <1>2 DEF Dies, MailInv
<1>3. ASSUME NEW r \in Requests, Proceed(r) PROVE MailInv'
  BY <1>3, MailFactors, MailLooks, MailStored, MailDelivered, MailSpent DEF Proceed
<1> QED
  BY <1>1, <1>2, <1>3, MailReceive DEF Next

(***************************************************************************)
(* Once the requests have ended, the token of the last mail of a kind is   *)
(* the one that works, unless it was sent while another one of the kind    *)
(* was sent or used, or a request has died.                                *)
(***************************************************************************)
THEOREM LastMailIsGood == Spec => []LastMailWorks
<1>1. Idle.op # "sendToken"
  BY IdleChangesNothing DEF Operations, Asking
<1>2. MailInv => LastMailWorks
  BY <1>1 DEF MailInv, LastMailWorks, DeliveredIsStored, Mails, Sends, Quiet, InFlight
<1> QED
  BY <1>2, TypeInit, TypeStep, MailInit, MailStep, PTL DEF Spec

-------------------------------------------------------------------------------
(* Requests one at a time.  A request that is alone and does not die has,  *)
(* at every point, done to the account what its operation, its position    *)
(* and what it has found tell.                                             *)

Progress(x, b, a) ==
  /\ x.op \in Operations
  /\ x.pc \in {"store", "find", "spend", "clear"} => a = b
  /\ x.pc \in {"totp", "keys", "force"} => x.op \in Enforcing \cup Removing \cup {"disableForce2fa"}
  /\ x.op = "disableForce2fa" => a = b /\ x.pc = "force"
  /\ x.op = "enableForce2fa" => a = b /\ (x.pc = "force" => is2FACapable(b))
  /\ x.op = "confirmTotp" /\ x.pc # "store" => a = [b EXCEPT !.totp = TRUE]
  /\ x.op = "deleteTotp" /\ x.pc # "store" => a = [b EXCEPT !.totp = FALSE]
  /\ x.op = "deleteAuthenticator" /\ x.pc # "store" =>
       b.keys[x.key] # Absent /\ a = [b EXCEPT !.keys[x.key] = Absent]
  /\ x.pc = "keys" => ~a.totp
  /\ x.op \in Removing /\ x.pc = "force" => ~is2FACapable(a)
  /\ x.pc = "deliver" => a = [b EXCEPT !.secret[x.kind] = x.secret]
  /\ x.pc = "spend" => a.secret[x.kind] # None
  /\ x.pc = "clear" => b.secret["challenge"] # None
  /\ x.pc \in {"authenticator", "create", "count"} =>
       b.secret["challenge"] # None /\ a = [b EXCEPT !.secret["challenge"] = None]
  /\ x.pc = "create" => x.op = "verifyRegistration"
  /\ x.pc = "count" => x.seen = b.keys[x.key] /\ x.seen # Absent
  /\ x.op = "verifyRegistration" /\ x.pc \in {"totp", "keys", "force"} =>
       /\ b.secret["challenge"] # None /\ b.keys[x.key] = Absent
       /\ a = [b EXCEPT !.secret["challenge"] = None, !.keys[x.key] = 0]

Alone(r) == \A s \in Requests \ {r} : request[s] = Idle

AloneInv == ~disturbed =>
  /\ Quiet => before = account
  /\ \A r \in Requests : request[r] # Idle => Alone(r) /\ Progress(request[r], before, account)

\* The account as the next request will find it.
Row == IF Quiet THEN account ELSE before

LEMMA RowGoesOn ==
  ASSUME TypeInv, AloneInv, ~disturbed, NEW r \in Requests, request[r] # Idle,
         \A s \in Requests \ {r} : request'[s] = request[s], request'[r] # Idle,
         before' = before, Progress(request'[r], before, account')
  PROVE  AloneInv' /\ Row' = Row
<1>1. ~Quiet /\ ~Quiet'
  BY DEF Quiet, InFlight
<1>2. Alone(r)'
  BY DEF AloneInv, Alone
<1>3. \A s \in Requests : request'[s] # Idle => s = r
  BY <1>2 DEF Alone
<1>4. AloneInv'
  BY <1>1, <1>2, <1>3 DEF AloneInv
<1> QED
  BY <1>1, <1>4 DEF Row

LEMMA RowEnds ==
  ASSUME TypeInv, AloneInv, ~disturbed, NEW r \in Requests, request[r] # Idle, Ends(r)
  PROVE  AloneInv' /\ Row = before /\ Row' = account'
<1>1. Alone(r) /\ InFlight = {r}
  BY DEF AloneInv, Alone, InFlight
<1>2. request'[r] = Idle /\ \A s \in Requests \ {r} : request'[s] = request[s]
  BY OnlyOwnRequest
<1>3. \A s \in Requests : request'[s] = Idle
  BY <1>1, <1>2 DEF Alone
<1>4. ~Quiet /\ Quiet'
  BY <1>1, <1>3 DEF Quiet, InFlight
<1>5. before' = account'
  BY <1>1 DEF Ends
<1> QED
  BY <1>3, <1>4, <1>5 DEF AloneInv, Row

LEMMA AloneReceive ==
  ASSUME TypeInv, AloneInv, NEW r \in Requests, Receive(r), ~disturbed'
  PROVE  AloneInv' /\ Row' = Row
<1>0. PICK op \in offered : \E kind, key, secret, late :
        LET x == [op |-> op, pc |-> FirstQuery(op), kind |-> kind, key |-> key,
                  secret |-> secret, seen |-> None, late |-> late]
        IN request' = [request EXCEPT ![r] = x]
  BY DEF Receive
<1>1. PICK kind, key, secret, late :
        LET x == [op |-> op, pc |-> FirstQuery(op), kind |-> kind, key |-> key,
                  secret |-> secret, seen |-> None, late |-> late]
        IN request' = [request EXCEPT ![r] = x]
  BY <1>0
<1> DEFINE x == [op |-> op, pc |-> FirstQuery(op), kind |-> kind, key |-> key,
                 secret |-> secret, seen |-> None, late |-> late]
<1>2. ~disturbed /\ Quiet /\ account' = account /\ before' = before /\ before = account
  BY DEF Receive, AloneInv
<1>3. op \in Operations /\ request \in [Requests -> Request]
  BY DEF TypeInv, TypeOK
<1>4. request'[r] = x /\ \A s \in Requests \ {r} : request'[s] = Idle
  BY <1>1, <1>2, <1>3 DEF Quiet, InFlight
<1>5. /\ FirstQuery(op) \in {"store", "find", "totp", "force"}
      /\ FirstQuery(op) = "totp" => op = "enableForce2fa"
      /\ FirstQuery(op) = "force" => op = "disableForce2fa"
      /\ FirstQuery(op) = "find" => op \in Answering
      /\ op = "disableForce2fa" => FirstQuery(op) = "force"
      /\ op \in Removing \cup {"confirmTotp"} => FirstQuery(op) = "store"
  BY <1>3 DEF FirstQuery, Operations, Asking, Answering, Enforcing, Removing
<1>6. /\ x.op = op /\ x.pc = FirstQuery(op)
  OBVIOUS
<1>7. x # Idle
  BY <1>3, <1>6, IdleChangesNothing
<1> HIDE DEF x
<1>8. Progress(x, before, account)
  BY <1>2, <1>3, <1>5, <1>6 DEF Progress, Enforcing, Removing, Answering
<1>9. Row = account /\ Row' = account
  BY <1>2 DEF Row
<1>10. ~Quiet'
  BY <1>4, <1>7 DEF Quiet, InFlight
<1>11. AloneInv'
  BY <1>2, <1>4, <1>8, <1>10 DEF AloneInv, Alone
<1> QED
  BY <1>9, <1>11

LEMMA CapableIs == \A a : Atomic!Capable(a) <=> is2FACapable(a)
BY DEF Atomic!Capable, is2FACapable, Atomic!Absent, Absent

LEMMA RelaxedIs ==
  ASSUME NEW a \in Account
  PROVE  /\ is2FACapable(a) => Atomic!Relaxed(a) = a
         /\ ~is2FACapable(a) => Atomic!Relaxed(a) = [a EXCEPT !.force = FALSE]
<1>1. ASSUME is2FACapable(a) PROVE Atomic!Relaxed(a) = a
  <2>1. (a.force /\ Atomic!Capable(a)) = a.force
    <3>1. a.force \in BOOLEAN
      BY DEF Account
    <3> QED
      BY <1>1, <3>1, CapableIs
  <2>2. Atomic!Relaxed(a) = [a EXCEPT !.force = a.force]
    BY <2>1, Zenon DEF Atomic!Relaxed
  <2> QED
    BY <2>2 DEF Account
<1>2. ASSUME ~is2FACapable(a) PROVE Atomic!Relaxed(a) = [a EXCEPT !.force = FALSE]
  <2>1. (a.force /\ Atomic!Capable(a)) = FALSE
    BY <1>2, CapableIs
  <2> QED
    BY <2>1, Zenon DEF Atomic!Relaxed
<1> QED
  BY <1>1, <1>2

\* A step takes effect as one action of AtomicAccount or not at all.
Lawful == Row' = Row \/ Atomic!Effect

\* The account that a request leaves when it ends.
Leaves(r, a) == Ends(r) /\ account' = a

LEMMA NoEffect ==
  ASSUME TypeInv, AloneInv, ~disturbed, NEW r \in Requests, request[r] # Idle, Leaves(r, before)
  PROVE  AloneInv' /\ Lawful
BY RowEnds DEF Leaves, Lawful

LEMMA AnEffect ==
  ASSUME TypeInv, AloneInv, ~disturbed, NEW r \in Requests, request[r] # Idle, NEW a, Leaves(r, a),
         \/ is2FACapable(before) /\ a = Atomic!Forced(before)
         \/ a = [before EXCEPT !.force = FALSE]
         \/ a = Atomic!Forced([before EXCEPT !.totp = TRUE])
         \/ a = Atomic!Relaxed([before EXCEPT !.totp = FALSE])
         \/ a = Atomic!Without(before, "challenge")
         \/ \E k \in Passkeys :
              \/ /\ before.keys[k] # Absent
                 /\ a = Atomic!Relaxed([before EXCEPT !.keys[k] = Absent])
              \/ /\ before.secret["challenge"] # None /\ before.keys[k] = Absent
                 /\ a = Atomic!Forced([Atomic!Without(before, "challenge") EXCEPT !.keys[k] = 0])
              \/ /\ before.secret["challenge"] # None /\ before.keys[k] # Absent
                 /\ a = [Atomic!Without(before, "challenge") EXCEPT !.keys[k] = before.keys[k] + 1]
         \/ \E kind \in Kinds :
              \/ before.secret[kind] # None /\ a = Atomic!Without(before, kind)
              \/ \E s \in Secrets : a = [before EXCEPT !.secret[kind] = s]
  PROVE  AloneInv' /\ Lawful
<1>1. AloneInv' /\ Row = before /\ Row' = a
  BY RowEnds DEF Leaves
<1>2. Absent = Atomic!Absent
  BY DEF Absent, Atomic!Absent
<1>3. Atomic!Effect
  BY <1>1, <1>2, CapableIs DEF Row, Atomic!Effect, Atomic!Enable, Atomic!Disable, Atomic!ConfirmTotp,
    Atomic!DeleteTotp, Atomic!SpendChallenge, Atomic!DeleteKey, Atomic!RegisterKey, Atomic!UseKey,
    Atomic!UseToken, Atomic!Issue
<1> QED
  BY <1>1, <1>3 DEF Lawful

\* A request that goes on has made progress.
LEMMA GoesOn ==
  ASSUME TypeInv, AloneInv, ~disturbed, NEW r \in Requests, request[r] # Idle,
         NEW pc \in Positions, Continues(r, pc),
         Progress([request[r] EXCEPT !.pc = pc], before, account')
  PROVE  AloneInv' /\ Lawful
<1>1. /\ request'[r] = [request[r] EXCEPT !.pc = pc] /\ request'[r].op = request[r].op
      /\ \A s \in Requests \ {r} : request'[s] = request[s]
  BY OnlyOwnRequest DEF Continues
<1>2. request'[r] # Idle
  BY <1>1, IdleChangesNothing DEF AloneInv, Progress
<1> QED
  BY <1>1, <1>2, RowGoesOn DEF Continues, Lawful

LEMMA AloneFactors ==
  ASSUME TypeInv, AloneInv, ~disturbed, NEW r \in Requests,
         StoreTotp(r) \/ DeleteAuthenticator(r) \/ CheckTotp(r) \/ CheckKeys(r) \/ WriteForce(r)
  PROVE  AloneInv' /\ Lawful
<1> DEFINE x == request[r]
<1>1. /\ x \in Request /\ Placed(x) /\ account \in Account /\ before \in Account
      /\ {"totp", "keys", "force"} \subseteq Positions
  BY DEF TypeInv, TypeOK, Positions
<1>2. x # Idle
  <2>1. x.pc \in {"store", "totp", "keys", "force"}
    BY DEF StoreTotp, DeleteAuthenticator, CheckTotp, CheckKeys, WriteForce
  <2>2. Idle.pc = "idle"
    BY DEF Idle
  <2> QED
    BY <2>1, <2>2
<1>3. Progress(x, before, account)
  BY <1>2 DEF AloneInv
<1>4. CASE StoreTotp(r)
  <2>1. x.pc = "store" /\ account = before /\ Continues(r, "totp")
    BY <1>3, <1>4 DEF StoreTotp, Progress
  <2>2. account' = [before EXCEPT !.totp = TRUE] \/ x.op # "confirmTotp"
    <3>1. CASE x.op = "confirmTotp"
      <4>1. (x.op = "confirmTotp") = TRUE
        BY <3>1
      <4> QED
        BY <1>4, <2>1, <4>1, Zenon DEF StoreTotp
    <3> QED
      BY <3>1
  <2>3. account' = [before EXCEPT !.totp = FALSE] \/ x.op # "deleteTotp"
    <3>1. CASE x.op = "deleteTotp"
      <4>1. (x.op = "confirmTotp") = FALSE
        BY <3>1
      <4> QED
        BY <1>4, <2>1, <4>1, Zenon DEF StoreTotp
    <3> QED
      BY <3>1
  <2>4. Progress([x EXCEPT !.pc = "totp"], before, account')
    BY <1>1, <1>3, <1>4, <2>2, <2>3 DEF Progress, StoreTotp, Request, Enforcing, Removing
  <2> QED
    BY <1>1, <1>2, <2>1, <2>4, GoesOn
<1>5. CASE DeleteAuthenticator(r)
  <2>1. x.pc = "store" /\ account = before /\ x.op = "deleteAuthenticator"
    BY <1>3, <1>5 DEF DeleteAuthenticator, Progress
  <2>2. CASE account.keys[x.key] # Absent
    <3>1. Continues(r, "totp") /\ account' = [before EXCEPT !.keys[x.key] = Absent]
      BY <1>5, <2>1, <2>2 DEF DeleteAuthenticator
    <3>2. Progress([x EXCEPT !.pc = "totp"], before, account')
      BY <1>1, <1>3, <2>1, <2>2, <3>1 DEF Progress, Request, Enforcing, Removing
    <3> QED
      BY <1>1, <1>2, <3>1, <3>2, GoesOn
  <2>3. CASE account.keys[x.key] = Absent
    BY <1>2, <1>5, <2>1, <2>3, NoEffect DEF DeleteAuthenticator, Refuses, Leaves
  <2> QED
    BY <2>2, <2>3
\* is2FACapable has its answer.
<1>6. ASSUME NEW capable \in BOOLEAN, capable <=> is2FACapable(account),
             AfterCapability(r, capable), x.pc \in {"totp", "keys"}
      PROVE  AloneInv' /\ Lawful
  <2>1. account' = account
    BY <1>6 DEF AfterCapability, Refuses
  <2>2. x.op \in Enforcing \cup Removing
    BY <1>3, <1>6 DEF Progress
  <2>3. CASE capable = (x.op \in Enforcing)
    <3>1. Continues(r, "force")
      BY <1>6, <2>3 DEF AfterCapability
    <3>2. x.op \in Enforcing => is2FACapable(account)
      BY <1>6, <2>3
    <3>3. x.op \in Removing => ~is2FACapable(account)
      BY <1>6, <2>3 DEF Enforcing, Removing
    <3>4. Progress([x EXCEPT !.pc = "force"], before, account')
      BY <1>1, <1>3, <1>6, <2>1, <2>2, <3>2, <3>3
        DEF Progress, Request, Enforcing, Removing, is2FACapable
    <3> QED
      BY <1>1, <1>2, <3>1, <3>4, GoesOn
  <2>4. CASE capable # (x.op \in Enforcing)
    <3>1. Ends(r)
      BY <1>6, <2>4 DEF AfterCapability, Refuses
    <3>2. CASE x.op \in Removing
      <4>1. is2FACapable(account)
        BY <1>6, <2>4, <3>2 DEF Enforcing, Removing
      <4>2. Atomic!Relaxed(account) = account
        BY <1>1, <4>1, RelaxedIs
      <4>3. CASE x.op = "deleteTotp"
        <5>1. account = [before EXCEPT !.totp = FALSE]
          BY <1>3, <1>6, <4>3 DEF Progress
        <5> QED
          BY <1>2, <2>1, <3>1, <4>2, <5>1, AnEffect DEF Leaves
      <4>4. CASE x.op = "deleteAuthenticator"
        <5>1. /\ account = [before EXCEPT !.keys[x.key] = Absent] /\ before.keys[x.key] # Absent
              /\ x.key \in Passkeys
          BY <1>1, <1>3, <1>6, <4>4 DEF Progress, Placed
        <5> QED
          BY <1>2, <2>1, <3>1, <4>2, <5>1, AnEffect DEF Leaves
      <4> QED
        BY <3>2, <4>3, <4>4 DEF Removing
    <3>3. CASE x.op \in Enforcing
      <4>1. ~is2FACapable(account)
        BY <1>6, <2>4, <3>3
      <4>2. x.op # "confirmTotp"
        BY <1>1, <1>3, <1>6, <4>1 DEF Progress, is2FACapable, Account
      <4>3. x.op # "verifyRegistration"
        <5>1. ASSUME x.op = "verifyRegistration" PROVE FALSE
          <6>1. x.key \in Passkeys
            BY <1>1, <5>1 DEF Placed
          <6>2. account = [before EXCEPT !.secret["challenge"] = None, !.keys[x.key] = 0]
            BY <1>3, <1>6, <5>1 DEF Progress
          <6>3. account.keys[x.key] = 0
            BY <1>1, <6>1, <6>2 DEF Account
          <6> QED
            BY <4>1, <6>1, <6>3 DEF is2FACapable, Absent
        <5> QED
          BY <5>1
      <4>4. account = before
        BY <1>3, <3>3, <4>2, <4>3 DEF Progress, Enforcing
      <4> QED
        BY <1>2, <2>1, <3>1, <4>4, NoEffect DEF Leaves
    <3> QED
      BY <2>2, <3>2, <3>3
  <2> QED
    BY <2>3, <2>4
<1>7. CASE CheckTotp(r)
  <2>1. CASE account.totp
    <3>1. is2FACapable(account) /\ AfterCapability(r, TRUE) /\ x.pc = "totp"
      BY <1>7, <2>1 DEF is2FACapable, CheckTotp
    <3> QED
      BY <1>6, <3>1
  <2>2. CASE ~account.totp
    <3>1. Continues(r, "keys") /\ account' = account /\ x.pc = "totp"
      BY <1>7, <2>2 DEF CheckTotp
    <3>3. Progress([x EXCEPT !.pc = "keys"], before, account')
      BY <1>1, <1>3, <2>2, <3>1 DEF Progress, Request
    <3> QED
      BY <1>1, <1>2, <3>1, <3>3, GoesOn
  <2> QED
    BY <2>1, <2>2
<1>8. CASE CheckKeys(r)
  <2> DEFINE capable == \E k \in Passkeys : account.keys[k] # Absent
  <2>1. x.pc = "keys" /\ AfterCapability(r, capable) /\ capable \in BOOLEAN
    BY <1>8 DEF CheckKeys
  <2>2. capable <=> is2FACapable(account)
    BY <1>3, <2>1 DEF is2FACapable, Progress
  <2> HIDE DEF capable
  <2> QED
    BY <1>6, <2>1, <2>2
<1>9. CASE WriteForce(r)
  <2>1. x.pc = "force" /\ Ends(r) /\ x.op \in Enforcing \cup Removing \cup {"disableForce2fa"}
    BY <1>3, <1>9 DEF WriteForce, Progress
  <2>2. CASE x.op = "disableForce2fa"
    <3>1. account' = [before EXCEPT !.force = FALSE]
      BY <1>3, <1>9, <2>2, ForceAsWritten DEF Progress, Enforcing
    <3> QED
      BY <1>2, <2>1, <3>1, AnEffect DEF Leaves
  <2>3. CASE x.op \in Removing
    <3>1. ~is2FACapable(account) /\ x.op \notin Enforcing
      BY <1>3, <2>1, <2>3 DEF Progress, Removing, Enforcing
    <3>2. account' = Atomic!Relaxed(account)
      BY <1>1, <1>9, <3>1, ForceAsWritten, RelaxedIs
    <3>3. CASE x.op = "deleteTotp"
      <4>1. account = [before EXCEPT !.totp = FALSE]
        BY <1>3, <2>1, <3>3 DEF Progress
      <4> QED
        BY <1>2, <2>1, <3>2, <4>1, AnEffect DEF Leaves
    <3>4. CASE x.op = "deleteAuthenticator"
      <4>1. /\ account = [before EXCEPT !.keys[x.key] = Absent] /\ before.keys[x.key] # Absent
            /\ x.key \in Passkeys
        BY <1>1, <1>3, <2>1, <3>4 DEF Progress, Placed
      <4> QED
        BY <1>2, <2>1, <3>2, <4>1, AnEffect DEF Leaves
    <3> QED
      BY <2>3, <3>3, <3>4 DEF Removing
  <2>4. CASE x.op \in Enforcing
    <3>1. account' = Atomic!Forced(account)
      BY <1>9, <2>4, ForceAsWritten DEF Atomic!Forced
    <3>2. CASE x.op = "enableForce2fa"
      <4>1. is2FACapable(before) /\ account = before
        BY <1>3, <2>1, <3>2 DEF Progress
      <4> QED
        BY <1>2, <2>1, <3>1, <4>1, AnEffect DEF Leaves
    <3>3. CASE x.op = "confirmTotp"
      <4>1. account = [before EXCEPT !.totp = TRUE]
        BY <1>3, <2>1, <3>3 DEF Progress
      <4> QED
        BY <1>2, <2>1, <3>1, <4>1, AnEffect DEF Leaves
    <3>4. CASE x.op = "verifyRegistration"
      <4>1. /\ before.secret["challenge"] # None /\ before.keys[x.key] = Absent /\ x.key \in Passkeys
            /\ account = [Atomic!Without(before, "challenge") EXCEPT !.keys[x.key] = 0]
        BY <1>1, <1>3, <2>1, <3>4 DEF Progress, Placed, Atomic!Without
      <4> QED
        BY <1>2, <2>1, <3>1, <4>1, AnEffect DEF Leaves
    <3> QED
      BY <2>4, <3>2, <3>3, <3>4 DEF Enforcing
  <2> QED
    BY <2>1, <2>2, <2>3, <2>4
<1> QED
  BY <1>4, <1>5, <1>7, <1>8, <1>9

LEMMA AloneTokens ==
  ASSUME TypeInv, AloneInv, ~disturbed, NEW r \in Requests,
         \/ StoreSecret(r) \/ CodeNotSent(r) \/ Deliver(r)
         \/ FindToken(r) \/ RefusePassword(r) \/ SpendToken(r)
  PROVE  AloneInv' /\ Lawful
<1> DEFINE x == request[r]
<1>1. /\ x \in Request /\ Placed(x) /\ account \in Account /\ before \in Account
      /\ request \in [Requests -> Request] /\ "spend" \in Positions
  BY DEF TypeInv, TypeOK, Positions
<1>2. x # Idle
  <2>1. x.pc \in {"store", "deliver", "find", "spend"}
    BY DEF StoreSecret, CodeNotSent, Deliver, FindToken, RefusePassword, SpendToken
  <2>2. Idle.pc = "idle"
    BY DEF Idle
  <2> QED
    BY <2>1, <2>2
<1>3. Progress(x, before, account)
  BY <1>2 DEF AloneInv
<1>4. CASE StoreSecret(r)
  <2>1. PICK s \in Secrets \ generated :
          /\ account' = [account EXCEPT !.secret[x.kind] = s]
          /\ request' = [request EXCEPT ![r].pc = "deliver", ![r].secret = s]
          /\ before' = before /\ x.pc = "store" /\ x.op \in Asking
    BY <1>4 DEF StoreSecret
  <2> DEFINE y == [x EXCEPT !.pc = "deliver", !.secret = s]
  <2>2. /\ request'[r] = y /\ \A t \in Requests \ {r} : request'[t] = request[t]
        /\ y.op = x.op /\ y.pc = "deliver" /\ y.secret = s /\ y.kind = x.kind
    BY <1>1, <2>1 DEF Request
  <2>3. y # Idle
    BY <1>3, <2>2, IdleChangesNothing DEF Progress
  <2>4. account = before
    BY <1>3, <2>1 DEF Progress
  <2> HIDE DEF y
  <2>5. Progress(y, before, account')
    BY <1>3, <2>1, <2>2, <2>4 DEF Progress, Asking, Removing
  <2> QED
    BY <1>2, <2>1, <2>2, <2>3, <2>5, RowGoesOn DEF Lawful
<1>5. CASE CodeNotSent(r) \/ RefusePassword(r)
  <2>1. account = before
    BY <1>3, <1>5 DEF CodeNotSent, RefusePassword, Progress
  <2> QED
    BY <1>2, <1>5, <2>1, NoEffect DEF CodeNotSent, RefusePassword, Refuses, Leaves
<1>6. CASE Deliver(r)
  <2>1. /\ account = [before EXCEPT !.secret[x.kind] = x.secret] /\ account' = account /\ Ends(r)
        /\ x.kind \in Kinds /\ x.secret \in Secrets
    BY <1>1, <1>3, <1>6 DEF Deliver, Progress, Placed, Asking, Kinds
  <2> QED
    BY <1>2, <2>1, AnEffect DEF Leaves
<1>7. CASE FindToken(r)
  <2>1. account = before /\ account' = account
    BY <1>3, <1>7 DEF FindToken, Progress, Refuses
  <2>2. CASE x.secret # None /\ account.secret[x.kind] = x.secret
    <3>1. Continues(r, "spend") /\ x.op = "useToken"
      BY <1>7, <2>2 DEF FindToken
    <3>2. Progress([x EXCEPT !.pc = "spend"], before, account')
      BY <1>1, <1>3, <2>1, <2>2, <3>1 DEF Progress, Request, Enforcing, Removing
    <3> QED
      BY <1>1, <1>2, <3>1, <3>2, GoesOn
  <2>3. CASE ~(x.secret # None /\ account.secret[x.kind] = x.secret)
    BY <1>2, <1>7, <2>1, <2>3, NoEffect DEF FindToken, Refuses, Leaves
  <2> QED
    BY <2>2, <2>3
<1>8. CASE SpendToken(r)
  <2>1. /\ account = before /\ before.secret[x.kind] # None /\ x.kind \in Kinds
        /\ account' = Atomic!Without(before, x.kind) /\ Ends(r)
    BY <1>1, <1>3, <1>8 DEF SpendToken, Progress, Placed, Kinds, Atomic!Without
  <2> QED
    BY <1>2, <2>1, AnEffect DEF Leaves
<1> QED
  BY <1>4, <1>5, <1>6, <1>7, <1>8

LEMMA AlonePasskeys ==
  ASSUME TypeInv, AloneInv, ~disturbed, NEW r \in Requests,
         \/ FindChallenge(r) \/ ClearChallenge(r) \/ CreateAuthenticator(r)
         \/ FindAuthenticator(r) \/ CountUse(r)
  PROVE  AloneInv' /\ Lawful
<1> DEFINE x == request[r]
           spent == Atomic!Without(before, "challenge")
<1>1. /\ x \in Request /\ Placed(x) /\ account \in Account /\ before \in Account
      /\ request \in [Requests -> Request] /\ {"authenticator", "create", "totp"} \subseteq Positions
  BY DEF TypeInv, TypeOK, Positions
<1>2. x # Idle
  <2>1. x.pc \in {"find", "clear", "create", "authenticator", "count"}
    BY DEF FindChallenge, ClearChallenge, CreateAuthenticator, FindAuthenticator, CountUse
  <2>2. Idle.pc = "idle"
    BY DEF Idle
  <2> QED
    BY <2>1, <2>2
<1>3. Progress(x, before, account)
  BY <1>2 DEF AloneInv
<1>4. CASE FindChallenge(r)
  <2>1. account = before /\ account' = account
    BY <1>3, <1>4 DEF FindChallenge, Progress, Refuses
  <2>2. CASE account.secret["challenge"] # None
    <3> DEFINE y == [x EXCEPT !.pc = "clear", !.seen = account.secret["challenge"]]
    <3>1. /\ request'[r] = y /\ \A t \in Requests \ {r} : request'[t] = request[t]
          /\ y.op = x.op /\ y.pc = "clear" /\ before' = before /\ x.pc = "find"
      BY <1>1, <1>4, <2>2 DEF FindChallenge, Request
    <3>2. y # Idle
      BY <1>3, <3>1, IdleChangesNothing DEF Progress
    <3>3. x.op \in {"verifyRegistration", "verifyAuthentication"}
      BY <1>1, <1>4 DEF FindChallenge, Placed, Answering
    <3> HIDE DEF y
    <3>4. Progress(y, before, account')
      BY <1>3, <2>1, <2>2, <3>1, <3>3 DEF Progress, Removing
    <3> QED
      BY <1>2, <3>1, <3>2, <3>4, RowGoesOn DEF Lawful
  <2>3. CASE account.secret["challenge"] = None
    BY <1>2, <1>4, <2>1, <2>3, NoEffect DEF FindChallenge, Refuses, Leaves
  <2> QED
    BY <2>2, <2>3
<1>5. CASE ClearChallenge(r)
  <2>1. /\ account = before /\ before.secret["challenge"] # None /\ account' = spent
        /\ x.op \in {"verifyRegistration", "verifyAuthentication"}
    BY <1>1, <1>3, <1>5 DEF ClearChallenge, Progress, Placed, Atomic!Without
  <2>2. CASE Ends(r)
    BY <1>2, <2>1, <2>2, AnEffect DEF Leaves
  <2>3. ASSUME NEW pc \in {"authenticator", "create"}, Continues(r, pc),
               pc = "create" => x.op = "verifyRegistration"
        PROVE  AloneInv' /\ Lawful
    <3>1. Progress([x EXCEPT !.pc = pc], before, account')
      BY <1>1, <1>3, <2>1, <2>3 DEF Progress, Request, Removing, Atomic!Without
    <3> QED
      BY <1>1, <1>2, <2>3, <3>1, GoesOn
  <2> QED
    BY <1>5, <2>1, <2>2, <2>3 DEF ClearChallenge
<1>6. CASE CreateAuthenticator(r)
  <2>1. /\ before.secret["challenge"] # None /\ account = spent /\ x.pc = "create"
        /\ x.op = "verifyRegistration" /\ x.key \in Passkeys
    BY <1>1, <1>3, <1>6 DEF CreateAuthenticator, Progress, Placed, Atomic!Without
  <2>2. before.keys[x.key] = account.keys[x.key]
    BY <1>1, <2>1 DEF Account, Atomic!Without
  <2>3. CASE account.keys[x.key] = Absent
    <3>1. Continues(r, "totp") /\ account' = [account EXCEPT !.keys[x.key] = 0]
      BY <1>6, <2>3 DEF CreateAuthenticator
    <3>2. account' = [before EXCEPT !.secret["challenge"] = None, !.keys[x.key] = 0]
      BY <1>1, <2>1, <3>1 DEF Account, Atomic!Without
    <3>3. Progress([x EXCEPT !.pc = "totp"], before, account')
      BY <1>1, <1>3, <2>1, <2>2, <2>3, <3>2 DEF Progress, Request, Enforcing, Removing
    <3> QED
      BY <1>1, <1>2, <3>1, <3>3, GoesOn
  <2>4. CASE account.keys[x.key] # Absent
    BY <1>2, <1>6, <2>1, <2>4, AnEffect DEF CreateAuthenticator, Refuses, Leaves
  <2> QED
    BY <2>3, <2>4
<1>7. CASE FindAuthenticator(r)
  <2>1. /\ before.secret["challenge"] # None /\ account = spent /\ x.pc = "authenticator"
        /\ x.op \in {"verifyRegistration", "verifyAuthentication"} /\ x.key \in Passkeys
        /\ account' = account
    BY <1>1, <1>3, <1>7 DEF FindAuthenticator, Progress, Placed, Atomic!Without, Refuses
  <2>2. before.keys[x.key] = account.keys[x.key]
    BY <1>1, <2>1 DEF Account, Atomic!Without
  <2>3. CASE account.keys[x.key] # Absent /\ x.secret = x.seen
    <3> DEFINE y == [x EXCEPT !.pc = "count", !.seen = account.keys[x.key]]
    <3>1. /\ request'[r] = y /\ \A t \in Requests \ {r} : request'[t] = request[t]
          /\ y.op = x.op /\ y.pc = "count" /\ before' = before /\ y.seen = account.keys[x.key]
          /\ y.key = x.key
      BY <1>1, <1>7, <2>3 DEF FindAuthenticator, Request
    <3>2. y # Idle
      BY <1>3, <3>1, IdleChangesNothing DEF Progress
    <3> HIDE DEF y
    <3>3. Progress(y, before, account')
      BY <1>3, <2>1, <2>2, <2>3, <3>1 DEF Progress, Removing, Atomic!Without
    <3> QED
      BY <1>2, <3>1, <3>2, <3>3, RowGoesOn DEF Lawful
  <2>4. CASE ~(account.keys[x.key] # Absent /\ x.secret = x.seen)
    BY <1>2, <1>7, <2>1, <2>4, AnEffect DEF FindAuthenticator, Refuses, Leaves
  <2> QED
    BY <2>3, <2>4
<1>8. CASE CountUse(r)
  <2>1. /\ before.secret["challenge"] # None /\ account = spent /\ x.key \in Passkeys
        /\ x.seen = before.keys[x.key] /\ x.seen # Absent /\ Ends(r)
    BY <1>1, <1>3, <1>8 DEF CountUse, Progress, Placed, Atomic!Without
  <2>2. before.keys[x.key] = account.keys[x.key]
    BY <1>1, <2>1 DEF Account, Atomic!Without
  <2>3. account' = [spent EXCEPT !.keys[x.key] = before.keys[x.key] + 1]
    BY <1>8, <2>1, <2>2 DEF CountUse
  <2> QED
    BY <1>2, <2>1, <2>3, AnEffect DEF Leaves
<1> QED
  BY <1>4, <1>5, <1>6, <1>7, <1>8

LEMMA AloneInit == Init => AloneInv /\ Atomic!Init
<1> SUFFICES ASSUME Init PROVE AloneInv /\ Atomic!Init
  OBVIOUS
<1>1. AloneInv
  BY DEF Init, AloneInv
<1>2. Row = account
  BY DEF Init, Row
<1>3. Atomic!Init
  BY <1>2, CapableIs DEF Init, Atomic!Init, Row
<1> QED
  BY <1>1, <1>3

LEMMA AloneStep ==
  TypeInv /\ AloneInv /\ [Next]_vars =>
    AloneInv' /\ [Atomic!Next]_<<IF Quiet THEN account ELSE before, disturbed>>
<1> SUFFICES ASSUME TypeInv, AloneInv, [Next]_vars
             PROVE  AloneInv' /\ [Atomic!Next]_<<Row, disturbed>>
  BY DEF Row
<1>1. CASE UNCHANGED vars
  BY <1>1 DEF vars, AloneInv, Quiet, InFlight, Alone, Row
<1>2. CASE disturbed'
  BY <1>2 DEF AloneInv, Atomic!Next
<1>3. ASSUME NEW r \in Requests, Receive(r), ~disturbed'
      PROVE  AloneInv' /\ [Atomic!Next]_<<Row, disturbed>>
  <2>1. AloneInv' /\ Row' = Row
    BY <1>3, AloneReceive
  <2>2. disturbed' = disturbed
    BY <1>3 DEF Receive, TypeInv, TypeOK
  <2> QED
    BY <2>1, <2>2
<1>4. ASSUME NEW r \in Requests, Proceed(r), ~disturbed'
      PROVE  AloneInv' /\ [Atomic!Next]_<<Row, disturbed>>
  <2>1. disturbed' = disturbed
    BY <1>4 DEF Proceed, StoreTotp, DeleteAuthenticator, CheckTotp, CheckKeys, WriteForce, StoreSecret,
      CodeNotSent, Deliver, FindToken, RefusePassword, SpendToken, FindChallenge, ClearChallenge,
      CreateAuthenticator, FindAuthenticator, CountUse, Bystanders
  <2>2. AloneInv' /\ Lawful
    BY <1>4, <2>1, AloneFactors, AloneTokens, AlonePasskeys DEF Proceed
  <2>3. Atomic!Effect => Atomic!Next
    BY <1>4, <2>1 DEF Atomic!Next
  <2> QED
    BY <2>1, <2>2, <2>3 DEF Lawful
<1>5. \A r \in Requests : Dies(r) => disturbed'
  BY DEF Dies
<1> QED
  BY <1>1, <1>2, <1>3, <1>4, <1>5 DEF Next

(***************************************************************************)
(* As long as requests do not overlap and none dies, what AccountRequests  *)
(* does query by query is what AtomicAccount, and SignIn, do at once.      *)
(***************************************************************************)
THEOREM RequestsAreAtomic == Spec => ImplementsAtomicAccount
<1>1. Init => AloneInv /\ Atomic!Init
  BY AloneInit
<1>2. TypeInv /\ AloneInv /\ [Next]_vars =>
        AloneInv' /\ [Atomic!Next]_<<IF Quiet THEN account ELSE before, disturbed>>
  BY AloneStep
<1> QED
  BY <1>1, <1>2, TypeInit, TypeStep, PTL DEF Spec, ImplementsAtomicAccount, Atomic!Spec

=============================================================================
