----------------------- MODULE AccountRequestsProperties -----------------------
(* What AccountRequests promises, with and without overlapping requests.   *)
EXTENDS AccountRequests

(***************************************************************************)
(* Everything has its type; the account is consistent with the types of    *)
(* repositories/user.ts and repositories/authenticator.ts.                 *)
(***************************************************************************)
TypeOK ==
  /\ account \in Account /\ before \in Account
  /\ request \in [Requests -> Request]
  /\ received \in 0..MaxRequests
  /\ generated \subseteq Secrets /\ accepted \subseteq Secrets \X BOOLEAN
  /\ delivered \in [Kinds -> Secrets \cup {None}]
  /\ offered \subseteq Operations
  /\ disturbed \in BOOLEAN /\ contended \in BOOLEAN

(***************************************************************************)
(* Nobody is locked out by requests in any order, even in flight at once:  *)
(* when all have ended, an account that demands a second factor has one,   *)
(* unless a request that enforces it overlapped one that removes a factor, *)
(* or one died half-way (is2FACapable is read before force_2fa is written, *)
(* managers/2fa.ts).                                                       *)
(***************************************************************************)
LockoutNeedsContention ==
  Quiet /\ account.force /\ ~is2FACapable(account) => contended

(***************************************************************************)
(* "challenge must only be used once" (managers/webauthn.ts), and so are   *)
(* the mailed tokens: whatever else is in flight, no request is accepted   *)
(* for a secret that had been accepted before the request began.           *)
(***************************************************************************)
SecretsAreAcceptedOnce == \A s \in Secrets : <<s, TRUE>> \notin accepted

(***************************************************************************)
(* The token of the last mail of its kind works until a token of the kind  *)
(* is accepted, whatever else is in flight, unless it was being sent while *)
(* another of its kind was sent or used, or a request died: sending stores *)
(* the token before the mail leaves, using one clears whatever is stored,  *)
(* and a refused password spends nothing (managers/user.ts).               *)
(***************************************************************************)
LastMailWorks ==
  Quiet /\ ~contended =>
    \A kind \in TokenKinds :
      delivered[kind] # None /\ ~Spent(delivered[kind]) =>
        account.secret[kind] = delivered[kind]

\* While a request is in flight alone, the account is what it found.
Atomic == INSTANCE AtomicAccount WITH
  row <- IF Quiet THEN account ELSE before

(***************************************************************************)
(* As long as requests do not overlap and none dies, each of them takes    *)
(* effect at once or not at all, as one action of SignIn.                  *)
(***************************************************************************)
ImplementsAtomicAccount == Atomic!Spec
=============================================================================
