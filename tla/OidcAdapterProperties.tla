------------------------- MODULE OidcAdapterProperties -------------------------
(* What OidcAdapter promises of the tokens of a grant.                     *)
EXTENDS OidcAdapter

(***************************************************************************)
(* Everything has its type; what is stored has one of the expiries the     *)
(* adapter gives (repositories/redis/oidc-provider.ts).                    *)
(***************************************************************************)
TypeOK ==
  /\ \A t \in Tokens : key[t] \in Key \cup {None}
  /\ grant \in Grant \cup {None}
  /\ \A r \in Requests : request[r].token \in Tokens \cup {None}
                         /\ request[r].ttl \in Ttls \cup {NoKey}
  /\ received \in 0 .. MaxRequests
  /\ issued \subseteq Tokens /\ revoked \subseteq issued
  /\ redeemed \in [Codes -> 0 .. MaxRequests]

(***************************************************************************)
(* A token that was stored when the revocation of its grant read the list  *)
(* is gone when it ends, and stays so, whatever redemption, expiry or      *)
(* other revocation it meets: the list that revokeByGrantId goes through   *)
(* outlives every token on it.  Excepted are the tokens that were stored   *)
(* between two commands of another upsert or revocation, which neither     *)
(* transaction covers, or after the list had moved whose expiry their own  *)
(* upsert had read: time passed, another upsert stored or a revocation     *)
(* deleted in between.                                                     *)
(***************************************************************************)
RevokedTokensAreGone == \A t \in revoked \ exposed : ~Usable(t)

(***************************************************************************)
(* A code is redeemed once, unless two redemptions of it overlap: find     *)
(* looks for the field that consume sets by another command.               *)
(***************************************************************************)
CodesAreRedeemedOnce == \A c \in Codes \ doubled : redeemed[c] <= 1

(***************************************************************************)
(* Nothing stays in Redis for ever, unless a request wrote to a key that   *)
(* had gone since it looked: every key and the list are given an expiry.   *)
(***************************************************************************)
EverythingExpires ==
  []<>(missed \/ (grant = None /\ \A t \in Tokens : key[t] = None))
=============================================================================
