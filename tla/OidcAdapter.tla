------------------------------ MODULE OidcAdapter ------------------------------
(***************************************************************************)
(* What oidc-provider keeps in Redis of one grant: its codes, its access   *)
(* tokens and the list of both (src/repositories/redis/oidc-provider.ts),  *)
(* with the requests that store, redeem and revoke them.                   *)
(*                                                                         *)
(* A step is a command, or a transaction, of Redis: upsert reads the       *)
(* expiry of the list before its transaction, revokeByGrantId reads the    *)
(* list before its own, consume does not look whether there is a key.      *)
(***************************************************************************)
EXTENDS Integers, FiniteSets

CONSTANTS
  None,
  Codes,
  AccessTokens,
  Requests,         \* the requests that may be in flight at once
  MaxRequests,      \* bound: how many requests are received altogether
  CodeTtl,          \* lifetimes in ticks; a request takes less than two
  AccessTokenTtl

ASSUME TtlAssumption == CodeTtl \in Nat \ {0, 1} /\ AccessTokenTtl \in Nat \ {0, 1}
ASSUME RequestsAssumption == IsFiniteSet(Requests) /\ MaxRequests \in Nat

VARIABLES
  key,              \* what is stored of a token, None if nothing
  grant,            \* the list of the grant, None if there is none
  request,          \* the requests in flight
  received,         \* how many requests were received so far
  issued,           \* the tokens that have been generated
  redeemed,         \* history: how many times a code was accepted
  revoked,          \* history: the tokens stored when a revocation read the list
  exposed,          \* history: tokens stored between two commands of another request, or
                    \* after the list had moved since its expiry was read
  doubled,          \* history: the codes of which two redemptions have overlapped
  missed            \* history: a key was gone when a request wrote to it

vars == <<key, grant, request, received, issued, redeemed, revoked, exposed, doubled, missed>>

Tokens == Codes \cup AccessTokens
Lifetime(t) == IF t \in Codes THEN CodeTtl ELSE AccessTokenTtl

\* What the command TTL answers of a key that never expires, and of no key.
Forever == -1
NoKey == -2

Ttls == {Forever} \cup 1 .. (IF CodeTtl > AccessTokenTtl THEN CodeTtl ELSE AccessTokenTtl)

Key == [payload : BOOLEAN, consumed : BOOLEAN, ttl : Ttls]
Grant == [tokens : SUBSET Tokens, ttl : Ttls]

ASSUME NoneAssumption == None \notin Tokens \cup Key \cup Grant

Idle == [op |-> None, pc |-> "idle", token |-> None, ttl |-> NoKey, list |-> {},
         stored |-> {}, ticked |-> FALSE]

InFlight == {r \in Requests : request[r] # Idle}
At(pc) == {r \in Requests : request[r].pc = pc}

Usable(t) == key[t] # None /\ key[t].payload
Stored == {t \in Tokens : Usable(t)}

\* The tokens whose upsert has read the expiry of the list.
Upserted == {request[r].token : r \in At("store")}

Init ==
  /\ key = [t \in Tokens |-> None]
  /\ grant = None
  /\ request = [r \in Requests |-> Idle]
  /\ received = 0
  /\ issued = {}
  /\ redeemed = [c \in Codes |-> 0]
  /\ revoked = {}
  /\ exposed = {}
  /\ doubled = {}
  /\ missed = FALSE

-------------------------------------------------------------------------------
Ends(r) == request' = [request EXCEPT ![r] = Idle]
Goes(r, pc) == request' = [request EXCEPT ![r].pc = pc]
Bystanders == UNCHANGED <<received, doubled>>
Reads == UNCHANGED <<key, grant, redeemed, missed>>

\* A code is issued, or redeemed, or the grant is revoked by a sign-out.
Receive(r) ==
  /\ request[r] = Idle
  /\ received < MaxRequests
  /\ \E op \in {"authorize", "redeem", "revoke"} :
     \E t \in CASE op = "authorize" -> Codes \ issued
                [] op = "redeem" -> Codes \cap issued
                [] op = "revoke" -> {None} :
       LET x == [Idle EXCEPT !.op = op, !.token = t,
                  !.pc = CASE op = "authorize" -> "ttl" [] op = "redeem" -> "find"
                           [] op = "revoke" -> "list"]
       IN /\ request' = [request EXCEPT ![r] = x]
          /\ issued' = IF op = "authorize" THEN issued \cup {t} ELSE issued
          /\ doubled' = IF op = "redeem" /\ \E s \in InFlight :
                             request[s].op = "redeem" /\ request[s].token = t
                        THEN doubled \cup {t} ELSE doubled
  /\ received' = received + 1
  /\ Reads /\ UNCHANGED <<revoked, exposed>>

\* Redis does not answer: the request ends where it is.
Dies(r) ==
  /\ request[r] # Idle
  /\ Ends(r)
  /\ Reads /\ Bystanders /\ UNCHANGED <<issued, revoked, exposed>>

\* Time passes, and what has reached its end is gone.
Tick ==
  LET Older(k) == IF k = None \/ k.ttl = 1 THEN None
                  ELSE IF k.ttl = Forever THEN k ELSE [k EXCEPT !.ttl = @ - 1]
  IN
  /\ grant # None \/ \E t \in Tokens : key[t] # None
  /\ \A r \in InFlight : ~request[r].ticked
  /\ key' = [t \in Tokens |-> Older(key[t])]
  /\ grant' = Older(grant)
  /\ request' = [r \in Requests |->
       IF r \in InFlight THEN [request[r] EXCEPT !.ticked = TRUE] ELSE Idle]
  /\ exposed' = exposed \cup Upserted
  /\ Bystanders /\ UNCHANGED <<issued, redeemed, revoked, missed>>

-------------------------------------------------------------------------------
(* upsert                                                                  *)

ReadTtl(r) ==
  /\ request[r].pc = "ttl"
  /\ request' = [request EXCEPT ![r].pc = "store",
                                ![r].ttl = IF grant = None THEN NoKey ELSE grant.ttl]
  /\ Reads /\ Bystanders /\ UNCHANGED <<issued, revoked, exposed>>

\* Mistake: the list is given the lifetime of the token on top of its own.
ListProlonged(r, t) ==
  /\ grant' = [tokens |-> {t} \cup IF grant = None THEN {} ELSE grant.tokens,
               ttl |-> IF grant = None THEN Lifetime(t) ELSE grant.ttl + Lifetime(t)]
  /\ missed' = missed

\* Mistake: the list keeps the expiry of its first token.
ListOnly(r, t) ==
  /\ grant' = [tokens |-> {t} \cup IF grant = None THEN {} ELSE grant.tokens,
               ttl |-> IF grant = None THEN Lifetime(t) ELSE grant.ttl]
  /\ missed' = missed

\* Mistake: the list is given no expiry.
ListForever(r, t) ==
  /\ grant' = [tokens |-> {t} \cup IF grant = None THEN {} ELSE grant.tokens,
               ttl |-> IF grant = None THEN Forever ELSE grant.ttl]
  /\ missed' = missed

\* rpush, and expire if the token outlives the list as it was read.
AddToList(r, t) ==
  LET extends == Lifetime(t) > request[r].ttl IN
  /\ grant' = [tokens |-> {t} \cup IF grant = None THEN {} ELSE grant.tokens,
               ttl |-> IF extends THEN Lifetime(t)
                       ELSE IF grant = None THEN Forever ELSE grant.ttl]
  /\ missed' = (missed \/ (~extends /\ grant = None))

Store(r) ==
  LET t == request[r].token IN
  /\ request[r].pc = "store"
  /\ key' = [key EXCEPT ![t] = [payload |-> TRUE, consumed |-> FALSE, ttl |-> Lifetime(t)]]
  /\ AddToList(r, t)
  /\ Ends(r)
  /\ exposed' = IF At("store") \cup At("delete") = {r} THEN exposed ELSE exposed \cup Upserted
  /\ Bystanders /\ UNCHANGED <<issued, redeemed, revoked>>

-------------------------------------------------------------------------------
(* The redemption of a code by oidc-provider, with find and consume.  A    *)
(* code that was consumed revokes the grant.                               *)

Find(r) ==
  LET t == request[r].token IN
  /\ request[r].pc = "find"
  /\ IF ~Usable(t) THEN Ends(r)
     ELSE Goes(r, IF key[t].consumed THEN "list" ELSE "consume")
  /\ Reads /\ Bystanders /\ UNCHANGED <<issued, revoked, exposed>>

\* Mistake: the field is set in memory only.
ConsumeNothing(r) ==
  LET c == request[r].token IN
  /\ request[r].pc = "consume"
  /\ redeemed' = [redeemed EXCEPT ![c] = @ + 1]
  /\ \E t \in AccessTokens \ issued :
       /\ issued' = issued \cup {t}
       /\ request' = [request EXCEPT ![r].pc = "ttl", ![r].token = t]
  /\ Bystanders /\ UNCHANGED <<key, grant, revoked, exposed, missed>>

\* hset makes a key of the field alone where there is none, without expiry.
Consume(r) ==
  LET c == request[r].token IN
  /\ request[r].pc = "consume"
  /\ key' = [key EXCEPT ![c] =
       IF key[c] = None THEN [payload |-> FALSE, consumed |-> TRUE, ttl |-> Forever]
       ELSE [key[c] EXCEPT !.consumed = TRUE]]
  /\ missed' = (missed \/ key[c] = None)
  /\ redeemed' = [redeemed EXCEPT ![c] = @ + 1]
  /\ \E t \in AccessTokens \ issued :
       /\ issued' = issued \cup {t}
       /\ request' = [request EXCEPT ![r].pc = "ttl", ![r].token = t]
  /\ Bystanders /\ UNCHANGED <<grant, revoked, exposed>>

-------------------------------------------------------------------------------
(* revokeByGrantId                                                         *)

ReadList(r) ==
  /\ request[r].pc = "list"
  /\ request' = [request EXCEPT ![r].pc = "delete",
                                ![r].list = IF grant = None THEN {} ELSE grant.tokens,
                                ![r].stored = Stored]
  /\ Reads /\ Bystanders /\ UNCHANGED <<issued, revoked, exposed>>

Delete(r) ==
  LET x == request[r] IN
  /\ x.pc = "delete"
  /\ key' = [t \in Tokens |-> IF t \in x.list THEN None ELSE key[t]]
  /\ grant' = None
  /\ revoked' = revoked \cup x.stored
  /\ exposed' = exposed \cup Upserted
  /\ Ends(r)
  /\ Bystanders /\ UNCHANGED <<issued, redeemed, missed>>

-------------------------------------------------------------------------------
Proceed(r) ==
  ReadTtl(r) \/ Store(r) \/ Find(r) \/ Consume(r) \/ ReadList(r) \/ Delete(r)

Next == Tick \/ \E r \in Requests : Receive(r) \/ Dies(r) \/ Proceed(r)

\* Time passes, and a request that is in flight goes on.
Fairness == WF_vars(Tick) /\ \A r \in Requests : WF_vars(Proceed(r))

Spec == Init /\ [][Next]_vars /\ Fairness
=============================================================================
