--------------------------- MODULE OidcAdapterProofs ---------------------------
(***************************************************************************)
(* Proofs about OidcAdapter, for any codes, access tokens, lifetimes and   *)
(* number of requests in flight.                                           *)
(***************************************************************************)
EXTENDS OidcAdapterProperties, FiniteSetTheorems, TLAPS

Step == [Next]_vars

-------------------------------------------------------------------------------
(* Types, and where a request may stand with what.                         *)

RequestRecord ==
  [op : {None, "authorize", "redeem", "revoke"},
   pc : {"idle", "ttl", "store", "find", "consume", "list", "delete"},
   token : Tokens \cup {None}, ttl : Ttls \cup {NoKey},
   list : SUBSET Tokens, stored : SUBSET Tokens, ticked : BOOLEAN]

Typed ==
  /\ key \in [Tokens -> Key \cup {None}]
  /\ grant \in Grant \cup {None}
  /\ request \in [Requests -> RequestRecord]
  /\ received \in 0 .. MaxRequests
  /\ issued \subseteq Tokens
  /\ redeemed \in [Codes -> Nat]

\* The requests that are about to store t.
Storing(t) == {r \in Requests : request[r].pc \in {"ttl", "store"} /\ request[r].token = t}

\* The requests that may accept the code c.
Redeeming(c) == {r \in Requests : request[r].pc \in {"find", "consume"} /\ request[r].token = c}

Placed ==
  \A r \in Requests :
    LET x == request[r] IN
    /\ x.pc \in {"ttl", "store"} => x.token \in issued
    /\ x.pc \in {"find", "consume"} => x.op = "redeem" /\ x.token \in Codes \cap issued

TypeInv == Typed /\ Placed

LEMMA TtlFacts ==
  /\ Ttls = {Forever} \cup {n \in Nat : n > 0 /\ (n <= CodeTtl \/ n <= AccessTokenTtl)}
  /\ \A t \in Tokens : Lifetime(t) \in Ttls /\ Lifetime(t) \in Nat /\ Lifetime(t) > 1
  /\ NoKey \notin Ttls
<1>1. Ttls = {Forever} \cup {n \in Nat : n > 0 /\ (n <= CodeTtl \/ n <= AccessTokenTtl)}
  BY TtlAssumption DEF Ttls
<1> QED
  BY <1>1, TtlAssumption DEF Lifetime, Tokens, NoKey, Forever

\* What a step does, with the definitions it is made of.
Older(k) ==
  IF k = None \/ k.ttl = 1 THEN None
  ELSE IF k.ttl = Forever THEN k ELSE [k EXCEPT !.ttl = @ - 1]

LEMMA OlderIsTyped ==
  /\ \A k \in Key \cup {None} : Older(k) \in Key \cup {None}
  /\ \A g \in Grant \cup {None} : Older(g) \in Grant \cup {None}
  /\ \A g \in Grant : g.ttl # 1 => Older(g) \in Grant
<1>1. ASSUME NEW n \in Ttls, n # 1, n # Forever
      PROVE  n - 1 \in Ttls
  BY <1>1, TtlFacts, TtlAssumption
<1> QED
  BY <1>1, NoneAssumption DEF Older, Key, Grant

LEMMA IdleIsTyped == Idle \in RequestRecord
  BY DEF Idle, RequestRecord

LEMMA InitType == Init => TypeInv
  BY IdleIsTyped, RequestsAssumption DEF Init, TypeInv, Typed, Placed, Idle

-------------------------------------------------------------------------------
(* What a step does, taken apart.                                          *)

Started(op, pc, t) == [Idle EXCEPT !.op = op, !.pc = pc, !.token = t]

Starts(r, op, pc, t) == request' = [request EXCEPT ![r] = Started(op, pc, t)]

LEMMA StartedIsTyped ==
  ASSUME NEW op \in {"authorize", "redeem", "revoke"}, NEW pc \in {"ttl", "find", "list"},
         NEW t \in Tokens \cup {None}
  PROVE  /\ Started(op, pc, t) \in RequestRecord
         /\ Started(op, pc, t).op = op /\ Started(op, pc, t).pc = pc
         /\ Started(op, pc, t).token = t
BY IdleIsTyped DEF Started, Idle, RequestRecord

LEMMA Receives ==
  ASSUME NEW r \in Requests, Receive(r)
  PROVE  /\ request[r] = Idle
         /\ received < MaxRequests /\ received' = received + 1
         /\ UNCHANGED <<key, grant, redeemed, missed, revoked, exposed>>
         /\ \/ \E t \in Codes \ issued :
                 /\ Starts(r, "authorize", "ttl", t)
                 /\ issued' = issued \cup {t} /\ doubled' = doubled
            \/ \E t \in Codes \cap issued :
                 /\ Starts(r, "redeem", "find", t)
                 /\ issued' = issued
                 /\ doubled' = IF \E s \in InFlight :
                                    request[s].op = "redeem" /\ request[s].token = t
                               THEN doubled \cup {t} ELSE doubled
            \/ /\ Starts(r, "revoke", "list", None)
               /\ issued' = issued /\ doubled' = doubled
<1>1. /\ request[r] = Idle
      /\ received < MaxRequests /\ received' = received + 1
      /\ UNCHANGED <<key, grant, redeemed, missed, revoked, exposed>>
  BY DEF Receive, Reads
<1>2. PICK op \in {"authorize", "redeem", "revoke"} :
      \E t \in CASE op = "authorize" -> Codes \ issued
                 [] op = "redeem" -> Codes \cap issued
                 [] op = "revoke" -> {None} :
       LET x == [Idle EXCEPT !.op = op, !.token = t,
                  !.pc = CASE op = "authorize" -> "ttl" [] op = "redeem" -> "find"
                           [] op = "revoke" -> "list"]
       IN /\ request' = [request EXCEPT ![r] = x]
          /\ issued' = IF op = "authorize" THEN issued \cup {t} ELSE issued
          /\ doubled' = IF op = "redeem" /\ \E s \in InFlight :
                             request[s].op = "redeem" /\ request[s].token = t
                        THEN doubled \cup {t} ELSE doubled
  BY DEF Receive
<1>3. CASE op = "authorize"
  BY <1>1, <1>2, <1>3 DEF Starts, Started, Idle
<1>4. CASE op = "redeem"
  BY <1>1, <1>2, <1>4 DEF Starts, Started, Idle
<1>5. CASE op = "revoke"
  BY <1>1, <1>2, <1>5 DEF Starts, Started, Idle
<1> QED
  BY <1>3, <1>4, <1>5

LEMMA ReceiveType ==
  ASSUME TypeInv, NEW r \in Requests, Receive(r)
  PROVE  TypeInv'
<1>1. received' \in 0 .. MaxRequests
  BY Receives, RequestsAssumption DEF TypeInv, Typed
<1>2. ASSUME NEW t \in Codes \ issued, Starts(r, "authorize", "ttl", t), issued' = issued \cup {t}
      PROVE  TypeInv'
  <2> DEFINE x == Started("authorize", "ttl", t)
  <2>1. x \in RequestRecord /\ x.op = "authorize" /\ x.pc = "ttl" /\ x.token = t
    BY StartedIsTyped DEF Tokens
  <2>2. request' = [request EXCEPT ![r] = x]
    BY <1>2 DEF Starts
  <2>3. UNCHANGED <<key, grant, redeemed>>
    BY Receives
  <2> HIDE DEF x
  <2>4. Typed'
    BY <1>1, <1>2, <2>1, <2>2, <2>3 DEF TypeInv, Typed, Tokens
  <2>5. Placed'
    BY <1>2, <2>1, <2>2 DEF TypeInv, Typed, Placed
  <2> QED
    BY <2>4, <2>5 DEF TypeInv
<1>3. ASSUME NEW t \in Codes \cap issued, Starts(r, "redeem", "find", t), issued' = issued
      PROVE  TypeInv'
  <2> DEFINE x == Started("redeem", "find", t)
  <2>1. x \in RequestRecord /\ x.op = "redeem" /\ x.pc = "find" /\ x.token = t
    BY StartedIsTyped DEF Tokens
  <2>2. request' = [request EXCEPT ![r] = x]
    BY <1>3 DEF Starts
  <2>3. UNCHANGED <<key, grant, redeemed>>
    BY Receives
  <2> HIDE DEF x
  <2>4. Typed'
    BY <1>1, <1>3, <2>1, <2>2, <2>3 DEF TypeInv, Typed, Tokens
  <2>5. Placed'
    BY <1>3, <2>1, <2>2 DEF TypeInv, Typed, Placed
  <2> QED
    BY <2>4, <2>5 DEF TypeInv
<1>4. ASSUME Starts(r, "revoke", "list", None), issued' = issued
      PROVE  TypeInv'
  BY <1>1, <1>4, Receives, StartedIsTyped DEF TypeInv, Typed, Placed, Starts
<1> QED
  BY <1>2, <1>3, <1>4, Receives

LEMMA TickType ==
  ASSUME TypeInv, Tick
  PROVE  TypeInv'
<1>1. key' \in [Tokens -> Key \cup {None}] /\ grant' \in Grant \cup {None}
  BY OlderIsTyped DEF Tick, Older, TypeInv, Typed
<1>2. /\ request' \in [Requests -> RequestRecord]
      /\ \A r \in Requests : request'[r].pc = request[r].pc /\ request'[r].op = request[r].op
                             /\ request'[r].token = request[r].token
  BY IdleIsTyped DEF Tick, InFlight, TypeInv, Typed, RequestRecord
<1>3. UNCHANGED <<received, issued, redeemed>>
  BY DEF Tick, Bystanders
<1> QED
  BY <1>1, <1>2, <1>3 DEF TypeInv, Typed, Placed

LEMMA ProceedType ==
  ASSUME TypeInv, NEW r \in Requests, Proceed(r) \/ Dies(r)
  PROVE  TypeInv'
<1>1. request[r] \in RequestRecord
  BY DEF TypeInv, Typed
<1>2. CASE Dies(r)
  BY <1>2, IdleIsTyped DEF Dies, Ends, Idle, Reads, Bystanders, TypeInv, Typed, Placed
<1>3. CASE ReadTtl(r)
  <2>1. (IF grant = None THEN NoKey ELSE grant.ttl) \in Ttls \cup {NoKey}
    BY DEF TypeInv, Typed, Grant
  <2>2. request' \in [Requests -> RequestRecord]
    BY <1>1, <1>3, <2>1 DEF ReadTtl, TypeInv, Typed, RequestRecord
  <2> QED
    BY <1>3, <2>2 DEF ReadTtl, Reads, Bystanders, TypeInv, Typed, Placed
<1>4. CASE Store(r)
  <2> DEFINE t == request[r].token
  <2>1. t \in Tokens /\ Lifetime(t) \in Ttls
    BY <1>4, TtlFacts DEF Store, TypeInv, Typed, Placed
  <2>2. key' \in [Tokens -> Key \cup {None}]
    BY <1>4, <2>1 DEF Store, TypeInv, Typed, Key
  <2>3. grant' \in Grant
    BY <1>4, <2>1 DEF Store, AddToList, TypeInv, Typed, Grant, Ttls
  <2> QED
    BY <1>4, <2>2, <2>3, IdleIsTyped DEF Store, Ends, Idle, Bystanders, TypeInv, Typed, Placed
<1>5. CASE Find(r)
  <2>1. \/ request' = [request EXCEPT ![r] = Idle]
        \/ \E pc \in {"list", "consume"} : request' = [request EXCEPT ![r].pc = pc]
    BY <1>5 DEF Find, Ends, Goes
  <2>2. request' \in [Requests -> RequestRecord]
    BY <1>1, <2>1, IdleIsTyped DEF TypeInv, Typed, RequestRecord
  <2>3. UNCHANGED <<key, grant, received, issued, redeemed>>
    BY <1>5 DEF Find, Reads, Bystanders
  <2>4. \/ request' = [request EXCEPT ![r] = Idle]
        \/ request' = [request EXCEPT ![r].pc = "list"]
        \/ request[r].pc = "find" /\ request' = [request EXCEPT ![r].pc = "consume"]
    BY <1>5, <2>1 DEF Find
  <2>5. Placed'
    BY <1>1, <2>3, <2>4 DEF Idle, TypeInv, Typed, Placed, RequestRecord
  <2> QED
    BY <2>2, <2>3, <2>5 DEF TypeInv, Typed
<1>6. CASE Consume(r)
  <2> DEFINE c == request[r].token
  <2>1. c \in Codes /\ c \in Tokens
    BY <1>6 DEF Consume, TypeInv, Placed, Tokens
  <2>2. key' \in [Tokens -> Key \cup {None}]
    <3> DEFINE k == IF key[c] = None THEN [payload |-> FALSE, consumed |-> TRUE, ttl |-> Forever]
                    ELSE [key[c] EXCEPT !.consumed = TRUE]
    <3>1. k \in Key
      BY <2>1, TtlFacts DEF TypeInv, Typed, Key
    <3>2. key' = [key EXCEPT ![c] = k]
      BY <1>6 DEF Consume
    <3> HIDE DEF k, c
    <3> QED
      BY <2>1, <3>1, <3>2 DEF TypeInv, Typed
  <2>3. PICK t \in AccessTokens \ issued :
          issued' = issued \cup {t} /\ request' = [request EXCEPT ![r].pc = "ttl", ![r].token = t]
    BY <1>6 DEF Consume
  <2>4. request' \in [Requests -> RequestRecord] /\ issued' \subseteq Tokens
    BY <1>1, <2>3 DEF TypeInv, Typed, RequestRecord, Tokens
  <2>5. redeemed' \in [Codes -> Nat]
    BY <1>6, <2>1 DEF Consume, TypeInv, Typed
  <2>6. Placed'
    BY <1>1, <2>3 DEF TypeInv, Typed, Placed, RequestRecord
  <2> QED
    BY <1>6, <2>2, <2>3, <2>4, <2>5, <2>6 DEF Consume, Bystanders, TypeInv, Typed
<1>7. CASE ReadList(r)
  <2>1. (IF grant = None THEN {} ELSE grant.tokens) \subseteq Tokens
    BY DEF TypeInv, Typed, Grant
  <2>2. request' \in [Requests -> RequestRecord]
    BY <1>1, <1>7, <2>1 DEF ReadList, Stored, TypeInv, Typed, RequestRecord
  <2> QED
    BY <1>7, <2>2 DEF ReadList, Reads, Bystanders, TypeInv, Typed, Placed
<1>8. CASE Delete(r)
  BY <1>8, IdleIsTyped DEF Delete, Ends, Idle, Bystanders, TypeInv, Typed, Placed
<1> QED
  BY <1>2, <1>3, <1>4, <1>5, <1>6, <1>7, <1>8 DEF Proceed

LEMMA NextType ==
  ASSUME TypeInv, Step
  PROVE  TypeInv'
<1>1. CASE UNCHANGED vars
  BY <1>1 DEF vars, TypeInv, Typed, Placed
<1> QED
  BY <1>1, ReceiveType, TickType, ProceedType DEF Step, Next

-------------------------------------------------------------------------------
(* A token is stored once, before it is found.                             *)

Fresh ==
  /\ \A r, s \in Requests :
       /\ request[r].pc \in {"ttl", "store"} /\ request[s].pc \in {"ttl", "store"}
       /\ request[r].token = request[s].token
       => r = s
  /\ \A t \in Tokens : Usable(t) => t \in issued
  /\ \A r, s \in Requests : request[r].pc \in {"ttl", "store"} =>
       /\ ~Usable(request[r].token)
       /\ request[r].token \notin revoked
       /\ request[s].pc = "delete" => request[r].token \notin request[s].stored
       /\ request[s].pc = "consume" => request[r].token # request[s].token
       /\ request[r].token \in Codes => redeemed[request[r].token] = 0
  /\ revoked \subseteq issued
  /\ \A r \in Requests : request[r].pc = "delete" => request[r].stored \subseteq issued
  /\ \A c \in Codes : redeemed[c] > 0 => c \in issued

LEMMA InitFresh == Init => Fresh
  BY DEF Init, Fresh, Idle, Usable

LEMMA ReceiveFresh ==
  ASSUME TypeInv, Fresh, NEW r \in Requests, Receive(r)
  PROVE  Fresh'
<1>1. UNCHANGED <<key, redeemed, revoked>>
  BY Receives
<1>2. ASSUME NEW t \in Codes \ issued, Starts(r, "authorize", "ttl", t), issued' = issued \cup {t}
      PROVE  Fresh'
  <2> DEFINE x == Started("authorize", "ttl", t)
  <2>1. x \in RequestRecord /\ x.pc = "ttl" /\ x.token = t
    BY StartedIsTyped DEF Tokens
  <2>2. request' = [request EXCEPT ![r] = x]
    BY <1>2 DEF Starts
  <2> HIDE DEF x
  <2>3. \A s \in Requests : request'[s] = IF s = r THEN x ELSE request[s]
    BY <2>2 DEF TypeInv, Typed
  <2>4. t \in Tokens /\ ~Usable(t) /\ t \notin revoked /\ redeemed[t] = 0
    BY DEF Tokens, Fresh, TypeInv, Typed
  <2>5. \A s \in Requests :
          /\ request[s].pc \in {"ttl", "store"} => request[s].token # t
          /\ request[s].pc = "delete" => t \notin request[s].stored
          /\ request[s].pc = "consume" => request[s].token # t
    BY DEF TypeInv, Placed, Fresh
  <2> QED
    BY <1>1, <1>2, <2>1, <2>3, <2>4, <2>5 DEF Fresh, Usable
<1>3. ASSUME NEW x \in RequestRecord, request' = [request EXCEPT ![r] = x], issued' = issued,
             x.pc \in {"find", "list"}
      PROVE  Fresh'
  <2>1. \A s \in Requests : request'[s] = IF s = r THEN x ELSE request[s]
    BY <1>3 DEF TypeInv, Typed
  <2> QED
    BY <1>1, <1>3, <2>1 DEF Fresh, Usable
<1>4. ASSUME NEW op \in {"redeem", "revoke"}, NEW pc \in {"find", "list"},
             NEW t \in Tokens \cup {None}, Starts(r, op, pc, t), issued' = issued
      PROVE  Fresh'
  <2>1. Started(op, pc, t) \in RequestRecord /\ Started(op, pc, t).pc = pc
    BY StartedIsTyped
  <2> QED
    BY <1>3, <1>4, <2>1 DEF Starts
<1> QED
  BY <1>2, <1>4, Receives DEF Tokens

LEMMA UsableLater ==
  ASSUME TypeInv, NEW t \in Tokens, Tick, Usable(t)'
  PROVE  Usable(t)
BY DEF Tick, Usable, TypeInv, Typed, Key

LEMMA TickFresh ==
  ASSUME TypeInv, Fresh, Tick
  PROVE  Fresh'
<1>1. \A r \in Requests :
        /\ request'[r].pc = request[r].pc /\ request'[r].token = request[r].token
        /\ request'[r].stored = request[r].stored
  BY DEF Tick, InFlight, TypeInv, Typed, RequestRecord
<1>2. UNCHANGED <<issued, redeemed, revoked>>
  BY DEF Tick
<1>3. \A t \in Tokens : Usable(t)' => Usable(t)
  BY UsableLater
<1>4. \A r \in Requests : request[r].pc \in {"ttl", "store"} => request[r].token \in Tokens
  BY DEF TypeInv, Typed, Placed
<1> QED
  BY <1>1, <1>2, <1>3, <1>4 DEF Fresh

\* A code that is consumed is no more usable than it was.
LEMMA ConsumeKeeps ==
  ASSUME TypeInv, NEW r \in Requests, Consume(r), NEW t \in Tokens, Usable(t)'
  PROVE  /\ Usable(t) /\ key'[t].ttl = key[t].ttl
         /\ key[t].consumed => key'[t].consumed
         /\ t = request[r].token => key'[t].consumed
<1> DEFINE c == request[r].token
           k == IF key[c] = None THEN [payload |-> FALSE, consumed |-> TRUE, ttl |-> Forever]
                ELSE [key[c] EXCEPT !.consumed = TRUE]
<1>1. c \in Tokens /\ key' = [key EXCEPT ![c] = k]
  BY DEF Consume, TypeInv, Placed, Tokens
<1>2. /\ k # None /\ k.consumed
      /\ k.payload <=> key[c] # None /\ key[c].payload
      /\ key[c] # None => k.ttl = key[c].ttl
  <2>1. k \in Key
    BY <1>1, TtlFacts DEF TypeInv, Typed, Key
  <2>2. k # None
    BY <2>1, NoneAssumption
  <2> QED
    BY <1>1, <2>2 DEF TypeInv, Typed, Key
<1> HIDE DEF c, k
<1>3. key'[t] = IF t = c THEN k ELSE key[t]
  BY <1>1 DEF TypeInv, Typed
<1> QED
  BY <1>2, <1>3 DEF Usable, c

LEMMA ProceedFresh ==
  ASSUME TypeInv, Fresh, NEW r \in Requests, Proceed(r) \/ Dies(r)
  PROVE  Fresh'
<1>1. request[r] \in RequestRecord
  BY DEF TypeInv, Typed
<1>2. \A s \in Requests : request[s].pc \in {"ttl", "store"} => request[s].token \in Tokens
  BY DEF TypeInv, Typed, Placed
<1>3. ASSUME request' = [request EXCEPT ![r] = Idle]
      PROVE  \A s \in Requests : request'[s] = IF s = r THEN Idle ELSE request[s]
  BY <1>3 DEF TypeInv, Typed
<1>4. CASE Dies(r)
  BY <1>3, <1>4 DEF Dies, Ends, Idle, Reads, Fresh, Usable
<1>5. CASE ReadTtl(r)
  BY <1>1, <1>5 DEF ReadTtl, Reads, Fresh, Usable, TypeInv, Typed, RequestRecord
<1>6. CASE Store(r)
  <2> DEFINE t == request[r].token
  <2>1. t \in issued /\ t \in Tokens
    BY <1>6 DEF Store, TypeInv, Typed, Placed
  <2>2. \A u \in Tokens \ {t} : Usable(u)' = Usable(u)
    BY <1>6, <2>1 DEF Store, Usable, TypeInv, Typed
  <2>3. request' = [request EXCEPT ![r] = Idle] /\ UNCHANGED <<issued, redeemed, revoked>>
    BY <1>6 DEF Store, Ends
  <2>4. \A s \in Requests \ {r} : request[s].pc \in {"ttl", "store"} => request[s].token # t
    BY <1>6 DEF Store, Fresh
  <2> HIDE DEF t
  <2> QED
    BY <1>2, <1>3, <2>1, <2>2, <2>3, <2>4 DEF Fresh, Idle
<1>7. CASE Find(r)
  <2>1. UNCHANGED <<key, issued, redeemed, revoked>>
    BY <1>7 DEF Find, Reads
  <2>2. CASE ~Usable(request[r].token)
    BY <1>3, <1>7, <2>1, <2>2 DEF Find, Ends, Idle, Fresh, Usable
  <2>3. CASE Usable(request[r].token)
    <3>1. \E pc \in {"list", "consume"} : request' = [request EXCEPT ![r].pc = pc]
      BY <1>7, <2>3 DEF Find, Goes
    <3>2. \A s \in Requests : request[s].pc \in {"ttl", "store"} =>
            request[s].token # request[r].token
      BY <2>3 DEF Fresh
    <3> QED
      BY <1>1, <2>1, <3>1, <3>2 DEF Fresh, Usable, TypeInv, Typed, RequestRecord
  <2> QED
    BY <2>2, <2>3
<1>8. CASE Consume(r)
  <2> DEFINE c == request[r].token
  <2>1. c \in Codes /\ c \in Tokens /\ c \in issued /\ request[r].pc = "consume"
    BY <1>8 DEF Consume, TypeInv, Placed, Tokens
  <2>2. \A u \in Tokens : Usable(u)' => Usable(u)
    BY ConsumeKeeps, <1>8
  <2>3. redeemed' = [redeemed EXCEPT ![c] = @ + 1] /\ UNCHANGED revoked
    BY <1>8 DEF Consume
  <2>4. PICK t \in AccessTokens \ issued :
          issued' = issued \cup {t} /\ request' = [request EXCEPT ![r].pc = "ttl", ![r].token = t]
    BY <1>8 DEF Consume
  <2>5. \A s \in Requests :
          /\ s # r => request'[s] = request[s]
          /\ request'[r].pc = "ttl" /\ request'[r].token = t
    BY <1>1, <2>4 DEF TypeInv, Typed, RequestRecord
  <2>6. /\ t \in Tokens /\ ~Usable(t) /\ t \notin revoked /\ t # c
        /\ t \in Codes => redeemed[t] = 0
    BY <2>1 DEF Tokens, Fresh, TypeInv, Typed
  <2>7. \A s \in Requests :
          /\ request[s].pc \in {"ttl", "store"} => request[s].token # t /\ request[s].token # c
          /\ request[s].pc = "delete" => t \notin request[s].stored
          /\ request[s].pc = "consume" => request[s].token # t
    BY <2>1 DEF TypeInv, Placed, Fresh
  <2> HIDE DEF c
  <2>8. \A d \in Codes : d # c => redeemed'[d] = redeemed[d]
    BY <2>3 DEF TypeInv, Typed
  <2>9. \A s, q \in Requests : request'[s].pc \in {"ttl", "store"} =>
          /\ \A u \in Tokens : u = request'[s].token => ~Usable(u)'
          /\ request'[s].token \notin revoked'
          /\ request'[q].pc = "delete" => request'[s].token \notin request'[q].stored
          /\ request'[q].pc = "consume" => request'[s].token # request'[q].token
          /\ request'[s].token \in Codes => redeemed'[request'[s].token] = 0
    BY <1>2, <2>2, <2>3, <2>5, <2>6, <2>7, <2>8 DEF Fresh
  <2>10. \A s, q \in Requests :
          /\ request'[s].pc \in {"ttl", "store"} /\ request'[q].pc \in {"ttl", "store"}
          /\ request'[s].token = request'[q].token
          => s = q
    BY <2>5, <2>7 DEF Fresh
  <2>11. \A s \in Requests :
           /\ request'[s].pc \in {"ttl", "store"} => request'[s].token \in Tokens
           /\ request'[s].pc = "delete" => request'[s].stored \subseteq issued'
    BY <1>2, <2>4, <2>5, <2>6 DEF Fresh
  <2>12. \A d \in Codes : redeemed'[d] > 0 => d \in issued'
    BY <2>1, <2>4, <2>8 DEF Fresh
  <2> QED
    BY <2>2, <2>3, <2>4, <2>9, <2>10, <2>11, <2>12 DEF Fresh
<1>9. CASE ReadList(r)
  <2>1. UNCHANGED <<key, issued, redeemed, revoked>>
    BY <1>9 DEF ReadList, Reads
  <2>2. \A s \in Requests :
          /\ s # r => request'[s] = request[s]
          /\ request'[r].pc = "delete" /\ request'[r].stored = Stored
    BY <1>1, <1>9 DEF ReadList, TypeInv, Typed, RequestRecord
  <2>3. Stored \subseteq issued
        /\ \A s \in Requests : request[s].pc \in {"ttl", "store"} => request[s].token \notin Stored
    BY DEF Stored, Fresh
  <2> QED
    BY <2>1, <2>2, <2>3 DEF Fresh, Usable
<1>10. CASE Delete(r)
  <2>1. request' = [request EXCEPT ![r] = Idle] /\ request[r].pc = "delete"
        /\ revoked' = revoked \cup request[r].stored /\ UNCHANGED <<issued, redeemed>>
    BY <1>10 DEF Delete, Ends
  <2>2. \A u \in Tokens : Usable(u)' => Usable(u)
    BY <1>10 DEF Delete, Usable
  <2> QED
    BY <1>2, <1>3, <2>1, <2>2 DEF Fresh, Idle
<1> QED
  BY <1>4, <1>5, <1>6, <1>7, <1>8, <1>9, <1>10 DEF Proceed

LEMMA NextFresh ==
  ASSUME TypeInv, Fresh, Step
  PROVE  Fresh'
<1>1. CASE UNCHANGED vars
  BY <1>1 DEF vars, Fresh, Usable
<1> QED
  BY <1>1, ReceiveFresh, TickFresh, ProceedFresh DEF Step, Next

-------------------------------------------------------------------------------
(* The list outlives the tokens on it that are not excepted.               *)

Covered(t) == Usable(t) /\ t \notin exposed

Lists ==
  /\ \A t \in Tokens : Covered(t) =>
       /\ grant # None /\ t \in grant.tokens
       /\ key[t].ttl >= 1 /\ key[t].ttl <= grant.ttl
  /\ \A r \in Requests : request[r].pc = "store" =>
       /\ request[r].token \notin exposed =>
            request[r].ttl = IF grant = None THEN NoKey ELSE grant.ttl
       /\ \A t \in Tokens : Covered(t) => key[t].ttl <= request[r].ttl
  /\ \A r \in Requests, t \in Tokens :
       request[r].pc = "delete" /\ Covered(t) => t \in request[r].list
  /\ \A t \in revoked : t \notin exposed => ~Usable(t)

LEMMA InitLists == Init => Lists
  BY DEF Init, Lists, Covered, Usable, Idle

\* A step that stores nothing, and leaves the list and its readers as they are.
LEMMA QuietLists ==
  ASSUME Lists, UNCHANGED <<grant, revoked>>, exposed \subseteq exposed',
         \A t \in Tokens : Usable(t)' => Usable(t) /\ key'[t].ttl = key[t].ttl,
         revoked \subseteq Tokens,
         \A r \in Requests :
           /\ request'[r].pc = "store" => request'[r] = request[r]
           /\ request'[r].pc = "delete" => request'[r] = request[r]
  PROVE  Lists'
<1>1. \A t \in Tokens : Covered(t)' => Covered(t) /\ key'[t].ttl = key[t].ttl
  BY DEF Covered
<1> QED
  BY <1>1 DEF Lists
 
LEMMA OlderKey ==
  ASSUME NEW k \in Key \cup Grant, Older(k) # None
  PROVE  /\ k.ttl # 1
         /\ k.ttl # Forever => Older(k).ttl = k.ttl - 1
         /\ k.ttl = Forever => Older(k).ttl = Forever
         /\ k \in Key => Older(k).payload = k.payload
         /\ k \in Grant => Older(k).tokens = k.tokens
BY DEF Older, Key, Grant

LEMMA TickLists ==
  ASSUME TypeInv, Fresh, Lists, Tick
  PROVE  Lists'
<1>1. /\ \A t \in Tokens : key'[t] = Older(key[t])
      /\ grant' = Older(grant)
      /\ exposed' = exposed \cup Upserted /\ UNCHANGED revoked
  BY DEF Tick, Older
<1>2. \A r \in Requests :
        /\ request'[r].pc = request[r].pc /\ request'[r].token = request[r].token
        /\ request'[r].ttl = request[r].ttl /\ request'[r].list = request[r].list
  BY DEF Tick, InFlight, TypeInv, Typed, RequestRecord
<1>3. ASSUME NEW t \in Tokens, Usable(t)'
      PROVE  Usable(t) /\ key[t] \in Key /\ key[t].ttl # 1
             /\ (key[t].ttl # Forever => key'[t].ttl = key[t].ttl - 1)
  <2>1. key[t] \in Key
    BY <1>1, <1>3 DEF Older, Usable, TypeInv, Typed
  <2> QED
    BY <1>1, <1>3, <2>1, OlderKey, UsableLater DEF Usable
<1>4. ASSUME NEW t \in Tokens, Covered(t)'
      PROVE  /\ Covered(t) /\ key[t].ttl \in Nat /\ key[t].ttl > 1
             /\ key'[t].ttl = key[t].ttl - 1
  <2>1. Covered(t) /\ key[t].ttl >= 1
    BY <1>1, <1>3, <1>4 DEF Covered, Lists
  <2>2. key[t].ttl \in Ttls
    BY <1>3, <1>4 DEF Covered, Key
  <2> QED
    BY <1>3, <1>4, <2>1, <2>2, TtlFacts DEF Covered, Forever
<1>5. ASSUME NEW t \in Tokens, Covered(t)'
      PROVE  /\ grant' # None /\ t \in grant'.tokens
             /\ key'[t].ttl >= 1 /\ key'[t].ttl <= grant'.ttl
  <2>1. grant # None /\ t \in grant.tokens /\ key[t].ttl <= grant.ttl
    BY <1>4, <1>5 DEF Lists
  <2>2. grant \in Grant /\ grant.ttl \in Nat /\ grant.ttl > 1
    BY <1>4, <1>5, <2>1, TtlFacts DEF TypeInv, Typed, Grant, Forever
  <2>3. Older(grant) = [grant EXCEPT !.ttl = @ - 1]
    BY <2>1, <2>2 DEF Older, Forever
  <2>4. grant'.tokens = grant.tokens /\ grant'.ttl = grant.ttl - 1
    BY <1>1, <2>2, <2>3 DEF Grant
  <2>5. grant' # None
    BY <1>1, <2>2, NoneAssumption, OlderIsTyped
  <2>6. key[t].ttl \in Nat /\ key[t].ttl > 1 /\ key'[t].ttl = key[t].ttl - 1
    BY <1>4, <1>5
  <2> QED
    BY <2>1, <2>2, <2>4, <2>5, <2>6
<1>6. ASSUME NEW r \in Requests, request'[r].pc = "store"
      PROVE  /\ request'[r].token \in exposed'
             /\ \A t \in Tokens : Covered(t)' => key'[t].ttl <= request'[r].ttl
  <2>1. request[r].token \in Upserted
    BY <1>2, <1>6 DEF Upserted, At
  <2>2. request[r].ttl \in Int
    BY TtlFacts DEF TypeInv, Typed, RequestRecord, NoKey, Forever
  <2> QED
    BY <1>1, <1>2, <1>4, <1>6, <2>1, <2>2 DEF Lists
<1>7. \A t \in revoked' : t \notin exposed' => ~Usable(t)'
  <2>1. revoked \subseteq Tokens
    BY DEF Fresh, TypeInv, Typed
  <2> QED
    BY <1>1, <1>3, <2>1 DEF Lists
<1> QED
  BY <1>2, <1>4, <1>5, <1>6, <1>7 DEF Lists

LEMMA StoreLists ==
  ASSUME TypeInv, Fresh, Lists, NEW r \in Requests, Store(r)
  PROVE  Lists'
<1> DEFINE t == request[r].token
           extends == Lifetime(t) > request[r].ttl
<1>1. t \in Tokens /\ request[r].pc = "store" /\ Lifetime(t) \in Nat /\ Lifetime(t) > 1
      /\ request[r].ttl \in Int
  BY TtlFacts DEF Store, TypeInv, Typed, Placed, RequestRecord, NoKey, Forever
<1>2. /\ key' = [key EXCEPT ![t] = [payload |-> TRUE, consumed |-> FALSE, ttl |-> Lifetime(t)]]
      /\ grant' = [tokens |-> {t} \cup IF grant = None THEN {} ELSE grant.tokens,
                   ttl |-> IF extends THEN Lifetime(t)
                           ELSE IF grant = None THEN Forever ELSE grant.ttl]
      /\ request' = [request EXCEPT ![r] = Idle]
      /\ exposed' = IF At("store") \cup At("delete") = {r} THEN exposed ELSE exposed \cup Upserted
      /\ UNCHANGED revoked
  BY DEF Store, AddToList, Ends
<1>3. grant' # None
  <2>1. grant' \in Grant
    BY <1>1, <1>2, TtlFacts DEF Grant, TypeInv, Typed
  <2> QED
    BY <2>1, NoneAssumption
<1>4. \A s \in Requests : request'[s] = IF s = r THEN Idle ELSE request[s]
  BY <1>2 DEF TypeInv, Typed
<1>5. t \in Upserted /\ \A s \in Requests : request[s].pc = "store" => request[s].token \in Upserted
  BY <1>1 DEF Upserted, At
<1> HIDE DEF t, extends
<1>6. \A u \in Tokens : u # t => key'[u] = key[u] /\ (Covered(u)' => Covered(u))
  BY <1>1, <1>2 DEF Covered, Usable, TypeInv, Typed
<1>7. key'[t].ttl = Lifetime(t)
  BY <1>1, <1>2 DEF TypeInv, Typed
<1>8. ASSUME NEW u \in Tokens, u # t, Covered(u)
      PROVE  grant # None /\ u \in grant'.tokens /\ key[u].ttl >= 1 /\ key[u].ttl <= grant'.ttl
  <2>1. grant # None /\ u \in grant.tokens /\ key[u].ttl >= 1 /\ key[u].ttl <= grant.ttl
        /\ key[u].ttl <= request[r].ttl
    BY <1>1, <1>8 DEF Lists
  <2>2. key[u].ttl \in Int
    BY <1>8, TtlFacts DEF Covered, Usable, TypeInv, Typed, Key, Forever
  <2> QED
    BY <1>1, <1>2, <2>1, <2>2 DEF extends
<1>9. ASSUME t \notin exposed'
      PROVE  /\ t \in grant'.tokens /\ Lifetime(t) <= grant'.ttl
             /\ \A s \in Requests : s # r => request[s].pc \notin {"store", "delete"}
  <2>1. t \notin exposed /\ At("store") \cup At("delete") = {r}
    BY <1>2, <1>5, <1>9
  <2>2. request[r].ttl = IF grant = None THEN NoKey ELSE grant.ttl
    BY <1>1, <2>1 DEF Lists, t
  <2>3. Lifetime(t) <= grant'.ttl
    BY <1>1, <1>2, <2>2 DEF extends, NoKey
  <2> QED
    BY <1>2, <2>1, <2>3 DEF At
<1>10. \A u \in Tokens : Covered(u)' =>
         u \in grant'.tokens /\ key'[u].ttl >= 1 /\ key'[u].ttl <= grant'.ttl
  BY <1>1, <1>6, <1>7, <1>8, <1>9 DEF Covered
<1>11. ASSUME NEW s \in Requests, request'[s].pc = "store"
       PROVE  /\ request'[s].token \in exposed'
              /\ \A u \in Tokens : Covered(u)' => key'[u].ttl <= request'[s].ttl
  <2>1. s # r /\ request'[s] = request[s]
    BY <1>4, <1>11 DEF Idle
  <2>2. exposed' = exposed \cup Upserted
    BY <1>2, <1>11, <2>1 DEF At
  <2>3. t \in exposed' /\ request[s].token \in exposed'
    BY <1>5, <1>11, <2>1, <2>2
  <2> QED
    BY <1>6, <1>11, <2>1, <2>3 DEF Lists, Covered
<1>12. ASSUME NEW s \in Requests, request'[s].pc = "delete", NEW u \in Tokens, Covered(u)'
       PROVE  u \in request'[s].list
  <2>1. s # r /\ request'[s] = request[s]
    BY <1>4, <1>12 DEF Idle
  <2>2. u # t
    BY <1>9, <1>12, <2>1 DEF Covered
  <2> QED
    BY <1>6, <1>12, <2>1, <2>2 DEF Lists
<1>13. \A u \in revoked' : u \notin exposed' => ~Usable(u)'
  <2>1. t \notin revoked /\ revoked \subseteq Tokens /\ exposed \subseteq exposed'
    BY <1>1, <1>2 DEF Fresh, TypeInv, Typed, t
  <2> QED
    BY <1>2, <1>6, <2>1 DEF Lists, Usable
<1> QED
  BY <1>3, <1>10, <1>11, <1>12, <1>13 DEF Lists

LEMMA ProceedLists ==
  ASSUME TypeInv, Fresh, Lists, NEW r \in Requests, Proceed(r) \/ Dies(r) \/ Receive(r)
  PROVE  Lists'
<1>1. request[r] \in RequestRecord /\ revoked \subseteq Tokens
  BY DEF TypeInv, Typed, Fresh
<1>2. ASSUME UNCHANGED <<key, grant, revoked, exposed>>,
             NEW x, request' = [request EXCEPT ![r] = x], x.pc \notin {"store", "delete"}
      PROVE  Lists'
  <2>1. \A s \in Requests : request'[s] = IF s = r THEN x ELSE request[s]
    BY <1>2 DEF TypeInv, Typed
  <2>2. \A t \in Tokens : Usable(t)' => Usable(t) /\ key'[t].ttl = key[t].ttl
    BY <1>2 DEF Usable
  <2> QED
    BY <1>1, <1>2, <2>1, <2>2, QuietLists
<1>3. CASE Dies(r)
  BY <1>2, <1>3 DEF Dies, Ends, Reads, Idle
<1>4. CASE Receive(r)
  <2>1. UNCHANGED <<key, grant, revoked, exposed>>
    BY <1>4, Receives
  <2>2. PICK op \in {"authorize", "redeem", "revoke"}, pc \in {"ttl", "find", "list"},
             t \in Tokens \cup {None} : Starts(r, op, pc, t)
    BY <1>4, Receives DEF Tokens
  <2>3. Started(op, pc, t).pc = pc
    BY StartedIsTyped
  <2> QED
    BY <1>2, <2>1, <2>2, <2>3 DEF Starts
<1>5. CASE ReadTtl(r)
  <2>1. UNCHANGED <<key, grant, revoked, exposed>>
    BY <1>5 DEF ReadTtl, Reads
  <2>2. \A s \in Requests :
          /\ s # r => request'[s] = request[s]
          /\ request'[r].pc = "store"
          /\ request'[r].ttl = IF grant = None THEN NoKey ELSE grant.ttl
    BY <1>1, <1>5 DEF ReadTtl, TypeInv, Typed, RequestRecord
  <2>3. \A t \in Tokens : (Covered(t)' <=> Covered(t)) /\ (Usable(t)' <=> Usable(t))
    BY <2>1 DEF Covered, Usable
  <2>4. \A t \in Tokens : Covered(t) => key[t].ttl <= request'[r].ttl
    BY <2>2 DEF Lists
  <2>5. \A s \in Requests : request'[s].pc = "store" =>
          /\ request'[s].token \notin exposed =>
               request'[s].ttl = IF grant = None THEN NoKey ELSE grant.ttl
          /\ \A t \in Tokens : Covered(t) => key[t].ttl <= request'[s].ttl
    BY <2>2, <2>4 DEF Lists
  <2>6. \A s \in Requests, t \in Tokens :
          request'[s].pc = "delete" /\ Covered(t) => t \in request'[s].list
    BY <2>2 DEF Lists
  <2> QED
    BY <1>1, <2>1, <2>3, <2>5, <2>6 DEF Lists
<1>6. CASE Store(r)
  BY <1>6, StoreLists
<1>7. CASE Find(r)
  <2>1. UNCHANGED <<key, grant, revoked, exposed>>
    BY <1>7 DEF Find, Reads
  <2>2. \/ request' = [request EXCEPT ![r] = Idle]
        \/ \E pc \in {"list", "consume"} : request' = [request EXCEPT ![r] = [@ EXCEPT !.pc = pc]]
    BY <1>7 DEF Find, Ends, Goes
  <2> QED
    BY <1>1, <1>2, <2>1, <2>2 DEF Idle, RequestRecord
<1>8. CASE Consume(r)
  <2>1. UNCHANGED <<grant, revoked, exposed>>
    BY <1>8 DEF Consume
  <2>2. \A s \in Requests : request'[s] = request[s] \/ request'[s].pc = "ttl"
    BY <1>1, <1>8 DEF Consume, TypeInv, Typed, RequestRecord
  <2>3. \A t \in Tokens : Usable(t)' => Usable(t) /\ key'[t].ttl = key[t].ttl
    BY <1>8, ConsumeKeeps
  <2> QED
    BY <1>1, <2>1, <2>2, <2>3, QuietLists
<1>9. CASE ReadList(r)
  <2>1. UNCHANGED <<key, grant, revoked, exposed>>
    BY <1>9 DEF ReadList, Reads
  <2>2. \A s \in Requests :
          /\ s # r => request'[s] = request[s]
          /\ request'[r].pc = "delete"
          /\ request'[r].list = IF grant = None THEN {} ELSE grant.tokens
    BY <1>1, <1>9 DEF ReadList, TypeInv, Typed, RequestRecord
  <2>3. \A t \in Tokens : Covered(t)' <=> Covered(t)
    BY <2>1 DEF Covered, Usable
  <2> QED
    BY <2>1, <2>2, <2>3 DEF Lists, Usable
<1>10. CASE Delete(r)
  <2> DEFINE x == request[r]
  <2>1. /\ x.pc = "delete" /\ revoked' = revoked \cup x.stored
        /\ exposed' = exposed \cup Upserted
        /\ request' = [request EXCEPT ![r] = Idle]
        /\ \A t \in Tokens : key'[t] = IF t \in x.list THEN None ELSE key[t]
    BY <1>10 DEF Delete, Ends
  <2>2. \A t \in Tokens : ~Covered(t)'
    BY <2>1 DEF Lists, Covered, Usable
  <2>3. \A s \in Requests : request'[s].pc = "store" => request'[s].token \in exposed'
    BY <2>1 DEF Upserted, At, Idle, TypeInv, Typed
  <2>4. revoked' \subseteq Tokens
    BY <1>1, <2>1 DEF RequestRecord
  <2> QED
    BY <2>2, <2>3, <2>4 DEF Lists, Covered
<1> QED
  BY <1>3, <1>4, <1>5, <1>6, <1>7, <1>8, <1>9, <1>10 DEF Proceed

LEMMA NextLists ==
  ASSUME TypeInv, Fresh, Lists, Step
  PROVE  Lists'
<1>1. CASE UNCHANGED vars
  BY <1>1 DEF vars, Lists, Covered, Usable
<1> QED
  BY <1>1, TickLists, ProceedLists DEF Step, Next

-------------------------------------------------------------------------------
(* Redemptions.                                                            *)

\* A code whose redemptions do not overlap is accepted by at most one.
Once ==
  \A c \in Codes : c \notin doubled =>
    /\ \A r, s \in Redeeming(c) : r = s
    /\ redeemed[c] <= 1
    /\ redeemed[c] = 1 =>
         /\ Usable(c) => key[c].consumed
         /\ \A r \in Redeeming(c) : request[r].pc = "find"

\* Every redemption was received as a request of its own.
Counted ==
  \A c \in Codes : redeemed[c] + Cardinality(Redeeming(c)) <= received

LEMMA InitOnce == Init => Once /\ Counted
<1> SUFFICES ASSUME Init PROVE Once /\ Counted
  OBVIOUS
<1>1. \A c \in Codes : Redeeming(c) = {} /\ redeemed[c] = 0
  BY DEF Init, Redeeming, Idle
<1>2. received = 0
  BY DEF Init
<1> QED
  BY <1>1, <1>2, FS_EmptySet DEF Once, Counted

\* Which requests may accept a code changes with the one that moves.
LEMMA RedeemingOfMoved ==
  ASSUME TypeInv, NEW r \in Requests, NEW x, request' = [request EXCEPT ![r] = x], NEW c
  PROVE  /\ x.pc \in {"find", "consume"} /\ x.token = c => Redeeming(c)' = Redeeming(c) \cup {r}
         /\ ~(x.pc \in {"find", "consume"} /\ x.token = c) => Redeeming(c)' = Redeeming(c) \ {r}
BY DEF Redeeming, TypeInv, Typed

LEMMA RedeemingIsFinite ==
  ASSUME NEW c
  PROVE  IsFiniteSet(Redeeming(c)) /\ Cardinality(Redeeming(c)) \in Nat
<1>1. Redeeming(c) \subseteq Requests
  BY DEF Redeeming
<1> QED
  BY <1>1, RequestsAssumption, FS_Subset, FS_CardinalityType

\* How many they are then.
LEMMA CountOfMoved ==
  ASSUME TypeInv, NEW r \in Requests, NEW x, request' = [request EXCEPT ![r] = x], NEW c
  PROVE  /\ Cardinality(Redeeming(c)') \in Nat
         /\ Cardinality(Redeeming(c)') <= Cardinality(Redeeming(c)) + 1
         /\ r \in Redeeming(c) => Cardinality(Redeeming(c)') <= Cardinality(Redeeming(c))
         /\ ~(x.pc \in {"find", "consume"} /\ x.token = c) =>
              Cardinality(Redeeming(c)') <= Cardinality(Redeeming(c))
         /\ ~(x.pc \in {"find", "consume"} /\ x.token = c) /\ r \in Redeeming(c) =>
              Cardinality(Redeeming(c)') = Cardinality(Redeeming(c)) - 1
<1>1. IsFiniteSet(Redeeming(c)) /\ Cardinality(Redeeming(c)) \in Nat
  BY RedeemingIsFinite
<1>2. CASE Redeeming(c)' = Redeeming(c) \cup {r} /\ x.pc \in {"find", "consume"} /\ x.token = c
  <2>1. Cardinality(Redeeming(c) \cup {r})
          = IF r \in Redeeming(c) THEN Cardinality(Redeeming(c)) ELSE Cardinality(Redeeming(c)) + 1
    BY <1>1, FS_AddElement
  <2> QED
    BY <1>1, <1>2, <2>1
<1>3. CASE Redeeming(c)' = Redeeming(c) \ {r}
  <2>1. Cardinality(Redeeming(c) \ {r})
          = IF r \in Redeeming(c) THEN Cardinality(Redeeming(c)) - 1 ELSE Cardinality(Redeeming(c))
    BY <1>1, FS_RemoveElement
  <2>2. Cardinality(Redeeming(c) \ {r}) \in Nat
    BY <1>1, FS_RemoveElement, FS_CardinalityType
  <2> QED
    BY <1>1, <1>3, <2>1, <2>2
<1> QED
  BY <1>2, <1>3, RedeemingOfMoved

\* No step but the reception of a redemption adds to those in flight.
LEMMA MovedOnce ==
  ASSUME TypeInv, Once, NEW r \in Requests, NEW x, request' = [request EXCEPT ![r] = x],
         x.pc \in {"find", "consume"} => r \in Redeeming(x.token),
         x.pc = "consume" => x.token \in doubled \/ redeemed[x.token] = 0,
         UNCHANGED <<redeemed, doubled>>,
         \A c \in Codes : redeemed[c] = 1 /\ Usable(c)' => Usable(c) /\ key'[c].consumed = key[c].consumed
  PROVE  Once'
<1>1. ASSUME NEW c
      PROVE  Redeeming(c)' \subseteq Redeeming(c)
  <2>1. CASE x.pc \in {"find", "consume"} /\ x.token = c
    <3>1. r \in Redeeming(c) /\ Redeeming(c)' = Redeeming(c) \cup {r}
      BY <2>1, RedeemingOfMoved
    <3> QED
      BY <3>1
  <2>2. CASE ~(x.pc \in {"find", "consume"} /\ x.token = c)
    <3>1. Redeeming(c)' = Redeeming(c) \ {r}
      BY <2>2, RedeemingOfMoved
    <3> QED
      BY <3>1
  <2> QED
    BY <2>1, <2>2
<1>2. \A s \in Requests : request'[s] = IF s = r THEN x ELSE request[s]
  BY DEF TypeInv, Typed
<1>3. ASSUME NEW c \in Codes, c \notin doubled, redeemed[c] = 1, NEW s \in Redeeming(c)'
      PROVE  request'[s].pc = "find"
  <2>1. s \in Redeeming(c) /\ request[s].pc = "find"
    BY <1>1, <1>3 DEF Once
  <2> QED
    BY <1>2, <1>3, <2>1 DEF Redeeming
<1> QED
  BY <1>1, <1>3 DEF Once

LEMMA ReceiveOnce ==
  ASSUME TypeInv, Fresh, Once, NEW r \in Requests, Receive(r)
  PROVE  Once'
<1>1. UNCHANGED <<key, redeemed>> /\ request[r] = Idle
  BY Receives
<1>2. \A c \in Codes : Usable(c)' <=> Usable(c)
  BY <1>1 DEF Usable
<1>3. ASSUME NEW op \in {"authorize", "revoke"}, NEW pc \in {"ttl", "list"},
             NEW t \in Tokens \cup {None}, Starts(r, op, pc, t), doubled' = doubled
      PROVE  Once'
  <2>1. Started(op, pc, t).pc = pc
    BY StartedIsTyped
  <2> QED
    BY <1>1, <1>2, <1>3, <2>1, MovedOnce DEF Starts
<1>4. ASSUME NEW t \in Codes \cap issued, Starts(r, "redeem", "find", t),
             doubled' = IF \E s \in InFlight :
                              request[s].op = "redeem" /\ request[s].token = t
                        THEN doubled \cup {t} ELSE doubled
      PROVE  Once'
  <2> DEFINE x == Started("redeem", "find", t)
  <2>1. x.pc = "find" /\ x.token = t
    BY StartedIsTyped DEF Tokens
  <2>2. request' = [request EXCEPT ![r] = x]
    BY <1>4 DEF Starts
  <2> HIDE DEF x
  <2>3. \A s \in Requests : request'[s] = IF s = r THEN x ELSE request[s]
    BY <2>2 DEF TypeInv, Typed
  <2>4. \A s \in Redeeming(t) : s \in InFlight /\ request[s].op = "redeem" /\ request[s].token = t
    BY DEF Redeeming, InFlight, Idle, TypeInv, Placed
  <2>5. t \notin doubled' => Redeeming(t) = {}
    BY <1>4, <2>4
  <2>6. /\ Redeeming(t)' = Redeeming(t) \cup {r}
        /\ \A c \in Codes : c # t => Redeeming(c)' \subseteq Redeeming(c)
    BY <2>1, <2>2, RedeemingOfMoved
  <2>7. \A s \in Requests : request[s].pc = "find" => request'[s].pc = "find"
    BY <2>1, <2>3
  <2>8. \A c \in Codes : c \notin doubled' => c \notin doubled
    BY <1>4
  <2>9. \A c \in Codes : Redeeming(c) \subseteq Requests
    BY DEF Redeeming
  <2> QED
    BY <1>1, <1>2, <2>1, <2>3, <2>5, <2>6, <2>7, <2>8, <2>9 DEF Once
<1> QED
  BY <1>3, <1>4, Receives DEF Tokens

LEMMA TickOnce ==
  ASSUME TypeInv, Once, Tick
  PROVE  Once' /\ \A c : Redeeming(c)' = Redeeming(c)
<1>1. \A r \in Requests : request'[r].pc = request[r].pc /\ request'[r].token = request[r].token
  BY DEF Tick, InFlight, TypeInv, Typed, RequestRecord
<1>2. ASSUME NEW c
      PROVE  Redeeming(c)' = Redeeming(c)
  BY <1>1 DEF Redeeming
<1>3. UNCHANGED <<redeemed, doubled>>
  BY DEF Tick, Bystanders
<1>4. \A c \in Codes : Usable(c)' => Usable(c) /\ key'[c].consumed = key[c].consumed
  BY DEF Tick, Usable, TypeInv, Typed, Key, Tokens
<1>5. \A c : Redeeming(c) \subseteq Requests
  BY DEF Redeeming
<1> QED
  BY <1>1, <1>2, <1>3, <1>4, <1>5 DEF Once

LEMMA ConsumeMoves ==
  ASSUME TypeInv, NEW r \in Requests, Consume(r)
  PROVE  \E x : request' = [request EXCEPT ![r] = x] /\ x.pc = "ttl"
<1>1. request[r] \in RequestRecord
  BY DEF TypeInv, Typed
<1>2. PICK t : request' = [request EXCEPT ![r].pc = "ttl", ![r].token = t]
  BY DEF Consume
<1>3. request' = [request EXCEPT ![r] = request'[r]] /\ request'[r].pc = "ttl"
  BY <1>1, <1>2 DEF TypeInv, Typed, RequestRecord
<1> QED
  BY <1>3

LEMMA ConsumeOnce ==
  ASSUME TypeInv, Fresh, Once, NEW r \in Requests, Consume(r)
  PROVE  Once'
<1>0. PICK c : c = request[r].token
  OBVIOUS
<1>1. c \in Codes /\ c \in Tokens /\ r \in Redeeming(c) /\ request[r].pc = "consume"
  BY <1>0 DEF Consume, TypeInv, Placed, Tokens, Redeeming
<1>2. redeemed' = [redeemed EXCEPT ![c] = @ + 1] /\ doubled' = doubled
  BY <1>0 DEF Consume, Bystanders
<1>3. PICK x : request' = [request EXCEPT ![r] = x] /\ x.pc = "ttl"
  BY ConsumeMoves
<1>4. ASSUME NEW d
      PROVE  Redeeming(d)' = Redeeming(d) \ {r}
  BY <1>3, RedeemingOfMoved
<1>5. \A s \in Requests : s # r => request'[s] = request[s]
  BY <1>3 DEF TypeInv, Typed
<1>6. /\ \A d \in Codes : Usable(d)' => Usable(d) /\ (key[d].consumed => key'[d].consumed)
      /\ Usable(c)' => key'[c].consumed
  <2>1. \A d \in Codes : d \in Tokens
    BY DEF Tokens
  <2> QED
    BY <1>0, <1>1, <2>1, ConsumeKeeps
<1>7. redeemed[c] \in Nat /\ \A d \in Codes : redeemed'[d] = IF d = c THEN redeemed[c] + 1 ELSE redeemed[d]
  BY <1>1, <1>2 DEF TypeInv, Typed
<1>8. c \notin doubled => redeemed[c] = 0 /\ Redeeming(c)' = {}
  <2>1. c \notin doubled => redeemed[c] = 0 /\ Redeeming(c) = {r}
    BY <1>1, <1>7 DEF Once, Redeeming
  <2> QED
    BY <1>4, <2>1
<1>9. \A d : Redeeming(d) \subseteq Requests
  BY DEF Redeeming
<1> QED
  BY <1>2, <1>4, <1>5, <1>6, <1>7, <1>8, <1>9 DEF Once

LEMMA ProceedOnce ==
  ASSUME TypeInv, Fresh, Once, NEW r \in Requests, Proceed(r) \/ Dies(r)
  PROVE  Once'
<1>1. request[r] \in RequestRecord
  BY DEF TypeInv, Typed
<1>2. ASSUME UNCHANGED <<redeemed, doubled>>,
             \A c \in Codes : key'[c] = key[c] \/ key'[c] = None \/ redeemed[c] = 0,
             NEW x, request' = [request EXCEPT ![r] = x], x.pc \notin {"find", "consume"}
      PROVE  Once'
  <2>1. \A c \in Codes : redeemed[c] = 1 /\ Usable(c)' =>
          Usable(c) /\ key'[c].consumed = key[c].consumed
    BY <1>2 DEF Usable
  <2> QED
    BY <1>2, <2>1, MovedOnce
<1>3. CASE Dies(r)
  BY <1>2, <1>3 DEF Dies, Ends, Reads, Bystanders, Idle
<1>4. CASE ReadTtl(r)
  <2>1. request' = [request EXCEPT ![r] = [request[r] EXCEPT !.pc = "store",
                      !.ttl = IF grant = None THEN NoKey ELSE grant.ttl]]
    BY <1>4 DEF ReadTtl
  <2> QED
    BY <1>1, <1>2, <1>4, <2>1 DEF ReadTtl, Reads, Bystanders, RequestRecord
<1>5. CASE Store(r)
  <2>1. \A c \in Codes : key'[c] = key[c] \/ redeemed[c] = 0
    BY <1>5 DEF Store, Fresh, TypeInv, Typed, Placed, Tokens
  <2> QED
    BY <1>2, <1>5, <2>1 DEF Store, Ends, Bystanders, Idle
<1>6. CASE Find(r)
  <2>1. UNCHANGED <<key, redeemed, doubled>> /\ request[r].pc = "find"
    BY <1>6 DEF Find, Reads, Bystanders
  <2>2. CASE request' = [request EXCEPT ![r] = Idle]
    BY <1>2, <2>1, <2>2 DEF Idle
  <2>3. CASE request' = [request EXCEPT ![r] = [request[r] EXCEPT !.pc = "list"]]
    BY <1>1, <1>2, <2>1, <2>3 DEF RequestRecord
  <2>4. CASE /\ request' = [request EXCEPT ![r] = [request[r] EXCEPT !.pc = "consume"]]
             /\ Usable(request[r].token) /\ ~key[request[r].token].consumed
    <3> DEFINE c == request[r].token
               x == [request[r] EXCEPT !.pc = "consume"]
    <3>1. x.pc = "consume" /\ x.token = c /\ r \in Redeeming(c) /\ c \in Codes
      BY <1>1, <2>1 DEF RequestRecord, Redeeming, TypeInv, Placed
    <3>2. c \in doubled \/ redeemed[c] = 0
      BY <2>4, <3>1 DEF Once, TypeInv, Typed
    <3> HIDE DEF x, c
    <3> QED
      BY <2>1, <2>4, <3>1, <3>2, MovedOnce DEF x, Usable
  <2> QED
    BY <1>6, <2>2, <2>3, <2>4 DEF Find, Ends, Goes
<1>7. CASE Consume(r)
  BY <1>7, ConsumeOnce
<1>8. CASE ReadList(r)
  <2>1. PICK list, stored : request' = [request EXCEPT ![r] =
          [request[r] EXCEPT !.pc = "delete", !.list = list, !.stored = stored]]
    BY <1>8 DEF ReadList
  <2> QED
    BY <1>1, <1>2, <1>8, <2>1 DEF ReadList, Reads, Bystanders, RequestRecord
<1>9. CASE Delete(r)
  <2>1. \A c \in Codes : key'[c] = key[c] \/ key'[c] = None
    BY <1>9 DEF Delete, Tokens
  <2> QED
    BY <1>2, <1>9, <2>1 DEF Delete, Ends, Bystanders, Idle
<1> QED
  BY <1>3, <1>4, <1>5, <1>6, <1>7, <1>8, <1>9 DEF Proceed

LEMMA NextOnce ==
  ASSUME TypeInv, Fresh, Once, Step
  PROVE  Once'
<1>1. CASE UNCHANGED vars
  BY <1>1 DEF vars, Once, Redeeming, Usable
<1> QED
  BY <1>1, ReceiveOnce, TickOnce, ProceedOnce DEF Step, Next

LEMMA MovedCount ==
  ASSUME TypeInv, Counted, NEW r \in Requests, NEW x, request' = [request EXCEPT ![r] = x],
         UNCHANGED redeemed,
         \/ received' = received + 1
         \/ /\ received' = received
            /\ x.pc \in {"find", "consume"} => r \in Redeeming(x.token)
  PROVE  Counted'
<1>1. ASSUME NEW c \in Codes
      PROVE  redeemed'[c] + Cardinality(Redeeming(c)') <= received'
  <2>1. /\ redeemed[c] \in Nat /\ received \in Nat /\ Cardinality(Redeeming(c)) \in Nat
        /\ redeemed[c] + Cardinality(Redeeming(c)) <= received
    BY RedeemingIsFinite DEF TypeInv, Typed, Counted
  <2>2. /\ Cardinality(Redeeming(c)') \in Nat
        /\ Cardinality(Redeeming(c)') <= Cardinality(Redeeming(c)) + 1
    BY CountOfMoved
  <2>3. received' = received + 1 \/ Cardinality(Redeeming(c)') <= Cardinality(Redeeming(c))
    <3>1. CASE x.pc \in {"find", "consume"} /\ x.token = c
      <4>1. received' = received + 1 \/ r \in Redeeming(c)
        BY <3>1
      <4> QED
        BY <4>1, CountOfMoved
    <3>2. CASE ~(x.pc \in {"find", "consume"} /\ x.token = c)
      BY <3>2, CountOfMoved
    <3> QED
      BY <3>1, <3>2
  <2>4. received' = received \/ received' = received + 1
    OBVIOUS
  <2> QED
    BY <2>1, <2>2, <2>3, <2>4
<1> QED
  BY <1>1 DEF Counted

LEMMA ConsumeCount ==
  ASSUME TypeInv, Counted, NEW r \in Requests, Consume(r)
  PROVE  Counted'
<1>1. PICK c : c = request[r].token
  OBVIOUS
<1>2. c \in Codes /\ r \in Redeeming(c) /\ UNCHANGED received
      /\ redeemed' = [redeemed EXCEPT ![c] = @ + 1]
  BY <1>1 DEF Consume, Bystanders, TypeInv, Placed, Redeeming
<1>3. PICK x : request' = [request EXCEPT ![r] = x] /\ x.pc = "ttl"
  BY ConsumeMoves
<1>4. ASSUME NEW d \in Codes
      PROVE  redeemed'[d] + Cardinality(Redeeming(d)') <= received'
  <2>1. /\ redeemed[d] \in Nat /\ received \in Nat /\ Cardinality(Redeeming(d)) \in Nat
        /\ redeemed[d] + Cardinality(Redeeming(d)) <= received
    BY RedeemingIsFinite DEF TypeInv, Typed, Counted
  <2>2. redeemed'[d] = IF d = c THEN redeemed[d] + 1 ELSE redeemed[d]
    BY <1>2 DEF TypeInv, Typed
  <2>3. /\ Cardinality(Redeeming(d)') \in Nat
        /\ Cardinality(Redeeming(d)') <= Cardinality(Redeeming(d))
        /\ d = c => Cardinality(Redeeming(d)') = Cardinality(Redeeming(d)) - 1
    BY <1>2, <1>3, CountOfMoved
  <2> QED
    BY <1>2, <2>1, <2>2, <2>3
<1> QED
  BY <1>4 DEF Counted

LEMMA NextCount ==
  ASSUME TypeInv, Once, Counted, Step
  PROVE  Counted'
<1>1. CASE UNCHANGED vars
  BY <1>1 DEF vars, Counted, Redeeming
<1>2. CASE Tick
  BY <1>2, TickOnce DEF Counted, Tick, Bystanders
<1>3. ASSUME NEW r \in Requests, Receive(r)
      PROVE  Counted'
  <2>1. PICK x : request' = [request EXCEPT ![r] = x]
    BY <1>3, Receives DEF Starts
  <2> QED
    BY <1>3, <2>1, Receives, MovedCount
<1>4. ASSUME NEW r \in Requests, Proceed(r) \/ Dies(r), ~Consume(r)
      PROVE  Counted'
  <2>1. request[r] \in RequestRecord
    BY DEF TypeInv, Typed
  <2>2. PICK x : x = request'[r]
    OBVIOUS
  <2>3. /\ request' = [request EXCEPT ![r] = x]
        /\ x.pc \in {"find", "consume"} => request[r].pc = "find" /\ x.token = request[r].token
        /\ UNCHANGED <<redeemed, received>>
    BY <1>4, <2>1, <2>2
       DEF Proceed, Dies, ReadTtl, Store, Find, ReadList, Delete, Ends, Goes, Idle, Reads,
           Bystanders, TypeInv, Typed, RequestRecord
  <2>4. x.pc \in {"find", "consume"} => r \in Redeeming(x.token)
    BY <2>3 DEF Redeeming
  <2> QED
    BY <2>3, <2>4, MovedCount
<1> QED
  BY <1>1, <1>2, <1>3, <1>4, ConsumeCount DEF Step, Next

-------------------------------------------------------------------------------
Inv == TypeInv /\ Fresh /\ Lists /\ Once /\ Counted

LEMMA Inductive == Spec => []Inv
<1>1. Init => Inv
  BY InitType, InitFresh, InitLists, InitOnce DEF Inv
<1>2. Inv /\ [Next]_vars => Inv'
  BY NextType, NextFresh, NextLists, NextOnce, NextCount DEF Inv, Step
<1> QED
  BY <1>1, <1>2, PTL DEF Spec

(***************************************************************************)
(* Every key, the list and every request have their types, and no code is  *)
(* redeemed more often than requests were received                         *)
(* (repositories/redis/oidc-provider.ts).                                  *)
(***************************************************************************)
THEOREM TypeCorrect == Spec => []TypeOK
<1>1. ASSUME Inv
      PROVE  TypeOK
  <2>1. \A c \in Codes : redeemed[c] \in 0 .. MaxRequests
    BY <1>1, RedeemingIsFinite, RequestsAssumption DEF Inv, TypeInv, Typed, Counted
  <2>2. redeemed \in [Codes -> 0 .. MaxRequests]
    BY <1>1, <2>1 DEF Inv, TypeInv, Typed
  <2> QED
    BY <1>1, <2>2 DEF Inv, TypeInv, Typed, Fresh, RequestRecord, TypeOK
<1> QED
  BY <1>1, Inductive, PTL

(***************************************************************************)
(* For any number of requests in flight, a token that was stored when the  *)
(* revocation of its grant read the list is gone when it ends, and stays   *)
(* so, unless its own upsert overlapped with another upsert, with a        *)
(* revocation or with the passing of time (revokeByGrantId and upsert of   *)
(* repositories/redis/oidc-provider.ts).                                   *)
(***************************************************************************)
THEOREM RevocationReaches == Spec => []RevokedTokensAreGone
<1>1. Inv => RevokedTokensAreGone
  BY DEF Inv, Lists, RevokedTokensAreGone
<1> QED
  BY <1>1, Inductive, PTL

(***************************************************************************)
(* However many redemptions are in flight, a code is accepted once unless  *)
(* two of its own overlap (find and consume of                             *)
(* repositories/redis/oidc-provider.ts).                                   *)
(***************************************************************************)
THEOREM RedeemedOnce == Spec => []CodesAreRedeemedOnce
<1>1. Inv => CodesAreRedeemedOnce
  BY DEF Inv, Once, CodesAreRedeemedOnce
<1> QED
  BY <1>1, Inductive, PTL
=============================================================================
