------------------------- MODULE OrganizationInfoProofs -------------------------
(***************************************************************************)
(* Proofs about OrganizationInfo, for any organizations, users, files and  *)
(* number of changes.                                                      *)
(***************************************************************************)
EXTENDS OrganizationInfoProperties, FiniteSetTheorems, TLAPS

\* Where the joins and import-domains stand: what they hold of INSEE was told since they began.
JoinsPlaced ==
  \A u \in Users :
    LET q == request[u] IN
    /\ q.pc # "idle" => q.siret \in Sirets
    /\ q.pc = "ask" => (SaysActive(establishment[q.siret]) => wasActive[u])
    /\ q.pc = "upsert" => q.info \in Info /\ (q.info.active => wasActive[u])
    /\ q.pc = "link" => wasActive[u]

DomainsPlaced ==
  LET a == "import-domains" IN
  /\ domainJob.pc # "stopped" => domainJob.line > 0
  /\ domainJob.pc \notin {"stopped", "read"} =>
       /\ domainJob.line \in 1 .. Len(file)
       /\ Current \in [domain : Domains, siret : Sirets]
  /\ domainJob.pc = "ask" => (SaysActive(establishment[Current.siret]) => wasActive[a])
  /\ domainJob.pc = "upsert" => domainJob.info \in Info
  /\ domainJob.pc \in {"upsert", "find", "add"} => wasActive[a]

RefreshPlaced ==
  /\ refresh.pc \in {"ask", "upsert"} => refresh.siret \in Sirets
  /\ refresh.pc = "upsert" => refresh.info \in Info

Placed == JoinsPlaced /\ DomainsPlaced /\ RefreshPlaced
PlacedInv == TypeOK /\ Placed

\* The rows that refresh has gone by need nothing more from it.
Done(t) == row[t].info # NoInfo \/ t \in missed
GoneBy ==
  /\ refresh.pc = "read" =>
       \A t \in Stored : Cardinality(Before(t)) < refresh.offset => Done(t)
  /\ refresh.pc \in {"ask", "upsert"} =>
       \A t \in Stored :
         Cardinality(Before(t)) <= refresh.offset => Done(t) \/ t = refresh.siret
  /\ refresh.pc = "completed" => \A t \in Stored : Done(t)

Inv == PlacedInv /\ GoneBy

-------------------------------------------------------------------------------
(* Answers, and the upsert.                                                *)

LEMMA InfoFacts ==
  /\ NoInfo \notin Info /\ Failure \notin Info
  /\ \A e \in Establishment :
       getOrganizationInfo(e) # Failure =>
         /\ getOrganizationInfo(e) \in Info
         /\ getOrganizationInfo(e).active => SaysActive(e)
<1>1. NoInfo \notin Info /\ Failure \notin Info
  BY DEF NoInfo, Failure, Info
<1>2. ASSUME NEW e \in Establishment, getOrganizationInfo(e) # Failure
      PROVE  /\ getOrganizationInfo(e) \in Info
             /\ getOrganizationInfo(e).active => SaysActive(e)
  BY <1>2 DEF getOrganizationInfo, hideNonDiffusibleData, Told, SaysActive, Establishment, Info
<1> QED BY <1>1, <1>2

\* What an upsert does to the table.
Grown(s) ==
  /\ row' \in [Sirets -> Row \cup {None}]
  /\ Stored' = Stored \cup {s}
  /\ \A t \in Stored : row'[t].id = row[t].id
  /\ \A t \in Stored \ {s} : row'[t] = row[t]
  /\ row'[s].info # NoInfo
  /\ \A x, y \in Stored' : row'[x].id = row'[y].id => x = y

LEMMA UpsertGrows ==
  ASSUME TypeOK, NEW s \in Sirets, NEW info \in Info, NEW id \in IdFor(s), Upsert(s, id, info)
  PROVE  Grown(s)
<1> DEFINE new == Upserted(s, id, info)
<1>1. new \in Row /\ new.info = info /\ new.id = id
  <2>1. CASE row[s] = None
    <3>1. id \in Ids
      BY <2>1 DEF IdFor, FreeIds
    <3> QED BY <2>1, <3>1 DEF Upserted, Row
  <2>2. CASE row[s] # None
    <3>1. row[s] \in Row
      BY <2>2 DEF TypeOK
    <3>2. id = row[s].id
      BY <2>2 DEF IdFor
    <3> QED BY <2>2, <3>1, <3>2 DEF Upserted, Row
  <2> QED BY <2>1, <2>2
<1>2. row' = [row EXCEPT ![s] = new]
  BY DEF Upsert
<1> HIDE DEF new
<1>3. row' \in [Sirets -> Row \cup {None}]
  BY <1>1, <1>2 DEF TypeOK
<1>4. row'[s] = new /\ \A t \in Sirets \ {s} : row'[t] = row[t]
  BY <1>2 DEF TypeOK
<1>5. new # None
  BY <1>1, NoneAssumption
<1>6. Stored' = Stored \cup {s}
  BY <1>4, <1>5 DEF Stored
<1>7. \A t \in Stored \ {s} : t \in Sirets \ {s} /\ row'[t] = row[t]
  BY <1>4 DEF Stored
<1>8. s \in Stored => row'[s].id = row[s].id
  BY <1>1, <1>4 DEF Stored, IdFor
<1>9. \A t \in Stored : row'[t].id = row[t].id
  BY <1>7, <1>8
<1>10. row'[s].info # NoInfo
  BY <1>1, <1>4, InfoFacts
<1>11. \A x \in Stored \ {s} : row[x].id # id
  <2>1. CASE row[s] = None
    BY <2>1 DEF IdFor, FreeIds
  <2>2. CASE row[s] # None
    <3>1. s \in Stored /\ id = row[s].id
      BY <2>2 DEF Stored, IdFor
    <3> QED BY <3>1 DEF TypeOK
  <2> QED BY <2>1, <2>2
<1>12. \A x, y \in Stored' : row'[x].id = row'[y].id => x = y
  <2> SUFFICES ASSUME NEW x \in Stored', NEW y \in Stored', row'[x].id = row'[y].id
               PROVE  x = y
    OBVIOUS
  <2>1. CASE x # s /\ y # s
    <3>1. x \in Stored /\ y \in Stored /\ row[x].id = row[y].id
      BY <1>6, <1>9, <2>1
    <3> QED BY <3>1 DEF TypeOK
  <2>2. CASE x = s /\ y # s
    BY <2>2, <1>1, <1>4, <1>6, <1>9, <1>11
  <2>3. CASE x # s /\ y = s
    BY <2>3, <1>1, <1>4, <1>6, <1>9, <1>11
  <2>4. CASE x = s /\ y = s
    BY <2>4
  <2> QED BY <2>1, <2>2, <2>3, <2>4
<1> QED BY <1>3, <1>6, <1>7, <1>9, <1>10, <1>12 DEF Grown

\* Who writes rows, and with what.
Writes(s) ==
  \E info \in Info : \E id \in IdFor(s) : Upsert(s, id, info)

LEMMA WriteGrows ==
  ASSUME TypeOK, NEW s \in Sirets, Writes(s)
  PROVE  Grown(s)
BY UpsertGrows DEF Writes

-------------------------------------------------------------------------------
(* Offsets.                                                                *)

LEMMA Positions ==
  ASSUME TypeOK
  PROVE  /\ IsFiniteSet(Stored) /\ Cardinality(Stored) \in Nat
         /\ \A t \in Stored :
              /\ IsFiniteSet(Before(t)) /\ Cardinality(Before(t)) \in Nat
              /\ Cardinality(Before(t)) < Cardinality(Stored)
         /\ \A s, t \in Stored :
              Cardinality(Before(s)) = Cardinality(Before(t)) => s = t
<1>1. IsFiniteSet(Stored) /\ Cardinality(Stored) \in Nat
  <2>1. Stored \in SUBSET Sirets
    BY DEF Stored
  <2>2. IsFiniteSet(Stored)
    BY <2>1, SiretsAssumption, FS_Subset
  <2> QED BY <2>2, FS_CardinalityType
<1>2. \A s \in Stored : row[s].id \in Int
  BY DEF Stored, TypeOK, Row, Ids
<1>3. ASSUME NEW S \in SUBSET Stored
      PROVE  IsFiniteSet(S) /\ Cardinality(S) \in Nat /\ Cardinality(S) <= Cardinality(Stored)
  <2>1. IsFiniteSet(S) /\ Cardinality(S) <= Cardinality(Stored)
    BY <1>1, FS_Subset
  <2> QED BY <2>1, FS_CardinalityType
<1>4. ASSUME NEW S \in SUBSET Stored, NEW T \in SUBSET S, T # S
      PROVE  Cardinality(T) < Cardinality(S)
  <2>1. IsFiniteSet(S) /\ Cardinality(S) \in Nat /\ Cardinality(T) \in Nat
    BY <1>3
  <2>2. Cardinality(T) <= Cardinality(S) /\ Cardinality(T) # Cardinality(S)
    BY <2>1, <1>4, FS_Subset
  <2> QED BY <2>1, <2>2
<1>5. \A t \in Stored : Before(t) \in SUBSET Stored /\ t \notin Before(t)
  BY <1>2 DEF Before, Selected
<1>6. ASSUME NEW t \in Stored
      PROVE  /\ IsFiniteSet(Before(t)) /\ Cardinality(Before(t)) \in Nat
             /\ Cardinality(Before(t)) < Cardinality(Stored)
  <2>1. Before(t) # Stored
    BY <1>5
  <2> QED BY <1>3, <1>4, <1>5, <2>1
<1>7. ASSUME NEW s \in Stored, NEW t \in Stored, row[s].id < row[t].id
      PROVE  Cardinality(Before(s)) < Cardinality(Before(t))
  <2>1. Before(s) \in SUBSET Before(t)
    BY <1>2, <1>7 DEF Before, Selected
  <2>2. s \in Before(t)
    BY <1>7 DEF Before, Selected
  <2> QED BY <1>4, <1>5, <2>1, <2>2
<1>8. ASSUME NEW s \in Stored, NEW t \in Stored,
             Cardinality(Before(s)) = Cardinality(Before(t))
      PROVE  s = t
  <2>1. ~(row[s].id < row[t].id) /\ ~(row[t].id < row[s].id)
    BY <1>6, <1>7, <1>8
  <2>2. row[s].id = row[t].id
    BY <1>2, <2>1
  <2> QED BY <2>2 DEF TypeOK
<1> QED BY <1>1, <1>6, <1>8

\* Rows come to stand later, never sooner.
LEMMA PositionsGrow ==
  ASSUME TypeOK, TypeOK', NEW s \in Sirets, Grown(s), NEW t \in Stored
  PROVE  t \in Stored' /\ Cardinality(Before(t)) <= Cardinality(Before(t)')
<1>1. t \in Stored' /\ Before(t) \in SUBSET (Before(t)')
  BY DEF Grown, Before, Selected
<1>2. IsFiniteSet(Before(t)')
  <2>1. Before(t)' \in SUBSET Sirets
    BY DEF Before, Selected, Stored
  <2> QED BY <2>1, SiretsAssumption, FS_Subset
<1> QED BY <1>1, <1>2, FS_Subset

-------------------------------------------------------------------------------
(* Types and places.                                                       *)

\* The part of the types that is about the table.
TableOK ==
  /\ row \in [Sirets -> Row \cup {None}]
  /\ \A s, t \in Stored : row[s].id = row[t].id => s = t

LEMMA TableStays ==
  ASSUME TypeOK, UNCHANGED row \/ \E s \in Sirets : Grown(s)
  PROVE  TableOK'
<1>1. CASE UNCHANGED row
  BY <1>1 DEF TypeOK, TableOK, Stored
<1>2. CASE \E s \in Sirets : Grown(s)
  BY <1>2 DEF TableOK, Grown
<1> QED BY <1>1, <1>2

LEMMA JoinStep ==
  ASSUME PlacedInv, NEW u \in Users, Join(u)
  PROVE  /\ UNCHANGED row \/ \E s \in Sirets : Writes(s)
         /\ PlacedInv'
<1> USE DEF PlacedInv
<1>1. TypeOK /\ JoinsPlaced /\ request[u] \in Request
  BY DEF TypeOK, Placed
<1>2. Idle \in Request
  BY DEF Idle, Request
\* Only the join of u goes on.
<1> DEFINE Others ==
      /\ UNCHANGED <<establishment, changes, emailDomains, refresh, file, domainJob, starts, missed>>
      /\ \A v \in Users \ {u} : request'[v] = request[v]
      /\ wasActive' \in [Actors -> BOOLEAN]
      /\ \A a \in Actors \ {u} : wasActive'[a] = wasActive[a]
         Own ==
      /\ request' \in [Users -> Request]
      /\ link' \subseteq Users \X Sirets
      /\ request'[u].pc # "idle" => request'[u].siret \in Sirets
      /\ request'[u].pc = "ask" =>
           (SaysActive(establishment[request'[u].siret]) => wasActive'[u])
      /\ request'[u].pc = "upsert" =>
           request'[u].info \in Info /\ (request'[u].info.active => wasActive'[u])
      /\ request'[u].pc = "link" => wasActive'[u]
<1>3. Others
  <2>1. request' = [request EXCEPT ![u] = request'[u]]
    BY <1>1
       DEF Join, Begin, Answered, UpsertAndCheck, Decide, JoinFails, Becomes, TypeOK
  <2>2. \A v \in Users \ {u} : request'[v] = request[v]
    BY <1>1, <2>1 DEF TypeOK
  <2>3. \/ wasActive' = wasActive
        \/ \E s \in Sirets : wasActive' = [wasActive EXCEPT ![u] = SaysActive(establishment[s])]
    BY DEF Join, Begin, Answered, UpsertAndCheck, Decide, JoinFails
  <2>4. \A s \in Sirets : SaysActive(establishment[s]) \in BOOLEAN
    BY <1>1 DEF SaysActive, Told, TypeOK, Establishment
  <2>5. /\ wasActive' \in [Actors -> BOOLEAN]
        /\ \A a \in Actors \ {u} : wasActive'[a] = wasActive[a]
    BY <1>1, <2>3, <2>4 DEF TypeOK
  <2>6. UNCHANGED <<establishment, changes, emailDomains, refresh, file, domainJob, starts, missed>>
    BY DEF Join, Begin, Answered, UpsertAndCheck, Decide, JoinFails, Requests
  <2> QED BY <2>2, <2>5, <2>6
<1>4. Own
  <2>1. ASSUME NEW s \in Sirets, Begin(u, s)
        PROVE  Own
    <3>1. request'[u] = [Idle EXCEPT !.pc = "ask", !.siret = s]
      BY <2>1 DEF Begin, Becomes, TypeOK
    <3>2. request'[u] \in Request /\ request'[u].pc = "ask" /\ request'[u].siret = s
      BY <3>1 DEF Idle, Request
    <3>3. request' \in [Users -> Request]
      BY <2>1, <3>1, <3>2 DEF Begin, Becomes, TypeOK
    <3>4. wasActive'[u] = SaysActive(establishment[s])
      BY <2>1 DEF Begin, TypeOK, Actors
    <3> QED BY <2>1, <3>2, <3>3, <3>4 DEF Begin, TypeOK
  <2>2. CASE Answered(u)
    <3>1. PICK answer \in Answers(request[u].siret) :
            Becomes(u, IF answer = Failure THEN Idle
                       ELSE [request[u] EXCEPT !.pc = "upsert", !.info = answer])
      BY <2>2 DEF Answered
    <3>2. request[u].siret \in Sirets /\ establishment[request[u].siret] \in Establishment
      BY <1>1, <2>2 DEF Answered, JoinsPlaced, TypeOK
    <3>3. CASE answer = Failure
      <4>1. request' \in [Users -> Request] /\ request'[u] = Idle
        BY <1>2, <3>1, <3>3 DEF Becomes, TypeOK
      <4> QED BY <2>2, <4>1 DEF Answered, Idle, TypeOK
    <3>4. CASE answer # Failure
      <4>1. answer \in Info /\ (answer.active => SaysActive(establishment[request[u].siret]))
        BY <3>2, <3>4, InfoFacts DEF Answers
      <4>2. /\ request'[u] = [request[u] EXCEPT !.pc = "upsert", !.info = answer]
            /\ request' = [request EXCEPT ![u] = request'[u]]
        BY <3>1, <3>4 DEF Becomes, TypeOK
      <4>3. /\ request'[u] \in Request /\ request'[u].pc = "upsert"
            /\ request'[u].info = answer /\ request'[u].siret = request[u].siret
        BY <1>1, <4>1, <4>2 DEF Request
      <4>4. request' \in [Users -> Request]
        BY <4>2, <4>3 DEF TypeOK
      <4>5. wasActive' = wasActive /\ link' = link /\ request[u].pc = "ask"
        BY <2>2 DEF Answered
      <4> QED BY <1>1, <3>2, <4>1, <4>3, <4>4, <4>5 DEF JoinsPlaced, TypeOK
    <3> QED BY <3>3, <3>4
  <2>3. CASE UpsertAndCheck(u)
    <3> DEFINE s == request[u].siret
    <3>1. PICK id \in IdFor(s) :
            Becomes(u, IF Upserted(s, id, request[u].info).info.active
                       THEN [request[u] EXCEPT !.pc = "link", !.info = NoInfo] ELSE Idle)
      BY <2>3 DEF UpsertAndCheck
    <3>2. s \in Sirets /\ request[u].info \in Info /\ (request[u].info.active => wasActive[u])
      BY <1>1, <2>3 DEF UpsertAndCheck, JoinsPlaced
    <3>3. Upserted(s, id, request[u].info).info = request[u].info
      <4>1. row[s] # None => row[s] \in Row
        BY <3>2 DEF TypeOK
      <4> QED BY <4>1 DEF Upserted, Row
    <3>4. wasActive' = wasActive /\ link' = link
      BY <2>3 DEF UpsertAndCheck
    <3>5. CASE request[u].info.active
      <4>1. /\ request'[u] = [request[u] EXCEPT !.pc = "link", !.info = NoInfo]
            /\ request' = [request EXCEPT ![u] = request'[u]]
        BY <3>1, <3>3, <3>5 DEF Becomes, TypeOK
      <4>2. /\ request'[u] \in Request /\ request'[u].pc = "link" /\ request'[u].siret = s
        BY <1>1, <4>1 DEF Request
      <4>3. request' \in [Users -> Request]
        BY <4>1, <4>2 DEF TypeOK
      <4> QED BY <3>2, <3>4, <3>5, <4>2, <4>3 DEF TypeOK
    <3>6. CASE ~request[u].info.active
      <4>1. request' \in [Users -> Request] /\ request'[u] = Idle
        BY <1>2, <3>1, <3>3, <3>6 DEF Becomes, TypeOK
      <4> QED BY <3>4, <4>1 DEF Idle, TypeOK
    <3> QED BY <3>5, <3>6
  <2>4. CASE Decide(u)
    <3>1. request' \in [Users -> Request] /\ request'[u] = Idle
      BY <1>2, <2>4 DEF Decide, Becomes, TypeOK
    <3>2. link' \subseteq Users \X Sirets
      BY <1>1, <2>4 DEF Decide, JoinsPlaced, TypeOK
    <3> QED BY <3>1, <3>2 DEF Idle
  <2>5. CASE JoinFails(u)
    <3>1. request' \in [Users -> Request] /\ request'[u] = Idle
      BY <1>2, <2>5 DEF JoinFails, Becomes, TypeOK
    <3> QED BY <2>5, <3>1 DEF JoinFails, Idle, TypeOK
  <2> QED BY <2>1, <2>2, <2>3, <2>4, <2>5 DEF Join
<1>5. UNCHANGED row \/ \E s \in Sirets : Writes(s)
  <2>1. CASE UpsertAndCheck(u)
    <3>1. request[u].siret \in Sirets /\ request[u].info \in Info
      BY <1>1, <2>1 DEF UpsertAndCheck, JoinsPlaced
    <3>2. Writes(request[u].siret)
      BY <2>1, <3>1 DEF UpsertAndCheck, Writes
    <3> QED BY <3>1, <3>2
  <2> QED BY <2>1 DEF Join, Begin, Answered, Decide, JoinFails
<1>6. TableOK'
  BY <1>1, <1>5, TableStays, WriteGrows
<1>7. TypeOK'
  BY <1>1, <1>3, <1>4, <1>6 DEF TypeOK, TableOK
<1>8. JoinsPlaced'
  <2> SUFFICES ASSUME NEW v \in Users
               PROVE  LET q == request'[v] IN
                      /\ q.pc # "idle" => q.siret \in Sirets
                      /\ q.pc = "ask" => (SaysActive(establishment'[q.siret]) => wasActive'[v])
                      /\ q.pc = "upsert" => q.info \in Info /\ (q.info.active => wasActive'[v])
                      /\ q.pc = "link" => wasActive'[v]
    BY DEF JoinsPlaced
  <2>1. CASE v = u
    BY <1>3, <1>4, <2>1
  <2>2. CASE v # u
    <3>1. request'[v] = request[v] /\ wasActive'[v] = wasActive[v] /\ establishment' = establishment
      BY <1>3, <2>2 DEF Actors
    <3> QED BY <1>1, <3>1 DEF JoinsPlaced
  <2> QED BY <2>1, <2>2
<1>9. DomainsPlaced'
  <2>1. /\ domainJob' = domainJob /\ file' = file /\ establishment' = establishment
        /\ wasActive'["import-domains"] = wasActive["import-domains"]
    BY <1>3, UsersAssumption DEF Actors
  <2> QED BY <2>1 DEF Placed, DomainsPlaced, Current
<1>10. RefreshPlaced'
  BY <1>3 DEF Placed, RefreshPlaced
<1> QED BY <1>5, <1>7, <1>8, <1>9, <1>10 DEF Placed

LEMMA RefreshStep ==
  ASSUME PlacedInv, UpdateOrganizationsInfo
  PROVE  /\ UNCHANGED row \/ \E s \in Sirets : Writes(s)
         /\ PlacedInv'
<1> USE DEF PlacedInv
<1>1. TypeOK /\ RefreshPlaced /\ refresh \in Refresh
  BY DEF TypeOK, Placed
<1>2. RefreshOnly /\ NoRefresh \in Refresh
  BY DEF UpdateOrganizationsInfo, StartRefresh, ReadRow, RefreshAnswered, RefreshUpserts,
         RefreshStops, NoRefresh, Refresh
<1>3. NextRow \in Refresh /\ NextRow.pc = "read"
  BY <1>1 DEF NextRow, Refresh
\* What refresh becomes.
<1> DEFINE Own == refresh' \in Refresh /\ missed' \subseteq Sirets /\ starts' \in 0 .. MaxStarts
                  /\ RefreshPlaced'
<1>4. Own
  <2>1. CASE StartRefresh
    <3>1. refresh' \in Refresh /\ refresh'.pc = "read"
      BY <2>1 DEF StartRefresh, NoRefresh, Refresh
    <3>2. starts' \in 0 .. MaxStarts
      BY <1>1, <2>1, BoundsAssumption DEF StartRefresh, TypeOK
    <3> QED BY <2>1, <3>1, <3>2 DEF StartRefresh, RefreshPlaced
  <2>2. CASE ReadRow
    <3>1. refresh' \in Refresh /\ (refresh'.pc = "ask" => refresh'.siret \in Sirets)
          /\ refresh'.pc # "upsert"
      <4>1. CASE refresh' = [refresh EXCEPT !.pc = "completed"]
        BY <1>1, <4>1 DEF Refresh
      <4>2. CASE refresh' = [refresh EXCEPT !.offset = @ + 1]
        <5>1. refresh.pc = "read"
          BY <2>2 DEF ReadRow
        <5>2. refresh.offset + 1 \in Nat
          BY <1>1 DEF Refresh
        <5>3. refresh'.pc = "read"
          BY <1>1, <4>2, <5>1 DEF Refresh
        <5> QED BY <1>1, <4>2, <5>2, <5>3 DEF Refresh
      <4>3. ASSUME NEW s \in Selected, refresh' = [refresh EXCEPT !.pc = "ask", !.siret = s]
            PROVE  /\ refresh' \in Refresh /\ refresh'.pc = "ask"
                   /\ refresh'.siret \in Sirets
        <5>1. s \in Sirets
          BY DEF Selected, Stored
        <5> QED BY <1>1, <4>3, <5>1 DEF Refresh
      <4> QED BY <2>2, <4>1, <4>2, <4>3 DEF ReadRow
    <3> QED BY <1>1, <2>2, <3>1 DEF ReadRow, RefreshPlaced, TypeOK
  <2>3. CASE RefreshAnswered
    <3>1. PICK about \in Sirets : \E answer \in Answers(about) :
            IF answer = Failure
            THEN refresh' = NextRow /\ missed' = missed \cup {refresh.siret}
            ELSE refresh' = [refresh EXCEPT !.pc = "upsert", !.info = answer] /\ UNCHANGED missed
      BY <2>3 DEF RefreshAnswered
    <3>2. PICK answer \in Answers(about) :
            IF answer = Failure
            THEN refresh' = NextRow /\ missed' = missed \cup {refresh.siret}
            ELSE refresh' = [refresh EXCEPT !.pc = "upsert", !.info = answer] /\ UNCHANGED missed
      BY <3>1
    <3>3. refresh.siret \in Sirets /\ establishment[about] \in Establishment
      BY <1>1, <2>3 DEF RefreshAnswered, RefreshPlaced, TypeOK
    <3>4. CASE answer = Failure
      BY <1>1, <1>3, <2>3, <3>2, <3>3, <3>4 DEF RefreshAnswered, RefreshPlaced, TypeOK
    <3>5. CASE answer # Failure
      <4>1. answer \in Info
        BY <3>3, <3>5, InfoFacts DEF Answers
      <4>2. /\ refresh' \in Refresh /\ refresh'.pc = "upsert"
            /\ refresh'.siret = refresh.siret /\ refresh'.info = answer
        BY <1>1, <3>2, <3>5, <4>1 DEF Refresh
      <4> QED BY <1>1, <2>3, <3>2, <3>3, <3>5, <4>1, <4>2
              DEF RefreshAnswered, RefreshPlaced, TypeOK
    <3> QED BY <3>4, <3>5
  <2>4. CASE RefreshUpserts
    BY <1>1, <1>3, <2>4 DEF RefreshUpserts, RefreshPlaced, TypeOK
  <2>5. CASE RefreshStops
    <3>1. refresh' \in Refresh /\ refresh'.pc = "stopped"
      BY <1>2, <2>5 DEF RefreshStops, NoRefresh
    <3> QED BY <1>1, <2>5, <3>1 DEF RefreshStops, RefreshPlaced, TypeOK
  <2> QED BY <2>1, <2>2, <2>3, <2>4, <2>5 DEF UpdateOrganizationsInfo
<1>5. UNCHANGED row \/ \E s \in Sirets : Writes(s)
  <2>1. CASE RefreshUpserts
    <3>1. refresh.siret \in Sirets /\ refresh.info \in Info
      BY <1>1, <2>1 DEF RefreshUpserts, RefreshPlaced
    <3>2. Writes(refresh.siret)
      BY <2>1, <3>1 DEF RefreshUpserts, Writes
    <3> QED BY <3>1, <3>2
  <2> QED BY <2>1 DEF UpdateOrganizationsInfo, StartRefresh, ReadRow, RefreshAnswered, RefreshStops
<1>6. TableOK'
  BY <1>1, <1>5, TableStays, WriteGrows
<1>7. TypeOK'
  BY <1>1, <1>2, <1>4, <1>6 DEF TypeOK, TableOK, RefreshOnly
<1>8. JoinsPlaced' /\ DomainsPlaced'
  BY <1>2 DEF Placed, JoinsPlaced, DomainsPlaced, Current, RefreshOnly
<1> QED BY <1>4, <1>5, <1>7, <1>8 DEF Placed

LEMMA DomainsStep ==
  ASSUME PlacedInv, ImportDomains
  PROVE  /\ UNCHANGED row \/ \E s \in Sirets : Writes(s)
         /\ PlacedInv'
<1> USE DEF PlacedInv
<1> DEFINE a == "import-domains"
<1>1. TypeOK /\ DomainsPlaced /\ domainJob \in DomainJob /\ file \in Seq(Line)
  BY FilesAssumption DEF TypeOK, Placed
<1>2. DomainsOnly /\ NoDomainJob \in DomainJob
  BY DEF ImportDomains, StartDomains, ReadLine, DomainsAnswered, DomainsUpserts, FindDomains,
         AddDomain, DomainsFails, DomainsKilled, NoDomainJob, DomainJob
\* What domainJob becomes.
<1> DEFINE Own ==
      /\ domainJob' \in DomainJob /\ starts' \in 0 .. MaxStarts
      /\ emailDomains' \subseteq Sirets \X Domains \X Types
      /\ wasActive' \in [Actors -> BOOLEAN]
      /\ \A u \in Users : wasActive'[u] = wasActive[u]
      /\ DomainsPlaced'
<1>3. ASSUME NextLine, domainJob.pc # "stopped", UNCHANGED <<starts, wasActive>>,
             emailDomains' \subseteq Sirets \X Domains \X Types
      PROVE  Own
  <2>1. domainJob.line \in Nat /\ domainJob.line > 0
    BY <1>1, <1>3 DEF DomainsPlaced, DomainJob
  <2>2. domainJob' \in DomainJob /\ domainJob'.pc = "read" /\ domainJob'.line > 0
    BY <1>3, <2>1 DEF NextLine, DomainJob
  <2> QED BY <1>1, <1>3, <2>2 DEF DomainsPlaced, TypeOK, Actors
<1>4. Own
  <2>1. CASE StartDomains
    <3>1. domainJob' \in DomainJob /\ domainJob'.pc = "read" /\ domainJob'.line > 0
      BY <2>1 DEF StartDomains, NoDomainJob, DomainJob
    <3>2. starts' \in 0 .. MaxStarts
      BY <1>1, <2>1, BoundsAssumption DEF StartDomains, TypeOK
    <3> QED BY <1>1, <2>1, <3>1, <3>2 DEF StartDomains, DomainsPlaced, TypeOK, Actors
  <2>2. CASE ReadLine
    <3>1. UNCHANGED <<emailDomains, starts>> /\ domainJob.pc = "read"
      BY <2>2 DEF ReadLine
    <3>2. domainJob.line \in Nat \ {0}
      BY <1>1, <3>1 DEF DomainsPlaced, DomainJob
    <3>3. CASE domainJob.line > Len(file)
      <4>1. domainJob' = NoDomainJob /\ UNCHANGED wasActive
        BY <2>2, <3>3 DEF ReadLine
      <4>2. domainJob' \in DomainJob /\ domainJob'.pc = "stopped"
        BY <1>2, <4>1 DEF NoDomainJob
      <4> QED BY <1>1, <3>1, <4>1, <4>2 DEF DomainsPlaced, TypeOK, Actors
    <3>4. CASE ~(domainJob.line > Len(file)) /\ None \in {Current.domain, Current.siret}
      BY <1>1, <1>3, <2>2, <3>1, <3>4 DEF ReadLine, TypeOK
    <3>5. CASE ~(domainJob.line > Len(file)) /\ None \notin {Current.domain, Current.siret}
      <4>1. /\ domainJob' = [domainJob EXCEPT !.pc = "ask"]
            /\ wasActive' = [wasActive EXCEPT ![a] = SaysActive(establishment[Current.siret])]
        BY <2>2, <3>5 DEF ReadLine
      <4>2. domainJob.line \in 1 .. Len(file)
        BY <1>1, <3>2, <3>5
      <4>3. Current \in [domain : Domains, siret : Sirets]
        <5>1. Current \in Line
          BY <1>1, <4>2 DEF Current
        <5> QED BY <3>5, <5>1 DEF Line
      <4>4. domainJob' \in DomainJob /\ domainJob'.pc = "ask" /\ domainJob'.line = domainJob.line
        BY <1>1, <4>1 DEF DomainJob
      <4>5. SaysActive(establishment[Current.siret]) \in BOOLEAN
        BY <1>1, <4>3 DEF SaysActive, Told, TypeOK, Establishment
      <4>6. file' = file /\ establishment' = establishment /\ Current' = Current
        BY <1>2, <4>4 DEF DomainsOnly, Current
      <4>7. /\ wasActive' \in [Actors -> BOOLEAN]
            /\ \A u \in Users : wasActive'[u] = wasActive[u]
        BY <1>1, <4>1, <4>5, UsersAssumption DEF TypeOK, Actors
      <4>8. SaysActive(establishment[Current.siret]) => wasActive'[a]
        BY <1>1, <4>1 DEF TypeOK, Actors
      <4>9. DomainsPlaced'
        BY <3>2, <4>2, <4>3, <4>4, <4>6, <4>8 DEF DomainsPlaced
      <4> QED BY <1>1, <3>1, <4>4, <4>7, <4>9 DEF TypeOK
    <3> QED BY <3>3, <3>4, <3>5
  <2>3. CASE DomainsAnswered
    <3>1. PICK answer \in Answers(Current.siret) :
            IF answer = Failure \/ ~answer.active THEN NextLine
            ELSE domainJob' = [domainJob EXCEPT !.pc = "upsert", !.info = answer]
      BY <2>3 DEF DomainsAnswered
    <3>2. /\ UNCHANGED <<emailDomains, starts, wasActive>> /\ domainJob.pc = "ask"
          /\ Current \in [domain : Domains, siret : Sirets]
      BY <1>1, <2>3 DEF DomainsAnswered, DomainsPlaced
    <3>3. CASE answer = Failure \/ ~answer.active
      BY <1>1, <1>3, <3>1, <3>2, <3>3 DEF TypeOK
    <3>4. CASE ~(answer = Failure \/ ~answer.active)
      <4>1. establishment[Current.siret] \in Establishment
        BY <1>1, <3>2 DEF TypeOK
      <4>2. answer \in Info /\ SaysActive(establishment[Current.siret])
        BY <3>4, <4>1, InfoFacts DEF Answers
      <4>3. /\ domainJob' \in DomainJob /\ domainJob'.pc = "upsert"
            /\ domainJob'.line = domainJob.line /\ domainJob'.info = answer
        BY <1>1, <3>1, <3>4, <4>2 DEF DomainJob
      <4>4. file' = file /\ Current' = Current
        BY <1>2, <4>3 DEF DomainsOnly, Current
      <4>5. DomainsPlaced'
        BY <1>1, <3>2, <4>2, <4>3, <4>4 DEF DomainsPlaced
      <4> QED BY <1>1, <3>2, <4>3, <4>5 DEF TypeOK
    <3> QED BY <3>3, <3>4
  <2>4. CASE DomainsUpserts
    <3>1. /\ UNCHANGED <<emailDomains, starts, wasActive>> /\ domainJob.pc = "upsert"
          /\ domainJob' = [domainJob EXCEPT !.pc = "find", !.info = NoInfo]
      BY <2>4 DEF DomainsUpserts
    <3>2. /\ domainJob' \in DomainJob /\ domainJob'.pc = "find"
          /\ domainJob'.line = domainJob.line
      BY <1>1, <3>1 DEF DomainJob
    <3>3. file' = file /\ Current' = Current
      BY <1>2, <3>2 DEF DomainsOnly, Current
    <3> QED BY <1>1, <3>1, <3>2, <3>3 DEF DomainsPlaced, TypeOK
  <2>5. CASE FindDomains
    <3>1. UNCHANGED <<emailDomains, starts, wasActive>> /\ domainJob.pc = "find"
      BY <2>5 DEF FindDomains
    <3>2. CASE domainJob' = [domainJob EXCEPT !.pc = "add"]
      <4>1. /\ domainJob' \in DomainJob /\ domainJob'.pc = "add"
            /\ domainJob'.line = domainJob.line
        BY <1>1, <3>2 DEF DomainJob
      <4>2. file' = file /\ Current' = Current
        BY <1>2, <4>1 DEF DomainsOnly, Current
      <4> QED BY <1>1, <3>1, <4>1, <4>2 DEF DomainsPlaced, TypeOK
    <3>3. CASE NextLine
      BY <1>1, <1>3, <3>1, <3>3 DEF TypeOK
    <3> QED BY <2>5, <3>2, <3>3 DEF FindDomains
  <2>6. CASE AddDomain
    <3>1. Current.siret \in Sirets /\ Current.domain \in Domains
      BY <1>1, <2>6 DEF AddDomain, DomainsPlaced
    <3>2. emailDomains' \subseteq Sirets \X Domains \X Types
      BY <1>1, <2>6, <3>1 DEF AddDomain, TypeOK, Types
    <3> QED BY <1>3, <2>6, <3>2 DEF AddDomain
  <2>7. CASE DomainsFails
    BY <1>1, <1>3, <2>7 DEF DomainsFails, TypeOK
  <2>8. CASE DomainsKilled
    <3>1. domainJob' \in DomainJob /\ domainJob'.pc = "stopped"
      BY <1>2, <2>8 DEF DomainsKilled, NoDomainJob
    <3> QED BY <1>1, <2>8, <3>1 DEF DomainsKilled, DomainsPlaced, TypeOK, Actors
  <2> QED BY <2>1, <2>2, <2>3, <2>4, <2>5, <2>6, <2>7, <2>8 DEF ImportDomains
<1>5. UNCHANGED row \/ \E s \in Sirets : Writes(s)
  <2>1. CASE DomainsUpserts
    <3>1. Current.siret \in Sirets /\ domainJob.info \in Info
      BY <1>1, <2>1 DEF DomainsUpserts, DomainsPlaced
    <3>2. Writes(Current.siret)
      BY <2>1, <3>1 DEF DomainsUpserts, Writes
    <3> QED BY <3>1, <3>2
  <2> QED BY <2>1 DEF ImportDomains, StartDomains, ReadLine, DomainsAnswered, FindDomains,
                      AddDomain, DomainsFails, DomainsKilled
<1>6. TableOK'
  BY <1>1, <1>5, TableStays, WriteGrows
<1>7. TypeOK'
  BY <1>1, <1>2, <1>4, <1>6 DEF TypeOK, TableOK, DomainsOnly
<1>8. JoinsPlaced' /\ RefreshPlaced'
  BY <1>2, <1>4 DEF Placed, JoinsPlaced, RefreshPlaced, DomainsOnly
<1> QED BY <1>4, <1>5, <1>7, <1>8 DEF Placed

LEMMA OutsideStep ==
  ASSUME PlacedInv, NEW s \in Sirets,
         \/ \E e \in Establishment : ChangesAtInsee(s, e)
         \/ \E d \in Domains : MarkDomain(s, d)
  PROVE  UNCHANGED <<row, refresh, missed>> /\ PlacedInv'
<1> USE DEF PlacedInv
<1>1. TypeOK /\ Placed
  OBVIOUS
<1>2. ASSUME NEW d \in Domains, MarkDomain(s, d)
      PROVE  UNCHANGED <<row, refresh, missed>> /\ PlacedInv'
  <2>1. UNCHANGED <<establishment, changes, row, link, request, refresh, file, domainJob,
                    starts, missed, wasActive>>
    BY <1>2 DEF MarkDomain
  <2>2. emailDomains' \subseteq Sirets \X Domains \X Types
    BY <1>1, <1>2 DEF MarkDomain, TypeOK, Types
  <2>3. TypeOK'
    BY <1>1, <2>1, <2>2 DEF TypeOK, Stored
  <2>4. Placed'
    BY <1>1, <2>1 DEF Placed, JoinsPlaced, DomainsPlaced, RefreshPlaced, Current
  <2> QED BY <2>1, <2>3, <2>4
<1>3. ASSUME NEW e \in Establishment, ChangesAtInsee(s, e)
      PROVE  UNCHANGED <<row, refresh, missed>> /\ PlacedInv'
  <2>1. UNCHANGED <<row, emailDomains, link, request, refresh, file, domainJob, starts, missed>>
    BY <1>3 DEF ChangesAtInsee
  <2>2. /\ establishment' \in [Sirets -> Establishment] /\ establishment'[s] = e
        /\ \A t \in Sirets \ {s} : establishment'[t] = establishment[t]
    BY <1>1, <1>3 DEF ChangesAtInsee, TypeOK
  <2>3. changes' \in 0 .. MaxChanges
    BY <1>1, <1>3, BoundsAssumption DEF ChangesAtInsee, TypeOK
  <2>4. /\ wasActive' \in [Actors -> BOOLEAN]
        /\ \A a \in Actors :
             /\ wasActive[a] => wasActive'[a]
             /\ SaysActive(e) /\ a \in TurnedTo(s) => wasActive'[a]
    <3>1. wasActive' = [a \in Actors |-> wasActive[a] \/ (SaysActive(e) /\ a \in TurnedTo(s))]
      BY <1>3 DEF ChangesAtInsee
    <3>2. \A a \in Actors : (wasActive[a] \/ (SaysActive(e) /\ a \in TurnedTo(s))) \in BOOLEAN
      OBVIOUS
    <3> QED BY <3>1, <3>2
  <2>5. TypeOK'
    BY <1>1, <2>1, <2>2, <2>3, <2>4 DEF TypeOK, Stored
  <2>6. JoinsPlaced'
    <3> SUFFICES ASSUME NEW u \in Users
                 PROVE  /\ request[u].pc # "idle" => request[u].siret \in Sirets
                        /\ request[u].pc = "ask" =>
                             (SaysActive(establishment'[request[u].siret]) => wasActive'[u])
                        /\ request[u].pc = "upsert" =>
                             request[u].info \in Info /\ (request[u].info.active => wasActive'[u])
                        /\ request[u].pc = "link" => wasActive'[u]
      BY <2>1 DEF JoinsPlaced
    <3>1. JoinsPlaced /\ u \in Actors
      BY <1>1 DEF Placed, Actors
    <3>2. request[u].pc = "ask" /\ request[u].siret = s => u \in TurnedTo(s)
      BY DEF TurnedTo
    <3>3. request[u].pc = "ask" =>
            (SaysActive(establishment'[request[u].siret]) => wasActive'[u])
      <4>1. CASE request[u].siret = s
        BY <2>2, <2>4, <3>1, <3>2, <4>1
      <4>2. CASE request[u].siret # s
        <5> SUFFICES ASSUME request[u].pc = "ask"
                     PROVE  SaysActive(establishment'[request[u].siret]) => wasActive'[u]
          OBVIOUS
        <5>1. request[u].siret \in Sirets \ {s}
          BY <3>1, <4>2 DEF JoinsPlaced
        <5>2. establishment'[request[u].siret] = establishment[request[u].siret]
          BY <2>2, <5>1
        <5> QED BY <2>4, <3>1, <5>2 DEF JoinsPlaced
      <4> QED BY <4>1, <4>2
    <3> QED BY <2>4, <3>1, <3>3 DEF JoinsPlaced
  <2>7. DomainsPlaced'
    <3> DEFINE a == "import-domains"
    <3>1. DomainsPlaced /\ a \in Actors /\ Current' = Current
      BY <1>1, <2>1 DEF Placed, Actors, Current
    <3>2. domainJob.pc = "ask" => (SaysActive(establishment'[Current.siret]) => wasActive'[a])
      <4> SUFFICES ASSUME domainJob.pc = "ask"
                   PROVE  SaysActive(establishment'[Current.siret]) => wasActive'[a]
        OBVIOUS
      <4>1. Current.siret \in Sirets
        BY <3>1 DEF DomainsPlaced
      <4>2. CASE Current.siret = s
        <5>1. a \in TurnedTo(s)
          BY <4>2 DEF TurnedTo, Current
        <5> QED BY <2>2, <2>4, <3>1, <4>2, <5>1
      <4>3. CASE Current.siret # s
        <5>1. establishment'[Current.siret] = establishment[Current.siret]
          BY <2>2, <4>1, <4>3
        <5> QED BY <2>4, <3>1, <5>1 DEF DomainsPlaced
      <4> QED BY <4>2, <4>3
    <3> QED BY <2>1, <2>4, <3>1, <3>2 DEF DomainsPlaced
  <2>8. RefreshPlaced'
    BY <1>1, <2>1 DEF Placed, RefreshPlaced
  <2> QED BY <2>1, <2>5, <2>6, <2>7, <2>8 DEF Placed
<1> QED BY <1>2, <1>3

-------------------------------------------------------------------------------
(* What refresh has gone by.                                               *)

LEMMA OthersLeaveIt ==
  ASSUME Inv, PlacedInv', UNCHANGED <<refresh, missed>>,
         UNCHANGED row \/ \E s \in Sirets : Writes(s)
  PROVE  GoneBy'
<1>1. TypeOK /\ TypeOK' /\ GoneBy
  BY DEF Inv, PlacedInv
<1>2. CASE UNCHANGED row
  BY <1>1, <1>2 DEF GoneBy, Done, Before, Selected, Stored
<1>3. ASSUME NEW s \in Sirets, Writes(s)
      PROVE  GoneBy'
  <2>1. Grown(s)
    BY <1>1, <1>3, WriteGrows
  <2>2. refresh \in Refresh
    BY <1>1 DEF TypeOK
  <2>3. Done(s)'
    BY <2>1 DEF Grown, Done
  <2>4. ASSUME NEW t \in Stored', t # s
        PROVE  /\ t \in Stored /\ (Done(t) => Done(t)')
               /\ Cardinality(Before(t)) \in Nat /\ Cardinality(Before(t)') \in Nat
               /\ Cardinality(Before(t)) <= Cardinality(Before(t)')
    <3>1. t \in Stored /\ row'[t] = row[t]
      BY <2>1, <2>4 DEF Grown
    <3>2. Cardinality(Before(t)) <= Cardinality(Before(t)')
      BY <1>1, <2>1, <3>1, PositionsGrow
    <3>3. Cardinality(Before(t)) \in Nat
      BY <1>1, <3>1, Positions
    <3>4. Cardinality(Before(t)') \in Nat
      <4>1. Before(t)' \in SUBSET Sirets
        BY DEF Before, Selected, Stored
      <4>2. IsFiniteSet(Before(t)')
        BY <4>1, SiretsAssumption, FS_Subset
      <4> QED BY <4>2, FS_CardinalityType
    <3> QED BY <3>1, <3>2, <3>3, <3>4 DEF Done
  <2>5. refresh'.pc = "read" =>
          \A t \in Stored' : Cardinality(Before(t)') < refresh'.offset => Done(t)'
    <3> SUFFICES ASSUME refresh.pc = "read", NEW t \in Stored',
                        Cardinality(Before(t)') < refresh.offset, t # s
                 PROVE  Done(t)'
      BY <2>3
    <3>1. Cardinality(Before(t)) < refresh.offset /\ t \in Stored
      BY <2>2, <2>4 DEF Refresh
    <3> QED BY <1>1, <2>4, <3>1 DEF GoneBy
  <2>6. refresh'.pc \in {"ask", "upsert"} =>
          \A t \in Stored' :
            Cardinality(Before(t)') <= refresh'.offset => Done(t)' \/ t = refresh'.siret
    <3> SUFFICES ASSUME refresh.pc \in {"ask", "upsert"}, NEW t \in Stored',
                        Cardinality(Before(t)') <= refresh.offset, t # s
                 PROVE  Done(t)' \/ t = refresh.siret
      BY <2>3
    <3>1. Cardinality(Before(t)) <= refresh.offset /\ t \in Stored
      BY <2>2, <2>4 DEF Refresh
    <3> QED BY <1>1, <2>4, <3>1 DEF GoneBy
  <2>7. refresh'.pc = "completed" => \A t \in Stored' : Done(t)'
    BY <1>1, <2>3, <2>4 DEF GoneBy
  <2> QED BY <2>5, <2>6, <2>7 DEF GoneBy
<1> QED BY <1>2, <1>3

LEMMA RefreshGoesOn ==
  ASSUME Inv, PlacedInv', UpdateOrganizationsInfo
  PROVE  GoneBy'
<1>1. TypeOK /\ TypeOK' /\ GoneBy /\ Placed /\ refresh \in Refresh
  BY DEF Inv, PlacedInv, TypeOK
<1>2. \A t \in Stored : Cardinality(Before(t)) \in Nat
  BY <1>1, Positions
<1>3. CASE StartRefresh
  <2>1. UNCHANGED row /\ refresh'.pc = "read" /\ refresh'.offset = 0
    BY <1>3 DEF StartRefresh, NoRefresh
  <2>2. \A t \in Stored : Stored' = Stored /\ Before(t)' = Before(t)
    BY <2>1 DEF Before, Selected, Stored
  <2>3. \A t \in Stored' : ~(Cardinality(Before(t)') < 0)
    BY <1>2, <2>1, <2>2 DEF Stored
  <2> QED BY <2>1, <2>3 DEF GoneBy
<1>4. CASE ReadRow
  <2>1. refresh.pc = "read" /\ UNCHANGED <<row, missed>>
    BY <1>4 DEF ReadRow
  <2>2. Stored' = Stored /\ \A t \in Stored : (Done(t)' <=> Done(t)) /\ Before(t)' = Before(t)
    BY <2>1 DEF Before, Selected, Stored, Done
  <2>3. \A t \in Stored : Cardinality(Before(t)) < refresh.offset => Done(t)
    BY <1>1, <2>1 DEF GoneBy
  <2>4. CASE Cardinality(Selected) <= refresh.offset
             /\ refresh' = [refresh EXCEPT !.pc = "completed"]
    <3>1. \A t \in Stored : Cardinality(Before(t)) < refresh.offset
      BY <1>1, <2>4, Positions DEF Selected, Refresh
    <3>2. \A t \in Stored : Done(t)
      BY <2>3, <3>1
    <3>3. refresh'.pc = "completed"
      BY <1>1, <2>4 DEF Refresh
    <3> QED BY <2>2, <3>2, <3>3 DEF GoneBy
  <2>5. ASSUME NEW s \in Selected, Cardinality(Before(s)) = refresh.offset,
               row[s].info # NoInfo, refresh' = [refresh EXCEPT !.offset = @ + 1]
        PROVE  GoneBy'
    <3>1. refresh'.pc = "read" /\ refresh'.offset = refresh.offset + 1
      BY <1>1, <2>1, <2>5 DEF Refresh
    <3>2. ASSUME NEW t \in Stored, Cardinality(Before(t)) < refresh.offset + 1
          PROVE  Done(t)
      <4>1. CASE Cardinality(Before(t)) = refresh.offset
        <5>1. t = s
          BY <1>1, <2>5, <4>1, Positions DEF Selected
        <5> QED BY <2>5, <5>1 DEF Done
      <4>2. CASE Cardinality(Before(t)) # refresh.offset
        <5>1. Cardinality(Before(t)) < refresh.offset
          BY <1>1, <1>2, <3>2, <4>2 DEF Refresh
        <5> QED BY <2>3, <5>1
      <4> QED BY <4>1, <4>2
    <3> QED BY <2>2, <3>1, <3>2 DEF GoneBy
  <2>6. ASSUME NEW s \in Selected, Cardinality(Before(s)) = refresh.offset,
               refresh' = [refresh EXCEPT !.pc = "ask", !.siret = s]
        PROVE  GoneBy'
    <3>1. refresh'.pc = "ask" /\ refresh'.offset = refresh.offset /\ refresh'.siret = s
      BY <1>1, <2>6 DEF Refresh
    <3>2. ASSUME NEW t \in Stored, Cardinality(Before(t)) <= refresh.offset
          PROVE  Done(t) \/ t = s
      <4>1. CASE Cardinality(Before(t)) = refresh.offset
        BY <1>1, <2>6, <4>1, Positions DEF Selected
      <4>2. CASE Cardinality(Before(t)) # refresh.offset
        <5>1. Cardinality(Before(t)) < refresh.offset
          BY <1>1, <1>2, <3>2, <4>2 DEF Refresh
        <5> QED BY <2>3, <5>1
      <4> QED BY <4>1, <4>2
    <3> QED BY <2>2, <3>1, <3>2 DEF GoneBy
  <2> QED BY <1>4, <2>4, <2>5, <2>6 DEF ReadRow
<1>5. CASE RefreshAnswered
  <2>1. /\ refresh.pc = "ask" /\ UNCHANGED row
        /\ \/ refresh' = NextRow /\ missed' = missed \cup {refresh.siret}
           \/ (\E answer \in UNION {Answers(about) : about \in Sirets} :
                 refresh' = [refresh EXCEPT !.pc = "upsert", !.info = answer])
              /\ UNCHANGED missed
    BY <1>5 DEF RefreshAnswered
  <2>2. Stored' = Stored /\ \A t \in Stored : (Done(t) => Done(t)') /\ Before(t)' = Before(t)
    BY <2>1 DEF Before, Selected, Stored, Done
  <2>3. \A t \in Stored :
          Cardinality(Before(t)) <= refresh.offset => Done(t) \/ t = refresh.siret
    BY <1>1, <2>1 DEF GoneBy
  <2>4. CASE refresh' = NextRow /\ missed' = missed \cup {refresh.siret}
    <3>1. refresh'.pc = "read" /\ refresh'.offset = refresh.offset + 1
      BY <2>4 DEF NextRow
    <3>2. ASSUME NEW t \in Stored, Cardinality(Before(t)) < refresh.offset + 1
          PROVE  Done(t)'
      <4>1. Cardinality(Before(t)) <= refresh.offset
        BY <1>1, <1>2, <3>2 DEF Refresh
      <4> QED BY <2>2, <2>3, <2>4, <4>1 DEF Done
    <3> QED BY <2>2, <3>1, <3>2 DEF GoneBy
  <2>5. ASSUME NEW answer \in UNION {Answers(about) : about \in Sirets},
               refresh' = [refresh EXCEPT !.pc = "upsert", !.info = answer]
        PROVE  GoneBy'
    <3>1. /\ refresh'.pc = "upsert" /\ refresh'.offset = refresh.offset
          /\ refresh'.siret = refresh.siret
      BY <1>1, <2>5 DEF Refresh
    <3> QED BY <2>2, <2>3, <3>1 DEF GoneBy
  <2> QED BY <2>1, <2>4, <2>5
<1>6. CASE RefreshUpserts
  <2> DEFINE s == refresh.siret
  <2>1. refresh.pc = "upsert" /\ UNCHANGED missed /\ s \in Sirets /\ refresh.info \in Info
    BY <1>1, <1>6 DEF RefreshUpserts, Placed, RefreshPlaced
  <2>2. Writes(s)
    BY <1>6, <2>1 DEF RefreshUpserts, Writes
  <2>3. Grown(s)
    BY <1>1, <2>1, <2>2, WriteGrows
  <2>4. refresh'.pc = "read" /\ refresh'.offset = refresh.offset + 1
    BY <1>6 DEF RefreshUpserts, NextRow
  <2>5. ASSUME NEW t \in Stored', Cardinality(Before(t)') < refresh.offset + 1
        PROVE  Done(t)'
    <3>1. CASE t = s
      BY <2>3, <3>1 DEF Grown, Done
    <3>2. CASE t # s
      <4>1. t \in Stored /\ row'[t] = row[t]
        BY <2>3, <3>2 DEF Grown
      <4>2. Cardinality(Before(t)) <= Cardinality(Before(t)')
        BY <1>1, <2>1, <2>3, <4>1, PositionsGrow
      <4>3. Cardinality(Before(t)') \in Nat
        <5>1. Before(t)' \in SUBSET Sirets
          BY DEF Before, Selected, Stored
        <5>2. IsFiniteSet(Before(t)')
          BY <5>1, SiretsAssumption, FS_Subset
        <5> QED BY <5>2, FS_CardinalityType
      <4>4. Cardinality(Before(t)) <= refresh.offset
        BY <1>1, <1>2, <2>5, <4>1, <4>2, <4>3 DEF Refresh
      <4>5. Done(t)
        BY <1>1, <2>1, <3>2, <4>1, <4>4 DEF GoneBy
      <4> QED BY <2>1, <4>1, <4>5 DEF Done
    <3> QED BY <3>1, <3>2
  <2> QED BY <2>4, <2>5 DEF GoneBy
<1>7. CASE RefreshStops
  BY <1>7 DEF RefreshStops, NoRefresh, GoneBy
<1> QED BY <1>3, <1>4, <1>5, <1>6, <1>7 DEF UpdateOrganizationsInfo

-------------------------------------------------------------------------------
(* The theorems.                                                           *)

LEMMA InitInv == Init => Inv
<1> SUFFICES ASSUME Init PROVE Inv
  OBVIOUS
<1>1. /\ request = [u \in Users |-> Idle]
      /\ refresh = NoRefresh /\ domainJob = NoDomainJob
  BY DEF Init
<1>2. Idle \in Request /\ NoRefresh \in Refresh /\ NoDomainJob \in DomainJob
  BY DEF Idle, Request, NoRefresh, Refresh, NoDomainJob, DomainJob
<1>3. Open \in Establishment
  BY DEF Open, Establishment
<1>4. row \in [Sirets -> Row \cup {None}]
  BY DEF Init, Row
<1>5. TypeOK
  BY <1>1, <1>2, <1>3, <1>4, BoundsAssumption DEF Init, TypeOK
<1>6. Placed
  BY <1>1 DEF Placed, JoinsPlaced, DomainsPlaced, RefreshPlaced, Idle, NoRefresh, NoDomainJob
<1>7. GoneBy
  BY <1>1 DEF GoneBy, NoRefresh
<1> QED BY <1>5, <1>6, <1>7 DEF Inv, PlacedInv

LEMMA NextInv == Inv /\ [Next]_vars => Inv'
<1> SUFFICES ASSUME Inv, [Next]_vars PROVE Inv'
  OBVIOUS
<1>1. PlacedInv
  BY DEF Inv
<1>2. ASSUME NEW u \in Users, Join(u)
      PROVE  Inv'
  <2>1. UNCHANGED <<refresh, missed>>
    BY <1>2 DEF Join, Begin, Answered, UpsertAndCheck, Decide, JoinFails, Requests
  <2>2. PlacedInv' /\ (UNCHANGED row \/ \E s \in Sirets : Writes(s))
    BY <1>1, <1>2, JoinStep
  <2> QED BY <2>1, <2>2, OthersLeaveIt DEF Inv
<1>3. CASE UpdateOrganizationsInfo
  BY <1>1, <1>3, RefreshStep, RefreshGoesOn DEF Inv
<1>4. CASE ImportDomains
  <2>1. UNCHANGED <<refresh, missed>>
    BY <1>4 DEF ImportDomains, StartDomains, ReadLine, DomainsAnswered, DomainsUpserts,
                FindDomains, AddDomain, DomainsFails, DomainsKilled, DomainsOnly
  <2>2. PlacedInv' /\ (UNCHANGED row \/ \E s \in Sirets : Writes(s))
    BY <1>1, <1>4, DomainsStep
  <2> QED BY <2>1, <2>2, OthersLeaveIt DEF Inv
<1>5. ASSUME NEW s \in Sirets,
             \/ \E e \in Establishment : ChangesAtInsee(s, e)
             \/ \E d \in Domains : MarkDomain(s, d)
      PROVE  Inv'
  <2>1. UNCHANGED <<row, refresh, missed>> /\ PlacedInv'
    BY <1>1, <1>5, OutsideStep
  <2> QED BY <2>1, OthersLeaveIt DEF Inv
<1>6. CASE UNCHANGED vars
  <2>1. PlacedInv'
    BY <1>1, <1>6 DEF vars, PlacedInv, TypeOK, Stored, Placed, JoinsPlaced, DomainsPlaced,
                      RefreshPlaced, Current
  <2>2. UNCHANGED <<row, refresh, missed>>
    BY <1>6 DEF vars
  <2> QED BY <2>1, <2>2, OthersLeaveIt DEF Inv
<1> QED BY <1>2, <1>3, <1>4, <1>5, <1>6 DEF Next

LEMMA Invariant == Spec => []Inv
BY InitInv, NextInv, PTL DEF Spec

(***************************************************************************)
(* Everything has its type, and no name is stored of an organization that  *)
(* asks to hide it.                                                        *)
(***************************************************************************)
THEOREM TypeCorrect == Spec => []TypeOK
<1>1. Inv => TypeOK
  BY DEF Inv, PlacedInv
<1> QED BY <1>1, Invariant, PTL

(***************************************************************************)
(* When update-organizations-info is completed, only organizations INSEE   *)
(* gave no information for are without any.                                *)
(***************************************************************************)
THEOREM AllFetched == Spec => []EveryOrganizationIsFetched
<1>1. Inv => EveryOrganizationIsFetched
  BY DEF Inv, GoneBy, Done, EveryOrganizationIsFetched
<1> QED BY <1>1, Invariant, PTL

(***************************************************************************)
(* Users join, and domains are imported for, only organizations that INSEE *)
(* could say were active since they were turned to.                        *)
(***************************************************************************)
THEOREM OnlyActive == Spec => OnlyActiveIsUsed
<1> DEFINE A ==
      /\ \A u \in Users, s \in Sirets : <<u, s>> \in link' \ link => wasActive[u]
      /\ \A s \in Sirets, d \in Domains :
           <<s, d, "none">> \in emailDomains' \ emailDomains => wasActive["import-domains"]
<1>1. Inv /\ [Next]_vars => A \/ UNCHANGED vars
  <2> SUFFICES ASSUME Inv, Next PROVE A
    OBVIOUS
  <2>1. JoinsPlaced /\ DomainsPlaced
    BY DEF Inv, PlacedInv, Placed
  <2>2. ASSUME NEW u \in Users, Join(u)
        PROVE  A
    <3>1. emailDomains' = emailDomains
      BY <2>2 DEF Join, Begin, Answered, UpsertAndCheck, Decide, JoinFails, Requests
    <3>2. link' = link \/ (request[u].pc = "link" /\ link' = link \cup {<<u, request[u].siret>>})
      BY <2>2 DEF Join, Begin, Answered, UpsertAndCheck, Decide, JoinFails
    <3> QED BY <2>1, <3>1, <3>2 DEF JoinsPlaced
  <2>3. CASE UpdateOrganizationsInfo
    BY <2>3 DEF UpdateOrganizationsInfo, StartRefresh, ReadRow, RefreshAnswered, RefreshUpserts,
                RefreshStops, RefreshOnly
  <2>4. CASE ImportDomains
    <3>1. link' = link
      BY <2>4 DEF ImportDomains, StartDomains, ReadLine, DomainsAnswered, DomainsUpserts,
                  FindDomains, AddDomain, DomainsFails, DomainsKilled, DomainsOnly
    <3>2. emailDomains' = emailDomains \/ domainJob.pc = "add"
      BY <2>4 DEF ImportDomains, StartDomains, ReadLine, DomainsAnswered, DomainsUpserts,
                  FindDomains, AddDomain, DomainsFails, DomainsKilled
    <3> QED BY <2>1, <3>1, <3>2 DEF DomainsPlaced
  <2>5. ASSUME NEW s \in Sirets, NEW e \in Establishment, ChangesAtInsee(s, e)
        PROVE  A
    BY <2>5 DEF ChangesAtInsee
  <2>6. ASSUME NEW s \in Sirets, NEW d \in Domains, MarkDomain(s, d)
        PROVE  A
    BY <2>6 DEF MarkDomain
  <2> QED BY <2>2, <2>3, <2>4, <2>5, <2>6 DEF Next
<1>2. OnlyActiveIsUsed <=> [][A]_vars
  BY DEF OnlyActiveIsUsed
<1> HIDE DEF A
<1> QED BY <1>1, <1>2, Invariant, PTL DEF Spec
=============================================================================
