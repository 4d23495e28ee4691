---------------------------- MODULE OrganizationInfo ----------------------------
(***************************************************************************)
(* What is kept of organizations from INSEE: joins fetch and store it, one *)
(* script fetches it for the rows that never had it                        *)
(* (scripts/update-organizations-info.ts), another for the domains of a    *)
(* file (scripts/import-domains.ts), each query by query and all at once,  *)
(* while organizations open, close and hide their names.                   *)
(***************************************************************************)
EXTENDS Integers, FiniteSets, Sequences

CONSTANTS
  None,
  Sirets,
  Domains,
  Users,
  Files,            \* what import-domains may be given to read
  MaxChanges,       \* bound: how many times something changes at INSEE
  MaxStarts         \* bound: how many times the scripts are started

VARIABLES
  establishment,    \* what INSEE knows of a siret
  changes,          \* how many times that has changed
  row,              \* the row of a siret in organizations, None before it is inserted
  emailDomains,     \* the rows of email_domains
  link,             \* which users are in which organizations
  request,          \* the join of a user that is under way
  refresh,          \* what update-organizations-info is doing
  file, domainJob,  \* what import-domains was given to read, and is doing
  starts,           \* how many times scripts were started
  missed,           \* history: the sirets refresh went by without an answer
  wasActive         \* history: who INSEE could say that to, since they turned to a siret

vars == <<establishment, changes, row, emailDomains, link, request, refresh, file, domainJob,
          starts, missed, wasActive>>

\* None is a domain that is not valid or of a free provider, or a siret that is not valid.
\* A line of the file has several sirets; they are gone through one by one.
Line == [domain : Domains \cup {None}, siret : Sirets \cup {None}]

ASSUME SiretsAssumption == IsFiniteSet(Sirets) /\ None \notin Sirets
ASSUME FilesAssumption == Files \subseteq Seq(Line)
ASSUME BoundsAssumption == MaxChanges \in Nat /\ MaxStarts \in Nat

\* "N" is not to be shown, which is answered as if there were none; of "P" the names are not.
Establishment == [diffusion : {"O", "P", "N"}, active : BOOLEAN]
Open == [diffusion |-> "O", active |-> TRUE]

\* named is whether the name of the organization is told.
Info == {i \in [diffusion : {"O", "P"}, active : BOOLEAN, named : BOOLEAN] :
           i.diffusion = "P" => ~i.named}
Failure == [diffusion |-> "failed", active |-> FALSE, named |-> FALSE]
NoInfo == [diffusion |-> "not fetched", active |-> FALSE, named |-> FALSE]

Ids == 1 .. Cardinality(Sirets)
Row == [id : Ids, info : Info \cup {NoInfo}]
Types == {"none", "verified"}

Request == [pc : {"idle", "ask", "upsert", "link"}, siret : Sirets \cup {None},
            info : Info \cup {NoInfo}]
Idle == [pc |-> "idle", siret |-> None, info |-> NoInfo]

Refresh == [pc : {"stopped", "read", "ask", "upsert", "completed"}, offset : Nat,
            siret : Sirets \cup {None}, info : Info \cup {NoInfo}]
DomainJob == [pc : {"stopped", "read", "ask", "upsert", "find", "add"}, line : Nat,
              info : Info \cup {NoInfo}]

NoRefresh == [pc |-> "stopped", offset |-> 0, siret |-> None, info |-> NoInfo]
NoDomainJob == [pc |-> "stopped", line |-> 0, info |-> NoInfo]

ASSUME NoneAssumption == None \notin Row

\* The users, for their joins, and the script.
Actors == Users \cup {"import-domains"}

ASSUME UsersAssumption == "import-domains" \notin Users

Stored == {s \in Sirets : row[s] # None}

\* Rows that were there before anything was fetched have no information.
Init ==
  /\ establishment = [s \in Sirets |-> Open]
  /\ changes = 0
  /\ row \in [Sirets -> [id : Ids, info : {NoInfo}] \cup {None}]
  /\ \A s, t \in Stored : row[s].id = row[t].id => s = t
  /\ emailDomains = {}
  /\ link = {}
  /\ request = [u \in Users |-> Idle]
  /\ refresh = NoRefresh
  /\ file \in Files
  /\ domainJob = NoDomainJob
  /\ starts = 0
  /\ missed = {}
  /\ wasActive = [a \in Actors |-> FALSE]

-------------------------------------------------------------------------------
(* INSEE, and the information made of its answers.                         *)

Told(e) == e.diffusion # "N"
SaysActive(e) == Told(e) /\ e.active

\* Mistake: the names of those that ask to hide them are kept.
hideNothing(info) == info

hideNonDiffusibleData(info) == [info EXCEPT !.named = FALSE]

getOrganizationInfo(e) ==
  LET info == [diffusion |-> e.diffusion, active |-> e.active, named |-> TRUE] IN
  IF ~Told(e) THEN Failure
  ELSE IF e.diffusion = "P" THEN hideNonDiffusibleData(info) ELSE info

\* Or INSEE cannot be reached.
Answers(s) == {getOrganizationInfo(establishment[s]), Failure}

\* Those who are waiting for an answer about s.
TurnedTo(s) ==
  {u \in Users : request[u].pc # "idle" /\ request[u].siret = s} \cup
  (IF domainJob.pc \notin {"stopped", "read"} /\ file[domainJob.line].siret = s
   THEN {"import-domains"} ELSE {})

ChangesAtInsee(s, e) ==
  /\ changes < MaxChanges /\ e # establishment[s]
  /\ changes' = changes + 1
  /\ establishment' = [establishment EXCEPT ![s] = e]
  /\ wasActive' = [a \in Actors |-> wasActive[a] \/ (SaysActive(e) /\ a \in TurnedTo(s))]
  /\ UNCHANGED <<row, emailDomains, link, request, refresh, file, domainJob, starts, missed>>

-------------------------------------------------------------------------------
(* The table of organizations.                                             *)

\* Mistake: information that is there is not fetched anew.
InformationKept(s, id, info) ==
  IF row[s] = None THEN [id |-> id, info |-> info]
  ELSE IF row[s].info = NoInfo THEN [row[s] EXCEPT !.info = info] ELSE row[s]

\* The row that the upsert leaves and returns.
Upserted(s, id, info) ==
  IF row[s] = None THEN [id |-> id, info |-> info] ELSE [row[s] EXCEPT !.info = info]

\* An id is given when the query starts: one that others see later may be smaller.
FreeIds == Ids \ {row[s].id : s \in Stored}

Upsert(s, id, info) == row' = [row EXCEPT ![s] = Upserted(s, id, info)]
IdFor(s) == IF row[s] = None THEN FreeIds ELSE {row[s].id}

-------------------------------------------------------------------------------
(* Joins (managers/organization/join.ts), up to what Organizations decides. *)

Requests == UNCHANGED <<establishment, changes, emailDomains, refresh, file, domainJob,
                        starts, missed>>
Becomes(u, q) == request' = [request EXCEPT ![u] = q]

Begin(u, s) ==
  /\ request[u] = Idle
  /\ Becomes(u, [Idle EXCEPT !.pc = "ask", !.siret = s])
  /\ wasActive' = [wasActive EXCEPT ![u] = SaysActive(establishment[s])]
  /\ UNCHANGED <<row, link>> /\ Requests

\* Without an answer, the user is told so.
Answered(u) ==
  /\ request[u].pc = "ask"
  /\ \E answer \in Answers(request[u].siret) :
       Becomes(u, IF answer = Failure THEN Idle
                  ELSE [request[u] EXCEPT !.pc = "upsert", !.info = answer])
  /\ UNCHANGED <<row, link, wasActive>> /\ Requests

\* InseeNotActiveError is thrown by what the upsert returns.
UpsertAndCheck(u) ==
  LET s == request[u].siret IN
  /\ request[u].pc = "upsert"
  /\ \E id \in IdFor(s) :
       /\ Upsert(s, id, request[u].info)
       /\ Becomes(u, IF Upserted(s, id, request[u].info).info.active
                     THEN [request[u] EXCEPT !.pc = "link", !.info = NoInfo] ELSE Idle)
  /\ UNCHANGED <<link, wasActive>> /\ Requests

\* The user is linked; or is already, waits for a moderator or has to confirm.
Decide(u) ==
  /\ request[u].pc = "link"
  /\ link' \in {link, link \cup {<<u, request[u].siret>>}}
  /\ Becomes(u, Idle)
  /\ UNCHANGED <<row, wasActive>> /\ Requests

\* A query fails.
JoinFails(u) ==
  /\ request[u].pc \in {"upsert", "link"}
  /\ Becomes(u, Idle)
  /\ UNCHANGED <<row, link, wasActive>> /\ Requests

\* markDomainAsVerified, for a moderator or after an official contact has answered.
MarkDomain(s, d) ==
  /\ s \in Stored
  /\ emailDomains' = emailDomains \cup {<<s, d, "verified">>}
  /\ UNCHANGED <<establishment, changes, row, link, request, refresh, file, domainJob,
                 starts, missed, wasActive>>

-------------------------------------------------------------------------------
(* update-organizations-info: the rows by their ids, one after the other.  *)

RefreshOnly == UNCHANGED <<establishment, changes, emailDomains, link, request, file, domainJob,
                           wasActive>>

StartRefresh ==
  /\ refresh.pc \in {"stopped", "completed"} /\ starts < MaxStarts
  /\ starts' = starts + 1
  /\ refresh' = [NoRefresh EXCEPT !.pc = "read"]
  /\ missed' = {}
  /\ UNCHANGED row /\ RefreshOnly

\* Mistake: WHERE organization_info_fetched_at IS NULL, as the count before has it.
SelectedUnfetched == {s \in Stored : row[s].info = NoInfo}

\* The rows the query goes through.
Selected == Stored

\* How many of them come before the one of s.
Before(s) == {t \in Selected : row[t].id < row[s].id}

\* ORDER BY id LIMIT 1 OFFSET i: those that have information are skipped.
ReadRow ==
  /\ refresh.pc = "read"
  /\ \/ /\ Cardinality(Selected) <= refresh.offset
        /\ refresh' = [refresh EXCEPT !.pc = "completed"]
     \/ \E s \in Selected :
          /\ Cardinality(Before(s)) = refresh.offset
          /\ refresh' = IF row[s].info # NoInfo
                        THEN [refresh EXCEPT !.offset = @ + 1]
                        ELSE [refresh EXCEPT !.pc = "ask", !.siret = s]
  /\ UNCHANGED <<row, starts, missed>> /\ RefreshOnly

NextRow == [pc |-> "read", offset |-> refresh.offset + 1, siret |-> None, info |-> NoInfo]

\* Whatever is wrong with an answer, the script goes on; one about another organization is
\* logged as an error, and upserted all the same.
RefreshAnswered ==
  /\ refresh.pc = "ask"
  /\ \E about \in Sirets : \E answer \in Answers(about) :
       IF answer = Failure
       THEN refresh' = NextRow /\ missed' = missed \cup {refresh.siret}
       ELSE refresh' = [refresh EXCEPT !.pc = "upsert", !.info = answer] /\ UNCHANGED missed
  /\ UNCHANGED <<row, starts>> /\ RefreshOnly

RefreshUpserts ==
  /\ refresh.pc = "upsert"
  /\ \E id \in IdFor(refresh.siret) : Upsert(refresh.siret, id, refresh.info)
  /\ refresh' = NextRow
  /\ UNCHANGED <<starts, missed>> /\ RefreshOnly

\* A query fails, which ends the script, or it is killed.
RefreshStops ==
  /\ refresh.pc \notin {"stopped", "completed"}
  /\ refresh' = NoRefresh
  /\ UNCHANGED <<row, starts, missed>> /\ RefreshOnly

-------------------------------------------------------------------------------
(* import-domains: the lines of its file, one after the other.             *)

DomainsOnly == UNCHANGED <<establishment, changes, link, request, refresh, file, missed>>
Current == file[domainJob.line]
NextLine == domainJob' = [pc |-> "read", line |-> domainJob.line + 1, info |-> NoInfo]

StartDomains ==
  /\ domainJob.pc = "stopped" /\ starts < MaxStarts
  /\ starts' = starts + 1
  /\ domainJob' = [pc |-> "read", line |-> 1, info |-> NoInfo]
  /\ UNCHANGED <<row, emailDomains, wasActive>> /\ DomainsOnly

ReadLine ==
  /\ domainJob.pc = "read"
  /\ IF domainJob.line > Len(file)
     THEN domainJob' = NoDomainJob /\ UNCHANGED wasActive
     ELSE IF None \in {Current.domain, Current.siret} THEN NextLine /\ UNCHANGED wasActive
     ELSE /\ domainJob' = [domainJob EXCEPT !.pc = "ask"]
          /\ wasActive' = [wasActive EXCEPT
                             !["import-domains"] = SaysActive(establishment[Current.siret])]
  /\ UNCHANGED <<row, emailDomains, starts>> /\ DomainsOnly

DomainsAnswered ==
  /\ domainJob.pc = "ask"
  /\ \E answer \in Answers(Current.siret) :
       IF answer = Failure \/ ~answer.active THEN NextLine
       ELSE domainJob' = [domainJob EXCEPT !.pc = "upsert", !.info = answer]
  /\ UNCHANGED <<row, emailDomains, starts, wasActive>> /\ DomainsOnly

DomainsUpserts ==
  /\ domainJob.pc = "upsert"
  /\ \E id \in IdFor(Current.siret) : Upsert(Current.siret, id, domainJob.info)
  /\ domainJob' = [domainJob EXCEPT !.pc = "find", !.info = NoInfo]
  /\ UNCHANGED <<emailDomains, starts, wasActive>> /\ DomainsOnly

\* It goes on with the domains that are there, and calls the others already known.
FindDomains ==
  /\ domainJob.pc = "find"
  /\ IF \E type \in Types : <<Current.siret, Current.domain, type>> \in emailDomains
     THEN domainJob' = [domainJob EXCEPT !.pc = "add"] ELSE NextLine
  /\ UNCHANGED <<row, emailDomains, starts, wasActive>> /\ DomainsOnly

\* Refused when it is there without a type: the constraint holds of nulls too.
AddDomain ==
  /\ domainJob.pc = "add"
  /\ emailDomains' = emailDomains \cup {<<Current.siret, Current.domain, "none">>}
  /\ NextLine
  /\ UNCHANGED <<row, starts, wasActive>> /\ DomainsOnly

\* A query fails: the script goes on.
DomainsFails ==
  /\ domainJob.pc \in {"upsert", "find", "add"}
  /\ NextLine
  /\ UNCHANGED <<row, emailDomains, starts, wasActive>> /\ DomainsOnly

DomainsKilled ==
  /\ domainJob.pc # "stopped"
  /\ domainJob' = NoDomainJob
  /\ UNCHANGED <<row, emailDomains, starts, wasActive>> /\ DomainsOnly

-------------------------------------------------------------------------------
Join(u) ==
  \/ \E s \in Sirets : Begin(u, s)
  \/ Answered(u) \/ UpsertAndCheck(u) \/ Decide(u) \/ JoinFails(u)

UpdateOrganizationsInfo ==
  StartRefresh \/ ReadRow \/ RefreshAnswered \/ RefreshUpserts \/ RefreshStops

ImportDomains ==
  \/ StartDomains \/ ReadLine \/ DomainsAnswered \/ DomainsUpserts
  \/ FindDomains \/ AddDomain \/ DomainsFails \/ DomainsKilled

Next ==
  \/ \E u \in Users : Join(u)
  \/ UpdateOrganizationsInfo
  \/ ImportDomains
  \/ \E s \in Sirets : \/ \E e \in Establishment : ChangesAtInsee(s, e)
                       \/ \E d \in Domains : MarkDomain(s, d)

Spec == Init /\ [][Next]_vars
=============================================================================
