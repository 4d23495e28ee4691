-------------------------------- MODULE Imports --------------------------------
(***************************************************************************)
(* Accounts imported from a file, entry by entry and query by query, while *)
(* the site is open (scripts/import-accounts.ts, for Inclusion Connect,    *)
(* and scripts/import-accounts-coop.ts, for the digital mediators).        *)
(*                                                                         *)
(* A script may be killed at any await and started again: it begins with   *)
(* the first entry, and writes its results over those of before.           *)
(***************************************************************************)
EXTENDS Integers, Sequences

CONSTANTS
  None,
  Emails,
  Sirets,
  Files,            \* what each script may be given to read
  MaxIds,           \* bound: how many accounts are ever created
  MaxStarts         \* bound: how many times the script is started

VARIABLES
  script,           \* which script it is; never changes
  file,             \* its input; never changes
  user,             \* the row of an id, None before it is created and after it is deleted
  link,             \* where it comes from that an id is in an organization
  ids,              \* how many ids were given
  job,              \* what the script is doing
  result,           \* what it has written of each entry
  starts,           \* how many times it was started
  imported,         \* history: the ids that the script has created
  cutShort,         \* history: those it was about to name when a query failed or it was killed
  meanwhile         \* history: what users have done since the script turned to its entry

vars ==
  <<script, file, user, link, ids, job, result, starts, imported, cutShort, meanwhile>>

Scripts == {"accounts", "coop"}

\* None is an address, or a siret, that is refused; named is whether the names,
\* with the phone number or the sub, are accepted.
Entry == [email : Emails \cup {None}, named : BOOLEAN, sirets : Seq(Sirets \cup {None})]

ASSUME FilesAssumption ==
  \A s \in Scripts : \A f \in Files[s] : f \in Seq(Entry)
ASSUME CoopAssumption ==
  \A f \in Files["coop"] : \A n \in DOMAIN f : Len(f[n].sirets) = 1
ASSUME BoundsAssumption == MaxIds \in Nat /\ MaxStarts \in Nat
ASSUME NoneAssumption == None \notin Emails \cup Sirets \cup (1 .. MaxIds)

Ids == 1 .. MaxIds
User == [email : Emails, names : {"none", "imported", "own"}]
ASSUME NoUserAssumption == None \notin User
Links == {"none", "imported", "own"}
Result == [outcome : {"none", "success", "rejected", "failed"}, id : Ids \cup {None}]
Positions == {"stopped", "find", "create", "names", "insee", "links", "link"}

\* id is that of the user that was found or created, todo the sirets to go through.
Job == [pc : Positions, line : Nat, id : Ids \cup {None}, todo : Seq(Sirets \cup {None})]

Stopped == [pc |-> "stopped", line |-> 0, id |-> None, todo |-> <<>>]

Pending == [outcome |-> "none", id |-> None]
Deeds == {"names", "deletes"} \cup Sirets

Init ==
  /\ script \in Scripts
  /\ file \in Files[script]
  /\ user = [i \in Ids |-> None]
  /\ link = [i \in Ids |-> [o \in Sirets |-> "none"]]
  /\ ids = 0
  /\ job = Stopped
  /\ result = [n \in DOMAIN file |-> Pending]
  /\ starts = 0
  /\ imported = {}
  /\ cutShort = {}
  /\ meanwhile = {}

-------------------------------------------------------------------------------
(* The tables.                                                             *)

IdsOf(email) == {i \in Ids : user[i] # None /\ user[i].email = email}

\* The index on the email allows one row.
NewUser(email) ==
  /\ ids < MaxIds
  /\ ids' = ids + 1
  /\ user' = [user EXCEPT ![ids + 1] = [email |-> email, names |-> "none"]]

Name(i, by) ==
  user' = IF user[i] = None THEN user ELSE [user EXCEPT ![i].names = by]

-------------------------------------------------------------------------------
(* What the scripts do with an entry.                                      *)

Current == file[job.line]
Script == UNCHANGED <<script, file, starts>>
Tables == UNCHANGED <<user, link, ids, imported>>

\* The script for Inclusion Connect looks at the sirets only when it has the user.
Accepted(entry) ==
  /\ entry.email # None /\ entry.named
  /\ script = "coop" => entry.sirets[1] # None

\* The entry is done, and the next one is read.
Writes(outcome, i) ==
  /\ result' = [result EXCEPT ![job.line] = [outcome |-> outcome, id |-> i]]
  /\ job' = IF job.line = Len(file) THEN Stopped
            ELSE [Stopped EXCEPT !.pc = "find", !.line = job.line + 1]
  /\ meanwhile' = {}

Goes(j) == job' = j /\ UNCHANGED <<result, meanwhile>>

\* With the user i, the script turns to the organizations.
TurnsToOrganizations(i) ==
  IF \E n \in DOMAIN Current.sirets : Current.sirets[n] = None THEN Writes("rejected", None)
  ELSE IF Current.sirets = <<>> THEN Writes("success", i)
  ELSE Goes([job EXCEPT !.pc = "insee", !.id = i, !.todo = Current.sirets])

TurnsToNext ==
  IF Len(job.todo) = 1 THEN Writes("success", job.id)
  ELSE Goes([job EXCEPT !.pc = "insee", !.todo = Tail(job.todo)])

\* Mistake: the script for mediators only logs the error, as the other one does.
LogsOnly == TurnsToNext

\* The error is caught: one script says so in its result, the other goes on.
OrganizationFails == IF script = "coop" THEN Writes("rejected", None) ELSE TurnsToNext

\* Mistake: a user who was found is named as well.
FindAndName ==
  /\ job.pc = "find"
  /\ IF ~Accepted(Current) THEN Writes("rejected", None)
     ELSE IF IdsOf(Current.email) = {} THEN Goes([job EXCEPT !.pc = "create"])
     ELSE \E i \in IdsOf(Current.email) : Goes([job EXCEPT !.pc = "names", !.id = i])
  /\ Tables /\ UNCHANGED cutShort /\ Script

\* findByEmail, once the entry is accepted.
Find ==
  /\ job.pc = "find"
  /\ IF ~Accepted(Current) THEN Writes("rejected", None)
     ELSE IF IdsOf(Current.email) = {} THEN Goes([job EXCEPT !.pc = "create"])
     ELSE \E i \in IdsOf(Current.email) : TurnsToOrganizations(i)
  /\ Tables /\ UNCHANGED cutShort /\ Script

Create ==
  /\ job.pc = "create"
  /\ IF IdsOf(Current.email) # {} THEN Writes("failed", None) /\ Tables
     ELSE /\ NewUser(Current.email)
          /\ imported' = imported \cup {ids + 1}
          /\ Goes([job EXCEPT !.pc = "names", !.id = ids + 1])
          /\ UNCHANGED link
  /\ UNCHANGED cutShort /\ Script

\* Mistake: the sirets are looked at before the names are written.
WriteNamesOfAccepted ==
  /\ job.pc = "names"
  /\ IF \E n \in DOMAIN Current.sirets : Current.sirets[n] = None
     THEN UNCHANGED user ELSE Name(job.id, "imported")
  /\ TurnsToOrganizations(job.id)
  /\ UNCHANGED <<link, ids, imported, cutShort>> /\ Script

\* Nobody looks whether there is still a row to update.
WriteNames ==
  /\ job.pc = "names"
  /\ Name(job.id, "imported")
  /\ TurnsToOrganizations(job.id)
  /\ UNCHANGED <<link, ids, imported, cutShort>> /\ Script

\* The INSEE has an active organization, which is stored; the rest is a failure.
AskInsee ==
  /\ job.pc = "insee"
  /\ Goes([job EXCEPT !.pc = "links"])
  /\ Tables /\ UNCHANGED cutShort /\ Script

FindLinks ==
  /\ job.pc = "links"
  /\ IF link[job.id][Head(job.todo)] # "none" THEN TurnsToNext
     ELSE Goes([job EXCEPT !.pc = "link"])
  /\ Tables /\ UNCHANGED cutShort /\ Script

\* Refused where there is a link, or no user any more.
InsertLink ==
  LET o == Head(job.todo) IN
  /\ job.pc = "link"
  /\ IF user[job.id] = None \/ link[job.id][o] # "none" THEN OrganizationFails /\ UNCHANGED link
     ELSE link' = [link EXCEPT ![job.id][o] = "imported"] /\ TurnsToNext
  /\ UNCHANGED <<user, ids, imported, cutShort>> /\ Script

\* A query or the INSEE fails.
Fails ==
  /\ job.pc # "stopped"
  /\ IF job.pc \in {"find", "create", "names"} THEN Writes("failed", None) ELSE OrganizationFails
  /\ cutShort' = IF job.pc = "names" THEN cutShort \cup {job.id} ELSE cutShort
  /\ Tables /\ Script

Start ==
  /\ job.pc = "stopped" /\ starts < MaxStarts
  /\ starts' = starts + 1
  /\ job' = IF file = <<>> THEN Stopped ELSE [Stopped EXCEPT !.pc = "find", !.line = 1]
  /\ result' = [n \in DOMAIN file |-> Pending]
  /\ meanwhile' = {}
  /\ Tables /\ UNCHANGED <<script, file, cutShort>>

Killed ==
  /\ job.pc # "stopped"
  /\ job' = Stopped
  /\ cutShort' = IF job.pc = "names" THEN cutShort \cup {job.id} ELSE cutShort
  /\ Tables /\ Script /\ UNCHANGED <<result, meanwhile>>

-------------------------------------------------------------------------------
(* What users do on the site at the same time.                             *)

Site == UNCHANGED <<script, file, job, result, starts, imported, cutShort>>

Notes(deed, i) == meanwhile' = meanwhile \cup {<<deed, i>>}

SignUp(email) ==
  /\ IdsOf(email) = {}
  /\ NewUser(email)
  /\ UNCHANGED <<link, meanwhile>> /\ Site

UpdatePersonalInformations(i) ==
  /\ user[i] # None
  /\ Name(i, "own")
  /\ Notes("names", i)
  /\ UNCHANGED <<link, ids>> /\ Site

Join(i, o) ==
  /\ user[i] # None /\ link[i][o] = "none"
  /\ link' = [link EXCEPT ![i][o] = "own"]
  /\ UNCHANGED <<user, ids, meanwhile>> /\ Site

Quit(i, o) ==
  /\ link[i][o] # "none"
  /\ link' = [link EXCEPT ![i][o] = "none"]
  /\ Notes(o, i)
  /\ UNCHANGED <<user, ids>> /\ Site

\* The links go with the user.
Delete(i) ==
  /\ user[i] # None
  /\ user' = [user EXCEPT ![i] = None]
  /\ link' = [link EXCEPT ![i] = [o \in Sirets |-> "none"]]
  /\ Notes("deletes", i)
  /\ UNCHANGED ids /\ Site

-------------------------------------------------------------------------------
Proceed == Find \/ Create \/ WriteNames \/ AskInsee \/ FindLinks \/ InsertLink

SiteNext ==
  \/ \E email \in Emails : SignUp(email)
  \/ \E i \in Ids : UpdatePersonalInformations(i) \/ Delete(i)
  \/ \E i \in Ids, o \in Sirets : Join(i, o) \/ Quit(i, o)

Next == Proceed \/ Fails \/ Start \/ Killed \/ SiteNext

Spec == Init /\ [][Next]_vars
=============================================================================
