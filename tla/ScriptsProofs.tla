------------------------------ MODULE ScriptsProofs ------------------------------
(***************************************************************************)
(* Proofs about what is run on the database beside the application: the    *)
(* imports of accounts (Imports), for any emails, sirets, files, ids and   *)
(* number of starts, and the migrations (Migrations), for any domains,     *)
(* spellings and free providers and whatever is written, applied and       *)
(* undone.                                                                 *)
(***************************************************************************)
EXTENDS ImportsProperties, MigrationsProperties, SequenceTheorems, FiniteSetTheorems, TLAPS

(***************************************************************************)
(* THE IMPORTS.                                                            *)
(***************************************************************************)

\* Where the script is in the file, and whom it has with it.
AtOrganizations == {"insee", "links", "link"}

JobPlaced ==
  /\ job.pc # "stopped" => job.line \in DOMAIN file
  /\ job.pc \notin {"stopped", "find"} => Current.email \in Emails
  /\ job.pc = "names" => job.id \in imported
  /\ job.pc \in AtOrganizations =>
       /\ job.id \in 1 .. ids
       /\ job.todo \in Seq(Sirets) /\ job.todo # <<>>
       /\ script = "coop" => job.todo = Current.sirets

\* Ids are given in order, and none is given twice.
IdsAreGiven == \A i \in Ids : user[i] # None => i <= ids

\* The user of the entry is there, with the names the script may replace, unless a user
\* has done something about it in the meantime.
UserPlaced ==
  /\ job.pc \in {"names"} \cup AtOrganizations =>
       <<"deletes", job.id>> \in meanwhile \/ job.id \in IdsOf(Current.email)
  /\ job.pc = "names" /\ user[job.id] # None /\ user[job.id].names = "own" =>
       <<"names", job.id>> \in meanwhile

Inv == TypeOK /\ JobPlaced /\ IdsAreGiven /\ UserPlaced /\ ImportedUsersAreNamed

-------------------------------------------------------------------------------
(* What an entry leads to.                                                 *)

LEMMA EntryOfLine ==
  ASSUME TypeOK, JobPlaced, job.pc # "stopped"
  PROVE  /\ file \in Seq(Entry) /\ DOMAIN file = 1 .. Len(file) /\ Len(file) \in Nat
         /\ job.line \in 1 .. Len(file) /\ Current \in Entry
         /\ script = "coop" => Len(Current.sirets) = 1
<1>1. file \in Seq(Entry)
  BY FilesAssumption DEF TypeOK
<1>2. DOMAIN file = 1 .. Len(file) /\ Len(file) \in Nat
  BY <1>1, LenProperties
<1>3. job.line \in 1 .. Len(file)
  BY <1>2 DEF JobPlaced
<1>4. Current \in Entry
  BY <1>1, <1>3, ElementOfSeq DEF Current
<1>5. script = "coop" => Len(Current.sirets) = 1
  BY <1>2, <1>3, CoopAssumption DEF TypeOK, Current
<1> QED BY <1>1, <1>2, <1>3, <1>4, <1>5

LEMMA SequencesOfSirets == Seq(Sirets) \subseteq Seq(Sirets \cup {None})
<1>1. \A s \in Seq(Sirets) : s \in Seq(Sirets \cup {None})
  BY SeqMonotonic, Sirets \subseteq Sirets \cup {None}
<1> QED BY <1>1

\* The script has left the entry, or is at one of its organizations with the user i.
Left ==
  /\ job' \in Job /\ job'.pc \in {"stopped", "find"}
  /\ job'.pc = "find" => job'.line \in DOMAIN file
  /\ result' \in [DOMAIN file -> Result]
  /\ meanwhile' = {}

Turned(i) ==
  /\ job' \in Job /\ job'.pc \in AtOrganizations
  /\ job'.line = job.line /\ job'.id = i
  /\ job'.todo \in Seq(Sirets) /\ job'.todo # <<>>
  /\ script = "coop" => job'.todo = Current.sirets
  /\ UNCHANGED <<result, meanwhile>>

LEMMA WritesLeaves ==
  ASSUME TypeOK, JobPlaced, job.pc # "stopped",
         NEW outcome \in {"success", "rejected", "failed"}, NEW i \in Ids \cup {None},
         Writes(outcome, i)
  PROVE  Left
<1>1. /\ DOMAIN file = 1 .. Len(file) /\ Len(file) \in Nat
      /\ job.line \in 1 .. Len(file)
  BY EntryOfLine
<1>2. Stopped \in Job
  BY EmptySeq DEF Stopped, Job, Positions
<1>3. job' \in Job /\ job'.pc \in {"stopped", "find"}
  <2>1. job.line + 1 \in Nat
    BY <1>1
  <2>2. [Stopped EXCEPT !.pc = "find", !.line = job.line + 1] \in Job
    BY <1>2, <2>1 DEF Job, Positions
  <2> QED BY <1>2, <2>2 DEF Writes, Stopped
<1>4. job'.pc = "find" => job'.line \in DOMAIN file
  <2>1. CASE job.line = Len(file)
    BY <2>1 DEF Writes, Stopped
  <2>2. CASE job.line # Len(file)
    <3>1. job' = [Stopped EXCEPT !.pc = "find", !.line = job.line + 1]
      BY <2>2 DEF Writes
    <3>2. job'.line = job.line + 1
      BY <3>1 DEF Stopped
    <3> QED BY <1>1, <2>2, <3>2
  <2> QED BY <2>1, <2>2
<1>5. result' \in [DOMAIN file -> Result]
  <2>1. [outcome |-> outcome, id |-> i] \in Result
    BY DEF Result
  <2> QED BY <2>1 DEF Writes, TypeOK
<1> QED BY <1>3, <1>4, <1>5 DEF Writes, Left

LEMMA TurnsToOrganizationsLeads ==
  ASSUME TypeOK, JobPlaced, job.pc # "stopped", NEW i \in Ids, TurnsToOrganizations(i)
  PROVE  \/ Left /\ (script = "coop" => \A n \in DOMAIN file :
                       result'[n] = result[n] \/ result'[n].outcome # "success")
         \/ Turned(i)
<1>1. Current \in Entry /\ (script = "coop" => Len(Current.sirets) = 1)
  BY EntryOfLine
<1>2. Current.sirets \in Seq(Sirets \cup {None})
  BY <1>1 DEF Entry
<1>3. CASE \E n \in DOMAIN Current.sirets : Current.sirets[n] = None
  <2>1. Writes("rejected", None)
    BY <1>3 DEF TurnsToOrganizations
  <2>2. Left
    BY <2>1, WritesLeaves
  <2>3. \A n \in DOMAIN file : result'[n] = result[n] \/ result'[n].outcome # "success"
    BY <2>1 DEF Writes, TypeOK
  <2> QED BY <2>2, <2>3
<1>4. CASE ~(\E n \in DOMAIN Current.sirets : Current.sirets[n] = None)
           /\ Current.sirets = <<>>
  <2>1. Writes("success", i)
    BY <1>4 DEF TurnsToOrganizations
  <2>2. script # "coop"
    BY <1>1, <1>4, EmptySeq
  <2> QED BY <2>1, <2>2, WritesLeaves
<1>5. CASE ~(\E n \in DOMAIN Current.sirets : Current.sirets[n] = None)
           /\ Current.sirets # <<>>
  <2>1. Goes([job EXCEPT !.pc = "insee", !.id = i, !.todo = Current.sirets])
    BY <1>5 DEF TurnsToOrganizations
  <2>2. Current.sirets \in Seq(Sirets)
    <3>1. /\ Len(Current.sirets) \in Nat /\ DOMAIN Current.sirets = 1 .. Len(Current.sirets)
          /\ Current.sirets = [n \in 1 .. Len(Current.sirets) |-> Current.sirets[n]]
      BY <1>2, LenProperties
    <3>2. \A n \in 1 .. Len(Current.sirets) : Current.sirets[n] \in Sirets
      BY <1>2, <1>5, <3>1, ElementOfSeq
    <3> QED BY <3>1, <3>2
  <2>3. job' = [job EXCEPT !.pc = "insee", !.id = i, !.todo = Current.sirets]
        /\ UNCHANGED <<result, meanwhile>>
    BY <2>1 DEF Goes
  <2>4. job' \in Job /\ job'.pc = "insee" /\ job'.line = job.line /\ job'.id = i
        /\ job'.todo = Current.sirets
    BY <1>2, <2>3 DEF TypeOK, Job, Positions
  <2> QED BY <1>5, <2>2, <2>3, <2>4 DEF Turned, AtOrganizations
<1> QED BY <1>3, <1>4, <1>5

LEMMA TurnsToNextLeads ==
  ASSUME TypeOK, JobPlaced, job.pc \in AtOrganizations, TurnsToNext
  PROVE  Left \/ Turned(job.id)
<1>1. /\ job.id \in 1 .. ids /\ job.todo \in Seq(Sirets) /\ job.todo # <<>>
      /\ script = "coop" => job.todo = Current.sirets
  BY DEF JobPlaced
<1>2. job.pc # "stopped" /\ job.id \in Ids
  BY <1>1, BoundsAssumption DEF AtOrganizations, TypeOK, Ids
<1>3. CASE Len(job.todo) = 1
  BY <1>2, <1>3, WritesLeaves DEF TurnsToNext
<1>4. CASE Len(job.todo) # 1
  <2>1. job' = [job EXCEPT !.pc = "insee", !.todo = Tail(job.todo)]
        /\ UNCHANGED <<result, meanwhile>>
    BY <1>4 DEF TurnsToNext, Goes
  <2>2. Tail(job.todo) \in Seq(Sirets) /\ Len(Tail(job.todo)) = Len(job.todo) - 1
        /\ Len(job.todo) \in Nat /\ Len(job.todo) # 0
    <3>1. Len(job.todo) \in Nat
      BY <1>1, LenProperties
    <3>2. Len(job.todo) # 0
      BY <1>1, EmptySeq
    <3> QED BY <1>1, <3>1, <3>2, HeadTailProperties
  <2>3. Tail(job.todo) # <<>>
    <3>1. Len(Tail(job.todo)) # 0
      BY <1>4, <2>2
    <3>2. \A s \in Seq(Sirets) : s = <<>> => Len(s) = 0
      BY EmptySeq
    <3> QED BY <2>2, <3>1, <3>2
  <2>4. Tail(job.todo) \in Seq(Sirets \cup {None})
    BY <2>2, SequencesOfSirets
  <2>5. job' \in Job /\ job'.pc = "insee" /\ job'.line = job.line /\ job'.id = job.id
        /\ job'.todo = Tail(job.todo)
    <3> DEFINE tail == Tail(job.todo)
    <3>1. tail \in Seq(Sirets \cup {None}) /\ job' = [job EXCEPT !.pc = "insee", !.todo = tail]
      BY <2>1, <2>4
    <3> HIDE DEF tail
    <3>2. job' \in Job /\ job'.pc = "insee" /\ job'.line = job.line /\ job'.id = job.id
          /\ job'.todo = tail
      BY <3>1 DEF TypeOK, Job, Positions
    <3> QED BY <3>2 DEF tail
  <2>6. script # "coop"
    BY <1>1, <1>2, <1>4, EntryOfLine
  <2> QED BY <2>1, <2>2, <2>3, <2>5, <2>6 DEF Turned, AtOrganizations
<1> QED BY <1>3, <1>4

LEMMA OrganizationFailsLeads ==
  ASSUME TypeOK, JobPlaced, job.pc \in AtOrganizations, OrganizationFails
  PROVE  Left \/ Turned(job.id)
<1>1. CASE script = "coop"
  BY <1>1, WritesLeaves DEF OrganizationFails, AtOrganizations
<1>2. CASE script # "coop"
  BY <1>2, TurnsToNextLeads DEF OrganizationFails
<1> QED BY <1>1, <1>2

-------------------------------------------------------------------------------
(* The invariant, where the script leaves an entry or turns to its          *)
(* organizations.                                                          *)

\* The rows keep their emails; none comes and none goes.
SameUsers ==
  /\ UNCHANGED <<script, file, ids>>
  /\ \A i \in Ids : /\ user'[i] # None <=> user[i] # None
                    /\ user[i] # None => user'[i].email = user[i].email

LEMMA LeftPlaced ==
  ASSUME UNCHANGED <<script, file>>, Left
  PROVE  JobPlaced' /\ UserPlaced'
BY DEF Left, JobPlaced, UserPlaced, AtOrganizations

LEMMA TurnedPlaced ==
  ASSUME TypeOK, JobPlaced, job.pc # "stopped", NEW i \in 1 .. ids, SameUsers, Turned(i),
         Current.email \in Emails,
         <<"deletes", i>> \in meanwhile \/ i \in IdsOf(Current.email)
  PROVE  JobPlaced' /\ UserPlaced'
<1>1. Current' = Current /\ script' = script /\ file' = file /\ ids' = ids
      /\ meanwhile' = meanwhile
  BY DEF Turned, Current, SameUsers
<1>2. job.line \in DOMAIN file
  BY DEF JobPlaced
<1>3. JobPlaced'
  BY <1>1, <1>2 DEF JobPlaced, Turned, AtOrganizations
<1>4. i \in IdsOf(Current.email) => i \in IdsOf(Current.email)'
  BY <1>1 DEF IdsOf, SameUsers
<1>5. UserPlaced'
  BY <1>1, <1>4 DEF UserPlaced, Turned, AtOrganizations
<1> QED BY <1>3, <1>5

\* The types of what the script has at hand.
ScriptTypes ==
  /\ job \in Job
  /\ result \in [DOMAIN file -> Result]
  /\ meanwhile \subseteq Deeds \X Ids

LEMMA LeadTypes ==
  ASSUME TypeOK, UNCHANGED file, NEW i, Left \/ Turned(i)
  PROVE  ScriptTypes'
<1>1. result \in [DOMAIN file -> Result] /\ meanwhile \subseteq Deeds \X Ids
  BY DEF TypeOK
<1>2. CASE Left
  BY <1>2 DEF Left, ScriptTypes
<1>3. CASE Turned(i)
  BY <1>1, <1>3 DEF Turned, ScriptTypes
<1> QED BY <1>2, <1>3

\* Steps of the script that leave the tables alone.
LEMMA QuietTypes ==
  ASSUME TypeOK, Tables, UNCHANGED cutShort, Script, ScriptTypes'
  PROVE  TypeOK'
BY DEF TypeOK, Tables, Script, ScriptTypes

LEMMA QuietNames ==
  ASSUME ImportedUsersAreNamed, Tables, UNCHANGED cutShort, job.pc # "names"
  PROVE  ImportedUsersAreNamed'
BY DEF ImportedUsersAreNamed, Tables

LEMMA QuietIds ==
  ASSUME IdsAreGiven, UNCHANGED <<user, ids>>
  PROVE  IdsAreGiven'
BY DEF IdsAreGiven

LEMMA QuietUsers ==
  ASSUME UNCHANGED <<script, file, user, ids>>
  PROVE  SameUsers
BY DEF SameUsers

\* A step at the organizations of an entry that leaves the tables alone.
LEMMA QuietAtOrganizations ==
  ASSUME Inv, job.pc \in AtOrganizations, Tables, UNCHANGED cutShort, Script,
         Left \/ Turned(job.id)
  PROVE  Inv'
<1>1. job.pc # "stopped" /\ job.pc # "names" /\ job.pc # "find"
  BY DEF AtOrganizations
<1>2. /\ Current.email \in Emails /\ job.id \in 1 .. ids
      /\ <<"deletes", job.id>> \in meanwhile \/ job.id \in IdsOf(Current.email)
  BY <1>1 DEF Inv, JobPlaced, UserPlaced
<1>3. SameUsers
  BY QuietUsers DEF Tables, Script
<1>4. JobPlaced' /\ UserPlaced'
  BY <1>1, <1>2, <1>3, LeftPlaced, TurnedPlaced DEF Inv, Script
<1>5. TypeOK'
  BY LeadTypes, QuietTypes DEF Inv, Script
<1>6. ImportedUsersAreNamed' /\ IdsAreGiven'
  BY <1>1, QuietNames, QuietIds DEF Inv, Tables
<1> QED BY <1>4, <1>5, <1>6 DEF Inv

-------------------------------------------------------------------------------
(* Each action keeps the invariant.                                        *)

LEMMA InitInv == Init => Inv
<1> SUFFICES ASSUME Init PROVE Inv
  OBVIOUS
<1>1. Stopped \in Job /\ job.pc = "stopped"
  BY EmptySeq DEF Init, Stopped, Job, Positions
<1>2. TypeOK
  <2>1. Pending \in Result
    BY DEF Pending, Result
  <2>2. ids \in 0 .. MaxIds /\ starts \in 0 .. MaxStarts
    BY BoundsAssumption DEF Init
  <2> QED BY <1>1, <2>1, <2>2 DEF Init, TypeOK, Links
<1>3. JobPlaced /\ UserPlaced
  BY <1>1 DEF JobPlaced, UserPlaced, AtOrganizations
<1>4. IdsAreGiven /\ ImportedUsersAreNamed
  BY DEF Init, IdsAreGiven, ImportedUsersAreNamed
<1> QED BY <1>2, <1>3, <1>4 DEF Inv

LEMMA AcceptedHasEmail ==
  ASSUME TypeOK, JobPlaced, job.pc # "stopped", Accepted(Current)
  PROVE  Current.email \in Emails
BY EntryOfLine DEF Accepted, Entry

LEMMA FindKeepsInv ==
  ASSUME Inv, Find
  PROVE  Inv'
<1>1. /\ TypeOK /\ JobPlaced /\ job.pc = "find" /\ Tables /\ UNCHANGED cutShort /\ Script
      /\ job.line \in DOMAIN file
  BY DEF Find, Inv, JobPlaced
<1>2. ImportedUsersAreNamed' /\ IdsAreGiven'
  BY <1>1, QuietNames, QuietIds DEF Inv, Tables
<1>3. SameUsers
  BY <1>1, QuietUsers DEF Tables, Script
<1>4. CASE ~Accepted(Current)
  <2>1. Left
    BY <1>1, <1>4, WritesLeaves DEF Find
  <2>2. JobPlaced' /\ UserPlaced' /\ TypeOK'
    BY <1>1, <2>1, LeftPlaced, LeadTypes, QuietTypes DEF Script
  <2> QED BY <1>2, <2>2 DEF Inv
<1>5. CASE Accepted(Current) /\ IdsOf(Current.email) = {}
  <2>1. job' = [job EXCEPT !.pc = "create"] /\ UNCHANGED <<result, meanwhile>>
    BY <1>1, <1>5 DEF Find, Goes
  <2>2. job' \in Job /\ job'.pc = "create" /\ job'.line = job.line
    BY <1>1, <2>1 DEF TypeOK, Job, Positions
  <2>3. ScriptTypes'
    BY <1>1, <2>1, <2>2 DEF ScriptTypes, TypeOK, Script
  <2>4. Current' = Current /\ Current.email \in Emails
    BY <1>1, <1>5, <2>2, AcceptedHasEmail DEF Current, Script
  <2>5. JobPlaced' /\ UserPlaced'
    BY <1>1, <2>2, <2>4 DEF JobPlaced, UserPlaced, AtOrganizations, Script
  <2>6. TypeOK'
    BY <1>1, <2>3, QuietTypes
  <2> QED BY <1>2, <2>5, <2>6 DEF Inv
<1>6. CASE Accepted(Current) /\ IdsOf(Current.email) # {}
  <2>1. PICK i \in IdsOf(Current.email) : TurnsToOrganizations(i)
    BY <1>1, <1>6 DEF Find
  <2>2. i \in Ids /\ i \in 1 .. ids
    BY <2>1, BoundsAssumption DEF IdsOf, Inv, IdsAreGiven, Ids, TypeOK
  <2>3. Left \/ Turned(i)
    BY <1>1, <2>1, <2>2, TurnsToOrganizationsLeads
  <2>4. Current.email \in Emails
    BY <1>1, <1>6, AcceptedHasEmail
  <2>5. JobPlaced' /\ UserPlaced'
    BY <1>1, <1>3, <2>1, <2>2, <2>3, <2>4, LeftPlaced, TurnedPlaced DEF Script
  <2>6. TypeOK'
    BY <1>1, <2>3, LeadTypes, QuietTypes DEF Script
  <2> QED BY <1>2, <2>5, <2>6 DEF Inv
<1> QED BY <1>4, <1>5, <1>6

\* The row that is created.
LEMMA NewUserTypes ==
  ASSUME TypeOK, IdsAreGiven, NEW email \in Emails, IdsOf(email) = {}, NewUser(email)
  PROVE  /\ ids + 1 \in Ids /\ ids' = ids + 1 /\ ids' \in 0 .. MaxIds /\ user[ids + 1] = None
         /\ user' \in [Ids -> User \cup {None}]
         /\ user'[ids + 1] = [email |-> email, names |-> "none"] /\ user'[ids + 1] # None
         /\ \A i \in Ids \ {ids + 1} : user'[i] = user[i]
         /\ \A i, j \in Ids :
              user'[i] # None /\ user'[j] # None /\ user'[i].email = user'[j].email => i = j
         /\ IdsAreGiven'
<1> DEFINE new == [email |-> email, names |-> "none"]
<1>1. new \in User /\ new # None /\ new.email = email
  BY NoUserAssumption DEF User
<1>2. ids \in Nat /\ ids + 1 \in Ids /\ ids' = ids + 1 /\ ids' \in 0 .. MaxIds
  BY BoundsAssumption DEF NewUser, TypeOK, Ids
<1>3. user' = [user EXCEPT ![ids + 1] = new] /\ user \in [Ids -> User \cup {None}]
  BY DEF NewUser, TypeOK
<1> HIDE DEF new
<1>4. user[ids + 1] = None
  BY <1>2 DEF IdsAreGiven
<1>5. /\ user' \in [Ids -> User \cup {None}] /\ user'[ids + 1] = new
      /\ \A i \in Ids \ {ids + 1} : user'[i] = user[i]
  BY <1>1, <1>2, <1>3
<1>6. \A i \in Ids : user[i] # None => user[i].email # email
  BY DEF IdsOf
<1>7. \A i, j \in Ids :
        user'[i] # None /\ user'[j] # None /\ user'[i].email = user'[j].email => i = j
  BY <1>1, <1>2, <1>5, <1>6 DEF TypeOK
<1>8. IdsAreGiven'
  BY <1>2, <1>5 DEF IdsAreGiven, Ids
<1> QED BY <1>1, <1>2, <1>4, <1>5, <1>7, <1>8 DEF new

LEMMA CreateKeepsInv ==
  ASSUME Inv, Create
  PROVE  Inv'
<1>1. /\ TypeOK /\ JobPlaced /\ job.pc = "create" /\ UNCHANGED cutShort /\ Script
      /\ job.line \in DOMAIN file /\ Current.email \in Emails
  BY DEF Create, Inv, JobPlaced
<1>2. CASE IdsOf(Current.email) # {}
  <2>1. Tables /\ Left
    BY <1>1, <1>2, WritesLeaves DEF Create
  <2>2. JobPlaced' /\ UserPlaced' /\ TypeOK'
    BY <1>1, <2>1, LeftPlaced, LeadTypes, QuietTypes DEF Script
  <2>3. ImportedUsersAreNamed' /\ IdsAreGiven'
    BY <1>1, <2>1, QuietNames, QuietIds DEF Inv, Tables
  <2> QED BY <2>2, <2>3 DEF Inv
<1>3. CASE IdsOf(Current.email) = {}
  <2> DEFINE i == ids + 1
             email == Current.email
  <2>1. /\ NewUser(email) /\ imported' = imported \cup {i} /\ UNCHANGED <<link, result, meanwhile>>
        /\ job' = [job EXCEPT !.pc = "names", !.id = i]
    BY <1>1, <1>3 DEF Create, Goes
  <2>2. /\ i \in Ids /\ ids' = i /\ ids' \in 0 .. MaxIds /\ user[i] = None
        /\ user' \in [Ids -> User \cup {None}]
        /\ user'[i] = [email |-> email, names |-> "none"] /\ user'[i] # None
        /\ \A k \in Ids \ {i} : user'[k] = user[k]
        /\ \A k, l \in Ids :
             user'[k] # None /\ user'[l] # None /\ user'[k].email = user'[l].email => k = l
        /\ IdsAreGiven'
    BY <1>1, <1>3, <2>1, NewUserTypes DEF Inv
  <2>3. user'[i].email = email /\ user'[i].names = "none"
    BY <2>2
  <2>4. ids \in Nat
    BY DEF Inv, TypeOK
  <2> HIDE DEF email
  <2>5. job' \in Job /\ job'.pc = "names" /\ job'.line = job.line /\ job'.id = i
    BY <1>1, <2>1, <2>2 DEF TypeOK, Job, Positions
  <2>6. imported' \subseteq 1 .. ids' /\ cutShort' \subseteq imported' /\ i \in imported'
    BY <1>1, <2>1, <2>2, <2>4 DEF TypeOK
  <2>7. TypeOK'
    <3>1. link' \in [Ids -> [Sirets -> Links]] /\ result' \in [DOMAIN file' -> Result]
          /\ starts' \in 0 .. MaxStarts /\ script' \in Scripts /\ file' \in Files[script']
          /\ meanwhile' \subseteq Deeds \X Ids
      BY <1>1, <2>1 DEF TypeOK, Script
    <3> QED BY <2>2, <2>5, <2>6, <3>1 DEF TypeOK
  <2>8. Current' = Current
    BY <1>1, <2>5 DEF Current, Script
  <2>9. JobPlaced'
    BY <1>1, <2>5, <2>6, <2>8 DEF JobPlaced, AtOrganizations, Script
  <2>10. UserPlaced'
    <3>1. i \in IdsOf(Current.email)'
      BY <2>2, <2>3, <2>8 DEF IdsOf, email
    <3> QED BY <2>3, <2>5, <3>1 DEF UserPlaced, AtOrganizations
  <2>11. ImportedUsersAreNamed'
    <3> SUFFICES ASSUME NEW k \in imported' \ cutShort', user'[k] # None, user'[k].names = "none"
                 PROVE  k = i
      BY <2>5 DEF ImportedUsersAreNamed
    <3>1. CASE k \in imported
      <4>1. k \in Ids /\ k # i
        BY <1>1, <2>4, <3>1, BoundsAssumption DEF TypeOK, Ids
      <4>2. user[k] # None /\ user[k].names = "none"
        BY <2>2, <4>1
      <4> QED BY <1>1, <3>1, <4>2 DEF Inv, ImportedUsersAreNamed
    <3> QED BY <2>1, <3>1
  <2> QED BY <2>2, <2>7, <2>9, <2>10, <2>11 DEF Inv
<1> QED BY <1>2, <1>3

\* Names are written of a row that is there; nothing else of it changes.
LEMMA NameTypes ==
  ASSUME TypeOK, NEW i \in Ids, NEW by \in {"imported", "own"}, Name(i, by)
  PROVE  /\ user' \in [Ids -> User \cup {None}]
         /\ \A k \in Ids : /\ user'[k] # None <=> user[k] # None
                           /\ user[k] # None => user'[k].email = user[k].email
                           /\ k # i => user'[k] = user[k]
         /\ user[i] # None => user'[i].names = by
         /\ \A k, l \in Ids :
              user'[k] # None /\ user'[l] # None /\ user'[k].email = user'[l].email => k = l
<1>0. user \in [Ids -> User \cup {None}]
  BY DEF TypeOK
<1>1. CASE user[i] = None
  BY <1>0, <1>1 DEF Name, TypeOK
<1>2. CASE user[i] # None
  <2> DEFINE new == [user[i] EXCEPT !.names = by]
  <2>1. user[i] \in User
    BY <1>0, <1>2
  <2>2. new \in User /\ new.email = user[i].email /\ new.names = by /\ new # None
    <3>1. new \in User
      BY <2>1 DEF User
    <3>2. new.email = user[i].email /\ new.names = by
      BY <2>1 DEF User
    <3> QED BY <3>1, <3>2, NoUserAssumption
  <2>3. user' = [user EXCEPT ![i] = new]
    BY <1>2 DEF Name
  <2> HIDE DEF new
  <2>4. user' \in [Ids -> User \cup {None}] /\ user'[i] = new
        /\ \A k \in Ids : k # i => user'[k] = user[k]
    BY <1>0, <2>2, <2>3
  <2>5. \A k \in Ids : /\ user'[k] # None <=> user[k] # None
                       /\ user[k] # None => user'[k].email = user[k].email
    BY <1>2, <2>2, <2>4
  <2> QED BY <2>2, <2>4, <2>5 DEF TypeOK
<1> QED BY <1>1, <1>2

LEMMA WriteNamesKeepsInv ==
  ASSUME Inv, WriteNames
  PROVE  Inv'
<1> DEFINE i == job.id
<1>1. /\ TypeOK /\ JobPlaced /\ job.pc = "names" /\ UNCHANGED <<link, ids, imported, cutShort>>
      /\ Script /\ Name(i, "imported") /\ TurnsToOrganizations(i) /\ Current.email \in Emails
      /\ i \in imported
      /\ <<"deletes", i>> \in meanwhile \/ i \in IdsOf(Current.email)
  BY DEF WriteNames, Inv, JobPlaced, UserPlaced
<1>2. i \in 1 .. ids /\ i \in Ids
  <2>1. ids \in 0 .. MaxIds /\ imported \subseteq 1 .. ids
    BY <1>1 DEF TypeOK
  <2>2. i \in 1 .. ids
    BY <1>1, <2>1
  <2> QED BY <2>1, <2>2, BoundsAssumption DEF Ids
<1> HIDE DEF i
<1>3. /\ user' \in [Ids -> User \cup {None}]
      /\ \A k \in Ids : /\ user'[k] # None <=> user[k] # None
                        /\ user[k] # None => user'[k].email = user[k].email
                        /\ k # i => user'[k] = user[k]
      /\ user[i] # None => user'[i].names = "imported"
      /\ \A k, l \in Ids :
           user'[k] # None /\ user'[l] # None /\ user'[k].email = user'[l].email => k = l
  BY <1>1, <1>2, NameTypes
<1>4. Left \/ Turned(i)
  BY <1>1, <1>2, TurnsToOrganizationsLeads
<1>5. SameUsers
  BY <1>1, <1>3 DEF SameUsers, Script
<1>6. JobPlaced' /\ UserPlaced'
  BY <1>1, <1>2, <1>4, <1>5, LeftPlaced, TurnedPlaced DEF Script
<1>7. ScriptTypes'
  BY <1>1, <1>4, LeadTypes DEF Script
<1>8. TypeOK'
  BY <1>1, <1>3, <1>7 DEF TypeOK, ScriptTypes, Script
<1>9. IdsAreGiven'
  BY <1>1, <1>3 DEF Inv, IdsAreGiven
<1>10. ImportedUsersAreNamed'
  <2> SUFFICES ASSUME NEW k \in imported \ cutShort, user'[k] # None, user'[k].names = "none"
               PROVE  FALSE
    BY <1>1 DEF ImportedUsersAreNamed
  <2>1. k \in Ids
    BY <1>1, BoundsAssumption DEF TypeOK, Ids
  <2>2. CASE k = i
    BY <1>3, <2>1, <2>2
  <2>3. CASE k # i
    BY <1>3, <2>1, <2>3 DEF Inv, ImportedUsersAreNamed, i
  <2> QED BY <2>2, <2>3
<1> QED BY <1>6, <1>8, <1>9, <1>10 DEF Inv

\* The next position at the same organization.
LEMMA GoesOnKeepsInv ==
  ASSUME Inv, job.pc \in AtOrganizations, NEW pc \in AtOrganizations,
         Goes([job EXCEPT !.pc = pc]), Tables, UNCHANGED cutShort, Script
  PROVE  Inv'
<1>1. job' = [job EXCEPT !.pc = pc] /\ UNCHANGED <<result, meanwhile>>
  BY DEF Goes
<1>2. /\ job' \in Job /\ job'.pc = pc /\ job'.line = job.line /\ job'.id = job.id
      /\ job'.todo = job.todo
  BY <1>1 DEF Inv, TypeOK, Job, Positions, AtOrganizations
<1>3. Turned(job.id)
  BY <1>1, <1>2 DEF Turned, Inv, JobPlaced
<1> QED BY <1>3, QuietAtOrganizations

LEMMA AskInseeKeepsInv ==
  ASSUME Inv, AskInsee
  PROVE  Inv'
BY GoesOnKeepsInv DEF AskInsee, AtOrganizations

LEMMA FindLinksKeepsInv ==
  ASSUME Inv, FindLinks
  PROVE  Inv'
<1>1. job.pc \in AtOrganizations /\ Tables /\ UNCHANGED cutShort /\ Script
  BY DEF FindLinks, AtOrganizations
<1>2. CASE TurnsToNext
  BY <1>1, <1>2, TurnsToNextLeads, QuietAtOrganizations DEF Inv
<1>3. CASE Goes([job EXCEPT !.pc = "link"])
  BY <1>1, <1>3, GoesOnKeepsInv DEF AtOrganizations
<1> QED BY <1>2, <1>3 DEF FindLinks

LEMMA InsertLinkKeepsInv ==
  ASSUME Inv, InsertLink
  PROVE  Inv'
<1> DEFINE o == Head(job.todo)
<1>1. /\ job.pc \in AtOrganizations /\ job.pc \notin {"stopped", "names"} /\ job.pc = "link"
      /\ UNCHANGED <<user, ids, imported, cutShort>> /\ Script
  BY DEF InsertLink, AtOrganizations
<1>2. o \in Sirets /\ job.id \in 1 .. ids /\ Current.email \in Emails
      /\ (<<"deletes", job.id>> \in meanwhile \/ job.id \in IdsOf(Current.email))
  BY <1>1, HeadTailProperties DEF Inv, JobPlaced, UserPlaced
<1>3. Left \/ Turned(job.id)
  BY <1>1, TurnsToNextLeads, OrganizationFailsLeads DEF InsertLink, Inv
<1>4. CASE UNCHANGED link
  BY <1>1, <1>3, <1>4, QuietAtOrganizations DEF Tables
<1>5. CASE link' = [link EXCEPT ![job.id][o] = "imported"]
  <2> HIDE DEF o
  <2>1. link' \in [Ids -> [Sirets -> Links]]
    BY <1>2, <1>5 DEF Inv, TypeOK, Links
  <2>2. SameUsers
    BY <1>1, QuietUsers DEF Script
  <2>3. JobPlaced' /\ UserPlaced'
    BY <1>1, <1>2, <1>3, <2>2, LeftPlaced, TurnedPlaced DEF Inv, Script
  <2>4. ScriptTypes'
    BY <1>1, <1>3, LeadTypes DEF Inv, Script
  <2>5. TypeOK'
    BY <1>1, <2>1, <2>4 DEF Inv, TypeOK, ScriptTypes, Script
  <2>6. IdsAreGiven' /\ ImportedUsersAreNamed'
    BY <1>1, QuietIds DEF Inv, ImportedUsersAreNamed
  <2> QED BY <2>3, <2>5, <2>6 DEF Inv
<1> QED BY <1>4, <1>5 DEF InsertLink

LEMMA FailsKeepsInv ==
  ASSUME Inv, Fails
  PROVE  Inv'
<1>1. TypeOK /\ JobPlaced /\ job.pc # "stopped" /\ Tables /\ Script
  BY DEF Fails, Inv
<1>2. CASE job.pc \in {"find", "create", "names"}
  <2>1. Left
    BY <1>1, <1>2, WritesLeaves DEF Fails
  <2>2. JobPlaced' /\ UserPlaced' /\ ScriptTypes' /\ IdsAreGiven'
    BY <1>1, <2>1, LeftPlaced, LeadTypes, QuietIds DEF Inv, Tables, Script
  <2>3. cutShort' \subseteq imported' /\ ImportedUsersAreNamed'
    <3>1. job.pc = "names" => job.id \in imported
      BY DEF Inv, JobPlaced
    <3> QED BY <1>1, <3>1 DEF Fails, Inv, TypeOK, ImportedUsersAreNamed, Tables
  <2>4. TypeOK'
    BY <1>1, <2>2, <2>3 DEF TypeOK, ScriptTypes, Tables, Script
  <2> QED BY <2>2, <2>3, <2>4 DEF Inv
<1>3. CASE job.pc \notin {"find", "create", "names"}
  <2>1. job.pc \in AtOrganizations
    BY <1>1, <1>3 DEF TypeOK, Job, Positions, AtOrganizations
  <2>2. OrganizationFails /\ UNCHANGED cutShort
    BY <1>3 DEF Fails
  <2> QED BY <1>1, <2>1, <2>2, OrganizationFailsLeads, QuietAtOrganizations
<1> QED BY <1>2, <1>3

LEMMA StartKeepsInv ==
  ASSUME Inv, Start
  PROVE  Inv'
<1>1. TypeOK /\ Tables /\ UNCHANGED <<script, file, cutShort>> /\ job.pc = "stopped"
  BY DEF Start, Inv
<1>2. starts' \in 0 .. MaxStarts
  BY BoundsAssumption DEF Start, Inv, TypeOK
<1>3. Stopped \in Job
  BY EmptySeq DEF Stopped, Job, Positions
<1>4. job' \in Job /\ job'.pc \in {"stopped", "find"} /\ (job'.pc = "find" => job'.line \in DOMAIN file)
  <2>1. CASE file = <<>>
    BY <1>3, <2>1 DEF Start, Stopped
  <2>2. CASE file # <<>>
    <3>1. 1 \in DOMAIN file
      <4>1. file \in Seq(Entry)
        BY <1>1, FilesAssumption DEF TypeOK
      <4>2. Len(file) \in Nat /\ DOMAIN file = 1 .. Len(file) /\ Len(file) # 0
        BY <2>2, <4>1, LenProperties, EmptySeq
      <4> QED BY <4>2
    <3>2. job' = [Stopped EXCEPT !.pc = "find", !.line = 1]
      BY <2>2 DEF Start
    <3>3. job' \in Job
      BY <1>3, <3>2 DEF Job, Positions
    <3>4. job'.pc = "find" /\ job'.line = 1
      BY <3>2 DEF Stopped
    <3> QED BY <3>1, <3>3, <3>4
  <2> QED BY <2>1, <2>2
<1>5. result' \in [DOMAIN file -> Result] /\ meanwhile' = {}
  BY DEF Start, Pending, Result
<1>6. Left
  BY <1>4, <1>5 DEF Left
<1>7. JobPlaced' /\ UserPlaced'
  BY <1>1, <1>6, LeftPlaced
<1>8. TypeOK'
  BY <1>1, <1>2, <1>4, <1>5 DEF TypeOK, Tables
<1>9. IdsAreGiven' /\ ImportedUsersAreNamed'
  BY <1>1, QuietIds, QuietNames DEF Inv, Tables
<1> QED BY <1>7, <1>8, <1>9 DEF Inv

LEMMA KilledKeepsInv ==
  ASSUME Inv, Killed
  PROVE  Inv'
<1>1. TypeOK /\ JobPlaced /\ job.pc # "stopped" /\ Tables /\ Script /\ job' = Stopped
      /\ UNCHANGED <<result, meanwhile>>
  BY DEF Killed, Inv
<1>2. job' \in Job /\ job'.pc = "stopped"
  BY <1>1, EmptySeq DEF Stopped, Job, Positions
<1>3. job.pc = "names" => job.id \in imported
  BY <1>1 DEF JobPlaced
<1>4. cutShort' \subseteq imported' /\ ImportedUsersAreNamed'
  BY <1>1, <1>3 DEF Killed, Inv, TypeOK, ImportedUsersAreNamed, Tables
<1>5. TypeOK'
  BY <1>1, <1>2, <1>4 DEF TypeOK, Tables, Script
<1>6. JobPlaced' /\ UserPlaced' /\ IdsAreGiven'
  BY <1>1, <1>2, QuietIds DEF JobPlaced, UserPlaced, AtOrganizations, Inv, Tables
<1> QED BY <1>4, <1>5, <1>6 DEF Inv

\* What users do does not move the script.
LEMMA SitePlaced ==
  ASSUME Inv, Site, ids' = ids \/ (ids \in Nat /\ ids' = ids + 1)
  PROVE  JobPlaced' /\ Current' = Current
<1>1. Current' = Current
  BY DEF Site, Current
<1>2. ids \in Nat
  BY DEF Inv, TypeOK
<1> QED BY <1>1, <1>2 DEF Inv, JobPlaced, Site, AtOrganizations

LEMMA SignUpKeepsInv ==
  ASSUME Inv, NEW email \in Emails, SignUp(email)
  PROVE  Inv'
<1>1. TypeOK /\ IdsOf(email) = {} /\ NewUser(email) /\ UNCHANGED <<link, meanwhile>> /\ Site
  BY DEF SignUp, Inv
<1> DEFINE i == ids + 1
           row == [email |-> email, names |-> "none"]
<1>2. /\ i \in Ids /\ ids' = i /\ ids' \in 0 .. MaxIds /\ user[i] = None
      /\ user' \in [Ids -> User \cup {None}]
      /\ user'[i] = row /\ user'[i] # None
      /\ \A k \in Ids \ {i} : user'[k] = user[k]
      /\ \A k, l \in Ids :
           user'[k] # None /\ user'[l] # None /\ user'[k].email = user'[l].email => k = l
      /\ IdsAreGiven'
  BY <1>1, NewUserTypes DEF Inv
<1>3. row.names # "own"
  OBVIOUS
<1>4. ids \in Nat /\ imported \subseteq 1 .. ids /\ imported \subseteq Ids
  <2>1. ids \in 0 .. MaxIds /\ imported \subseteq 1 .. ids
    BY <1>1 DEF TypeOK
  <2> QED BY <2>1, BoundsAssumption DEF Ids
<1> HIDE DEF row
<1>5. TypeOK'
  <2>1. imported' \subseteq 1 .. ids' /\ cutShort' \subseteq imported'
    BY <1>1, <1>2, <1>4 DEF TypeOK, Site
  <2> QED BY <1>1, <1>2, <2>1 DEF TypeOK, Site
<1>6. JobPlaced' /\ Current' = Current
  BY <1>1, <1>2, <1>4, SitePlaced
<1>7. UserPlaced'
  <2>1. \A k \in IdsOf(Current.email) : k \in IdsOf(Current.email)'
    BY <1>2, <1>6 DEF IdsOf
  <2>2. job.pc = "names" => job.id \in Ids
    BY <1>4 DEF Inv, JobPlaced
  <2> QED BY <1>1, <1>2, <1>3, <2>1, <2>2 DEF Inv, UserPlaced, Site
<1>8. ImportedUsersAreNamed'
  <2>1. \A k \in imported : user'[k] = user[k]
    BY <1>2, <1>4
  <2> QED BY <1>1, <2>1 DEF Inv, ImportedUsersAreNamed, Site
<1> QED BY <1>2, <1>5, <1>6, <1>7, <1>8 DEF Inv

LEMMA DeedTypes ==
  ASSUME TypeOK, NEW deed \in Deeds, NEW i \in Ids, Notes(deed, i)
  PROVE  meanwhile' \subseteq Deeds \X Ids /\ meanwhile \subseteq meanwhile'
         /\ <<deed, i>> \in meanwhile'
BY DEF Notes, TypeOK

LEMMA UpdatePersonalInformationsKeepsInv ==
  ASSUME Inv, NEW i \in Ids, UpdatePersonalInformations(i)
  PROVE  Inv'
<1>1. /\ TypeOK /\ user[i] # None /\ Name(i, "own") /\ Notes("names", i)
      /\ UNCHANGED <<link, ids>> /\ Site
  BY DEF UpdatePersonalInformations, Inv
<1>2. /\ user' \in [Ids -> User \cup {None}]
      /\ \A k \in Ids : /\ user'[k] # None <=> user[k] # None
                        /\ user[k] # None => user'[k].email = user[k].email
                        /\ k # i => user'[k] = user[k]
      /\ user'[i].names = "own"
      /\ \A k, l \in Ids :
           user'[k] # None /\ user'[l] # None /\ user'[k].email = user'[l].email => k = l
  BY <1>1, NameTypes
<1>3. meanwhile' \subseteq Deeds \X Ids /\ meanwhile \subseteq meanwhile'
      /\ <<"names", i>> \in meanwhile'
  BY <1>1, DeedTypes DEF Deeds
<1>4. TypeOK'
  BY <1>1, <1>2, <1>3 DEF TypeOK, Site
<1>5. JobPlaced' /\ Current' = Current
  BY <1>1, SitePlaced
<1>6. IdsAreGiven'
  BY <1>1, <1>2 DEF Inv, IdsAreGiven
<1>7. imported \subseteq Ids
  <2>1. ids \in 0 .. MaxIds /\ imported \subseteq 1 .. ids
    BY <1>1 DEF TypeOK
  <2> QED BY <2>1, BoundsAssumption DEF Ids
<1>8. UserPlaced'
  <2>1. \A k \in IdsOf(Current.email) : k \in IdsOf(Current.email)'
    BY <1>2, <1>5 DEF IdsOf
  <2>2. job.pc = "names" => job.id \in Ids
    BY <1>7 DEF Inv, JobPlaced
  <2>3. job.pc = "names" /\ user'[job.id] # None /\ user'[job.id].names = "own" =>
          <<"names", job.id>> \in meanwhile'
    BY <1>2, <1>3, <2>2 DEF Inv, UserPlaced
  <2> QED BY <1>1, <1>3, <2>1, <2>3 DEF Inv, UserPlaced, Site
<1>9. ImportedUsersAreNamed'
  BY <1>1, <1>2, <1>7 DEF Inv, ImportedUsersAreNamed, Site
<1> QED BY <1>4, <1>5, <1>6, <1>8, <1>9 DEF Inv

\* Links come and go, users stay.
LEMMA LinksKeepInv ==
  ASSUME Inv, UNCHANGED <<user, ids>>, Site, link' \in [Ids -> [Sirets -> Links]],
         meanwhile' \subseteq Deeds \X Ids, meanwhile \subseteq meanwhile'
  PROVE  Inv'
<1>1. TypeOK'
  BY DEF Inv, TypeOK, Site
<1>2. JobPlaced' /\ Current' = Current
  BY SitePlaced
<1>3. UserPlaced'
  <2>1. IdsOf(Current.email)' = IdsOf(Current.email)
    BY <1>2 DEF IdsOf
  <2> QED BY <2>1 DEF Inv, UserPlaced, Site
<1>4. IdsAreGiven' /\ ImportedUsersAreNamed'
  BY DEF Inv, IdsAreGiven, ImportedUsersAreNamed, Site
<1> QED BY <1>1, <1>2, <1>3, <1>4 DEF Inv

LEMMA JoinKeepsInv ==
  ASSUME Inv, NEW i \in Ids, NEW o \in Sirets, Join(i, o)
  PROVE  Inv'
<1>1. link' \in [Ids -> [Sirets -> Links]]
  BY DEF Join, Inv, TypeOK, Links
<1>2. meanwhile' \subseteq Deeds \X Ids
  BY DEF Join, Inv, TypeOK
<1> QED BY <1>1, <1>2, LinksKeepInv DEF Join

LEMMA QuitKeepsInv ==
  ASSUME Inv, NEW i \in Ids, NEW o \in Sirets, Quit(i, o)
  PROVE  Inv'
<1>1. link' \in [Ids -> [Sirets -> Links]]
  BY DEF Quit, Inv, TypeOK, Links
<1>2. meanwhile' \subseteq Deeds \X Ids /\ meanwhile \subseteq meanwhile'
  BY DeedTypes DEF Quit, Inv, Deeds
<1> QED BY <1>1, <1>2, LinksKeepInv DEF Quit

LEMMA DeleteKeepsInv ==
  ASSUME Inv, NEW i \in Ids, Delete(i)
  PROVE  Inv'
<1>1. /\ TypeOK /\ UNCHANGED ids /\ Site /\ Notes("deletes", i)
      /\ user' = [user EXCEPT ![i] = None]
      /\ link' = [link EXCEPT ![i] = [o \in Sirets |-> "none"]]
  BY DEF Delete, Inv
<1>2. /\ user' \in [Ids -> User \cup {None}] /\ user'[i] = None
      /\ \A k \in Ids \ {i} : user'[k] = user[k]
  BY <1>1 DEF TypeOK
<1>3. link' \in [Ids -> [Sirets -> Links]]
  BY <1>1 DEF TypeOK, Links
<1>4. meanwhile' \subseteq Deeds \X Ids /\ meanwhile \subseteq meanwhile'
      /\ <<"deletes", i>> \in meanwhile'
  BY <1>1, DeedTypes DEF Deeds
<1>5. \A k, l \in Ids :
        user'[k] # None /\ user'[l] # None /\ user'[k].email = user'[l].email => k = l
  BY <1>1, <1>2 DEF TypeOK
<1>6. TypeOK'
  BY <1>1, <1>2, <1>3, <1>4, <1>5 DEF TypeOK, Site
<1>7. JobPlaced' /\ Current' = Current
  BY <1>1, SitePlaced
<1>8. IdsAreGiven'
  BY <1>1, <1>2 DEF Inv, IdsAreGiven
<1>9. imported \subseteq Ids
  <2>1. ids \in 0 .. MaxIds /\ imported \subseteq 1 .. ids
    BY <1>1 DEF TypeOK
  <2> QED BY <2>1, BoundsAssumption DEF Ids
<1>10. UserPlaced'
  <2>1. \A k \in IdsOf(Current.email) \ {i} : k \in IdsOf(Current.email)'
    BY <1>2, <1>7 DEF IdsOf
  <2>2. job.pc = "names" => job.id \in Ids
    BY <1>9 DEF Inv, JobPlaced
  <2>3. job.pc = "names" /\ user'[job.id] # None /\ user'[job.id].names = "own" =>
          <<"names", job.id>> \in meanwhile'
    BY <1>2, <1>4, <2>2 DEF Inv, UserPlaced
  <2>4. job.pc \in {"names"} \cup AtOrganizations =>
          <<"deletes", job.id>> \in meanwhile' \/ job.id \in IdsOf(Current.email)'
    BY <1>4, <2>1 DEF Inv, UserPlaced
  <2> QED BY <1>1, <2>3, <2>4 DEF UserPlaced, Site
<1>11. ImportedUsersAreNamed'
  BY <1>1, <1>2, <1>9 DEF Inv, ImportedUsersAreNamed, Site
<1> QED BY <1>6, <1>7, <1>8, <1>10, <1>11 DEF Inv

-------------------------------------------------------------------------------
LEMMA NextKeepsInv == Inv /\ [Next]_vars => Inv'
<1> SUFFICES ASSUME Inv, [Next]_vars PROVE Inv'
  OBVIOUS
<1>1. CASE Proceed
  BY <1>1, FindKeepsInv, CreateKeepsInv, WriteNamesKeepsInv, AskInseeKeepsInv,
     FindLinksKeepsInv, InsertLinkKeepsInv DEF Proceed
<1>2. CASE Fails \/ Start \/ Killed
  BY <1>2, FailsKeepsInv, StartKeepsInv, KilledKeepsInv
<1>3. CASE SiteNext
  BY <1>3, SignUpKeepsInv, UpdatePersonalInformationsKeepsInv, DeleteKeepsInv,
     JoinKeepsInv, QuitKeepsInv DEF SiteNext
<1>4. CASE UNCHANGED vars
  BY <1>4 DEF vars, Inv, TypeOK, JobPlaced, IdsAreGiven, UserPlaced,
     ImportedUsersAreNamed, Current, IdsOf
<1> QED BY <1>1, <1>2, <1>3, <1>4 DEF Next

THEOREM Invariance == Spec => []Inv
<1>1. Init => Inv
  BY InitInv
<1>2. Inv /\ [Next]_vars => Inv'
  BY NextKeepsInv
<1> QED BY <1>1, <1>2, PTL DEF Spec

(***************************************************************************)
(* Every variable keeps its type, an email is that of one user, and what   *)
(* was cut short was created by a script.                                  *)
(***************************************************************************)
THEOREM TypeCorrect == Spec => []TypeOK
<1>1. Inv => TypeOK
  BY DEF Inv
<1> QED BY <1>1, Invariance, PTL

(***************************************************************************)
(* Whatever is in the file, and however often the script is killed and     *)
(* started again, an account it has created is left without names only     *)
(* where the query that writes them was cut short.                         *)
(***************************************************************************)
THEOREM UsersAreNamed == Spec => []ImportedUsersAreNamed
<1>1. Inv => ImportedUsersAreNamed
  BY DEF Inv
<1> QED BY <1>1, Invariance, PTL

-------------------------------------------------------------------------------
(* What a step of the script leaves as users entered it.                   *)

Kept(i) ==
  /\ \A o \in Sirets : link[i][o] # "none" => link'[i][o] = link[i][o]
  /\ user[i] # None => user'[i] # None
  /\ user[i] # None /\ user[i].names = "own" /\ <<"names", i>> \notin meanwhile =>
       user'[i].names = "own"

LEMMA CreateKeeps ==
  ASSUME Inv, Create, NEW i \in Ids
  PROVE  Kept(i)
<1>1. /\ TypeOK /\ IdsAreGiven /\ Current.email \in Emails
  BY DEF Create, Inv, JobPlaced
<1>2. CASE Tables
  BY <1>2 DEF Kept, Tables
<1>3. CASE IdsOf(Current.email) = {} /\ NewUser(Current.email) /\ UNCHANGED link
  <2>1. user[i] # None => user'[i] = user[i]
    BY <1>1, <1>3, NewUserTypes
  <2> QED BY <1>3, <2>1 DEF Kept
<1> QED BY <1>2, <1>3 DEF Create

LEMMA WriteNamesKeeps ==
  ASSUME Inv, WriteNames, NEW i \in Ids
  PROVE  Kept(i)
<1>1. TypeOK /\ job.pc = "names" /\ UNCHANGED link /\ Name(job.id, "imported")
      /\ job.id \in imported
      /\ (user[job.id] # None /\ user[job.id].names = "own" => <<"names", job.id>> \in meanwhile)
  BY DEF WriteNames, Inv, JobPlaced, UserPlaced
<1>2. job.id \in Ids
  <2>1. ids \in 0 .. MaxIds /\ job.id \in 1 .. ids
    BY <1>1 DEF TypeOK
  <2> QED BY <2>1, BoundsAssumption DEF Ids
<1>3. \A k \in Ids : /\ user'[k] # None <=> user[k] # None
                     /\ k # job.id => user'[k] = user[k]
  BY <1>1, <1>2, NameTypes
<1> QED BY <1>1, <1>3 DEF Kept

LEMMA InsertLinkKeeps ==
  ASSUME Inv, InsertLink, NEW i \in Ids
  PROVE  Kept(i)
<1> DEFINE o == Head(job.todo)
           k == job.id
<1>1. CASE UNCHANGED link
  BY <1>1 DEF InsertLink, Kept
<1>2. CASE link[k][o] = "none" /\ link' = [link EXCEPT ![k][o] = "imported"]
  <2> HIDE DEF o, k
  <2>1. link \in [Ids -> [Sirets -> Links]]
    BY DEF Inv, TypeOK
  <2>2. \A p \in Sirets : link[i][p] # "none" => link'[i][p] = link[i][p]
    BY <1>2, <2>1
  <2>3. UNCHANGED user
    BY DEF InsertLink
  <2> QED BY <2>2, <2>3 DEF Kept
<1> QED BY <1>1, <1>2 DEF InsertLink

(***************************************************************************)
(* A script changes no link that is there, no names that a user has given  *)
(* before it turned to the entry, and deletes nobody.                      *)
(***************************************************************************)
THEOREM EnteredIsKept == Spec => WhatUsersEnteredIsKept
<1> DEFINE Step == job' # job => \A i \in Ids : Kept(i)
<1>1. ASSUME Inv, [Next]_vars PROVE Step
  <2> SUFFICES ASSUME job' # job, NEW i \in Ids PROVE Kept(i)
    OBVIOUS
  <2>1. CASE Find \/ AskInsee \/ FindLinks \/ Fails \/ Start \/ Killed
    <3>1. UNCHANGED <<user, link>>
      BY <2>1 DEF Find, AskInsee, FindLinks, Fails, Start, Killed, Tables
    <3> QED BY <3>1 DEF Kept
  <2>2. CASE Create \/ WriteNames \/ InsertLink
    BY <1>1, <2>2, CreateKeeps, WriteNamesKeeps, InsertLinkKeeps
  <2>3. CASE SiteNext
    BY <2>3 DEF SiteNext, SignUp, UpdatePersonalInformations, Delete, Join, Quit, Site
  <2>4. CASE UNCHANGED vars
    BY <2>4 DEF vars
  <2> QED BY <1>1, <2>1, <2>2, <2>3, <2>4 DEF Next, Proceed
<1>2. Inv /\ [Next]_vars => [Step]_vars
  BY <1>1
<1>3. [][Step]_vars => WhatUsersEnteredIsKept
  BY PTL DEF WhatUsersEnteredIsKept, Kept
<1> QED BY <1>2, <1>3, Invariance, PTL DEF Spec

-------------------------------------------------------------------------------
(* What is written of an entry.                                            *)

Imported(n) ==
  LET i == result'[n].id
      o == file[n].sirets[1]
  IN \/ <<"deletes", i>> \in meanwhile
     \/ /\ i \in IdsOf(file[n].email)
        /\ script = "coop" => link'[i][o] # "none" \/ <<o, i>> \in meanwhile

Told(n) == result'[n] # result[n] /\ result'[n].outcome = "success"

LEMMA WritesTells ==
  ASSUME TypeOK, JobPlaced, NEW outcome, NEW i, Writes(outcome, i),
         NEW n \in DOMAIN file, Told(n)
  PROVE  n = job.line /\ file[n] = Current /\ result'[n].id = i /\ outcome = "success"
BY DEF Writes, TypeOK, Told, Current

LEMMA GoesTells ==
  ASSUME NEW j, Goes(j), NEW n \in DOMAIN file
  PROVE  ~Told(n)
BY DEF Goes, Told

LEMMA TurnsToOrganizationsTells ==
  ASSUME TypeOK, JobPlaced, job.pc # "stopped", NEW i, TurnsToOrganizations(i),
         <<"deletes", i>> \in meanwhile \/ i \in IdsOf(Current.email),
         NEW n \in DOMAIN file, Told(n)
  PROVE  Imported(n)
<1>1. Writes("success", i) /\ Current.sirets = <<>>
  BY WritesTells, GoesTells DEF TurnsToOrganizations
<1>2. script # "coop"
  BY <1>1, EntryOfLine, EmptySeq
<1>3. file[n] = Current /\ result'[n].id = i
  BY <1>1, WritesTells
<1> QED BY <1>2, <1>3 DEF Imported

LEMMA TurnsToNextTells ==
  ASSUME TypeOK, JobPlaced, TurnsToNext,
         <<"deletes", job.id>> \in meanwhile \/ job.id \in IdsOf(Current.email),
         script = "coop" => link'[job.id][Current.sirets[1]] # "none",
         NEW n \in DOMAIN file, Told(n)
  PROVE  Imported(n)
<1>1. file[n] = Current /\ result'[n].id = job.id
  BY WritesTells, GoesTells DEF TurnsToNext
<1> QED BY <1>1 DEF Imported

LEMMA OrganizationFailsTells ==
  ASSUME TypeOK, JobPlaced, OrganizationFails,
         <<"deletes", job.id>> \in meanwhile \/ job.id \in IdsOf(Current.email),
         NEW n \in DOMAIN file, Told(n)
  PROVE  Imported(n)
<1>1. CASE script = "coop"
  BY <1>1, WritesTells DEF OrganizationFails
<1>2. CASE script # "coop"
  BY <1>2, TurnsToNextTells DEF OrganizationFails
<1> QED BY <1>1, <1>2

\* The organization of a mediator.
LEMMA CoopOrganization ==
  ASSUME Inv, job.pc \in AtOrganizations, script = "coop"
  PROVE  Head(job.todo) = Current.sirets[1]
<1>1. job.todo = Current.sirets /\ job.todo \in Seq(Sirets)
  BY DEF Inv, JobPlaced
<1> QED BY <1>1

LEMMA InsertLinkTells ==
  ASSUME Inv, InsertLink, NEW n \in DOMAIN file, Told(n)
  PROVE  Imported(n)
<1> DEFINE o == Head(job.todo)
<1>1. /\ job.pc = "link" /\ job.pc \in AtOrganizations /\ TypeOK /\ JobPlaced
      /\ (<<"deletes", job.id>> \in meanwhile \/ job.id \in IdsOf(Current.email))
  BY DEF InsertLink, AtOrganizations, Inv, UserPlaced
<1>2. CASE OrganizationFails
  BY <1>1, <1>2, OrganizationFailsTells
<1>3. CASE link' = [link EXCEPT ![job.id][o] = "imported"] /\ TurnsToNext
  <2>1. job.id \in Ids /\ o \in Sirets
    <3>1. job.id \in 1 .. ids /\ job.todo \in Seq(Sirets) /\ job.todo # <<>>
      BY <1>1 DEF JobPlaced
    <3>2. ids \in 0 .. MaxIds
      BY <1>1 DEF TypeOK
    <3> QED BY <3>1, <3>2, BoundsAssumption, HeadTailProperties DEF Ids
  <2>2. script = "coop" => o = Current.sirets[1]
    BY <1>1, CoopOrganization
  <2> HIDE DEF o
  <2>3. link'[job.id][o] = "imported"
    BY <1>1, <1>3, <2>1 DEF TypeOK
  <2> QED BY <1>1, <1>3, <2>2, <2>3, TurnsToNextTells
<1> QED BY <1>2, <1>3 DEF InsertLink

LEMMA FindLinksTells ==
  ASSUME Inv, FindLinks, NEW n \in DOMAIN file, Told(n)
  PROVE  Imported(n)
<1>1. /\ job.pc \in AtOrganizations /\ TypeOK /\ JobPlaced /\ UNCHANGED link
      /\ (<<"deletes", job.id>> \in meanwhile \/ job.id \in IdsOf(Current.email))
  BY DEF FindLinks, AtOrganizations, Inv, UserPlaced, Tables
<1>2. link[job.id][Head(job.todo)] # "none" /\ TurnsToNext
  BY GoesTells DEF FindLinks
<1> QED BY <1>1, <1>2, CoopOrganization, TurnsToNextTells

(***************************************************************************)
(* A success that is written names the user of the entry's email, and that *)
(* of a mediator one who is in the organization, unless the user has undone *)
(* it since the script turned to the entry.                                *)
(***************************************************************************)
THEOREM SuccessImported == Spec => SuccessMeansImported
<1> DEFINE Step == \A n \in DOMAIN file : Told(n) => Imported(n)
<1>1. ASSUME Inv, [Next]_vars PROVE Step
  <2> SUFFICES ASSUME NEW n \in DOMAIN file, Told(n) PROVE Imported(n)
    OBVIOUS
  <2>1. TypeOK /\ JobPlaced
    BY <1>1 DEF Inv
  <2>2. CASE Find
    <3>1. PICK i \in IdsOf(Current.email) : TurnsToOrganizations(i)
      BY <2>1, <2>2, WritesTells, GoesTells DEF Find
    <3> QED BY <2>1, <2>2, <3>1, TurnsToOrganizationsTells DEF Find
  <2>3. CASE WriteNames
    BY <1>1, <2>1, <2>3, TurnsToOrganizationsTells DEF WriteNames, Inv, UserPlaced
  <2>4. CASE FindLinks \/ InsertLink
    BY <1>1, <2>4, FindLinksTells, InsertLinkTells
  <2>5. CASE Create \/ AskInsee \/ Killed
    BY <2>1, <2>5, WritesTells, GoesTells DEF Create, AskInsee, Killed, Told
  <2>6. CASE Fails
    <3>1. CASE job.pc \in {"find", "create", "names"}
      BY <2>1, <2>6, <3>1, WritesTells DEF Fails
    <3>2. CASE job.pc \notin {"find", "create", "names"}
      <4>1. job.pc \in AtOrganizations
        BY <2>1, <2>6, <3>2 DEF Fails, TypeOK, Job, Positions, AtOrganizations
      <4> QED BY <1>1, <2>1, <2>6, <3>2, <4>1, OrganizationFailsTells DEF Fails, Inv, UserPlaced
    <3> QED BY <3>1, <3>2
  <2>7. CASE Start
    BY <2>7 DEF Start, Told, Pending
  <2>8. CASE SiteNext
    BY <2>8 DEF SiteNext, SignUp, UpdatePersonalInformations, Delete, Join, Quit, Site, Told
  <2>9. CASE UNCHANGED vars
    BY <2>9 DEF vars, Told
  <2> QED BY <1>1, <2>2, <2>3, <2>4, <2>5, <2>6, <2>7, <2>8, <2>9 DEF Next, Proceed
<1>2. Inv /\ [Next]_vars => [Step]_vars
  BY <1>1
<1>3. [][Step]_vars => SuccessMeansImported
  BY PTL DEF SuccessMeansImported, Told, Imported
<1> QED BY <1>2, <1>3, Invariance, PTL DEF Spec

-------------------------------------------------------------------------------
(***************************************************************************)
(* THE MIGRATIONS.  The columns that a table has depend only on the files  *)
(* that are applied (ColumnsAt), and every file goes from the columns of   *)
(* the one before to its own.  Most files are quiet: they change nothing   *)
(* that a property reads (QuietUp, QuietDown).  For each of the others a   *)
(* lemma of its own says what it rewrites and what that keeps.             *)
(***************************************************************************)

\* Cells and requirements are functions, of the tables and of their columns.
AreCells(f) == f = [t \in TableNames |-> [c \in DOMAIN f[t] |-> f[t][c]]]
AreRequired(r) == r = [t \in TableNames |-> r[t]]

IsDatabase(d) ==
  /\ d \in [ok : BOOLEAN, cell : {d.cell}, rows : SUBSET TableNames, required : {d.required},
            unique : {"no", "nulls distinct", "nulls too"},
            domains : [Lists \cup Types -> [Domains -> Nat]],
            connections : Seq(Nat), email : Domains \cup {NoDomain}]
  /\ AreCells(d.cell)
  /\ AreRequired(d.required)

(***************************************************************************)
(* What a statement makes of a database.                                   *)
(***************************************************************************)

\* e is d with v in the columns cs of t.
Wrote(d, e, t, cs, v) ==
  /\ IsDatabase(e)
  /\ e.ok <=> d.ok
  /\ e.rows = d.rows
  /\ e.domains = d.domains
  /\ e.connections = d.connections
  /\ e.email = d.email
  /\ \A u \in TableNames : u # t => e.cell[u] = d.cell[u]
  /\ ColumnsOf(e, t) = ColumnsOf(d, t) \cup cs
  /\ \A c \in ColumnsOf(e, t) : e.cell[t][c] = IF c \in cs THEN v ELSE d.cell[t][c]

LEMMA CellsWritten ==
  ASSUME NEW d, IsDatabase(d), NEW t \in TableNames, NEW cs, NEW v
  PROVE  Wrote(d, WithCells(d, t, cs, v), t, cs, v)
<1> DEFINE f == [c \in ColumnsOf(d, t) \cup cs |-> IF c \in cs THEN v ELSE d.cell[t][c]]
           e == WithCells(d, t, cs, v)
<1>1. e = [d EXCEPT !.cell[t] = f]
  BY DEF WithCells, ColumnsOf
<1>2. DOMAIN f = ColumnsOf(d, t) \cup cs /\ f = [c \in DOMAIN f |-> f[c]]
  OBVIOUS
<1>3. \A c \in DOMAIN f : f[c] = IF c \in cs THEN v ELSE d.cell[t][c]
  OBVIOUS
<1> HIDE DEF f
<1>4. DOMAIN d.cell = TableNames
  BY DEF IsDatabase, AreCells
<1>5. /\ e.cell = [d.cell EXCEPT ![t] = f] /\ e.required = d.required
      /\ (e.ok <=> d.ok) /\ e.rows = d.rows /\ e.connections = d.connections /\ e.email = d.email
      /\ e.unique = d.unique /\ e.domains = d.domains
  BY <1>1 DEF IsDatabase
<1>6. e.cell[t] = f /\ \A u \in TableNames : u # t => e.cell[u] = d.cell[u]
  BY <1>4, <1>5
<1>7. \A u \in TableNames : e.cell[u] = [c \in DOMAIN e.cell[u] |-> e.cell[u][c]]
  <2>1. \A u \in TableNames : d.cell[u] = [c \in DOMAIN d.cell[u] |-> d.cell[u][c]]
    BY DEF IsDatabase, AreCells
  <2> QED
    BY <1>2, <1>6, <2>1
<1>8. AreCells(e.cell)
  BY <1>4, <1>5, <1>7 DEF AreCells
<1>9. IsDatabase(e)
  BY <1>1, <1>5, <1>8 DEF IsDatabase
<1> QED
  BY <1>2, <1>3, <1>5, <1>6, <1>9 DEF ColumnsOf, Wrote

\* e is d without the columns cs of t; those that are lists take their domains along.
Lost(d, e, t, cs) ==
  /\ IsDatabase(e)
  /\ e.ok <=> d.ok
  /\ e.rows = d.rows
  /\ \A l \in Lists \cup Types :
       e.domains[l] = IF t = "organizations" /\ l \in cs THEN [x \in Domains |-> 0] ELSE d.domains[l]
  /\ e.connections = d.connections
  /\ e.email = d.email
  /\ \A u \in TableNames : u # t => e.cell[u] = d.cell[u]
  /\ ColumnsOf(e, t) = ColumnsOf(d, t) \ cs
  /\ \A c \in ColumnsOf(e, t) : e.cell[t][c] = d.cell[t][c]

LEMMA CellsLost ==
  ASSUME NEW d, IsDatabase(d), NEW t \in TableNames, NEW cs
  PROVE  Lost(d, WithoutCells(d, t, cs), t, cs)
<1> DEFINE f == [c \in ColumnsOf(d, t) \ cs |-> d.cell[t][c]]
           g == [l \in Lists \cup Types |->
                   IF t = "organizations" /\ l \in cs THEN [x \in Domains |-> 0] ELSE d.domains[l]]
           e == WithoutCells(d, t, cs)
<1>1. /\ DOMAIN d.cell = TableNames /\ DOMAIN d.required = TableNames
      /\ d.domains \in [Lists \cup Types -> [Domains -> Nat]]
  BY DEF IsDatabase, AreCells, AreRequired
<1>2. e = [d EXCEPT !.cell[t] = f, !.required[t] = @ \ cs, !.domains = g]
  BY <1>1 DEF WithoutCells, ColumnsOf
<1>3. g \in [Lists \cup Types -> [Domains -> Nat]]
  BY <1>1
<1>4. DOMAIN f = ColumnsOf(d, t) \ cs /\ f = [c \in DOMAIN f |-> f[c]]
  OBVIOUS
<1>5. \A c \in DOMAIN f : f[c] = d.cell[t][c]
  OBVIOUS
<1> HIDE DEF f, g
<1>6. /\ e.cell = [d.cell EXCEPT ![t] = f] /\ e.domains = g
      /\ e.required = [d.required EXCEPT ![t] = @ \ cs]
      /\ (e.ok <=> d.ok) /\ e.rows = d.rows /\ e.connections = d.connections /\ e.email = d.email
      /\ e.unique = d.unique
  BY <1>2 DEF IsDatabase
<1>7. e.cell[t] = f /\ \A u \in TableNames : u # t => e.cell[u] = d.cell[u]
  BY <1>1, <1>6
<1>8. AreCells(e.cell) /\ AreRequired(e.required)
  <2>1. \A u \in TableNames : d.cell[u] = [c \in DOMAIN d.cell[u] |-> d.cell[u][c]]
    BY DEF IsDatabase, AreCells
  <2>2. \A u \in TableNames : e.cell[u] = [c \in DOMAIN e.cell[u] |-> e.cell[u][c]]
    BY <1>4, <1>7, <2>1
  <2> QED
    BY <1>1, <1>6, <2>2 DEF AreCells, AreRequired
<1>9. IsDatabase(e)
  BY <1>1, <1>2, <1>3, <1>6, <1>8 DEF IsDatabase
<1> QED
  BY <1>4, <1>5, <1>6, <1>7, <1>9 DEF g, ColumnsOf, Lost

\* e is d without t.
LostTable(d, e, t) ==
  /\ IsDatabase(e)
  /\ e.ok <=> d.ok
  /\ e.rows = d.rows \ {t}
  /\ \A l \in Lists \cup Types :
       e.domains[l] = IF \/ t = "organizations" /\ l \in ColumnsOf(d, t)
                         \/ t = "email_domains" /\ l \in Types
                      THEN [x \in Domains |-> 0] ELSE d.domains[l]
  /\ e.connections = IF t = "users_oidc_clients" THEN <<>> ELSE d.connections
  /\ e.email = IF t = "users" THEN NoDomain ELSE d.email
  /\ \A u \in TableNames : u # t => e.cell[u] = d.cell[u]
  /\ ColumnsOf(e, t) = {}

LEMMA TableLost ==
  ASSUME NEW d, IsDatabase(d), NEW t \in TableNames
  PROVE  LostTable(d, WithoutTable(d, t), t)
<1> DEFINE w == WithoutCells(d, t, ColumnsOf(d, t))
           g == [l \in Lists \cup Types |->
                   IF t = "email_domains" /\ l \in Types THEN [x \in Domains |-> 0] ELSE w.domains[l]]
           e == WithoutTable(d, t)
<1>1. Lost(d, w, t, ColumnsOf(d, t))
  BY CellsLost
<1> HIDE DEF w
<1>2. IsDatabase(w)
  BY <1>1 DEF Lost
<1>3. w.domains \in [Lists \cup Types -> [Domains -> Nat]]
  BY <1>2 DEF IsDatabase
<1>4. e = [w EXCEPT !.rows = @ \ {t}, !.unique = IF t = "email_domains" THEN "no" ELSE @,
                    !.domains = g,
                    !.connections = IF t = "users_oidc_clients" THEN <<>> ELSE @,
                    !.email = IF t = "users" THEN NoDomain ELSE @]
  BY <1>3 DEF WithoutTable, w
<1>5. g \in [Lists \cup Types -> [Domains -> Nat]]
  BY <1>3
<1> HIDE DEF g
<1>6. /\ w.rows \ {t} \in SUBSET TableNames
      /\ (IF t = "email_domains" THEN "no" ELSE w.unique) \in {"no", "nulls distinct", "nulls too"}
      /\ (IF t = "users_oidc_clients" THEN <<>> ELSE w.connections) \in Seq(Nat)
      /\ (IF t = "users" THEN NoDomain ELSE w.email) \in Domains \cup {NoDomain}
  <2>1. /\ w.rows \in SUBSET TableNames /\ w.unique \in {"no", "nulls distinct", "nulls too"}
        /\ w.connections \in Seq(Nat) /\ w.email \in Domains \cup {NoDomain}
    BY <1>2 DEF IsDatabase
  <2>2. w.rows \ {t} \in SUBSET TableNames
    BY <2>1
  <2>3. <<>> \in Seq(Nat)
    OBVIOUS
  <2> QED
    BY <2>1, <2>2, <2>3
<1>7. /\ (e.ok <=> w.ok) /\ e.rows = w.rows \ {t} /\ e.cell = w.cell /\ e.domains = g
      /\ e.connections = (IF t = "users_oidc_clients" THEN <<>> ELSE w.connections)
      /\ e.email = (IF t = "users" THEN NoDomain ELSE w.email) /\ e.required = w.required
  BY <1>2, <1>4 DEF IsDatabase
<1>8. IsDatabase(e)
  BY <1>2, <1>4, <1>5, <1>6, <1>7 DEF IsDatabase
<1> QED
  BY <1>1, <1>7, <1>8 DEF g, ColumnsOf, Lost, LostTable

(***************************************************************************)
(* The columns of every table, once n files are applied.  The down of      *)
(* 1685102115392 leaves one that it added: "kept".                         *)
(***************************************************************************)
When(b, cs) == IF b THEN cs ELSE {}

ColumnsAt(t, n, kept) ==
  CASE t = "users" ->
      When(n \in 1..2, Devise)
        \cup When(n \in 1..10, {"roles"})
        \cup When(n >= 1, {"id", "email", "encrypted_password", "reset_password_token",
                           "reset_password_sent_at", "sign_in_count", "last_sign_in_at",
                           "created_at", "updated_at"})
        \cup When(n \in 2..5, {"legacy_account_type"})
        \cup When(n \in 3..50, {"legacy_user"})
        \cup When(n >= 5, {"email_verified", "verify_email_token", "verify_email_sent_at"})
        \cup When(n >= 7, {"given_name", "family_name"})
        \cup When(n >= 12, {"phone_number", "job"})
        \cup When(n >= 22, {"magic_link_token", "magic_link_sent_at"})
        \cup When(n >= 24, {"email_verified_at"})
        \cup When(n \in 37..37, {"has_been_greeted_for_first_organization_join"})
        \cup When(n >= 45, {"current_challenge"})
        \cup When(n >= 52, {"needs_inclusionconnect_welcome_page"})
        \cup When(n >= 53, {"needs_inclusionconnect_onboarding_help"})
        \cup When(n >= 54, {"encrypted_totp_key", "totp_key_verified_at"})
        \cup When(n >= 56, {"force_2fa"})
    [] t = "organizations" ->
      When(n >= 8, {"id", "siret"})
        \cup When(n \in 9..56, {"authorized_email_domains"})
        \cup When(n \in 14..56, {"external_authorized_email_domains"})
        \cup When(n >= 15, {"created_at", "updated_at"})
        \cup When(n >= 23, {"cached_libelle", "cached_nom_complet", "cached_enseigne",
                            "cached_tranche_effectifs", "cached_tranche_effectifs_unite_legale",
                            "cached_libelle_tranche_effectif", "cached_etat_administratif",
                            "cached_est_active", "cached_statut_diffusion", "cached_est_diffusible",
                            "cached_adresse", "cached_code_postal", "cached_activite_principale",
                            "cached_libelle_activite_principale", "cached_categorie_juridique",
                            "cached_libelle_categorie_juridique", "organization_info_fetched_at"})
        \cup When(n \in 29..56, {"verified_email_domains"})
        \cup When(n \in 30..31, {"external_verified_email_domains"})
        \cup When(n >= 34, {"cached_code_officiel_geographique"})
        \cup When(n \in 50..56, {"trackdechets_email_domains"})
    [] t = "users_organizations" ->
      When(n >= 8, {"user_id", "organization_id"})
        \cup When(n >= 14, {"is_external"})
        \cup When(n >= 15, {"created_at", "updated_at"})
        \cup When(n >= 29, {"verification_type"})
        \cup When(n \in 37..63, {"authentication_by_peers_type"})
        \cup When(n >= 38, {"has_been_greeted"})
        \cup kept
        \cup When(n \in 39..63, {"sponsor_id"})
        \cup When(n >= 43, {"needs_official_contact_email_verification",
                            "official_contact_email_verification_token",
                            "official_contact_email_verification_sent_at"})
        \cup When(n >= 61, {"verified_at"})
    [] t = "moderations" ->
      When(n >= 16, {"id", "user_id", "organization_id", "type", "created_at", "moderated_at"})
        \cup When(n \in 17..32, {"as_external"})
        \cup When(n >= 21, {"comment"})
        \cup When(n >= 46, {"ticket_id"})
        \cup When(n >= 49, {"moderated_by"})
    [] t = "moderation_type" ->
      When(n \in 16..18, {"organization_join_block"})
    [] t = "oidc_clients" ->
      When(n \in 4..26, {"name"})
        \cup When(n >= 4, {"id", "client_id", "client_secret", "redirect_uris", "created_at",
                           "updated_at"})
        \cup When(n >= 10, {"post_logout_redirect_uris"})
        \cup When(n >= 13, {"scope"})
        \cup When(n >= 27, {"client_name", "client_uri", "client_description"})
        \cup When(n >= 40, {"userinfo_signed_response_alg"})
        \cup When(n >= 41, {"id_token_signed_response_alg", "authorization_signed_response_alg",
                            "introspection_signed_response_alg"})
        \cup When(n >= 65, {"is_proconnect_federation"})
    [] t = "users_oidc_clients" ->
      When(n \in 26..34, {"connection_count"})
        \cup When(n >= 26, {"user_id", "oidc_client_id", "created_at", "updated_at"})
        \cup When(n >= 35, {"id"})
        \cup When(n >= 44, {"organization_id"})
    [] t = "authenticators" ->
      When(n >= 45, {"credential_id", "credential_public_key", "counter", "credential_device_type",
                     "credential_backed_up", "transports", "user_id"})
        \cup When(n >= 47, {"display_name", "created_at", "last_used_at"})
        \cup When(n >= 48, {"usage_count"})
        \cup When(n >= 55, {"user_verified"})
    [] t = "email_domains" ->
      When(n >= 57, {"id", "organization_id", "domain", "verification_type", "can_be_suggested",
                     "verified_at", "created_at", "updated_at"})

ShapeAt(n, kept) == [t \in TableNames |-> ColumnsAt(t, n, kept)]

Shape(d) == [t \in TableNames |-> ColumnsOf(d, t)]
Plus(S, t, cs) == [u \in TableNames |-> S[u] \cup When(u = t, cs)]
Minus(S, t, cs) == [u \in TableNames |-> S[u] \ When(u = t, cs)]

\* It is kept as long as its table cannot be dropped.
Keepable(n) == SUBSET When(n >= 14, {"has_been_greeted"})

Schema(d, n) == \E kept \in Keepable(n) : Shape(d) = ShapeAt(n, kept)

(***************************************************************************)
(* Most statements touch nothing that a property reads: Telling columns, *)
(* the tables that have rows, the domains and the connections.             *)
(***************************************************************************)
Telling(t) ==
  CASE t = "users" -> {"force_2fa", "encrypted_totp_key"}
    [] t = "users_organizations" -> {"verification_type"}
    [] t = "moderations" -> {"type", "ticket_id"}
    [] OTHER -> {}

\* The columns that are never null, with or without a row.
NonNull(t) ==
  CASE t = "users" -> {"legacy_user"}
    [] t = "organizations" -> {"authorized_email_domains", "external_authorized_email_domains",
                               "verified_email_domains"}
    [] t = "users_organizations" -> {"is_external"}
    [] t = "oidc_clients" -> {"redirect_uris", "post_logout_redirect_uris", "scope"}
    [] OTHER -> {}

NeverNull(d) ==
  \A t \in TableNames : \A c \in NonNull(t) : Has(d, t, c) => d.cell[t][c] # "null"

\* A column that is not there is seen as one that holds nothing.
Seen(d, t, c) == IF Has(d, t, c) THEN d.cell[t][c] ELSE "null"

Alike(d, e) ==
  /\ e.rows = d.rows
  /\ e.domains = d.domains
  /\ e.connections = d.connections
  /\ e.email = d.email
  /\ Kinds(d) \subseteq Kinds(e)
  /\ Has(e, "users_oidc_clients", "connection_count")
       <=> Has(d, "users_oidc_clients", "connection_count")
  /\ \A t \in TableNames : \A c \in Telling(t) : Seen(e, t, c) = Seen(d, t, c)

\* e is as d for the properties, and its tables have the columns S.
Quietly(d, e, S) ==
  /\ IsDatabase(e)
  /\ e.ok
  /\ Shape(e) = S
  /\ Alike(d, e)
  /\ NeverNull(d) => NeverNull(e)

LEMMA QuietlyOnAndOn ==
  ASSUME NEW d, NEW e, NEW f, NEW S, NEW T, Quietly(d, e, S), Quietly(e, f, T)
  PROVE  Quietly(d, f, T)
<1>1. Alike(d, f)
  BY DEF Quietly, Alike
<1> QED
  BY <1>1 DEF Quietly

LEMMA QuietlyNothing ==
  ASSUME NEW d, IsDatabase(d), d.ok
  PROVE  Quietly(d, d, Shape(d))
BY DEF Quietly, Alike

LEMMA NamesOfColumns ==
  ASSUME NEW d, NEW t \in TableNames
  PROVE  Shape(d)[t] = ColumnsOf(d, t)
BY DEF Shape

\* What a column is told by: its value, if it is new, is null.
LEMMA WroteQuietly ==
  ASSUME NEW d, IsDatabase(d), NEW e, NEW t \in TableNames, NEW cs, NEW v,
         d.ok, Wrote(d, e, t, cs, v), "connection_count" \notin cs,
         cs \cap Telling(t) = {} \/ (v = "null" /\ cs \cap ColumnsOf(d, t) = {}),
         v # "null" \/ cs \cap NonNull(t) = {}
  PROVE  Quietly(d, e, Plus(Shape(d), t, cs))
<1>1. /\ \A u \in TableNames : u # t => e.cell[u] = d.cell[u]
      /\ ColumnsOf(e, t) = ColumnsOf(d, t) \cup cs
      /\ \A c \in ColumnsOf(e, t) : e.cell[t][c] = IF c \in cs THEN v ELSE d.cell[t][c]
  BY DEF Wrote
<1>2. \A u \in TableNames : ColumnsOf(e, u) = ColumnsOf(d, u) \cup When(u = t, cs)
  BY <1>1 DEF ColumnsOf, When
<1>3. Shape(e) = Plus(Shape(d), t, cs)
  BY <1>2 DEF Shape, Plus
<1>4. \A u \in TableNames : \A c \in Telling(u) : Seen(e, u, c) = Seen(d, u, c)
  BY <1>1, <1>2 DEF Has, Seen, When
<1>5. Kinds(d) \subseteq Kinds(e)
  BY <1>2 DEF Kinds, When, TableNames
<1>6. Has(e, "users_oidc_clients", "connection_count")
        <=> Has(d, "users_oidc_clients", "connection_count")
  BY <1>2 DEF Has, When, TableNames
<1>7. Alike(d, e)
  BY <1>4, <1>5, <1>6 DEF Alike, Wrote
<1>8. ASSUME NeverNull(d)
      PROVE  NeverNull(e)
  BY <1>1, <1>2, <1>8 DEF NeverNull, Has, When
<1> QED
  BY <1>3, <1>7, <1>8 DEF Quietly, Wrote

LEMMA LostQuietly ==
  ASSUME NEW d, IsDatabase(d), NEW e, NEW t \in TableNames, NEW cs,
         d.ok, Lost(d, e, t, cs), "connection_count" \notin cs, cs \cap Telling(t) = {},
         cs \cap (Lists \cup Types) = {}, t # "email_domains"
  PROVE  Quietly(d, e, Minus(Shape(d), t, cs))
<1>1. /\ \A u \in TableNames : u # t => e.cell[u] = d.cell[u]
      /\ ColumnsOf(e, t) = ColumnsOf(d, t) \ cs
      /\ \A c \in ColumnsOf(e, t) : e.cell[t][c] = d.cell[t][c]
  BY DEF Lost
<1>2. \A u \in TableNames : ColumnsOf(e, u) = ColumnsOf(d, u) \ When(u = t, cs)
  BY <1>1 DEF ColumnsOf, When
<1>3. Shape(e) = Minus(Shape(d), t, cs)
  BY <1>2 DEF Shape, Minus
<1>4. \A u \in TableNames : \A c \in Telling(u) : Seen(e, u, c) = Seen(d, u, c)
  BY <1>1, <1>2 DEF Has, Seen, When
<1>5. e.domains = d.domains
  <2>1. IsDatabase(e)
    BY DEF Lost
  <2>2. /\ e.domains \in [Lists \cup Types -> [Domains -> Nat]]
        /\ d.domains \in [Lists \cup Types -> [Domains -> Nat]]
    BY <2>1 DEF IsDatabase
  <2>3. \A l \in Lists \cup Types : e.domains[l] = d.domains[l]
    BY DEF Lost
  <2> QED
    BY <2>2, <2>3
<1>6. Kinds(d) \subseteq Kinds(e)
  BY <1>2 DEF Kinds, When, TableNames
<1>7. Has(e, "users_oidc_clients", "connection_count")
        <=> Has(d, "users_oidc_clients", "connection_count")
  BY <1>2 DEF Has, When, TableNames
<1>8. Alike(d, e)
  BY <1>4, <1>5, <1>6, <1>7 DEF Alike, Lost
<1>9. ASSUME NeverNull(d)
      PROVE  NeverNull(e)
  BY <1>1, <1>2, <1>9 DEF NeverNull, Has, When
<1> QED
  BY <1>3, <1>8, <1>9 DEF Quietly, Lost

(***************************************************************************)
(* The statements one by one, as GoOn takes them.                          *)
(***************************************************************************)

LEMMA Creating ==
  ASSUME NEW d, d.ok, NEW t, NEW cs
  PROVE  GoOn(d, CreateTable(t, cs))
       = If(ColumnsOf(d, t) = {}, WithCells(d, t, cs, "null"))
<1> DEFINE s == CreateTable(t, cs)
<1>1. s.do = "create"
  BY DEF CreateTable
<1>2. s.table = t /\ s.columns = cs
  BY DEF CreateTable
<1> HIDE DEF s
<1>3. Execute(d, s)
       = If(ColumnsOf(d, s.table) = {}, WithCells(d, s.table, s.columns, "null"))
  BY <1>1 DEF Execute
<1>4. GoOn(d, s) = Execute(d, s)
  BY DEF GoOn
<1> QED
  BY <1>2, <1>3, <1>4 DEF s

LEMMA DroppingTable ==
  ASSUME NEW d, d.ok, NEW t
  PROVE  GoOn(d, DropTable(t))
       = If(ColumnsOf(d, t) # {}, WithoutTable(d, t))
<1> DEFINE s == DropTable(t)
<1>1. s.do = "drop table"
  BY DEF DropTable
<1>2. s.table = t
  BY DEF DropTable
<1> HIDE DEF s
<1>3. Execute(d, s)
       = If(ColumnsOf(d, s.table) # {}, WithoutTable(d, s.table))
  BY <1>1 DEF Execute
<1>4. GoOn(d, s) = Execute(d, s)
  BY DEF GoOn
<1> QED
  BY <1>2, <1>3, <1>4 DEF s

LEMMA Adding ==
  ASSUME NEW d, d.ok, NEW t, NEW cs, NEW v
  PROVE  GoOn(d, AddWith(t, cs, v))
       = If(cs \cap ColumnsOf(d, t) = {}, WithCells(d, t, cs, v))
<1> DEFINE s == AddWith(t, cs, v)
<1>1. s.do = "add"
  BY DEF AddWith
<1>2. s.table = t /\ s.columns = cs /\ s.value = v
  BY DEF AddWith
<1> HIDE DEF s
<1>3. Execute(d, s)
       = If(s.columns \cap ColumnsOf(d, s.table) = {}, WithCells(d, s.table, s.columns, s.value))
  BY <1>1 DEF Execute
<1>4. GoOn(d, s) = Execute(d, s)
  BY DEF GoOn
<1> QED
  BY <1>2, <1>3, <1>4 DEF s

LEMMA AddingRequired ==
  ASSUME NEW d, d.ok, NEW t, NEW cs
  PROVE  GoOn(d, AddRequired(t, cs))
       = If(cs \cap ColumnsOf(d, t) = {} /\ t \notin d.rows, WithCells(d, t, cs, "null"))
<1> DEFINE s == AddRequired(t, cs)
<1>1. s.do = "add required"
  BY DEF AddRequired
<1>2. s.table = t /\ s.columns = cs
  BY DEF AddRequired
<1> HIDE DEF s
<1>3. Execute(d, s)
       = If(s.columns \cap ColumnsOf(d, s.table) = {} /\ s.table \notin d.rows, WithCells(d, s.table, s.columns, "null"))
  BY <1>1 DEF Execute
<1>4. GoOn(d, s) = Execute(d, s)
  BY DEF GoOn
<1> QED
  BY <1>2, <1>3, <1>4 DEF s

LEMMA Dropping ==
  ASSUME NEW d, d.ok, NEW t, NEW cs
  PROVE  GoOn(d, Drop(t, cs))
       = If(cs \subseteq ColumnsOf(d, t), WithoutCells(d, t, cs))
<1> DEFINE s == Drop(t, cs)
<1>1. s.do = "drop"
  BY DEF Drop
<1>2. s.table = t /\ s.columns = cs
  BY DEF Drop
<1> HIDE DEF s
<1>3. Execute(d, s)
       = If(s.columns \subseteq ColumnsOf(d, s.table), WithoutCells(d, s.table, s.columns))
  BY <1>1 DEF Execute
<1>4. GoOn(d, s) = Execute(d, s)
  BY DEF GoOn
<1> QED
  BY <1>2, <1>3, <1>4 DEF s

LEMMA Renaming ==
  ASSUME NEW d, d.ok, NEW t, NEW c, NEW c2
  PROVE  GoOn(d, Rename(t, c, c2))
       = If(c \in ColumnsOf(d, t) /\ c2 \notin ColumnsOf(d, t),
           WithCells(WithoutCells(d, t, {c}), t, {c2}, d.cell[t][c]))
<1> DEFINE s == Rename(t, c, c2)
<1>1. s.do = "rename"
  BY DEF Rename
<1>2. s.table = t /\ s.from = c /\ s.to = c2
  BY DEF Rename
<1> HIDE DEF s
<1>3. Execute(d, s)
       = If(s.from \in ColumnsOf(d, s.table) /\ s.to \notin ColumnsOf(d, s.table),
           WithCells(WithoutCells(d, s.table, {s.from}), s.table, {s.to}, d.cell[s.table][s.from]))
  BY <1>1 DEF Execute
<1>4. GoOn(d, s) = Execute(d, s)
  BY DEF GoOn
<1> QED
  BY <1>2, <1>3, <1>4 DEF s

LEMMA Altering ==
  ASSUME NEW d, d.ok, NEW t, NEW cs
  PROVE  GoOn(d, Alter(t, cs))
       = If(cs \subseteq ColumnsOf(d, t), d)
<1> DEFINE s == Alter(t, cs)
<1>1. s.do = "alter"
  BY DEF Alter
<1>2. s.table = t /\ s.columns = cs
  BY DEF Alter
<1> HIDE DEF s
<1>3. Execute(d, s)
       = If(s.columns \subseteq ColumnsOf(d, s.table), d)
  BY <1>1 DEF Execute
<1>4. GoOn(d, s) = Execute(d, s)
  BY DEF GoOn
<1> QED
  BY <1>2, <1>3, <1>4 DEF s

\* The row of t, if there is one, has a value in each of cs.
Fills(d, t, cs) == t \in d.rows => \A c \in cs : d.cell[t][c] # "null"

Demanding(d, t, cs) == [d EXCEPT !.required[t] = @ \cup cs]

LEMMA Requiring ==
  ASSUME NEW d, d.ok, NEW t, NEW cs, cs \subseteq ColumnsOf(d, t)
  PROVE  /\ Fills(d, t, cs) => GoOn(d, Require(t, cs)) = Demanding(d, t, cs)
         /\ ~Fills(d, t, cs) => GoOn(d, Require(t, cs)) = Failed(Demanding(d, t, cs))
<1> DEFINE s == Require(t, cs)
<1>1. s.do = "require"
  BY DEF Require
<1>2. s.table = t /\ s.columns = cs
  BY DEF Require
<1> HIDE DEF s
<1>3. Execute(d, s)
       = If(s.columns \subseteq ColumnsOf(d, s.table) /\ (s.table \in d.rows => \A c \in s.columns : d.cell[s.table][c] # "null"),
           [d EXCEPT !.required[s.table] = @ \cup s.columns])
  BY <1>1 DEF Execute
<1>4. GoOn(d, s) = Execute(d, s)
  BY DEF GoOn
<1>5. GoOn(d, s) = IF s.table \in d.rows => \A c \in s.columns : d.cell[s.table][c] # "null"
                   THEN [d EXCEPT !.required[s.table] = @ \cup s.columns]
                   ELSE Failed([d EXCEPT !.required[s.table] = @ \cup s.columns])
  BY <1>2, <1>3, <1>4 DEF If
<1> QED
  BY <1>2, <1>5 DEF s, Fills, Demanding

LEMMA Releasing ==
  ASSUME NEW d, d.ok, NEW t, NEW cs
  PROVE  GoOn(d, Release(t, cs))
       = If(cs \subseteq ColumnsOf(d, t), [d EXCEPT !.required[t] = @ \ cs])
<1> DEFINE s == Release(t, cs)
<1>1. s.do = "release"
  BY DEF Release
<1>2. s.table = t /\ s.columns = cs
  BY DEF Release
<1> HIDE DEF s
<1>3. Execute(d, s)
       = If(s.columns \subseteq ColumnsOf(d, s.table), [d EXCEPT !.required[s.table] = @ \ s.columns])
  BY <1>1 DEF Execute
<1>4. GoOn(d, s) = Execute(d, s)
  BY DEF GoOn
<1> QED
  BY <1>2, <1>3, <1>4 DEF s

LEMMA SettingDefault ==
  ASSUME NEW d, d.ok, NEW t, NEW c, NEW v
  PROVE  GoOn(d, SetDefault(t, c, v))
       = If(c \in ColumnsOf(d, t), IF t \in d.rows THEN d ELSE WithCells(d, t, {c}, v))
<1> DEFINE s == SetDefault(t, c, v)
<1>1. s.do = "default"
  BY DEF SetDefault
<1>2. s.table = t /\ s.column = c /\ s.value = v
  BY DEF SetDefault
<1> HIDE DEF s
<1>3. Execute(d, s)
       = If(s.column \in ColumnsOf(d, s.table), IF s.table \in d.rows THEN d ELSE WithCells(d, s.table, {s.column}, s.value))
  BY <1>1 DEF Execute
<1>4. GoOn(d, s) = Execute(d, s)
  BY DEF GoOn
<1> QED
  BY <1>2, <1>3, <1>4 DEF s

Matches(d, t, c, vs) == t \in d.rows /\ d.cell[t][c] \in vs

LEMMA Updating ==
  ASSUME NEW d, d.ok, NEW t, NEW c, NEW v, NEW c2, NEW vs,
         c \in ColumnsOf(d, t), c2 \in ColumnsOf(d, t)
  PROVE  /\ Matches(d, t, c2, vs) => GoOn(d, Update(t, c, v, c2, vs)) = WithCells(d, t, {c}, v)
         /\ ~Matches(d, t, c2, vs) => GoOn(d, Update(t, c, v, c2, vs)) = d
<1> DEFINE s == Update(t, c, v, c2, vs)
<1>1. s.do = "update"
  BY DEF Update
<1>2. s.table = t /\ s.column = c /\ s.value = v /\ s.of = c2 /\ s.in = vs
  BY DEF Update
<1> HIDE DEF s
<1>3. Execute(d, s)
       = If({s.column, s.of} \subseteq ColumnsOf(d, s.table),
           IF s.table \in d.rows /\ d.cell[s.table][s.of] \in s.in THEN WithCells(d, s.table, {s.column}, s.value) ELSE d)
  BY <1>1 DEF Execute
<1>4. {s.column, s.of} \subseteq ColumnsOf(d, s.table)
  BY <1>2
<1>5. GoOn(d, s) = Execute(d, s)
  BY DEF GoOn
<1>6. GoOn(d, s) = IF s.table \in d.rows /\ d.cell[s.table][s.of] \in s.in
                   THEN WithCells(d, s.table, {s.column}, s.value) ELSE d
  BY <1>3, <1>4, <1>5 DEF If
<1> QED
  BY <1>2, <1>6 DEF s, Matches

LEMMA Casting ==
  ASSUME NEW d, d.ok, NEW t, NEW c, NEW c2, NEW vs
  PROVE  GoOn(d, Cast(t, c, c2, vs))
       = If({c, c2} \subseteq ColumnsOf(d, t) /\ (t \in d.rows => d.cell[t][c] \in vs),
           IF t \in d.rows THEN WithCells(d, t, {c2}, d.cell[t][c]) ELSE d)
<1> DEFINE s == Cast(t, c, c2, vs)
<1>1. s.do = "cast"
  BY DEF Cast
<1>2. s.table = t /\ s.from = c /\ s.to = c2 /\ s.values = vs
  BY DEF Cast
<1> HIDE DEF s
<1>3. Execute(d, s)
       = If({s.from, s.to} \subseteq ColumnsOf(d, s.table) /\ (s.table \in d.rows => d.cell[s.table][s.from] \in s.values),
           IF s.table \in d.rows THEN WithCells(d, s.table, {s.to}, d.cell[s.table][s.from]) ELSE d)
  BY <1>1 DEF Execute
<1>4. GoOn(d, s) = Execute(d, s)
  BY DEF GoOn
<1> QED
  BY <1>2, <1>3, <1>4 DEF s

LEMMA DeletingRows ==
  ASSUME NEW d, d.ok, NEW t
  PROVE  GoOn(d, DeleteRows(t))
       = If(ColumnsOf(d, t) # {}, [d EXCEPT !.rows = @ \ {t}])
<1> DEFINE s == DeleteRows(t)
<1>1. s.do = "delete"
  BY DEF DeleteRows
<1>2. s.table = t
  BY DEF DeleteRows
<1> HIDE DEF s
<1>3. Execute(d, s)
       = If(ColumnsOf(d, s.table) # {}, [d EXCEPT !.rows = @ \ {s.table}])
  BY <1>1 DEF Execute
<1>4. GoOn(d, s) = Execute(d, s)
  BY DEF GoOn
<1> QED
  BY <1>2, <1>3, <1>4 DEF s

LEMMA Rewriting ==
  ASSUME NEW d, d.ok, NEW name
  PROVE  GoOn(d, Rewrite(name))
       = Rewritten(d, name)
<1> DEFINE s == Rewrite(name)
<1>1. s.do = "rewrite"
  BY DEF Rewrite
<1>2. s.name = name
  BY DEF Rewrite
<1> HIDE DEF s
<1>3. Execute(d, s)
       = Rewritten(d, s.name)
  BY <1>1 DEF Execute
<1>4. GoOn(d, s) = Execute(d, s)
  BY DEF GoOn
<1> QED
  BY <1>2, <1>3, <1>4 DEF s

LEMMA Constraining ==
  ASSUME NEW d, d.ok, NEW how
  PROVE  GoOn(d, Unique(how))
       = If(IsUnique(d.domains, how), [d EXCEPT !.unique = how])
<1> DEFINE s == Unique(how)
<1>1. s.do = "unique"
  BY DEF Unique
<1>2. s.how = how
  BY DEF Unique
<1> HIDE DEF s
<1>3. Execute(d, s)
       = If(IsUnique(d.domains, s.how), [d EXCEPT !.unique = s.how])
  BY <1>1 DEF Execute
<1>4. GoOn(d, s) = Execute(d, s)
  BY DEF GoOn
<1> QED
  BY <1>2, <1>3, <1>4 DEF s

(***************************************************************************)
(* Quiet statements, after others (d is the database before the first).    *)
(***************************************************************************)

MayWrite(S, t, cs, v) ==
  /\ "connection_count" \notin cs
  /\ cs \cap Telling(t) = {} \/ (v = "null" /\ cs \cap S[t] = {})
  /\ v # "null" \/ cs \cap NonNull(t) = {}

MayCreate(S, t, cs) == MayWrite(S, t, cs, "null") /\ S[t] = {}
MayAdd(S, t, cs, v) == MayWrite(S, t, cs, v) /\ cs \cap S[t] = {}
MaySet(S, t, c, v) == MayWrite(S, t, {c}, v) /\ c \in S[t]

MayLose(t, cs) ==
  /\ t # "email_domains" /\ "connection_count" \notin cs
  /\ cs \cap (Lists \cup Types \cup Telling(t)) = {}

MayDrop(S, t, cs) == MayLose(t, cs) /\ cs \subseteq S[t]

MayRename(S, t, c, c2) ==
  /\ MayDrop(S, t, {c}) /\ c2 \notin S[t]
  /\ c2 \notin Telling(t) \cup NonNull(t) /\ c2 # "connection_count"


LEMMA QuietlySeen ==
  ASSUME NEW d, NEW e, NEW S, Quietly(d, e, S), NEW t \in TableNames
  PROVE  IsDatabase(e) /\ e.ok /\ ColumnsOf(e, t) = S[t] /\ Shape(e) = S
BY NamesOfColumns DEF Quietly

LEMMA AndWrites ==
  ASSUME NEW d, NEW e, NEW S, Quietly(d, e, S),
         NEW t \in TableNames, NEW cs, NEW v, MayWrite(S, t, cs, v)
  PROVE  Quietly(d, WithCells(e, t, cs, v), Plus(S, t, cs))
<1>1. IsDatabase(e) /\ e.ok /\ ColumnsOf(e, t) = S[t] /\ Shape(e) = S
  BY QuietlySeen
<1>2. Wrote(e, WithCells(e, t, cs, v), t, cs, v)
  BY <1>1, CellsWritten
<1>3. Quietly(e, WithCells(e, t, cs, v), Plus(S, t, cs))
  BY <1>1, <1>2, WroteQuietly DEF MayWrite
<1> QED
  BY <1>3, QuietlyOnAndOn

LEMMA AndCreates ==
  ASSUME NEW d, NEW e, NEW S, Quietly(d, e, S),
         NEW t \in TableNames, NEW cs, MayCreate(S, t, cs)
  PROVE  Quietly(d, GoOn(e, CreateTable(t, cs)), Plus(S, t, cs))
<1>1. e.ok /\ ColumnsOf(e, t) = {} /\ MayWrite(S, t, cs, "null")
  BY QuietlySeen DEF MayCreate
<1>2. GoOn(e, CreateTable(t, cs)) = WithCells(e, t, cs, "null")
  BY <1>1, Creating DEF If
<1>3. Quietly(d, WithCells(e, t, cs, "null"), Plus(S, t, cs))
  BY <1>1, AndWrites
<1> QED
  BY <1>2, <1>3

LEMMA AndAdds ==
  ASSUME NEW d, NEW e, NEW S, Quietly(d, e, S),
         NEW t \in TableNames, NEW cs, NEW v, MayAdd(S, t, cs, v)
  PROVE  Quietly(d, GoOn(e, AddWith(t, cs, v)), Plus(S, t, cs))
<1>1. e.ok /\ cs \cap ColumnsOf(e, t) = {} /\ MayWrite(S, t, cs, v)
  BY QuietlySeen DEF MayAdd
<1>2. GoOn(e, AddWith(t, cs, v)) = WithCells(e, t, cs, v)
  BY <1>1, Adding DEF If
<1>3. Quietly(d, WithCells(e, t, cs, v), Plus(S, t, cs))
  BY <1>1, AndWrites
<1> QED
  BY <1>2, <1>3

LEMMA AndLoses ==
  ASSUME NEW d, NEW e, NEW S, Quietly(d, e, S), NEW t \in TableNames, NEW cs, MayLose(t, cs)
  PROVE  Quietly(d, WithoutCells(e, t, cs), Minus(S, t, cs))
<1>1. IsDatabase(e) /\ e.ok /\ Shape(e) = S
  BY QuietlySeen
<1>2. Lost(e, WithoutCells(e, t, cs), t, cs)
  BY <1>1, CellsLost
<1>3. Quietly(e, WithoutCells(e, t, cs), Minus(S, t, cs))
  BY <1>1, <1>2, LostQuietly DEF MayLose
<1> QED
  BY <1>3, QuietlyOnAndOn

LEMMA AndDrops ==
  ASSUME NEW d, NEW e, NEW S, Quietly(d, e, S), NEW t \in TableNames, NEW cs, MayDrop(S, t, cs)
  PROVE  Quietly(d, GoOn(e, Drop(t, cs)), Minus(S, t, cs))
<1>1. e.ok /\ cs \subseteq ColumnsOf(e, t) /\ MayLose(t, cs)
  BY QuietlySeen DEF MayDrop
<1>2. GoOn(e, Drop(t, cs)) = WithoutCells(e, t, cs)
  BY <1>1, Dropping DEF If
<1>3. Quietly(d, WithoutCells(e, t, cs), Minus(S, t, cs))
  BY <1>1, AndLoses
<1> QED
  BY <1>2, <1>3

LEMMA AndRenames ==
  ASSUME NEW d, NEW e, NEW S, Quietly(d, e, S),
         NEW t \in TableNames, NEW c, NEW c2, MayRename(S, t, c, c2)
  PROVE  Quietly(d, GoOn(e, Rename(t, c, c2)), Plus(Minus(S, t, {c}), t, {c2}))
<1> DEFINE v == e.cell[t][c]
           w == WithoutCells(e, t, {c})
<1>1. e.ok /\ c \in ColumnsOf(e, t) /\ c2 \notin ColumnsOf(e, t) /\ MayLose(t, {c})
  BY QuietlySeen DEF MayRename, MayDrop
<1>2. GoOn(e, Rename(t, c, c2)) = WithCells(w, t, {c2}, v)
  <2>1. GoOn(e, Rename(t, c, c2))
          = If(c \in ColumnsOf(e, t) /\ c2 \notin ColumnsOf(e, t), WithCells(w, t, {c2}, v))
    BY <1>1, Renaming
  <2> QED
    BY <1>1, <2>1 DEF If
<1>3. MayWrite(Minus(S, t, {c}), t, {c2}, v)
  BY DEF MayWrite, MayRename
<1>4. Quietly(d, w, Minus(S, t, {c}))
  BY <1>1, AndLoses
<1> HIDE DEF v, w
<1>5. Quietly(d, WithCells(w, t, {c2}, v), Plus(Minus(S, t, {c}), t, {c2}))
  BY <1>3, <1>4, AndWrites
<1> QED
  BY <1>2, <1>5

\* Nothing but what is required or unique.
LEMMA SameButConstraints ==
  ASSUME NEW d, IsDatabase(d), d.ok, NEW e, IsDatabase(e), e.ok,
         e.cell = d.cell, e.rows = d.rows, e.domains = d.domains,
         e.connections = d.connections, e.email = d.email
  PROVE  Quietly(d, e, Shape(d))
<1>1. \A t : ColumnsOf(e, t) = ColumnsOf(d, t)
  BY DEF ColumnsOf
<1>2. Kinds(e) = Kinds(d) /\ Shape(e) = Shape(d) /\ \A t, c : Has(e, t, c) <=> Has(d, t, c)
  BY <1>1 DEF Kinds, Shape, Has
<1>3. Alike(d, e)
  BY <1>2 DEF Alike, Seen
<1>4. NeverNull(d) => NeverNull(e)
  BY <1>2 DEF NeverNull
<1> QED
  BY <1>2, <1>3, <1>4 DEF Quietly

LEMMA AndRequired ==
  ASSUME NEW d, NEW e, NEW S, Quietly(d, e, S), NEW t \in TableNames, NEW r
  PROVE  Quietly(d, [e EXCEPT !.required[t] = r], S)
<1> DEFINE f == [e EXCEPT !.required[t] = r]
<1>1. IsDatabase(e) /\ e.ok /\ Shape(e) = S
  BY QuietlySeen
<1>2. /\ DOMAIN e.required = TableNames /\ f.required = [e.required EXCEPT ![t] = r]
      /\ f.ok /\ f.cell = e.cell /\ f.rows = e.rows /\ f.domains = e.domains
      /\ f.connections = e.connections /\ f.email = e.email
  BY <1>1 DEF IsDatabase, AreRequired
<1>3. AreRequired(f.required)
  BY <1>2 DEF AreRequired
<1>4. IsDatabase(f)
  BY <1>1, <1>2, <1>3 DEF IsDatabase
<1> HIDE DEF f
<1>6. Quietly(e, f, S)
  BY <1>1, <1>2, <1>4, SameButConstraints
<1> QED
  BY <1>6, QuietlyOnAndOn DEF f

LEMMA AndAlters ==
  ASSUME NEW d, NEW e, NEW S, Quietly(d, e, S), NEW t \in TableNames, NEW cs, cs \subseteq S[t]
  PROVE  Quietly(d, GoOn(e, Alter(t, cs)), S)
<1>1. e.ok /\ ColumnsOf(e, t) = S[t]
  BY QuietlySeen
<1> QED
  BY <1>1, Altering DEF If

LEMMA AndRequires ==
  ASSUME NEW d, NEW e, NEW S, Quietly(d, e, S), NEW t \in TableNames, NEW cs, cs \subseteq S[t],
         Fills(e, t, cs)
  PROVE  Quietly(d, GoOn(e, Require(t, cs)), S)
<1>1. IsDatabase(e) /\ e.ok /\ ColumnsOf(e, t) = S[t]
  BY QuietlySeen
<1>2. GoOn(e, Require(t, cs)) = Demanding(e, t, cs)
  BY <1>1, Requiring
<1>3. Demanding(e, t, cs) = [e EXCEPT !.required[t] = e.required[t] \cup cs]
  BY <1>1 DEF IsDatabase, Demanding
<1> QED
  BY <1>2, <1>3, AndRequired

\* What was required could be.
LEMMA AndRequiresWhenOk ==
  ASSUME NEW d, NEW e, NEW S, Quietly(d, e, S), NEW t \in TableNames, NEW cs, cs \subseteq S[t],
         GoOn(e, Require(t, cs)).ok
  PROVE  Quietly(d, GoOn(e, Require(t, cs)), S)
<1> DEFINE f == Demanding(e, t, cs)
<1>1. IsDatabase(e) /\ e.ok /\ ColumnsOf(e, t) = S[t]
  BY QuietlySeen
<1>2. DOMAIN f = DOMAIN e /\ "ok" \in DOMAIN e
  BY <1>1 DEF IsDatabase, Demanding
<1>3. ~Failed(f).ok
  BY <1>2 DEF Failed
<1>4. ASSUME ~Fills(e, t, cs)
      PROVE  GoOn(e, Require(t, cs)) = Failed(f)
  BY <1>1, <1>4, Requiring
<1>5. Fills(e, t, cs)
  BY <1>3, <1>4
<1> QED
  BY <1>5, AndRequires

LEMMA AndReleases ==
  ASSUME NEW d, NEW e, NEW S, Quietly(d, e, S), NEW t \in TableNames, NEW cs, cs \subseteq S[t]
  PROVE  Quietly(d, GoOn(e, Release(t, cs)), S)
<1>1. IsDatabase(e) /\ e.ok /\ ColumnsOf(e, t) = S[t]
  BY QuietlySeen
<1>2. GoOn(e, Release(t, cs)) = [e EXCEPT !.required[t] = @ \ cs]
  <2>1. GoOn(e, Release(t, cs))
          = If(cs \subseteq ColumnsOf(e, t), [e EXCEPT !.required[t] = @ \ cs])
    BY <1>1, Releasing
  <2> QED
    BY <1>1, <2>1 DEF If
<1>3. [e EXCEPT !.required[t] = @ \ cs] = [e EXCEPT !.required[t] = e.required[t] \ cs]
  BY <1>1 DEF IsDatabase
<1> QED
  BY <1>2, <1>3, AndRequired

LEMMA PlusNothing ==
  ASSUME NEW d, NEW e, NEW S, Quietly(d, e, S), NEW t \in TableNames, NEW cs, cs \subseteq S[t]
  PROVE  Plus(S, t, cs) = S
<1>1. S = [u \in TableNames |-> S[u]]
  BY QuietlySeen DEF Shape
<1>2. \A u \in TableNames : S[u] \cup When(u = t, cs) = S[u]
  BY DEF When
<1> QED
  BY <1>1, <1>2 DEF Plus

LEMMA AndDefaults ==
  ASSUME NEW d, NEW e, NEW S, Quietly(d, e, S),
         NEW t \in TableNames, NEW c, NEW v, MaySet(S, t, c, v)
  PROVE  Quietly(d, GoOn(e, SetDefault(t, c, v)), S)
<1>1. e.ok /\ ColumnsOf(e, t) = S[t] /\ c \in S[t]
  BY QuietlySeen DEF MaySet
<1>2. GoOn(e, SetDefault(t, c, v)) = IF t \in e.rows THEN e ELSE WithCells(e, t, {c}, v)
  BY <1>1, SettingDefault DEF If
<1>3. Quietly(d, WithCells(e, t, {c}, v), Plus(S, t, {c}))
  BY AndWrites DEF MaySet
<1> QED
  BY <1>1, <1>2, <1>3, PlusNothing

LEMMA AndUpdates ==
  ASSUME NEW d, NEW e, NEW S, Quietly(d, e, S),
         NEW t \in TableNames, NEW c, NEW v, NEW c2, NEW vs,
         MaySet(S, t, c, v), c2 \in S[t]
  PROVE  Quietly(d, GoOn(e, Update(t, c, v, c2, vs)), S)
<1>1. e.ok /\ ColumnsOf(e, t) = S[t] /\ c \in S[t]
  BY QuietlySeen DEF MaySet
<1>2. /\ Matches(e, t, c2, vs) => GoOn(e, Update(t, c, v, c2, vs)) = WithCells(e, t, {c}, v)
      /\ ~Matches(e, t, c2, vs) => GoOn(e, Update(t, c, v, c2, vs)) = e
  BY <1>1, Updating
<1>3. Quietly(d, WithCells(e, t, {c}, v), Plus(S, t, {c}))
  BY AndWrites DEF MaySet
<1> QED
  BY <1>1, <1>2, <1>3, PlusNothing

LEMMA AndConstrains ==
  ASSUME NEW d, NEW e, NEW S, Quietly(d, e, S),
         NEW how \in {"no", "nulls distinct", "nulls too"}, IsUnique(e.domains, how)
  PROVE  Quietly(d, GoOn(e, Unique(how)), S)
<1> DEFINE f == [e EXCEPT !.unique = how]
<1>1. IsDatabase(e) /\ e.ok /\ Shape(e) = S
  BY QuietlySeen DEF TableNames
<1>2. GoOn(e, Unique(how)) = f
  BY <1>1, Constraining DEF If
<1>3. /\ f.ok /\ f.cell = e.cell /\ f.rows = e.rows /\ f.domains = e.domains
      /\ f.connections = e.connections /\ f.email = e.email /\ f.required = e.required
  BY <1>1 DEF IsDatabase
<1>4. IsDatabase(f)
  BY <1>1, <1>3 DEF IsDatabase
<1> HIDE DEF f
<1>5. Quietly(e, f, S)
  BY <1>1, <1>3, <1>4, SameButConstraints
<1> QED
  BY <1>2, <1>5, QuietlyOnAndOn

LEMMA AndConstrainsWhenOk ==
  ASSUME NEW d, NEW e, NEW S, Quietly(d, e, S),
         NEW how \in {"no", "nulls distinct", "nulls too"}, GoOn(e, Unique(how)).ok
  PROVE  Quietly(d, GoOn(e, Unique(how)), S)
<1> DEFINE f == [e EXCEPT !.unique = how]
<1>1. IsDatabase(e) /\ e.ok
  BY QuietlySeen DEF TableNames
<1>2. GoOn(e, Unique(how)) = If(IsUnique(e.domains, how), f)
  BY <1>1, Constraining
<1>3. DOMAIN f = DOMAIN e /\ "ok" \in DOMAIN e
  BY <1>1 DEF IsDatabase
<1> HIDE DEF f
<1>4. ~Failed(f).ok
  BY <1>3 DEF Failed
<1>5. IsUnique(e.domains, how)
  BY <1>2, <1>4 DEF If
<1> QED
  BY <1>5, AndConstrains

\* A statement cannot be possible again after one that was not.
LEMMA OkBefore ==
  ASSUME NEW d, NEW s, GoOn(d, s).ok
  PROVE  d.ok
BY DEF GoOn

(***************************************************************************)
(* A file is its statements one after the other.                           *)
(***************************************************************************)

LEMMA RunNothing ==
  ASSUME NEW d
  PROVE  Run(d, <<>>) = d
<1> DEFINE statements == <<>>
           step(g) == [n \in 0..0 |-> IF n = 0 THEN d ELSE GoOn(g[n - 1], statements[n])]
           f == [n \in 0..0 |-> d]
           after == CHOOSE g : g = step(g)
<1>1. Run(d, statements) = after[0]
  BY DEF Run
<1>2. f = step(f)
  OBVIOUS
<1>3. after = step(after)
  BY <1>2
<1> HIDE DEF after
<1>4. after[0] = d
  BY <1>3
<1> QED
  BY <1>1, <1>4

LEMMA RunOne ==
  ASSUME NEW d, NEW s1
  PROVE  Run(d, <<s1>>)
           = GoOn(d, s1)
<1> DEFINE q == <<s1>>
           e1 == GoOn(d, s1)
           step(g) == [n \in 0..1 |-> IF n = 0 THEN d ELSE GoOn(g[n - 1], q[n])]
           f == [n \in 0..1 |-> CASE n = 0 -> d [] n = 1 -> e1]
           after == CHOOSE g : g = step(g)
<1>1. Run(d, q) = after[1]
  BY DEF Run
<1>2. f = step(f)
  OBVIOUS
<1>3. after = step(after)
  BY <1>2
<1> HIDE DEF after
<1>4. after[0] = d
  BY <1>3
<1>5. after[1] = e1
  BY <1>3, <1>4
<1> QED
  BY <1>1, <1>5

LEMMA RunTwo ==
  ASSUME NEW d, NEW s1, NEW s2
  PROVE  Run(d, <<s1, s2>>)
           = GoOn(GoOn(d, s1), s2)
<1> DEFINE q == <<s1, s2>>
           e1 == GoOn(d, s1)
           e2 == GoOn(e1, s2)
           step(g) == [n \in 0..2 |-> IF n = 0 THEN d ELSE GoOn(g[n - 1], q[n])]
           f == [n \in 0..2 |-> CASE n = 0 -> d [] n = 1 -> e1 [] n = 2 -> e2]
           after == CHOOSE g : g = step(g)
<1>1. Run(d, q) = after[2]
  BY DEF Run
<1>2. f = step(f)
  OBVIOUS
<1>3. after = step(after)
  BY <1>2
<1> HIDE DEF after
<1>4. after[0] = d
  BY <1>3
<1>5. after[1] = e1
  BY <1>3, <1>4
<1>6. after[2] = e2
  BY <1>3, <1>5
<1> QED
  BY <1>1, <1>6

LEMMA RunThree ==
  ASSUME NEW d, NEW s1, NEW s2, NEW s3
  PROVE  Run(d, <<s1, s2, s3>>)
           = GoOn(GoOn(GoOn(d, s1), s2), s3)
<1> DEFINE q == <<s1, s2, s3>>
           e1 == GoOn(d, s1)
           e2 == GoOn(e1, s2)
           e3 == GoOn(e2, s3)
           step(g) == [n \in 0..3 |-> IF n = 0 THEN d ELSE GoOn(g[n - 1], q[n])]
           f == [n \in 0..3 |-> CASE n = 0 -> d [] n = 1 -> e1 [] n = 2 -> e2 [] n = 3 -> e3]
           after == CHOOSE g : g = step(g)
<1>1. Run(d, q) = after[3]
  BY DEF Run
<1>2. f = step(f)
  OBVIOUS
<1>3. after = step(after)
  BY <1>2
<1> HIDE DEF after
<1>4. after[0] = d
  BY <1>3
<1>5. after[1] = e1
  BY <1>3, <1>4
<1>6. after[2] = e2
  BY <1>3, <1>5
<1>7. after[3] = e3
  BY <1>3, <1>6
<1> QED
  BY <1>1, <1>7

LEMMA RunFour ==
  ASSUME NEW d, NEW s1, NEW s2, NEW s3, NEW s4
  PROVE  Run(d, <<s1, s2, s3, s4>>)
           = GoOn(GoOn(GoOn(GoOn(d, s1), s2), s3), s4)
<1> DEFINE q == <<s1, s2, s3, s4>>
           e1 == GoOn(d, s1)
           e2 == GoOn(e1, s2)
           e3 == GoOn(e2, s3)
           e4 == GoOn(e3, s4)
           step(g) == [n \in 0..4 |-> IF n = 0 THEN d ELSE GoOn(g[n - 1], q[n])]
           f == [n \in 0..4 |-> CASE n = 0 -> d [] n = 1 -> e1 [] n = 2 -> e2 [] n = 3 -> e3
                                     [] n = 4 -> e4]
           after == CHOOSE g : g = step(g)
<1>1. Run(d, q) = after[4]
  BY DEF Run
<1>2. f = step(f)
  OBVIOUS
<1>3. after = step(after)
  BY <1>2
<1> HIDE DEF after
<1>4. after[0] = d
  BY <1>3
<1>5. after[1] = e1
  BY <1>3, <1>4
<1>6. after[2] = e2
  BY <1>3, <1>5
<1>7. after[3] = e3
  BY <1>3, <1>6
<1>8. after[4] = e4
  BY <1>3, <1>7
<1> QED
  BY <1>1, <1>8

LEMMA RunSix ==
  ASSUME NEW d, NEW s1, NEW s2, NEW s3, NEW s4, NEW s5, NEW s6
  PROVE  Run(d, <<s1, s2, s3, s4, s5, s6>>)
           = GoOn(GoOn(GoOn(GoOn(GoOn(GoOn(d, s1), s2), s3), s4), s5), s6)
<1> DEFINE q == <<s1, s2, s3, s4, s5, s6>>
           e1 == GoOn(d, s1)
           e2 == GoOn(e1, s2)
           e3 == GoOn(e2, s3)
           e4 == GoOn(e3, s4)
           e5 == GoOn(e4, s5)
           e6 == GoOn(e5, s6)
           step(g) == [n \in 0..6 |-> IF n = 0 THEN d ELSE GoOn(g[n - 1], q[n])]
           f == [n \in 0..6 |-> CASE n = 0 -> d [] n = 1 -> e1 [] n = 2 -> e2 [] n = 3 -> e3
                                     [] n = 4 -> e4 [] n = 5 -> e5 [] n = 6 -> e6]
           after == CHOOSE g : g = step(g)
<1>1. Run(d, q) = after[6]
  BY DEF Run
<1>2. f = step(f)
  OBVIOUS
<1>3. after = step(after)
  BY <1>2
<1> HIDE DEF after
<1>4. after[0] = d
  BY <1>3
<1>5. after[1] = e1
  BY <1>3, <1>4
<1>6. after[2] = e2
  BY <1>3, <1>5
<1>7. after[3] = e3
  BY <1>3, <1>6
<1>8. after[4] = e4
  BY <1>3, <1>7
<1>9. after[5] = e5
  BY <1>3, <1>8
<1>10. after[6] = e6
  BY <1>3, <1>9
<1> QED
  BY <1>1, <1>10

LEMMA RunSeven ==
  ASSUME NEW d, NEW s1, NEW s2, NEW s3, NEW s4, NEW s5, NEW s6, NEW s7
  PROVE  Run(d, <<s1, s2, s3, s4, s5, s6, s7>>)
           = GoOn(GoOn(GoOn(GoOn(GoOn(GoOn(GoOn(d, s1), s2), s3), s4), s5), s6), s7)
<1> DEFINE q == <<s1, s2, s3, s4, s5, s6, s7>>
           e1 == GoOn(d, s1)
           e2 == GoOn(e1, s2)
           e3 == GoOn(e2, s3)
           e4 == GoOn(e3, s4)
           e5 == GoOn(e4, s5)
           e6 == GoOn(e5, s6)
           e7 == GoOn(e6, s7)
           step(g) == [n \in 0..7 |-> IF n = 0 THEN d ELSE GoOn(g[n - 1], q[n])]
           f == [n \in 0..7 |-> CASE n = 0 -> d [] n = 1 -> e1 [] n = 2 -> e2 [] n = 3 -> e3
                                     [] n = 4 -> e4 [] n = 5 -> e5 [] n = 6 -> e6
                                     [] n = 7 -> e7]
           after == CHOOSE g : g = step(g)
<1>1. Run(d, q) = after[7]
  BY DEF Run
<1>2. f = step(f)
  OBVIOUS
<1>3. after = step(after)
  BY <1>2
<1> HIDE DEF after
<1>4. after[0] = d
  BY <1>3
<1>5. after[1] = e1
  BY <1>3, <1>4
<1>6. after[2] = e2
  BY <1>3, <1>5
<1>7. after[3] = e3
  BY <1>3, <1>6
<1>8. after[4] = e4
  BY <1>3, <1>7
<1>9. after[5] = e5
  BY <1>3, <1>8
<1>10. after[6] = e6
  BY <1>3, <1>9
<1>11. after[7] = e7
  BY <1>3, <1>10
<1> QED
  BY <1>1, <1>11

(***************************************************************************)
(* What every database that n files have made has.                         *)
(***************************************************************************)

\* The tables that have rows are there.
Populated(d, n) ==
  /\ "users" \in d.rows => n >= 1
  /\ "oidc_clients" \in d.rows => n >= 4
  /\ d.rows \cap {"organizations", "users_organizations"} # {} => n >= 8
  /\ "moderations" \in d.rows => n >= 16
  /\ "authenticators" \in d.rows => n >= 45
  /\ d.rows \cap {"moderation_type", "users_oidc_clients", "email_domains"} = {}

TypeThere(d) == "moderations" \in d.rows => Seen(d, "moderations", "type") # "null"

\* Tickets can be other than numbers once 1724327131305 has run.
Numbers(d, n) ==
  n < 63 /\ "moderations" \in d.rows => Seen(d, "moderations", "ticket_id") \in {"null", "number"}

Factors(d) ==
  /\ Seen(d, "users", "encrypted_totp_key") \in {"null", "set"}
  /\ HasFactor(d) => "users" \in d.rows
  /\ IsForced(d) => HasFactor(d)

\* Before 1680524813673 a user and a client have one row, that counts.
Counted(d) == d.connections = <<>> \/ \E k \in Nat : d.connections = <<k + 1>>

Counts(d, n) ==
  /\ n < 26 => d.connections = <<>>
  /\ n \in 26..34 => Counted(d)

NoneElsewhere(d) ==
  \A l \in (Lists \cup Types) \ Kinds(d) : \A x \in Domains : d.domains[l][x] = 0

\* What every database has after n files, but for its columns.
Firm(d, n) ==
  /\ IsDatabase(d) /\ d.ok
  /\ NeverNull(d)
  /\ Populated(d, n)
  /\ TypeThere(d)
  /\ Numbers(d, n)
  /\ Factors(d)
  /\ Counts(d, n)
  /\ NoneElsewhere(d)

Sound(d, n) == Firm(d, n) /\ Schema(d, n)

LEMMA FactorsSeen ==
  ASSUME NEW d
  PROVE  /\ IsForced(d) <=> Seen(d, "users", "force_2fa") = "true"
         /\ HasFactor(d) <=> "authenticators" \in d.rows \/ Seen(d, "users", "encrypted_totp_key") = "set"
BY DEF IsForced, HasFactor, Seen

LEMMA QuietlyFirm ==
  ASSUME NEW n, NEW d, NEW e, NEW S, Firm(d, n), Quietly(d, e, S)
  PROVE  Firm(e, n)
<1>1. /\ IsDatabase(e) /\ e.ok /\ NeverNull(e) /\ Alike(d, e)
  BY DEF Quietly, Firm
<1>2. Populated(e, n)
  BY <1>1 DEF Firm, Alike, Populated
<1>3. /\ \A c \in {"type", "ticket_id"} : Seen(e, "moderations", c) = Seen(d, "moderations", c)
      /\ \A c \in {"force_2fa", "encrypted_totp_key"} : Seen(e, "users", c) = Seen(d, "users", c)
  BY <1>1 DEF Alike, Telling, TableNames
<1>4. TypeThere(e) /\ Numbers(e, n)
  BY <1>1, <1>3 DEF Firm, Alike, TypeThere, Numbers
<1>5. Factors(e)
  BY <1>1, <1>3, FactorsSeen DEF Firm, Alike, Factors
<1>6. Counts(e, n)
  BY <1>1 DEF Firm, Alike, Counts, Counted
<1>7. NoneElsewhere(e)
  BY <1>1 DEF Firm, Alike, NoneElsewhere
<1> QED
  BY <1>1, <1>2, <1>4, <1>5, <1>6, <1>7 DEF Firm

LEMMA FirmUp ==
  ASSUME NEW n \in 0..67, NEW d, Firm(d, n)
  PROVE  Firm(d, n + 1)
<1>1. Populated(d, n + 1)
  BY DEF Firm, Populated
<1>2. Numbers(d, n + 1)
  BY DEF Firm, Numbers
<1>3. Counts(d, n + 1)
  <2>1. Counts(d, n)
    BY DEF Firm
  <2>2. n + 1 < 26 => d.connections = <<>>
    <3>1. n + 1 < 26 => n < 26
      OBVIOUS
    <3> QED
      BY <2>1, <3>1, Zenon DEF Counts
  <2>3. n = 25 => Counted(d)
    BY <2>1 DEF Counts, Counted
  <2>4. n + 1 \in 26..34 => n = 25 \/ n \in 26..34
    OBVIOUS
  <2>5. n + 1 \in 26..34 => Counted(d)
    BY <2>1, <2>3, <2>4 DEF Counts
  <2> QED
    BY <2>2, <2>5 DEF Counts
<1> QED
  BY <1>1, <1>2, <1>3 DEF Firm

\* What the file n has made is gone.
Undone(d, n) ==
  /\ n = 1 => "users" \notin d.rows
  /\ n = 4 => "oidc_clients" \notin d.rows
  /\ n = 8 => {"organizations", "users_organizations"} \cap d.rows = {}
  /\ n = 16 => "moderations" \notin d.rows
  /\ n = 26 => d.connections = <<>>
  /\ n = 35 => Counted(d)
  /\ n = 45 => "authenticators" \notin d.rows
  /\ n = 63 => Numbers(d, 62)

LEMMA FirmDown ==
  ASSUME NEW n \in 1..68, NEW d, Firm(d, n), Undone(d, n)
  PROVE  Firm(d, n - 1)
<1>1. Populated(d, n - 1)
  BY DEF Firm, Populated, Undone
<1>2. Numbers(d, n - 1)
  <2>1. CASE n = 63
    BY <2>1 DEF Undone
  <2>2. CASE n # 63
    BY <2>2 DEF Firm, Numbers
  <2> QED
    BY <2>1, <2>2
<1>3. Counts(d, n - 1)
  <2>1. Counts(d, n)
    BY DEF Firm
  <2>2. n = 26 => d.connections = <<>>
    BY DEF Undone
  <2>3. n = 35 => Counted(d)
    BY DEF Undone
  <2>4. n - 1 < 26 => d.connections = <<>>
    <3>1. n - 1 < 26 => n < 26 \/ n = 26
      OBVIOUS
    <3> QED
      BY <2>1, <2>2, <3>1, Zenon DEF Counts
  <2>5. n - 1 \in 26..34 => n = 35 \/ n \in 26..34
    OBVIOUS
  <2>6. n - 1 \in 26..34 => Counted(d)
    BY <2>1, <2>3, <2>5 DEF Counts
  <2> QED
    BY <2>4, <2>6 DEF Counts
<1> QED
  BY <1>1, <1>2, <1>3 DEF Firm

LEMMA QuietlyUp ==
  ASSUME NEW n \in 1..68, NEW d, NEW e, Sound(d, n - 1),
         NEW kept \in Keepable(n), Quietly(d, e, ShapeAt(n, kept))
  PROVE  Sound(e, n)
<1>1. Firm(e, n - 1)
  BY QuietlyFirm DEF Sound
<1>2. Firm(e, n)
  BY <1>1, FirmUp
<1> QED
  BY <1>2 DEF Sound, Schema, Quietly

LEMMA QuietlyDown ==
  ASSUME NEW n \in 1..68, NEW d, NEW e, Sound(d, n), n \notin {1, 4, 8, 16, 26, 35, 45, 63},
         NEW kept \in Keepable(n - 1), Quietly(d, e, ShapeAt(n - 1, kept))
  PROVE  Sound(e, n - 1)
<1>1. Firm(e, n)
  BY QuietlyFirm DEF Sound
<1>2. Firm(e, n - 1)
  BY <1>1, FirmDown DEF Undone
<1> QED
  BY <1>2 DEF Sound, Schema, Quietly

(***************************************************************************)
(* The files that do nothing else.                                         *)
(***************************************************************************)

\* What the next file cannot be applied to.
Hindered(d, n) ==
  \/ n = 38 /\ Has(d, "users_organizations", "has_been_greeted")
  \/ n = 17 /\ "moderations" \in d.rows
  \/ n = 59 /\ \E x \in Domains, type \in Types \ {"none"} : d.domains[type][x] > 1

QuietUp(n) ==
  \A d : Sound(d, n - 1) /\ ~Hindered(d, n)
    => \E kept \in Keepable(n) : Quietly(d, Run(d, Directory[n].up), ShapeAt(n, kept))

QuietDown(n) ==
  \A d : Sound(d, n) /\ Run(d, Directory[n].down).ok
    => \E kept \in Keepable(n - 1) : Quietly(d, Run(d, Directory[n].down), ShapeAt(n - 1, kept))

LEMMA SoundShape ==
  ASSUME NEW n, NEW d, Sound(d, n)
  PROVE  \E kept \in Keepable(n) : Shape(d) = ShapeAt(n, kept) /\ Quietly(d, d, ShapeAt(n, kept))
BY QuietlyNothing DEF Sound, Firm, Schema

LEMMA KeptStill ==
  ASSUME NEW n \in 1..68
  PROVE  /\ Keepable(n) \subseteq SUBSET {"has_been_greeted"}
         /\ \A kept \in Keepable(n - 1) : kept \in Keepable(n)
         /\ n # 14 => Keepable(n - 1) = Keepable(n)
<1>1. Keepable(n) \subseteq SUBSET {"has_been_greeted"}
  BY DEF Keepable, When
<1>2. ASSUME NEW kept \in Keepable(n - 1)
      PROVE  kept \in Keepable(n)
  BY <1>2 DEF Keepable, When
<1>3. ASSUME n # 14
      PROVE  Keepable(n - 1) = Keepable(n)
  BY <1>3 DEF Keepable, When
<1> QED
  BY <1>1, <1>2, <1>3

LEMMA MakesQuietUp ==
  ASSUME NEW n \in 1..68,
         \A d : \A kept \in Keepable(n - 1) :
              Sound(d, n - 1) /\ ~Hindered(d, n) /\ Quietly(d, d, ShapeAt(n - 1, kept))
           => Quietly(d, Run(d, Directory[n].up), ShapeAt(n, kept))
  PROVE  QuietUp(n)
<1> SUFFICES ASSUME NEW d, Sound(d, n - 1), ~Hindered(d, n)
             PROVE  \E kept \in Keepable(n) : Quietly(d, Run(d, Directory[n].up), ShapeAt(n, kept))
  BY DEF QuietUp
<1>1. PICK kept \in Keepable(n - 1) : Quietly(d, d, ShapeAt(n - 1, kept))
  BY SoundShape
<1>2. kept \in Keepable(n)
  BY <1>1, KeptStill
<1> QED
  BY <1>1, <1>2

LEMMA MakesQuietDown ==
  ASSUME NEW n \in (1..68) \ {14},
         \A d : \A kept \in Keepable(n) :
              Sound(d, n) /\ Quietly(d, d, ShapeAt(n, kept)) /\ Run(d, Directory[n].down).ok
           => Quietly(d, Run(d, Directory[n].down), ShapeAt(n - 1, kept))
  PROVE  QuietDown(n)
<1> SUFFICES ASSUME NEW d, Sound(d, n), Run(d, Directory[n].down).ok
             PROVE  \E kept \in Keepable(n - 1) :
                      Quietly(d, Run(d, Directory[n].down), ShapeAt(n - 1, kept))
  BY DEF QuietDown
<1>1. PICK kept \in Keepable(n) : Quietly(d, d, ShapeAt(n, kept))
  BY SoundShape
<1>2. kept \in Keepable(n - 1)
  BY <1>1, KeptStill
<1> QED
  BY <1>1, <1>2

LEMMA AddsUp ==
  ASSUME NEW n \in 1..68, NEW t \in TableNames, NEW cs, NEW v,
         Directory[n].up = <<AddWith(t, cs, v)>>,
         \A kept \in Keepable(n - 1) : /\ MayAdd(ShapeAt(n - 1, kept), t, cs, v)
                                       /\ Plus(ShapeAt(n - 1, kept), t, cs) = ShapeAt(n, kept)
  PROVE  QuietUp(n)
<1> SUFFICES ASSUME NEW d, NEW kept \in Keepable(n - 1), Quietly(d, d, ShapeAt(n - 1, kept))
             PROVE  Quietly(d, Run(d, Directory[n].up), ShapeAt(n, kept))
  BY MakesQuietUp
<1>1. Run(d, Directory[n].up) = GoOn(d, AddWith(t, cs, v))
  BY RunOne
<1>2. Quietly(d, GoOn(d, AddWith(t, cs, v)), Plus(ShapeAt(n - 1, kept), t, cs))
  BY AndAdds
<1> QED
  BY <1>1, <1>2

LEMMA DropsUp ==
  ASSUME NEW n \in 1..68, NEW t \in TableNames, NEW cs, Directory[n].up = <<Drop(t, cs)>>,
         \A kept \in Keepable(n - 1) : /\ MayDrop(ShapeAt(n - 1, kept), t, cs)
                                       /\ Minus(ShapeAt(n - 1, kept), t, cs) = ShapeAt(n, kept)
  PROVE  QuietUp(n)
<1> SUFFICES ASSUME NEW d, NEW kept \in Keepable(n - 1), Quietly(d, d, ShapeAt(n - 1, kept))
             PROVE  Quietly(d, Run(d, Directory[n].up), ShapeAt(n, kept))
  BY MakesQuietUp
<1>1. Run(d, Directory[n].up) = GoOn(d, Drop(t, cs))
  BY RunOne
<1>2. Quietly(d, GoOn(d, Drop(t, cs)), Minus(ShapeAt(n - 1, kept), t, cs))
  BY AndDrops
<1> QED
  BY <1>1, <1>2

LEMMA AddsDown ==
  ASSUME NEW n \in (1..68) \ {14}, NEW t \in TableNames, NEW cs, NEW v,
         Directory[n].down = <<AddWith(t, cs, v)>>,
         \A kept \in Keepable(n) : /\ MayAdd(ShapeAt(n, kept), t, cs, v)
                                   /\ Plus(ShapeAt(n, kept), t, cs) = ShapeAt(n - 1, kept)
  PROVE  QuietDown(n)
<1> SUFFICES ASSUME NEW d, NEW kept \in Keepable(n), Quietly(d, d, ShapeAt(n, kept))
             PROVE  Quietly(d, Run(d, Directory[n].down), ShapeAt(n - 1, kept))
  BY MakesQuietDown
<1>1. Run(d, Directory[n].down) = GoOn(d, AddWith(t, cs, v))
  BY RunOne
<1>2. Quietly(d, GoOn(d, AddWith(t, cs, v)), Plus(ShapeAt(n, kept), t, cs))
  BY AndAdds
<1> QED
  BY <1>1, <1>2

LEMMA DropsDown ==
  ASSUME NEW n \in (1..68) \ {14}, NEW t \in TableNames, NEW cs, Directory[n].down = <<Drop(t, cs)>>,
         \A kept \in Keepable(n) : /\ MayDrop(ShapeAt(n, kept), t, cs)
                                   /\ Minus(ShapeAt(n, kept), t, cs) = ShapeAt(n - 1, kept)
  PROVE  QuietDown(n)
<1> SUFFICES ASSUME NEW d, NEW kept \in Keepable(n), Quietly(d, d, ShapeAt(n, kept))
             PROVE  Quietly(d, Run(d, Directory[n].down), ShapeAt(n - 1, kept))
  BY MakesQuietDown
<1>1. Run(d, Directory[n].down) = GoOn(d, Drop(t, cs))
  BY RunOne
<1>2. Quietly(d, GoOn(d, Drop(t, cs)), Minus(ShapeAt(n, kept), t, cs))
  BY AndDrops
<1> QED
  BY <1>1, <1>2

LEMMA NothingDown ==
  ASSUME NEW n \in (1..68) \ {14}, Directory[n].down = <<>>,
         \A kept \in Keepable(n) : ShapeAt(n, kept) = ShapeAt(n - 1, kept)
  PROVE  QuietDown(n)
BY RunNothing, MakesQuietDown

(***************************************************************************)
(* The quiet files, one after the other.                                   *)
(***************************************************************************)

LEMMA Up2 ==
  QuietUp(2)
<1> DEFINE cs == {"legacy_account_type"}
<1>1. Directory[2].up = <<AddWith("users", cs, "null")>>
  BY DEF Directory, add_legacy_account_type, Add
<1>2. \A kept \in Keepable(1) : /\ MayAdd(ShapeAt(1, kept), "users", cs, "null")
                                /\ Plus(ShapeAt(1, kept), "users", cs) = ShapeAt(2, kept)
  BY DEF MayAdd, MayWrite, Plus, ShapeAt, ColumnsAt, Devise, Keepable, When, TableNames, Telling,
     NonNull,
    Lists, Types
<1> QED
  BY <1>1, <1>2, AddsUp DEF TableNames

LEMMA Down2 ==
  QuietDown(2)
<1> DEFINE cs == {"legacy_account_type"}
<1>1. Directory[2].down = <<Drop("users", cs)>>
  BY DEF Directory, add_legacy_account_type
<1>2. \A kept \in Keepable(2) : /\ MayDrop(ShapeAt(2, kept), "users", cs)
                                /\ Minus(ShapeAt(2, kept), "users", cs) = ShapeAt(1, kept)
  BY DEF MayDrop, MayLose, Minus, ShapeAt, ColumnsAt, Devise, Keepable, When, TableNames, Telling,
    NonNull, Lists, Types
<1> QED
  BY <1>1, <1>2, DropsDown DEF TableNames

LEMMA Up3 ==
  QuietUp(3)
<1> SUFFICES ASSUME NEW d, Sound(d, 2), NEW kept \in Keepable(2), Quietly(d, d, ShapeAt(2, kept))
             PROVE  Quietly(d, Run(d, Directory[3].up), ShapeAt(3, kept))
  BY MakesQuietUp
<1> DEFINE S0 == ShapeAt(2, kept)
           S1 == Minus(S0, "users", Devise)
           S2 == Plus(S1, "users", {"legacy_user"})
           e1 == GoOn(d, Drop("users", Devise))
           e2 == GoOn(e1, AddWith("users", {"legacy_user"}, "false"))
           e3 == GoOn(e2, Update("users", "legacy_user", "true", "legacy_user", {"false"}))
           e4 == GoOn(e3, Alter("users", {"reset_password_sent_at", "last_sign_in_at",
                 "created_at", "updated_at"}))
<1>1. Run(d, Directory[3].up) = e4
  BY RunFour DEF Directory, curate_users_table
<1>2. /\ MayDrop(S0, "users", Devise)
      /\ MayAdd(S1, "users", {"legacy_user"}, "false")
      /\ MaySet(S2, "users", "legacy_user", "true")
      /\ "legacy_user" \in S2["users"]
      /\ {"reset_password_sent_at", "last_sign_in_at", "created_at", "updated_at"} \subseteq
            S2["users"]
      /\ S2 = ShapeAt(3, kept)
  BY DEF MayDrop, MayLose, Minus, MayAdd, MayWrite, Plus, MaySet, ShapeAt, ColumnsAt, Devise,
     Keepable,
    When, TableNames, Telling, NonNull, Lists, Types
<1> HIDE DEF S0, S1, S2, e1, e2, e3, e4
<1>3. Quietly(d, e1, S1)
  BY <1>2, AndDrops DEF TableNames, e1, S1, S0
<1>4. Quietly(d, e2, S2)
  BY <1>2, <1>3, AndAdds DEF TableNames, e2, S2
<1>5. Quietly(d, e3, S2)
  BY <1>2, <1>4, AndUpdates DEF TableNames, e3
<1>6. Quietly(d, e4, S2)
  BY <1>2, <1>5, AndAlters DEF TableNames, e4
<1> QED
  BY <1>1, <1>2, <1>6

LEMMA Down3 ==
  QuietDown(3)
<1> SUFFICES ASSUME NEW d, Sound(d, 3), NEW kept \in Keepable(3), Quietly(d, d, ShapeAt(3, kept))
             PROVE  Quietly(d, Run(d, Directory[3].down), ShapeAt(2, kept))
  BY MakesQuietDown
<1> DEFINE S0 == ShapeAt(3, kept)
           S2 == Minus(S0, "users", {"legacy_user"})
           S3 == Plus(S2, "users", Devise)
           e1 == GoOn(d, Alter("users", {"reset_password_sent_at", "last_sign_in_at",
                 "created_at", "updated_at"}))
           e2 == GoOn(e1, Drop("users", {"legacy_user"}))
           e3 == GoOn(e2, AddWith("users", Devise, "null"))
<1>1. Run(d, Directory[3].down) = e3
  BY RunThree DEF Directory, curate_users_table, Add
<1>2. /\ {"reset_password_sent_at", "last_sign_in_at", "created_at", "updated_at"} \subseteq
            S0["users"]
      /\ MayDrop(S0, "users", {"legacy_user"})
      /\ MayAdd(S2, "users", Devise, "null")
      /\ S3 = ShapeAt(2, kept)
  BY DEF MayDrop, MayLose, Minus, MayAdd, MayWrite, Plus, ShapeAt, ColumnsAt, Devise, Keepable,
     When,
    TableNames, Telling, NonNull, Lists, Types
<1> HIDE DEF S0, S2, S3, e1, e2, e3
<1>3. Quietly(d, e1, S0)
  BY <1>2, AndAlters DEF TableNames, e1, S0
<1>4. Quietly(d, e2, S2)
  BY <1>2, <1>3, AndDrops DEF TableNames, e2, S2
<1>5. Quietly(d, e3, S3)
  BY <1>2, <1>4, AndAdds DEF TableNames, e3, S3
<1> QED
  BY <1>1, <1>2, <1>5

LEMMA Up5 ==
  QuietUp(5)
<1> SUFFICES ASSUME NEW d, Sound(d, 4), NEW kept \in Keepable(4), Quietly(d, d, ShapeAt(4, kept))
             PROVE  Quietly(d, Run(d, Directory[5].up), ShapeAt(5, kept))
  BY MakesQuietUp
<1> DEFINE S0 == ShapeAt(4, kept)
           S1 == Plus(S0, "users", {"email_verified"})
           S2 == Plus(S1, "users", {"verify_email_token", "verify_email_sent_at"})
           e1 == GoOn(d, AddWith("users", {"email_verified"}, "false"))
           e2 == GoOn(e1, AddWith("users", {"verify_email_token", "verify_email_sent_at"},
                 "null"))
<1>1. Run(d, Directory[5].up) = e2
  BY RunTwo DEF Directory, add_verified_email, Add
<1>2. /\ MayAdd(S0, "users", {"email_verified"}, "false")
      /\ MayAdd(S1, "users", {"verify_email_token", "verify_email_sent_at"}, "null")
      /\ S2 = ShapeAt(5, kept)
  BY DEF MayAdd, MayWrite, Plus, ShapeAt, ColumnsAt, Devise, Keepable, When, TableNames, Telling,
     NonNull,
    Lists, Types
<1> HIDE DEF S0, S1, S2, e1, e2
<1>3. Quietly(d, e1, S1)
  BY <1>2, AndAdds DEF TableNames, e1, S1, S0
<1>4. Quietly(d, e2, S2)
  BY <1>2, <1>3, AndAdds DEF TableNames, e2, S2
<1> QED
  BY <1>1, <1>2, <1>4

LEMMA Down5 ==
  QuietDown(5)
<1> DEFINE cs == {"email_verified", "verify_email_token", "verify_email_sent_at"}
<1>1. Directory[5].down = <<Drop("users", cs)>>
  BY DEF Directory, add_verified_email
<1>2. \A kept \in Keepable(5) : /\ MayDrop(ShapeAt(5, kept), "users", cs)
                                /\ Minus(ShapeAt(5, kept), "users", cs) = ShapeAt(4, kept)
  BY DEF MayDrop, MayLose, Minus, ShapeAt, ColumnsAt, Devise, Keepable, When, TableNames, Telling,
    NonNull, Lists, Types
<1> QED
  BY <1>1, <1>2, DropsDown DEF TableNames

LEMMA Up6 ==
  QuietUp(6)
<1> SUFFICES ASSUME NEW d, Sound(d, 5), NEW kept \in Keepable(5), Quietly(d, d, ShapeAt(5, kept))
             PROVE  Quietly(d, Run(d, Directory[6].up), ShapeAt(6, kept))
  BY MakesQuietUp
<1> DEFINE S0 == ShapeAt(5, kept)
           S2 == Minus(S0, "users", {"legacy_account_type"})
           e1 == GoOn(d, Alter("users", {"roles"}))
           e2 == GoOn(e1, Drop("users", {"legacy_account_type"}))
<1>1. Run(d, Directory[6].up) = e2
  BY RunTwo DEF Directory, remove_legacy_account_type_from_users
<1>2. /\ {"roles"} \subseteq S0["users"]
      /\ MayDrop(S0, "users", {"legacy_account_type"})
      /\ S2 = ShapeAt(6, kept)
  BY DEF MayDrop, MayLose, Minus, ShapeAt, ColumnsAt, Devise, Keepable, When, TableNames, Telling,
    NonNull, Lists, Types
<1> HIDE DEF S0, S2, e1, e2
<1>3. Quietly(d, e1, S0)
  BY <1>2, AndAlters DEF TableNames, e1, S0
<1>4. Quietly(d, e2, S2)
  BY <1>2, <1>3, AndDrops DEF TableNames, e2, S2
<1> QED
  BY <1>1, <1>2, <1>4

LEMMA Down6 ==
  QuietDown(6)
<1> SUFFICES ASSUME NEW d, Sound(d, 6), NEW kept \in Keepable(6), Quietly(d, d, ShapeAt(6, kept))
             PROVE  Quietly(d, Run(d, Directory[6].down), ShapeAt(5, kept))
  BY MakesQuietDown
<1> DEFINE S0 == ShapeAt(6, kept)
           S1 == Plus(S0, "users", {"legacy_account_type"})
           e1 == GoOn(d, AddWith("users", {"legacy_account_type"}, "null"))
           e2 == GoOn(e1, Alter("users", {"roles"}))
<1>1. Run(d, Directory[6].down) = e2
  BY RunTwo DEF Directory, remove_legacy_account_type_from_users, Add
<1>2. /\ MayAdd(S0, "users", {"legacy_account_type"}, "null")
      /\ {"roles"} \subseteq S1["users"]
      /\ S1 = ShapeAt(5, kept)
  BY DEF MayAdd, MayWrite, Plus, ShapeAt, ColumnsAt, Devise, Keepable, When, TableNames, Telling,
     NonNull,
    Lists, Types
<1> HIDE DEF S0, S1, e1, e2
<1>3. Quietly(d, e1, S1)
  BY <1>2, AndAdds DEF TableNames, e1, S1, S0
<1>4. Quietly(d, e2, S1)
  BY <1>2, <1>3, AndAlters DEF TableNames, e2
<1> QED
  BY <1>1, <1>2, <1>4

LEMMA Up7 ==
  QuietUp(7)
<1> DEFINE cs == {"given_name", "family_name"}
<1>1. Directory[7].up = <<AddWith("users", cs, "null")>>
  BY DEF Directory, add_names_to_user, Adds, Add
<1>2. \A kept \in Keepable(6) : /\ MayAdd(ShapeAt(6, kept), "users", cs, "null")
                                /\ Plus(ShapeAt(6, kept), "users", cs) = ShapeAt(7, kept)
  BY DEF MayAdd, MayWrite, Plus, ShapeAt, ColumnsAt, Devise, Keepable, When, TableNames, Telling,
     NonNull,
    Lists, Types
<1> QED
  BY <1>1, <1>2, AddsUp DEF TableNames

LEMMA Down7 ==
  QuietDown(7)
<1> DEFINE cs == {"given_name", "family_name"}
<1>1. Directory[7].down = <<Drop("users", cs)>>
  BY DEF Directory, add_names_to_user, Adds
<1>2. \A kept \in Keepable(7) : /\ MayDrop(ShapeAt(7, kept), "users", cs)
                                /\ Minus(ShapeAt(7, kept), "users", cs) = ShapeAt(6, kept)
  BY DEF MayDrop, MayLose, Minus, ShapeAt, ColumnsAt, Devise, Keepable, When, TableNames, Telling,
    NonNull, Lists, Types
<1> QED
  BY <1>1, <1>2, DropsDown DEF TableNames

LEMMA Up8 ==
  QuietUp(8)
<1> SUFFICES ASSUME NEW d, Sound(d, 7), NEW kept \in Keepable(7), Quietly(d, d, ShapeAt(7, kept))
             PROVE  Quietly(d, Run(d, Directory[8].up), ShapeAt(8, kept))
  BY MakesQuietUp
<1> DEFINE S0 == ShapeAt(7, kept)
           S1 == Plus(S0, "organizations", {"id", "siret"})
           S2 == Plus(S1, "users_organizations", {"user_id", "organization_id"})
           e1 == GoOn(d, CreateTable("organizations", {"id", "siret"}))
           e2 == GoOn(e1, CreateTable("users_organizations", {"user_id",
                 "organization_id"}))
<1>1. Run(d, Directory[8].up) = e2
  BY RunTwo DEF Directory, create_organizations
<1>2. /\ MayCreate(S0, "organizations", {"id", "siret"})
      /\ MayCreate(S1, "users_organizations", {"user_id", "organization_id"})
      /\ S2 = ShapeAt(8, kept)
  BY DEF MayCreate, MayWrite, Plus, ShapeAt, ColumnsAt, Devise, Keepable, When, TableNames, Telling,
    NonNull, Lists, Types
<1> HIDE DEF S0, S1, S2, e1, e2
<1>3. Quietly(d, e1, S1)
  BY <1>2, AndCreates DEF TableNames, e1, S1, S0
<1>4. Quietly(d, e2, S2)
  BY <1>2, <1>3, AndCreates DEF TableNames, e2, S2
<1> QED
  BY <1>1, <1>2, <1>4

LEMMA Up10 ==
  QuietUp(10)
<1> DEFINE cs == {"post_logout_redirect_uris"}
<1>1. Directory[10].up = <<AddWith("oidc_clients", cs, "empty")>>
  BY DEF Directory, add_post_logout_redirect_uris_to_oidc_clients
<1>2. \A kept \in Keepable(9) : /\ MayAdd(ShapeAt(9, kept), "oidc_clients", cs, "empty")
                                /\ Plus(ShapeAt(9, kept), "oidc_clients", cs) = ShapeAt(10, kept)
  BY DEF MayAdd, MayWrite, Plus, ShapeAt, ColumnsAt, Devise, Keepable, When, TableNames, Telling,
     NonNull,
    Lists, Types
<1> QED
  BY <1>1, <1>2, AddsUp DEF TableNames

LEMMA Down10 ==
  QuietDown(10)
<1> DEFINE cs == {"post_logout_redirect_uris"}
<1>1. Directory[10].down = <<Drop("oidc_clients", cs)>>
  BY DEF Directory, add_post_logout_redirect_uris_to_oidc_clients
<1>2. \A kept \in Keepable(10) : /\ MayDrop(ShapeAt(10, kept), "oidc_clients", cs)
                                 /\ Minus(ShapeAt(10, kept), "oidc_clients", cs) = ShapeAt(9, kept)
  BY DEF MayDrop, MayLose, Minus, ShapeAt, ColumnsAt, Devise, Keepable, When, TableNames, Telling,
    NonNull, Lists, Types
<1> QED
  BY <1>1, <1>2, DropsDown DEF TableNames

LEMMA Up11 ==
  QuietUp(11)
<1> DEFINE cs == {"roles"}
<1>1. Directory[11].up = <<Drop("users", cs)>>
  BY DEF Directory, remove_roles_from_user, Drops
<1>2. \A kept \in Keepable(10) : /\ MayDrop(ShapeAt(10, kept), "users", cs)
                                 /\ Minus(ShapeAt(10, kept), "users", cs) = ShapeAt(11, kept)
  BY DEF MayDrop, MayLose, Minus, ShapeAt, ColumnsAt, Devise, Keepable, When, TableNames, Telling,
    NonNull, Lists, Types
<1> QED
  BY <1>1, <1>2, DropsUp DEF TableNames

LEMMA Down11 ==
  QuietDown(11)
<1> DEFINE cs == {"roles"}
<1>1. Directory[11].down = <<AddWith("users", cs, "null")>>
  BY DEF Directory, remove_roles_from_user, Drops, Add
<1>2. \A kept \in Keepable(11) : /\ MayAdd(ShapeAt(11, kept), "users", cs, "null")
                                 /\ Plus(ShapeAt(11, kept), "users", cs) = ShapeAt(10, kept)
  BY DEF MayAdd, MayWrite, Plus, ShapeAt, ColumnsAt, Devise, Keepable, When, TableNames, Telling,
     NonNull,
    Lists, Types
<1> QED
  BY <1>1, <1>2, AddsDown DEF TableNames

LEMMA Up12 ==
  QuietUp(12)
<1> DEFINE cs == {"phone_number", "job"}
<1>1. Directory[12].up = <<AddWith("users", cs, "null")>>
  BY DEF Directory, add_personnal_informations_to_users, Adds, Add
<1>2. \A kept \in Keepable(11) : /\ MayAdd(ShapeAt(11, kept), "users", cs, "null")
                                 /\ Plus(ShapeAt(11, kept), "users", cs) = ShapeAt(12, kept)
  BY DEF MayAdd, MayWrite, Plus, ShapeAt, ColumnsAt, Devise, Keepable, When, TableNames, Telling,
     NonNull,
    Lists, Types
<1> QED
  BY <1>1, <1>2, AddsUp DEF TableNames

LEMMA Down12 ==
  QuietDown(12)
<1> DEFINE cs == {"phone_number", "job"}
<1>1. Directory[12].down = <<Drop("users", cs)>>
  BY DEF Directory, add_personnal_informations_to_users, Adds
<1>2. \A kept \in Keepable(12) : /\ MayDrop(ShapeAt(12, kept), "users", cs)
                                 /\ Minus(ShapeAt(12, kept), "users", cs) = ShapeAt(11, kept)
  BY DEF MayDrop, MayLose, Minus, ShapeAt, ColumnsAt, Devise, Keepable, When, TableNames, Telling,
    NonNull, Lists, Types
<1> QED
  BY <1>1, <1>2, DropsDown DEF TableNames

LEMMA Up13 ==
  QuietUp(13)
<1> DEFINE cs == {"scope"}
<1>1. Directory[13].up = <<AddWith("oidc_clients", cs, "set")>>
  BY DEF Directory, add_scope_to_oidc_clients
<1>2. \A kept \in Keepable(12) : /\ MayAdd(ShapeAt(12, kept), "oidc_clients", cs, "set")
                                 /\ Plus(ShapeAt(12, kept), "oidc_clients", cs) = ShapeAt(13, kept)
  BY DEF MayAdd, MayWrite, Plus, ShapeAt, ColumnsAt, Devise, Keepable, When, TableNames, Telling,
     NonNull,
    Lists, Types
<1> QED
  BY <1>1, <1>2, AddsUp DEF TableNames

LEMMA Down13 ==
  QuietDown(13)
<1> DEFINE cs == {"scope"}
<1>1. Directory[13].down = <<Drop("oidc_clients", cs)>>
  BY DEF Directory, add_scope_to_oidc_clients
<1>2. \A kept \in Keepable(13) : /\ MayDrop(ShapeAt(13, kept), "oidc_clients", cs)
                                 /\ Minus(ShapeAt(13, kept), "oidc_clients", cs) = ShapeAt(12, kept)
  BY DEF MayDrop, MayLose, Minus, ShapeAt, ColumnsAt, Devise, Keepable, When, TableNames, Telling,
    NonNull, Lists, Types
<1> QED
  BY <1>1, <1>2, DropsDown DEF TableNames

LEMMA Up14 ==
  QuietUp(14)
<1> SUFFICES ASSUME NEW d, Sound(d, 13), NEW kept \in Keepable(13), Quietly(d, d, ShapeAt(13, kept))
             PROVE  Quietly(d, Run(d, Directory[14].up), ShapeAt(14, kept))
  BY MakesQuietUp
<1> DEFINE S0 == ShapeAt(13, kept)
           S1 == Plus(S0, "users_organizations", {"is_external"})
           S2 == Plus(S1, "organizations", {"external_authorized_email_domains"})
           e1 == GoOn(d, AddWith("users_organizations", {"is_external"}, "false"))
           e2 == GoOn(e1, AddWith("organizations", {"external_authorized_email_domains"},
                 "empty"))
<1>1. Run(d, Directory[14].up) = e2
  BY RunTwo DEF Directory, add_is_external_to_users_organisations
<1>2. /\ MayAdd(S0, "users_organizations", {"is_external"}, "false")
      /\ MayAdd(S1, "organizations", {"external_authorized_email_domains"}, "empty")
      /\ S2 = ShapeAt(14, kept)
  BY DEF MayAdd, MayWrite, Plus, ShapeAt, ColumnsAt, Devise, Keepable, When, TableNames, Telling,
     NonNull,
    Lists, Types
<1> HIDE DEF S0, S1, S2, e1, e2
<1>3. Quietly(d, e1, S1)
  BY <1>2, AndAdds DEF TableNames, e1, S1, S0
<1>4. Quietly(d, e2, S2)
  BY <1>2, <1>3, AndAdds DEF TableNames, e2, S2
<1> QED
  BY <1>1, <1>2, <1>4

LEMMA Up15 ==
  QuietUp(15)
<1> SUFFICES ASSUME NEW d, Sound(d, 14), NEW kept \in Keepable(14), Quietly(d, d, ShapeAt(14, kept))
             PROVE  Quietly(d, Run(d, Directory[15].up), ShapeAt(15, kept))
  BY MakesQuietUp
<1> DEFINE S0 == ShapeAt(14, kept)
           S1 == Plus(S0, "users_organizations", {"created_at", "updated_at"})
           S2 == Plus(S1, "organizations", {"created_at", "updated_at"})
           e1 == GoOn(d, AddWith("users_organizations", {"created_at", "updated_at"},
                 "set"))
           e2 == GoOn(e1, AddWith("organizations", {"created_at", "updated_at"}, "set"))
<1>1. Run(d, Directory[15].up) = e2
  BY RunTwo DEF Directory, add_date_to_organisations
<1>2. /\ MayAdd(S0, "users_organizations", {"created_at", "updated_at"}, "set")
      /\ MayAdd(S1, "organizations", {"created_at", "updated_at"}, "set")
      /\ S2 = ShapeAt(15, kept)
  BY DEF MayAdd, MayWrite, Plus, ShapeAt, ColumnsAt, Devise, Keepable, When, TableNames, Telling,
     NonNull,
    Lists, Types
<1> HIDE DEF S0, S1, S2, e1, e2
<1>3. Quietly(d, e1, S1)
  BY <1>2, AndAdds DEF TableNames, e1, S1, S0
<1>4. Quietly(d, e2, S2)
  BY <1>2, <1>3, AndAdds DEF TableNames, e2, S2
<1> QED
  BY <1>1, <1>2, <1>4

LEMMA Down15 ==
  QuietDown(15)
<1> SUFFICES ASSUME NEW d, Sound(d, 15), NEW kept \in Keepable(15), Quietly(d, d, ShapeAt(15, kept))
             PROVE  Quietly(d, Run(d, Directory[15].down), ShapeAt(14, kept))
  BY MakesQuietDown
<1> DEFINE S0 == ShapeAt(15, kept)
           S1 == Minus(S0, "users_organizations", {"created_at", "updated_at"})
           S2 == Minus(S1, "organizations", {"created_at", "updated_at"})
           e1 == GoOn(d, Drop("users_organizations", {"created_at", "updated_at"}))
           e2 == GoOn(e1, Drop("organizations", {"created_at", "updated_at"}))
<1>1. Run(d, Directory[15].down) = e2
  BY RunTwo DEF Directory, add_date_to_organisations
<1>2. /\ MayDrop(S0, "users_organizations", {"created_at", "updated_at"})
      /\ MayDrop(S1, "organizations", {"created_at", "updated_at"})
      /\ S2 = ShapeAt(14, kept)
  BY DEF MayDrop, MayLose, Minus, ShapeAt, ColumnsAt, Devise, Keepable, When, TableNames, Telling,
    NonNull, Lists, Types
<1> HIDE DEF S0, S1, S2, e1, e2
<1>3. Quietly(d, e1, S1)
  BY <1>2, AndDrops DEF TableNames, e1, S1, S0
<1>4. Quietly(d, e2, S2)
  BY <1>2, <1>3, AndDrops DEF TableNames, e2, S2
<1> QED
  BY <1>1, <1>2, <1>4

LEMMA Up16 ==
  QuietUp(16)
<1> SUFFICES ASSUME NEW d, Sound(d, 15), NEW kept \in Keepable(15), Quietly(d, d, ShapeAt(15, kept))
             PROVE  Quietly(d, Run(d, Directory[16].up), ShapeAt(16, kept))
  BY MakesQuietUp
<1> DEFINE S0 == ShapeAt(15, kept)
           S1 == Plus(S0, "moderation_type", {"organization_join_block"})
           S2 == Plus(S1, "moderations", {"id", "user_id", "organization_id", "type",
                 "created_at", "moderated_at"})
           e1 == GoOn(d, CreateTable("moderation_type", {"organization_join_block"}))
           e2 == GoOn(e1, CreateTable("moderations", {"id", "user_id", "organization_id",
                 "type", "created_at", "moderated_at"}))
<1>1. Run(d, Directory[16].up) = e2
  BY RunTwo DEF Directory, add_moderation_table
<1>2. /\ MayCreate(S0, "moderation_type", {"organization_join_block"})
      /\ MayCreate(S1, "moderations", {"id", "user_id", "organization_id", "type",
            "created_at", "moderated_at"})
      /\ S2 = ShapeAt(16, kept)
  BY DEF MayCreate, MayWrite, Plus, ShapeAt, ColumnsAt, Devise, Keepable, When, TableNames, Telling,
    NonNull, Lists, Types
<1> HIDE DEF S0, S1, S2, e1, e2
<1>3. Quietly(d, e1, S1)
  BY <1>2, AndCreates DEF TableNames, e1, S1, S0
<1>4. Quietly(d, e2, S2)
  BY <1>2, <1>3, AndCreates DEF TableNames, e2, S2
<1> QED
  BY <1>1, <1>2, <1>4

LEMMA Down17 ==
  QuietDown(17)
<1> DEFINE cs == {"as_external"}
<1>1. Directory[17].down = <<Drop("moderations", cs)>>
  BY DEF Directory, capture_external_status
<1>2. \A kept \in Keepable(17) : /\ MayDrop(ShapeAt(17, kept), "moderations", cs)
                                 /\ Minus(ShapeAt(17, kept), "moderations", cs) = ShapeAt(16, kept)
  BY DEF MayDrop, MayLose, Minus, ShapeAt, ColumnsAt, Devise, Keepable, When, TableNames, Telling,
    NonNull, Lists, Types
<1> QED
  BY <1>1, <1>2, DropsDown DEF TableNames

LEMMA Down18 ==
  QuietDown(18)
<1>1. Directory[18].down = <<>>
  BY DEF Directory, lower_email_adresses
<1>2. \A kept \in Keepable(18) : ShapeAt(18, kept) = ShapeAt(17, kept)
  BY DEF ShapeAt, ColumnsAt, Devise, Keepable, When, TableNames
<1> QED
  BY <1>1, <1>2, NothingDown

LEMMA Up20 ==
  QuietUp(20)
<1> SUFFICES ASSUME NEW d, Sound(d, 19), NEW kept \in Keepable(19), Quietly(d, d, ShapeAt(19, kept))
             PROVE  Quietly(d, Run(d, Directory[20].up), ShapeAt(20, kept))
  BY MakesQuietUp
<1> DEFINE S0 == ShapeAt(19, kept)
           e1 == GoOn(d, Alter("moderations", {"created_at", "moderated_at"}))
<1>1. Run(d, Directory[20].up) = e1
  BY RunOne DEF Directory, use_time_stamp_with_timezone
<1>2. /\ {"created_at", "moderated_at"} \subseteq S0["moderations"]
      /\ S0 = ShapeAt(20, kept)
  BY DEF ShapeAt, ColumnsAt, Devise, Keepable, When, TableNames, Telling, NonNull, Lists, Types
<1> HIDE DEF S0, e1
<1>3. Quietly(d, e1, S0)
  BY <1>2, AndAlters DEF TableNames, e1, S0
<1> QED
  BY <1>1, <1>2, <1>3

LEMMA Down20 ==
  QuietDown(20)
<1> SUFFICES ASSUME NEW d, Sound(d, 20), NEW kept \in Keepable(20), Quietly(d, d, ShapeAt(20, kept))
             PROVE  Quietly(d, Run(d, Directory[20].down), ShapeAt(19, kept))
  BY MakesQuietDown
<1> DEFINE S0 == ShapeAt(20, kept)
           e1 == GoOn(d, Alter("moderations", {"created_at", "moderated_at"}))
<1>1. Run(d, Directory[20].down) = e1
  BY RunOne DEF Directory, use_time_stamp_with_timezone
<1>2. /\ {"created_at", "moderated_at"} \subseteq S0["moderations"]
      /\ S0 = ShapeAt(19, kept)
  BY DEF ShapeAt, ColumnsAt, Devise, Keepable, When, TableNames, Telling, NonNull, Lists, Types
<1> HIDE DEF S0, e1
<1>3. Quietly(d, e1, S0)
  BY <1>2, AndAlters DEF TableNames, e1, S0
<1> QED
  BY <1>1, <1>2, <1>3

LEMMA Up21 ==
  QuietUp(21)
<1> DEFINE cs == {"comment"}
<1>1. Directory[21].up = <<AddWith("moderations", cs, "null")>>
  BY DEF Directory, add_comment_to_moderations, Adds, Add
<1>2. \A kept \in Keepable(20) : /\ MayAdd(ShapeAt(20, kept), "moderations", cs, "null")
                                 /\ Plus(ShapeAt(20, kept), "moderations", cs) = ShapeAt(21, kept)
  BY DEF MayAdd, MayWrite, Plus, ShapeAt, ColumnsAt, Devise, Keepable, When, TableNames, Telling,
     NonNull,
    Lists, Types
<1> QED
  BY <1>1, <1>2, AddsUp DEF TableNames

LEMMA Down21 ==
  QuietDown(21)
<1> DEFINE cs == {"comment"}
<1>1. Directory[21].down = <<Drop("moderations", cs)>>
  BY DEF Directory, add_comment_to_moderations, Adds
<1>2. \A kept \in Keepable(21) : /\ MayDrop(ShapeAt(21, kept), "moderations", cs)
                                 /\ Minus(ShapeAt(21, kept), "moderations", cs) = ShapeAt(20, kept)
  BY DEF MayDrop, MayLose, Minus, ShapeAt, ColumnsAt, Devise, Keepable, When, TableNames, Telling,
    NonNull, Lists, Types
<1> QED
  BY <1>1, <1>2, DropsDown DEF TableNames

LEMMA Up22 ==
  QuietUp(22)
<1> SUFFICES ASSUME NEW d, Sound(d, 21), NEW kept \in Keepable(21), Quietly(d, d, ShapeAt(21, kept))
             PROVE  Quietly(d, Run(d, Directory[22].up), ShapeAt(22, kept))
  BY MakesQuietUp
<1> DEFINE S0 == ShapeAt(21, kept)
           S1 == Plus(S0, "users", {"magic_link_token", "magic_link_sent_at"})
           e1 == GoOn(d, AddWith("users", {"magic_link_token", "magic_link_sent_at"},
                 "null"))
           e2 == GoOn(e1, Release("users", {"encrypted_password"}))
<1>1. Run(d, Directory[22].up) = e2
  BY RunTwo DEF Directory, add_magic_link_to_user, Add
<1>2. /\ MayAdd(S0, "users", {"magic_link_token", "magic_link_sent_at"}, "null")
      /\ {"encrypted_password"} \subseteq S1["users"]
      /\ S1 = ShapeAt(22, kept)
  BY DEF MayAdd, MayWrite, Plus, ShapeAt, ColumnsAt, Devise, Keepable, When, TableNames, Telling,
     NonNull,
    Lists, Types
<1> HIDE DEF S0, S1, e1, e2
<1>3. Quietly(d, e1, S1)
  BY <1>2, AndAdds DEF TableNames, e1, S1, S0
<1>4. Quietly(d, e2, S1)
  BY <1>2, <1>3, AndReleases DEF TableNames, e2
<1> QED
  BY <1>1, <1>2, <1>4

LEMMA Up23 ==
  QuietUp(23)
<1> DEFINE cs == {"cached_libelle", "cached_nom_complet", "cached_enseigne",
                "cached_tranche_effectifs", "cached_tranche_effectifs_unite_legale",
                "cached_libelle_tranche_effectif", "cached_etat_administratif",
                "cached_est_active", "cached_statut_diffusion", "cached_est_diffusible",
                "cached_adresse", "cached_code_postal", "cached_activite_principale",
                "cached_libelle_activite_principale", "cached_categorie_juridique",
                "cached_libelle_categorie_juridique", "organization_info_fetched_at"}
<1>1. Directory[23].up = <<AddWith("organizations", cs, "null")>>
  BY DEF Directory, add_info_to_organization, Adds, Add
<1>2. \A kept \in Keepable(22) : /\ MayAdd(ShapeAt(22, kept), "organizations", cs, "null")
                                 /\ Plus(ShapeAt(22, kept), "organizations", cs) = ShapeAt(23, kept)
  BY DEF MayAdd, MayWrite, Plus, ShapeAt, ColumnsAt, Devise, Keepable, When, TableNames, Telling,
     NonNull,
    Lists, Types
<1> QED
  BY <1>1, <1>2, AddsUp DEF TableNames

LEMMA Down23 ==
  QuietDown(23)
<1> DEFINE cs == {"cached_libelle", "cached_nom_complet", "cached_enseigne",
                "cached_tranche_effectifs", "cached_tranche_effectifs_unite_legale",
                "cached_libelle_tranche_effectif", "cached_etat_administratif",
                "cached_est_active", "cached_statut_diffusion", "cached_est_diffusible",
                "cached_adresse", "cached_code_postal", "cached_activite_principale",
                "cached_libelle_activite_principale", "cached_categorie_juridique",
                "cached_libelle_categorie_juridique", "organization_info_fetched_at"}
<1>1. Directory[23].down = <<Drop("organizations", cs)>>
  BY DEF Directory, add_info_to_organization, Adds
<1>2. \A kept \in Keepable(23) : /\ MayDrop(ShapeAt(23, kept), "organizations", cs)
                                 /\ Minus(ShapeAt(23, kept), "organizations", cs) = ShapeAt(22, kept)
  BY DEF MayDrop, MayLose, Minus, ShapeAt, ColumnsAt, Devise, Keepable, When, TableNames, Telling,
    NonNull, Lists, Types
<1> QED
  BY <1>1, <1>2, DropsDown DEF TableNames

LEMMA Up24 ==
  QuietUp(24)
<1> DEFINE cs == {"email_verified_at"}
<1>1. Directory[24].up = <<AddWith("users", cs, "null")>>
  BY DEF Directory, add_email_verified_at_to_user, Adds, Add
<1>2. \A kept \in Keepable(23) : /\ MayAdd(ShapeAt(23, kept), "users", cs, "null")
                                 /\ Plus(ShapeAt(23, kept), "users", cs) = ShapeAt(24, kept)
  BY DEF MayAdd, MayWrite, Plus, ShapeAt, ColumnsAt, Devise, Keepable, When, TableNames, Telling,
     NonNull,
    Lists, Types
<1> QED
  BY <1>1, <1>2, AddsUp DEF TableNames

LEMMA Down24 ==
  QuietDown(24)
<1> DEFINE cs == {"email_verified_at"}
<1>1. Directory[24].down = <<Drop("users", cs)>>
  BY DEF Directory, add_email_verified_at_to_user, Adds
<1>2. \A kept \in Keepable(24) : /\ MayDrop(ShapeAt(24, kept), "users", cs)
                                 /\ Minus(ShapeAt(24, kept), "users", cs) = ShapeAt(23, kept)
  BY DEF MayDrop, MayLose, Minus, ShapeAt, ColumnsAt, Devise, Keepable, When, TableNames, Telling,
    NonNull, Lists, Types
<1> QED
  BY <1>1, <1>2, DropsDown DEF TableNames

LEMMA Up25 ==
  QuietUp(25)
<1> SUFFICES ASSUME NEW d, NEW kept \in Keepable(24), Quietly(d, d, ShapeAt(24, kept))
             PROVE  Quietly(d, Run(d, Directory[25].up), ShapeAt(25, kept))
  BY MakesQuietUp
<1>1. Directory[25].up = <<>>
  BY DEF Directory, remove_index_user_on_verify_email_token
<1>2. ShapeAt(24, kept) = ShapeAt(25, kept)
  BY DEF ShapeAt, ColumnsAt, Devise, Keepable, When, TableNames
<1> QED
  BY <1>1, <1>2, RunNothing

LEMMA Down25 ==
  QuietDown(25)
<1> SUFFICES ASSUME NEW d, Sound(d, 25), NEW kept \in Keepable(25), Quietly(d, d, ShapeAt(25, kept))
             PROVE  Quietly(d, Run(d, Directory[25].down), ShapeAt(24, kept))
  BY MakesQuietDown
<1> DEFINE S0 == ShapeAt(25, kept)
           e1 == GoOn(d, Alter("users", {"verify_email_token"}))
<1>1. Run(d, Directory[25].down) = e1
  BY RunOne DEF Directory, remove_index_user_on_verify_email_token
<1>2. /\ {"verify_email_token"} \subseteq S0["users"]
      /\ S0 = ShapeAt(24, kept)
  BY DEF ShapeAt, ColumnsAt, Devise, Keepable, When, TableNames, Telling, NonNull, Lists, Types
<1> HIDE DEF S0, e1
<1>3. Quietly(d, e1, S0)
  BY <1>2, AndAlters DEF TableNames, e1, S0
<1> QED
  BY <1>1, <1>2, <1>3

LEMMA Up27 ==
  QuietUp(27)
<1> SUFFICES ASSUME NEW d, Sound(d, 26), NEW kept \in Keepable(26), Quietly(d, d, ShapeAt(26, kept))
             PROVE  Quietly(d, Run(d, Directory[27].up), ShapeAt(27, kept))
  BY MakesQuietUp
<1> DEFINE S0 == ShapeAt(26, kept)
           S1 == Plus(Minus(S0, "oidc_clients", {"name"}), "oidc_clients", {"client_name"})
           S2 == Plus(S1, "oidc_clients", {"client_uri", "client_description"})
           e1 == GoOn(d, Rename("oidc_clients", "name", "client_name"))
           e2 == GoOn(e1, AddWith("oidc_clients", {"client_uri", "client_description"},
                 "null"))
<1>1. Run(d, Directory[27].up) = e2
  BY RunTwo DEF Directory, update_oidc_clients, Add
<1>2. /\ MayRename(S0, "oidc_clients", "name", "client_name")
      /\ MayAdd(S1, "oidc_clients", {"client_uri", "client_description"}, "null")
      /\ S2 = ShapeAt(27, kept)
  BY DEF MayRename, MayDrop, MayLose, Plus, Minus, MayAdd, MayWrite, ShapeAt, ColumnsAt, Devise,
    Keepable, When, TableNames, Telling, NonNull, Lists, Types
<1> HIDE DEF S0, S1, S2, e1, e2
<1>3. Quietly(d, e1, S1)
  BY <1>2, AndRenames DEF TableNames, e1, S1, S0
<1>4. Quietly(d, e2, S2)
  BY <1>2, <1>3, AndAdds DEF TableNames, e2, S2
<1> QED
  BY <1>1, <1>2, <1>4

LEMMA Down27 ==
  QuietDown(27)
<1> SUFFICES ASSUME NEW d, Sound(d, 27), NEW kept \in Keepable(27), Quietly(d, d, ShapeAt(27, kept))
             PROVE  Quietly(d, Run(d, Directory[27].down), ShapeAt(26, kept))
  BY MakesQuietDown
<1> DEFINE S0 == ShapeAt(27, kept)
           S1 == Plus(Minus(S0, "oidc_clients", {"client_name"}), "oidc_clients", {"name"})
           S2 == Minus(S1, "oidc_clients", {"client_uri", "client_description"})
           e1 == GoOn(d, Rename("oidc_clients", "client_name", "name"))
           e2 == GoOn(e1, Drop("oidc_clients", {"client_uri", "client_description"}))
<1>1. Run(d, Directory[27].down) = e2
  BY RunTwo DEF Directory, update_oidc_clients
<1>2. /\ MayRename(S0, "oidc_clients", "client_name", "name")
      /\ MayDrop(S1, "oidc_clients", {"client_uri", "client_description"})
      /\ S2 = ShapeAt(26, kept)
  BY DEF MayRename, MayDrop, MayLose, Plus, Minus, ShapeAt, ColumnsAt, Devise, Keepable, When,
    TableNames, Telling, NonNull, Lists, Types
<1> HIDE DEF S0, S1, S2, e1, e2
<1>3. Quietly(d, e1, S1)
  BY <1>2, AndRenames DEF TableNames, e1, S1, S0
<1>4. Quietly(d, e2, S2)
  BY <1>2, <1>3, AndDrops DEF TableNames, e2, S2
<1> QED
  BY <1>1, <1>2, <1>4

LEMMA Up28 ==
  QuietUp(28)
<1> SUFFICES ASSUME NEW d, Sound(d, 27), NEW kept \in Keepable(27), Quietly(d, d, ShapeAt(27, kept))
             PROVE  Quietly(d, Run(d, Directory[28].up), ShapeAt(28, kept))
  BY MakesQuietUp
<1> DEFINE S0 == ShapeAt(27, kept)
           e1 == GoOn(d, Alter("organizations", {"cached_est_active",
                 "cached_est_diffusible"}))
<1>1. Run(d, Directory[28].up) = e1
  BY RunOne DEF Directory, cast_some_organization_info_to_boolean
<1>2. /\ {"cached_est_active", "cached_est_diffusible"} \subseteq S0["organizations"]
      /\ S0 = ShapeAt(28, kept)
  BY DEF ShapeAt, ColumnsAt, Devise, Keepable, When, TableNames, Telling, NonNull, Lists, Types
<1> HIDE DEF S0, e1
<1>3. Quietly(d, e1, S0)
  BY <1>2, AndAlters DEF TableNames, e1, S0
<1> QED
  BY <1>1, <1>2, <1>3

LEMMA Down28 ==
  QuietDown(28)
<1> SUFFICES ASSUME NEW d, Sound(d, 28), NEW kept \in Keepable(28), Quietly(d, d, ShapeAt(28, kept))
             PROVE  Quietly(d, Run(d, Directory[28].down), ShapeAt(27, kept))
  BY MakesQuietDown
<1> DEFINE S0 == ShapeAt(28, kept)
           e1 == GoOn(d, Alter("organizations", {"cached_est_active",
                 "cached_est_diffusible"}))
<1>1. Run(d, Directory[28].down) = e1
  BY RunOne DEF Directory, cast_some_organization_info_to_boolean
<1>2. /\ {"cached_est_active", "cached_est_diffusible"} \subseteq S0["organizations"]
      /\ S0 = ShapeAt(27, kept)
  BY DEF ShapeAt, ColumnsAt, Devise, Keepable, When, TableNames, Telling, NonNull, Lists, Types
<1> HIDE DEF S0, e1
<1>3. Quietly(d, e1, S0)
  BY <1>2, AndAlters DEF TableNames, e1, S0
<1> QED
  BY <1>1, <1>2, <1>3

LEMMA Up29 ==
  QuietUp(29)
<1> SUFFICES ASSUME NEW d, Sound(d, 28), NEW kept \in Keepable(28), Quietly(d, d, ShapeAt(28, kept))
             PROVE  Quietly(d, Run(d, Directory[29].up), ShapeAt(29, kept))
  BY MakesQuietUp
<1> DEFINE S0 == ShapeAt(28, kept)
           S1 == Plus(S0, "organizations", {"verified_email_domains"})
           S2 == Plus(S1, "users_organizations", {"verification_type"})
           e1 == GoOn(d, AddWith("organizations", {"verified_email_domains"}, "empty"))
           e2 == GoOn(e1, AddWith("users_organizations", {"verification_type"}, "null"))
<1>1. Run(d, Directory[29].up) = e2
  BY RunTwo DEF Directory, add_verified_domains, Add
<1>2. /\ MayAdd(S0, "organizations", {"verified_email_domains"}, "empty")
      /\ MayAdd(S1, "users_organizations", {"verification_type"}, "null")
      /\ S2 = ShapeAt(29, kept)
  BY DEF MayAdd, MayWrite, Plus, ShapeAt, ColumnsAt, Devise, Keepable, When, TableNames, Telling,
     NonNull,
    Lists, Types
<1> HIDE DEF S0, S1, S2, e1, e2
<1>3. Quietly(d, e1, S1)
  BY <1>2, AndAdds DEF TableNames, e1, S1, S0
<1>4. Quietly(d, e2, S2)
  BY <1>2, <1>3, AndAdds DEF TableNames, e2, S2
<1> QED
  BY <1>1, <1>2, <1>4

LEMMA Up30 ==
  QuietUp(30)
<1> DEFINE cs == {"external_verified_email_domains"}
<1>1. Directory[30].up = <<AddWith("organizations", cs, "empty")>>
  BY DEF Directory, add_external_verified_domains
<1>2. \A kept \in Keepable(29) : /\ MayAdd(ShapeAt(29, kept), "organizations", cs, "empty")
                                 /\ Plus(ShapeAt(29, kept), "organizations", cs) = ShapeAt(30, kept)
  BY DEF MayAdd, MayWrite, Plus, ShapeAt, ColumnsAt, Devise, Keepable, When, TableNames, Telling,
     NonNull,
    Lists, Types
<1> QED
  BY <1>1, <1>2, AddsUp DEF TableNames

LEMMA Down31 ==
  QuietDown(31)
<1>1. Directory[31].down = <<>>
  BY DEF Directory, remove_free_email_provider
<1>2. \A kept \in Keepable(31) : ShapeAt(31, kept) = ShapeAt(30, kept)
  BY DEF ShapeAt, ColumnsAt, Devise, Keepable, When, TableNames
<1> QED
  BY <1>1, <1>2, NothingDown

LEMMA Down32 ==
  QuietDown(32)
<1> DEFINE cs == {"external_verified_email_domains"}
<1>1. Directory[32].down = <<AddWith("organizations", cs, "empty")>>
  BY DEF Directory, remove_external_verified
<1>2. \A kept \in Keepable(32) : /\ MayAdd(ShapeAt(32, kept), "organizations", cs, "empty")
                                 /\ Plus(ShapeAt(32, kept), "organizations", cs) = ShapeAt(31, kept)
  BY DEF MayAdd, MayWrite, Plus, ShapeAt, ColumnsAt, Devise, Keepable, When, TableNames, Telling,
     NonNull,
    Lists, Types
<1> QED
  BY <1>1, <1>2, AddsDown DEF TableNames

LEMMA Up33 ==
  QuietUp(33)
<1> DEFINE cs == {"as_external"}
<1>1. Directory[33].up = <<Drop("moderations", cs)>>
  BY DEF Directory, remove_as_external
<1>2. \A kept \in Keepable(32) : /\ MayDrop(ShapeAt(32, kept), "moderations", cs)
                                 /\ Minus(ShapeAt(32, kept), "moderations", cs) = ShapeAt(33, kept)
  BY DEF MayDrop, MayLose, Minus, ShapeAt, ColumnsAt, Devise, Keepable, When, TableNames, Telling,
    NonNull, Lists, Types
<1> QED
  BY <1>1, <1>2, DropsUp DEF TableNames

LEMMA Down33 ==
  QuietDown(33)
<1> DEFINE cs == {"as_external"}
<1>1. Directory[33].down = <<AddWith("moderations", cs, "false")>>
  BY DEF Directory, remove_as_external
<1>2. \A kept \in Keepable(33) : /\ MayAdd(ShapeAt(33, kept), "moderations", cs, "false")
                                 /\ Plus(ShapeAt(33, kept), "moderations", cs) = ShapeAt(32, kept)
  BY DEF MayAdd, MayWrite, Plus, ShapeAt, ColumnsAt, Devise, Keepable, When, TableNames, Telling,
     NonNull,
    Lists, Types
<1> QED
  BY <1>1, <1>2, AddsDown DEF TableNames

LEMMA Up34 ==
  QuietUp(34)
<1> DEFINE cs == {"cached_code_officiel_geographique"}
<1>1. Directory[34].up = <<AddWith("organizations", cs, "null")>>
  BY DEF Directory, add_cog, Adds, Add
<1>2. \A kept \in Keepable(33) : /\ MayAdd(ShapeAt(33, kept), "organizations", cs, "null")
                                 /\ Plus(ShapeAt(33, kept), "organizations", cs) = ShapeAt(34, kept)
  BY DEF MayAdd, MayWrite, Plus, ShapeAt, ColumnsAt, Devise, Keepable, When, TableNames, Telling,
     NonNull,
    Lists, Types
<1> QED
  BY <1>1, <1>2, AddsUp DEF TableNames

LEMMA Down34 ==
  QuietDown(34)
<1> DEFINE cs == {"cached_code_officiel_geographique"}
<1>1. Directory[34].down = <<Drop("organizations", cs)>>
  BY DEF Directory, add_cog, Adds
<1>2. \A kept \in Keepable(34) : /\ MayDrop(ShapeAt(34, kept), "organizations", cs)
                                 /\ Minus(ShapeAt(34, kept), "organizations", cs) = ShapeAt(33, kept)
  BY DEF MayDrop, MayLose, Minus, ShapeAt, ColumnsAt, Devise, Keepable, When, TableNames, Telling,
    NonNull, Lists, Types
<1> QED
  BY <1>1, <1>2, DropsDown DEF TableNames

LEMMA Down36 ==
  QuietDown(36)
<1>1. Directory[36].down = <<>>
  BY DEF Directory, fix_non_consistent_verified_domains
<1>2. \A kept \in Keepable(36) : ShapeAt(36, kept) = ShapeAt(35, kept)
  BY DEF ShapeAt, ColumnsAt, Devise, Keepable, When, TableNames
<1> QED
  BY <1>1, <1>2, NothingDown

LEMMA Up37 ==
  QuietUp(37)
<1> SUFFICES ASSUME NEW d, Sound(d, 36), NEW kept \in Keepable(36), Quietly(d, d, ShapeAt(36, kept))
             PROVE  Quietly(d, Run(d, Directory[37].up), ShapeAt(37, kept))
  BY MakesQuietUp
<1> DEFINE S0 == ShapeAt(36, kept)
           S1 == Plus(S0, "users_organizations", {"authentication_by_peers_type"})
           S2 == Plus(S1, "users", {"has_been_greeted_for_first_organization_join"})
           e1 == GoOn(d, AddWith("users_organizations", {"authentication_by_peers_type"},
                 "null"))
           e2 == GoOn(e1, AddWith("users", {"has_been_greeted_for_first_organization_join"},
                 "null"))
<1>1. Run(d, Directory[37].up) = e2
  BY RunTwo DEF Directory, add_peer_authentication, Add
<1>2. /\ MayAdd(S0, "users_organizations", {"authentication_by_peers_type"}, "null")
      /\ MayAdd(S1, "users", {"has_been_greeted_for_first_organization_join"}, "null")
      /\ S2 = ShapeAt(37, kept)
  BY DEF MayAdd, MayWrite, Plus, ShapeAt, ColumnsAt, Devise, Keepable, When, TableNames, Telling,
     NonNull,
    Lists, Types
<1> HIDE DEF S0, S1, S2, e1, e2
<1>3. Quietly(d, e1, S1)
  BY <1>2, AndAdds DEF TableNames, e1, S1, S0
<1>4. Quietly(d, e2, S2)
  BY <1>2, <1>3, AndAdds DEF TableNames, e2, S2
<1> QED
  BY <1>1, <1>2, <1>4

LEMMA Down37 ==
  QuietDown(37)
<1> SUFFICES ASSUME NEW d, Sound(d, 37), NEW kept \in Keepable(37), Quietly(d, d, ShapeAt(37, kept))
             PROVE  Quietly(d, Run(d, Directory[37].down), ShapeAt(36, kept))
  BY MakesQuietDown
<1> DEFINE S0 == ShapeAt(37, kept)
           S1 == Minus(S0, "users_organizations", {"authentication_by_peers_type"})
           S2 == Minus(S1, "users", {"has_been_greeted_for_first_organization_join"})
           e1 == GoOn(d, Drop("users_organizations", {"authentication_by_peers_type"}))
           e2 == GoOn(e1, Drop("users", {"has_been_greeted_for_first_organization_join"}))
<1>1. Run(d, Directory[37].down) = e2
  BY RunTwo DEF Directory, add_peer_authentication
<1>2. /\ MayDrop(S0, "users_organizations", {"authentication_by_peers_type"})
      /\ MayDrop(S1, "users", {"has_been_greeted_for_first_organization_join"})
      /\ S2 = ShapeAt(36, kept)
  BY DEF MayDrop, MayLose, Minus, ShapeAt, ColumnsAt, Devise, Keepable, When, TableNames, Telling,
    NonNull, Lists, Types
<1> HIDE DEF S0, S1, S2, e1, e2
<1>3. Quietly(d, e1, S1)
  BY <1>2, AndDrops DEF TableNames, e1, S1, S0
<1>4. Quietly(d, e2, S2)
  BY <1>2, <1>3, AndDrops DEF TableNames, e2, S2
<1> QED
  BY <1>1, <1>2, <1>4

LEMMA Up39 ==
  QuietUp(39)
<1> DEFINE cs == {"sponsor_id"}
<1>1. Directory[39].up = <<AddWith("users_organizations", cs, "null")>>
  BY DEF Directory, record_sponsor_id, Adds, Add
<1>2. \A kept \in Keepable(38) : /\ MayAdd(ShapeAt(38, kept), "users_organizations", cs, "null")
                                 /\ Plus(ShapeAt(38, kept), "users_organizations", cs) = ShapeAt(39, kept)
  BY DEF MayAdd, MayWrite, Plus, ShapeAt, ColumnsAt, Devise, Keepable, When, TableNames, Telling,
     NonNull,
    Lists, Types
<1> QED
  BY <1>1, <1>2, AddsUp DEF TableNames

LEMMA Down39 ==
  QuietDown(39)
<1> DEFINE cs == {"sponsor_id"}
<1>1. Directory[39].down = <<Drop("users_organizations", cs)>>
  BY DEF Directory, record_sponsor_id, Adds
<1>2. \A kept \in Keepable(39) : /\ MayDrop(ShapeAt(39, kept), "users_organizations", cs)
                                 /\ Minus(ShapeAt(39, kept), "users_organizations", cs) = ShapeAt(38, kept)
  BY DEF MayDrop, MayLose, Minus, ShapeAt, ColumnsAt, Devise, Keepable, When, TableNames, Telling,
    NonNull, Lists, Types
<1> QED
  BY <1>1, <1>2, DropsDown DEF TableNames

LEMMA Up40 ==
  QuietUp(40)
<1> DEFINE cs == {"userinfo_signed_response_alg"}
<1>1. Directory[40].up = <<AddWith("oidc_clients", cs, "null")>>
  BY DEF Directory, add_sign_alg_to_client, Adds, Add
<1>2. \A kept \in Keepable(39) : /\ MayAdd(ShapeAt(39, kept), "oidc_clients", cs, "null")
                                 /\ Plus(ShapeAt(39, kept), "oidc_clients", cs) = ShapeAt(40, kept)
  BY DEF MayAdd, MayWrite, Plus, ShapeAt, ColumnsAt, Devise, Keepable, When, TableNames, Telling,
     NonNull,
    Lists, Types
<1> QED
  BY <1>1, <1>2, AddsUp DEF TableNames

LEMMA Down40 ==
  QuietDown(40)
<1> DEFINE cs == {"userinfo_signed_response_alg"}
<1>1. Directory[40].down = <<Drop("oidc_clients", cs)>>
  BY DEF Directory, add_sign_alg_to_client, Adds
<1>2. \A kept \in Keepable(40) : /\ MayDrop(ShapeAt(40, kept), "oidc_clients", cs)
                                 /\ Minus(ShapeAt(40, kept), "oidc_clients", cs) = ShapeAt(39, kept)
  BY DEF MayDrop, MayLose, Minus, ShapeAt, ColumnsAt, Devise, Keepable, When, TableNames, Telling,
    NonNull, Lists, Types
<1> QED
  BY <1>1, <1>2, DropsDown DEF TableNames

LEMMA Up41 ==
  QuietUp(41)
<1> DEFINE cs == {"id_token_signed_response_alg", "authorization_signed_response_alg",
                "introspection_signed_response_alg"}
<1>1. Directory[41].up = <<AddWith("oidc_clients", cs, "null")>>
  BY DEF Directory, add_more_sign_alg_to_client, Adds, Add
<1>2. \A kept \in Keepable(40) : /\ MayAdd(ShapeAt(40, kept), "oidc_clients", cs, "null")
                                 /\ Plus(ShapeAt(40, kept), "oidc_clients", cs) = ShapeAt(41, kept)
  BY DEF MayAdd, MayWrite, Plus, ShapeAt, ColumnsAt, Devise, Keepable, When, TableNames, Telling,
     NonNull,
    Lists, Types
<1> QED
  BY <1>1, <1>2, AddsUp DEF TableNames

LEMMA Down41 ==
  QuietDown(41)
<1> DEFINE cs == {"id_token_signed_response_alg", "authorization_signed_response_alg",
                "introspection_signed_response_alg"}
<1>1. Directory[41].down = <<Drop("oidc_clients", cs)>>
  BY DEF Directory, add_more_sign_alg_to_client, Adds
<1>2. \A kept \in Keepable(41) : /\ MayDrop(ShapeAt(41, kept), "oidc_clients", cs)
                                 /\ Minus(ShapeAt(41, kept), "oidc_clients", cs) = ShapeAt(40, kept)
  BY DEF MayDrop, MayLose, Minus, ShapeAt, ColumnsAt, Devise, Keepable, When, TableNames, Telling,
    NonNull, Lists, Types
<1> QED
  BY <1>1, <1>2, DropsDown DEF TableNames

LEMMA Down42 ==
  QuietDown(42)
<1> SUFFICES ASSUME NEW d, Sound(d, 42), NEW kept \in Keepable(42), Quietly(d, d, ShapeAt(42, kept))
             PROVE  Quietly(d, Run(d, Directory[42].down), ShapeAt(41, kept))
  BY MakesQuietDown
<1> DEFINE S0 == ShapeAt(42, kept)
           e1 == GoOn(d, Release("oidc_clients", {"redirect_uris",
                 "post_logout_redirect_uris", "scope"}))
           e2 == GoOn(e1, Release("organizations", {"authorized_email_domains",
                 "verified_email_domains", "external_authorized_email_domains"}))
           e3 == GoOn(e2, Release("users", {"legacy_user"}))
           e4 == GoOn(e3, Release("users_organizations", {"is_external",
                 "has_been_greeted"}))
           e5 == GoOn(e4, SetDefault("users_organizations", "has_been_greeted", "null"))
           e6 == GoOn(e5, Release("moderations", {"type"}))
<1>1. Run(d, Directory[42].down) = e6
  BY RunSix DEF Directory, update_default_values
<1>2. /\ {"redirect_uris", "post_logout_redirect_uris", "scope"} \subseteq S0["oidc_clients"]
      /\ {"authorized_email_domains", "verified_email_domains",
            "external_authorized_email_domains"} \subseteq S0["organizations"]
      /\ {"legacy_user"} \subseteq S0["users"]
      /\ {"is_external", "has_been_greeted"} \subseteq S0["users_organizations"]
      /\ MaySet(S0, "users_organizations", "has_been_greeted", "null")
      /\ {"type"} \subseteq S0["moderations"]
      /\ S0 = ShapeAt(41, kept)
  BY DEF MaySet, MayWrite, ShapeAt, ColumnsAt, Devise, Keepable, When, TableNames, Telling, NonNull,
    Lists, Types
<1> HIDE DEF S0, e1, e2, e3, e4, e5, e6
<1>3. Quietly(d, e1, S0)
  BY <1>2, AndReleases DEF TableNames, e1, S0
<1>4. Quietly(d, e2, S0)
  BY <1>2, <1>3, AndReleases DEF TableNames, e2
<1>5. Quietly(d, e3, S0)
  BY <1>2, <1>4, AndReleases DEF TableNames, e3
<1>6. Quietly(d, e4, S0)
  BY <1>2, <1>5, AndReleases DEF TableNames, e4
<1>7. Quietly(d, e5, S0)
  BY <1>2, <1>6, AndDefaults DEF TableNames, e5
<1>8. Quietly(d, e6, S0)
  BY <1>2, <1>7, AndReleases DEF TableNames, e6
<1> QED
  BY <1>1, <1>2, <1>8

LEMMA Up43 ==
  QuietUp(43)
<1> DEFINE cs == {"needs_official_contact_email_verification",
                "official_contact_email_verification_token",
                "official_contact_email_verification_sent_at"}
<1>1. Directory[43].up = <<AddWith("users_organizations", cs, "null")>>
  BY DEF Directory, add_official_email_contact_verification, Adds, Add
<1>2. \A kept \in Keepable(42) : /\ MayAdd(ShapeAt(42, kept), "users_organizations", cs, "null")
                                 /\ Plus(ShapeAt(42, kept), "users_organizations", cs) = ShapeAt(43, kept)
  BY DEF MayAdd, MayWrite, Plus, ShapeAt, ColumnsAt, Devise, Keepable, When, TableNames, Telling,
     NonNull,
    Lists, Types
<1> QED
  BY <1>1, <1>2, AddsUp DEF TableNames

LEMMA Down43 ==
  QuietDown(43)
<1> DEFINE cs == {"needs_official_contact_email_verification",
                "official_contact_email_verification_token",
                "official_contact_email_verification_sent_at"}
<1>1. Directory[43].down = <<Drop("users_organizations", cs)>>
  BY DEF Directory, add_official_email_contact_verification, Adds
<1>2. \A kept \in Keepable(43) : /\ MayDrop(ShapeAt(43, kept), "users_organizations", cs)
                                 /\ Minus(ShapeAt(43, kept), "users_organizations", cs) = ShapeAt(42, kept)
  BY DEF MayDrop, MayLose, Minus, ShapeAt, ColumnsAt, Devise, Keepable, When, TableNames, Telling,
    NonNull, Lists, Types
<1> QED
  BY <1>1, <1>2, DropsDown DEF TableNames

LEMMA Up44 ==
  QuietUp(44)
<1> DEFINE cs == {"organization_id"}
<1>1. Directory[44].up = <<AddWith("users_oidc_clients", cs, "null")>>
  BY DEF Directory, more_data_in_connection, Adds, Add
<1>2. \A kept \in Keepable(43) : /\ MayAdd(ShapeAt(43, kept), "users_oidc_clients", cs, "null")
                                 /\ Plus(ShapeAt(43, kept), "users_oidc_clients", cs) = ShapeAt(44, kept)
  BY DEF MayAdd, MayWrite, Plus, ShapeAt, ColumnsAt, Devise, Keepable, When, TableNames, Telling,
     NonNull,
    Lists, Types
<1> QED
  BY <1>1, <1>2, AddsUp DEF TableNames

LEMMA Down44 ==
  QuietDown(44)
<1> DEFINE cs == {"organization_id"}
<1>1. Directory[44].down = <<Drop("users_oidc_clients", cs)>>
  BY DEF Directory, more_data_in_connection, Adds
<1>2. \A kept \in Keepable(44) : /\ MayDrop(ShapeAt(44, kept), "users_oidc_clients", cs)
                                 /\ Minus(ShapeAt(44, kept), "users_oidc_clients", cs) = ShapeAt(43, kept)
  BY DEF MayDrop, MayLose, Minus, ShapeAt, ColumnsAt, Devise, Keepable, When, TableNames, Telling,
    NonNull, Lists, Types
<1> QED
  BY <1>1, <1>2, DropsDown DEF TableNames

LEMMA Up45 ==
  QuietUp(45)
<1> SUFFICES ASSUME NEW d, Sound(d, 44), NEW kept \in Keepable(44), Quietly(d, d, ShapeAt(44, kept))
             PROVE  Quietly(d, Run(d, Directory[45].up), ShapeAt(45, kept))
  BY MakesQuietUp
<1> DEFINE S0 == ShapeAt(44, kept)
           S1 == Plus(S0, "authenticators", {"credential_id", "credential_public_key",
                 "counter", "credential_device_type", "credential_backed_up", "transports",
                 "user_id"})
           S2 == Plus(S1, "users", {"current_challenge"})
           e1 == GoOn(d, CreateTable("authenticators", {"credential_id",
                 "credential_public_key", "counter", "credential_device_type",
                 "credential_backed_up", "transports", "user_id"}))
           e2 == GoOn(e1, AddWith("users", {"current_challenge"}, "null"))
<1>1. Run(d, Directory[45].up) = e2
  BY RunTwo DEF Directory, add_webauthn, Add
<1>2. /\ MayCreate(S0, "authenticators", {"credential_id", "credential_public_key", "counter",
            "credential_device_type", "credential_backed_up", "transports", "user_id"})
      /\ MayAdd(S1, "users", {"current_challenge"}, "null")
      /\ S2 = ShapeAt(45, kept)
  BY DEF MayCreate, MayWrite, Plus, MayAdd, ShapeAt, ColumnsAt, Devise, Keepable, When, TableNames,
    Telling, NonNull, Lists, Types
<1> HIDE DEF S0, S1, S2, e1, e2
<1>3. Quietly(d, e1, S1)
  BY <1>2, AndCreates DEF TableNames, e1, S1, S0
<1>4. Quietly(d, e2, S2)
  BY <1>2, <1>3, AndAdds DEF TableNames, e2, S2
<1> QED
  BY <1>1, <1>2, <1>4

LEMMA Up46 ==
  QuietUp(46)
<1> DEFINE cs == {"ticket_id"}
<1>1. Directory[46].up = <<AddWith("moderations", cs, "null")>>
  BY DEF Directory, add_zammad_ticket_id_on_moderations, Adds, Add
<1>2. \A kept \in Keepable(45) : /\ MayAdd(ShapeAt(45, kept), "moderations", cs, "null")
                                 /\ Plus(ShapeAt(45, kept), "moderations", cs) = ShapeAt(46, kept)
  BY DEF MayAdd, MayWrite, Plus, ShapeAt, ColumnsAt, Devise, Keepable, When, TableNames, Telling,
     NonNull,
    Lists, Types
<1> QED
  BY <1>1, <1>2, AddsUp DEF TableNames

LEMMA Up47 ==
  QuietUp(47)
<1> DEFINE cs == {"display_name", "created_at", "last_used_at"}
<1>1. Directory[47].up = <<AddWith("authenticators", cs, "null")>>
  BY DEF Directory, webauthn_metadata, Adds, Add
<1>2. \A kept \in Keepable(46) : /\ MayAdd(ShapeAt(46, kept), "authenticators", cs, "null")
                                 /\ Plus(ShapeAt(46, kept), "authenticators", cs) = ShapeAt(47, kept)
  BY DEF MayAdd, MayWrite, Plus, ShapeAt, ColumnsAt, Devise, Keepable, When, TableNames, Telling,
     NonNull,
    Lists, Types
<1> QED
  BY <1>1, <1>2, AddsUp DEF TableNames

LEMMA Down47 ==
  QuietDown(47)
<1> DEFINE cs == {"display_name", "created_at", "last_used_at"}
<1>1. Directory[47].down = <<Drop("authenticators", cs)>>
  BY DEF Directory, webauthn_metadata, Adds
<1>2. \A kept \in Keepable(47) : /\ MayDrop(ShapeAt(47, kept), "authenticators", cs)
                                 /\ Minus(ShapeAt(47, kept), "authenticators", cs) = ShapeAt(46, kept)
  BY DEF MayDrop, MayLose, Minus, ShapeAt, ColumnsAt, Devise, Keepable, When, TableNames, Telling,
    NonNull, Lists, Types
<1> QED
  BY <1>1, <1>2, DropsDown DEF TableNames

LEMMA Up48 ==
  QuietUp(48)
<1> DEFINE cs == {"usage_count"}
<1>1. Directory[48].up = <<AddWith("authenticators", cs, "null")>>
  BY DEF Directory, add_webauth_use_count, Adds, Add
<1>2. \A kept \in Keepable(47) : /\ MayAdd(ShapeAt(47, kept), "authenticators", cs, "null")
                                 /\ Plus(ShapeAt(47, kept), "authenticators", cs) = ShapeAt(48, kept)
  BY DEF MayAdd, MayWrite, Plus, ShapeAt, ColumnsAt, Devise, Keepable, When, TableNames, Telling,
     NonNull,
    Lists, Types
<1> QED
  BY <1>1, <1>2, AddsUp DEF TableNames

LEMMA Down48 ==
  QuietDown(48)
<1> DEFINE cs == {"usage_count"}
<1>1. Directory[48].down = <<Drop("authenticators", cs)>>
  BY DEF Directory, add_webauth_use_count, Adds
<1>2. \A kept \in Keepable(48) : /\ MayDrop(ShapeAt(48, kept), "authenticators", cs)
                                 /\ Minus(ShapeAt(48, kept), "authenticators", cs) = ShapeAt(47, kept)
  BY DEF MayDrop, MayLose, Minus, ShapeAt, ColumnsAt, Devise, Keepable, When, TableNames, Telling,
    NonNull, Lists, Types
<1> QED
  BY <1>1, <1>2, DropsDown DEF TableNames

LEMMA Up49 ==
  QuietUp(49)
<1> DEFINE cs == {"moderated_by"}
<1>1. Directory[49].up = <<AddWith("moderations", cs, "null")>>
  BY DEF Directory, add_moderated_by, Adds, Add
<1>2. \A kept \in Keepable(48) : /\ MayAdd(ShapeAt(48, kept), "moderations", cs, "null")
                                 /\ Plus(ShapeAt(48, kept), "moderations", cs) = ShapeAt(49, kept)
  BY DEF MayAdd, MayWrite, Plus, ShapeAt, ColumnsAt, Devise, Keepable, When, TableNames, Telling,
     NonNull,
    Lists, Types
<1> QED
  BY <1>1, <1>2, AddsUp DEF TableNames

LEMMA Down49 ==
  QuietDown(49)
<1> DEFINE cs == {"moderated_by"}
<1>1. Directory[49].down = <<Drop("moderations", cs)>>
  BY DEF Directory, add_moderated_by, Adds
<1>2. \A kept \in Keepable(49) : /\ MayDrop(ShapeAt(49, kept), "moderations", cs)
                                 /\ Minus(ShapeAt(49, kept), "moderations", cs) = ShapeAt(48, kept)
  BY DEF MayDrop, MayLose, Minus, ShapeAt, ColumnsAt, Devise, Keepable, When, TableNames, Telling,
    NonNull, Lists, Types
<1> QED
  BY <1>1, <1>2, DropsDown DEF TableNames

LEMMA Up51 ==
  QuietUp(51)
<1> DEFINE cs == {"legacy_user"}
<1>1. Directory[51].up = <<Drop("users", cs)>>
  BY DEF Directory, drop_legacy_field
<1>2. \A kept \in Keepable(50) : /\ MayDrop(ShapeAt(50, kept), "users", cs)
                                 /\ Minus(ShapeAt(50, kept), "users", cs) = ShapeAt(51, kept)
  BY DEF MayDrop, MayLose, Minus, ShapeAt, ColumnsAt, Devise, Keepable, When, TableNames, Telling,
    NonNull, Lists, Types
<1> QED
  BY <1>1, <1>2, DropsUp DEF TableNames

LEMMA Down51 ==
  QuietDown(51)
<1> DEFINE cs == {"legacy_user"}
<1>1. Directory[51].down = <<AddWith("users", cs, "false")>>
  BY DEF Directory, drop_legacy_field
<1>2. \A kept \in Keepable(51) : /\ MayAdd(ShapeAt(51, kept), "users", cs, "false")
                                 /\ Plus(ShapeAt(51, kept), "users", cs) = ShapeAt(50, kept)
  BY DEF MayAdd, MayWrite, Plus, ShapeAt, ColumnsAt, Devise, Keepable, When, TableNames, Telling,
     NonNull,
    Lists, Types
<1> QED
  BY <1>1, <1>2, AddsDown DEF TableNames

LEMMA Up52 ==
  QuietUp(52)
<1> DEFINE cs == {"needs_inclusionconnect_welcome_page"}
<1>1. Directory[52].up = <<AddWith("users", cs, "null")>>
  BY DEF Directory, inclusionconnect_welcome_page, Adds, Add
<1>2. \A kept \in Keepable(51) : /\ MayAdd(ShapeAt(51, kept), "users", cs, "null")
                                 /\ Plus(ShapeAt(51, kept), "users", cs) = ShapeAt(52, kept)
  BY DEF MayAdd, MayWrite, Plus, ShapeAt, ColumnsAt, Devise, Keepable, When, TableNames, Telling,
     NonNull,
    Lists, Types
<1> QED
  BY <1>1, <1>2, AddsUp DEF TableNames

LEMMA Down52 ==
  QuietDown(52)
<1> DEFINE cs == {"needs_inclusionconnect_welcome_page"}
<1>1. Directory[52].down = <<Drop("users", cs)>>
  BY DEF Directory, inclusionconnect_welcome_page, Adds
<1>2. \A kept \in Keepable(52) : /\ MayDrop(ShapeAt(52, kept), "users", cs)
                                 /\ Minus(ShapeAt(52, kept), "users", cs) = ShapeAt(51, kept)
  BY DEF MayDrop, MayLose, Minus, ShapeAt, ColumnsAt, Devise, Keepable, When, TableNames, Telling,
    NonNull, Lists, Types
<1> QED
  BY <1>1, <1>2, DropsDown DEF TableNames

LEMMA Up53 ==
  QuietUp(53)
<1> DEFINE cs == {"needs_inclusionconnect_onboarding_help"}
<1>1. Directory[53].up = <<AddWith("users", cs, "null")>>
  BY DEF Directory, inclusionconnect_onboarding_help, Adds, Add
<1>2. \A kept \in Keepable(52) : /\ MayAdd(ShapeAt(52, kept), "users", cs, "null")
                                 /\ Plus(ShapeAt(52, kept), "users", cs) = ShapeAt(53, kept)
  BY DEF MayAdd, MayWrite, Plus, ShapeAt, ColumnsAt, Devise, Keepable, When, TableNames, Telling,
     NonNull,
    Lists, Types
<1> QED
  BY <1>1, <1>2, AddsUp DEF TableNames

LEMMA Down53 ==
  QuietDown(53)
<1> DEFINE cs == {"needs_inclusionconnect_onboarding_help"}
<1>1. Directory[53].down = <<Drop("users", cs)>>
  BY DEF Directory, inclusionconnect_onboarding_help, Adds
<1>2. \A kept \in Keepable(53) : /\ MayDrop(ShapeAt(53, kept), "users", cs)
                                 /\ Minus(ShapeAt(53, kept), "users", cs) = ShapeAt(52, kept)
  BY DEF MayDrop, MayLose, Minus, ShapeAt, ColumnsAt, Devise, Keepable, When, TableNames, Telling,
    NonNull, Lists, Types
<1> QED
  BY <1>1, <1>2, DropsDown DEF TableNames

LEMMA Up54 ==
  QuietUp(54)
<1> DEFINE cs == {"encrypted_totp_key", "totp_key_verified_at"}
<1>1. Directory[54].up = <<AddWith("users", cs, "null")>>
  BY DEF Directory, add_totp_secret, Adds, Add
<1>2. \A kept \in Keepable(53) : /\ MayAdd(ShapeAt(53, kept), "users", cs, "null")
                                 /\ Plus(ShapeAt(53, kept), "users", cs) = ShapeAt(54, kept)
  BY DEF MayAdd, MayWrite, Plus, ShapeAt, ColumnsAt, Devise, Keepable, When, TableNames, Telling,
     NonNull,
    Lists, Types
<1> QED
  BY <1>1, <1>2, AddsUp DEF TableNames

LEMMA Up55 ==
  QuietUp(55)
<1> DEFINE cs == {"user_verified"}
<1>1. Directory[55].up = <<AddWith("authenticators", cs, "null")>>
  BY DEF Directory, add_user_verified_in_authenticators, Adds, Add
<1>2. \A kept \in Keepable(54) : /\ MayAdd(ShapeAt(54, kept), "authenticators", cs, "null")
                                 /\ Plus(ShapeAt(54, kept), "authenticators", cs) = ShapeAt(55, kept)
  BY DEF MayAdd, MayWrite, Plus, ShapeAt, ColumnsAt, Devise, Keepable, When, TableNames, Telling,
     NonNull,
    Lists, Types
<1> QED
  BY <1>1, <1>2, AddsUp DEF TableNames

LEMMA Down55 ==
  QuietDown(55)
<1> DEFINE cs == {"user_verified"}
<1>1. Directory[55].down = <<Drop("authenticators", cs)>>
  BY DEF Directory, add_user_verified_in_authenticators, Adds
<1>2. \A kept \in Keepable(55) : /\ MayDrop(ShapeAt(55, kept), "authenticators", cs)
                                 /\ Minus(ShapeAt(55, kept), "authenticators", cs) = ShapeAt(54, kept)
  BY DEF MayDrop, MayLose, Minus, ShapeAt, ColumnsAt, Devise, Keepable, When, TableNames, Telling,
    NonNull, Lists, Types
<1> QED
  BY <1>1, <1>2, DropsDown DEF TableNames

LEMMA Up61 ==
  QuietUp(61)
<1> DEFINE cs == {"verified_at"}
<1>1. Directory[61].up = <<AddWith("users_organizations", cs, "null")>>
  BY DEF Directory, add_link_verified_at, Adds, Add
<1>2. \A kept \in Keepable(60) : /\ MayAdd(ShapeAt(60, kept), "users_organizations", cs, "null")
                                 /\ Plus(ShapeAt(60, kept), "users_organizations", cs) = ShapeAt(61, kept)
  BY DEF MayAdd, MayWrite, Plus, ShapeAt, ColumnsAt, Devise, Keepable, When, TableNames, Telling,
     NonNull,
    Lists, Types
<1> QED
  BY <1>1, <1>2, AddsUp DEF TableNames

LEMMA Down61 ==
  QuietDown(61)
<1> DEFINE cs == {"verified_at"}
<1>1. Directory[61].down = <<Drop("users_organizations", cs)>>
  BY DEF Directory, add_link_verified_at, Adds
<1>2. \A kept \in Keepable(61) : /\ MayDrop(ShapeAt(61, kept), "users_organizations", cs)
                                 /\ Minus(ShapeAt(61, kept), "users_organizations", cs) = ShapeAt(60, kept)
  BY DEF MayDrop, MayLose, Minus, ShapeAt, ColumnsAt, Devise, Keepable, When, TableNames, Telling,
    NonNull, Lists, Types
<1> QED
  BY <1>1, <1>2, DropsDown DEF TableNames

LEMMA Down62 ==
  QuietDown(62)
<1>1. Directory[62].down = <<>>
  BY DEF Directory, remove_same_null_verified_email_domain
<1>2. \A kept \in Keepable(62) : ShapeAt(62, kept) = ShapeAt(61, kept)
  BY DEF ShapeAt, ColumnsAt, Devise, Keepable, When, TableNames
<1> QED
  BY <1>1, <1>2, NothingDown

LEMMA Up64 ==
  QuietUp(64)
<1> SUFFICES ASSUME NEW d, Sound(d, 63), NEW kept \in Keepable(63), Quietly(d, d, ShapeAt(63, kept))
             PROVE  Quietly(d, Run(d, Directory[64].up), ShapeAt(64, kept))
  BY MakesQuietUp
<1> DEFINE S0 == ShapeAt(63, kept)
           S1 == Minus(S0, "users_organizations", {"authentication_by_peers_type"})
           S2 == Minus(S1, "users_organizations", {"sponsor_id"})
           e1 == GoOn(d, Drop("users_organizations", {"authentication_by_peers_type"}))
           e2 == GoOn(e1, Drop("users_organizations", {"sponsor_id"}))
<1>1. Run(d, Directory[64].up) = e2
  BY RunTwo DEF Directory, delete_authentication_by_peers_type
<1>2. /\ MayDrop(S0, "users_organizations", {"authentication_by_peers_type"})
      /\ MayDrop(S1, "users_organizations", {"sponsor_id"})
      /\ S2 = ShapeAt(64, kept)
  BY DEF MayDrop, MayLose, Minus, ShapeAt, ColumnsAt, Devise, Keepable, When, TableNames, Telling,
    NonNull, Lists, Types
<1> HIDE DEF S0, S1, S2, e1, e2
<1>3. Quietly(d, e1, S1)
  BY <1>2, AndDrops DEF TableNames, e1, S1, S0
<1>4. Quietly(d, e2, S2)
  BY <1>2, <1>3, AndDrops DEF TableNames, e2, S2
<1> QED
  BY <1>1, <1>2, <1>4

LEMMA Down64 ==
  QuietDown(64)
<1> SUFFICES ASSUME NEW d, Sound(d, 64), NEW kept \in Keepable(64), Quietly(d, d, ShapeAt(64, kept))
             PROVE  Quietly(d, Run(d, Directory[64].down), ShapeAt(63, kept))
  BY MakesQuietDown
<1> DEFINE S0 == ShapeAt(64, kept)
           S1 == Plus(S0, "users_organizations", {"authentication_by_peers_type"})
           S2 == Plus(S1, "users_organizations", {"sponsor_id"})
           e1 == GoOn(d, AddWith("users_organizations", {"authentication_by_peers_type"},
                 "null"))
           e2 == GoOn(e1, AddWith("users_organizations", {"sponsor_id"}, "null"))
<1>1. Run(d, Directory[64].down) = e2
  BY RunTwo DEF Directory, delete_authentication_by_peers_type, Add
<1>2. /\ MayAdd(S0, "users_organizations", {"authentication_by_peers_type"}, "null")
      /\ MayAdd(S1, "users_organizations", {"sponsor_id"}, "null")
      /\ S2 = ShapeAt(63, kept)
  BY DEF MayAdd, MayWrite, Plus, ShapeAt, ColumnsAt, Devise, Keepable, When, TableNames, Telling,
     NonNull,
    Lists, Types
<1> HIDE DEF S0, S1, S2, e1, e2
<1>3. Quietly(d, e1, S1)
  BY <1>2, AndAdds DEF TableNames, e1, S1, S0
<1>4. Quietly(d, e2, S2)
  BY <1>2, <1>3, AndAdds DEF TableNames, e2, S2
<1> QED
  BY <1>1, <1>2, <1>4

LEMMA Up65 ==
  QuietUp(65)
<1> DEFINE cs == {"is_proconnect_federation"}
<1>1. Directory[65].up = <<AddWith("oidc_clients", cs, "null")>>
  BY DEF Directory, add_is_pcf, Adds, Add
<1>2. \A kept \in Keepable(64) : /\ MayAdd(ShapeAt(64, kept), "oidc_clients", cs, "null")
                                 /\ Plus(ShapeAt(64, kept), "oidc_clients", cs) = ShapeAt(65, kept)
  BY DEF MayAdd, MayWrite, Plus, ShapeAt, ColumnsAt, Devise, Keepable, When, TableNames, Telling,
     NonNull,
    Lists, Types
<1> QED
  BY <1>1, <1>2, AddsUp DEF TableNames

LEMMA Down65 ==
  QuietDown(65)
<1> DEFINE cs == {"is_proconnect_federation"}
<1>1. Directory[65].down = <<Drop("oidc_clients", cs)>>
  BY DEF Directory, add_is_pcf, Adds
<1>2. \A kept \in Keepable(65) : /\ MayDrop(ShapeAt(65, kept), "oidc_clients", cs)
                                 /\ Minus(ShapeAt(65, kept), "oidc_clients", cs) = ShapeAt(64, kept)
  BY DEF MayDrop, MayLose, Minus, ShapeAt, ColumnsAt, Devise, Keepable, When, TableNames, Telling,
    NonNull, Lists, Types
<1> QED
  BY <1>1, <1>2, DropsDown DEF TableNames

LEMMA Down67 ==
  QuietDown(67)
<1>1. Directory[67].down = <<>>
  BY DEF Directory, delete_already_verified_email_domain
<1>2. \A kept \in Keepable(67) : ShapeAt(67, kept) = ShapeAt(66, kept)
  BY DEF ShapeAt, ColumnsAt, Devise, Keepable, When, TableNames
<1> QED
  BY <1>1, <1>2, NothingDown

LEMMA Down68 ==
  QuietDown(68)
<1>1. Directory[68].down = <<>>
  BY DEF Directory, revoke_authenticators
<1>2. \A kept \in Keepable(68) : ShapeAt(68, kept) = ShapeAt(67, kept)
  BY DEF ShapeAt, ColumnsAt, Devise, Keepable, When, TableNames
<1> QED
  BY <1>1, <1>2, NothingDown

(***************************************************************************)
(* Those that some databases refuse, or that need what every one has.      *)
(***************************************************************************)

LEMMA FillsNoRow ==
  ASSUME NEW e, NEW t, NEW cs, t \notin e.rows
  PROVE  Fills(e, t, cs)
BY DEF Fills

\* The columns that are never null can be required.
LEMMA FillsNonNull ==
  ASSUME NEW d, NEW e, NEW S, Quietly(d, e, S), NeverNull(d), NEW t \in TableNames,
         NEW cs, cs \subseteq S[t], cs \subseteq NonNull(t)
  PROVE  Fills(e, t, cs)
<1>1. ColumnsOf(e, t) = S[t] /\ NeverNull(e)
  BY QuietlySeen DEF Quietly
<1> QED
  BY <1>1 DEF Fills, NeverNull, Has

LEMMA SameRows ==
  ASSUME NEW d, NEW e, NEW S, Quietly(d, e, S)
  PROVE  e.rows = d.rows
BY DEF Quietly, Alike

LEMMA Up1 ==
  QuietUp(1)
<1> SUFFICES ASSUME NEW d, Sound(d, 0), NEW kept \in Keepable(0), Quietly(d, d, ShapeAt(0, kept))
             PROVE  Quietly(d, Run(d, Directory[1].up), ShapeAt(1, kept))
  BY MakesQuietUp
<1> DEFINE cs == {"id", "email", "encrypted_password", "reset_password_token",
                  "reset_password_sent_at", "remember_created_at", "sign_in_count",
                  "current_sign_in_at", "last_sign_in_at", "current_sign_in_ip",
                  "last_sign_in_ip", "created_at", "updated_at", "account_type_id", "roles",
                  "type"}
           S1 == Plus(ShapeAt(0, kept), "users", cs)
           e1 == GoOn(d, CreateTable("users", cs))
           e2 == GoOn(e1, Require("users", {"encrypted_password"}))
<1>1. Run(d, Directory[1].up) = e2
  BY RunTwo DEF Directory, create_users_table
<1>2. /\ MayCreate(ShapeAt(0, kept), "users", cs)
      /\ {"encrypted_password"} \subseteq S1["users"]
      /\ S1 = ShapeAt(1, kept)
  BY DEF MayCreate, MayWrite, Plus, ShapeAt, ColumnsAt, Devise, Keepable, When, TableNames, Telling,
    NonNull, Lists, Types
<1> HIDE DEF cs, S1, e1, e2
<1>3. Quietly(d, e1, S1)
  BY <1>2, AndCreates DEF TableNames, e1, S1
<1>4. Fills(e1, "users", {"encrypted_password"})
  BY <1>3, SameRows, FillsNoRow DEF Sound, Firm, Populated
<1>5. Quietly(d, e2, S1)
  BY <1>2, <1>3, <1>4, AndRequires DEF TableNames, e2
<1> QED
  BY <1>1, <1>2, <1>5

LEMMA Up4 ==
  QuietUp(4)
<1> SUFFICES ASSUME NEW d, Sound(d, 3), NEW kept \in Keepable(3), Quietly(d, d, ShapeAt(3, kept))
             PROVE  Quietly(d, Run(d, Directory[4].up), ShapeAt(4, kept))
  BY MakesQuietUp
<1> DEFINE t == "oidc_clients"
           cs == {"id", "name", "client_id", "client_secret", "redirect_uris", "created_at",
                  "updated_at"}
           c == "redirect_uris"
           e1 == WithCells(d, t, cs, "null")
           e2 == WithCells(e1, t, {c}, "empty")
<1>1. ColumnsOf(d, t) = {} /\ Plus(ShapeAt(3, kept), t, cs) = ShapeAt(4, kept) /\ t \in TableNames
  <2>1. ShapeAt(3, kept)[t] = {}
    BY DEF ShapeAt, ColumnsAt, When, TableNames
  <2>2. Plus(ShapeAt(3, kept), t, cs) = ShapeAt(4, kept)
    BY DEF Plus, ShapeAt, ColumnsAt, Devise, When, TableNames, Keepable
  <2> QED
    BY <2>1, <2>2, QuietlySeen DEF TableNames
<1>2. IsDatabase(d) /\ d.ok /\ Shape(d) = ShapeAt(3, kept) /\ t \notin d.rows
  BY QuietlySeen DEF Sound, Firm, Populated, TableNames
<1> HIDE DEF t
<1>3. Wrote(d, e1, t, cs, "null")
  BY <1>1, <1>2, CellsWritten
<1> HIDE DEF e1
<1>4. IsDatabase(e1) /\ e1.ok /\ ColumnsOf(e1, t) = cs /\ t \notin e1.rows
  BY <1>1, <1>2, <1>3 DEF Wrote
<1>5. Wrote(e1, e2, t, {c}, "empty")
  BY <1>1, <1>4, CellsWritten
<1>6. Run(d, Directory[4].up) = e2
  <2>1. Run(d, Directory[4].up) = GoOn(GoOn(d, CreateTable(t, cs)), SetDefault(t, c, "empty"))
    BY RunTwo DEF Directory, create_oidc_clients_table, t
  <2>2. GoOn(d, CreateTable(t, cs)) = e1
    BY <1>1, <1>2, Creating DEF If, e1
  <2>3. c \in ColumnsOf(e1, t)
    BY <1>4
  <2> HIDE DEF cs, c
  <2>4. GoOn(e1, SetDefault(t, c, "empty")) = e2
    BY <1>4, <2>3, SettingDefault DEF If
  <2> QED
    BY <2>1, <2>2, <2>4
<1> HIDE DEF e2
<1>7. /\ IsDatabase(e2) /\ e2.ok /\ e2.rows = d.rows /\ e2.domains = d.domains
      /\ e2.connections = d.connections /\ e2.email = d.email
      /\ \A u \in TableNames : u # t => e2.cell[u] = d.cell[u]
      /\ ColumnsOf(e2, t) = cs
      /\ e2.cell[t][c] = "empty"
  <2>1. c \in cs
    OBVIOUS
  <2> HIDE DEF cs, c
  <2> QED
    BY <1>2, <1>3, <1>4, <1>5, <2>1 DEF Wrote
<1>8. \A u \in TableNames : ColumnsOf(e2, u) = ColumnsOf(d, u) \cup When(u = t, cs)
  BY <1>1, <1>7 DEF ColumnsOf, When
<1>9. Shape(e2) = Plus(Shape(d), t, cs)
  BY <1>8 DEF Shape, Plus
<1>10. Alike(d, e2)
  <2>1. Kinds(e2) = Kinds(d)
    BY <1>8 DEF Kinds, When, TableNames, t
  <2>2. Has(e2, "users_oidc_clients", "connection_count")
          <=> Has(d, "users_oidc_clients", "connection_count")
    BY <1>8 DEF Has, When, TableNames, t
  <2>3. \A u \in TableNames : \A k \in Telling(u) : Seen(e2, u, k) = Seen(d, u, k)
    <3>1. Telling(t) = {}
      BY DEF Telling, t
    <3> QED
      BY <1>7, <3>1 DEF Seen, Has, ColumnsOf
  <2> QED
    BY <1>7, <2>1, <2>2, <2>3 DEF Alike
<1>11. NeverNull(e2)
  <2>1. NeverNull(d)
    BY DEF Sound, Firm
  <2>2. \A k \in NonNull(t) : Has(e2, t, k) => k = c
    BY <1>7 DEF NonNull, t, Has
  <2> QED
    BY <1>7, <2>1, <2>2 DEF NeverNull, Has, ColumnsOf
<1> QED
  BY <1>1, <1>2, <1>6, <1>7, <1>9, <1>10, <1>11 DEF Quietly

LEMMA Up17 ==
  QuietUp(17)
<1> SUFFICES ASSUME NEW d, Sound(d, 16), ~Hindered(d, 17), NEW kept \in Keepable(16),
                    Quietly(d, d, ShapeAt(16, kept))
             PROVE  Quietly(d, Run(d, Directory[17].up), ShapeAt(17, kept))
  BY MakesQuietUp
<1> DEFINE t == "moderations"
           cs == {"as_external"}
<1>1. Run(d, Directory[17].up) = GoOn(d, AddRequired(t, cs))
  BY RunOne DEF Directory, capture_external_status
<1>2. MayAdd(ShapeAt(16, kept), t, cs, "null") /\ Plus(ShapeAt(16, kept), t, cs) = ShapeAt(17, kept)
  BY DEF MayAdd, MayWrite, Plus, ShapeAt, ColumnsAt, Devise, Keepable, When, TableNames, Telling,
     NonNull
<1>3. d.ok /\ cs \cap ColumnsOf(d, t) = {} /\ t \notin d.rows
  BY <1>2, QuietlySeen DEF Hindered, MayAdd, TableNames
<1> HIDE DEF cs
<1>4. GoOn(d, AddRequired(t, cs)) = WithCells(d, t, cs, "null")
  BY <1>3, AddingRequired DEF If
<1>5. Quietly(d, WithCells(d, t, cs, "null"), Plus(ShapeAt(16, kept), t, cs))
  BY <1>2, AndWrites DEF MayAdd, TableNames
<1> QED
  BY <1>1, <1>2, <1>4, <1>5

LEMMA Up19 ==
  QuietUp(19)
<1> SUFFICES ASSUME NEW d, Sound(d, 18), NEW kept \in Keepable(18), Quietly(d, d, ShapeAt(18, kept))
             PROVE  Quietly(d, Run(d, Directory[19].up), ShapeAt(19, kept))
  BY MakesQuietUp
<1> DEFINE t == "moderation_type"
           e1 == GoOn(d, Alter("moderations", {"type"}))
           e2 == WithoutTable(e1, t)
<1>1. /\ {"type"} \subseteq ShapeAt(18, kept)["moderations"]
      /\ ShapeAt(18, kept)[t] = {"organization_join_block"}
      /\ Minus(ShapeAt(18, kept), t, ShapeAt(18, kept)[t]) = ShapeAt(19, kept)
  BY DEF Minus, ShapeAt, ColumnsAt, Devise, Keepable, When, TableNames
<1> HIDE DEF e1, e2
<1>2. Quietly(d, e1, ShapeAt(18, kept))
  BY <1>1, AndAlters DEF TableNames, e1
<1>3. /\ IsDatabase(e1) /\ e1.ok /\ ColumnsOf(e1, t) # {} /\ Shape(e1) = ShapeAt(18, kept)
      /\ ColumnsOf(e1, t) = ShapeAt(18, kept)[t]
  BY <1>1, <1>2, QuietlySeen DEF TableNames
<1>4. Run(d, Directory[19].up) = e2
  <2>1. Run(d, Directory[19].up) = GoOn(e1, DropTable(t))
    BY RunTwo DEF Directory, add_new_moderation_type, e1
  <2> QED
    BY <1>3, <2>1, DroppingTable DEF If, e2
<1>5. LostTable(e1, e2, t)
  BY <1>3, TableLost DEF TableNames, e2
<1>6. /\ IsDatabase(e2) /\ e2.ok /\ e2.rows = e1.rows /\ e2.domains = e1.domains
      /\ e2.connections = e1.connections /\ e2.email = e1.email
      /\ \A u \in TableNames : u # t => e2.cell[u] = e1.cell[u]
      /\ ColumnsOf(e2, t) = {}
  <2>1. IsDatabase(e2) /\ e2.ok
    BY <1>3, <1>5 DEF LostTable
  <2>2. e2.rows = e1.rows
    <3>1. t \notin e1.rows
      BY <1>2, SameRows DEF Sound, Firm, Populated
    <3> QED
      BY <1>5, <3>1 DEF LostTable
  <2>3. e2.domains = e1.domains
    <3>1. /\ e2.domains \in [Lists \cup Types -> [Domains -> Nat]]
          /\ e1.domains \in [Lists \cup Types -> [Domains -> Nat]]
      BY <1>3, <2>1 DEF IsDatabase
    <3>2. \A l \in Lists \cup Types : e2.domains[l] = e1.domains[l]
      BY <1>5 DEF LostTable
    <3> QED
      BY <3>1, <3>2
  <2> QED
    BY <1>5, <2>1, <2>2, <2>3 DEF LostTable
<1>7. \A u \in TableNames : ColumnsOf(e2, u) = ColumnsOf(e1, u) \ When(u = t, ColumnsOf(e1, t))
  BY <1>6 DEF ColumnsOf, When
<1>8. Shape(e2) = ShapeAt(19, kept)
  <2> DEFINE S == ShapeAt(18, kept)
  <2>1. \A u \in TableNames : S[u] = ColumnsOf(e1, u)
    BY <1>3, NamesOfColumns
  <2> HIDE DEF S
  <2>2. \A u \in TableNames : ColumnsOf(e2, u) = S[u] \ When(u = t, S[t])
    BY <1>7, <2>1 DEF TableNames
  <2>3. Shape(e2) = Minus(S, t, S[t])
    BY <2>2 DEF Shape, Minus
  <2> QED
    BY <1>1, <2>3 DEF S
<1>9. Alike(e1, e2)
  <2>1. Kinds(e2) = Kinds(e1)
    BY <1>7 DEF Kinds, When, TableNames
  <2>2. Has(e2, "users_oidc_clients", "connection_count")
          <=> Has(e1, "users_oidc_clients", "connection_count")
    BY <1>7 DEF Has, When, TableNames
  <2>3. \A u \in TableNames : \A k \in Telling(u) : Seen(e2, u, k) = Seen(e1, u, k)
    <3>1. Telling(t) = {}
      BY DEF Telling
    <3> QED
      BY <1>6, <3>1 DEF Seen, Has, ColumnsOf
  <2> QED
    BY <1>6, <2>1, <2>2, <2>3 DEF Alike
<1>10. NeverNull(e1) => NeverNull(e2)
  <2>1. NonNull(t) = {}
    BY DEF NonNull
  <2> QED
    BY <1>6, <2>1 DEF NeverNull, Has, ColumnsOf
<1>11. Quietly(e1, e2, ShapeAt(19, kept))
  BY <1>6, <1>8, <1>9, <1>10 DEF Quietly
<1> QED
  BY <1>2, <1>4, <1>11, QuietlyOnAndOn

LEMMA Up38 ==
  QuietUp(38)
<1> SUFFICES ASSUME NEW d, Sound(d, 37), ~Hindered(d, 38), NEW kept \in Keepable(37),
                    Quietly(d, d, ShapeAt(37, kept))
             PROVE  Quietly(d, Run(d, Directory[38].up), ShapeAt(38, kept))
  BY MakesQuietUp
<1> DEFINE t == "users_organizations"
           cs == {"has_been_greeted"}
           gone == {"has_been_greeted_for_first_organization_join"}
           S0 == ShapeAt(37, kept)
           S1 == Minus(S0, "users", gone)
           S2 == Plus(S1, t, cs)
           e1 == GoOn(d, Drop("users", gone))
           e2 == GoOn(e1, AddWith(t, cs, "null"))
           e3 == GoOn(e2, Update(t, "has_been_greeted", "true", "has_been_greeted", {"null"}))
<1>1. Run(d, Directory[38].up) = e3
  BY RunThree DEF Directory, improve_organisation_greeting, Add
<1>2. "has_been_greeted" \notin S0[t]
  BY QuietlySeen DEF Hindered, Has, TableNames
<1>3. /\ MayDrop(S0, "users", gone)
      /\ MayAdd(S1, t, cs, "null")
      /\ MaySet(S2, t, "has_been_greeted", "true") /\ "has_been_greeted" \in S2[t]
      /\ S2 = ShapeAt(38, kept)
  BY <1>2 DEF MayDrop, MayLose, Minus, MayAdd, MayWrite, Plus, MaySet, ShapeAt, ColumnsAt, Devise,
    Keepable, When, TableNames, Telling, NonNull, Lists, Types
<1> HIDE DEF S0, S1, S2, e1, e2, e3
<1>4. Quietly(d, e1, S1)
  BY <1>3, AndDrops DEF TableNames, e1, S1, S0
<1>5. Quietly(d, e2, S2)
  BY <1>3, <1>4, AndAdds DEF TableNames, e2, S2
<1>6. Quietly(d, e3, S2)
  BY <1>3, <1>5, AndUpdates DEF TableNames, e3
<1> QED
  BY <1>1, <1>3, <1>6

LEMMA Down38 ==
  QuietDown(38)
<1> SUFFICES ASSUME NEW d, Sound(d, 38)
             PROVE  \E kept \in Keepable(37) : Quietly(d, Run(d, Directory[38].down), ShapeAt(37, kept))
  BY DEF QuietDown
<1> DEFINE cs == {"has_been_greeted_for_first_organization_join"}
<1>1. PICK kept \in Keepable(38) : Quietly(d, d, ShapeAt(38, kept))
  BY SoundShape
<1>2. Run(d, Directory[38].down) = GoOn(d, AddWith("users", cs, "null"))
  BY RunOne DEF Directory, improve_organisation_greeting, Add
<1>3. /\ MayAdd(ShapeAt(38, kept), "users", cs, "null")
      /\ Plus(ShapeAt(38, kept), "users", cs) = ShapeAt(37, {"has_been_greeted"})
  <2>1. kept \subseteq {"has_been_greeted"}
    BY <1>1, KeptStill
  <2> QED
    BY <2>1 DEF MayAdd, MayWrite, Plus, ShapeAt, ColumnsAt, Devise, When, TableNames, Telling,
       NonNull
<1>4. {"has_been_greeted"} \in Keepable(37)
  BY DEF Keepable, When
<1>5. Quietly(d, GoOn(d, AddWith("users", cs, "null")), Plus(ShapeAt(38, kept), "users", cs))
  BY <1>1, <1>3, AndAdds DEF TableNames
<1> QED
  BY <1>2, <1>3, <1>4, <1>5

LEMMA Up42 ==
  QuietUp(42)
<1> SUFFICES ASSUME NEW d, Sound(d, 41), NEW kept \in Keepable(41), Quietly(d, d, ShapeAt(41, kept))
             PROVE  Quietly(d, Run(d, Directory[42].up), ShapeAt(42, kept))
  BY MakesQuietUp
<1> DEFINE t == "users_organizations"
           c == "has_been_greeted"
           cs1 == {"redirect_uris", "post_logout_redirect_uris", "scope"}
           cs2 == {"authorized_email_domains", "verified_email_domains",
                   "external_authorized_email_domains"}
           cs6 == {"is_external", "has_been_greeted"}
           vs == {"null"}
           S == ShapeAt(41, kept)
           e1 == GoOn(d, Require("oidc_clients", cs1))
           e2 == GoOn(e1, Require("organizations", cs2))
           e3 == GoOn(e2, Require("users", {"legacy_user"}))
           e4 == GoOn(e3, Update(t, c, "false", c, vs))
           e5 == GoOn(e4, SetDefault(t, c, "false"))
           e6 == GoOn(e5, Require(t, cs6))
           e7 == GoOn(e6, Require("moderations", {"type"}))
<1>1. Run(d, Directory[42].up) = e7
  BY RunSeven DEF Directory, update_default_values
<1>2. /\ cs1 \subseteq S["oidc_clients"] /\ cs1 \subseteq NonNull("oidc_clients")
      /\ cs2 \subseteq S["organizations"] /\ cs2 \subseteq NonNull("organizations")
      /\ {"legacy_user"} \subseteq S["users"] /\ {"legacy_user"} \subseteq NonNull("users")
      /\ MaySet(S, t, c, "false") /\ c \in S[t]
      /\ cs6 \subseteq S[t]
      /\ {"type"} \subseteq S["moderations"]
      /\ S = ShapeAt(42, kept)
      /\ {t, "users", "organizations", "oidc_clients", "moderations"} \subseteq TableNames
  BY DEF MaySet, MayWrite, ShapeAt, ColumnsAt, Devise, Keepable, When, TableNames, Telling, NonNull
<1>3. NeverNull(d)
  BY DEF Sound, Firm
<1>4. Quietly(d, d, S)
  OBVIOUS
<1>5. cs6 = {"is_external", c} /\ NonNull(t) = {"is_external"}
  BY DEF NonNull
<1>6. Telling("moderations") = {"type", "ticket_id"}
  BY DEF Telling
<1> HIDE DEF t, c, cs1, cs2, cs6, vs, S, e1, e2, e3, e4, e5, e6, e7
<1>7. Quietly(d, e1, S)
  <2>1. Fills(d, "oidc_clients", cs1)
    BY <1>2, <1>3, <1>4, FillsNonNull
  <2> QED
    BY <1>2, <1>4, <2>1, AndRequires DEF e1
<1>8. Quietly(d, e2, S)
  <2>1. Fills(e1, "organizations", cs2)
    BY <1>2, <1>3, <1>7, FillsNonNull
  <2> QED
    BY <1>2, <1>7, <2>1, AndRequires DEF e2
<1>9. Quietly(d, e3, S)
  <2>1. Fills(e2, "users", {"legacy_user"})
    BY <1>2, <1>3, <1>8, FillsNonNull
  <2> QED
    BY <1>2, <1>8, <2>1, AndRequires DEF e3
<1>10. Quietly(d, e4, S)
  BY <1>2, <1>9, AndUpdates DEF e4
<1>11. Quietly(d, e5, S)
  BY <1>2, <1>10, AndDefaults DEF e5
<1>12. ASSUME t \in e4.rows
       PROVE  e4.cell[t][c] # "null"
  <2>1. IsDatabase(e3) /\ e3.ok /\ c \in ColumnsOf(e3, t)
    BY <1>2, <1>9, QuietlySeen
  <2>2. t \in e3.rows
    BY <1>9, <1>10, <1>12, SameRows
  <2>3. /\ Matches(e3, t, c, vs) => e4 = WithCells(e3, t, {c}, "false")
        /\ ~Matches(e3, t, c, vs) => e4 = e3
    BY <2>1, Updating DEF e4
  <2>4. CASE Matches(e3, t, c, vs)
    <3>1. e4 = WithCells(e3, t, {c}, "false")
      BY <2>3, <2>4
    <3>2. Wrote(e3, e4, t, {c}, "false")
      BY <1>2, <2>1, <3>1, CellsWritten
    <3> QED
      BY <3>2 DEF Wrote
  <2>5. CASE ~Matches(e3, t, c, vs)
    <3>1. e4 = e3
      BY <2>3, <2>5
    <3> QED
      BY <2>2, <2>5, <3>1 DEF vs, Matches
  <2> QED
    BY <2>4, <2>5
<1>13. Quietly(d, e6, S)
  <2>1. ASSUME t \in e5.rows
        PROVE  \A k \in cs6 : e5.cell[t][k] # "null"
    <3>1. t \in e4.rows
      BY <1>10, <1>11, <2>1, SameRows
    <3>2. e4.ok /\ c \in ColumnsOf(e4, t)
      BY <1>2, <1>10, QuietlySeen
    <3>3. e5 = e4
      BY <3>1, <3>2, SettingDefault DEF If, e5
    <3>4. e5.cell[t]["is_external"] # "null"
      <4>1. NeverNull(e5) /\ ColumnsOf(e5, t) = S[t]
        BY <1>2, <1>3, <1>11, QuietlySeen DEF Quietly
      <4> QED
        BY <1>2, <1>5, <4>1 DEF NeverNull, Has
    <3> QED
      BY <1>5, <1>12, <3>1, <3>3, <3>4
  <2>2. Fills(e5, t, cs6)
    BY <2>1 DEF Fills
  <2> QED
    BY <1>2, <1>11, <2>2, AndRequires DEF e6
<1>14. Quietly(d, e7, S)
  <2>1. ASSUME "moderations" \in e6.rows
        PROVE  e6.cell["moderations"]["type"] # "null"
    <3>1. "moderations" \in d.rows
      BY <1>13, <2>1, SameRows
    <3>2. Seen(e6, "moderations", "type") = Seen(d, "moderations", "type")
      BY <1>2, <1>6, <1>13 DEF Quietly, Alike
    <3>3. ColumnsOf(e6, "moderations") = S["moderations"]
      BY <1>2, <1>13, QuietlySeen
    <3>4. Seen(d, "moderations", "type") # "null"
      BY <3>1 DEF Sound, Firm, TypeThere
    <3> QED
      BY <1>2, <3>2, <3>3, <3>4 DEF Seen, Has
  <2>2. Fills(e6, "moderations", {"type"})
    BY <2>1 DEF Fills
  <2> QED
    BY <1>2, <1>13, <2>2, AndRequires DEF e7
<1> QED
  BY <1>1, <1>2, <1>14

LEMMA Up50 ==
  QuietUp(50)
<1> SUFFICES ASSUME NEW d, Sound(d, 49), NEW kept \in Keepable(49), Quietly(d, d, ShapeAt(49, kept))
             PROVE  Quietly(d, Run(d, Directory[50].up), ShapeAt(50, kept))
  BY MakesQuietUp
<1> DEFINE t == "organizations"
           cs == {"trackdechets_email_domains"}
           S1 == Plus(ShapeAt(49, kept), t, cs)
           e1 == GoOn(d, AddWith(t, cs, "empty"))
           e2 == GoOn(e1, Require(t, cs))
<1>1. Run(d, Directory[50].up) = e2
  BY RunTwo DEF Directory, add_trackdechets
<1>2. /\ MayAdd(ShapeAt(49, kept), t, cs, "empty")
      /\ cs \subseteq S1[t]
      /\ S1 = ShapeAt(50, kept)
      /\ t \in TableNames
  BY DEF MayAdd, MayWrite, Plus, ShapeAt, ColumnsAt, Devise, Keepable, When, TableNames, Telling,
     NonNull
<1>3. IsDatabase(d) /\ d.ok /\ cs \cap ColumnsOf(d, t) = {}
  BY <1>2, QuietlySeen DEF MayAdd
<1> HIDE DEF t, cs, S1, e1, e2
<1>4. Quietly(d, e1, S1)
  BY <1>2, AndAdds DEF e1, S1
<1>5. e1 = WithCells(d, t, cs, "empty")
  BY <1>3, Adding DEF If, e1
<1>6. Wrote(d, e1, t, cs, "empty")
  BY <1>2, <1>3, <1>5, CellsWritten
<1>7. Fills(e1, t, cs)
  BY <1>6 DEF Fills, Wrote
<1>8. Quietly(d, e2, S1)
  BY <1>2, <1>4, <1>7, AndRequires DEF e2
<1> QED
  BY <1>1, <1>2, <1>8

LEMMA Up59 ==
  QuietUp(59)
<1> SUFFICES ASSUME NEW d, Sound(d, 58), ~Hindered(d, 59), NEW kept \in Keepable(58),
                    Quietly(d, d, ShapeAt(58, kept))
             PROVE  Quietly(d, Run(d, Directory[59].up), ShapeAt(59, kept))
  BY MakesQuietUp
<1>1. Run(d, Directory[59].up) = GoOn(d, Unique("nulls distinct"))
  BY RunOne DEF Directory, forbid_multiple_email_domains_type_by_organization
<1>2. ShapeAt(58, kept) = ShapeAt(59, kept)
  BY DEF ShapeAt, ColumnsAt, Devise, Keepable, When, TableNames
<1>3. IsUnique(d.domains, "nulls distinct")
  <2>1. d.domains \in [Lists \cup Types -> [Domains -> Nat]]
    BY DEF Sound, Firm, IsDatabase
  <2>2. Constrained("nulls distinct") = Types \ {"none"}
    BY DEF Constrained
  <2>3. \A x \in Domains, type \in Types \ {"none"} : d.domains[type][x] <= 1
    BY <2>1 DEF Hindered
  <2> QED
    BY <2>2, <2>3 DEF IsUnique
<1>4. Quietly(d, GoOn(d, Unique("nulls distinct")), ShapeAt(58, kept))
  BY <1>3, AndConstrains
<1> QED
  BY <1>1, <1>2, <1>4

LEMMA Down59 ==
  QuietDown(59)
<1> SUFFICES ASSUME NEW d, NEW kept \in Keepable(59), Quietly(d, d, ShapeAt(59, kept))
             PROVE  Quietly(d, Run(d, Directory[59].down), ShapeAt(58, kept))
  BY MakesQuietDown
<1>1. Run(d, Directory[59].down) = GoOn(d, Unique("no"))
  BY RunOne DEF Directory, forbid_multiple_email_domains_type_by_organization
<1>2. ShapeAt(59, kept) = ShapeAt(58, kept)
  BY DEF ShapeAt, ColumnsAt, Devise, Keepable, When, TableNames
<1>3. IsUnique(d.domains, "no")
  BY DEF IsUnique, Constrained
<1>4. Quietly(d, GoOn(d, Unique("no")), ShapeAt(59, kept))
  BY <1>3, AndConstrains
<1> QED
  BY <1>1, <1>2, <1>4

LEMMA Down66 ==
  QuietDown(66)
<1> SUFFICES ASSUME NEW d, NEW kept \in Keepable(66), Quietly(d, d, ShapeAt(66, kept)),
                    Run(d, Directory[66].down).ok
             PROVE  Quietly(d, Run(d, Directory[66].down), ShapeAt(65, kept))
  BY MakesQuietDown
<1> DEFINE e1 == GoOn(d, Unique("no"))
           e2 == GoOn(e1, Unique("nulls distinct"))
<1>1. Run(d, Directory[66].down) = e2
  <2> DEFINE s1 == Unique("no")
             s2 == Unique("nulls distinct")
  <2>1. Directory[66].down = <<s1, s2>>
    BY DEF Directory, add_null_not_distinct_to_email_domains
  <2> HIDE DEF s1, s2
  <2>2. Run(d, Directory[66].down) = GoOn(GoOn(d, s1), s2)
    BY <2>1, RunTwo
  <2> QED
    BY <2>2 DEF s1, s2
<1>2. ShapeAt(66, kept) = ShapeAt(65, kept)
  BY DEF ShapeAt, ColumnsAt, Devise, Keepable, When, TableNames
<1>3. IsUnique(d.domains, "no")
  BY DEF IsUnique, Constrained
<1>4. Quietly(d, e1, ShapeAt(66, kept))
  BY <1>3, AndConstrains
<1> HIDE DEF e1
<1>5. Quietly(d, e2, ShapeAt(66, kept))
  BY <1>1, <1>4, AndConstrainsWhenOk
<1> QED
  BY <1>1, <1>2, <1>5

LEMMA Down22 ==
  QuietDown(22)
<1> SUFFICES ASSUME NEW d, NEW kept \in Keepable(22), Quietly(d, d, ShapeAt(22, kept)),
                    Run(d, Directory[22].down).ok
             PROVE  Quietly(d, Run(d, Directory[22].down), ShapeAt(21, kept))
  BY MakesQuietDown
<1> DEFINE cs == {"magic_link_token", "magic_link_sent_at"}
           S1 == Minus(ShapeAt(22, kept), "users", cs)
           e1 == GoOn(d, Drop("users", cs))
           e2 == GoOn(e1, Require("users", {"encrypted_password"}))
<1>1. Run(d, Directory[22].down) = e2
  BY RunTwo DEF Directory, add_magic_link_to_user
<1>2. /\ MayDrop(ShapeAt(22, kept), "users", cs)
      /\ {"encrypted_password"} \subseteq S1["users"]
      /\ S1 = ShapeAt(21, kept)
  BY DEF MayDrop, MayLose, Minus, ShapeAt, ColumnsAt, Devise, Keepable, When, TableNames, Telling,
    Lists, Types
<1> HIDE DEF cs, S1, e1
<1>3. Quietly(d, e1, S1)
  BY <1>2, AndDrops DEF TableNames, e1, S1
<1>4. Quietly(d, e2, S1)
  BY <1>1, <1>2, <1>3, AndRequiresWhenOk DEF TableNames
<1> QED
  BY <1>1, <1>2, <1>4

(***************************************************************************)
(* How many copies there are.                                              *)
(***************************************************************************)

LEMMA TotalCounts ==
  ASSUME NEW ys, IsFiniteSet(ys), NEW copies, \A y \in ys : copies[y] \in Nat
  PROVE  /\ Total(copies, ys) \in Nat
         /\ Total(copies, ys) > 0 <=> \E y \in ys : copies[y] > 0
<1> DEFINE f == [y \in ys |-> {y} \X (1..copies[y])]
           T == {{y} \X (1..copies[y]) : y \in ys}
<1>1. f \in Surjection(ys, T)
  BY DEF Surjection
<1>2. IsFiniteSet(T)
  BY <1>1, FS_Surjection
<1>3. ASSUME NEW S \in T
      PROVE  IsFiniteSet(S)
  <2>1. PICK y \in ys : S = {y} \X (1..copies[y])
    BY <1>3
  <2>2. copies[y] \in Int
    OBVIOUS
  <2>3. IsFiniteSet(1..copies[y])
    BY <2>2, FS_Interval
  <2>4. IsFiniteSet({y})
    BY FS_Singleton
  <2> QED
    BY <2>1, <2>3, <2>4, FS_Product
<1>4. IsFiniteSet(UNION T)
  BY <1>2, <1>3, FS_UNION
<1>5. Total(copies, ys) = Cardinality(UNION T)
  BY DEF Total
<1>6. UNION T # {} <=> \E y \in ys : copies[y] > 0
  <2>1. ASSUME UNION T # {}
        PROVE  \E y \in ys : copies[y] > 0
    <3>1. PICK y \in ys : {y} \X (1..copies[y]) # {}
      BY <2>1
    <3> QED
      BY <3>1
  <2>2. ASSUME NEW y \in ys, copies[y] > 0
        PROVE  UNION T # {}
    <3>1. 1 \in 1..copies[y]
      BY <2>2
    <3>2. <<y, 1>> \in {y} \X (1..copies[y])
      BY <3>1
    <3> QED
      BY <3>2
  <2> QED
    BY <2>1, <2>2
<1> HIDE DEF T
<1>7. Cardinality(UNION T) \in Nat /\ (Cardinality(UNION T) = 0 <=> UNION T = {})
  BY <1>4, FS_CardinalityType, FS_EmptySet
<1> QED
  BY <1>5, <1>6, <1>7

LEMMA TotalOfOne ==
  ASSUME NEW copies, NEW y, copies[y] \in Nat
  PROVE  Total(copies, {y}) = copies[y]
<1>1. UNION {{z} \X (1..copies[z]) : z \in {y}} = {y} \X (1..copies[y])
  OBVIOUS
<1>2. IsFiniteSet({y}) /\ Cardinality({y}) = 1
  BY FS_Singleton
<1>3. IsFiniteSet(1..copies[y]) /\ Cardinality(1..copies[y]) = copies[y]
  BY FS_Interval
<1> DEFINE A == {y}
           B == 1..copies[y]
<1> HIDE DEF A, B
<1>4. Cardinality(A \X B) = Cardinality(A) * Cardinality(B)
  BY <1>2, <1>3, FS_Product DEF A, B
<1>5. Cardinality(A \X B) = copies[y]
  <2>1. Cardinality(A) = 1 /\ Cardinality(B) = copies[y]
    BY <1>2, <1>3 DEF A, B
  <2> QED
    BY <1>4, <2>1
<1> QED
  BY <1>1, <1>5 DEF A, B, Total

LEMMA TotalOfNone ==
  ASSUME NEW copies
  PROVE  Total(copies, {}) = 0
<1>1. UNION {{z} \X (1..copies[z]) : z \in {}} = {}
  OBVIOUS
<1> QED
  BY <1>1, FS_EmptySet DEF Total

(***************************************************************************)
(* What the upgrades keep, and that they keep it one after the other.      *)
(***************************************************************************)
KeepsDomains(d, e) ==
  LET before == Verified(d)
      after == Verified(e)
  IN  /\ NotFree(Proven(before)) = NotFree(Proven(after))
      /\ Proven(after) \subseteq Proven(before)
      /\ DomainsOf(NotFree(before)) \subseteq DomainsOf(after)

KeepsAccounts(d, e) ==
  /\ IsForced(e) => HasFactor(e)
  /\ Connections(e) = Connections(d)
  /\ (ValueOf(d, "users_organizations", "verification_type") = "null")
       <=> (ValueOf(e, "users_organizations", "verification_type") = "null")
  /\ ValueOf(e, "moderations", "ticket_id") = ValueOf(d, "moderations", "ticket_id")

Keeps(d, e) == KeepsDomains(d, e) /\ KeepsAccounts(d, e)

LEMMA KeepsOnAndOn ==
  ASSUME NEW d, NEW e, NEW f, Keeps(d, e), Keeps(e, f)
  PROVE  Keeps(d, f)
<1>1. KeepsAccounts(d, f)
  BY DEF Keeps, KeepsAccounts
<1>2. KeepsDomains(d, f)
  <2>1. /\ NotFree(Proven(Verified(d))) = NotFree(Proven(Verified(f)))
        /\ Proven(Verified(f)) \subseteq Proven(Verified(d))
    BY DEF Keeps, KeepsDomains
  <2>2. /\ DomainsOf(NotFree(Verified(d))) \subseteq DomainsOf(Verified(e))
        /\ DomainsOf(NotFree(Verified(e))) \subseteq DomainsOf(Verified(f))
    BY DEF Keeps, KeepsDomains
  <2>3. \A vs : DomainsOf(NotFree(vs)) = {x \in DomainsOf(vs) : x \notin Free}
    BY DEF DomainsOf, NotFree
  <2>4. DomainsOf(NotFree(Verified(d))) \subseteq DomainsOf(Verified(f))
    BY <2>2, <2>3
  <2> QED
    BY <2>1, <2>4 DEF KeepsDomains
<1> QED
  BY <1>1, <1>2 DEF Keeps

\* The copies g tell that the domain y is verified in the way m.
Read == (Lists \cup Types) \ {"external_verified_email_domains"}
Tells(g, y, m) == \E x \in Domains, k \in Read : Lower[x] = y /\ Meaning(k) = m /\ g[k][x] > 0

LEMMA VerifiedTells ==
  ASSUME NEW d, IsDatabase(d), NoneElsewhere(d)
  PROVE  \A v : v \in Verified(d) <=> \E y, m : v = <<y, m>> /\ Tells(d.domains, y, m)
<1>1. \A l \in (Lists \cup Types) \ Kinds(d) : \A x \in Domains : ~(d.domains[l][x] > 0)
  BY DEF NoneElsewhere
<1>2. Kinds(d) \subseteq Lists \cup Types
  BY DEF Kinds
<1>3. ASSUME NEW v \in Verified(d)
      PROVE  \E y, m : v = <<y, m>> /\ Tells(d.domains, y, m)
  <2>1. PICK xk \in Domains \X (Kinds(d) \ {"external_verified_email_domains"}) :
               d.domains[xk[2]][xk[1]] > 0 /\ v = <<Lower[xk[1]], Meaning(xk[2])>>
    BY <1>3 DEF Verified
  <2> QED
    BY <1>2, <2>1 DEF Tells, Read
<1>4. ASSUME NEW y, NEW m, Tells(d.domains, y, m)
      PROVE  <<y, m>> \in Verified(d)
  <2>1. PICK x \in Domains, k \in Read : Lower[x] = y /\ Meaning(k) = m /\ d.domains[k][x] > 0
    BY <1>4 DEF Tells
  <2>2. <<x, k>> \in Domains \X (Kinds(d) \ {"external_verified_email_domains"})
    BY <1>1, <2>1 DEF Read
  <2> QED
    BY <2>1, <2>2 DEF Verified
<1> QED
  BY <1>3, <1>4

\* What the domains must be for the upgrade to keep them.
KeepsCopies(g, h) ==
  /\ \A y, m : y \notin Free /\ m # "none" /\ Tells(g, y, m) => Tells(h, y, m)
  /\ \A y, m : m # "none" /\ Tells(h, y, m) => Tells(g, y, m)
  /\ \A y, m : y \notin Free /\ Tells(g, y, m) => \E o : Tells(h, y, o)

LEMMA CopiesKept ==
  ASSUME NEW d, IsDatabase(d), NoneElsewhere(d), NEW e, IsDatabase(e), NoneElsewhere(e),
         KeepsCopies(d.domains, e.domains)
  PROVE  KeepsDomains(d, e)
<1> DEFINE P(y, m) == Tells(d.domains, y, m)
           Q(y, m) == Tells(e.domains, y, m)
<1>1. /\ \A v : v \in Verified(d) <=> \E y, m : v = <<y, m>> /\ P(y, m)
      /\ \A v : v \in Verified(e) <=> \E y, m : v = <<y, m>> /\ Q(y, m)
  BY VerifiedTells
<1>2. /\ \A y, m : y \notin Free /\ m # "none" /\ P(y, m) => Q(y, m)
      /\ \A y, m : m # "none" /\ Q(y, m) => P(y, m)
      /\ \A y, m : y \notin Free /\ P(y, m) => \E o : Q(y, o)
  BY DEF KeepsCopies
<1> HIDE DEF P, Q
<1>3. NotFree(Proven(Verified(d))) = NotFree(Proven(Verified(e)))
  BY <1>1, <1>2 DEF NotFree, Proven
<1>4. Proven(Verified(e)) \subseteq Proven(Verified(d))
  BY <1>1, <1>2 DEF Proven
<1>5. DomainsOf(NotFree(Verified(d))) \subseteq DomainsOf(Verified(e))
  <2>1. ASSUME NEW x \in DomainsOf(NotFree(Verified(d)))
        PROVE  x \in DomainsOf(Verified(e))
    <3>1. PICK m : x \notin Free /\ P(x, m)
      BY <1>1, <2>1 DEF DomainsOf, NotFree
    <3>2. PICK o : Q(x, o)
      BY <1>2, <3>1
    <3>3. <<x, o>> \in Verified(e) /\ <<x, o>>[1] = x
      BY <1>1, <3>2
    <3> QED
      BY <3>3 DEF DomainsOf
  <2> QED
    BY <2>1
<1> QED
  BY <1>3, <1>4, <1>5 DEF KeepsDomains

LEMMA SameCopiesKept ==
  ASSUME NEW g, NEW h, \A k \in Read : \A x \in Domains : h[k][x] > 0 <=> g[k][x] > 0
  PROVE  KeepsCopies(g, h)
<1>1. \A y, m : Tells(h, y, m) <=> Tells(g, y, m)
  BY DEF Tells
<1> QED
  BY <1>1 DEF KeepsCopies

\* What the accounts are told by.
LEMMA AccountsKept ==
  ASSUME NEW d, NEW e, Factors(e), e.rows = d.rows, e.connections = d.connections,
         Has(e, "users_oidc_clients", "connection_count")
           <=> Has(d, "users_oidc_clients", "connection_count"),
         Seen(e, "users_organizations", "verification_type")
           = Seen(d, "users_organizations", "verification_type"),
         Seen(e, "moderations", "ticket_id") = Seen(d, "moderations", "ticket_id")
  PROVE  KeepsAccounts(d, e)
<1>1. IsForced(e) => HasFactor(e)
  BY DEF Factors
<1>2. Connections(e) = Connections(d)
  BY DEF Connections
<1>3. \A f, t, c : ValueOf(f, t, c) = IF t \in f.rows THEN Seen(f, t, c) ELSE "null"
  BY DEF ValueOf, Seen
<1>4. /\ ValueOf(e, "users_organizations", "verification_type")
           = ValueOf(d, "users_organizations", "verification_type")
      /\ ValueOf(e, "moderations", "ticket_id") = ValueOf(d, "moderations", "ticket_id")
  BY <1>3
<1> QED
  BY <1>1, <1>2, <1>4 DEF KeepsAccounts

LEMMA QuietlyKeeps ==
  ASSUME NEW n, NEW d, NEW e, NEW S, Firm(d, n), Quietly(d, e, S)
  PROVE  Keeps(d, e)
<1>1. Firm(e, n)
  BY QuietlyFirm
<1>2. KeepsDomains(d, e)
  <2>1. e.domains = d.domains
    BY DEF Quietly, Alike
  <2>2. KeepsCopies(d.domains, e.domains)
    BY <2>1, SameCopiesKept
  <2> QED
    BY <1>1, <2>2, CopiesKept DEF Firm
<1>3. KeepsAccounts(d, e)
  <2>1. Factors(e)
    BY <1>1 DEF Firm
  <2>2. /\ Seen(e, "users_organizations", "verification_type")
             = Seen(d, "users_organizations", "verification_type")
        /\ Seen(e, "moderations", "ticket_id") = Seen(d, "moderations", "ticket_id")
    BY DEF Quietly, Alike, Telling, TableNames
  <2>3. /\ e.rows = d.rows /\ e.connections = d.connections
        /\ Has(e, "users_oidc_clients", "connection_count")
             <=> Has(d, "users_oidc_clients", "connection_count")
    BY DEF Quietly, Alike
  <2> QED
    BY <2>1, <2>2, <2>3, AccountsKept
<1> QED
  BY <1>2, <1>3 DEF Keeps

\* e is d but for the domains and what is required.
Rewrote(d, e) ==
  /\ IsDatabase(e)
  /\ e.ok <=> d.ok
  /\ e.cell = d.cell
  /\ e.rows = d.rows
  /\ e.connections = d.connections

WithDomains(d, g) == [d EXCEPT !.domains = g]

LEMMA DomainsRewritten ==
  ASSUME NEW d, IsDatabase(d), NEW g \in [Lists \cup Types -> [Domains -> Nat]]
  PROVE  Rewrote(d, WithDomains(d, g)) /\ WithDomains(d, g).domains = g
<1> DEFINE e == WithDomains(d, g)
<1>1. /\ (e.ok <=> d.ok) /\ e.cell = d.cell /\ e.rows = d.rows /\ e.connections = d.connections
      /\ e.domains = g /\ e.required = d.required /\ e.unique = d.unique /\ e.email = d.email
  BY DEF IsDatabase, WithDomains
<1>2. IsDatabase(e)
  BY <1>1 DEF IsDatabase, WithDomains
<1> QED
  BY <1>1, <1>2 DEF Rewrote

LEMMA RewroteSame ==
  ASSUME NEW d, NEW e, Rewrote(d, e)
  PROVE  /\ Shape(e) = Shape(d) /\ Kinds(e) = Kinds(d)
         /\ \A t, c : Seen(e, t, c) = Seen(d, t, c)
         /\ \A t, c : Has(e, t, c) <=> Has(d, t, c)
BY DEF Rewrote, Shape, Kinds, Seen, Has, ColumnsOf

LEMMA RewroteFirm ==
  ASSUME NEW n, NEW d, NEW e, Firm(d, n), Rewrote(d, e), NoneElsewhere(e)
  PROVE  Firm(e, n)
<1>1. IsDatabase(e) /\ e.ok /\ e.rows = d.rows /\ e.connections = d.connections /\ e.cell = d.cell
  BY DEF Rewrote, Firm
<1>2. NeverNull(e)
  BY <1>1, RewroteSame DEF Firm, NeverNull
<1>3. Populated(e, n)
  BY <1>1 DEF Firm, Populated
<1>4. TypeThere(e) /\ Numbers(e, n)
  BY <1>1, RewroteSame DEF Firm, TypeThere, Numbers
<1>5. Factors(e)
  BY <1>1, RewroteSame, FactorsSeen DEF Firm, Factors
<1>6. Counts(e, n)
  BY <1>1 DEF Firm, Counts, Counted
<1> QED
  BY <1>1, <1>2, <1>3, <1>4, <1>5, <1>6 DEF Firm

LEMMA RewroteKeeps ==
  ASSUME NEW n, NEW d, NEW e, Firm(d, n), Rewrote(d, e), NoneElsewhere(e),
         KeepsCopies(d.domains, e.domains)
  PROVE  Firm(e, n) /\ Keeps(d, e)
<1>1. Firm(e, n)
  BY RewroteFirm
<1>2. KeepsDomains(d, e)
  BY <1>1, CopiesKept DEF Firm
<1>3. KeepsAccounts(d, e)
  <2>1. Factors(e)
    BY <1>1 DEF Firm
  <2>2. e.rows = d.rows /\ e.connections = d.connections
    BY DEF Rewrote
  <2> QED
    BY <2>1, <2>2, RewroteSame, AccountsKept
<1> QED
  BY <1>1, <1>2, <1>3 DEF Keeps

\* A table of lists of domains loses some.
LEMMA ListsLostFirm ==
  ASSUME NEW n, NEW d, NEW e, Firm(d, n), NEW cs, cs \subseteq Lists,
         Lost(d, e, "organizations", cs)
  PROVE  Firm(e, n)
<1> DEFINE t == "organizations"
<1>1. /\ IsDatabase(e) /\ e.ok /\ e.rows = d.rows /\ e.connections = d.connections
      /\ \A u \in TableNames : u # t => e.cell[u] = d.cell[u]
      /\ ColumnsOf(e, t) = ColumnsOf(d, t) \ cs
      /\ \A c \in ColumnsOf(e, t) : e.cell[t][c] = d.cell[t][c]
      /\ \A l \in Lists \cup Types :
           e.domains[l] = IF l \in cs THEN [x \in Domains |-> 0] ELSE d.domains[l]
  BY DEF Lost, Firm
<1>2. NeverNull(e)
  BY <1>1 DEF Firm, NeverNull, Has, ColumnsOf
<1>3. Populated(e, n)
  BY <1>1 DEF Firm, Populated
<1>4. \A c : Seen(e, "users", c) = Seen(d, "users", c) /\ Seen(e, "moderations", c) = Seen(d, "moderations", c)
  BY <1>1 DEF Seen, Has, ColumnsOf, TableNames
<1>5. TypeThere(e) /\ Numbers(e, n)
  BY <1>1, <1>4 DEF Firm, TypeThere, Numbers
<1>6. Factors(e)
  BY <1>1, <1>4, FactorsSeen DEF Firm, Factors
<1>7. Counts(e, n)
  BY <1>1 DEF Firm, Counts, Counted
<1>8. NoneElsewhere(e)
  <2>1. ColumnsOf(e, "email_domains") = ColumnsOf(d, "email_domains")
    BY <1>1 DEF ColumnsOf, TableNames
  <2>2. \A l \in (Lists \cup Types) \ Kinds(e) : l \in cs \/ l \notin Kinds(d)
    BY <1>1, <2>1 DEF Kinds
  <2> QED
    BY <1>1, <2>2 DEF Firm, NoneElsewhere
<1> QED
  BY <1>1, <1>2, <1>3, <1>5, <1>6, <1>7, <1>8 DEF Firm

LEMMA ListsLostKeeps ==
  ASSUME NEW n, NEW d, NEW e, Firm(d, n), NEW cs, cs \subseteq Lists,
         Lost(d, e, "organizations", cs),
         \A l \in cs \cap Read : \A x \in Domains : d.domains[l][x] = 0
  PROVE  Keeps(d, e)
<1>1. Firm(e, n)
  BY ListsLostFirm
<1>2. \A l \in Lists \cup Types :
        e.domains[l] = IF l \in cs THEN [x \in Domains |-> 0] ELSE d.domains[l]
  BY DEF Lost
<1>3. \A k \in Read : \A x \in Domains : e.domains[k][x] > 0 <=> d.domains[k][x] > 0
  <2>1. ASSUME NEW k \in Read, NEW x \in Domains
        PROVE  e.domains[k][x] = d.domains[k][x]
    BY <1>2, <2>1 DEF Read
  <2> QED
    BY <2>1
<1>4. KeepsDomains(d, e)
  <2>1. KeepsCopies(d.domains, e.domains)
    BY <1>3, SameCopiesKept
  <2> QED
    BY <1>1, <2>1, CopiesKept DEF Firm
<1>5. KeepsAccounts(d, e)
  <2>1. Factors(e)
    BY <1>1 DEF Firm
  <2>2. /\ e.rows = d.rows /\ e.connections = d.connections
        /\ \A u \in TableNames : u # "organizations" => e.cell[u] = d.cell[u]
    BY DEF Lost
  <2>3. /\ \A c : Seen(e, "users_organizations", c) = Seen(d, "users_organizations", c)
        /\ \A c : Seen(e, "moderations", c) = Seen(d, "moderations", c)
        /\ \A c : Has(e, "users_oidc_clients", c) <=> Has(d, "users_oidc_clients", c)
    BY <2>2 DEF Seen, Has, ColumnsOf, TableNames
  <2> QED
    BY <2>1, <2>2, <2>3, AccountsKept
<1> QED
  BY <1>4, <1>5 DEF Keeps

(***************************************************************************)
(* Columns and tables, once more.                                          *)
(***************************************************************************)

LEMMA ShapeWritten ==
  ASSUME NEW d, NEW e, NEW t \in TableNames, NEW cs, NEW v, Wrote(d, e, t, cs, v)
  PROVE  Shape(e) = Plus(Shape(d), t, cs)
<1>1. \A u \in TableNames : ColumnsOf(e, u) = ColumnsOf(d, u) \cup When(u = t, cs)
  BY DEF Wrote, ColumnsOf, When
<1> QED
  BY <1>1 DEF Shape, Plus

LEMMA ShapeLost ==
  ASSUME NEW d, NEW e, NEW t \in TableNames, NEW cs, Lost(d, e, t, cs)
  PROVE  Shape(e) = Minus(Shape(d), t, cs)
<1>1. \A u \in TableNames : ColumnsOf(e, u) = ColumnsOf(d, u) \ When(u = t, cs)
  BY DEF Lost, ColumnsOf, When
<1> QED
  BY <1>1 DEF Shape, Minus

LEMMA ShapeWithoutTable ==
  ASSUME NEW d, NEW e, NEW t \in TableNames, LostTable(d, e, t)
  PROVE  Shape(e) = [u \in TableNames |-> IF u = t THEN {} ELSE Shape(d)[u]]
<1>1. \A u \in TableNames : ColumnsOf(e, u) = IF u = t THEN {} ELSE ColumnsOf(d, u)
  BY DEF LostTable, ColumnsOf
<1>2. \A u \in TableNames : Shape(d)[u] = ColumnsOf(d, u)
  BY NamesOfColumns
<1> QED
  BY <1>1, <1>2 DEF Shape

(***************************************************************************)
(* What is seen after a column is written or lost, and what still holds.   *)
(***************************************************************************)

LEMMA WroteSeen ==
  ASSUME NEW d, NEW e, NEW t \in TableNames, NEW cs, NEW v, Wrote(d, e, t, cs, v)
  PROVE  \A u \in TableNames : \A c : Seen(e, u, c) = IF u = t /\ c \in cs THEN v ELSE Seen(d, u, c)
<1>1. /\ \A u \in TableNames : u # t => e.cell[u] = d.cell[u]
      /\ ColumnsOf(e, t) = ColumnsOf(d, t) \cup cs
      /\ \A c \in ColumnsOf(e, t) : e.cell[t][c] = IF c \in cs THEN v ELSE d.cell[t][c]
  BY DEF Wrote
<1>2. \A u \in TableNames : u # t => \A c : Seen(e, u, c) = Seen(d, u, c)
  BY <1>1 DEF Seen, Has, ColumnsOf
<1>3. \A c : Seen(e, t, c) = IF c \in cs THEN v ELSE Seen(d, t, c)
  BY <1>1 DEF Seen, Has
<1> QED
  BY <1>2, <1>3

LEMMA LostSeen ==
  ASSUME NEW d, NEW e, NEW t \in TableNames, NEW cs, Lost(d, e, t, cs)
  PROVE  \A u \in TableNames : \A c : Seen(e, u, c) = IF u = t /\ c \in cs THEN "null" ELSE Seen(d, u, c)
<1>1. /\ \A u \in TableNames : u # t => e.cell[u] = d.cell[u]
      /\ ColumnsOf(e, t) = ColumnsOf(d, t) \ cs
      /\ \A c \in ColumnsOf(e, t) : e.cell[t][c] = d.cell[t][c]
  BY DEF Lost
<1>2. \A u \in TableNames : u # t => \A c : Seen(e, u, c) = Seen(d, u, c)
  BY <1>1 DEF Seen, Has, ColumnsOf
<1>3. \A c : Seen(e, t, c) = IF c \in cs THEN "null" ELSE Seen(d, t, c)
  BY <1>1 DEF Seen, Has
<1> QED
  BY <1>2, <1>3

LEMMA WroteFirm ==
  ASSUME NEW n, NEW d, NEW e, Firm(d, n), NEW t \in TableNames, NEW cs, NEW v,
         Wrote(d, e, t, cs, v), v # "null" \/ cs \cap NonNull(t) = {},
         TypeThere(e), Numbers(e, n), Factors(e)
  PROVE  Firm(e, n)
<1>1. /\ IsDatabase(e) /\ e.ok /\ e.rows = d.rows /\ e.connections = d.connections
      /\ e.domains = d.domains
      /\ \A u \in TableNames : u # t => e.cell[u] = d.cell[u]
      /\ ColumnsOf(e, t) = ColumnsOf(d, t) \cup cs
      /\ \A c \in ColumnsOf(e, t) : e.cell[t][c] = IF c \in cs THEN v ELSE d.cell[t][c]
  BY DEF Wrote, Firm
<1>2. \A u \in TableNames : ColumnsOf(e, u) = ColumnsOf(d, u) \cup When(u = t, cs)
  BY <1>1 DEF ColumnsOf, When
<1>3. NeverNull(e)
  BY <1>1, <1>2 DEF Firm, NeverNull, Has, When
<1>4. Populated(e, n)
  BY <1>1 DEF Firm, Populated
<1>5. Counts(e, n)
  BY <1>1 DEF Firm, Counts, Counted
<1>6. NoneElsewhere(e)
  <2>1. Kinds(d) \subseteq Kinds(e)
    BY <1>2 DEF Kinds, TableNames
  <2> QED
    BY <1>1, <2>1 DEF Firm, NoneElsewhere
<1> QED
  BY <1>1, <1>3, <1>4, <1>5, <1>6 DEF Firm

LEMMA LostDomains ==
  ASSUME NEW d, IsDatabase(d), NEW e, NEW t, NEW cs, Lost(d, e, t, cs), t # "organizations"
  PROVE  e.domains = d.domains
<1>1. IsDatabase(e)
  BY DEF Lost
<1>2. /\ e.domains \in [Lists \cup Types -> [Domains -> Nat]]
      /\ d.domains \in [Lists \cup Types -> [Domains -> Nat]]
  BY <1>1 DEF IsDatabase
<1>3. \A l \in Lists \cup Types : e.domains[l] = d.domains[l]
  BY DEF Lost
<1> QED
  BY <1>2, <1>3

LEMMA LostFirm ==
  ASSUME NEW n, NEW d, NEW e, Firm(d, n), NEW t \in TableNames, NEW cs,
         Lost(d, e, t, cs), t \notin {"organizations", "email_domains"},
         TypeThere(e), Numbers(e, n), Factors(e)
  PROVE  Firm(e, n)
<1>1. /\ IsDatabase(e) /\ e.ok /\ e.rows = d.rows /\ e.connections = d.connections
      /\ \A u \in TableNames : u # t => e.cell[u] = d.cell[u]
      /\ ColumnsOf(e, t) = ColumnsOf(d, t) \ cs
      /\ \A c \in ColumnsOf(e, t) : e.cell[t][c] = d.cell[t][c]
  BY DEF Lost, Firm
<1>2. \A u \in TableNames : ColumnsOf(e, u) = ColumnsOf(d, u) \ When(u = t, cs)
  BY <1>1 DEF ColumnsOf, When
<1>3. NeverNull(e)
  BY <1>1, <1>2 DEF Firm, NeverNull, Has, When
<1>4. Populated(e, n)
  BY <1>1 DEF Firm, Populated
<1>5. Counts(e, n)
  BY <1>1 DEF Firm, Counts, Counted
<1>6. NoneElsewhere(e)
  <2>1. Kinds(d) = Kinds(e)
    BY <1>2 DEF Kinds, TableNames, When
  <2>2. e.domains = d.domains
    BY LostDomains DEF Firm
  <2> QED
    BY <2>1, <2>2 DEF Firm, NoneElsewhere
<1> QED
  BY <1>1, <1>3, <1>4, <1>5, <1>6 DEF Firm

\* Where the columns that are told are as they were.
LEMMA SeenSame ==
  ASSUME NEW n, NEW d, NEW e, Firm(d, n), e.rows = d.rows,
         \A u \in TableNames : \A c \in Telling(u) : Seen(e, u, c) = Seen(d, u, c)
  PROVE  TypeThere(e) /\ Numbers(e, n) /\ Factors(e)
<1>1. /\ \A c \in {"type", "ticket_id"} : Seen(e, "moderations", c) = Seen(d, "moderations", c)
      /\ \A c \in {"force_2fa", "encrypted_totp_key"} : Seen(e, "users", c) = Seen(d, "users", c)
  BY DEF Telling, TableNames
<1>2. TypeThere(e) /\ Numbers(e, n)
  BY <1>1 DEF Firm, TypeThere, Numbers
<1>3. Factors(e)
  BY <1>1, FactorsSeen DEF Firm, Factors
<1> QED
  BY <1>2, <1>3

LEMMA SameDomainsKept ==
  ASSUME NEW n, NEW d, NEW m, NEW e, Firm(d, n), Firm(e, m), e.domains = d.domains
  PROVE  KeepsDomains(d, e)
<1>1. KeepsCopies(d.domains, e.domains)
  BY SameCopiesKept
<1> QED
  BY <1>1, CopiesKept DEF Firm

LEMMA ValuesSeen ==
  ASSUME NEW d, NEW t, NEW c
  PROVE  ValueOf(d, t, c) = IF t \in d.rows THEN Seen(d, t, c) ELSE "null"
BY DEF ValueOf, Seen

(***************************************************************************)
(* What the migrations rewrite, the domains.                               *)
(***************************************************************************)

\* e is d but for domains that tell the same.
RewroteWell(d, e) ==
  Rewrote(d, e) /\ NoneElsewhere(e) /\ KeepsCopies(d.domains, e.domains)

LEMMA FirmDomains ==
  ASSUME NEW n, NEW d, Firm(d, n)
  PROVE  /\ IsDatabase(d) /\ NoneElsewhere(d)
         /\ d.domains \in [Lists \cup Types -> [Domains -> Nat]]
         /\ DOMAIN d.domains = Lists \cup Types
BY DEF Firm, IsDatabase

\* No kind of domain is told that was not.
LEMMA NoneElsewhereStill ==
  ASSUME NEW d, NEW e, NoneElsewhere(d), Rewrote(d, e), IsDatabase(d),
         \A l \in Lists \cup Types : \A x \in Domains : e.domains[l][x] > 0 => d.domains[l][x] > 0
  PROVE  NoneElsewhere(e)
<1>1. \A l \in Lists \cup Types : \A x \in Domains : e.domains[l][x] \in Nat
  <2>1. e.domains \in [Lists \cup Types -> [Domains -> Nat]]
    BY DEF Rewrote, IsDatabase
  <2> QED
    BY <2>1
<1>2. Kinds(e) = Kinds(d)
  BY RewroteSame
<1>3. \A l \in (Lists \cup Types) \ Kinds(d) : \A x \in Domains : ~(d.domains[l][x] > 0)
  BY DEF NoneElsewhere
<1>4. \A l \in (Lists \cup Types) \ Kinds(d) : \A x \in Domains : ~(e.domains[l][x] > 0)
  BY <1>3
<1> QED
  BY <1>1, <1>2, <1>4 DEF NoneElsewhere

\* The domains of a kind in "changed" are rewritten, nothing else.
LEMMA MemberDomainsAuthorized ==
  ASSUME NEW n, NEW d, Firm(d, n), "authorized_email_domains" \in Kinds(d),
         \A x \in Domains : d.domains["authorized_email_domains"][x] = 0
  PROVE  RewroteWell(d, AuthorizeDomainsOfMembers(d))
<1> DEFINE k == "authorized_email_domains"
           f == [x \in Domains |-> IF x = d.email THEN 1 ELSE 0]
           g == [d.domains EXCEPT ![k] = f]
           e == AuthorizeDomainsOfMembers(d)
<1>1. /\ IsDatabase(d) /\ NoneElsewhere(d)
      /\ d.domains \in [Lists \cup Types -> [Domains -> Nat]]
  BY FirmDomains
<1>2. k \in Read /\ Meaning(k) = "none"
  BY DEF Read, Lists, Types, Meaning, TypeOf
<1>3. CASE "users_organizations" \notin d.rows
  <2>1. e = d
    BY <1>3 DEF AuthorizeDomainsOfMembers
  <2>2. Rewrote(d, d)
    BY <1>1 DEF Rewrote
  <2>3. KeepsCopies(d.domains, d.domains)
    BY SameCopiesKept
  <2> QED
    BY <1>1, <2>1, <2>2, <2>3 DEF RewroteWell
<1>4. CASE "users_organizations" \in d.rows
  <2>1. f \in [Domains -> Nat]
    OBVIOUS
  <2>2. e = WithDomains(d, g)
    BY <1>1, <1>4 DEF AuthorizeDomainsOfMembers, WithDomains
  <2> HIDE DEF f
  <2>3. g \in [Lists \cup Types -> [Domains -> Nat]]
    BY <1>1, <2>1
  <2>4. \A l \in Lists \cup Types : l # k => g[l] = d.domains[l]
    BY <1>1
  <2> HIDE DEF g, e
  <2>5. Rewrote(d, e) /\ e.domains = g
    BY <1>1, <2>2, <2>3, DomainsRewritten
  <2>6. Kinds(e) = Kinds(d)
    BY <2>5, RewroteSame
  <2>7. NoneElsewhere(e)
    BY <1>1, <2>4, <2>5, <2>6 DEF NoneElsewhere
  <2> HIDE DEF k
  <2>8. \A x \in Domains : ~(d.domains[k][x] > 0)
    BY DEF k
  <2>9. KeepsCopies(d.domains, g)
    <3>1. \A l \in Read : l # k => g[l] = d.domains[l]
      BY <2>4 DEF Read
    <3>2. \A y, m : m # "none" => (Tells(g, y, m) <=> Tells(d.domains, y, m))
      BY <1>2, <3>1 DEF Tells
    <3>3. \A y, m : Tells(d.domains, y, m) => Tells(g, y, m)
      BY <2>8, <3>1 DEF Tells
    <3> QED
      BY <3>2, <3>3 DEF KeepsCopies
  <2> QED
    BY <2>5, <2>7, <2>9 DEF RewroteWell, e
<1> QED
  BY <1>3, <1>4

LEMMA FreeRemoved ==
  ASSUME NEW n, NEW d, Firm(d, n)
  PROVE  RewroteWell(d, RemoveFreeEmailProviders(d))
<1> DEFINE S == Lists \ {"trackdechets_email_domains"}
           g == [l \in Lists \cup Types |->
                   IF l \in S THEN [x \in Domains |-> IF x \in Free THEN 0 ELSE d.domains[l][x]]
                   ELSE d.domains[l]]
           e == RemoveFreeEmailProviders(d)
<1>1. /\ IsDatabase(d) /\ NoneElsewhere(d) /\ DOMAIN d.domains = Lists \cup Types
      /\ d.domains \in [Lists \cup Types -> [Domains -> Nat]]
  BY FirmDomains
<1>2. e = WithDomains(d, g)
  BY <1>1 DEF RemoveFreeEmailProviders, Without, WithDomains
<1> HIDE DEF S
<1>3. g \in [Lists \cup Types -> [Domains -> Nat]]
  BY <1>1
<1>4. \A l \in Lists \cup Types : \A x \in Domains :
        g[l][x] = IF l \in S /\ x \in Free THEN 0 ELSE d.domains[l][x]
  BY <1>1
<1> HIDE DEF g, e
<1>5. Rewrote(d, e) /\ e.domains = g
  BY <1>1, <1>2, <1>3, DomainsRewritten
<1>6. NoneElsewhere(e)
  BY <1>1, <1>4, <1>5, NoneElsewhereStill
<1>7. KeepsCopies(d.domains, g)
  <2>1. \A k \in Read : \A x \in Domains : g[k][x] > 0 => d.domains[k][x] > 0
    BY <1>4 DEF Read
  <2>2. \A k \in Read : \A x \in Domains : Lower[x] \notin Free => g[k][x] = d.domains[k][x]
    BY <1>4, MigrationsAssumption DEF Read
  <2>3. \A y, m : Tells(g, y, m) => Tells(d.domains, y, m)
    BY <2>1 DEF Tells
  <2>4. \A y, m : y \notin Free /\ Tells(d.domains, y, m) => Tells(g, y, m)
    BY <2>2 DEF Tells
  <2> QED
    BY <2>3, <2>4 DEF KeepsCopies
<1> QED
  BY <1>5, <1>6, <1>7 DEF RewroteWell, e

LEMMA VerifiedAuthorized ==
  ASSUME NEW n, NEW d, Firm(d, n), "authorized_email_domains" \in Kinds(d)
  PROVE  RewroteWell(d, AuthorizeVerifiedDomains(d))
<1> DEFINE k == "authorized_email_domains"
           v == "verified_email_domains"
           f == [x \in Domains |-> IF d.domains[k][x] = 0 THEN d.domains[v][x] ELSE d.domains[k][x]]
           g == [d.domains EXCEPT ![k] = f]
           e == AuthorizeVerifiedDomains(d)
<1>1. /\ IsDatabase(d) /\ NoneElsewhere(d)
      /\ d.domains \in [Lists \cup Types -> [Domains -> Nat]]
  BY FirmDomains
<1>2. k \in Read /\ Meaning(k) = "none" /\ {k, v} \subseteq Lists
  BY DEF Read, Lists, Types, Meaning, TypeOf
<1>3. f \in [Domains -> Nat]
  BY <1>1, <1>2
<1>4. e = WithDomains(d, g)
  BY <1>1 DEF AuthorizeVerifiedDomains, WithDomains
<1>5. \A x \in Domains : d.domains[k][x] > 0 => f[x] > 0
  OBVIOUS
<1> HIDE DEF f
<1>6. g \in [Lists \cup Types -> [Domains -> Nat]]
  BY <1>1, <1>3
<1>7. g[k] = f /\ \A l \in Lists \cup Types : l # k => g[l] = d.domains[l]
  BY <1>1, <1>2
<1> HIDE DEF g, e
<1>8. Rewrote(d, e) /\ e.domains = g
  BY <1>1, <1>4, <1>6, DomainsRewritten
<1>9. NoneElsewhere(e)
  <2>1. Kinds(e) = Kinds(d)
    BY <1>8, RewroteSame
  <2> QED
    BY <1>1, <1>7, <1>8, <2>1 DEF NoneElsewhere
<1> HIDE DEF k
<1>10. KeepsCopies(d.domains, g)
  <2>1. \A l \in Read : l # k => g[l] = d.domains[l]
    BY <1>7 DEF Read
  <2>2. \A y, m : m # "none" => (Tells(g, y, m) <=> Tells(d.domains, y, m))
    BY <1>2, <2>1 DEF Tells
  <2>3. \A l \in Read : \A x \in Domains : d.domains[l][x] > 0 => g[l][x] > 0
    BY <1>5, <1>7, <2>1
  <2>4. \A y, m : Tells(d.domains, y, m) => Tells(g, y, m)
    BY <2>3 DEF Tells
  <2> QED
    BY <2>2, <2>4 DEF KeepsCopies
<1> QED
  BY <1>8, <1>9, <1>10 DEF RewroteWell, e

LEMMA RewroteOnAndOn ==
  ASSUME NEW d, NEW e, NEW f, RewroteWell(d, e), RewroteWell(e, f)
  PROVE  RewroteWell(d, f)
<1>1. Rewrote(d, f)
  BY DEF RewroteWell, Rewrote
<1>2. KeepsCopies(d.domains, f.domains)
  BY DEF RewroteWell, KeepsCopies
<1> QED
  BY <1>1, <1>2 DEF RewroteWell

LEMMA DuplicatesDeleted ==
  ASSUME NEW n, NEW d, Firm(d, n)
  PROVE  /\ RewroteWell(d, DeleteDuplicates(d))
         /\ \A x \in Domains, l \in Types : DeleteDuplicates(d).domains[l][x] <= 1
<1> DEFINE g == [l \in Lists \cup Types |->
                   IF l \in Types THEN [x \in Domains |-> IF d.domains[l][x] > 0 THEN 1 ELSE 0]
                   ELSE d.domains[l]]
           e == DeleteDuplicates(d)
<1>1. /\ IsDatabase(d) /\ NoneElsewhere(d) /\ DOMAIN d.domains = Lists \cup Types
      /\ d.domains \in [Lists \cup Types -> [Domains -> Nat]]
  BY FirmDomains
<1>2. e = WithDomains(d, g)
  BY <1>1 DEF DeleteDuplicates, Once, WithDomains
<1>3. g \in [Lists \cup Types -> [Domains -> Nat]]
  BY <1>1
<1>4. \A l \in Lists \cup Types : \A x \in Domains :
        g[l][x] = IF l \in Types THEN IF d.domains[l][x] > 0 THEN 1 ELSE 0 ELSE d.domains[l][x]
  BY <1>1
<1> HIDE DEF g, e
<1>5. Rewrote(d, e) /\ e.domains = g
  BY <1>1, <1>2, <1>3, DomainsRewritten
<1>6. NoneElsewhere(e)
  BY <1>1, <1>4, <1>5, NoneElsewhereStill
<1>7. KeepsCopies(d.domains, g)
  <2>1. \A k \in Read : \A x \in Domains : g[k][x] > 0 <=> d.domains[k][x] > 0
    BY <1>4 DEF Read
  <2> QED
    BY <2>1, SameCopiesKept
<1>8. \A x \in Domains, l \in Types : g[l][x] <= 1
  BY <1>4
<1> QED
  BY <1>5, <1>6, <1>7, <1>8 DEF RewroteWell, e

LEMMA SameNullDeleted ==
  ASSUME NEW n, NEW d, Firm(d, n)
  PROVE  RewroteWell(d, DeleteSameNull(d))
<1> DEFINE f == [x \in Domains |-> IF d.domains["none"][x] > 0 THEN 1 ELSE 0]
           g == [d.domains EXCEPT !["none"] = f]
           e == DeleteSameNull(d)
<1>1. /\ IsDatabase(d) /\ NoneElsewhere(d)
      /\ d.domains \in [Lists \cup Types -> [Domains -> Nat]]
  BY FirmDomains
<1>2. e = WithDomains(d, g)
  BY <1>1 DEF DeleteSameNull, Once, WithDomains
<1>3. f \in [Domains -> Nat] /\ \A x \in Domains : f[x] > 0 <=> d.domains["none"][x] > 0
  OBVIOUS
<1> HIDE DEF f
<1>4. g \in [Lists \cup Types -> [Domains -> Nat]]
  BY <1>1, <1>3
<1>5. \A l \in Lists \cup Types : g[l] = IF l = "none" THEN f ELSE d.domains[l]
  BY <1>1
<1>6. \A l \in Lists \cup Types : \A x \in Domains : g[l][x] > 0 <=> d.domains[l][x] > 0
  BY <1>3, <1>5
<1> HIDE DEF g, e
<1>7. Rewrote(d, e) /\ e.domains = g
  BY <1>1, <1>2, <1>4, DomainsRewritten
<1>8. NoneElsewhere(e)
  BY <1>1, <1>6, <1>7, NoneElsewhereStill
<1>9. KeepsCopies(d.domains, g)
  <2>1. \A k \in Read : \A x \in Domains : g[k][x] > 0 <=> d.domains[k][x] > 0
    BY <1>6 DEF Read
  <2> QED
    BY <2>1, SameCopiesKept
<1> QED
  BY <1>7, <1>8, <1>9 DEF RewroteWell, e

LEMMA NoneBesideDeleted ==
  ASSUME NEW n, NEW d, Firm(d, n), NEW types, types \subseteq Types \ {"none"}
  PROVE  RewroteWell(d, DeleteNoneBeside(d, types))
<1> DEFINE f == [x \in Domains |-> IF \E type \in types : d.domains[type][x] > 0
                                   THEN 0 ELSE d.domains["none"][x]]
           g == [d.domains EXCEPT !["none"] = f]
           e == DeleteNoneBeside(d, types)
<1>1. /\ IsDatabase(d) /\ NoneElsewhere(d)
      /\ d.domains \in [Lists \cup Types -> [Domains -> Nat]]
  BY FirmDomains
<1>2. e = WithDomains(d, g)
  BY <1>1 DEF DeleteNoneBeside, Without, WithDomains
<1>3. f \in [Domains -> Nat]
  BY <1>1 DEF Types
<1>4. /\ \A x \in Domains : f[x] > 0 => d.domains["none"][x] > 0
      /\ \A x \in Domains : d.domains["none"][x] > 0
                              => f[x] > 0 \/ \E type \in types : d.domains[type][x] > 0
  OBVIOUS
<1> HIDE DEF f
<1>5. g \in [Lists \cup Types -> [Domains -> Nat]]
  BY <1>1, <1>3
<1>6. \A l \in Lists \cup Types : g[l] = IF l = "none" THEN f ELSE d.domains[l]
  BY <1>1
<1> HIDE DEF g, e
<1>7. Rewrote(d, e) /\ e.domains = g
  BY <1>1, <1>2, <1>5, DomainsRewritten
<1>8. NoneElsewhere(e)
  <2>1. \A l \in Lists \cup Types : \A x \in Domains : g[l][x] > 0 => d.domains[l][x] > 0
    BY <1>4, <1>6
  <2> QED
    BY <1>1, <1>7, <2>1, NoneElsewhereStill
<1>9. KeepsCopies(d.domains, g)
  <2>1. \A l \in Read : l # "none" => g[l] = d.domains[l]
    BY <1>6 DEF Read
  <2>2. "none" \in Read /\ Meaning("none") = "none"
    BY DEF Read, Lists, Types, Meaning, TypeOf
  <2>3. \A y, m : m # "none" => (Tells(g, y, m) <=> Tells(d.domains, y, m))
    BY <2>1, <2>2 DEF Tells
  <2>4. ASSUME NEW y, NEW m, Tells(d.domains, y, m)
        PROVE  \E o : Tells(g, y, o)
    <3>1. PICK x \in Domains, k \in Read : Lower[x] = y /\ Meaning(k) = m /\ d.domains[k][x] > 0
      BY <2>4 DEF Tells
    <3>2. CASE g[k][x] > 0
      BY <3>1, <3>2 DEF Tells
    <3>3. CASE ~(g[k][x] > 0)
      <4>1. k = "none" /\ g["none"] = f
        BY <1>6, <2>1, <3>1, <3>3 DEF Types
      <4>2. PICK type \in types : d.domains[type][x] > 0
        BY <1>4, <3>1, <3>3, <4>1
      <4>3. type \in Read /\ type # "none"
        BY DEF Read, Lists, Types
      <4>4. g[type][x] > 0
        BY <2>1, <4>2, <4>3
      <4> QED
        BY <3>1, <4>3, <4>4 DEF Tells
    <3> QED
      BY <3>2, <3>3
  <2> QED
    BY <2>3, <2>4 DEF KeepsCopies
<1> QED
  BY <1>7, <1>8, <1>9 DEF RewroteWell, e

LEMMA EmailDuplicatesDeleted ==
  ASSUME NEW n, NEW d, Firm(d, n)
  PROVE  RewroteWell(d, DeleteEmailDuplicates(d))
<1> DEFINE types == {"verified", "trackdechets_postal_mail", "external"}
           e == DeleteDuplicates(d)
<1>1. RewroteWell(d, e)
  BY DuplicatesDeleted
<1>2. Firm(e, n)
  BY <1>1, RewroteFirm DEF RewroteWell
<1>3. types \subseteq Types \ {"none"}
  BY DEF Types
<1>4. DeleteEmailDuplicates(d) = DeleteNoneBeside(e, types)
  BY DEF DeleteEmailDuplicates
<1> HIDE DEF e, types
<1>5. RewroteWell(e, DeleteNoneBeside(e, types))
  BY <1>2, <1>3, NoneBesideDeleted
<1> QED
  BY <1>1, <1>4, <1>5, RewroteOnAndOn

WithEmail(d, x) == [d EXCEPT !.email = x]

LEMMA EmailRewritten ==
  ASSUME NEW d, IsDatabase(d), NoneElsewhere(d), NEW x \in Domains \cup {NoDomain}
  PROVE  RewroteWell(d, WithEmail(d, x))
<1> DEFINE e == WithEmail(d, x)
<1>1. /\ (e.ok <=> d.ok) /\ e.cell = d.cell /\ e.rows = d.rows /\ e.connections = d.connections
      /\ e.domains = d.domains /\ e.required = d.required /\ e.unique = d.unique /\ e.email = x
  BY DEF IsDatabase, WithEmail
<1>2. IsDatabase(e)
  BY <1>1 DEF IsDatabase, WithEmail
<1>3. Rewrote(d, e)
  BY <1>1, <1>2 DEF Rewrote
<1>4. NoneElsewhere(e)
  <2>1. Kinds(e) = Kinds(d)
    BY <1>3, RewroteSame
  <2> QED
    BY <1>1, <2>1 DEF NoneElsewhere
<1>5. KeepsCopies(d.domains, e.domains)
  BY <1>1, SameCopiesKept
<1> QED
  BY <1>3, <1>4, <1>5 DEF RewroteWell

LEMMA SpelledCounts ==
  ASSUME NEW copies \in [Domains -> Nat]
  PROVE  /\ Spelled(copies, Lower) \in [Domains -> Nat]
         /\ \A x \in Domains : Spelled(copies, Lower)[x] > 0
                                 <=> \E y \in Domains : Lower[y] = x /\ copies[y] > 0
<1>1. ASSUME NEW x \in Domains
      PROVE  /\ Total(copies, {y \in Domains : Lower[y] = x}) \in Nat
             /\ Total(copies, {y \in Domains : Lower[y] = x}) > 0
                  <=> \E y \in {y \in Domains : Lower[y] = x} : copies[y] > 0
  <2> DEFINE ys == {y \in Domains : Lower[y] = x}
  <2>1. IsFiniteSet(ys)
    BY MigrationsAssumption, FS_Subset
  <2>2. \A y \in ys : copies[y] \in Nat
    OBVIOUS
  <2> HIDE DEF ys
  <2> QED
    BY <2>1, <2>2, TotalCounts DEF ys
<1> QED
  BY <1>1 DEF Spelled

LEMMA EmailAddressesLowered ==
  ASSUME NEW n, NEW d, Firm(d, n)
  PROVE  RewroteWell(d, LowerEmailAddresses(d))
<1> DEFINE a == "authorized_email_domains"
           b == "external_authorized_email_domains"
           p == Spelled(d.domains[a], Lower)
           q == Spelled(d.domains[b], Lower)
           g == [d.domains EXCEPT ![a] = p, ![b] = q]
           x0 == IF d.email = NoDomain THEN d.email ELSE Lower[d.email]
           e == WithDomains(d, g)
           f == WithEmail(e, x0)
<1>1. /\ IsDatabase(d) /\ NoneElsewhere(d)
      /\ d.domains \in [Lists \cup Types -> [Domains -> Nat]]
  BY FirmDomains
<1>2. {a, b} \subseteq Lists /\ a # b
  BY DEF Lists
<1>3. LowerEmailAddresses(d) = f
  <2>1. LowerEmailAddresses(d) = [d EXCEPT !.email = x0, !.domains[a] = p, !.domains[b] = q]
    BY <1>1, <1>2 DEF LowerEmailAddresses, IsDatabase
  <2> HIDE DEF p, q, x0, a, b
  <2> QED
    BY <1>1, <1>2, <2>1 DEF WithEmail, WithDomains, IsDatabase
<1>4. x0 \in Domains \cup {NoDomain}
  BY <1>1, MigrationsAssumption DEF IsDatabase
<1>5. /\ p \in [Domains -> Nat] /\ q \in [Domains -> Nat]
      /\ \A x \in Domains : p[x] > 0 <=> \E y \in Domains : Lower[y] = x /\ d.domains[a][y] > 0
      /\ \A x \in Domains : q[x] > 0 <=> \E y \in Domains : Lower[y] = x /\ d.domains[b][y] > 0
  BY <1>1, <1>2, SpelledCounts
<1> HIDE DEF a, b, p, q, x0
<1>6. g \in [Lists \cup Types -> [Domains -> Nat]]
  BY <1>1, <1>5
<1>7. \A l \in Lists \cup Types : g[l] = IF l = a THEN p ELSE IF l = b THEN q ELSE d.domains[l]
  BY <1>1, <1>2
<1> HIDE DEF g, e
<1>8. Rewrote(d, e) /\ e.domains = g
  BY <1>1, <1>6, DomainsRewritten DEF e
<1>9. NoneElsewhere(e)
  <2>1. Kinds(e) = Kinds(d)
    BY <1>8, RewroteSame
  <2>2. ASSUME NEW l \in (Lists \cup Types) \ Kinds(d), NEW x \in Domains
        PROVE  g[l][x] = 0
    <3>1. \A y \in Domains : d.domains[l][y] = 0
      BY <1>1 DEF NoneElsewhere
    <3>2. ~(g[l][x] > 0)
      BY <1>5, <1>7, <3>1
    <3> QED
      BY <1>6, <3>2
  <2> QED
    BY <1>8, <2>1, <2>2 DEF NoneElsewhere
<1>10. KeepsCopies(d.domains, g)
  <2>1. \A x \in Domains : Lower[x] \in Domains /\ Lower[Lower[x]] = Lower[x]
    BY MigrationsAssumption
  <2>2. ASSUME NEW y, NEW m, Tells(d.domains, y, m)
        PROVE  Tells(g, y, m)
    <3>1. PICK x \in Domains, k \in Read : Lower[x] = y /\ Meaning(k) = m /\ d.domains[k][x] > 0
      BY <2>2 DEF Tells
    <3>2. CASE k \in {a, b}
      <4>1. g[k][Lower[x]] > 0
        BY <1>2, <1>5, <1>7, <2>1, <3>1, <3>2
      <4> QED
        BY <2>1, <3>1, <4>1 DEF Tells
    <3>3. CASE k \notin {a, b}
      <4>1. g[k][x] > 0
        BY <1>7, <3>1, <3>3 DEF Read
      <4> QED
        BY <3>1, <4>1 DEF Tells
    <3> QED
      BY <3>2, <3>3
  <2>3. ASSUME NEW y, NEW m, Tells(g, y, m)
        PROVE  Tells(d.domains, y, m)
    <3>1. PICK x \in Domains, k \in Read : Lower[x] = y /\ Meaning(k) = m /\ g[k][x] > 0
      BY <2>3 DEF Tells
    <3>2. CASE k \in {a, b}
      <4>1. PICK z \in Domains : Lower[z] = x /\ d.domains[k][z] > 0
        BY <1>2, <1>5, <1>7, <3>1, <3>2
      <4>2. Lower[z] = y
        BY <2>1, <3>1, <4>1
      <4> QED
        BY <3>1, <4>1, <4>2 DEF Tells
    <3>3. CASE k \notin {a, b}
      <4>1. d.domains[k][x] > 0
        BY <1>7, <3>1, <3>3 DEF Read
      <4> QED
        BY <3>1, <4>1 DEF Tells
    <3> QED
      BY <3>2, <3>3
  <2> QED
    BY <2>2, <2>3 DEF KeepsCopies
<1>11. RewroteWell(d, e)
  BY <1>8, <1>9, <1>10 DEF RewroteWell
<1>12. RewroteWell(e, f)
  BY <1>4, <1>8, <1>9, EmailRewritten DEF Rewrote
<1> HIDE DEF f
<1> QED
  BY <1>3, <1>11, <1>12, RewroteOnAndOn

(***************************************************************************)
(* What an upgrade does to a database that it can be applied to.           *)
(***************************************************************************)
GoodUp(n) ==
  \A d : Sound(d, n - 1) /\ ~Hindered(d, n)
    => Sound(Run(d, Directory[n].up), n) /\ Keeps(d, Run(d, Directory[n].up))

LEMMA QuietIsGood ==
  ASSUME NEW n \in 1..68, QuietUp(n)
  PROVE  GoodUp(n)
<1> SUFFICES ASSUME NEW d, Sound(d, n - 1), ~Hindered(d, n)
             PROVE  Sound(Run(d, Directory[n].up), n) /\ Keeps(d, Run(d, Directory[n].up))
  BY DEF GoodUp
<1> DEFINE e == Run(d, Directory[n].up)
<1> HIDE DEF e
<1>1. PICK kept \in Keepable(n) : Quietly(d, e, ShapeAt(n, kept))
  BY DEF QuietUp, e
<1>2. Sound(e, n)
  BY <1>1, QuietlyUp
<1>3. Keeps(d, e)
  BY <1>1, QuietlyKeeps DEF Sound
<1> QED
  BY <1>2, <1>3 DEF e

\* A file that rewrites the domains.
Rewrites(n, name) ==
  /\ Directory[n].up = <<Rewrite(name)>>
  /\ \A kept \in Keepable(n) : ShapeAt(n - 1, kept) = ShapeAt(n, kept)
  /\ \A d : Sound(d, n - 1) => RewroteWell(d, Rewritten(d, name))

LEMMA RewritesUp ==
  ASSUME NEW n \in (1..68) \ {14}, NEW name, Rewrites(n, name)
  PROVE  GoodUp(n)
<1> SUFFICES ASSUME NEW d, Sound(d, n - 1)
             PROVE  Sound(Run(d, Directory[n].up), n) /\ Keeps(d, Run(d, Directory[n].up))
  BY DEF GoodUp
<1> DEFINE e == Rewritten(d, name)
<1>1. d.ok
  BY DEF Sound, Firm
<1>2. Run(d, Directory[n].up) = e
  <2>1. Run(d, Directory[n].up) = GoOn(d, Rewrite(name))
    BY RunOne DEF Rewrites
  <2> QED
    BY <1>1, <2>1, Rewriting
<1>3. RewroteWell(d, e)
  BY DEF Rewrites
<1> HIDE DEF e
<1>4. Firm(e, n - 1) /\ Keeps(d, e)
  BY <1>3, RewroteKeeps DEF RewroteWell, Sound
<1>5. Firm(e, n)
  BY <1>4, FirmUp
<1>6. Schema(e, n)
  <2>1. PICK kept \in Keepable(n - 1) : Shape(d) = ShapeAt(n - 1, kept)
    BY DEF Sound, Schema
  <2>2. kept \in Keepable(n)
    BY KeptStill
  <2>3. Shape(e) = Shape(d)
    BY <1>3, RewroteSame DEF RewroteWell
  <2> QED
    BY <2>1, <2>2, <2>3 DEF Rewrites, Schema
<1> QED
  BY <1>2, <1>4, <1>5, <1>6 DEF Sound

LEMMA ListThere ==
  ASSUME NEW n \in 9..56, NEW d, Sound(d, n)
  PROVE  "authorized_email_domains" \in Kinds(d)
<1>1. PICK kept \in Keepable(n) : Shape(d) = ShapeAt(n, kept)
  BY DEF Sound, Schema
<1>2. ColumnsOf(d, "organizations") = ShapeAt(n, kept)["organizations"]
  BY <1>1, NamesOfColumns DEF TableNames
<1>3. "authorized_email_domains" \in ShapeAt(n, kept)["organizations"]
  BY DEF ShapeAt, ColumnsAt, When, TableNames
<1> QED
  BY <1>2, <1>3 DEF Kinds, Lists

LEMMA Good18 ==
  GoodUp(18)
<1> DEFINE name == "lower email addresses"
<1>1. Directory[18].up = <<Rewrite(name)>>
  BY DEF Directory, lower_email_adresses
<1>2. \A kept \in Keepable(18) : ShapeAt(17, kept) = ShapeAt(18, kept)
  BY DEF ShapeAt, ColumnsAt, Devise, Keepable, When, TableNames
<1>3. \A d : Rewritten(d, name) = LowerEmailAddresses(d)
  BY DEF Rewritten
<1>4. \A d : Sound(d, 17) => RewroteWell(d, Rewritten(d, name))
  BY <1>3, EmailAddressesLowered DEF Sound
<1> HIDE DEF name
<1>5. Rewrites(18, name)
  BY <1>1, <1>2, <1>4 DEF Rewrites
<1> QED
  BY <1>5, RewritesUp

LEMMA Good31 ==
  GoodUp(31)
<1> DEFINE name == "remove free email providers"
<1>1. Directory[31].up = <<Rewrite(name)>>
  BY DEF Directory, remove_free_email_provider
<1>2. \A kept \in Keepable(31) : ShapeAt(30, kept) = ShapeAt(31, kept)
  BY DEF ShapeAt, ColumnsAt, Devise, Keepable, When, TableNames
<1>3. \A d : Rewritten(d, name) = RemoveFreeEmailProviders(d)
  BY DEF Rewritten
<1>4. \A d : Sound(d, 30) => RewroteWell(d, Rewritten(d, name))
  BY <1>3, FreeRemoved DEF Sound
<1> HIDE DEF name
<1>5. Rewrites(31, name)
  BY <1>1, <1>2, <1>4 DEF Rewrites
<1> QED
  BY <1>5, RewritesUp

LEMMA Good36 ==
  GoodUp(36)
<1> DEFINE name == "authorize verified domains"
<1>1. Directory[36].up = <<Rewrite(name)>>
  BY DEF Directory, fix_non_consistent_verified_domains
<1>2. \A kept \in Keepable(36) : ShapeAt(35, kept) = ShapeAt(36, kept)
  BY DEF ShapeAt, ColumnsAt, Devise, Keepable, When, TableNames
<1>3. \A d : Rewritten(d, name) = AuthorizeVerifiedDomains(d)
  BY DEF Rewritten
<1>4. ASSUME NEW d, Sound(d, 35)
      PROVE  RewroteWell(d, Rewritten(d, name))
  <2>1. "authorized_email_domains" \in Kinds(d) /\ Firm(d, 35)
    BY <1>4, ListThere DEF Sound
  <2> QED
    BY <1>3, <2>1, VerifiedAuthorized
<1> HIDE DEF name
<1>5. Rewrites(36, name)
  BY <1>1, <1>2, <1>4 DEF Rewrites
<1> QED
  BY <1>5, RewritesUp

LEMMA Good58 ==
  GoodUp(58)
<1> DEFINE name == "delete email duplicates"
<1>1. Directory[58].up = <<Rewrite(name)>>
  BY DEF Directory, delete_email_duplicates
<1>2. \A kept \in Keepable(58) : ShapeAt(57, kept) = ShapeAt(58, kept)
  BY DEF ShapeAt, ColumnsAt, Devise, Keepable, When, TableNames
<1>3. \A d : Rewritten(d, name) = DeleteEmailDuplicates(d)
  BY DEF Rewritten
<1>4. \A d : Sound(d, 57) => RewroteWell(d, Rewritten(d, name))
  BY <1>3, EmailDuplicatesDeleted DEF Sound
<1> HIDE DEF name
<1>5. Rewrites(58, name)
  BY <1>1, <1>2, <1>4 DEF Rewrites
<1> QED
  BY <1>5, RewritesUp

LEMMA Good62 ==
  GoodUp(62)
<1> DEFINE name == "delete same null"
<1>1. Directory[62].up = <<Rewrite(name)>>
  BY DEF Directory, remove_same_null_verified_email_domain
<1>2. \A kept \in Keepable(62) : ShapeAt(61, kept) = ShapeAt(62, kept)
  BY DEF ShapeAt, ColumnsAt, Devise, Keepable, When, TableNames
<1>3. \A d : Rewritten(d, name) = DeleteSameNull(d)
  BY DEF Rewritten
<1>4. \A d : Sound(d, 61) => RewroteWell(d, Rewritten(d, name))
  BY <1>3, SameNullDeleted DEF Sound
<1> HIDE DEF name
<1>5. Rewrites(62, name)
  BY <1>1, <1>2, <1>4 DEF Rewrites
<1> QED
  BY <1>5, RewritesUp

LEMMA Good67 ==
  GoodUp(67)
<1> DEFINE name == "delete already verified"
<1>1. Directory[67].up = <<Rewrite(name)>>
  BY DEF Directory, delete_already_verified_email_domain
<1>2. \A kept \in Keepable(67) : ShapeAt(66, kept) = ShapeAt(67, kept)
  BY DEF ShapeAt, ColumnsAt, Devise, Keepable, When, TableNames
<1>3. \A d : Rewritten(d, name) = DeleteNoneBeside(d, Types \ {"none"})
  BY DEF Rewritten, DeleteAlreadyVerified
<1>4. \A d : Sound(d, 66) => RewroteWell(d, Rewritten(d, name))
  BY <1>3, NoneBesideDeleted DEF Sound
<1> HIDE DEF name
<1>5. Rewrites(67, name)
  BY <1>1, <1>2, <1>4 DEF Rewrites
<1> QED
  BY <1>5, RewritesUp

LEMMA Good9 ==
  GoodUp(9)
<1> SUFFICES ASSUME NEW d, Sound(d, 8)
             PROVE  Sound(Run(d, Directory[9].up), 9) /\ Keeps(d, Run(d, Directory[9].up))
  BY DEF GoodUp
<1> DEFINE k == "authorized_email_domains"
           name == "authorize domains of members"
           s1 == AddWith("organizations", {k}, "empty")
           s2 == Rewrite(name)
           e1 == GoOn(d, s1)
           e2 == AuthorizeDomainsOfMembers(e1)
<1>1. PICK kept \in Keepable(8) : Shape(d) = ShapeAt(8, kept) /\ Quietly(d, d, ShapeAt(8, kept))
  BY SoundShape
<1>2. /\ MayAdd(ShapeAt(8, kept), "organizations", {k}, "empty")
      /\ Plus(ShapeAt(8, kept), "organizations", {k}) = ShapeAt(9, kept)
      /\ kept \in Keepable(9)
  <2>1. kept \in Keepable(9)
    BY <1>1, KeptStill
  <2> QED
    BY <2>1 DEF MayAdd, MayWrite, Plus, ShapeAt, ColumnsAt, Devise, When, TableNames, Telling,
       NonNull, Keepable
<1>3. Rewritten(e1, name) = e2
  BY DEF Rewritten
<1>4. Directory[9].up = <<s1, s2>>
  BY DEF Directory, add_authorized_email_domains_to_organizations
<1>5. k \in Lists /\ k \notin ShapeAt(8, kept)["organizations"] /\ ShapeAt(8, kept)["email_domains"] = {}
  BY DEF Lists, ShapeAt, ColumnsAt, When, TableNames
<1> HIDE DEF k, name, s1, s2, e1, e2
<1>6. Quietly(d, e1, ShapeAt(9, kept))
  BY <1>1, <1>2, AndAdds DEF TableNames, e1, s1
<1>7. Sound(e1, 9) /\ Keeps(d, e1)
  BY <1>2, <1>6, QuietlyUp, QuietlyKeeps DEF Sound
<1>8. "authorized_email_domains" \in Kinds(e1)
  BY <1>7, ListThere
<1>9. \A x \in Domains : e1.domains[k][x] = 0
  <2>1. ColumnsOf(d, "organizations") = ShapeAt(8, kept)["organizations"] /\ ColumnsOf(d, "email_domains") = {}
    BY <1>1, <1>5, NamesOfColumns DEF TableNames
  <2>2. k \notin Kinds(d)
    BY <1>5, <2>1 DEF Kinds
  <2>3. e1.domains = d.domains
    BY <1>6 DEF Quietly, Alike
  <2> QED
    BY <1>5, <2>2, <2>3 DEF Sound, Firm, NoneElsewhere
<1>10. RewroteWell(e1, e2)
  BY <1>7, <1>8, <1>9, MemberDomainsAuthorized DEF Sound, e2, k
<1>11. Firm(e2, 9) /\ Keeps(e1, e2)
  BY <1>7, <1>10, RewroteKeeps DEF RewroteWell, Sound
<1>12. Shape(e2) = ShapeAt(9, kept)
  BY <1>6, <1>10, RewroteSame DEF RewroteWell, Quietly
<1>13. Sound(e2, 9)
  BY <1>2, <1>11, <1>12 DEF Sound, Schema
<1>14. Keeps(d, e2)
  BY <1>7, <1>11, KeepsOnAndOn
<1>15. Run(d, Directory[9].up) = e2
  <2>1. Run(d, Directory[9].up) = GoOn(e1, s2)
    BY <1>4, RunTwo DEF e1
  <2> QED
    BY <1>3, <1>7, <2>1, Rewriting DEF Sound, Firm, s2
<1> QED
  BY <1>13, <1>14, <1>15

LEMMA Good66 ==
  GoodUp(66)
<1> SUFFICES ASSUME NEW d, Sound(d, 65)
             PROVE  Sound(Run(d, Directory[66].up), 66) /\ Keeps(d, Run(d, Directory[66].up))
  BY DEF GoodUp
<1> DEFINE name == "delete duplicates"
           s1 == Rewrite(name)
           s2 == Unique("no")
           s3 == Unique("nulls too")
           e1 == DeleteDuplicates(d)
           e2 == GoOn(e1, s2)
           e3 == GoOn(e2, s3)
<1>1. PICK kept \in Keepable(65) : Shape(d) = ShapeAt(65, kept)
  BY SoundShape
<1>2. ShapeAt(65, kept) = ShapeAt(66, kept) /\ kept \in Keepable(66)
  BY <1>1 DEF ShapeAt, ColumnsAt, Devise, Keepable, When, TableNames
<1>3. GoOn(d, s1) = e1
  <2>1. Rewritten(d, name) = e1
    BY DEF Rewritten
  <2>2. d.ok
    BY DEF Sound, Firm
  <2> QED
    BY <2>1, <2>2, Rewriting
<1>4. Directory[66].up = <<s1, s2, s3>>
  BY DEF Directory, add_null_not_distinct_to_email_domains
<1>5. RewroteWell(d, e1) /\ \A x \in Domains, l \in Types : e1.domains[l][x] <= 1
  BY DuplicatesDeleted DEF Sound
<1> HIDE DEF s1, s2, s3, e1, e2, e3
<1>6. Run(d, Directory[66].up) = e3
  BY <1>3, <1>4, RunThree DEF e2, e3
<1>7. Firm(e1, 65) /\ Keeps(d, e1)
  BY <1>5, RewroteKeeps DEF RewroteWell, Sound
<1>8. Shape(e1) = ShapeAt(65, kept)
  BY <1>1, <1>5, RewroteSame DEF RewroteWell
<1>9. Sound(e1, 65)
  BY <1>7, <1>8 DEF Sound, Schema
<1>10. Quietly(e1, e1, ShapeAt(65, kept))
  BY <1>7, <1>8, QuietlyNothing DEF Firm
<1>11. Quietly(e1, e2, ShapeAt(65, kept))
  <2>1. IsUnique(e1.domains, "no")
    BY DEF IsUnique, Constrained
  <2> QED
    BY <1>10, <2>1, AndConstrains DEF e2, s2
<1>12. IsUnique(e2.domains, "nulls too")
  <2>1. e2.domains = e1.domains
    BY <1>11 DEF Quietly, Alike
  <2>2. Constrained("nulls too") = Types
    BY DEF Constrained
  <2> QED
    BY <1>5, <2>1, <2>2 DEF IsUnique
<1>13. Quietly(e1, e3, ShapeAt(66, kept))
  BY <1>2, <1>11, <1>12, AndConstrains DEF e3, s3
<1>14. Sound(e3, 66) /\ Keeps(e1, e3)
  BY <1>2, <1>7, <1>9, <1>13, QuietlyUp, QuietlyKeeps
<1> QED
  BY <1>6, <1>7, <1>14, KeepsOnAndOn

LEMMA Good32 ==
  GoodUp(32)
<1> SUFFICES ASSUME NEW d, Sound(d, 31)
             PROVE  Sound(Run(d, Directory[32].up), 32) /\ Keeps(d, Run(d, Directory[32].up))
  BY DEF GoodUp
<1> DEFINE t == "organizations"
           cs == {"external_verified_email_domains"}
           e == WithoutCells(d, t, cs)
<1>1. PICK kept \in Keepable(31) : Shape(d) = ShapeAt(31, kept) /\ Quietly(d, d, ShapeAt(31, kept))
  BY SoundShape
<1>2. kept \in Keepable(32)
  BY <1>1, KeptStill
<1>3. /\ cs \subseteq ShapeAt(31, kept)[t]
      /\ Minus(ShapeAt(31, kept), t, cs) = ShapeAt(32, kept)
      /\ cs \subseteq Lists /\ cs \cap Read = {} /\ t \in TableNames
  BY DEF Minus, ShapeAt, ColumnsAt, Devise, When, TableNames, Lists, Read
<1>4. Directory[32].up = <<Drop(t, cs)>>
  BY DEF Directory, remove_external_verified
<1> HIDE DEF t, cs, e
<1>5. IsDatabase(d) /\ d.ok /\ cs \subseteq ColumnsOf(d, t)
  BY <1>1, <1>3, QuietlySeen
<1>6. Run(d, Directory[32].up) = e
  <2>1. Run(d, Directory[32].up) = GoOn(d, Drop(t, cs))
    BY <1>4, RunOne
  <2> QED
    BY <1>5, <2>1, Dropping DEF If, e
<1>7. Lost(d, e, t, cs)
  BY <1>3, <1>5, CellsLost DEF e
<1>8. Shape(e) = ShapeAt(32, kept)
  BY <1>1, <1>3, <1>7, ShapeLost
<1>9. Firm(e, 31) /\ Keeps(d, e)
  <2>1. Firm(d, 31)
    BY DEF Sound
  <2>2. Lost(d, e, "organizations", cs)
    BY <1>7 DEF t
  <2> QED
    BY <1>3, <2>1, <2>2, ListsLostFirm, ListsLostKeeps
<1>10. Firm(e, 32)
  BY <1>9, FirmUp
<1> QED
  BY <1>2, <1>6, <1>8, <1>9, <1>10 DEF Sound, Schema

LEMMA Good26 ==
  GoodUp(26)
<1> SUFFICES ASSUME NEW d, Sound(d, 25)
             PROVE  Sound(Run(d, Directory[26].up), 26) /\ Keeps(d, Run(d, Directory[26].up))
  BY DEF GoodUp
<1> DEFINE t == "users_oidc_clients"
           cs == {"user_id", "oidc_client_id", "connection_count", "created_at", "updated_at"}
           e == WithCells(d, t, cs, "null")
<1>1. PICK kept \in Keepable(25) : Shape(d) = ShapeAt(25, kept) /\ Quietly(d, d, ShapeAt(25, kept))
  BY SoundShape
<1>2. kept \in Keepable(26)
  BY <1>1, KeptStill
<1>3. /\ ShapeAt(25, kept)[t] = {}
      /\ Plus(ShapeAt(25, kept), t, cs) = ShapeAt(26, kept)
      /\ t \in TableNames /\ NonNull(t) = {} /\ Telling(t) = {} /\ "connection_count" \in cs
  BY DEF Plus, ShapeAt, ColumnsAt, Devise, When, TableNames, NonNull, Telling
<1>4. Directory[26].up = <<CreateTable(t, cs)>>
  BY DEF Directory, join_users_oidc_clients
<1> HIDE DEF cs, e
<1>5. Firm(d, 25) /\ IsDatabase(d) /\ d.ok /\ ColumnsOf(d, t) = {}
  BY <1>1, <1>3, QuietlySeen DEF Sound
<1>6. Run(d, Directory[26].up) = e
  <2>1. Run(d, Directory[26].up) = GoOn(d, CreateTable(t, cs))
    BY <1>4, RunOne
  <2> QED
    BY <1>5, <2>1, Creating DEF If, e
<1>7. Wrote(d, e, t, cs, "null")
  BY <1>3, <1>5, CellsWritten DEF e
<1>8. Shape(e) = ShapeAt(26, kept)
  BY <1>1, <1>3, <1>7, ShapeWritten
<1>9. /\ e.rows = d.rows /\ e.domains = d.domains /\ e.connections = d.connections
      /\ \A u \in TableNames : u # t => e.cell[u] = d.cell[u]
      /\ ColumnsOf(e, t) = cs
  BY <1>5, <1>7 DEF Wrote
<1>10. \A u \in TableNames : u # t => \A c : Seen(e, u, c) = Seen(d, u, c)
  BY <1>9 DEF Seen, Has, ColumnsOf
<1>11. TypeThere(e) /\ Numbers(e, 25) /\ Factors(e)
  <2>1. \A u \in TableNames : \A c \in Telling(u) : Seen(e, u, c) = Seen(d, u, c)
    BY <1>3, <1>10
  <2> QED
    BY <1>5, <1>9, <2>1, SeenSame
<1>12. Firm(e, 25)
  BY <1>3, <1>5, <1>7, <1>11, WroteFirm
<1>13. Firm(e, 26)
  BY <1>12, FirmUp
<1>14. KeepsDomains(d, e)
  BY <1>5, <1>9, <1>12, SameDomainsKept
<1>15. Connections(e) = Connections(d)
  <2>1. d.connections = <<>> /\ e.connections = <<>>
    BY <1>5, <1>9 DEF Firm, Counts
  <2>2. Has(e, "users_oidc_clients", "connection_count")
    BY <1>3, <1>9 DEF Has
  <2>3. ~Has(d, "users_oidc_clients", "connection_count")
    BY <1>5 DEF Has
  <2>4. Total(<<>>, {}) = 0
    BY TotalOfNone
  <2> QED
    BY <2>1, <2>2, <2>3, <2>4 DEF Connections
<1>16. KeepsAccounts(d, e)
  <2>1. IsForced(e) => HasFactor(e)
    BY <1>11 DEF Factors
  <2>2. /\ ValueOf(e, "users_organizations", "verification_type")
             = ValueOf(d, "users_organizations", "verification_type")
        /\ ValueOf(e, "moderations", "ticket_id") = ValueOf(d, "moderations", "ticket_id")
    BY <1>9, <1>10, ValuesSeen DEF TableNames
  <2> QED
    BY <1>15, <2>1, <2>2 DEF KeepsAccounts
<1> QED
  BY <1>2, <1>6, <1>8, <1>13, <1>14, <1>16 DEF Sound, Schema, Keeps

LEMMA NothingToUpdate ==
  ASSUME NEW d, d.ok, NEW t, NEW c, NEW v, NEW c2, NEW vs,
         c \in ColumnsOf(d, t), c2 \in ColumnsOf(d, t), ~Matches(d, t, c2, vs)
  PROVE  GoOn(d, Update(t, c, v, c2, vs)) = d
<1>1. /\ Matches(d, t, c2, vs) => GoOn(d, Update(t, c, v, c2, vs)) = WithCells(d, t, {c}, v)
      /\ ~Matches(d, t, c2, vs) => GoOn(d, Update(t, c, v, c2, vs)) = d
  BY Updating
<1> QED
  BY <1>1

\* What columns written or lost do not change.
LEMMA AccountsSeen ==
  ASSUME NEW d, NEW e, Factors(e), e.rows = d.rows, e.connections = d.connections,
         NEW t \in TableNames, NEW cs, {"connection_count", "verification_type", "ticket_id"} \cap cs = {},
         \A u \in TableNames : \A c : ~(u = t /\ c \in cs) => Seen(e, u, c) = Seen(d, u, c),
         \A u \in TableNames : \A c : ~(u = t /\ c \in cs) => (Has(e, u, c) <=> Has(d, u, c))
  PROVE  KeepsAccounts(d, e)
<1>1. /\ Has(e, "users_oidc_clients", "connection_count")
           <=> Has(d, "users_oidc_clients", "connection_count")
      /\ Seen(e, "users_organizations", "verification_type")
           = Seen(d, "users_organizations", "verification_type")
      /\ Seen(e, "moderations", "ticket_id") = Seen(d, "moderations", "ticket_id")
  BY DEF TableNames
<1> QED
  BY <1>1, AccountsKept

LEMMA WroteHas ==
  ASSUME NEW d, NEW e, NEW t \in TableNames, NEW cs, NEW v, Wrote(d, e, t, cs, v)
  PROVE  \A u \in TableNames : \A c : Has(e, u, c) <=> Has(d, u, c) \/ (u = t /\ c \in cs)
BY DEF Wrote, Has, ColumnsOf

LEMMA LostHas ==
  ASSUME NEW d, NEW e, NEW t \in TableNames, NEW cs, Lost(d, e, t, cs)
  PROVE  \A u \in TableNames : \A c : Has(e, u, c) <=> Has(d, u, c) /\ ~(u = t /\ c \in cs)
BY DEF Lost, Has, ColumnsOf

LEMMA WroteKeeps ==
  ASSUME NEW n, NEW d, NEW m, NEW e, Firm(d, n), Firm(e, m), NEW t \in TableNames, NEW cs, NEW v,
         Wrote(d, e, t, cs, v), {"connection_count", "verification_type", "ticket_id"} \cap cs = {}
  PROVE  Keeps(d, e)
<1>1. e.rows = d.rows /\ e.connections = d.connections /\ e.domains = d.domains
  BY DEF Wrote
<1>2. KeepsDomains(d, e)
  BY <1>1, SameDomainsKept
<1>3. \A u \in TableNames : \A c : ~(u = t /\ c \in cs) => Seen(e, u, c) = Seen(d, u, c)
  BY WroteSeen
<1>4. \A u \in TableNames : \A c : ~(u = t /\ c \in cs) => (Has(e, u, c) <=> Has(d, u, c))
  BY WroteHas
<1>5. KeepsAccounts(d, e)
  BY <1>1, <1>3, <1>4, AccountsSeen DEF Firm
<1> QED
  BY <1>2, <1>5 DEF Keeps

\* The factors of a user.
LEMMA FactorsWritten ==
  ASSUME NEW n, NEW d, NEW e, Firm(d, n), NEW t, t = "users", NEW cs, cs = {"force_2fa"}, NEW v,
         Wrote(d, e, t, cs, v), v = "true" => HasFactor(d)
  PROVE  Firm(e, n)
<1>1. e.rows = d.rows
  BY DEF Wrote
<1>2. \A u \in TableNames : \A c :
        Seen(e, u, c) = IF u = t /\ c \in cs THEN v ELSE Seen(d, u, c)
  <2>1. t \in TableNames
    BY DEF TableNames
  <2> QED
    BY <2>1, WroteSeen
<1>3. TypeThere(e) /\ Numbers(e, n)
  BY <1>1, <1>2 DEF Firm, TypeThere, Numbers, TableNames
<1>4. Seen(e, "users", "encrypted_totp_key") = Seen(d, "users", "encrypted_totp_key")
  BY <1>2 DEF TableNames
<1>5. HasFactor(e) <=> HasFactor(d)
  BY <1>1, <1>4, FactorsSeen
<1>6. IsForced(e) => v = "true"
  BY <1>2, FactorsSeen DEF TableNames
<1>7. Factors(e)
  BY <1>1, <1>4, <1>5, <1>6 DEF Firm, Factors
<1>8. cs \cap NonNull(t) = {} /\ t \in TableNames
  BY DEF NonNull, TableNames
<1> QED
  BY <1>3, <1>7, <1>8, WroteFirm

LEMMA Good56 ==
  GoodUp(56)
<1> SUFFICES ASSUME NEW d, Sound(d, 55)
             PROVE  Sound(Run(d, Directory[56].up), 56) /\ Keeps(d, Run(d, Directory[56].up))
  BY DEF GoodUp
<1> DEFINE t == "users"
           c == "force_2fa"
           c2 == "encrypted_totp_key"
           vs == {"set"}
           s1 == AddWith(t, {c}, "false")
           s2 == Update(t, c, "true", c2, vs)
           e1 == WithCells(d, t, {c}, "false")
           e2 == GoOn(e1, s2)
           e3 == WithCells(e1, t, {c}, "true")
<1>1. PICK kept \in Keepable(55) : Shape(d) = ShapeAt(55, kept) /\ Quietly(d, d, ShapeAt(55, kept))
  BY SoundShape
<1>2. kept \in Keepable(56)
  BY <1>1, KeptStill
<1>3. /\ {c} \cap ShapeAt(55, kept)[t] = {} /\ c2 \in ShapeAt(55, kept)[t]
      /\ Plus(ShapeAt(55, kept), t, {c}) = ShapeAt(56, kept)
      /\ Plus(ShapeAt(56, kept), t, {c}) = ShapeAt(56, kept)
      /\ t \in TableNames
      /\ {"connection_count", "verification_type", "ticket_id"} \cap {c} = {}
  BY DEF Plus, ShapeAt, ColumnsAt, Devise, When, TableNames
<1>4. Directory[56].up = <<s1, s2>>
  BY DEF Directory, add_force_2fa
<1>5. t = "users" /\ {c} = {"force_2fa"} /\ c \in {c}
  OBVIOUS
<1> HIDE DEF t, c, c2, vs, s1, s2, e1, e2, e3
<1>6. Firm(d, 55) /\ IsDatabase(d) /\ d.ok /\ ColumnsOf(d, t) = ShapeAt(55, kept)[t]
  BY <1>1, <1>3, QuietlySeen DEF Sound
<1>7. Run(d, Directory[56].up) = e2
  <2>1. Run(d, Directory[56].up) = GoOn(GoOn(d, s1), s2)
    BY <1>4, RunTwo
  <2>2. GoOn(d, s1) = e1
    BY <1>3, <1>6, Adding DEF If, e1, s1
  <2> QED
    BY <2>1, <2>2 DEF e2
<1>8. Wrote(d, e1, t, {c}, "false")
  BY <1>3, <1>6, CellsWritten DEF e1
<1>9. Firm(e1, 55) /\ Shape(e1) = ShapeAt(56, kept)
  BY <1>1, <1>3, <1>5, <1>6, <1>8, FactorsWritten, ShapeWritten
<1>10. Keeps(d, e1)
  BY <1>3, <1>6, <1>8, <1>9, WroteKeeps
<1>11. IsDatabase(e1) /\ e1.ok /\ {c, c2} \subseteq ColumnsOf(e1, t)
  BY <1>3, <1>6, <1>8, <1>9 DEF Firm, Wrote
<1>12. CASE Matches(e1, t, c2, vs)
  <2>1. e2 = e3
    BY <1>11, <1>12, Updating DEF e2, e3, s2
  <2>2. Wrote(e1, e3, t, {c}, "true")
    BY <1>3, <1>11, CellsWritten DEF e3
  <2>3. HasFactor(e1)
    BY <1>5, <1>11, <1>12 DEF Matches, HasFactor, Has, c2, vs
  <2>4. Firm(e3, 55) /\ Shape(e3) = ShapeAt(56, kept)
    BY <1>3, <1>5, <1>9, <2>2, <2>3, FactorsWritten, ShapeWritten
  <2>5. Keeps(e1, e3)
    BY <1>3, <1>9, <2>2, <2>4, WroteKeeps
  <2>6. Firm(e3, 56)
    BY <2>4, FirmUp
  <2>7. Keeps(d, e3)
    BY <1>10, <2>5, KeepsOnAndOn
  <2> QED
    BY <1>2, <1>7, <2>1, <2>4, <2>6, <2>7 DEF Sound, Schema
<1>13. CASE ~Matches(e1, t, c2, vs)
  <2>1. e2 = e1
    BY <1>11, <1>13, NothingToUpdate DEF e2, s2
  <2>2. Firm(e1, 56)
    BY <1>9, FirmUp
  <2> QED
    BY <1>2, <1>7, <1>9, <1>10, <2>1, <2>2 DEF Sound, Schema
<1> QED
  BY <1>12, <1>13

LEMMA Good60 ==
  GoodUp(60)
<1> SUFFICES ASSUME NEW d, Sound(d, 59)
             PROVE  Sound(Run(d, Directory[60].up), 60) /\ Keeps(d, Run(d, Directory[60].up))
  BY DEF GoodUp
<1> DEFINE t == "users_organizations"
           c == "verification_type"
           cs == {c}
           v == "domain"
           vs == {"verified_email_domain", "trackdechets_email_domain", "official_contact_domain"}
           s1 == Update(t, c, v, c, vs)
           e1 == GoOn(d, s1)
           e2 == WithCells(d, t, cs, v)
<1>1. PICK kept \in Keepable(59) : Shape(d) = ShapeAt(59, kept) /\ Quietly(d, d, ShapeAt(59, kept))
  BY SoundShape
<1>2. kept \in Keepable(60)
  BY <1>1, KeptStill
<1>3. /\ c \in ShapeAt(59, kept)[t] /\ ShapeAt(59, kept) = ShapeAt(60, kept)
      /\ Plus(ShapeAt(59, kept), t, cs) = ShapeAt(60, kept)
      /\ t \in TableNames /\ cs \cap NonNull(t) = {}
  BY DEF Plus, ShapeAt, ColumnsAt, Devise, When, TableNames, NonNull
<1>4. Directory[60].up = <<s1>>
  BY DEF Directory, update_verification_type
<1>5. t \notin {"users", "moderations", "users_oidc_clients"} /\ v # "null" /\ "null" \notin vs
  OBVIOUS
<1> HIDE DEF t, c, cs, v, vs, s1, e1, e2
<1>6. Firm(d, 59) /\ IsDatabase(d) /\ d.ok /\ c \in ColumnsOf(d, t)
  BY <1>1, <1>3, QuietlySeen DEF Sound
<1>7. Run(d, Directory[60].up) = e1
  BY <1>4, RunOne DEF e1
<1>8. CASE Matches(d, t, c, vs)
  <2>1. e1 = e2
    BY <1>6, <1>8, Updating DEF e1, e2, s1, cs
  <2>2. Wrote(d, e2, t, cs, v)
    BY <1>3, <1>6, CellsWritten DEF e2
  <2>3. \A u \in TableNames : \A a : Seen(e2, u, a) = IF u = t /\ a \in cs THEN v ELSE Seen(d, u, a)
    BY <1>3, <2>2, WroteSeen
  <2>4. e2.rows = d.rows /\ e2.connections = d.connections /\ e2.domains = d.domains
    BY <2>2 DEF Wrote
  <2>5. /\ \A a : Seen(e2, "users", a) = Seen(d, "users", a)
        /\ \A a : Seen(e2, "moderations", a) = Seen(d, "moderations", a)
    BY <1>5, <2>3 DEF TableNames
  <2>6. TypeThere(e2) /\ Numbers(e2, 59)
    BY <1>6, <2>4, <2>5 DEF Firm, TypeThere, Numbers
  <2>7. Factors(e2)
    BY <1>6, <2>4, <2>5, FactorsSeen DEF Firm, Factors
  <2>8. Firm(e2, 59) /\ Shape(e2) = ShapeAt(60, kept)
    BY <1>1, <1>3, <1>6, <2>2, <2>6, <2>7, WroteFirm, ShapeWritten
  <2>9. Firm(e2, 60)
    BY <2>8, FirmUp
  <2>10. KeepsDomains(d, e2)
    BY <1>6, <2>4, <2>8, SameDomainsKept
  <2>11. Connections(e2) = Connections(d)
    <3>1. Has(e2, "users_oidc_clients", "connection_count") <=> Has(d, "users_oidc_clients", "connection_count")
      <4>1. e2.cell["users_oidc_clients"] = d.cell["users_oidc_clients"]
        BY <1>5, <2>2 DEF Wrote, TableNames
      <4> QED
        BY <4>1 DEF Has, ColumnsOf
    <3> QED
      BY <2>4, <3>1 DEF Connections
  <2>12. KeepsAccounts(d, e2)
    <3>1. ValueOf(d, t, c) # "null" /\ ValueOf(e2, t, c) # "null"
      <4>1. Has(d, t, c) /\ t \in d.rows /\ d.cell[t][c] \in vs
        BY <1>6, <1>8 DEF Matches, Has
      <4>2. ValueOf(d, t, c) # "null"
        BY <1>5, <4>1 DEF ValueOf
      <4>3. Seen(e2, t, c) = v
        BY <1>3, <2>3 DEF cs
      <4> QED
        BY <1>5, <2>4, <4>1, <4>2, <4>3, ValuesSeen
    <3>2. ValueOf(e2, "moderations", "ticket_id") = ValueOf(d, "moderations", "ticket_id")
      BY <2>4, <2>5, ValuesSeen
    <3>3. IsForced(e2) => HasFactor(e2)
      BY <2>7 DEF Factors
    <3> QED
      BY <2>11, <3>1, <3>2, <3>3 DEF KeepsAccounts, t, c
  <2> QED
    BY <1>2, <1>7, <2>1, <2>8, <2>9, <2>10, <2>12 DEF Sound, Schema, Keeps
<1>9. CASE ~Matches(d, t, c, vs)
  <2>1. e1 = d
    BY <1>6, <1>9, NothingToUpdate DEF e1, s1
  <2>2. Firm(d, 60)
    BY <1>6, FirmUp
  <2>3. Keeps(d, d)
    BY <1>1, <1>6, QuietlyKeeps
  <2> QED
    BY <1>1, <1>2, <1>3, <1>7, <2>1, <2>2, <2>3 DEF Sound, Schema
<1> QED
  BY <1>8, <1>9

LEMMA Good68 ==
  GoodUp(68)
<1> SUFFICES ASSUME NEW d, Sound(d, 67)
             PROVE  Sound(Run(d, Directory[68].up), 68) /\ Keeps(d, Run(d, Directory[68].up))
  BY DEF GoodUp
<1> DEFINE t == "users"
           c == "force_2fa"
           c2 == "encrypted_totp_key"
           vs == {"null"}
           s1 == DeleteRows("authenticators")
           s2 == Update(t, c, "false", c2, vs)
           e1 == [d EXCEPT !.rows = @ \ {"authenticators"}]
           e2 == GoOn(e1, s2)
           f == WithCells(e1, t, {c}, "false")
<1>1. PICK kept \in Keepable(67) : Shape(d) = ShapeAt(67, kept) /\ Quietly(d, d, ShapeAt(67, kept))
  BY SoundShape
<1>2. kept \in Keepable(68)
  BY <1>1, KeptStill
<1>3. /\ {c, c2} \subseteq ShapeAt(67, kept)[t] /\ ShapeAt(67, kept)["authenticators"] # {}
      /\ ShapeAt(67, kept) = ShapeAt(68, kept)
      /\ Plus(ShapeAt(67, kept), t, {c}) = ShapeAt(68, kept)
      /\ t \in TableNames /\ "authenticators" \in TableNames
  BY DEF Plus, ShapeAt, ColumnsAt, Devise, When, TableNames
<1>4. Directory[68].up = <<s1, s2>>
  BY DEF Directory, revoke_authenticators
<1> HIDE DEF s1, s2, e1, e2, f
<1>5. Firm(d, 67) /\ IsDatabase(d) /\ d.ok
  BY DEF Sound, Firm
<1>6. {c, c2} \subseteq ColumnsOf(d, t) /\ ColumnsOf(d, "authenticators") # {}
  BY <1>1, <1>3, NamesOfColumns
<1>7. Run(d, Directory[68].up) = e2
  <2>1. Run(d, Directory[68].up) = GoOn(GoOn(d, s1), s2)
    BY <1>4, RunTwo
  <2>2. GoOn(d, s1) = e1
    BY <1>5, <1>6, DeletingRows DEF If, e1, s1
  <2> QED
    BY <2>1, <2>2 DEF e2
<1>8. /\ e1.ok /\ e1.cell = d.cell /\ e1.rows = d.rows \ {"authenticators"} /\ e1.domains = d.domains
      /\ e1.connections = d.connections /\ e1.required = d.required /\ e1.unique = d.unique
      /\ e1.email = d.email /\ IsDatabase(e1)
  BY <1>5 DEF e1, IsDatabase
<1>9. Shape(e1) = ShapeAt(68, kept) /\ {c, c2} \subseteq ColumnsOf(e1, t)
  BY <1>1, <1>3, <1>6, <1>8 DEF Shape, ColumnsOf
<1>10. \A u, a : Seen(e1, u, a) = Seen(d, u, a)
  BY <1>8 DEF Seen, Has, ColumnsOf
<1>11. ASSUME Factors(e1)
       PROVE  Firm(e1, 68)
  <2>1. NeverNull(e1)
    BY <1>5, <1>8 DEF Firm, NeverNull, Has, ColumnsOf
  <2>2. Populated(e1, 68)
    BY <1>5, <1>8 DEF Firm, Populated
  <2>3. TypeThere(e1) /\ Numbers(e1, 68)
    BY <1>5, <1>8, <1>10 DEF Firm, TypeThere, Numbers
  <2>4. Counts(e1, 68)
    BY DEF Counts
  <2>5. Kinds(e1) = Kinds(d)
    BY <1>8 DEF Kinds, ColumnsOf
  <2>6. NoneElsewhere(e1)
    BY <1>5, <1>8, <2>5 DEF Firm, NoneElsewhere
  <2> QED
    BY <1>8, <1>11, <2>1, <2>2, <2>3, <2>4, <2>6 DEF Firm
<1>12. ASSUME NEW e, Firm(e, 68), e.rows = e1.rows, e.domains = d.domains,
              e.connections = d.connections,
              Has(e, "users_oidc_clients", "connection_count")
                <=> Has(d, "users_oidc_clients", "connection_count"),
              \A a : Seen(e, "users_organizations", a) = Seen(d, "users_organizations", a),
              \A a : Seen(e, "moderations", a) = Seen(d, "moderations", a)
       PROVE  Keeps(d, e)
  <2>1. KeepsDomains(d, e)
    BY <1>5, <1>12, SameDomainsKept
  <2>2. Connections(e) = Connections(d)
    BY <1>12 DEF Connections
  <2>3. /\ ValueOf(e, "users_organizations", "verification_type")
             = ValueOf(d, "users_organizations", "verification_type")
        /\ ValueOf(e, "moderations", "ticket_id") = ValueOf(d, "moderations", "ticket_id")
    BY <1>8, <1>12, ValuesSeen
  <2>4. IsForced(e) => HasFactor(e)
    BY <1>12 DEF Firm, Factors
  <2> QED
    BY <2>1, <2>2, <2>3, <2>4 DEF Keeps, KeepsAccounts
<1>13. CASE Matches(e1, t, c2, vs)
  <2>1. e2 = f
    BY <1>8, <1>9, <1>13, Updating DEF e2, f, s2
  <2>2. Wrote(e1, f, t, {c}, "false")
    BY <1>3, <1>8, CellsWritten DEF f
  <2>3. /\ f.rows = e1.rows /\ f.domains = d.domains /\ f.connections = d.connections /\ f.ok
        /\ IsDatabase(f) /\ \A u \in TableNames : u # "users" => f.cell[u] = d.cell[u]
        /\ ColumnsOf(f, t) = ColumnsOf(d, t) /\ f.cell[t][c] = "false"
        /\ \A a \in ColumnsOf(f, t) : a # c => f.cell[t][a] = d.cell[t][a]
    <3>1. ColumnsOf(e1, t) = ColumnsOf(d, t)
      BY <1>8 DEF ColumnsOf
    <3> QED
      BY <1>6, <1>8, <2>2, <3>1 DEF Wrote
  <2>4. /\ \A a : Seen(f, "users_organizations", a) = Seen(d, "users_organizations", a)
        /\ \A a : Seen(f, "moderations", a) = Seen(d, "moderations", a)
        /\ Has(f, "users_oidc_clients", "connection_count")
             <=> Has(d, "users_oidc_clients", "connection_count")
    BY <2>3 DEF Seen, Has, ColumnsOf, TableNames
  <2>5. Seen(f, t, c) = "false" /\ Seen(f, t, c2) = "null" /\ Seen(d, t, c2) = "null"
    BY <1>6, <1>8, <1>13, <2>3 DEF Seen, Has, Matches, ColumnsOf
  <2>6. Factors(f)
    BY <1>8, <2>3, <2>5, FactorsSeen DEF Factors
  <2>7. NeverNull(f)
    <3>1. c \notin NonNull(t)
      BY DEF NonNull
    <3>2. \A a \in NonNull(t) : Has(f, t, a) => f.cell[t][a] # "null"
      BY <1>3, <1>5, <2>3, <3>1 DEF Firm, NeverNull, Has
    <3>3. \A u \in TableNames : u # "users" => \A a \in NonNull(u) : Has(f, u, a) => f.cell[u][a] # "null"
      BY <1>5, <2>3 DEF Firm, NeverNull, Has, ColumnsOf
    <3> QED
      BY <3>2, <3>3 DEF NeverNull
  <2>8. Populated(f, 68)
    BY <1>5, <1>8, <2>3 DEF Firm, Populated
  <2>9. TypeThere(f) /\ Numbers(f, 68)
    BY <1>5, <1>8, <2>3, <2>4 DEF Firm, TypeThere, Numbers
  <2>10. Counts(f, 68)
    BY DEF Counts
  <2>11. NoneElsewhere(f)
    <3>1. Kinds(f) = Kinds(d)
      BY <2>3 DEF Kinds, ColumnsOf, TableNames
    <3> QED
      BY <1>5, <2>3, <3>1 DEF Firm, NoneElsewhere
  <2>12. Firm(f, 68)
    BY <2>3, <2>6, <2>7, <2>8, <2>9, <2>10, <2>11 DEF Firm
  <2>13. Keeps(d, f)
    BY <1>12, <2>3, <2>4, <2>12
  <2>14. Shape(f) = ShapeAt(68, kept)
    BY <1>3, <1>9, <2>2, ShapeWritten
  <2> QED
    BY <1>2, <1>7, <2>1, <2>12, <2>13, <2>14 DEF Sound, Schema
<1>14. CASE ~Matches(e1, t, c2, vs)
  <2>1. e2 = e1
    BY <1>8, <1>9, <1>14, NothingToUpdate DEF e2, s2
  <2>2. "users" \notin d.rows \/ Seen(d, t, c2) = "set"
    <3>1. "users" \notin e1.rows \/ e1.cell[t][c2] # "null"
      BY <1>14 DEF Matches
    <3>2. Seen(d, t, c2) = e1.cell[t][c2]
      BY <1>6, <1>8 DEF Seen, Has
    <3>3. Seen(d, t, c2) \in {"null", "set"}
      BY <1>5 DEF Firm, Factors
    <3> QED
      BY <1>8, <3>1, <3>2, <3>3
  <2>3. Factors(e1)
    BY <1>5, <1>8, <1>10, <2>2, FactorsSeen DEF Firm, Factors
  <2>4. Firm(e1, 68)
    BY <1>11, <2>3
  <2>5. Has(e1, "users_oidc_clients", "connection_count")
          <=> Has(d, "users_oidc_clients", "connection_count")
    BY <1>8 DEF Has, ColumnsOf
  <2>6. Keeps(d, e1)
    BY <1>8, <1>10, <1>12, <2>4, <2>5
  <2> QED
    BY <1>2, <1>7, <1>9, <2>1, <2>4, <2>6 DEF Sound, Schema
<1> QED
  BY <1>13, <1>14

\* The tickets, in one column or another.
TicketColumns == {"ticket_id", "ticket_id_int"}

LEMMA TicketsSeen ==
  ASSUME NEW n, NEW d, NEW e, Firm(d, n), e.rows = d.rows,
         \A u \in TableNames : \A c : ~(u = "moderations" /\ c \in TicketColumns) => Seen(e, u, c) = Seen(d, u, c),
         n < 63 /\ "moderations" \in d.rows => Seen(e, "moderations", "ticket_id") \in {"null", "number"}
  PROVE  TypeThere(e) /\ Numbers(e, n) /\ Factors(e)
<1>1. "type" \notin TicketColumns
  BY DEF TicketColumns
<1>2. Seen(e, "moderations", "type") = Seen(d, "moderations", "type")
  BY <1>1 DEF TableNames
<1>3. \A c : Seen(e, "users", c) = Seen(d, "users", c)
  BY DEF TableNames
<1>4. Factors(e)
  BY <1>3, FactorsSeen DEF Firm, Factors
<1> QED
  BY <1>2, <1>4 DEF Firm, TypeThere, Numbers

LEMMA TicketsWritten ==
  ASSUME NEW n, NEW d, NEW e, Firm(d, n), NEW t, t = "moderations", NEW cs \in SUBSET TicketColumns,
         NEW v, n < 63 /\ t \in d.rows => v \in {"null", "number"}, Wrote(d, e, t, cs, v)
  PROVE  Firm(e, n)
<1>1. t \in TableNames /\ cs \cap NonNull(t) = {}
  BY DEF TableNames, NonNull, TicketColumns
<1>2. e.rows = d.rows
  BY DEF Wrote
<1>3. \A u \in TableNames : \A c : Seen(e, u, c) = IF u = t /\ c \in cs THEN v ELSE Seen(d, u, c)
  BY <1>1, WroteSeen
<1>4. ASSUME n < 63, t \in d.rows
      PROVE  Seen(e, t, "ticket_id") \in {"null", "number"}
  <2>1. Seen(d, t, "ticket_id") \in {"null", "number"}
    BY <1>4 DEF Firm, Numbers
  <2> QED
    BY <1>1, <1>3, <1>4, <2>1
<1> QED
  BY <1>1, <1>2, <1>3, <1>4, TicketsSeen, WroteFirm

\* The column that is read is not there any more, or it is another one.
LEMMA TicketsLost ==
  ASSUME NEW n, NEW d, NEW e, Firm(d, n), NEW t, t = "moderations", NEW cs \in SUBSET TicketColumns,
         Lost(d, e, t, cs)
  PROVE  Firm(e, n)
<1>1. t \in TableNames /\ t \notin {"organizations", "email_domains"}
  BY DEF TableNames
<1>2. e.rows = d.rows
  BY DEF Lost
<1>3. \A u \in TableNames : \A c : Seen(e, u, c) = IF u = t /\ c \in cs THEN "null" ELSE Seen(d, u, c)
  BY <1>1, LostSeen
<1>4. ASSUME n < 63, t \in d.rows
      PROVE  Seen(e, t, "ticket_id") \in {"null", "number"}
  <2>1. Seen(d, t, "ticket_id") \in {"null", "number"}
    BY <1>4 DEF Firm, Numbers
  <2> QED
    BY <1>1, <1>3, <1>4, <2>1
<1> QED
  BY <1>1, <1>2, <1>3, <1>4, TicketsSeen, LostFirm

\* What becomes of a ticket does not change anything else.
SameButTickets(d, e) ==
  /\ e.rows = d.rows
  /\ e.domains = d.domains
  /\ e.connections = d.connections
  /\ \A u \in TableNames : u # "moderations" => e.cell[u] = d.cell[u]

LEMMA TicketsApart ==
  ASSUME NEW n, NEW d, NEW m, NEW e, Firm(d, n), Firm(e, m), SameButTickets(d, e),
         ValueOf(e, "moderations", "ticket_id") = ValueOf(d, "moderations", "ticket_id")
  PROVE  Keeps(d, e)
<1>1. KeepsDomains(d, e)
  BY SameDomainsKept DEF SameButTickets
<1>2. Seen(e, "users_organizations", "verification_type") = Seen(d, "users_organizations", "verification_type")
  BY DEF SameButTickets, Seen, Has, ColumnsOf, TableNames
<1>3. Has(e, "users_oidc_clients", "connection_count") <=> Has(d, "users_oidc_clients", "connection_count")
  BY DEF SameButTickets, Has, ColumnsOf, TableNames
<1>4. Connections(e) = Connections(d)
  BY <1>3 DEF SameButTickets, Connections
<1>5. ValueOf(e, "users_organizations", "verification_type") = ValueOf(d, "users_organizations", "verification_type")
  BY <1>2, ValuesSeen DEF SameButTickets
<1>6. IsForced(e) => HasFactor(e)
  BY DEF Firm, Factors
<1> QED
  BY <1>1, <1>4, <1>5, <1>6 DEF Keeps, KeepsAccounts

\* The row, if there is one, can be cast.
Casts(d, t, c, vs) == t \in d.rows => d.cell[t][c] \in vs
CastTo(d, t, c, c2) == IF t \in d.rows THEN WithCells(d, t, {c2}, d.cell[t][c]) ELSE d

LEMMA CastingWell ==
  ASSUME NEW d, d.ok, NEW t, NEW c, NEW c2, NEW vs, {c, c2} \subseteq ColumnsOf(d, t),
         Casts(d, t, c, vs)
  PROVE  GoOn(d, Cast(t, c, c2, vs)) = CastTo(d, t, c, c2)
<1> DEFINE s == Cast(t, c, c2, vs)
<1>1. s.do = "cast"
  BY DEF Cast
<1>2. s.table = t /\ s.from = c /\ s.to = c2 /\ s.values = vs
  BY DEF Cast
<1> HIDE DEF s
<1>3. Execute(d, s)
       = If({s.from, s.to} \subseteq ColumnsOf(d, s.table) /\ (s.table \in d.rows => d.cell[s.table][s.from] \in s.values),
           IF s.table \in d.rows THEN WithCells(d, s.table, {s.to}, d.cell[s.table][s.from]) ELSE d)
  BY <1>1 DEF Execute
<1>4. {s.from, s.to} \subseteq ColumnsOf(d, s.table) /\ (s.table \in d.rows => d.cell[s.table][s.from] \in s.values)
  BY <1>2 DEF Casts
<1>5. GoOn(d, s) = Execute(d, s)
  BY DEF GoOn
<1>6. GoOn(d, s) = IF s.table \in d.rows THEN WithCells(d, s.table, {s.to}, d.cell[s.table][s.from]) ELSE d
  BY <1>3, <1>4, <1>5 DEF If
<1> QED
  BY <1>2, <1>6 DEF s, CastTo

LEMMA Good63 ==
  GoodUp(63)
<1> SUFFICES ASSUME NEW d, Sound(d, 62)
             PROVE  Sound(Run(d, Directory[63].up), 63) /\ Keeps(d, Run(d, Directory[63].up))
  BY DEF GoodUp
<1> DEFINE t == "moderations"
           c == "ticket_id"
           c2 == "ticket_id_int"
           vs == {"null", "number"}
           v == d.cell[t][c]
           s1 == Rename(t, c, c2)
           s2 == AddWith(t, {c}, "null")
           s3 == Cast(t, c2, c, vs)
           s4 == Drop(t, {c2})
           e0 == WithoutCells(d, t, {c})
           e1 == WithCells(e0, t, {c2}, v)
           e2 == WithCells(e1, t, {c}, "null")
           e3 == IF t \in d.rows THEN WithCells(e2, t, {c}, v) ELSE e2
           e4 == WithoutCells(e3, t, {c2})
<1>1. PICK kept \in Keepable(62) : Shape(d) = ShapeAt(62, kept) /\ Quietly(d, d, ShapeAt(62, kept))
  BY SoundShape
<1>2. kept \in Keepable(63)
  BY <1>1, KeptStill
<1>3. /\ c \in ShapeAt(62, kept)[t] /\ c2 \notin ShapeAt(62, kept)[t]
      /\ ShapeAt(62, kept) = ShapeAt(63, kept)
  BY DEF ShapeAt, ColumnsAt, Devise, When, TableNames
<1>4. Directory[63].up = <<s1, s2, s3, s4>>
  BY DEF Directory, update_ticket_id, Add
<1>5. /\ t \in TableNames /\ t = "moderations" /\ c # c2 /\ c = "ticket_id"
      /\ {c} \in SUBSET TicketColumns /\ {c2} \in SUBSET TicketColumns
      /\ vs = {"null", "number"} /\ "null" \in vs
  BY DEF TableNames, TicketColumns
<1> HIDE DEF t, c, c2, vs, v, s1, s2, s3, s4, e0, e1, e2, e3, e4
<1>6. Firm(d, 62) /\ IsDatabase(d) /\ d.ok
  BY DEF Sound, Firm
<1>7. c \in ColumnsOf(d, t) /\ c2 \notin ColumnsOf(d, t)
  BY <1>1, <1>3, <1>5, NamesOfColumns
<1>8. t \in d.rows => v \in vs
  BY <1>5, <1>6, <1>7 DEF Firm, Numbers, Seen, Has, v
<1>9. Lost(d, e0, t, {c}) /\ Firm(e0, 62)
  BY <1>5, <1>6, CellsLost, TicketsLost DEF e0
<1>10. IsDatabase(e0) /\ e0.ok
  BY <1>9 DEF Firm
<1>11. Wrote(e0, e1, t, {c2}, v)
  BY <1>5, <1>10, CellsWritten DEF e1
<1>12. e0.rows = d.rows /\ e1.rows = d.rows
  BY <1>9, <1>11 DEF Lost, Wrote
<1>13. Firm(e1, 62) /\ IsDatabase(e1) /\ e1.ok
  <2>1. Firm(e1, 62)
    BY <1>5, <1>8, <1>9, <1>11, <1>12, TicketsWritten
  <2> QED
    BY <2>1 DEF Firm
<1>14. Wrote(e1, e2, t, {c}, "null")
  BY <1>5, <1>13, CellsWritten DEF e2
<1>15. Firm(e2, 62) /\ IsDatabase(e2) /\ e2.ok /\ e2.rows = d.rows
  <2>1. Firm(e2, 62)
    BY <1>5, <1>13, <1>14, TicketsWritten
  <2> QED
    BY <1>12, <1>14, <2>1 DEF Firm, Wrote
<1>16. Wrote(e2, e3, t, {c}, IF t \in d.rows THEN v ELSE "null")
  <2>1. CASE t \in d.rows
    BY <1>5, <1>15, <2>1, CellsWritten DEF e3
  <2>2. CASE t \notin d.rows
    <3>1. e3 = e2
      BY <2>2 DEF e3
    <3>2. \A a \in ColumnsOf(e2, t) : e2.cell[t][a] = IF a \in {c} THEN "null" ELSE e2.cell[t][a]
      BY <1>14 DEF Wrote
    <3>3. ColumnsOf(e2, t) = ColumnsOf(e2, t) \cup {c}
      BY <1>14 DEF Wrote
    <3> QED
      BY <1>15, <2>2, <3>1, <3>2, <3>3 DEF Wrote
  <2> QED
    BY <2>1, <2>2
<1>17. Firm(e3, 62) /\ IsDatabase(e3) /\ e3.ok /\ e3.rows = d.rows
  <2>1. Firm(e3, 62)
    BY <1>5, <1>8, <1>15, <1>16, TicketsWritten
  <2> QED
    BY <1>15, <1>16, <2>1 DEF Firm, Wrote
<1>18. Lost(e3, e4, t, {c2}) /\ Firm(e4, 62)
  BY <1>5, <1>17, CellsLost, TicketsLost DEF e4
<1>19. Run(d, Directory[63].up) = e4
  <2>1. GoOn(d, s1) = e1
    BY <1>6, <1>7, Renaming DEF If, e0, e1, v, s1
  <2>2. {c} \cap ColumnsOf(e1, t) = {} /\ c2 \in ColumnsOf(e1, t) /\ (c2 \in ColumnsOf(e1, t) => e1.cell[t][c2] = v)
    BY <1>5, <1>9, <1>11 DEF Lost, Wrote
  <2>3. GoOn(e1, s2) = e2
    BY <1>13, <2>2, Adding DEF If, e2, s2
  <2>4. {c2, c} \subseteq ColumnsOf(e2, t) /\ e2.cell[t][c2] = v
    BY <1>5, <1>14, <2>2 DEF Wrote
  <2>5. GoOn(e2, s3) = e3
    <3>1. Casts(e2, t, c2, vs)
      BY <1>8, <1>15, <2>4 DEF Casts
    <3>2. GoOn(e2, s3) = CastTo(e2, t, c2, c)
      BY <1>15, <2>4, <3>1, CastingWell DEF s3
    <3> QED
      BY <1>15, <2>4, <3>2 DEF e3, CastTo
  <2>6. {c2} \subseteq ColumnsOf(e3, t)
    BY <1>16, <2>4 DEF Wrote
  <2>7. GoOn(e3, s4) = e4
    BY <1>17, <2>6, Dropping DEF If, e4, s4
  <2>8. Run(d, Directory[63].up) = GoOn(GoOn(GoOn(GoOn(d, s1), s2), s3), s4)
    BY <1>4, RunFour
  <2> QED
    BY <2>1, <2>3, <2>5, <2>7, <2>8
<1>20. SameButTickets(d, e4)
  <2>1. t # "organizations" /\ t = "moderations"
    BY <1>5
  <2>2. e0.domains = d.domains /\ e4.domains = e3.domains
    BY <1>6, <1>9, <1>17, <1>18, <2>1, LostDomains
  <2>3. e1.domains = e0.domains /\ e2.domains = e1.domains /\ e3.domains = e2.domains
    BY <1>11, <1>14, <1>16 DEF Wrote
  <2>4. e4.rows = d.rows /\ e4.connections = d.connections
    BY <1>9, <1>11, <1>14, <1>16, <1>18 DEF Wrote, Lost
  <2>5. \A u \in TableNames : u # t => e4.cell[u] = d.cell[u]
    BY <1>9, <1>11, <1>14, <1>16, <1>18 DEF Wrote, Lost
  <2> QED
    BY <2>1, <2>2, <2>3, <2>4, <2>5 DEF SameButTickets
<1>21. ColumnsOf(e4, t) = ColumnsOf(d, t)
  BY <1>5, <1>7, <1>9, <1>11, <1>14, <1>16, <1>18 DEF Wrote, Lost
<1>22. Shape(e4) = ShapeAt(63, kept)
  <2>1. \A u \in TableNames : ColumnsOf(e4, u) = ColumnsOf(d, u)
    BY <1>5, <1>20, <1>21 DEF SameButTickets, ColumnsOf
  <2>2. Shape(e4) = Shape(d)
    BY <2>1 DEF Shape
  <2> QED
    BY <1>1, <1>3, <2>2
<1>23. ValueOf(e4, t, c) = ValueOf(d, t, c)
  <2>1. CASE t \in d.rows
    <3>1. Seen(e3, t, c) = v
      BY <1>5, <1>16, <2>1, WroteSeen
    <3>2. Seen(e4, t, c) = Seen(e3, t, c)
      BY <1>5, <1>18, LostSeen
    <3>3. Seen(d, t, c) = v
      BY <1>7 DEF Seen, Has, v
    <3> QED
      BY <1>17, <1>20, <2>1, <3>1, <3>2, <3>3, ValuesSeen DEF SameButTickets
  <2>2. CASE t \notin d.rows
    BY <1>20, <2>2 DEF SameButTickets, ValueOf
  <2> QED
    BY <2>1, <2>2
<1>24. Firm(e4, 63)
  BY <1>18, FirmUp
<1>25. Keeps(d, e4)
  BY <1>5, <1>6, <1>20, <1>23, <1>24, TicketsApart
<1> QED
  BY <1>2, <1>19, <1>22, <1>24, <1>25 DEF Sound, Schema

(***************************************************************************)
(* The connections, once they are counted no more.                         *)
(***************************************************************************)

WithConnections(d, m) == [d EXCEPT !.connections = m]

LEMMA Reconnected ==
  ASSUME NEW d, IsDatabase(d), NEW m \in Seq(Nat), NEW e, e = WithConnections(d, m)
  PROVE  /\ IsDatabase(e) /\ (e.ok <=> d.ok) /\ e.cell = d.cell /\ e.rows = d.rows
         /\ e.domains = d.domains /\ e.connections = m /\ e.email = d.email
BY DEF IsDatabase, WithConnections

LEMMA Concatenated ==
  ASSUME NEW m \in Seq(Nat), NEW n \in Seq(Nat)
  PROVE  m \o n \in Seq(Nat) /\ Len(m \o n) = Len(m) + Len(n)
OBVIOUS

LEMMA Normalized ==
  ASSUME NEW d, IsDatabase(d), Counted(d)
  PROVE  \E m \in Seq(Nat) : /\ NormalizeConnections(d) = WithConnections(d, m)
                             /\ Len(m) = Total(d.connections, DOMAIN d.connections)
<1> DEFINE n == d.connections
           f == [i \in DOMAIN n |-> n[i] - 1]
           more == Total(f, DOMAIN n)
           zeros == [i \in 1..more |-> 0]
           m == n \o zeros
<1>1. NormalizeConnections(d) = WithConnections(d, m)
  BY DEF NormalizeConnections, WithConnections, IsDatabase
<1>2. ASSUME more \in Nat
      PROVE  zeros \in Seq(Nat) /\ Len(zeros) = more
  BY <1>2
<1>3. CASE n = <<>>
  <2>1. DOMAIN n = {}
    BY <1>3
  <2>2. more = 0 /\ Total(n, DOMAIN n) = 0
    BY <2>1, TotalOfNone
  <2>3. zeros \in Seq(Nat) /\ Len(zeros) = 0
    BY <1>2, <2>2
  <2> HIDE DEF zeros, more
  <2>4. m \in Seq(Nat) /\ Len(m) = 0
    BY <1>3, <2>3
  <2> QED
    BY <1>1, <2>2, <2>4
<1>4. CASE n # <<>>
  <2>1. PICK k \in Nat : n = <<k + 1>>
    BY <1>4 DEF Counted
  <2>2. DOMAIN n = {1} /\ n[1] = k + 1 /\ n \in Seq(Nat) /\ Len(n) = 1
    BY <2>1
  <2>3. f[1] = k
    BY <2>2
  <2> HIDE DEF f
  <2>4. more = k
    BY <2>2, <2>3, TotalOfOne
  <2>5. Total(n, DOMAIN n) = k + 1
    BY <2>2, TotalOfOne
  <2>6. zeros \in Seq(Nat) /\ Len(zeros) = k
    BY <1>2, <2>4
  <2> HIDE DEF zeros, more
  <2>7. m \in Seq(Nat) /\ Len(m) = Len(n) + Len(zeros)
    BY <2>2, <2>6, Concatenated
  <2>8. Len(m) = k + 1
    BY <2>2, <2>6, <2>7
  <2> QED
    BY <1>1, <2>5, <2>7, <2>8
<1> QED
  BY <1>3, <1>4

\* The number of connections is theirs, whatever they count.
LEMMA Good35 ==
  GoodUp(35)
<1> SUFFICES ASSUME NEW d, Sound(d, 34)
             PROVE  Sound(Run(d, Directory[35].up), 35) /\ Keeps(d, Run(d, Directory[35].up))
  BY DEF GoodUp
<1> DEFINE t == "users_oidc_clients"
           c == "id"
           cs == {"connection_count"}
           name == "normalize connections"
           s1 == AddWith(t, {c}, "null")
           s2 == Rewrite(name)
           s3 == Drop(t, cs)
           e1 == WithCells(d, t, {c}, "null")
           e2 == NormalizeConnections(e1)
           e3 == WithoutCells(e2, t, cs)
           N == Total(d.connections, DOMAIN d.connections)
<1>1. PICK kept \in Keepable(34) : Shape(d) = ShapeAt(34, kept) /\ Quietly(d, d, ShapeAt(34, kept))
  BY SoundShape
<1>2. kept \in Keepable(35)
  BY <1>1, KeptStill
<1>3. /\ {c} \cap ShapeAt(34, kept)[t] = {} /\ cs \subseteq ShapeAt(34, kept)[t]
      /\ "connection_count" \in ShapeAt(34, kept)[t]
      /\ Minus(Plus(ShapeAt(34, kept), t, {c}), t, cs) = ShapeAt(35, kept)
      /\ {c} \cap NonNull(t) = {} /\ Telling(t) = {}
      /\ "connection_count" \notin {c}
  BY DEF Plus, Minus, ShapeAt, ColumnsAt, Devise, When, TableNames, NonNull, Telling
<1>4. Directory[35].up = <<s1, s2, s3>>
  BY DEF Directory, normalize_connection_counter, Add
<1>5. t \in TableNames /\ t \notin {"organizations", "email_domains"} /\ t = "users_oidc_clients"
      /\ cs = {"connection_count"}
  BY DEF TableNames
<1>6. Rewritten(e1, name) = e2
  BY DEF Rewritten
<1> HIDE DEF t, c, cs, name, s1, s2, s3, e1, e2, e3, N
<1>7. Firm(d, 34) /\ IsDatabase(d) /\ d.ok /\ ColumnsOf(d, t) = ShapeAt(34, kept)[t]
  BY <1>1, <1>5, QuietlySeen DEF Sound
<1>8. Wrote(d, e1, t, {c}, "null")
  BY <1>5, <1>7, CellsWritten DEF e1
<1>9. /\ IsDatabase(e1) /\ e1.ok /\ e1.rows = d.rows /\ e1.domains = d.domains
      /\ e1.connections = d.connections /\ ColumnsOf(e1, t) = ColumnsOf(d, t) \cup {c}
      /\ \A u \in TableNames : u # t => e1.cell[u] = d.cell[u]
  BY <1>7, <1>8 DEF Wrote
<1>10. Firm(e1, 34)
  <2>1. \A u \in TableNames : \A a \in Telling(u) : Seen(e1, u, a) = Seen(d, u, a)
    BY <1>3, <1>9 DEF Seen, Has, ColumnsOf
  <2>2. TypeThere(e1) /\ Numbers(e1, 34) /\ Factors(e1)
    BY <1>7, <1>9, <2>1, SeenSame
  <2> QED
    BY <1>3, <1>5, <1>7, <1>8, <2>2, WroteFirm
<1>11. PICK m \in Seq(Nat) : e2 = WithConnections(e1, m) /\ Len(m) = N
  <2>1. Counted(e1)
    BY <1>10 DEF Firm, Counts
  <2> QED
    BY <1>9, <2>1, Normalized DEF e2, N
<1>12. /\ IsDatabase(e2) /\ e2.ok /\ e2.cell = e1.cell /\ e2.rows = d.rows
       /\ e2.domains = d.domains /\ e2.connections = m
  BY <1>9, <1>11, Reconnected
<1>13. Firm(e2, 35)
  <2>1. NeverNull(e2)
    BY <1>10, <1>12 DEF Firm, NeverNull, Has, ColumnsOf
  <2>2. Populated(e2, 35)
    BY <1>7, <1>12 DEF Firm, Populated
  <2>3. \A u, a : Seen(e2, u, a) = Seen(e1, u, a)
    BY <1>12 DEF Seen, Has, ColumnsOf
  <2>4. TypeThere(e2) /\ Numbers(e2, 35) /\ Factors(e2)
    BY <1>9, <1>10, <1>12, <2>3, FactorsSeen DEF Firm, TypeThere, Numbers, Factors
  <2>5. Counts(e2, 35)
    BY DEF Counts
  <2>6. Kinds(e2) = Kinds(e1)
    BY <1>12 DEF Kinds, ColumnsOf
  <2>7. NoneElsewhere(e2)
    BY <1>9, <1>10, <1>12, <2>6 DEF Firm, NoneElsewhere
  <2> QED
    BY <1>12, <2>1, <2>2, <2>4, <2>5, <2>7 DEF Firm
<1>14. Lost(e2, e3, t, cs)
  BY <1>5, <1>12, CellsLost DEF e3
<1>15. /\ e3.rows = d.rows /\ e3.connections = m
       /\ \A u \in TableNames : u # t => e3.cell[u] = d.cell[u]
       /\ ColumnsOf(e3, t) = ColumnsOf(e1, t) \ cs
  BY <1>9, <1>12, <1>14 DEF Lost, ColumnsOf
<1>16. \A u \in TableNames : u # t => \A a : Seen(e3, u, a) = Seen(d, u, a)
  BY <1>15 DEF Seen, Has, ColumnsOf
<1>17. Firm(e3, 35)
  <2>1. \A u \in TableNames : \A a \in Telling(u) : Seen(e3, u, a) = Seen(e2, u, a)
    BY <1>3, <1>9, <1>12, <1>15 DEF Seen, Has, ColumnsOf
  <2>2. e3.rows = e2.rows
    BY <1>12, <1>15
  <2>3. TypeThere(e3) /\ Numbers(e3, 35) /\ Factors(e3)
    BY <1>13, <2>1, <2>2, SeenSame
  <2> QED
    BY <1>5, <1>13, <1>14, <2>3, LostFirm
<1>18. e3.domains = d.domains
  BY <1>5, <1>12, <1>14, LostDomains
<1>19. Shape(e3) = ShapeAt(35, kept)
  <2>1. Shape(e1) = Plus(ShapeAt(34, kept), t, {c})
    BY <1>1, <1>5, <1>8, ShapeWritten
  <2>2. Shape(e2) = Shape(e1)
    BY <1>12 DEF Shape, ColumnsOf
  <2> QED
    BY <1>3, <1>5, <1>14, <2>1, <2>2, ShapeLost
<1>20. Keeps(d, e3)
  <2>1. KeepsDomains(d, e3)
    BY <1>7, <1>17, <1>18, SameDomainsKept
  <2>2. Has(d, t, "connection_count") /\ ~Has(e3, t, "connection_count")
    BY <1>3, <1>5, <1>7, <1>15 DEF Has
  <2>3. Connections(e3) = Connections(d)
    BY <1>5, <1>11, <1>15, <2>2 DEF Connections, N
  <2>4. /\ ValueOf(e3, "users_organizations", "verification_type")
             = ValueOf(d, "users_organizations", "verification_type")
        /\ ValueOf(e3, "moderations", "ticket_id") = ValueOf(d, "moderations", "ticket_id")
    BY <1>5, <1>15, <1>16, ValuesSeen DEF TableNames
  <2>5. IsForced(e3) => HasFactor(e3)
    BY <1>17 DEF Firm, Factors
  <2> QED
    BY <2>1, <2>3, <2>4, <2>5 DEF Keeps, KeepsAccounts
<1>21. Run(d, Directory[35].up) = e3
  <2>1. GoOn(d, s1) = e1
    BY <1>3, <1>7, Adding DEF If, e1, s1
  <2>2. GoOn(e1, s2) = e2
    BY <1>6, <1>9, Rewriting DEF s2
  <2>3. cs \subseteq ColumnsOf(e2, t)
    BY <1>3, <1>7, <1>9, <1>12 DEF ColumnsOf
  <2>4. GoOn(e2, s3) = e3
    BY <1>12, <2>3, Dropping DEF If, e3, s3
  <2>5. Run(d, Directory[35].up) = GoOn(GoOn(GoOn(d, s1), s2), s3)
    BY <1>4, RunThree
  <2> QED
    BY <2>1, <2>2, <2>4, <2>5
<1> QED
  BY <1>2, <1>17, <1>19, <1>20, <1>21 DEF Sound, Schema

(***************************************************************************)
(* The lists that become rows.                                             *)
(***************************************************************************)

LEMMA TypesOfLists ==
  /\ DOMAIN TypeOf = Lists \cap Read
  /\ Types \subseteq Read /\ Lists \cap Types = {}
  /\ \A k \in DOMAIN TypeOf : TypeOf[k] \in Types
  /\ \A k \in DOMAIN TypeOf, j \in DOMAIN TypeOf : TypeOf[j] = TypeOf[k] => j = k
<1> DEFINE K == Lists \ {"external_verified_email_domains"}
<1>1. DOMAIN TypeOf = K
  BY DEF TypeOf
<1>2. /\ TypeOf["authorized_email_domains"] = "none"
      /\ TypeOf["external_authorized_email_domains"] = "external"
      /\ TypeOf["verified_email_domains"] = "verified"
      /\ TypeOf["trackdechets_email_domains"] = "trackdechets_postal_mail"
  BY DEF TypeOf, Lists
<1>3. K = {"authorized_email_domains", "external_authorized_email_domains",
           "verified_email_domains", "trackdechets_email_domains"}
  BY DEF Lists
<1>4. \A k \in K : TypeOf[k] \in Types
  BY <1>2, <1>3 DEF Types
<1>5. \A k \in K, j \in K : TypeOf[j] = TypeOf[k] => j = k
  BY <1>2, <1>3
<1>6. K = Lists \cap Read
  BY DEF Lists, Types, Read
<1>7. Types \subseteq Read /\ Lists \cap Types = {}
  BY DEF Lists, Types, Read
<1> QED
  BY <1>1, <1>4, <1>5, <1>6, <1>7

LEMMA RowsOfDomainsMade ==
  ASSUME NEW d, IsDatabase(d)
  PROVE  /\ Rewrote(d, MakeRowsOfDomains(d))
         /\ \A k \in DOMAIN TypeOf : MakeRowsOfDomains(d).domains[TypeOf[k]] = d.domains[k]
         /\ \A l \in Lists \cup Types : (\A k \in DOMAIN TypeOf : TypeOf[k] # l)
              => MakeRowsOfDomains(d).domains[l] = d.domains[l]
<1> DEFINE from(l) == CHOOSE k \in DOMAIN TypeOf : TypeOf[k] = l
           g == [l \in Lists \cup Types |-> IF \E k \in DOMAIN TypeOf : TypeOf[k] = l
                                            THEN d.domains[from(l)] ELSE d.domains[l]]
<1>1. d.domains \in [Lists \cup Types -> [Domains -> Nat]] /\ DOMAIN d.domains = Lists \cup Types
  BY DEF IsDatabase
<1>2. MakeRowsOfDomains(d) = WithDomains(d, g)
  BY <1>1 DEF MakeRowsOfDomains, WithDomains
<1>3. \A k \in DOMAIN TypeOf : from(TypeOf[k]) = k
  BY TypesOfLists
<1>4. \A l \in Lists \cup Types : (\E k \in DOMAIN TypeOf : TypeOf[k] = l) => from(l) \in DOMAIN TypeOf
  BY <1>3
<1>5. DOMAIN TypeOf \subseteq Lists
  BY TypesOfLists
<1> HIDE DEF from
<1>6. g \in [Lists \cup Types -> [Domains -> Nat]]
  BY <1>1, <1>4, <1>5
<1>7. \A l \in Lists \cup Types : g[l] = IF \E k \in DOMAIN TypeOf : TypeOf[k] = l
                                        THEN d.domains[from(l)] ELSE d.domains[l]
  OBVIOUS
<1> HIDE DEF g
<1>8. Rewrote(d, WithDomains(d, g)) /\ WithDomains(d, g).domains = g
  BY <1>6, DomainsRewritten
<1>9. \A k \in DOMAIN TypeOf : g[TypeOf[k]] = d.domains[k]
  BY <1>3, <1>7, TypesOfLists
<1>10. \A l \in Lists \cup Types : (\A k \in DOMAIN TypeOf : TypeOf[k] # l) => g[l] = d.domains[l]
  BY <1>7
<1> QED
  BY <1>2, <1>8, <1>9, <1>10

LEMMA Good57 ==
  GoodUp(57)
<1> SUFFICES ASSUME NEW d, Sound(d, 56)
             PROVE  Sound(Run(d, Directory[57].up), 57) /\ Keeps(d, Run(d, Directory[57].up))
  BY DEF GoodUp
<1> DEFINE t == "email_domains"
           cs == {"id", "organization_id", "domain", "verification_type", "can_be_suggested",
                  "verified_at", "created_at", "updated_at"}
           o == "organizations"
           ls == DOMAIN TypeOf
           name == "make rows of domains"
           s1 == CreateTable(t, cs)
           s2 == Rewrite(name)
           s3 == Drop(o, ls)
           e1 == GoOn(d, s1)
           e2 == MakeRowsOfDomains(e1)
           e3 == WithoutCells(e2, o, ls)
           zero == [x \in Domains |-> 0]
<1>1. PICK kept \in Keepable(56) : Shape(d) = ShapeAt(56, kept) /\ Quietly(d, d, ShapeAt(56, kept))
  BY SoundShape
<1>2. kept \in Keepable(57)
  BY <1>1, KeptStill
<1>3. ls = {"authorized_email_domains", "external_authorized_email_domains",
            "verified_email_domains", "trackdechets_email_domains"}
  BY DEF TypeOf, Lists
<1>4. /\ MayCreate(ShapeAt(56, kept), t, cs)
      /\ ShapeAt(56, kept)[t] = {}
      /\ ls \subseteq Plus(ShapeAt(56, kept), t, cs)[o]
      /\ Plus(ShapeAt(56, kept), t, cs)[t] # {}
      /\ Minus(Plus(ShapeAt(56, kept), t, cs), o, ls) = ShapeAt(57, kept)
  BY <1>3 DEF MayCreate, MayWrite, Plus, Minus, ShapeAt, ColumnsAt, Devise, When, TableNames,
     Telling, NonNull
<1>5. Directory[57].up = <<s1, s2, s3>>
  BY DEF Directory, refactor_email_domains
<1>6. t \in TableNames /\ o \in TableNames
  BY DEF TableNames
<1>7. Rewritten(e1, name) = e2
  BY DEF Rewritten
<1>8. ls = Lists \cap Read /\ ls \subseteq Lists
  BY TypesOfLists
<1> HIDE DEF cs, ls, name, s1, s2, s3, e1, e2, e3
<1>9. Firm(d, 56) /\ ColumnsOf(d, t) = {}
  BY <1>1, <1>4, <1>6, QuietlySeen DEF Sound
<1>10. Quietly(d, e1, Plus(ShapeAt(56, kept), t, cs))
  BY <1>1, <1>4, <1>6, AndCreates DEF e1, s1
<1>11. Firm(e1, 56) /\ IsDatabase(e1) /\ e1.ok /\ e1.domains = d.domains /\ Keeps(d, e1)
  <2>1. Firm(e1, 56) /\ Keeps(d, e1)
    BY <1>9, <1>10, QuietlyFirm, QuietlyKeeps
  <2> QED
    BY <1>10, <2>1 DEF Quietly, Alike
<1>12. Shape(e1) = Plus(ShapeAt(56, kept), t, cs) /\ ColumnsOf(e1, t) # {} /\ ls \subseteq ColumnsOf(e1, o)
  BY <1>4, <1>6, <1>10, QuietlySeen
<1>13. Types \subseteq Kinds(e1)
  BY <1>12 DEF Kinds
<1>14. \A k \in Types : \A x \in Domains : e1.domains[k][x] = 0
  <2>1. \A k \in Types : k \notin Kinds(d)
    BY <1>9 DEF Kinds, Types, Lists
  <2> QED
    BY <1>9, <1>11, <2>1 DEF Firm, NoneElsewhere
<1>15. /\ Rewrote(e1, e2)
       /\ \A k \in ls : e2.domains[TypeOf[k]] = e1.domains[k]
       /\ \A l \in Lists \cup Types : (\A k \in ls : TypeOf[k] # l) => e2.domains[l] = e1.domains[l]
  BY <1>11, RowsOfDomainsMade DEF e2, ls
<1>16. NoneElsewhere(e2)
  <2>1. Kinds(e2) = Kinds(e1)
    BY <1>15, RewroteSame
  <2>2. \A l \in (Lists \cup Types) \ Kinds(e1) : \A k \in ls : TypeOf[k] # l
    BY <1>13, TypesOfLists DEF ls
  <2> QED
    BY <1>11, <1>15, <2>1, <2>2 DEF Firm, NoneElsewhere
<1>17. Firm(e2, 56) /\ IsDatabase(e2) /\ e2.ok
  <2>1. Firm(e2, 56)
    BY <1>11, <1>15, <1>16, RewroteFirm
  <2> QED
    BY <2>1 DEF Firm
<1>18. Lost(e2, e3, o, ls)
  BY <1>6, <1>17, CellsLost DEF e3
<1>19. Firm(e3, 56)
  BY <1>8, <1>17, <1>18, ListsLostFirm
<1>20. \A l \in Lists \cup Types : e3.domains[l] = IF l \in ls THEN zero ELSE e2.domains[l]
  BY <1>18 DEF Lost
<1>21. Shape(e3) = ShapeAt(57, kept)
  <2>1. Shape(e2) = Plus(ShapeAt(56, kept), t, cs)
    BY <1>12, <1>15, RewroteSame
  <2> QED
    BY <1>4, <1>6, <1>18, <2>1, ShapeLost
<1>22. KeepsCopies(e1.domains, e3.domains)
  <2>1. \A type \in Types : Meaning(type) = type /\ type \notin ls /\ type \in Read
    BY TypesOfLists DEF Meaning, ls
  <2>2. ASSUME NEW y, NEW m, Tells(e1.domains, y, m)
        PROVE  Tells(e3.domains, y, m)
    <3>1. PICK x \in Domains, k \in Read : Lower[x] = y /\ Meaning(k) = m /\ e1.domains[k][x] > 0
      BY <2>2 DEF Tells
    <3>2. k \in ls
      BY <1>8, <1>14, <3>1 DEF Read
    <3>3. m = TypeOf[k] /\ m \in Types
      BY <3>1, <3>2, TypesOfLists DEF Meaning, ls
    <3>4. e3.domains[m] = e1.domains[k]
      BY <1>15, <1>20, <2>1, <3>2, <3>3
    <3> QED
      BY <2>1, <3>1, <3>3, <3>4 DEF Tells
  <2>3. ASSUME NEW y, NEW m, Tells(e3.domains, y, m)
        PROVE  Tells(e1.domains, y, m)
    <3>1. PICK x \in Domains, k \in Read : Lower[x] = y /\ Meaning(k) = m /\ e3.domains[k][x] > 0
      BY <2>3 DEF Tells
    <3>2. k \in Lists \cup Types
      BY DEF Read
    <3>3. k \notin ls
      BY <1>20, <3>1, <3>2
    <3>4. k \in Types /\ e3.domains[k] = e2.domains[k]
      BY <1>8, <1>20, <3>2, <3>3
    <3>5. PICK j \in ls : TypeOf[j] = k
      BY <1>14, <1>15, <3>1, <3>2, <3>4
    <3>6. e1.domains[j][x] > 0 /\ Meaning(j) = m /\ j \in Read
      BY <1>8, <1>15, <2>1, <3>1, <3>4, <3>5 DEF Meaning, ls
    <3> QED
      BY <3>1, <3>6 DEF Tells
  <2> QED
    BY <2>2, <2>3 DEF KeepsCopies
<1>23. Keeps(e1, e3)
  <2>1. KeepsDomains(e1, e3)
    BY <1>11, <1>19, <1>22, CopiesKept DEF Firm
  <2>2. \A u \in TableNames : u # o => e3.cell[u] = e1.cell[u]
    BY <1>15, <1>18 DEF Rewrote, Lost
  <2>3. e3.rows = e1.rows /\ e3.connections = e1.connections
    BY <1>15, <1>18 DEF Rewrote, Lost
  <2>4. /\ \A a : Seen(e3, "users_organizations", a) = Seen(e1, "users_organizations", a)
        /\ \A a : Seen(e3, "moderations", a) = Seen(e1, "moderations", a)
        /\ \A a : Has(e3, "users_oidc_clients", a) <=> Has(e1, "users_oidc_clients", a)
    BY <2>2 DEF Seen, Has, ColumnsOf, TableNames
  <2>5. KeepsAccounts(e1, e3)
    BY <1>19, <2>3, <2>4, AccountsKept DEF Firm
  <2> QED
    BY <2>1, <2>5 DEF Keeps
<1>24. Firm(e3, 57)
  BY <1>19, FirmUp
<1>25. Keeps(d, e3)
  BY <1>11, <1>23, KeepsOnAndOn
<1>26. Run(d, Directory[57].up) = e3
  <2>1. GoOn(e1, s2) = e2
    BY <1>7, <1>11, Rewriting DEF s2
  <2>2. ls \subseteq ColumnsOf(e2, o)
    BY <1>12, <1>15 DEF Rewrote, ColumnsOf
  <2>3. GoOn(e2, s3) = e3
    BY <1>17, <2>2, Dropping DEF If, e3, s3
  <2>4. Run(d, Directory[57].up) = GoOn(GoOn(GoOn(d, s1), s2), s3)
    BY <1>5, RunThree
  <2> QED
    BY <2>1, <2>3, <2>4 DEF e1
<1> QED
  BY <1>2, <1>21, <1>24, <1>25, <1>26 DEF Sound, Schema

(***************************************************************************)
(* The three files that some databases refuse.                             *)
(***************************************************************************)

LEMMA FailedIsNotOk ==
  ASSUME NEW d, IsDatabase(d)
  PROVE  ~Failed(d).ok
BY DEF Failed, IsDatabase

LEMMA Refused17 ==
  ASSUME NEW d, Sound(d, 16), Hindered(d, 17)
  PROVE  ~Run(d, Directory[17].up).ok
<1> DEFINE t == "moderations"
           cs == {"as_external"}
           e == WithCells(d, t, cs, "null")
<1>1. Run(d, Directory[17].up) = GoOn(d, AddRequired(t, cs))
  BY RunOne DEF Directory, capture_external_status
<1>2. t \in d.rows /\ t \in TableNames
  BY DEF Hindered, TableNames
<1>3. IsDatabase(d) /\ d.ok
  BY DEF Sound, Firm
<1> HIDE DEF t, cs, e
<1>4. GoOn(d, AddRequired(t, cs)) = Failed(e)
  BY <1>2, <1>3, AddingRequired DEF If, e
<1>5. IsDatabase(e)
  BY <1>2, <1>3, CellsWritten DEF Wrote, e
<1> QED
  BY <1>1, <1>4, <1>5, FailedIsNotOk

LEMMA Refused38 ==
  ASSUME NEW d, Sound(d, 37), Hindered(d, 38)
  PROVE  ~Run(d, Directory[38].up).ok
<1> DEFINE t == "users_organizations"
           cs == {"has_been_greeted"}
           gone == {"has_been_greeted_for_first_organization_join"}
           s1 == Drop("users", gone)
           s2 == AddWith(t, cs, "null")
           s3 == Update(t, "has_been_greeted", "true", "has_been_greeted", {"null"})
           e1 == GoOn(d, s1)
           e2 == GoOn(e1, s2)
           e3 == GoOn(e2, s3)
           f == WithCells(e1, t, cs, "null")
<1>1. PICK kept \in Keepable(37) : Shape(d) = ShapeAt(37, kept) /\ Quietly(d, d, ShapeAt(37, kept))
  BY SoundShape
<1>2. MayDrop(ShapeAt(37, kept), "users", gone) /\ "users" \in TableNames /\ t \in TableNames
  BY DEF MayDrop, MayLose, ShapeAt, ColumnsAt, When, TableNames, Telling, Lists, Types
<1>3. Directory[38].up = <<s1, s2, s3>>
  BY DEF Directory, improve_organisation_greeting, Add
<1>4. cs \subseteq ColumnsOf(d, t)
  BY DEF Hindered, Has
<1>5. t # "users" /\ cs # {}
  OBVIOUS
<1> HIDE DEF t, cs, gone, s1, s2, s3, e1, e2, e3, f
<1>6. Quietly(d, e1, Minus(ShapeAt(37, kept), "users", gone))
  BY <1>1, <1>2, AndDrops DEF e1, s1
<1>7. ColumnsOf(e1, t) = ColumnsOf(d, t) /\ IsDatabase(e1) /\ e1.ok
  <2>1. ColumnsOf(e1, t) = Minus(ShapeAt(37, kept), "users", gone)[t] /\ IsDatabase(e1) /\ e1.ok
    BY <1>2, <1>6, QuietlySeen
  <2>2. ColumnsOf(d, t) = ShapeAt(37, kept)[t]
    BY <1>1, <1>2, NamesOfColumns
  <2>3. Minus(ShapeAt(37, kept), "users", gone)[t] = ShapeAt(37, kept)[t]
    BY <1>2, <1>5 DEF Minus, When
  <2> QED
    BY <2>1, <2>2, <2>3
<1>8. cs \cap ColumnsOf(e1, t) # {}
  BY <1>4, <1>5, <1>7
<1>9. e2 = Failed(f)
  BY <1>7, <1>8, Adding DEF If, e2, s2, f
<1>10. IsDatabase(f)
  BY <1>2, <1>7, CellsWritten DEF Wrote, f
<1>11. ~e2.ok
  BY <1>9, <1>10, FailedIsNotOk
<1>12. ~e3.ok
  BY <1>11, OkBefore DEF e3
<1>13. Run(d, Directory[38].up) = e3
  BY <1>3, RunThree DEF e1, e2, e3
<1> QED
  BY <1>12, <1>13

LEMMA Refused59 ==
  ASSUME NEW d, Sound(d, 58), Hindered(d, 59)
  PROVE  ~Run(d, Directory[59].up).ok
<1> DEFINE how == "nulls distinct"
           e == [d EXCEPT !.unique = how]
<1>1. Run(d, Directory[59].up) = GoOn(d, Unique(how))
  BY RunOne DEF Directory, forbid_multiple_email_domains_type_by_organization
<1>2. d.domains \in [Lists \cup Types -> [Domains -> Nat]] /\ IsDatabase(d) /\ d.ok
  BY DEF Sound, Firm, IsDatabase
<1>3. Constrained(how) = Types \ {"none"}
  BY DEF Constrained
<1>4. PICK x \in Domains, type \in Types \ {"none"} : d.domains[type][x] > 1
  BY DEF Hindered
<1>5. ~IsUnique(d.domains, how)
  <2>1. d.domains[type][x] \in Nat
    BY <1>2
  <2>2. ~(d.domains[type][x] <= 1)
    BY <1>4, <2>1
  <2> QED
    BY <1>3, <2>2 DEF IsUnique
<1>6. IsDatabase(e)
  BY <1>2 DEF IsDatabase
<1> HIDE DEF how, e
<1>7. GoOn(d, Unique(how)) = Failed(e)
  BY <1>2, <1>5, Constraining DEF If, e
<1> QED
  BY <1>1, <1>6, <1>7, FailedIsNotOk

LEMMA Refused ==
  ASSUME NEW n, NEW d, Sound(d, n - 1), Hindered(d, n)
  PROVE  ~Run(d, Directory[n].up).ok
<1>1. CASE n = 17
  BY <1>1, Refused17
<1>2. CASE n = 38
  BY <1>2, Refused38
<1>3. CASE n = 59
  BY <1>3, Refused59
<1> QED
  BY <1>1, <1>2, <1>3 DEF Hindered

(***************************************************************************)
(* What undoes a file, when it can be undone.                              *)
(***************************************************************************)
GoodDown(n) ==
  \A d : Sound(d, n) /\ Run(d, Directory[n].down).ok => Sound(Run(d, Directory[n].down), n - 1)

LEMMA QuietDownIsGood ==
  ASSUME NEW n \in 1..68, n \notin {1, 4, 8, 16, 26, 35, 45, 63}, QuietDown(n)
  PROVE  GoodDown(n)
<1> SUFFICES ASSUME NEW d, Sound(d, n), Run(d, Directory[n].down).ok
             PROVE  Sound(Run(d, Directory[n].down), n - 1)
  BY DEF GoodDown
<1>1. PICK kept \in Keepable(n - 1) : Quietly(d, Run(d, Directory[n].down), ShapeAt(n - 1, kept))
  BY DEF QuietDown
<1> QED
  BY <1>1, QuietlyDown

LEMMA TableDropped ==
  ASSUME NEW d, IsDatabase(d), d.ok, NEW t \in TableNames, GoOn(d, DropTable(t)).ok
  PROVE  LostTable(d, GoOn(d, DropTable(t)), t)
<1> DEFINE e == WithoutTable(d, t)
<1>1. LostTable(d, e, t)
  BY TableLost
<1>2. IsDatabase(e)
  BY <1>1 DEF LostTable
<1> HIDE DEF e
<1>3. GoOn(d, DropTable(t)) = If(ColumnsOf(d, t) # {}, e)
  BY DroppingTable DEF e
<1>4. GoOn(d, DropTable(t)) = e
  BY <1>2, <1>3, FailedIsNotOk DEF If
<1> QED
  BY <1>1, <1>4

LEMMA LostTableSeen ==
  ASSUME NEW d, NEW e, NEW t \in TableNames, LostTable(d, e, t)
  PROVE  \A u \in TableNames : \A c : Seen(e, u, c) = IF u = t THEN "null" ELSE Seen(d, u, c)
<1>1. /\ \A u \in TableNames : u # t => e.cell[u] = d.cell[u]
      /\ ColumnsOf(e, t) = {}
  BY DEF LostTable
<1>2. \A u \in TableNames : u # t => \A c : Seen(e, u, c) = Seen(d, u, c)
  BY <1>1 DEF Seen, Has, ColumnsOf
<1>3. \A c : Seen(e, t, c) = "null"
  BY <1>1 DEF Seen, Has
<1> QED
  BY <1>2, <1>3

LEMMA LostTableFirm ==
  ASSUME NEW n, NEW d, NEW e, Firm(d, n), NEW t \in TableNames, LostTable(d, e, t), Factors(e)
  PROVE  Firm(e, n)
<1> DEFINE zero == [x \in Domains |-> 0]
<1>1. /\ IsDatabase(e) /\ e.ok /\ e.rows = d.rows \ {t}
      /\ e.connections = d.connections \/ e.connections = <<>>
      /\ \A u \in TableNames : u # t => e.cell[u] = d.cell[u]
      /\ ColumnsOf(e, t) = {}
      /\ \A l \in Lists \cup Types :
           e.domains[l] = IF \/ t = "organizations" /\ l \in ColumnsOf(d, t)
                             \/ t = "email_domains" /\ l \in Types
                          THEN zero ELSE d.domains[l]
  BY DEF LostTable, Firm
<1>2. NeverNull(e)
  <2>1. \A c : ~Has(e, t, c)
    BY <1>1 DEF Has
  <2>2. ASSUME NEW u \in TableNames, u # t
        PROVE  \A c \in NonNull(u) : Has(e, u, c) => e.cell[u][c] # "null"
    BY <1>1, <2>2 DEF Firm, NeverNull, Has, ColumnsOf
  <2> QED
    BY <2>1, <2>2 DEF NeverNull
<1>3. Populated(e, n)
  BY <1>1 DEF Firm, Populated
<1>4. TypeThere(e) /\ Numbers(e, n)
  <2>1. CASE t = "moderations"
    BY <1>1, <2>1 DEF TypeThere, Numbers
  <2>2. CASE t # "moderations"
    <3>1. \A c : Seen(e, "moderations", c) = Seen(d, "moderations", c)
      BY <2>2, LostTableSeen DEF TableNames
    <3> QED
      BY <1>1, <2>2, <3>1 DEF Firm, TypeThere, Numbers
  <2> QED
    BY <2>1, <2>2
<1>5. Counts(e, n)
  BY <1>1 DEF Firm, Counts, Counted
<1>6. NoneElsewhere(e)
  <2>1. \A u \in TableNames : u # t => ColumnsOf(e, u) = ColumnsOf(d, u)
    BY <1>1 DEF ColumnsOf
  <2>2. ASSUME NEW l \in (Lists \cup Types) \ Kinds(e), NEW x \in Domains
        PROVE  e.domains[l][x] = 0
    <3>1. CASE l \notin Kinds(d)
      <4>1. d.domains[l][x] = 0
        BY <3>1 DEF Firm, NoneElsewhere
      <4> QED
        BY <1>1, <4>1
    <3>2. CASE l \in Kinds(d)
      <4>1. \/ l \in Lists /\ t = "organizations" /\ l \in ColumnsOf(d, t)
            \/ l \in Types /\ t = "email_domains"
        BY <2>1, <2>2, <3>2 DEF Kinds, TableNames
      <4> QED
        BY <1>1, <4>1
    <3> QED
      BY <3>1, <3>2
  <2> QED
    BY <2>2 DEF NoneElsewhere
<1> QED
  BY <1>1, <1>2, <1>3, <1>4, <1>5, <1>6 DEF Firm

\* Nobody has a second factor before authenticators, nor a code before 1711616284303.
NoCode(d) ==
  Seen(d, "users", "encrypted_totp_key") = "null" /\ Seen(d, "users", "force_2fa") = "null"

LEMMA NoCodeYet ==
  ASSUME NEW n \in 0..53, NEW d, Sound(d, n)
  PROVE  NoCode(d)
<1>1. PICK kept \in Keepable(n) : Shape(d) = ShapeAt(n, kept)
  BY SoundShape
<1>2. ColumnsOf(d, "users") = ShapeAt(n, kept)["users"]
  BY <1>1, NamesOfColumns DEF TableNames
<1>3. {"encrypted_totp_key", "force_2fa"} \cap ShapeAt(n, kept)["users"] = {}
  BY DEF ShapeAt, ColumnsAt, Devise, When, TableNames
<1> QED
  BY <1>2, <1>3 DEF NoCode, Seen, Has

LEMMA LostTableFactors ==
  ASSUME NEW n, NEW d, NEW e, Firm(d, n), NEW t \in TableNames, LostTable(d, e, t),
         NoCode(d), t = "users" => "authenticators" \notin d.rows
  PROVE  Factors(e) /\ NoCode(e)
<1>1. /\ Seen(e, "users", "encrypted_totp_key") = "null"
      /\ Seen(e, "users", "force_2fa") = "null"
  BY LostTableSeen DEF NoCode, TableNames
<1>2. e.rows = d.rows \ {t}
  BY DEF LostTable
<1>3. "authenticators" \in e.rows => "users" \in e.rows
  BY <1>2 DEF Firm, Factors, HasFactor
<1> QED
  BY <1>1, <1>3, FactorsSeen DEF Factors, NoCode

\* A file that is undone by dropping one table.
LEMMA DropsTableDown ==
  ASSUME NEW n \in 1..53, n \notin {8, 14, 16, 35, 45}, NEW t \in TableNames,
         Directory[n].down = <<DropTable(t)>>,
         \A kept \in Keepable(n) :
           ShapeAt(n - 1, kept) = [u \in TableNames |-> IF u = t THEN {} ELSE ShapeAt(n, kept)[u]],
         n = 1 <=> t = "users", n = 4 => t = "oidc_clients", n = 26 => t = "users_oidc_clients"
  PROVE  GoodDown(n)
<1> SUFFICES ASSUME NEW d, Sound(d, n), Run(d, Directory[n].down).ok
             PROVE  Sound(Run(d, Directory[n].down), n - 1)
  BY DEF GoodDown
<1> DEFINE e == GoOn(d, DropTable(t))
<1>1. Run(d, Directory[n].down) = e
  BY RunOne
<1>2. Firm(d, n) /\ IsDatabase(d) /\ d.ok
  BY DEF Sound, Firm
<1>3. LostTable(d, e, t)
  BY <1>1, <1>2, TableDropped
<1> HIDE DEF e
<1>4. PICK kept \in Keepable(n) : Shape(d) = ShapeAt(n, kept)
  BY SoundShape
<1>5. kept \in Keepable(n - 1)
  BY <1>4, KeptStill
<1>6. Shape(e) = ShapeAt(n - 1, kept)
  BY <1>3, <1>4, ShapeWithoutTable
<1>7. Firm(e, n)
  <2>1. t = "users" => "authenticators" \notin d.rows
    BY <1>2 DEF Firm, Populated
  <2>2. Factors(e)
    BY <1>2, <1>3, <2>1, NoCodeYet, LostTableFactors
  <2> QED
    BY <1>2, <1>3, <2>2, LostTableFirm
<1>8. Undone(e, n)
  BY <1>3 DEF LostTable, Undone
<1>9. Firm(e, n - 1)
  BY <1>7, <1>8, FirmDown
<1> QED
  BY <1>1, <1>5, <1>6, <1>9 DEF Sound, Schema

LEMMA GoodDown1 ==
  GoodDown(1)
<1> DEFINE t == "users"
<1>1. Directory[1].down = <<DropTable(t)>>
  BY DEF Directory, create_users_table
<1>2. \A kept \in Keepable(1) :
        ShapeAt(0, kept) = [u \in TableNames |-> IF u = t THEN {} ELSE ShapeAt(1, kept)[u]]
  BY DEF ShapeAt, ColumnsAt, Devise, Keepable, When, TableNames
<1>3. t \in TableNames
  BY DEF TableNames
<1> QED
  BY <1>1, <1>2, <1>3, DropsTableDown

LEMMA GoodDown4 ==
  GoodDown(4)
<1> DEFINE t == "oidc_clients"
<1>1. Directory[4].down = <<DropTable(t)>>
  BY DEF Directory, create_oidc_clients_table
<1>2. \A kept \in Keepable(4) :
        ShapeAt(3, kept) = [u \in TableNames |-> IF u = t THEN {} ELSE ShapeAt(4, kept)[u]]
  BY DEF ShapeAt, ColumnsAt, Devise, Keepable, When, TableNames
<1>3. t \in TableNames
  BY DEF TableNames
<1> QED
  BY <1>1, <1>2, <1>3, DropsTableDown

LEMMA GoodDown26 ==
  GoodDown(26)
<1> DEFINE t == "users_oidc_clients"
<1>1. Directory[26].down = <<DropTable(t)>>
  BY DEF Directory, join_users_oidc_clients
<1>2. \A kept \in Keepable(26) :
        ShapeAt(25, kept) = [u \in TableNames |-> IF u = t THEN {} ELSE ShapeAt(26, kept)[u]]
  BY DEF ShapeAt, ColumnsAt, Devise, Keepable, When, TableNames
<1>3. t \in TableNames
  BY DEF TableNames
<1> QED
  BY <1>1, <1>2, <1>3, DropsTableDown

\* A file that is undone by dropping two tables.
LEMMA DropsTablesDown ==
  ASSUME NEW n \in {8, 16}, NEW t \in TableNames, NEW u \in TableNames, t # "users", u # "users",
         Directory[n].down = <<DropTable(t), DropTable(u)>>,
         \A kept \in Keepable(n) :
           ShapeAt(n - 1, kept)
             = [w \in TableNames |-> IF w = u THEN {} ELSE
                  [v \in TableNames |-> IF v = t THEN {} ELSE ShapeAt(n, kept)[v]][w]],
         n = 8 => {t, u} = {"organizations", "users_organizations"},
         n = 16 => "moderations" \in {t, u}
  PROVE  GoodDown(n)
<1> SUFFICES ASSUME NEW d, Sound(d, n), Run(d, Directory[n].down).ok
             PROVE  Sound(Run(d, Directory[n].down), n - 1)
  BY DEF GoodDown
<1> DEFINE e == GoOn(d, DropTable(t))
           f == GoOn(e, DropTable(u))
<1>1. Run(d, Directory[n].down) = f
  BY RunTwo
<1>2. Firm(d, n) /\ IsDatabase(d) /\ d.ok
  BY DEF Sound, Firm
<1>3. e.ok
  BY <1>1, OkBefore
<1>4. LostTable(d, e, t)
  BY <1>2, <1>3, TableDropped
<1> HIDE DEF e
<1>5. IsDatabase(e)
  BY <1>4 DEF LostTable
<1>6. LostTable(e, f, u)
  BY <1>1, <1>3, <1>5, TableDropped
<1> HIDE DEF f
<1>7. PICK kept \in Keepable(n) : Shape(d) = ShapeAt(n, kept)
  BY SoundShape
<1>8. kept \in Keepable(n - 1)
  BY <1>7, KeptStill
<1>9. Shape(f) = ShapeAt(n - 1, kept)
  <2>1. Shape(e) = [v \in TableNames |-> IF v = t THEN {} ELSE ShapeAt(n, kept)[v]]
    BY <1>4, <1>7, ShapeWithoutTable
  <2> QED
    BY <1>6, <2>1, ShapeWithoutTable
<1>10. NoCode(d)
  BY NoCodeYet
<1>11. Factors(e) /\ NoCode(e)
  BY <1>2, <1>4, <1>10, LostTableFactors
<1>12. Firm(e, n)
  BY <1>2, <1>4, <1>11, LostTableFirm
<1>13. Factors(f)
  BY <1>6, <1>11, <1>12, LostTableFactors
<1>14. Firm(f, n)
  BY <1>6, <1>12, <1>13, LostTableFirm
<1>15. Undone(f, n)
  <2>1. f.rows = d.rows \ {t, u}
    BY <1>4, <1>6 DEF LostTable
  <2>2. n = 8 => {"organizations", "users_organizations"} \cap f.rows = {}
    BY <2>1
  <2>3. n = 16 => "moderations" \notin f.rows
    BY <2>1
  <2> QED
    BY <2>2, <2>3 DEF Undone
<1>16. Firm(f, n - 1)
  BY <1>14, <1>15, FirmDown
<1> QED
  BY <1>1, <1>8, <1>9, <1>16 DEF Sound, Schema

LEMMA GoodDown8 ==
  GoodDown(8)
<1> DEFINE t == "users_organizations"
           u == "organizations"
<1>1. Directory[8].down = <<DropTable(t), DropTable(u)>>
  BY DEF Directory, create_organizations
<1>2. \A kept \in Keepable(8) :
           ShapeAt(7, kept)
             = [w \in TableNames |-> IF w = u THEN {} ELSE
                  [v \in TableNames |-> IF v = t THEN {} ELSE ShapeAt(8, kept)[v]][w]]
  BY DEF ShapeAt, ColumnsAt, Devise, Keepable, When, TableNames
<1>3. {t, u} \subseteq TableNames /\ {t, u} = {"organizations", "users_organizations"}
      /\ t # "users" /\ u # "users"
  BY DEF TableNames
<1> HIDE DEF t, u
<1> QED
  BY <1>1, <1>2, <1>3, DropsTablesDown

LEMMA GoodDown16 ==
  GoodDown(16)
<1> DEFINE t == "moderations"
           u == "moderation_type"
<1>1. Directory[16].down = <<DropTable(t), DropTable(u)>>
  BY DEF Directory, add_moderation_table
<1>2. \A kept \in Keepable(16) :
           ShapeAt(15, kept)
             = [w \in TableNames |-> IF w = u THEN {} ELSE
                  [v \in TableNames |-> IF v = t THEN {} ELSE ShapeAt(16, kept)[v]][w]]
  BY DEF ShapeAt, ColumnsAt, Devise, Keepable, When, TableNames
<1>3. {t, u} \subseteq TableNames /\ "moderations" \in {t, u} /\ t # "users" /\ u # "users"
  BY DEF TableNames
<1> HIDE DEF t, u
<1> QED
  BY <1>1, <1>2, <1>3, DropsTablesDown

LEMMA GoodDown45 ==
  GoodDown(45)
<1> SUFFICES ASSUME NEW d, Sound(d, 45), Run(d, Directory[45].down).ok
             PROVE  Sound(Run(d, Directory[45].down), 44)
  BY DEF GoodDown
<1> DEFINE t == "authenticators"
           cs == {"current_challenge"}
           s1 == DropTable(t)
           s2 == Drop("users", cs)
           e == GoOn(d, s1)
           f == GoOn(e, s2)
<1>1. Run(d, Directory[45].down) = f
  BY RunTwo DEF Directory, add_webauthn
<1>2. Firm(d, 45) /\ IsDatabase(d) /\ d.ok /\ {t, "users"} \subseteq TableNames
  BY DEF Sound, Firm, TableNames
<1>3. PICK kept \in Keepable(45) : Shape(d) = ShapeAt(45, kept)
  BY SoundShape
<1>4. kept \in Keepable(44)
  BY <1>3, KeptStill
<1>5. /\ MayDrop(ShapeAt(45, kept), "users", cs)
      /\ Minus([u \in TableNames |-> IF u = t THEN {} ELSE ShapeAt(45, kept)[u]], "users", cs)
           = ShapeAt(44, kept)
      /\ t # "users"
  BY DEF MayDrop, MayLose, Minus, ShapeAt, ColumnsAt, Devise, When, TableNames, Telling, Lists,
     Types
<1> HIDE DEF t, cs, s1, s2, e, f
<1>6. LostTable(d, e, t)
  <2>1. e.ok
    BY <1>1, OkBefore DEF f
  <2> QED
    BY <1>2, <2>1, TableDropped DEF e, s1
<1>7. Firm(e, 45)
  <2>1. Factors(e)
    BY <1>2, <1>5, <1>6, NoCodeYet, LostTableFactors
  <2> QED
    BY <1>2, <1>6, <2>1, LostTableFirm
<1>8. Firm(e, 44)
  <2>1. t \notin e.rows
    BY <1>6 DEF LostTable
  <2>2. Undone(e, 45)
    BY <2>1 DEF Undone, t
  <2> QED
    BY <1>7, <2>2, FirmDown
<1>9. Shape(e) = [u \in TableNames |-> IF u = t THEN {} ELSE ShapeAt(45, kept)[u]]
  BY <1>2, <1>3, <1>6, ShapeWithoutTable
<1>10. Quietly(e, e, Shape(e)) /\ MayDrop(Shape(e), "users", cs)
  <2>1. Shape(e)["users"] = ShapeAt(45, kept)["users"]
    BY <1>2, <1>5, <1>9
  <2> QED
    BY <1>5, <1>7, <2>1, QuietlyNothing DEF Firm, MayDrop
<1>11. Quietly(e, f, ShapeAt(44, kept))
  BY <1>2, <1>5, <1>9, <1>10, AndDrops DEF f, s2
<1>12. Firm(f, 44)
  BY <1>8, <1>11, QuietlyFirm
<1> QED
  BY <1>1, <1>4, <1>11, <1>12 DEF Sound, Schema, Quietly

LEMMA ColumnsDropped ==
  ASSUME NEW d, IsDatabase(d), d.ok, NEW t \in TableNames, NEW cs, GoOn(d, Drop(t, cs)).ok
  PROVE  Lost(d, GoOn(d, Drop(t, cs)), t, cs)
<1> DEFINE e == WithoutCells(d, t, cs)
<1>1. Lost(d, e, t, cs)
  BY CellsLost
<1>2. IsDatabase(e)
  BY <1>1 DEF Lost
<1> HIDE DEF e
<1>3. GoOn(d, Drop(t, cs)) = If(cs \subseteq ColumnsOf(d, t), e)
  BY Dropping DEF e
<1>4. GoOn(d, Drop(t, cs)) = e
  BY <1>2, <1>3, FailedIsNotOk DEF If
<1> QED
  BY <1>1, <1>4

\* A file that is undone by dropping lists of domains.
LEMMA DropsListsDown ==
  ASSUME NEW n \in 1..68, n \notin {1, 4, 8, 14, 16, 26, 35, 45, 63}, NEW cs, cs \subseteq Lists,
         NEW t, t = "organizations", Directory[n].down = <<Drop(t, cs)>>,
         \A kept \in Keepable(n) : ShapeAt(n - 1, kept) = Minus(ShapeAt(n, kept), t, cs)
  PROVE  GoodDown(n)
<1> SUFFICES ASSUME NEW d, Sound(d, n), Run(d, Directory[n].down).ok
             PROVE  Sound(Run(d, Directory[n].down), n - 1)
  BY DEF GoodDown
<1> DEFINE e == GoOn(d, Drop(t, cs))
<1>1. Run(d, Directory[n].down) = e
  BY RunOne
<1>2. Firm(d, n) /\ IsDatabase(d) /\ d.ok /\ t \in TableNames
  BY DEF Sound, Firm, TableNames
<1>3. Lost(d, e, t, cs)
  BY <1>1, <1>2, ColumnsDropped
<1> HIDE DEF e
<1>4. PICK kept \in Keepable(n) : Shape(d) = ShapeAt(n, kept)
  BY SoundShape
<1>5. kept \in Keepable(n - 1)
  BY <1>4, KeptStill
<1>6. Shape(e) = ShapeAt(n - 1, kept)
  BY <1>2, <1>3, <1>4, ShapeLost
<1>7. Firm(e, n)
  BY <1>2, <1>3, ListsLostFirm
<1>8. Firm(e, n - 1)
  BY <1>7, FirmDown DEF Undone
<1> QED
  BY <1>1, <1>5, <1>6, <1>8 DEF Sound, Schema

LEMMA GoodDown9 ==
  GoodDown(9)
<1> DEFINE t == "organizations"
           cs == {"authorized_email_domains"}
<1>1. Directory[9].down = <<Drop(t, cs)>>
  BY DEF Directory, add_authorized_email_domains_to_organizations
<1>2. \A kept \in Keepable(9) : ShapeAt(8, kept) = Minus(ShapeAt(9, kept), t, cs)
  BY DEF Minus, ShapeAt, ColumnsAt, Devise, Keepable, When, TableNames
<1>3. cs \subseteq Lists /\ t = "organizations"
  BY DEF Lists
<1> HIDE DEF t, cs
<1> QED
  BY <1>1, <1>2, <1>3, DropsListsDown

LEMMA GoodDown30 ==
  GoodDown(30)
<1> DEFINE t == "organizations"
           cs == {"external_verified_email_domains"}
<1>1. Directory[30].down = <<Drop(t, cs)>>
  BY DEF Directory, add_external_verified_domains
<1>2. \A kept \in Keepable(30) : ShapeAt(29, kept) = Minus(ShapeAt(30, kept), t, cs)
  BY DEF Minus, ShapeAt, ColumnsAt, Devise, Keepable, When, TableNames
<1>3. cs \subseteq Lists /\ t = "organizations"
  BY DEF Lists
<1> HIDE DEF t, cs
<1> QED
  BY <1>1, <1>2, <1>3, DropsListsDown

LEMMA GoodDown50 ==
  GoodDown(50)
<1> DEFINE t == "organizations"
           cs == {"trackdechets_email_domains"}
<1>1. Directory[50].down = <<Drop(t, cs)>>
  BY DEF Directory, add_trackdechets
<1>2. \A kept \in Keepable(50) : ShapeAt(49, kept) = Minus(ShapeAt(50, kept), t, cs)
  BY DEF Minus, ShapeAt, ColumnsAt, Devise, Keepable, When, TableNames
<1>3. cs \subseteq Lists /\ t = "organizations"
  BY DEF Lists
<1> HIDE DEF t, cs
<1> QED
  BY <1>1, <1>2, <1>3, DropsListsDown

\* What is not seen any more is no reason to ask for a second factor.
LEMMA ToldLostFirm ==
  ASSUME NEW n, NEW d, NEW e, Firm(d, n), NEW t \in TableNames, NEW cs, Lost(d, e, t, cs),
         t \notin {"organizations", "email_domains"}, "type" \notin cs,
         t = "users" => "force_2fa" \in cs \/ Seen(d, "users", "force_2fa") = "null"
  PROVE  Firm(e, n)
<1>1. \A u \in TableNames : \A c : Seen(e, u, c) = IF u = t /\ c \in cs THEN "null" ELSE Seen(d, u, c)
  BY LostSeen
<1>2. e.rows = d.rows
  BY DEF Lost
<1>3. Seen(e, "moderations", "type") = Seen(d, "moderations", "type")
  BY <1>1 DEF TableNames
<1>4. Seen(e, "moderations", "ticket_id") \in {"null", Seen(d, "moderations", "ticket_id")}
  BY <1>1 DEF TableNames
<1>5. TypeThere(e)
  BY <1>2, <1>3 DEF Firm, TypeThere
<1>6. Numbers(e, n)
  BY <1>2, <1>4 DEF Firm, Numbers
<1>7. Factors(e)
  <2>1. Seen(e, "users", "encrypted_totp_key") \in {"null", Seen(d, "users", "encrypted_totp_key")}
    BY <1>1 DEF TableNames
  <2>2. HasFactor(e) => "users" \in e.rows
    BY <1>2, <2>1, FactorsSeen DEF Firm, Factors
  <2>3. CASE t = "users"
    <3>1. ~IsForced(e)
      BY <1>1, <2>3, FactorsSeen DEF TableNames
    <3> QED
      BY <2>1, <2>2, <3>1 DEF Firm, Factors
  <2>4. CASE t # "users"
    <3>1. \A c : Seen(e, "users", c) = Seen(d, "users", c)
      BY <1>1, <2>4 DEF TableNames
    <3> QED
      BY <1>2, <3>1, FactorsSeen DEF Firm, Factors
  <2> QED
    BY <2>3, <2>4
<1> QED
  BY <1>5, <1>6, <1>7, LostFirm

LEMMA DropsToldDown ==
  ASSUME NEW n \in 1..68, n \notin {1, 4, 8, 14, 16, 26, 35, 45, 63}, NEW cs, "type" \notin cs,
         NEW t \in TableNames, t \notin {"organizations", "email_domains"},
         Directory[n].down = <<Drop(t, cs)>>,
         \A kept \in Keepable(n) :
           /\ ShapeAt(n - 1, kept) = Minus(ShapeAt(n, kept), t, cs)
           /\ t = "users" => "force_2fa" \in cs \/ "force_2fa" \notin ShapeAt(n, kept)["users"]
  PROVE  GoodDown(n)
<1> SUFFICES ASSUME NEW d, Sound(d, n), Run(d, Directory[n].down).ok
             PROVE  Sound(Run(d, Directory[n].down), n - 1)
  BY DEF GoodDown
<1> DEFINE e == GoOn(d, Drop(t, cs))
<1>1. Run(d, Directory[n].down) = e
  BY RunOne
<1>2. Firm(d, n) /\ IsDatabase(d) /\ d.ok
  BY DEF Sound, Firm
<1>3. Lost(d, e, t, cs)
  BY <1>1, <1>2, ColumnsDropped
<1> HIDE DEF e
<1>4. PICK kept \in Keepable(n) : Shape(d) = ShapeAt(n, kept)
  BY SoundShape
<1>5. kept \in Keepable(n - 1)
  BY <1>4, KeptStill
<1>6. Shape(e) = ShapeAt(n - 1, kept)
  BY <1>3, <1>4, ShapeLost
<1>7. t = "users" => "force_2fa" \in cs \/ Seen(d, "users", "force_2fa") = "null"
  <2>1. ColumnsOf(d, "users") = ShapeAt(n, kept)["users"]
    BY <1>4, NamesOfColumns DEF TableNames
  <2> QED
    BY <1>4, <2>1 DEF Seen, Has
<1>8. Firm(e, n)
  BY <1>2, <1>3, <1>7, ToldLostFirm
<1>9. Firm(e, n - 1)
  BY <1>8, FirmDown DEF Undone
<1> QED
  BY <1>1, <1>5, <1>6, <1>9 DEF Sound, Schema

LEMMA GoodDown46 ==
  GoodDown(46)
<1> DEFINE t == "moderations"
           cs == {"ticket_id"}
<1>1. Directory[46].down = <<Drop(t, cs)>>
  BY DEF Directory, add_zammad_ticket_id_on_moderations, Adds
<1>2. \A kept \in Keepable(46) : ShapeAt(45, kept) = Minus(ShapeAt(46, kept), t, cs)
  BY DEF Minus, ShapeAt, ColumnsAt, Devise, Keepable, When, TableNames
<1>3. t \in TableNames /\ t \notin {"organizations", "email_domains", "users"} /\ "type" \notin cs
  BY DEF TableNames
<1> HIDE DEF t, cs
<1> QED
  BY <1>1, <1>2, <1>3, DropsToldDown

LEMMA GoodDown54 ==
  GoodDown(54)
<1> DEFINE t == "users"
           cs == {"encrypted_totp_key", "totp_key_verified_at"}
<1>1. Directory[54].down = <<Drop(t, cs)>>
  BY DEF Directory, add_totp_secret, Adds
<1>2. \A kept \in Keepable(54) :
        /\ ShapeAt(53, kept) = Minus(ShapeAt(54, kept), t, cs)
        /\ "force_2fa" \notin ShapeAt(54, kept)["users"]
  BY DEF Minus, ShapeAt, ColumnsAt, Devise, Keepable, When, TableNames
<1>3. t \in TableNames /\ t \notin {"organizations", "email_domains"} /\ "type" \notin cs
  BY DEF TableNames
<1> HIDE DEF t, cs
<1> QED
  BY <1>1, <1>2, <1>3, DropsToldDown

LEMMA GoodDown56 ==
  GoodDown(56)
<1> DEFINE t == "users"
           cs == {"force_2fa"}
<1>1. Directory[56].down = <<Drop(t, cs)>>
  BY DEF Directory, add_force_2fa
<1>2. \A kept \in Keepable(56) : ShapeAt(55, kept) = Minus(ShapeAt(56, kept), t, cs)
  BY DEF Minus, ShapeAt, ColumnsAt, Devise, Keepable, When, TableNames
<1>3. t \in TableNames /\ t \notin {"organizations", "email_domains"} /\ "type" \notin cs /\ "force_2fa" \in cs
  BY DEF TableNames
<1> HIDE DEF t, cs
<1> QED
  BY <1>1, <1>2, <1>3, DropsToldDown

LEMMA ColumnsAdded ==
  ASSUME NEW d, IsDatabase(d), d.ok, NEW t \in TableNames, NEW cs, NEW v, GoOn(d, AddWith(t, cs, v)).ok
  PROVE  Wrote(d, GoOn(d, AddWith(t, cs, v)), t, cs, v)
<1> DEFINE e == WithCells(d, t, cs, v)
<1>1. Wrote(d, e, t, cs, v)
  BY CellsWritten
<1>2. IsDatabase(e)
  BY <1>1 DEF Wrote
<1> HIDE DEF e
<1>3. GoOn(d, AddWith(t, cs, v)) = If(cs \cap ColumnsOf(d, t) = {}, e)
  BY Adding DEF e
<1>4. GoOn(d, AddWith(t, cs, v)) = e
  BY <1>2, <1>3, FailedIsNotOk DEF If
<1> QED
  BY <1>1, <1>4

\* It drops a column of a table that has it not.
LEMMA GoodDown14 ==
  GoodDown(14)
<1> SUFFICES ASSUME NEW d, Sound(d, 14), Run(d, Directory[14].down).ok
             PROVE  FALSE
  BY DEF GoodDown
<1> DEFINE t == "users_organizations"
           cs == {"is_external"}
           c == "external_authorized_email_domains"
           s1 == Drop(t, cs)
           s2 == Drop(t, {c})
           e == GoOn(d, s1)
           f == GoOn(e, s2)
           g == WithoutCells(e, t, {c})
<1>1. Run(d, Directory[14].down) = f
  BY RunTwo DEF Directory, add_is_external_to_users_organisations
<1>2. IsDatabase(d) /\ d.ok /\ t \in TableNames
  BY DEF Sound, Firm, TableNames
<1>3. PICK kept \in Keepable(14) : Shape(d) = ShapeAt(14, kept)
  BY SoundShape
<1>4. c \notin ShapeAt(14, kept)[t]
  BY <1>3 DEF ShapeAt, ColumnsAt, Keepable, When, TableNames
<1> HIDE DEF t, cs, c, s1, s2, e, f, g
<1>5. Lost(d, e, t, cs) /\ e.ok
  <2>1. e.ok
    BY <1>1, OkBefore DEF f
  <2> QED
    BY <1>2, <2>1, ColumnsDropped DEF e, s1
<1>6. c \notin ColumnsOf(e, t) /\ IsDatabase(e)
  <2>1. ColumnsOf(d, t) = ShapeAt(14, kept)[t]
    BY <1>2, <1>3, NamesOfColumns
  <2> QED
    BY <1>4, <1>5, <2>1 DEF Lost
<1>7. f = Failed(g)
  BY <1>5, <1>6, Dropping DEF If, f, s2, g
<1>8. IsDatabase(g)
  BY <1>2, <1>6, CellsLost DEF g, Lost
<1> QED
  BY <1>1, <1>7, <1>8, FailedIsNotOk

LEMMA GoodDown29 ==
  GoodDown(29)
<1> SUFFICES ASSUME NEW d, Sound(d, 29), Run(d, Directory[29].down).ok
             PROVE  Sound(Run(d, Directory[29].down), 28)
  BY DEF GoodDown
<1> DEFINE o == "organizations"
           ls == {"verified_email_domains"}
           t == "users_organizations"
           cs == {"verification_type"}
           s1 == Drop(o, ls)
           s2 == Drop(t, cs)
           e == GoOn(d, s1)
           f == GoOn(e, s2)
<1>1. Run(d, Directory[29].down) = f
  BY RunTwo DEF Directory, add_verified_domains
<1>2. /\ {o, t} \subseteq TableNames /\ o = "organizations" /\ ls \subseteq Lists
      /\ t \notin {"organizations", "email_domains", "users"} /\ "type" \notin cs
  BY DEF TableNames, Lists
<1>3. PICK kept \in Keepable(29) : Shape(d) = ShapeAt(29, kept)
  BY SoundShape
<1>4. kept \in Keepable(28)
  BY <1>3, KeptStill
<1>5. Minus(Minus(ShapeAt(29, kept), o, ls), t, cs) = ShapeAt(28, kept)
  BY <1>3 DEF Minus, ShapeAt, ColumnsAt, Devise, Keepable, When, TableNames
<1> HIDE DEF o, ls, t, cs, s1, s2, e, f
<1>6. Firm(d, 29) /\ IsDatabase(d) /\ d.ok
  BY DEF Sound, Firm
<1>7. Lost(d, e, o, ls)
  <2>1. e.ok
    BY <1>1, OkBefore DEF f
  <2> QED
    BY <1>2, <1>6, <2>1, ColumnsDropped DEF e, s1
<1>8. Firm(e, 29)
  BY <1>2, <1>6, <1>7, ListsLostFirm
<1>9. Lost(e, f, t, cs)
  BY <1>1, <1>2, <1>8, ColumnsDropped DEF f, s2, Firm
<1>10. Firm(f, 29)
  BY <1>2, <1>8, <1>9, ToldLostFirm
<1>11. Firm(f, 28)
  BY <1>10, FirmDown DEF Undone
<1>12. Shape(f) = ShapeAt(28, kept)
  BY <1>2, <1>3, <1>5, <1>7, <1>9, ShapeLost
<1> QED
  BY <1>1, <1>4, <1>11, <1>12 DEF Sound, Schema

\* What could be cast was.
LEMMA CastDone ==
  ASSUME NEW d, IsDatabase(d), d.ok, NEW t \in TableNames, NEW c, NEW c2, NEW vs,
         {c, c2} \subseteq ColumnsOf(d, t), GoOn(d, Cast(t, c, c2, vs)).ok
  PROVE  Casts(d, t, c, vs) /\ GoOn(d, Cast(t, c, c2, vs)) = CastTo(d, t, c, c2)
<1> DEFINE s == Cast(t, c, c2, vs)
<1>1. s.do = "cast"
  BY DEF Cast
<1>2. s.table = t /\ s.from = c /\ s.to = c2 /\ s.values = vs
  BY DEF Cast
<1>3. IsDatabase(CastTo(d, t, c, c2))
  BY CellsWritten DEF CastTo, Wrote
<1> HIDE DEF s
<1>4. Execute(d, s)
       = If({s.from, s.to} \subseteq ColumnsOf(d, s.table) /\ (s.table \in d.rows => d.cell[s.table][s.from] \in s.values),
           IF s.table \in d.rows THEN WithCells(d, s.table, {s.to}, d.cell[s.table][s.from]) ELSE d)
  BY <1>1 DEF Execute
<1>5. GoOn(d, s) = Execute(d, s)
  BY DEF GoOn
<1>6. CASE ~Casts(d, t, c, vs)
  <2>1. ~(s.table \in d.rows => d.cell[s.table][s.from] \in s.values)
    BY <1>2, <1>6 DEF Casts
  <2>2. GoOn(d, s) = Failed(IF s.table \in d.rows THEN WithCells(d, s.table, {s.to}, d.cell[s.table][s.from]) ELSE d)
    BY <1>4, <1>5, <2>1 DEF If
  <2>3. GoOn(d, s) = Failed(CastTo(d, t, c, c2))
    BY <1>2, <2>2 DEF CastTo
  <2>4. ~GoOn(d, s).ok
    BY <1>3, <2>3, FailedIsNotOk
  <2> QED
    BY <2>4 DEF s
<1>7. CASE Casts(d, t, c, vs)
  BY <1>7, CastingWell
<1> QED
  BY <1>6, <1>7

LEMMA GoodDown19 ==
  GoodDown(19)
<1> SUFFICES ASSUME NEW d, Sound(d, 19), Run(d, Directory[19].down).ok
             PROVE  Sound(Run(d, Directory[19].down), 18)
  BY DEF GoodDown
<1> DEFINE u == "moderation_type"
           us == {"organization_join_block"}
           t == "moderations"
           c == "type"
           s1 == CreateTable(u, us)
           s2 == Cast(t, c, c, us)
           e == GoOn(d, s1)
           f == GoOn(e, s2)
           v == e.cell[t][c]
<1>1. Run(d, Directory[19].down) = f
  BY RunTwo DEF Directory, add_new_moderation_type
<1>2. {u, t} \subseteq TableNames /\ NonNull(t) = {} /\ t = "moderations"
  BY DEF TableNames, NonNull
<1>3. PICK kept \in Keepable(19) : Shape(d) = ShapeAt(19, kept) /\ Quietly(d, d, ShapeAt(19, kept))
  BY SoundShape
<1>4. kept \in Keepable(18)
  BY <1>3, KeptStill
<1>5. /\ MayCreate(ShapeAt(19, kept), u, us) /\ Plus(ShapeAt(19, kept), u, us) = ShapeAt(18, kept)
      /\ c \in ShapeAt(18, kept)[t]
      /\ Plus(ShapeAt(18, kept), t, {c}) = ShapeAt(18, kept)
  BY DEF MayCreate, MayWrite, Plus, ShapeAt, ColumnsAt, Devise, When, TableNames, Telling, NonNull
<1>6. v = e.cell[t][c]
  OBVIOUS
<1> HIDE DEF u, us, t, c, s1, s2, e, f, v
<1>7. Firm(d, 19)
  BY DEF Sound
<1>8. Quietly(d, e, ShapeAt(18, kept))
  BY <1>2, <1>3, <1>5, AndCreates DEF e, s1
<1>9. Firm(e, 19) /\ IsDatabase(e) /\ e.ok /\ c \in ColumnsOf(e, t) /\ Shape(e) = ShapeAt(18, kept)
  BY <1>2, <1>5, <1>7, <1>8, QuietlyFirm, QuietlySeen
<1>10. f = CastTo(e, t, c, c)
  BY <1>1, <1>2, <1>9, CastDone DEF f, s2
<1>11. Firm(f, 19) /\ Shape(f) = ShapeAt(18, kept)
  <2>1. CASE t \notin e.rows
    BY <1>9, <1>10, <2>1 DEF CastTo
  <2>2. CASE t \in e.rows
    <3>1. f = WithCells(e, t, {c}, v)
      BY <1>6, <1>10, <2>2 DEF CastTo
    <3>2. Wrote(e, f, t, {c}, v)
      BY <1>2, <1>9, <3>1, CellsWritten
    <3>3. Shape(f) = ShapeAt(18, kept)
      BY <1>2, <1>5, <1>9, <3>2, ShapeWritten
    <3>4. f.rows = e.rows
      BY <3>2 DEF Wrote
    <3>5. Seen(e, t, c) = v
      BY <1>6, <1>9 DEF Seen, Has
    <3>6. \A w \in TableNames : \A a : Seen(f, w, a) = Seen(e, w, a)
      BY <1>2, <3>2, <3>5, WroteSeen
    <3>7. TypeThere(f) /\ Numbers(f, 19) /\ Factors(f)
      BY <1>9, <3>4, <3>6, SeenSame
    <3> QED
      BY <1>2, <1>9, <3>2, <3>3, <3>7, WroteFirm
  <2> QED
    BY <2>1, <2>2
<1>12. Firm(f, 18)
  BY <1>11, FirmDown DEF Undone
<1> QED
  BY <1>1, <1>4, <1>11, <1>12 DEF Sound, Schema

LEMMA GoodDown35 ==
  GoodDown(35)
<1> SUFFICES ASSUME NEW d, Sound(d, 35), Run(d, Directory[35].down).ok
             PROVE  Sound(Run(d, Directory[35].down), 34)
  BY DEF GoodDown
<1> DEFINE t == "users_oidc_clients"
           c == "connection_count"
           name == "count connections"
           m == IF d.connections = <<>> THEN d.connections ELSE <<Len(d.connections)>>
           s1 == Rewrite(name)
           s2 == Drop(t, {"id"})
           s3 == AddWith(t, {c}, "null")
           e1 == CountConnections(d)
           e2 == GoOn(e1, s2)
           e3 == GoOn(e2, s3)
<1>1. Directory[35].down = <<s1, s2, s3>>
  BY DEF Directory, normalize_connection_counter, Add
<1>2. Rewritten(d, name) = e1
  BY DEF Rewritten
<1>3. PICK kept \in Keepable(35) : Shape(d) = ShapeAt(35, kept)
  BY SoundShape
<1>4. kept \in Keepable(34)
  BY <1>3, KeptStill
<1>5. /\ MayDrop(ShapeAt(35, kept), t, {"id"})
      /\ Plus(Minus(ShapeAt(35, kept), t, {"id"}), t, {c}) = ShapeAt(34, kept)
      /\ t \in TableNames /\ NonNull(t) = {} /\ Telling(t) = {}
  BY DEF MayDrop, MayLose, Plus, Minus, ShapeAt, ColumnsAt, Devise, When, TableNames, NonNull,
     Telling,
         Lists, Types
<1>6. Firm(d, 35) /\ IsDatabase(d) /\ d.ok
  BY DEF Sound, Firm
<1>7. m \in Seq(Nat) /\ (m = <<>> \/ \E k \in Nat : m = <<k + 1>>)
  <2>1. d.connections \in Seq(Nat)
    BY <1>6 DEF IsDatabase
  <2>2. CASE d.connections = <<>>
    BY <2>1, <2>2
  <2>3. CASE d.connections # <<>>
    <3>1. Len(d.connections) \in Nat /\ Len(d.connections) > 0
      BY <2>1, <2>3
    <3>2. PICK k \in Nat : Len(d.connections) = k + 1
      <4>1. Len(d.connections) - 1 \in Nat /\ Len(d.connections) = (Len(d.connections) - 1) + 1
        BY <3>1
      <4> QED
        BY <4>1
    <3>3. m = <<k + 1>>
      BY <2>3, <3>2
    <3> HIDE DEF m
    <3>4. m \in Seq(Nat)
      BY <3>2, <3>3
    <3> QED
      BY <3>3, <3>4
  <2> QED
    BY <2>2, <2>3
<1>8. e1 = WithConnections(d, m)
  BY <1>6 DEF CountConnections, WithConnections, IsDatabase
<1> HIDE DEF t, c, name, m, s1, s2, s3, e1, e2, e3
<1>9. Run(d, Directory[35].down) = e3
  <2>1. Run(d, Directory[35].down) = GoOn(GoOn(GoOn(d, s1), s2), s3)
    BY <1>1, RunThree
  <2>2. GoOn(d, s1) = e1
    BY <1>2, <1>6, Rewriting DEF s1
  <2> QED
    BY <2>1, <2>2 DEF e2, e3
<1>10. /\ IsDatabase(e1) /\ e1.ok /\ e1.cell = d.cell /\ e1.rows = d.rows
       /\ e1.domains = d.domains /\ e1.connections = m
  BY <1>6, <1>7, <1>8, Reconnected
<1>11. Firm(e1, 35)
  <2>1. NeverNull(e1)
    BY <1>6, <1>10 DEF Firm, NeverNull, Has, ColumnsOf
  <2>2. Populated(e1, 35)
    BY <1>6, <1>10 DEF Firm, Populated
  <2>3. \A u, a : Seen(e1, u, a) = Seen(d, u, a)
    BY <1>10 DEF Seen, Has, ColumnsOf
  <2>4. TypeThere(e1) /\ Numbers(e1, 35) /\ Factors(e1)
    BY <1>6, <1>10, <2>3, FactorsSeen DEF Firm, TypeThere, Numbers, Factors
  <2>5. Counts(e1, 35)
    BY DEF Counts
  <2>6. Kinds(e1) = Kinds(d)
    BY <1>10 DEF Kinds, ColumnsOf
  <2>7. NoneElsewhere(e1)
    BY <1>6, <1>10, <2>6 DEF Firm, NoneElsewhere
  <2> QED
    BY <1>10, <2>1, <2>2, <2>4, <2>5, <2>7 DEF Firm
<1>12. Firm(e1, 34)
  <2>1. Undone(e1, 35)
    BY <1>7, <1>10 DEF Undone, Counted
  <2> QED
    BY <1>11, <2>1, FirmDown
<1>13. Shape(e1) = ShapeAt(35, kept)
  BY <1>3, <1>10 DEF Shape, ColumnsOf
<1>14. Quietly(e1, e1, ShapeAt(35, kept))
  BY <1>10, <1>13, QuietlyNothing
<1>15. Quietly(e1, e2, Minus(ShapeAt(35, kept), t, {"id"}))
  BY <1>5, <1>14, AndDrops DEF e2, s2
<1>16. Firm(e2, 34) /\ IsDatabase(e2) /\ e2.ok /\ Shape(e2) = Minus(ShapeAt(35, kept), t, {"id"})
  BY <1>12, <1>15, QuietlyFirm DEF Quietly
<1>17. Wrote(e2, e3, t, {c}, "null")
  BY <1>5, <1>9, <1>16, ColumnsAdded DEF e3, s3
<1>18. e3.rows = e2.rows /\ \A u \in TableNames : u # t => e3.cell[u] = e2.cell[u]
  BY <1>17 DEF Wrote
<1>19. \A u \in TableNames : \A a \in Telling(u) : Seen(e3, u, a) = Seen(e2, u, a)
  BY <1>5, <1>18 DEF Seen, Has, ColumnsOf
<1>20. TypeThere(e3) /\ Numbers(e3, 34) /\ Factors(e3)
  BY <1>16, <1>18, <1>19, SeenSame
<1>21. Firm(e3, 34)
  BY <1>5, <1>16, <1>17, <1>20, WroteFirm
<1>22. Shape(e3) = ShapeAt(34, kept)
  BY <1>5, <1>16, <1>17, ShapeWritten
<1> QED
  BY <1>4, <1>9, <1>21, <1>22 DEF Sound, Schema

LEMMA ListsOfDomainsMade ==
  ASSUME NEW d, IsDatabase(d)
  PROVE  /\ Rewrote(d, MakeListsOfDomains(d))
         /\ \A l \in (Lists \cup Types) \ DOMAIN TypeOf : MakeListsOfDomains(d).domains[l] = d.domains[l]
<1> DEFINE g == [l \in Lists \cup Types |-> IF l \in DOMAIN TypeOf THEN d.domains[TypeOf[l]]
                                            ELSE d.domains[l]]
<1>1. d.domains \in [Lists \cup Types -> [Domains -> Nat]] /\ DOMAIN d.domains = Lists \cup Types
  BY DEF IsDatabase
<1>2. MakeListsOfDomains(d) = WithDomains(d, g)
  BY <1>1 DEF MakeListsOfDomains, WithDomains
<1>3. g \in [Lists \cup Types -> [Domains -> Nat]]
  BY <1>1, TypesOfLists
<1>4. \A l \in (Lists \cup Types) \ DOMAIN TypeOf : g[l] = d.domains[l]
  OBVIOUS
<1> HIDE DEF g
<1>5. Rewrote(d, WithDomains(d, g)) /\ WithDomains(d, g).domains = g
  BY <1>3, DomainsRewritten
<1> QED
  BY <1>2, <1>4, <1>5

LEMMA GoodDown57 ==
  GoodDown(57)
<1> SUFFICES ASSUME NEW d, Sound(d, 57), Run(d, Directory[57].down).ok
             PROVE  Sound(Run(d, Directory[57].down), 56)
  BY DEF GoodDown
<1> DEFINE t == "email_domains"
           o == "organizations"
           ls == DOMAIN TypeOf
           name == "make lists of domains"
           v == "empty"
           s1 == AddWith(o, ls, v)
           s2 == Require(o, ls)
           s3 == Rewrite(name)
           s4 == DropTable(t)
           e1 == GoOn(d, s1)
           e2 == GoOn(e1, s2)
           e3 == MakeListsOfDomains(e2)
           e4 == GoOn(e3, s4)
<1>1. Directory[57].down = <<s1, s2, s3, s4>>
  BY DEF Directory, refactor_email_domains
<1>2. Rewritten(e2, name) = e3
  BY DEF Rewritten
<1>3. PICK kept \in Keepable(57) : Shape(d) = ShapeAt(57, kept) /\ Quietly(d, d, ShapeAt(57, kept))
  BY SoundShape
<1>4. kept \in Keepable(56)
  BY <1>3, KeptStill
<1>5. ls = {"authorized_email_domains", "external_authorized_email_domains",
            "verified_email_domains", "trackdechets_email_domains"}
  BY DEF TypeOf, Lists
<1>6. /\ MayAdd(ShapeAt(57, kept), o, ls, v) /\ ls \subseteq Plus(ShapeAt(57, kept), o, ls)[o]
      /\ [u \in TableNames |-> IF u = t THEN {} ELSE Plus(ShapeAt(57, kept), o, ls)[u]] = ShapeAt(56, kept)
  BY <1>5 DEF MayAdd, MayWrite, Plus, ShapeAt, ColumnsAt, Devise, When, TableNames, Telling, NonNull
<1>7. {t, o} \subseteq TableNames /\ t \notin {"users", "authenticators"} /\ o = "organizations"
  BY DEF TableNames
<1>8. ls \subseteq Lists
  BY TypesOfLists
<1> HIDE DEF t, o, ls, name, v, s1, s2, s3, s4, e1, e2, e3, e4
<1>9. Run(d, Directory[57].down) = GoOn(GoOn(e2, s3), s4)
  BY <1>1, RunFour DEF e1, e2
<1>10. e2.ok
  BY <1>9, OkBefore
<1>11. Run(d, Directory[57].down) = e4
  BY <1>2, <1>9, <1>10, Rewriting DEF e4, s3
<1>12. Quietly(d, e1, Plus(ShapeAt(57, kept), o, ls))
  BY <1>3, <1>6, <1>7, AndAdds DEF e1, s1
<1>13. Quietly(d, e2, Plus(ShapeAt(57, kept), o, ls))
  BY <1>6, <1>7, <1>10, <1>12, AndRequiresWhenOk DEF e2, s2
<1>14. Firm(e2, 57) /\ IsDatabase(e2)
  BY <1>13, QuietlyFirm DEF Sound, Firm
<1>15. Shape(e2) = Plus(ShapeAt(57, kept), o, ls) /\ ls \subseteq ColumnsOf(e2, o)
  BY <1>6, <1>7, <1>13, QuietlySeen
<1>16. Rewrote(e2, e3) /\ \A l \in (Lists \cup Types) \ ls : e3.domains[l] = e2.domains[l]
  BY <1>14, ListsOfDomainsMade DEF e3, ls
<1>17. NoneElsewhere(e3)
  <2>1. Kinds(e3) = Kinds(e2)
    BY <1>16, RewroteSame
  <2>2. ls \subseteq Kinds(e2)
    BY <1>7, <1>8, <1>15 DEF Kinds
  <2> QED
    BY <1>14, <1>16, <2>1, <2>2 DEF Firm, NoneElsewhere
<1>18. Firm(e3, 57) /\ IsDatabase(e3) /\ e3.ok
  <2>1. Firm(e3, 57)
    BY <1>14, <1>16, <1>17, RewroteFirm
  <2> QED
    BY <2>1 DEF Firm
<1>19. Shape(e3) = Plus(ShapeAt(57, kept), o, ls)
  BY <1>15, <1>16, RewroteSame
<1>20. LostTable(e3, e4, t)
  BY <1>7, <1>11, <1>18, TableDropped DEF e4, s4
<1>21. Factors(e4)
  <2>1. \A a : Seen(e4, "users", a) = Seen(e3, "users", a)
    BY <1>7, <1>20, LostTableSeen DEF TableNames
  <2>2. e4.rows = e3.rows \ {t}
    BY <1>20 DEF LostTable
  <2>3. /\ "users" \in e4.rows <=> "users" \in e3.rows
        /\ "authenticators" \in e4.rows <=> "authenticators" \in e3.rows
    BY <1>7, <2>2
  <2> QED
    BY <1>18, <2>1, <2>3, FactorsSeen DEF Firm, Factors
<1>22. Firm(e4, 57)
  BY <1>7, <1>18, <1>20, <1>21, LostTableFirm
<1>23. Firm(e4, 56)
  BY <1>22, FirmDown DEF Undone
<1>24. Shape(e4) = ShapeAt(56, kept)
  BY <1>6, <1>7, <1>19, <1>20, ShapeWithoutTable
<1> QED
  BY <1>4, <1>11, <1>23, <1>24 DEF Sound, Schema

LEMMA NoneBesideVerifiedAdded ==
  ASSUME NEW n, NEW d, Firm(d, n)
  PROVE  Rewrote(d, AddNoneBesideVerified(d)) /\ NoneElsewhere(AddNoneBesideVerified(d))
<1> DEFINE f == [x \in Domains |-> d.domains["none"][x] + d.domains["verified"][x]]
           g == [d.domains EXCEPT !["none"] = f]
           e == AddNoneBesideVerified(d)
<1>1. /\ IsDatabase(d) /\ NoneElsewhere(d)
      /\ d.domains \in [Lists \cup Types -> [Domains -> Nat]]
  BY FirmDomains
<1>2. e = WithDomains(d, g)
  BY <1>1 DEF AddNoneBesideVerified, WithDomains
<1>3. {"none", "verified"} \subseteq Types
  BY DEF Types
<1>4. f \in [Domains -> Nat]
  BY <1>1, <1>3
<1>5. \A x \in Domains : f[x] = d.domains["none"][x] + d.domains["verified"][x]
  OBVIOUS
<1> HIDE DEF f
<1>6. g \in [Lists \cup Types -> [Domains -> Nat]]
  BY <1>1, <1>4
<1>7. \A l \in Lists \cup Types : g[l] = IF l = "none" THEN f ELSE d.domains[l]
  BY <1>1
<1> HIDE DEF g, e
<1>8. Rewrote(d, e) /\ e.domains = g
  BY <1>1, <1>2, <1>6, DomainsRewritten
<1>9. NoneElsewhere(e)
  <2>1. Kinds(e) = Kinds(d)
    BY <1>8, RewroteSame
  <2>2. "none" \in Kinds(d) <=> "verified" \in Kinds(d)
    BY <1>3 DEF Kinds, Lists
  <2>3. ASSUME NEW l \in (Lists \cup Types) \ Kinds(d), NEW x \in Domains
        PROVE  g[l][x] = 0
    <3>1. CASE l # "none"
      BY <1>1, <1>7, <3>1 DEF NoneElsewhere
    <3>2. CASE l = "none"
      <4>1. d.domains["none"][x] = 0 /\ d.domains["verified"][x] = 0
        BY <1>1, <1>3, <2>2, <3>2 DEF NoneElsewhere
      <4> QED
        BY <1>5, <1>7, <3>2, <4>1
    <3> QED
      BY <3>1, <3>2
  <2> QED
    BY <1>8, <2>1, <2>3 DEF NoneElsewhere
<1> QED
  BY <1>8, <1>9 DEF e

LEMMA GoodDown58 ==
  GoodDown(58)
<1> SUFFICES ASSUME NEW d, Sound(d, 58), Run(d, Directory[58].down).ok
             PROVE  Sound(Run(d, Directory[58].down), 57)
  BY DEF GoodDown
<1> DEFINE name == "add none beside verified"
           s == Rewrite(name)
           e == AddNoneBesideVerified(d)
<1>1. Directory[58].down = <<s>>
  BY DEF Directory, delete_email_duplicates
<1>2. Rewritten(d, name) = e
  BY DEF Rewritten
<1>3. PICK kept \in Keepable(58) : Shape(d) = ShapeAt(58, kept)
  BY SoundShape
<1>4. kept \in Keepable(57) /\ ShapeAt(58, kept) = ShapeAt(57, kept)
  <2>1. kept \in Keepable(57)
    BY <1>3, KeptStill
  <2>2. ShapeAt(58, kept) = ShapeAt(57, kept)
    BY DEF ShapeAt, ColumnsAt, Devise, When, TableNames
  <2> QED
    BY <2>1, <2>2
<1>5. Firm(d, 58) /\ d.ok
  BY DEF Sound, Firm
<1> HIDE DEF name, s, e
<1>6. Run(d, Directory[58].down) = e
  BY <1>1, <1>2, <1>5, RunOne, Rewriting DEF s
<1>7. Rewrote(d, e) /\ NoneElsewhere(e)
  BY <1>5, NoneBesideVerifiedAdded DEF e
<1>8. Firm(e, 58) /\ Shape(e) = ShapeAt(57, kept)
  BY <1>3, <1>4, <1>5, <1>7, RewroteFirm, RewroteSame
<1>9. Firm(e, 57)
  BY <1>8, FirmDown DEF Undone
<1> QED
  BY <1>4, <1>6, <1>8, <1>9 DEF Sound, Schema

LEMMA GoodDown60 ==
  GoodDown(60)
<1> SUFFICES ASSUME NEW d, Sound(d, 60), Run(d, Directory[60].down).ok
             PROVE  Sound(Run(d, Directory[60].down), 59)
  BY DEF GoodDown
<1> DEFINE t == "users_organizations"
           c == "verification_type"
           name == "restore verification types"
           s == Rewrite(name)
           e == RestoreVerificationTypes(d)
<1>1. Directory[60].down = <<s>>
  BY DEF Directory, update_verification_type
<1>2. Rewritten(d, name) = e
  BY DEF Rewritten
<1>3. PICK kept \in Keepable(60) : Shape(d) = ShapeAt(60, kept)
  BY SoundShape
<1>4. /\ kept \in Keepable(59) /\ ShapeAt(60, kept) = ShapeAt(59, kept)
      /\ Plus(ShapeAt(60, kept), t, {c}) = ShapeAt(60, kept)
  BY <1>3, KeptStill DEF ShapeAt, ColumnsAt, Devise, Plus, When, TableNames
<1>5. Firm(d, 60) /\ IsDatabase(d) /\ d.ok
  BY DEF Sound, Firm
<1>6. e = d \/ \E v : e = WithCells(d, t, {c}, v)
  BY DEF RestoreVerificationTypes
<1>7. t \in TableNames /\ t \notin {"users", "moderations"} /\ {c} \cap NonNull(t) = {}
  BY DEF TableNames, NonNull
<1> HIDE DEF t, c, name, s, e
<1>8. Run(d, Directory[60].down) = e
  BY <1>1, <1>2, <1>5, RunOne, Rewriting DEF s
<1>9. Firm(e, 60) /\ Shape(e) = ShapeAt(59, kept)
  <2>1. CASE e = d
    BY <1>3, <1>4, <1>5, <2>1
  <2>2. ASSUME NEW v, e = WithCells(d, t, {c}, v)
        PROVE  Firm(e, 60) /\ Shape(e) = ShapeAt(59, kept)
    <3>1. Wrote(d, e, t, {c}, v)
      BY <1>5, <1>7, <2>2, CellsWritten
    <3>2. e.rows = d.rows
      BY <3>1 DEF Wrote
    <3>3. /\ \A a : Seen(e, "users", a) = Seen(d, "users", a)
          /\ \A a : Seen(e, "moderations", a) = Seen(d, "moderations", a)
      <4>1. "users" \in TableNames /\ "moderations" \in TableNames
        BY DEF TableNames
      <4> QED
        BY <1>7, <3>1, <4>1, WroteSeen
    <3>4. TypeThere(e) /\ Numbers(e, 60)
      BY <1>5, <3>2, <3>3 DEF Firm, TypeThere, Numbers
    <3>5. Factors(e)
      BY <1>5, <3>2, <3>3, FactorsSeen DEF Firm, Factors
    <3> QED
      BY <1>3, <1>4, <1>5, <1>7, <3>1, <3>4, <3>5, WroteFirm, ShapeWritten
  <2> QED
    BY <1>6, <2>1, <2>2
<1>10. Firm(e, 59)
  BY <1>9, FirmDown DEF Undone
<1> QED
  BY <1>4, <1>8, <1>9, <1>10 DEF Sound, Schema

LEMMA GoodDown63 ==
  GoodDown(63)
<1> SUFFICES ASSUME NEW d, Sound(d, 63), Run(d, Directory[63].down).ok
             PROVE  Sound(Run(d, Directory[63].down), 62)
  BY DEF GoodDown
<1> DEFINE t == "moderations"
           c == "ticket_id"
           c2 == "ticket_id_int"
           vs == {"null", "number"}
           v == d.cell[t][c]
           w == IF t \in d.rows THEN v ELSE "null"
           s1 == AddWith(t, {c2}, "null")
           s2 == Cast(t, c, c2, vs)
           s3 == Drop(t, {c})
           s4 == Rename(t, c2, c)
           e1 == GoOn(d, s1)
           e2 == GoOn(e1, s2)
           e3 == GoOn(e2, s3)
           f == WithoutCells(e3, t, {c2})
           e4 == WithCells(f, t, {c}, w)
<1>1. PICK kept \in Keepable(63) : Shape(d) = ShapeAt(63, kept) /\ Quietly(d, d, ShapeAt(63, kept))
  BY SoundShape
<1>2. kept \in Keepable(62)
  BY <1>1, KeptStill
<1>3. /\ c \in ShapeAt(63, kept)[t] /\ c2 \notin ShapeAt(63, kept)[t]
      /\ ShapeAt(62, kept) = ShapeAt(63, kept)
  BY DEF ShapeAt, ColumnsAt, Devise, When, TableNames
<1>4. Directory[63].down = <<s1, s2, s3, s4>>
  BY DEF Directory, update_ticket_id, Add
<1>5. /\ t \in TableNames /\ t = "moderations" /\ c # c2 /\ c = "ticket_id"
      /\ {c} \in SUBSET TicketColumns /\ {c2} \in SUBSET TicketColumns
      /\ vs = {"null", "number"} /\ "null" \in vs
  BY DEF TableNames, TicketColumns
<1> HIDE DEF t, c, c2, vs, v, w, s1, s2, s3, s4, e1, e2, e3, f, e4
<1>6. Firm(d, 63) /\ IsDatabase(d) /\ d.ok /\ c \in ColumnsOf(d, t) /\ c2 \notin ColumnsOf(d, t)
  BY <1>1, <1>3, <1>5, QuietlySeen DEF Sound
<1>7. Run(d, Directory[63].down) = GoOn(e3, s4)
  BY <1>4, RunFour DEF e1, e2, e3
<1>8. e3.ok /\ e2.ok /\ e1.ok
  <2>1. e3.ok
    BY <1>7, OkBefore
  <2>2. e2.ok
    BY <2>1, OkBefore DEF e3
  <2>3. e1.ok
    BY <2>2, OkBefore DEF e2
  <2> QED
    BY <2>1, <2>2, <2>3
<1>9. Wrote(d, e1, t, {c2}, "null")
  BY <1>5, <1>6, <1>8, ColumnsAdded DEF e1, s1
<1>10. Firm(e1, 63) /\ IsDatabase(e1) /\ e1.rows = d.rows
  <2>1. Firm(e1, 63)
    BY <1>5, <1>6, <1>9, TicketsWritten
  <2> QED
    BY <1>9, <2>1 DEF Firm, Wrote
<1>11. {c, c2} \subseteq ColumnsOf(e1, t) /\ e1.cell[t][c] = v
  BY <1>5, <1>6, <1>9 DEF Wrote, v
<1>12. Casts(e1, t, c, vs) /\ e2 = CastTo(e1, t, c, c2)
  BY <1>5, <1>8, <1>10, <1>11, CastDone DEF e2, s2
<1>13. w \in vs
  BY <1>5, <1>10, <1>11, <1>12 DEF Casts, w
<1>14. Wrote(e1, e2, t, {c2}, w)
  <2>1. CASE t \in d.rows
    BY <1>5, <1>10, <1>11, <1>12, <2>1, CellsWritten DEF CastTo, w
  <2>2. CASE t \notin d.rows
    <3>1. e2 = e1
      BY <1>10, <1>12, <2>2 DEF CastTo
    <3>2. \A a \in ColumnsOf(e1, t) : e1.cell[t][a] = IF a \in {c2} THEN "null" ELSE e1.cell[t][a]
      BY <1>9 DEF Wrote
    <3>3. ColumnsOf(e1, t) = ColumnsOf(e1, t) \cup {c2}
      BY <1>9 DEF Wrote
    <3>4. w = "null"
      BY <2>2 DEF w
    <3> QED
      BY <1>10, <3>1, <3>2, <3>3, <3>4 DEF Wrote
  <2> QED
    BY <2>1, <2>2
<1>15. Firm(e2, 63) /\ IsDatabase(e2) /\ e2.rows = d.rows
  <2>1. Firm(e2, 63)
    BY <1>5, <1>10, <1>14, TicketsWritten
  <2> QED
    BY <1>10, <1>14, <2>1 DEF Firm, Wrote
<1>16. Lost(e2, e3, t, {c})
  BY <1>5, <1>8, <1>15, ColumnsDropped DEF e3, s3
<1>17. Firm(e3, 63) /\ IsDatabase(e3)
  <2>1. Firm(e3, 63)
    BY <1>5, <1>15, <1>16, TicketsLost
  <2> QED
    BY <2>1 DEF Firm
<1>18. c2 \in ColumnsOf(e3, t) /\ c \notin ColumnsOf(e3, t) /\ e3.cell[t][c2] = w
  BY <1>5, <1>11, <1>14, <1>16 DEF Wrote, Lost
<1>19. Run(d, Directory[63].down) = e4
  BY <1>7, <1>8, <1>18, Renaming DEF If, f, e4, s4
<1>20. Lost(e3, f, t, {c2}) /\ Firm(f, 63)
  BY <1>5, <1>17, CellsLost, TicketsLost DEF f
<1>21. Wrote(f, e4, t, {c}, w)
  BY <1>5, <1>20, CellsWritten DEF e4, Firm
<1>22. Firm(e4, 63)
  BY <1>5, <1>20, <1>21, TicketsWritten
<1>23. ColumnsOf(e4, t) = ColumnsOf(d, t)
  <2>1. ColumnsOf(e2, t) = ColumnsOf(d, t) \cup {c2}
    BY <1>9, <1>14 DEF Wrote
  <2>2. ColumnsOf(f, t) = (ColumnsOf(e2, t) \ {c}) \ {c2}
    BY <1>16, <1>20 DEF Lost
  <2>3. ColumnsOf(e4, t) = ColumnsOf(f, t) \cup {c}
    BY <1>21 DEF Wrote
  <2> QED
    BY <1>5, <1>6, <2>1, <2>2, <2>3
<1>24. \A u \in TableNames : u # t => e4.cell[u] = d.cell[u]
  BY <1>9, <1>14, <1>16, <1>20, <1>21 DEF Wrote, Lost
<1>25. Shape(e4) = ShapeAt(62, kept)
  <2>1. \A u \in TableNames : ColumnsOf(e4, u) = ColumnsOf(d, u)
    BY <1>23, <1>24 DEF ColumnsOf
  <2>2. Shape(e4) = Shape(d)
    BY <2>1 DEF Shape
  <2> QED
    BY <1>1, <1>3, <2>2
<1>26. Undone(e4, 63)
  <2>1. Seen(e4, t, c) = w
    BY <1>5, <1>21, WroteSeen
  <2>2. Numbers(e4, 62)
    BY <1>5, <1>13, <2>1 DEF Numbers
  <2> QED
    BY <2>2 DEF Undone
<1>27. Firm(e4, 62)
  BY <1>22, <1>26, FirmDown
<1> QED
  BY <1>2, <1>19, <1>25, <1>27 DEF Sound, Schema

(***************************************************************************)
(* Every file.                                                             *)
(***************************************************************************)

LEMMA EveryUp ==
  \A n \in 1..68 : GoodUp(n)
<1> DEFINE loud == {9, 18, 26, 31, 32, 35, 36, 56, 57, 58, 60, 62, 63, 66, 67, 68}
<1>1. \A n \in {1, 2, 3, 4, 5, 6, 7, 8, 10} : QuietUp(n)
  BY Up1, Up2, Up3, Up4, Up5, Up6, Up7, Up8, Up10
<1>2. \A n \in {11, 12, 13, 14, 15, 16, 17, 19, 20} : QuietUp(n)
  BY Up11, Up12, Up13, Up14, Up15, Up16, Up17, Up19, Up20
<1>3. \A n \in {21, 22, 23, 24, 25, 27, 28, 29, 30} : QuietUp(n)
  BY Up21, Up22, Up23, Up24, Up25, Up27, Up28, Up29, Up30
<1>4. \A n \in {33, 34, 37, 38, 39, 40, 41, 42, 43} : QuietUp(n)
  BY Up33, Up34, Up37, Up38, Up39, Up40, Up41, Up42, Up43
<1>5. \A n \in {44, 45, 46, 47, 48, 49, 50, 51, 52} : QuietUp(n)
  BY Up44, Up45, Up46, Up47, Up48, Up49, Up50, Up51, Up52
<1>6. \A n \in {53, 54, 55, 59, 61, 64, 65} : QuietUp(n)
  BY Up53, Up54, Up55, Up59, Up61, Up64, Up65
<1>7. \A n \in (1..68) \ loud : QuietUp(n)
  BY <1>1, <1>2, <1>3, <1>4, <1>5, <1>6
<1>8. \A n \in {9, 18, 26, 31, 32, 35, 36, 56, 57} : GoodUp(n)
  BY Good9, Good18, Good26, Good31, Good32, Good35, Good36, Good56, Good57
<1>9. \A n \in {58, 60, 62, 63, 66, 67, 68} : GoodUp(n)
  BY Good58, Good60, Good62, Good63, Good66, Good67, Good68
<1>10. \A n \in loud : GoodUp(n)
  BY <1>8, <1>9
<1> QED
  BY <1>7, <1>10, QuietIsGood

LEMMA EveryDown ==
  \A n \in 1..68 : GoodDown(n)
<1> DEFINE loud == {1, 4, 8, 9, 14, 16, 19, 26, 29, 30, 35, 45, 46, 50, 54, 56, 57, 58, 60, 63}
<1>1. \A n \in {2, 3, 5, 6, 7, 10, 11, 12, 13} : QuietDown(n)
  BY Down2, Down3, Down5, Down6, Down7, Down10, Down11, Down12, Down13
<1>2. \A n \in {15, 17, 18, 20, 21, 22, 23, 24, 25} : QuietDown(n)
  BY Down15, Down17, Down18, Down20, Down21, Down22, Down23, Down24, Down25
<1>3. \A n \in {27, 28, 31, 32, 33, 34, 36, 37, 38} : QuietDown(n)
  BY Down27, Down28, Down31, Down32, Down33, Down34, Down36, Down37, Down38
<1>4. \A n \in {39, 40, 41, 42, 43, 44, 47, 48, 49} : QuietDown(n)
  BY Down39, Down40, Down41, Down42, Down43, Down44, Down47, Down48, Down49
<1>5. \A n \in {51, 52, 53, 55, 59, 61, 62, 64, 65} : QuietDown(n)
  BY Down51, Down52, Down53, Down55, Down59, Down61, Down62, Down64, Down65
<1>6. \A n \in {66, 67, 68} : QuietDown(n)
  BY Down66, Down67, Down68
<1>7. \A n \in (1..68) \ loud : QuietDown(n)
  BY <1>1, <1>2, <1>3, <1>4, <1>5, <1>6
<1>8. \A n \in {1, 4, 8, 9, 14, 16, 19, 26, 29} : GoodDown(n)
  BY GoodDown1, GoodDown4, GoodDown8, GoodDown9, GoodDown14, GoodDown16, GoodDown19, GoodDown26,
     GoodDown29
<1>9. \A n \in {30, 35, 45, 46, 50, 54, 56, 57, 58} : GoodDown(n)
  BY GoodDown30, GoodDown35, GoodDown45, GoodDown46, GoodDown50, GoodDown54, GoodDown56, GoodDown57,
     GoodDown58
<1>10. \A n \in {60, 63} : GoodDown(n)
  BY GoodDown60, GoodDown63
<1>11. \A n \in loud : GoodDown(n)
  BY <1>8, <1>9, <1>10
<1> QED
  BY <1>7, <1>11, QuietDownIsGood

(***************************************************************************)
(* What the application writes.                                            *)
(***************************************************************************)

\* e is d with a row of t, whose columns have these values.
Put(d, e, t, values) ==
  /\ IsDatabase(e)
  /\ e.ok <=> d.ok
  /\ e.rows = d.rows \cup {t}
  /\ e.domains = d.domains
  /\ e.connections = d.connections
  /\ e.email = d.email
  /\ \A u \in TableNames : u # t => e.cell[u] = d.cell[u]
  /\ ColumnsOf(e, t) = ColumnsOf(d, t)
  /\ \A c \in ColumnsOf(e, t) :
       e.cell[t][c] = IF c \in DOMAIN values THEN values[c] ELSE d.cell[t][c]

LEMMA RowInserted ==
  ASSUME IsDatabase(db), NEW t \in TableNames, NEW values
  PROVE  Put(db, Inserted(t, values), t, values)
<1> DEFINE f == [c \in DOMAIN db.cell[t] |-> IF c \in DOMAIN values THEN values[c] ELSE db.cell[t][c]]
           cell == [db.cell EXCEPT ![t] = f]
           e == [db EXCEPT !.rows = @ \cup {t}, !.cell = cell]
<1>1. DOMAIN db.cell = TableNames /\ DOMAIN db.required = TableNames
  BY DEF IsDatabase, AreCells, AreRequired
<1>2. Inserted(t, values) = e
  BY <1>1 DEF Inserted, IsDatabase
<1>3. DOMAIN f = DOMAIN db.cell[t]
  OBVIOUS
<1>4. \A c \in DOMAIN f : f[c] = IF c \in DOMAIN values THEN values[c] ELSE db.cell[t][c]
  OBVIOUS
<1>5. f = [c \in DOMAIN f |-> f[c]]
  OBVIOUS
<1> HIDE DEF f
<1>6. DOMAIN cell = TableNames /\ cell[t] = f /\ \A u \in TableNames : u # t => cell[u] = db.cell[u]
  BY <1>1
<1>7. \A u \in TableNames : db.cell[u] = [c \in DOMAIN db.cell[u] |-> db.cell[u][c]]
  BY DEF IsDatabase, AreCells
<1>8. cell = [u \in TableNames |-> cell[u]]
  BY <1>1
<1>9. \A u \in TableNames : cell[u] = [c \in DOMAIN cell[u] |-> cell[u][c]]
  BY <1>5, <1>6, <1>7
<1>10. AreCells(cell)
  BY <1>8, <1>9 DEF AreCells
<1> HIDE DEF cell
<1>11. /\ e.cell = cell /\ e.rows = db.rows \cup {t} /\ e.required = db.required /\ e.ok = db.ok
       /\ e.domains = db.domains /\ e.connections = db.connections /\ e.email = db.email
       /\ e.unique = db.unique
  BY DEF IsDatabase
<1>12. IsDatabase(e)
  BY <1>10, <1>11 DEF IsDatabase
<1> HIDE DEF e
<1> QED
  BY <1>2, <1>3, <1>4, <1>6, <1>11, <1>12 DEF Put, ColumnsOf

LEMMA PutSeen ==
  ASSUME NEW d, NEW e, NEW t \in TableNames, NEW values, Put(d, e, t, values)
  PROVE  \A u \in TableNames : \A c :
           Seen(e, u, c) = IF u = t /\ c \in DOMAIN values /\ Has(d, t, c)
                           THEN values[c] ELSE Seen(d, u, c)
<1>1. ASSUME NEW u \in TableNames, u # t, NEW c
      PROVE  Seen(e, u, c) = Seen(d, u, c)
  BY <1>1 DEF Put, Seen, Has, ColumnsOf
<1>2. ASSUME NEW c
      PROVE  Seen(e, t, c) = IF c \in DOMAIN values /\ Has(d, t, c) THEN values[c] ELSE Seen(d, t, c)
  BY DEF Put, Seen, Has
<1> QED
  BY <1>1, <1>2

\* The tables that the application writes.
Writable == {"users", "organizations", "users_organizations", "moderations", "oidc_clients",
             "authenticators"}

\* A table that is there came with its file.
LEMMA ThereSince ==
  ASSUME NEW n \in 0..68, NEW d, Sound(d, n), NEW t \in TableNames, ColumnsOf(d, t) # {}
  PROVE  /\ t = "users" => n >= 1
         /\ t = "oidc_clients" => n >= 4
         /\ t \in {"organizations", "users_organizations"} => n >= 8
         /\ t = "moderations" => n >= 16 /\ Has(d, t, "type")
         /\ t = "users_oidc_clients" => n >= 26 /\ (n \in 26..34 => Has(d, t, "connection_count"))
         /\ t = "authenticators" => n >= 45
<1>1. PICK kept \in Keepable(n) : Shape(d) = ShapeAt(n, kept)
  BY SoundShape
<1>2. \A u \in TableNames : ColumnsOf(d, u) = ColumnsAt(u, n, kept)
  BY <1>1, NamesOfColumns DEF ShapeAt
<1>3. ColumnsAt(t, n, kept) # {}
  BY <1>2
<1>4. n < 14 => kept = {}
  BY DEF Keepable, When
<1>5. /\ t = "users" => n >= 1
      /\ t = "oidc_clients" => n >= 4
      /\ t = "organizations" => n >= 8
  BY <1>3 DEF ColumnsAt, When
<1>6. t = "users_organizations" => n >= 8
  BY <1>3, <1>4 DEF ColumnsAt, When
<1>7. t = "moderations" => n >= 16 /\ "type" \in ColumnsAt(t, n, kept)
  BY <1>3 DEF ColumnsAt, When
<1>8. t = "users_oidc_clients" => n >= 26 /\ (n \in 26..34 => "connection_count" \in ColumnsAt(t, n, kept))
  BY <1>3 DEF ColumnsAt, When
<1>9. t = "authenticators" => n >= 45
  BY <1>3 DEF ColumnsAt, When
<1> QED
  BY <1>2, <1>5, <1>6, <1>7, <1>8, <1>9 DEF Has

LEMMA PutSound ==
  ASSUME NEW n \in 0..68, NEW d, Sound(d, n), NEW e, NEW t \in Writable, ColumnsOf(d, t) # {},
         NEW values, Put(d, e, t, values), DOMAIN values \cap NonNull(t) = {},
         TypeThere(e), Numbers(e, n), Factors(e)
  PROVE  Sound(e, n)
<1>1. t \in TableNames
  BY DEF Writable, TableNames
<1>2. Firm(d, n)
  BY DEF Sound
<1>3. IsDatabase(e) /\ e.ok /\ e.rows = d.rows \cup {t}
  BY <1>2 DEF Put, Firm
<1>4. \A u \in TableNames : ColumnsOf(e, u) = ColumnsOf(d, u)
  BY DEF Put, ColumnsOf
<1>5. NeverNull(e)
  <2>1. ASSUME NEW u \in TableNames, NEW c \in NonNull(u), Has(e, u, c)
        PROVE  e.cell[u][c] = d.cell[u][c]
    BY <1>4, <2>1 DEF Put, Has
  <2> QED
    BY <1>2, <1>4, <2>1 DEF Firm, NeverNull, Has
<1>6. Populated(e, n)
  <2>1. /\ t = "users" => n >= 1
        /\ t = "oidc_clients" => n >= 4
        /\ t \in {"organizations", "users_organizations"} => n >= 8
        /\ t = "moderations" => n >= 16
        /\ t = "authenticators" => n >= 45
    BY <1>1, ThereSince
  <2> QED
    BY <1>2, <1>3, <2>1 DEF Firm, Populated, Writable
<1>7. Counts(e, n)
  BY <1>2 DEF Put, Firm, Counts, Counted
<1>8. NoneElsewhere(e)
  <2>1. Kinds(e) = Kinds(d)
    BY <1>4 DEF Kinds, TableNames
  <2> QED
    BY <1>2, <2>1 DEF Put, Firm, NoneElsewhere
<1>9. Firm(e, n)
  BY <1>3, <1>5, <1>6, <1>7, <1>8 DEF Firm
<1>10. Shape(e) = Shape(d)
  BY <1>4 DEF Shape
<1> QED
  BY <1>9, <1>10 DEF Sound, Schema

\* A row of another table than moderations.
LEMMA PutRow ==
  ASSUME NEW n \in 0..68, NEW d, Sound(d, n), NEW e, NEW t \in Writable \ {"moderations"},
         ColumnsOf(d, t) # {}, NEW values, Put(d, e, t, values),
         DOMAIN values \cap (NonNull(t) \cup {"force_2fa", "encrypted_totp_key"}) = {},
         t = "authenticators" => "users" \in d.rows
  PROVE  Sound(e, n)
<1>1. t \in TableNames /\ "users" \in TableNames /\ "moderations" \in TableNames
  BY DEF Writable, TableNames
<1>2. Firm(d, n) /\ e.rows = d.rows \cup {t}
  BY DEF Sound, Put
<1>3. \A c \in {"force_2fa", "encrypted_totp_key"} : Seen(e, "users", c) = Seen(d, "users", c)
  BY <1>1, PutSeen
<1>4. \A c : Seen(e, "moderations", c) = Seen(d, "moderations", c)
  BY <1>1, PutSeen
<1>5. "moderations" \in e.rows <=> "moderations" \in d.rows
  BY <1>2
<1>6. TypeThere(e) /\ Numbers(e, n)
  BY <1>2, <1>4, <1>5 DEF Firm, TypeThere, Numbers
<1>7. Factors(e)
  BY <1>2, <1>3, FactorsSeen DEF Firm, Factors
<1> QED
  BY <1>6, <1>7, PutSound

\* No other file is written as 1724327131305 is, which changes the column of the tickets.
LEMMA TicketsOnce ==
  \A i \in 1..62 : Directory[i] # update_ticket_id
<1> DEFINE four(i) == Len(Directory[i].up) = 4
<1>1. ~four(1) /\ ~four(2) /\ ~four(4) /\ ~four(5) /\ ~four(6) /\ ~four(7) /\ ~four(8) /\ ~four(9)
  <2>1. /\ Directory[1] = create_users_table
        /\ Directory[2] = add_legacy_account_type
        /\ Directory[4] = create_oidc_clients_table
        /\ Directory[5] = add_verified_email
        /\ Directory[6] = remove_legacy_account_type_from_users
        /\ Directory[7] = add_names_to_user
        /\ Directory[8] = create_organizations
        /\ Directory[9] = add_authorized_email_domains_to_organizations
    BY DEF Directory
  <2>2. /\ Len(create_users_table.up) # 4
        /\ Len(add_legacy_account_type.up) # 4
        /\ Len(create_oidc_clients_table.up) # 4
        /\ Len(add_verified_email.up) # 4
        /\ Len(remove_legacy_account_type_from_users.up) # 4
        /\ Len(add_names_to_user.up) # 4
        /\ Len(create_organizations.up) # 4
        /\ Len(add_authorized_email_domains_to_organizations.up) # 4
    BY DEF create_users_table, add_legacy_account_type, create_oidc_clients_table,
             add_verified_email, remove_legacy_account_type_from_users, add_names_to_user,
             create_organizations, add_authorized_email_domains_to_organizations, Adds
  <2> QED
    BY <2>1, <2>2
<1>2. /\ ~four(10) /\ ~four(11) /\ ~four(12) /\ ~four(13)
      /\ ~four(14) /\ ~four(15) /\ ~four(16) /\ ~four(17)
  <2>1. /\ Directory[10] = add_post_logout_redirect_uris_to_oidc_clients
        /\ Directory[11] = remove_roles_from_user
        /\ Directory[12] = add_personnal_informations_to_users
        /\ Directory[13] = add_scope_to_oidc_clients
        /\ Directory[14] = add_is_external_to_users_organisations
        /\ Directory[15] = add_date_to_organisations
        /\ Directory[16] = add_moderation_table
        /\ Directory[17] = capture_external_status
    BY DEF Directory
  <2>2. /\ Len(add_post_logout_redirect_uris_to_oidc_clients.up) # 4
        /\ Len(remove_roles_from_user.up) # 4
        /\ Len(add_personnal_informations_to_users.up) # 4
        /\ Len(add_scope_to_oidc_clients.up) # 4
        /\ Len(add_is_external_to_users_organisations.up) # 4
        /\ Len(add_date_to_organisations.up) # 4
        /\ Len(add_moderation_table.up) # 4
        /\ Len(capture_external_status.up) # 4
    BY DEF add_post_logout_redirect_uris_to_oidc_clients, remove_roles_from_user,
             add_personnal_informations_to_users, add_scope_to_oidc_clients,
             add_is_external_to_users_organisations, add_date_to_organisations,
             add_moderation_table, capture_external_status, Adds, Drops
  <2> QED
    BY <2>1, <2>2
<1>3. /\ ~four(18) /\ ~four(19) /\ ~four(20) /\ ~four(21)
      /\ ~four(22) /\ ~four(23) /\ ~four(24) /\ ~four(25)
  <2>1. /\ Directory[18] = lower_email_adresses
        /\ Directory[19] = add_new_moderation_type
        /\ Directory[20] = use_time_stamp_with_timezone
        /\ Directory[21] = add_comment_to_moderations
        /\ Directory[22] = add_magic_link_to_user
        /\ Directory[23] = add_info_to_organization
        /\ Directory[24] = add_email_verified_at_to_user
        /\ Directory[25] = remove_index_user_on_verify_email_token
    BY DEF Directory
  <2>2. /\ Len(lower_email_adresses.up) # 4
        /\ Len(add_new_moderation_type.up) # 4
        /\ Len(use_time_stamp_with_timezone.up) # 4
        /\ Len(add_comment_to_moderations.up) # 4
        /\ Len(add_magic_link_to_user.up) # 4
        /\ Len(add_info_to_organization.up) # 4
        /\ Len(add_email_verified_at_to_user.up) # 4
        /\ Len(remove_index_user_on_verify_email_token.up) # 4
    BY DEF lower_email_adresses, add_new_moderation_type, use_time_stamp_with_timezone,
             add_comment_to_moderations, add_magic_link_to_user, add_info_to_organization,
             add_email_verified_at_to_user, remove_index_user_on_verify_email_token, Adds
  <2> QED
    BY <2>1, <2>2
<1>4. /\ ~four(26) /\ ~four(27) /\ ~four(28) /\ ~four(29)
      /\ ~four(30) /\ ~four(31) /\ ~four(32) /\ ~four(33)
  <2>1. /\ Directory[26] = join_users_oidc_clients
        /\ Directory[27] = update_oidc_clients
        /\ Directory[28] = cast_some_organization_info_to_boolean
        /\ Directory[29] = add_verified_domains
        /\ Directory[30] = add_external_verified_domains
        /\ Directory[31] = remove_free_email_provider
        /\ Directory[32] = remove_external_verified
        /\ Directory[33] = remove_as_external
    BY DEF Directory
  <2>2. /\ Len(join_users_oidc_clients.up) # 4
        /\ Len(update_oidc_clients.up) # 4
        /\ Len(cast_some_organization_info_to_boolean.up) # 4
        /\ Len(add_verified_domains.up) # 4
        /\ Len(add_external_verified_domains.up) # 4
        /\ Len(remove_free_email_provider.up) # 4
        /\ Len(remove_external_verified.up) # 4
        /\ Len(remove_as_external.up) # 4
    BY DEF join_users_oidc_clients, update_oidc_clients, cast_some_organization_info_to_boolean,
             add_verified_domains, add_external_verified_domains, remove_free_email_provider,
             remove_external_verified, remove_as_external
  <2> QED
    BY <2>1, <2>2
<1>5. /\ ~four(34) /\ ~four(35) /\ ~four(36) /\ ~four(37)
      /\ ~four(38) /\ ~four(39) /\ ~four(40) /\ ~four(41)
  <2>1. /\ Directory[34] = add_cog
        /\ Directory[35] = normalize_connection_counter
        /\ Directory[36] = fix_non_consistent_verified_domains
        /\ Directory[37] = add_peer_authentication
        /\ Directory[38] = improve_organisation_greeting
        /\ Directory[39] = record_sponsor_id
        /\ Directory[40] = add_sign_alg_to_client
        /\ Directory[41] = add_more_sign_alg_to_client
    BY DEF Directory
  <2>2. /\ Len(add_cog.up) # 4
        /\ Len(normalize_connection_counter.up) # 4
        /\ Len(fix_non_consistent_verified_domains.up) # 4
        /\ Len(add_peer_authentication.up) # 4
        /\ Len(improve_organisation_greeting.up) # 4
        /\ Len(record_sponsor_id.up) # 4
        /\ Len(add_sign_alg_to_client.up) # 4
        /\ Len(add_more_sign_alg_to_client.up) # 4
    BY DEF add_cog, normalize_connection_counter, fix_non_consistent_verified_domains,
             add_peer_authentication, improve_organisation_greeting, record_sponsor_id,
             add_sign_alg_to_client, add_more_sign_alg_to_client, Adds
  <2> QED
    BY <2>1, <2>2
<1>6. /\ ~four(42) /\ ~four(43) /\ ~four(44) /\ ~four(45)
      /\ ~four(46) /\ ~four(47) /\ ~four(48) /\ ~four(49)
  <2>1. /\ Directory[42] = update_default_values
        /\ Directory[43] = add_official_email_contact_verification
        /\ Directory[44] = more_data_in_connection
        /\ Directory[45] = add_webauthn
        /\ Directory[46] = add_zammad_ticket_id_on_moderations
        /\ Directory[47] = webauthn_metadata
        /\ Directory[48] = add_webauth_use_count
        /\ Directory[49] = add_moderated_by
    BY DEF Directory
  <2>2. /\ Len(update_default_values.up) # 4
        /\ Len(add_official_email_contact_verification.up) # 4
        /\ Len(more_data_in_connection.up) # 4
        /\ Len(add_webauthn.up) # 4
        /\ Len(add_zammad_ticket_id_on_moderations.up) # 4
        /\ Len(webauthn_metadata.up) # 4
        /\ Len(add_webauth_use_count.up) # 4
        /\ Len(add_moderated_by.up) # 4
    BY DEF update_default_values, add_official_email_contact_verification,
             more_data_in_connection, add_webauthn, add_zammad_ticket_id_on_moderations,
             webauthn_metadata, add_webauth_use_count, add_moderated_by, Adds
  <2> QED
    BY <2>1, <2>2
<1>7. /\ ~four(50) /\ ~four(51) /\ ~four(52) /\ ~four(53)
      /\ ~four(54) /\ ~four(55) /\ ~four(56) /\ ~four(57)
  <2>1. /\ Directory[50] = add_trackdechets
        /\ Directory[51] = drop_legacy_field
        /\ Directory[52] = inclusionconnect_welcome_page
        /\ Directory[53] = inclusionconnect_onboarding_help
        /\ Directory[54] = add_totp_secret
        /\ Directory[55] = add_user_verified_in_authenticators
        /\ Directory[56] = add_force_2fa
        /\ Directory[57] = refactor_email_domains
    BY DEF Directory
  <2>2. /\ Len(add_trackdechets.up) # 4
        /\ Len(drop_legacy_field.up) # 4
        /\ Len(inclusionconnect_welcome_page.up) # 4
        /\ Len(inclusionconnect_onboarding_help.up) # 4
        /\ Len(add_totp_secret.up) # 4
        /\ Len(add_user_verified_in_authenticators.up) # 4
        /\ Len(add_force_2fa.up) # 4
        /\ Len(refactor_email_domains.up) # 4
    BY DEF add_trackdechets, drop_legacy_field, inclusionconnect_welcome_page,
             inclusionconnect_onboarding_help, add_totp_secret,
             add_user_verified_in_authenticators, add_force_2fa, refactor_email_domains, Adds
  <2> QED
    BY <2>1, <2>2
<1>8. ~four(58) /\ ~four(59) /\ ~four(60) /\ ~four(61) /\ ~four(62)
  <2>1. /\ Directory[58] = delete_email_duplicates
        /\ Directory[59] = forbid_multiple_email_domains_type_by_organization
        /\ Directory[60] = update_verification_type
        /\ Directory[61] = add_link_verified_at
        /\ Directory[62] = remove_same_null_verified_email_domain
    BY DEF Directory
  <2>2. /\ Len(delete_email_duplicates.up) # 4
        /\ Len(forbid_multiple_email_domains_type_by_organization.up) # 4
        /\ Len(update_verification_type.up) # 4
        /\ Len(add_link_verified_at.up) # 4
        /\ Len(remove_same_null_verified_email_domain.up) # 4
    BY DEF delete_email_duplicates, forbid_multiple_email_domains_type_by_organization,
             update_verification_type, add_link_verified_at,
             remove_same_null_verified_email_domain, Adds
  <2> QED
    BY <2>1, <2>2
<1> HIDE DEF four
<1>9. \A i \in (1..62) \ {3} : ~four(i)
  BY <1>1, <1>2, <1>3, <1>4, <1>5, <1>6, <1>7, <1>8
<1>10. Len(update_ticket_id.up) = 4 /\ update_ticket_id.up[1].do = "rename"
  BY DEF update_ticket_id, Rename
<1>11. Directory[3].up[1].do = "drop"
  BY DEF Directory, curate_users_table, Drop
<1>12. ASSUME NEW i \in 1..62, Directory[i] = update_ticket_id
      PROVE  FALSE
  <2>1. i # 3
    BY <1>10, <1>11, <1>12
  <2>2. four(i)
    BY <1>10, <1>12 DEF four
  <2> QED
    BY <1>9, <2>1, <2>2
<1> QED
  BY <1>12

\* Whoever knows that file knows that it is applied.
LEMMA AfterTickets ==
  ASSUME applied \in 0..68
  PROVE  After(update_ticket_id) => applied >= 63
<1> DEFINE is(i) == Directory[i] = update_ticket_id
           k == CHOOSE i \in DOMAIN Directory : is(i)
<1>1. DOMAIN Directory = 1..68 /\ is(63)
  <2>1. DOMAIN Directory = 1..68
    BY DEF Directory
  <2>2. Directory[63] = update_ticket_id
    BY DEF Directory
  <2> QED
    BY <2>1, <2>2
<1>2. \A i \in 1..62 : ~is(i)
  BY TicketsOnce
<1>3. After(update_ticket_id) <=> applied >= k
  BY DEF After
<1> HIDE DEF is
<1>4. k \in 1..68 /\ is(k)
  BY <1>1
<1> HIDE DEF k
<1>5. k >= 63
  BY <1>2, <1>4
<1> QED
  BY <1>3, <1>4, <1>5

LEMMA CreateUserSound ==
  ASSUME applied \in 0..68, Sound(db, applied), NEW x \in Domains, NEW password, CreateUser(x, password)
  PROVE  Sound(db', applied)
<1> DEFINE t == "users"
           values == [encrypted_password |-> password]
           e == Inserted(t, values)
<1>1. ColumnsOf(db, t) # {} /\ db' = WithEmail(e, x)
  BY DEF CreateUser, Possible, WithEmail
<1>2. /\ t \in TableNames /\ t \in Writable \ {"moderations"} /\ t # "authenticators"
      /\ DOMAIN values \cap (NonNull(t) \cup {"force_2fa", "encrypted_totp_key"}) = {}
  BY DEF TableNames, Writable, NonNull
<1> HIDE DEF t, values, e
<1>3. Put(db, e, t, values)
  BY <1>2, RowInserted DEF e, Sound, Firm
<1>4. Sound(e, applied)
  BY <1>1, <1>2, <1>3, PutRow
<1>5. Firm(e, applied) /\ IsDatabase(e) /\ NoneElsewhere(e)
  BY <1>4 DEF Sound, Firm
<1>6. RewroteWell(e, WithEmail(e, x))
  BY <1>5, EmailRewritten
<1>7. Firm(db', applied) /\ Shape(db') = Shape(e)
  BY <1>1, <1>5, <1>6, RewroteFirm, RewroteSame DEF RewroteWell
<1> QED
  BY <1>4, <1>7 DEF Sound, Schema

\* A row in which nothing is told.
LEMMA InsertedSound ==
  ASSUME applied \in 0..68, Sound(db, applied),
         NEW t \in {"organizations", "oidc_clients", "users_organizations", "authenticators"},
         Possible(t), NEW values, DOMAIN values \subseteq {"verification_type"},
         t = "authenticators" => "users" \in db.rows
  PROVE  Sound(Inserted(t, values), applied)
<1>1. t \in TableNames /\ t \in Writable \ {"moderations"} /\ "verification_type" \notin NonNull(t)
  BY DEF TableNames, Writable, NonNull
<1>2. DOMAIN values \cap (NonNull(t) \cup {"force_2fa", "encrypted_totp_key"}) = {}
  BY <1>1
<1>3. Put(db, Inserted(t, values), t, values)
  BY <1>1, RowInserted DEF Sound, Firm
<1>4. ColumnsOf(db, t) # {}
  BY DEF Possible
<1> QED
  BY <1>1, <1>2, <1>3, <1>4, PutRow

LEMMA ModerateSound ==
  ASSUME applied \in 0..68, Sound(db, applied), NEW type \in {"organization_join_block", "other"},
         NEW ticket \in {"null", "number", "text"}, Moderate(type, ticket)
  PROVE  Sound(db', applied)
<1> DEFINE t == "moderations"
           values == [type |-> type, ticket_id |-> ticket]
           e == Inserted(t, values)
<1>1. ColumnsOf(db, t) # {} /\ db' = e /\ (ticket = "text" => After(update_ticket_id))
  BY DEF Moderate, Possible, Written
<1>2. /\ t \in TableNames /\ t \in Writable /\ t = "moderations" /\ "users" \in TableNames /\ "users" # t
      /\ DOMAIN values = {"type", "ticket_id"} /\ NonNull(t) = {}
      /\ values["type"] = type /\ values["ticket_id"] = ticket
  BY DEF TableNames, Writable, NonNull
<1> HIDE DEF t, values, e
<1>3. Firm(db, applied) /\ Put(db, e, t, values)
  BY <1>2, RowInserted DEF e, Sound, Firm
<1>4. Has(db, t, "type")
  BY <1>1, <1>2, ThereSince
<1>5. Seen(e, t, "type") = type
  BY <1>2, <1>3, <1>4, PutSeen
<1>6. TypeThere(e)
  BY <1>2, <1>5 DEF TypeThere
<1>7. Numbers(e, applied)
  <2>1. ASSUME applied < 63
        PROVE  ticket \in {"null", "number"}
    BY <1>1, <2>1, AfterTickets
  <2>2. Seen(e, t, "ticket_id") = IF Has(db, t, "ticket_id") THEN ticket ELSE "null"
    <3>1. CASE Has(db, t, "ticket_id")
      BY <1>2, <1>3, <3>1, PutSeen
    <3>2. CASE ~Has(db, t, "ticket_id")
      <4>1. Seen(db, t, "ticket_id") = "null"
        BY <3>2 DEF Seen
      <4> QED
        BY <1>2, <1>3, <3>2, <4>1, PutSeen
    <3> QED
      BY <3>1, <3>2
  <2> QED
    BY <1>2, <2>1, <2>2 DEF Numbers
<1>8. Factors(e)
  <2>1. \A a : Seen(e, "users", a) = Seen(db, "users", a)
    BY <1>2, <1>3, PutSeen
  <2>2. /\ "users" \in e.rows <=> "users" \in db.rows
        /\ "authenticators" \in e.rows <=> "authenticators" \in db.rows
    BY <1>2, <1>3 DEF Put
  <2> QED
    BY <1>3, <2>1, <2>2, FactorsSeen DEF Firm, Factors
<1>9. Sound(e, applied)
  BY <1>1, <1>2, <1>3, <1>6, <1>7, <1>8, PutSound
<1> QED
  BY <1>1, <1>9

LEMMA AddDomainSound ==
  ASSUME applied \in 0..68, Sound(db, applied), NEW kind \in Lists \cup Types, NEW x \in Domains,
         AddDomain(kind, x)
  PROVE  Sound(db', applied)
<1> DEFINE g == [db.domains EXCEPT ![kind][x] = @ + 1]
<1>1. Firm(db, applied) /\ IsDatabase(db) /\ NoneElsewhere(db)
  BY DEF Sound, Firm
<1>2. db.domains \in [Lists \cup Types -> [Domains -> Nat]]
  BY <1>1 DEF IsDatabase
<1>3. g \in [Lists \cup Types -> [Domains -> Nat]]
  BY <1>2
<1>4. \A l \in Lists \cup Types : l # kind => g[l] = db.domains[l]
  BY <1>2
<1>5. kind \in Kinds(db) /\ db' = WithDomains(db, g)
  BY DEF AddDomain, Written, WithDomains
<1> HIDE DEF g
<1>6. Rewrote(db, db') /\ (db').domains = g
  BY <1>1, <1>3, <1>5, DomainsRewritten
<1>7. Shape(db') = Shape(db) /\ Kinds(db') = Kinds(db)
  BY <1>6, RewroteSame
<1>8. NoneElsewhere(db')
  BY <1>1, <1>4, <1>5, <1>6, <1>7 DEF NoneElsewhere
<1>9. Firm(db', applied)
  BY <1>1, <1>6, <1>8, RewroteFirm
<1> QED
  BY <1>7, <1>9 DEF Sound, Schema

\* A value of a column that is there.
LEMMA CellSet ==
  ASSUME NEW d, IsDatabase(d), NEW t \in TableNames, NEW c, Has(d, t, c), NEW v, NEW e,
         e = WithCells(d, t, {c}, v)
  PROVE  Wrote(d, e, t, {c}, v) /\ Shape(e) = Shape(d)
<1>1. Wrote(d, e, t, {c}, v)
  BY CellsWritten
<1>2. \A u \in TableNames : ColumnsOf(e, u) = ColumnsOf(d, u)
  BY <1>1 DEF Wrote, Has, ColumnsOf
<1> QED
  BY <1>1, <1>2 DEF Shape

LEMMA AddFactorSound ==
  ASSUME applied \in 0..68, Sound(db, applied), NEW factor, AddFactor(factor)
  PROVE  Sound(db', applied)
<1>1. CASE /\ "users" \in db.rows /\ Possible("authenticators")
           /\ db' = Inserted("authenticators", NoValues)
  <2> DEFINE t == "authenticators"
  <2>1. DOMAIN NoValues \subseteq {"verification_type"}
    BY DEF NoValues
  <2> QED
    BY <1>1, <2>1, InsertedSound
<1>2. CASE /\ "users" \in db.rows /\ Has(db, "users", "encrypted_totp_key")
           /\ db' = WithCells(db, "users", {"encrypted_totp_key"}, "set")
  <2> DEFINE t == "users"
             c == "encrypted_totp_key"
             v == "set"
  <2>1. t \in TableNames /\ "moderations" \in TableNames /\ t # "moderations" /\ v # "null"
        /\ v \in {"null", "set"} /\ c # "force_2fa" /\ Has(db, t, c)
        /\ db' = WithCells(db, t, {c}, v) /\ t \in db.rows
    BY <1>2 DEF TableNames
  <2>2. Firm(db, applied) /\ IsDatabase(db)
    BY DEF Sound, Firm
  <2>3. t = "users" /\ c = "encrypted_totp_key" /\ v = "set"
    OBVIOUS
  <2> HIDE DEF t, c, v
  <2>4. Wrote(db, db', t, {c}, v) /\ Shape(db') = Shape(db)
    BY <2>1, <2>2, CellSet
  <2>5. (db').rows = db.rows
    BY <2>4 DEF Wrote
  <2>6. Seen(db', t, c) = v /\ \A a : Seen(db', "moderations", a) = Seen(db, "moderations", a)
    BY <2>1, <2>4, WroteSeen
  <2>7. TypeThere(db') /\ Numbers(db', applied)
    BY <2>2, <2>5, <2>6 DEF Firm, TypeThere, Numbers
  <2>8. Factors(db')
    BY <2>1, <2>3, <2>5, <2>6, FactorsSeen DEF Factors
  <2>9. Firm(db', applied)
    BY <2>1, <2>2, <2>4, <2>7, <2>8, WroteFirm
  <2> QED
    BY <2>4, <2>9 DEF Sound, Schema
<1> QED
  BY <1>1, <1>2 DEF AddFactor, Written

LEMMA Force2faSound ==
  ASSUME applied \in 0..68, Sound(db, applied), Force2fa
  PROVE  Sound(db', applied)
<1> DEFINE t == "users"
           c == "force_2fa"
           v == "true"
<1>1. t \in TableNames /\ t = "users" /\ {c} = {"force_2fa"}
  BY DEF TableNames
<1>2. Has(db, t, c) /\ HasFactor(db) /\ db' = WithCells(db, t, {c}, v)
  BY DEF Force2fa, Written
<1>3. Firm(db, applied) /\ IsDatabase(db)
  BY DEF Sound, Firm
<1> HIDE DEF t, c, v
<1>4. Wrote(db, db', t, {c}, v) /\ Shape(db') = Shape(db)
  BY <1>1, <1>2, <1>3, CellSet
<1>5. Firm(db', applied)
  BY <1>1, <1>2, <1>3, <1>4, FactorsWritten
<1> QED
  BY <1>4, <1>5 DEF Sound, Schema

LEMMA ConnectSound ==
  ASSUME applied \in 0..68, Sound(db, applied), Connect
  PROVE  Sound(db', applied)
<1> DEFINE t == "users_oidc_clients"
           n == db.connections
           counted == Has(db, t, "connection_count")
           m == IF ~counted THEN Append(n, 0) ELSE IF n = <<>> THEN <<1>> ELSE <<n[1] + 1>>
<1>1. ColumnsOf(db, t) # {} /\ db' = WithConnections(db, m) /\ t \in TableNames
  BY DEF Connect, Written, WithConnections, TableNames
<1>2. Firm(db, applied) /\ IsDatabase(db) /\ n \in Seq(Nat) /\ db.ok
  BY DEF Sound, Firm, IsDatabase
<1>3. applied >= 26 /\ (applied \in 26..34 => counted)
  BY <1>1, ThereSince
<1>4. ASSUME counted
      PROVE  \E k \in Nat : m = <<k + 1>>
  <2>1. CASE n = <<>>
    <3>1. m = <<0 + 1>>
      BY <1>4, <2>1
    <3> HIDE DEF m
    <3> QED
      BY <3>1
  <2>2. CASE n # <<>>
    <3>1. n[1] \in Nat
      BY <1>2, <2>2
    <3>2. m = <<n[1] + 1>>
      BY <1>4, <2>2
    <3> HIDE DEF m
    <3> QED
      BY <3>1, <3>2
  <2> QED
    BY <2>1, <2>2
<1>5. m \in Seq(Nat)
  <2>1. CASE ~counted
    BY <1>2, <2>1
  <2>2. CASE counted
    <3>1. PICK k \in Nat : m = <<k + 1>>
      BY <1>4, <2>2
    <3> HIDE DEF m
    <3> QED
      BY <3>1
  <2> QED
    BY <2>1, <2>2
<1> HIDE DEF m, counted, n, t
<1>6. /\ IsDatabase(db') /\ (db').ok /\ (db').cell = db.cell /\ (db').rows = db.rows
      /\ (db').domains = db.domains /\ (db').connections = m
  BY <1>1, <1>2, <1>5, Reconnected
<1>7. Firm(db', applied)
  <2>1. NeverNull(db')
    BY <1>2, <1>6 DEF Firm, NeverNull, Has, ColumnsOf
  <2>2. Populated(db', applied)
    BY <1>2, <1>6 DEF Firm, Populated
  <2>3. \A u, a : Seen(db', u, a) = Seen(db, u, a)
    BY <1>6 DEF Seen, Has, ColumnsOf
  <2>4. TypeThere(db') /\ Numbers(db', applied) /\ Factors(db')
    BY <1>2, <1>6, <2>3, FactorsSeen DEF Firm, TypeThere, Numbers, Factors
  <2>5. Counts(db', applied)
    BY <1>3, <1>4, <1>6 DEF Counts, Counted
  <2>6. Kinds(db') = Kinds(db)
    BY <1>6 DEF Kinds, ColumnsOf
  <2>7. NoneElsewhere(db')
    BY <1>2, <1>6, <2>6 DEF Firm, NoneElsewhere
  <2> QED
    BY <1>6, <2>1, <2>2, <2>4, <2>5, <2>7 DEF Firm
<1>8. Shape(db') = Shape(db)
  BY <1>6 DEF Shape, ColumnsOf
<1> QED
  BY <1>7, <1>8 DEF Sound, Schema

(***************************************************************************)
(* What always holds of the database and of the files that made it.        *)
(***************************************************************************)
Built == applied \in 0..68 /\ Sound(db, applied)

LEMMA SixtyEight ==
  Len(Directory) = 68
BY DEF Directory

LEMMA BuiltAtFirst ==
  MigrationsInit => Built
<1> SUFFICES ASSUME MigrationsInit
             PROVE  Sound(Empty, 0)
  BY DEF MigrationsInit, Built
<1>1. \A t \in TableNames : Empty.cell[t] = NoValues
  BY DEF Empty
<1>2. DOMAIN NoValues = {} /\ NoValues = [c \in DOMAIN NoValues |-> NoValues[c]]
  BY DEF NoValues
<1>3. \A t \in TableNames : ColumnsOf(Empty, t) = {}
  BY <1>1, <1>2 DEF ColumnsOf
<1>4. /\ Empty.rows = {} /\ Empty.ok /\ Empty.connections = <<>>
      /\ Empty.domains = [l \in Lists \cup Types |-> [x \in Domains |-> 0]]
  BY DEF Empty
<1>5. IsDatabase(Empty)
  <2>1. AreRequired(Empty.required)
    BY DEF Empty, AreRequired
  <2>2. AreCells(Empty.cell)
    <3>1. Empty.cell = [t \in TableNames |-> NoValues]
      BY DEF Empty
    <3> QED
      BY <1>2, <3>1 DEF AreCells
  <2>3. Empty.domains \in [Lists \cup Types -> [Domains -> Nat]]
    BY <1>4
  <2>4. <<>> \in Seq(Nat) /\ {} \in SUBSET TableNames
    OBVIOUS
  <2> DEFINE c == Empty.cell
             r == Empty.required
             g == Empty.domains
  <2>5. Empty = [ok |-> TRUE, cell |-> c, rows |-> {}, required |-> r, unique |-> "no",
                 domains |-> g, connections |-> <<>>, email |-> NoDomain]
    BY DEF Empty
  <2>6. c = Empty.cell /\ r = Empty.required /\ g \in [Lists \cup Types -> [Domains -> Nat]]
    BY <2>3
  <2> HIDE DEF c, r, g
  <2> QED
    BY <2>1, <2>2, <2>4, <2>5, <2>6 DEF IsDatabase
<1>6. \A t \in TableNames : \A c : ~Has(Empty, t, c) /\ Seen(Empty, t, c) = "null"
  BY <1>3 DEF Has, Seen
<1>7. NeverNull(Empty) /\ Populated(Empty, 0) /\ TypeThere(Empty) /\ Numbers(Empty, 0)
  BY <1>4, <1>6 DEF NeverNull, Populated, TypeThere, Numbers
<1>8. Factors(Empty)
  <2>1. "users" \in TableNames
    BY DEF TableNames
  <2> QED
    BY <1>4, <1>6, <2>1, FactorsSeen DEF Factors
<1>9. Counts(Empty, 0) /\ NoneElsewhere(Empty)
  BY <1>4 DEF Counts, NoneElsewhere
<1>10. Shape(Empty) = ShapeAt(0, {})
  <2>1. \A t \in TableNames : ColumnsAt(t, 0, {}) = {}
    BY DEF ColumnsAt, When, TableNames
  <2> QED
    BY <1>3, <2>1 DEF Shape, ShapeAt
<1>11. {} \in Keepable(0)
  BY DEF Keepable
<1> QED
  BY <1>4, <1>5, <1>7, <1>8, <1>9, <1>10, <1>11 DEF Sound, Firm, Schema

\* A file that could be applied keeps what it must keep.
LEMMA UpKeeps ==
  ASSUME Built, Up
  PROVE  Built' /\ Keeps(db, db') /\ applied' = applied + 1
<1> DEFINE n == applied + 1
           e == Run(db, Directory[n].up)
<1>1. n \in 1..68 /\ e.ok /\ db' = e /\ applied' = n
  BY SixtyEight DEF Built, Up
<1>2. Sound(db, n - 1)
  BY DEF Built
<1> HIDE DEF n
<1>3. ~Hindered(db, n)
  BY <1>1, <1>2, Refused
<1>4. Sound(e, n) /\ Keeps(db, e)
  BY <1>1, <1>2, <1>3, EveryUp DEF GoodUp
<1> QED
  BY <1>1, <1>4 DEF Built, n

LEMMA DownKeeps ==
  ASSUME Built, Down
  PROVE  Built' /\ applied' < applied
<1>1. applied \in 1..68 /\ applied' = applied - 1 /\ db' = Run(db, Directory[applied].down)
      /\ Run(db, Directory[applied].down).ok
  BY DEF Built, Down
<1>2. Sound(db', applied')
  BY <1>1, EveryDown DEF Built, GoodDown
<1> QED
  BY <1>1, <1>2 DEF Built

\* What the application writes needs no file and undoes none.
LEMMA WritesKeep ==
  ASSUME Built, MigrationsNext, ~Up, ~Down
  PROVE  Built' /\ applied' = applied
<1>1. applied \in 0..68 /\ Sound(db, applied)
  BY DEF Built
<1>2. ASSUME NEW x \in Domains, NEW password \in {"null", "set"}, CreateUser(x, password)
      PROVE  Sound(db', applied) /\ applied' = applied
  BY <1>1, <1>2, CreateUserSound DEF CreateUser
<1>3. DOMAIN NoValues \subseteq {"verification_type"}
  BY DEF NoValues
<1>4. ASSUME CreateOrganization
      PROVE  Sound(db', applied) /\ applied' = applied
  BY <1>1, <1>3, <1>4, InsertedSound DEF CreateOrganization
<1>5. ASSUME CreateClient
      PROVE  Sound(db', applied) /\ applied' = applied
  BY <1>1, <1>3, <1>5, InsertedSound DEF CreateClient
<1>6. ASSUME NEW verification \in Verifications, LinkUser(verification)
      PROVE  Sound(db', applied) /\ applied' = applied
  <2> DEFINE t == "users_organizations"
             values == [verification_type |-> verification]
  <2>1. Possible(t) /\ db' = Inserted(t, values) /\ applied' = applied
    BY <1>6 DEF LinkUser, Written
  <2>2. DOMAIN values \subseteq {"verification_type"}
    OBVIOUS
  <2> HIDE DEF values
  <2> QED
    BY <1>1, <2>1, <2>2, InsertedSound
<1>7. ASSUME NEW type \in {"organization_join_block", "other"}, NEW ticket \in {"null", "number", "text"},
             Moderate(type, ticket)
      PROVE  Sound(db', applied) /\ applied' = applied
  BY <1>1, <1>7, ModerateSound DEF Moderate, Written
<1>8. ASSUME NEW kind \in Lists \cup Types, NEW x \in Domains, AddDomain(kind, x)
      PROVE  Sound(db', applied) /\ applied' = applied
  BY <1>1, <1>8, AddDomainSound DEF AddDomain, Written
<1>9. ASSUME NEW factor \in {"passkey", "totp"}, AddFactor(factor)
      PROVE  Sound(db', applied) /\ applied' = applied
  BY <1>1, <1>9, AddFactorSound DEF AddFactor, Written
<1>10. ASSUME Force2fa
       PROVE  Sound(db', applied) /\ applied' = applied
  BY <1>1, <1>10, Force2faSound DEF Force2fa, Written
<1>11. ASSUME Connect
       PROVE  Sound(db', applied) /\ applied' = applied
  BY <1>1, <1>11, ConnectSound DEF Connect, Written
<1>12. Sound(db', applied) /\ applied' = applied
  BY <1>2, <1>4, <1>5, <1>6, <1>7, <1>8, <1>9, <1>10, <1>11
     DEF MigrationsNext
<1> QED
  BY <1>1, <1>12 DEF Built

LEMMA BuiltStep ==
  ASSUME Built, [MigrationsNext]_migrationsVars
  PROVE  Built' /\ (applied' > applied => Keeps(db, db'))
<1>1. CASE Up
  BY <1>1, UpKeeps
<1>2. CASE Down
  BY <1>2, DownKeeps DEF Built
<1>3. CASE MigrationsNext /\ ~Up /\ ~Down
  BY <1>3, WritesKeep DEF Built
<1>4. CASE UNCHANGED migrationsVars
  BY <1>4 DEF migrationsVars, Built
<1> QED
  BY <1>1, <1>2, <1>3, <1>4

\* Whatever is applied, undone and written, in whatever order: the tables have the columns of the
\* files that are applied, and the rows that these files allow.
THEOREM EverBuilt ==
  MigrationsSpec => []Built
<1>1. MigrationsInit => Built
  BY BuiltAtFirst
<1>2. Built /\ [MigrationsNext]_migrationsVars => Built'
  BY BuiltStep
<1> QED
  BY <1>1, <1>2, PTL DEF MigrationsSpec

\* The next file can always be applied, but for the three cases that UpgradesRun names.
THEOREM UpgradesAlwaysRun ==
  MigrationsSpec => []UpgradesRun
<1>1. Built => UpgradesRun
  <2> SUFFICES ASSUME Built, applied < Len(Directory)
               PROVE  \/ Run(db, NextFile.up).ok
                      \/ /\ NextFile = improve_organisation_greeting
                         /\ Has(db, "users_organizations", "has_been_greeted")
                      \/ NextFile = capture_external_status /\ "moderations" \in db.rows
                      \/ /\ NextFile = forbid_multiple_email_domains_type_by_organization
                         /\ \E x \in Domains, type \in Types \ {"none"} : db.domains[type][x] > 1
    BY DEF UpgradesRun
  <2> DEFINE n == applied + 1
  <2>1. n \in 1..68 /\ n - 1 = applied /\ Sound(db, n - 1) /\ NextFile = Directory[n]
    BY SixtyEight DEF Built, NextFile
  <2> HIDE DEF n
  <2>2. CASE ~Hindered(db, n)
    <3>1. Sound(Run(db, Directory[n].up), n)
      BY <2>1, <2>2, EveryUp DEF GoodUp
    <3> QED
      BY <2>1, <3>1 DEF Sound, Firm
  <2>3. CASE Hindered(db, n)
    <3>1. Directory[38] = improve_organisation_greeting
      BY DEF Directory
    <3>2. Directory[17] = capture_external_status
      BY DEF Directory
    <3>3. Directory[59] = forbid_multiple_email_domains_type_by_organization
      BY DEF Directory
    <3> QED
      BY <2>1, <2>3, <3>1, <3>2, <3>3 DEF Hindered
  <2> QED
    BY <2>2, <2>3
<1> QED
  BY <1>1, EverBuilt, PTL

\* The three cases are no more than those in which the database refuses the file.
THEOREM UpgradesRunExactly ==
  MigrationsSpec =>
    [](applied < Len(Directory) => (Run(db, NextFile.up).ok <=> ~Hindered(db, applied + 1)))
<1>1. Built => (applied < Len(Directory) =>
                  (Run(db, NextFile.up).ok <=> ~Hindered(db, applied + 1)))
  <2> SUFFICES ASSUME Built, applied < Len(Directory)
               PROVE  Run(db, NextFile.up).ok <=> ~Hindered(db, applied + 1)
    OBVIOUS
  <2> DEFINE n == applied + 1
  <2>1. n \in 1..68 /\ n - 1 = applied /\ Sound(db, n - 1) /\ NextFile = Directory[n]
    BY SixtyEight DEF Built, NextFile
  <2> HIDE DEF n
  <2>2. ~Hindered(db, n) => Run(db, Directory[n].up).ok
    <3>1. ~Hindered(db, n) => Sound(Run(db, Directory[n].up), n)
      BY <2>1, EveryUp DEF GoodUp
    <3> QED
      BY <3>1 DEF Sound, Firm
  <2>3. Hindered(db, n) => ~Run(db, Directory[n].up).ok
    BY <2>1, Refused
  <2>4. Run(db, NextFile.up).ok <=> ~Hindered(db, n)
    BY <2>1, <2>2, <2>3
  <2> QED
    BY <2>4 DEF n
<1> QED
  BY <1>1, EverBuilt, PTL

\* Every upgrade, of whatever database the application has made, keeps what is verified.
THEOREM DomainsAlwaysKept ==
  MigrationsSpec => UpgradesKeepDomains
<1>1. Built /\ [MigrationsNext]_migrationsVars =>
        [applied' > applied =>
           LET before == Verified(db)
               after == Verified(db')
           IN  /\ NotFree(Proven(before)) = NotFree(Proven(after))
               /\ Proven(after) \subseteq Proven(before)
               /\ DomainsOf(NotFree(before)) \subseteq DomainsOf(after)]_migrationsVars
  BY BuiltStep DEF Keeps, KeepsDomains
<1> QED
  BY <1>1, EverBuilt, PTL DEF MigrationsSpec, UpgradesKeepDomains

\* Every upgrade keeps second factors, connections, verifications and tickets.
THEOREM AccountsAlwaysKept ==
  MigrationsSpec => UpgradesKeepAccounts
<1>1. Built /\ [MigrationsNext]_migrationsVars =>
        [applied' > applied =>
           /\ IsForced(db') => HasFactor(db')
           /\ Connections(db') = Connections(db)
           /\ (ValueOf(db, "users_organizations", "verification_type") = "null")
                <=> (ValueOf(db', "users_organizations", "verification_type") = "null")
           /\ ValueOf(db', "moderations", "ticket_id")
                = ValueOf(db, "moderations", "ticket_id")]_migrationsVars
  BY BuiltStep DEF Keeps, KeepsAccounts
<1> QED
  BY <1>1, EverBuilt, PTL DEF MigrationsSpec, UpgradesKeepAccounts
=============================================================================
