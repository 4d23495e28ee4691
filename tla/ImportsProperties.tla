--------------------------- MODULE ImportsProperties ---------------------------
(* What Imports promises of the accounts it creates and of those it meets.  *)
EXTENDS Imports

(***************************************************************************)
(* Everything has its type, and an email is that of one user               *)
(* (migrations/1545154190802_create-users-table.cjs).                      *)
(***************************************************************************)
TypeOK ==
  /\ script \in Scripts /\ file \in Files[script]
  /\ user \in [Ids -> User \cup {None}]
  /\ \A i, j \in Ids :
       user[i] # None /\ user[j] # None /\ user[i].email = user[j].email => i = j
  /\ link \in [Ids -> [Sirets -> Links]]
  /\ ids \in 0 .. MaxIds
  /\ job \in Job
  /\ result \in [DOMAIN file -> Result]
  /\ starts \in 0 .. MaxStarts
  /\ imported \subseteq 1 .. ids /\ cutShort \subseteq imported
  /\ meanwhile \subseteq Deeds \X Ids

(***************************************************************************)
(* An account that a script has created has names, even of an entry that   *)
(* is rejected after all: only when the query that writes them fails, or   *)
(* the script is killed before it, is an account left without, and         *)
(* starting again does not help, since its user is found then.             *)
(***************************************************************************)
ImportedUsersAreNamed ==
  \A i \in imported \ cutShort :
    user[i] # None /\ user[i].names = "none" => job.pc = "names" /\ job.id = i

(***************************************************************************)
(* A script changes no link that is there and no names a user has given,   *)
(* even of an account that it has created itself, when it is started again *)
(* or an email is in the file twice; except names that are given between   *)
(* its creation of the account and the query that names it.                *)
(***************************************************************************)
WhatUsersEnteredIsKept ==
  [][job' # job =>
       \A i \in Ids :
         /\ \A o \in Sirets : link[i][o] # "none" => link'[i][o] = link[i][o]
         /\ user[i] # None => user'[i] # None
         /\ user[i] # None /\ user[i].names = "own" /\ <<"names", i>> \notin meanwhile =>
              user'[i].names = "own"]_vars

(***************************************************************************)
(* A success that is written of an entry names the user of its email, and  *)
(* that of a mediator one who is in the organization, unless the user was  *)
(* deleted or has left since the script turned to the entry.               *)
(***************************************************************************)
SuccessMeansImported ==
  [][\A n \in DOMAIN file :
       result'[n] # result[n] /\ result'[n].outcome = "success" =>
         LET i == result'[n].id
             o == file[n].sirets[1]
         IN \/ <<"deletes", i>> \in meanwhile
            \/ /\ i \in IdsOf(file[n].email)
               /\ script = "coop" => link'[i][o] # "none" \/ <<o, i>> \in meanwhile]_vars
=============================================================================
