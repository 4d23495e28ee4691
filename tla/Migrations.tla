------------------------------ MODULE Migrations ------------------------------
(***************************************************************************)
(* The database schema, as the files of migrations/ build it one after the *)
(* other and undo it (node-pg-migrate up and down), with the rows that     *)
(* they rewrite while the application goes on writing them.                *)
(*                                                                         *)
(* A file is a record of two sequences of statements.  A statement that    *)
(* the database refuses fails the file, whose transaction is undone: the   *)
(* file is then no step at all.  The package runs several files in one     *)
(* transaction; here every file is a step of its own, and what others      *)
(* write between two of them is there for the next one.                    *)
(*                                                                         *)
(* There is at most one organization, with one member and one moderation,  *)
(* and one client: the rows of a table but email_domains and               *)
(* users_oidc_clients are alike for every statement.  A column has the     *)
(* value of that row, or the default of the next one when there is none.   *)
(* Only the values that a later statement reads are told apart.  Types,    *)
(* indexes, keys and dates are left out, but for the one enumeration and   *)
(* the one constraint that data can violate.                               *)
(***************************************************************************)
EXTENDS Naturals, Sequences, FiniteSets

CONSTANTS
  Domains,   \* email domains, as they are spelled
  Lower,     \* [Domains -> Domains]: the same in lower case
  Free,      \* those of free email providers, all in lower case
  MaxCopies, \* bound: how many times a domain is in a list, and connections
  MaxWrites, \* bound: how much the application writes that is not needed for another row
  NoDomain

ASSUME MigrationsAssumption ==
  /\ IsFiniteSet(Domains)
  /\ Lower \in [Domains -> Domains] /\ \A x \in Domains : Lower[Lower[x]] = Lower[x]
  /\ Free \subseteq Domains /\ \A x \in Free : Lower[x] = x
  /\ MaxCopies \in Nat /\ MaxWrites \in Nat
  /\ NoDomain \notin Domains

VARIABLES
  db,       \* the database
  applied,  \* how many files of the directory are recorded in pgmigrations
  writes    \* bound: how many times the application has written

migrationsVars == <<db, applied, writes>>

\* The lists of domains are array columns of organizations, and then rows of
\* email_domains, one verification_type each: "none" stands for NULL.
Lists == {"authorized_email_domains", "external_authorized_email_domains",
          "verified_email_domains", "external_verified_email_domains",
          "trackdechets_email_domains"}
Types == {"none", "verified", "external", "trackdechets_postal_mail", "official_contact"}

\* cell: the value of every column of every table, none for a table that is not
\* there.  rows: the tables that have a row.  domains: how many times a domain
\* is in a list or has a row.  connections: connection_count of the rows of
\* users_oidc_clients by id.  email: the domain of the user's address.
TableNames ==
  {"users", "organizations", "users_organizations", "moderations", "moderation_type",
   "oidc_clients", "users_oidc_clients", "authenticators", "email_domains"}

NoValues == [c \in {} |-> "null"]

Empty ==
  [ok |-> TRUE, cell |-> [t \in TableNames |-> NoValues], rows |-> {},
   required |-> [t \in TableNames |-> {}], unique |-> "no",
   domains |-> [l \in Lists \cup Types |-> [x \in Domains |-> 0]],
   connections |-> <<>>, email |-> NoDomain]

MigrationsInit == db = Empty /\ applied = 0 /\ writes = 0

-------------------------------------------------------------------------------
(***************************************************************************)
(* Statements.  Execute(d, s) is the database after s, "ok" no more when   *)
(* it is refused.                                                          *)
(***************************************************************************)

CreateTable(t, cs) == [do |-> "create", table |-> t, columns |-> cs]
DropTable(t) == [do |-> "drop table", table |-> t]
\* ADD COLUMN ... DEFAULT v, for each of cs.
AddWith(t, cs, v) == [do |-> "add", table |-> t, columns |-> cs, value |-> v]
Add(t, cs) == AddWith(t, cs, "null")
\* ADD COLUMN ... NOT NULL without a default, which a row that is there has not.
AddRequired(t, cs) == [do |-> "add required", table |-> t, columns |-> cs]
Drop(t, cs) == [do |-> "drop", table |-> t, columns |-> cs]
Rename(t, c, c2) == [do |-> "rename", table |-> t, from |-> c, to |-> c2]
\* ALTER COLUMN ... TYPE and other changes of a column that data cannot prevent.
Alter(t, cs) == [do |-> "alter", table |-> t, columns |-> cs]
Require(t, cs) == [do |-> "require", table |-> t, columns |-> cs]
Release(t, cs) == [do |-> "release", table |-> t, columns |-> cs]
SetDefault(t, c, v) == [do |-> "default", table |-> t, column |-> c, value |-> v]
\* UPDATE t SET c = v WHERE c2 IN vs.
Update(t, c, v, c2, vs) ==
  [do |-> "update", table |-> t, column |-> c, value |-> v, of |-> c2, in |-> vs]
\* UPDATE t SET c2 = c::(a type that has the values vs).
Cast(t, c, c2, vs) == [do |-> "cast", table |-> t, from |-> c, to |-> c2, values |-> vs]
DeleteRows(t) == [do |-> "delete", table |-> t]
\* What the name says, of the domains or of the connections.
Rewrite(name) == [do |-> "rewrite", name |-> name]
\* ADD CONSTRAINT unique_organization_domain, or none ("no").
Unique(how) == [do |-> "unique", how |-> how]

ColumnsOf(d, t) == DOMAIN d.cell[t]
Has(d, t, c) == c \in ColumnsOf(d, t)
Failed(d) == [d EXCEPT !.ok = FALSE]
\* The database d, where the statement is possible.
If(possible, d) == IF possible THEN d ELSE Failed(d)

WithCells(d, t, cs, v) ==
  [d EXCEPT !.cell[t] = [c \in DOMAIN @ \cup cs |-> IF c \in cs THEN v ELSE @[c]]]

\* The values go with their columns.
WithoutCells(d, t, cs) ==
  [d EXCEPT !.cell[t] = [c \in DOMAIN @ \ cs |-> @[c]],
            !.required[t] = @ \ cs,
            !.domains = [l \in DOMAIN @ |->
               IF t = "organizations" /\ l \in cs THEN [x \in Domains |-> 0] ELSE @[l]]]

\* The rows go with their table.
WithoutTable(d, t) ==
  [WithoutCells(d, t, ColumnsOf(d, t)) EXCEPT
     !.rows = @ \ {t},
     !.unique = IF t = "email_domains" THEN "no" ELSE @,
     !.domains = [l \in DOMAIN @ |->
        IF t = "email_domains" /\ l \in Types THEN [x \in Domains |-> 0] ELSE @[l]],
     !.connections = IF t = "users_oidc_clients" THEN <<>> ELSE @,
     !.email = IF t = "users" THEN NoDomain ELSE @]

Kinds(d) ==
  (Lists \cap ColumnsOf(d, "organizations"))
    \cup (IF ColumnsOf(d, "email_domains") # {} THEN Types ELSE {})

\* A unique constraint takes every NULL for a value of its own, unless told otherwise.
Constrained(how) ==
  CASE how = "no" -> {}
    [] how = "nulls distinct" -> Types \ {"none"}
    [] how = "nulls too" -> Types

IsUnique(domains, how) ==
  \A x \in Domains, type \in Constrained(how) : domains[type][x] <= 1

-------------------------------------------------------------------------------
(***************************************************************************)
(* What the migrations rewrite.                                            *)
(***************************************************************************)

\* How many copies there are of ys.
Total(copies, ys) == Cardinality(UNION {{y} \X (1..copies[y]) : y \in ys})

Spelled(copies, spelling) ==
  [x \in Domains |-> Total(copies, {y \in Domains : spelling[y] = x})]

Once(copies) == [x \in Domains |-> IF copies[x] > 0 THEN 1 ELSE 0]

Without(copies, gone(_)) == [x \in Domains |-> IF gone(x) THEN 0 ELSE copies[x]]

\* The domains of the members become the authorized ones.
AuthorizeDomainsOfMembers(d) ==
  IF "users_organizations" \notin d.rows THEN d
  ELSE [d EXCEPT !.domains["authorized_email_domains"] =
                   [x \in Domains |-> IF x = d.email THEN 1 ELSE 0]]

LowerEmailAddresses(d) ==
  [d EXCEPT
    !.email = IF @ = NoDomain THEN @ ELSE Lower[@],
    !.domains["authorized_email_domains"] = Spelled(@, Lower),
    !.domains["external_authorized_email_domains"] = Spelled(@, Lower)]

RemoveFreeEmailProviders(d) ==
  LET isFree(x) == x \in Free
  IN  [d EXCEPT !.domains =
         [l \in DOMAIN @ |-> IF l \in Lists \ {"trackdechets_email_domains"}
                             THEN Without(@[l], isFree) ELSE @[l]]]

\* Every row is followed by connection_count - 1 others, whose count is 0: the
\* loop comes to them and goes on.
NormalizeConnections(d) ==
  LET n == d.connections
      more == Total([i \in DOMAIN n |-> n[i] - 1], DOMAIN n)
  IN  [d EXCEPT !.connections = @ \o [i \in 1..more |-> 0]]

CountConnections(d) ==
  [d EXCEPT !.connections = IF @ = <<>> THEN @ ELSE <<Len(@)>>]

\* Verified domains that are not authorized are authorized, as often as they are verified.
AuthorizeVerifiedDomains(d) ==
  [d EXCEPT !.domains["authorized_email_domains"] =
     [x \in Domains |-> IF @[x] = 0 THEN d.domains["verified_email_domains"][x] ELSE @[x]]]

\* The type of the rows that come from a list; external_verified_email_domains
\* is gone when the rows are made.
TypeOf ==
  [l \in Lists \ {"external_verified_email_domains"} |->
     CASE l = "authorized_email_domains" -> "none"
       [] l = "external_authorized_email_domains" -> "external"
       [] l = "verified_email_domains" -> "verified"
       [] l = "trackdechets_email_domains" -> "trackdechets_postal_mail"]

\* Mistake: the last list is forgotten.
MakeRowsOfDomainsButLast(d) ==
  [d EXCEPT !.domains =
     [l \in DOMAIN @ |->
        IF \E k \in DOMAIN TypeOf : TypeOf[k] = l /\ k # "trackdechets_email_domains"
        THEN @[CHOOSE k \in DOMAIN TypeOf : TypeOf[k] = l] ELSE @[l]]]

MakeRowsOfDomains(d) ==
  [d EXCEPT !.domains =
     [l \in DOMAIN @ |-> IF \E k \in DOMAIN TypeOf : TypeOf[k] = l
                         THEN @[CHOOSE k \in DOMAIN TypeOf : TypeOf[k] = l] ELSE @[l]]]

\* No list has the official contacts.
MakeListsOfDomains(d) ==
  [d EXCEPT !.domains =
     [l \in DOMAIN @ |-> IF l \in DOMAIN TypeOf THEN @[TypeOf[l]] ELSE @[l]]]

DeleteDuplicates(d) ==
  [d EXCEPT !.domains = [l \in DOMAIN @ |-> IF l \in Types THEN Once(@[l]) ELSE @[l]]]

\* The rows of no type, for a domain that has one of these types.
DeleteNoneBeside(d, types) ==
  LET beside(x) == \E type \in types : d.domains[type][x] > 0
  IN  [d EXCEPT !.domains["none"] = Without(@, beside)]

DeleteEmailDuplicates(d) ==
  DeleteNoneBeside(DeleteDuplicates(d), {"verified", "trackdechets_postal_mail", "external"})

AddNoneBesideVerified(d) ==
  [d EXCEPT !.domains["none"] = [x \in Domains |-> @[x] + d.domains["verified"][x]]]

DeleteSameNull(d) == [d EXCEPT !.domains["none"] = Once(@)]

DeleteAlreadyVerified(d) == DeleteNoneBeside(d, Types \ {"none"})

\* A link verified by its domain gets the verification that the only row of the
\* domain stands for, or none.
RestoreVerificationTypes(d) ==
  LET found == {type \in Types : d.domains[type][d.email] > 0}
      alone == Cardinality(found) = 1 /\ \A type \in found : d.domains[type][d.email] = 1
      old == CASE ~alone -> "null"
               [] alone /\ found \subseteq {"verified", "external"} -> "verified_email_domain"
               [] alone /\ found = {"trackdechets_postal_mail"} -> "trackdechets_email_domain"
               [] alone /\ found = {"official_contact"} -> "official_contact_domain"
               [] alone /\ found = {"none"} -> "null"
  IN  IF "users_organizations" \in d.rows /\ d.cell["users_organizations"]["verification_type"] = "domain"
      THEN WithCells(d, "users_organizations", {"verification_type"}, old) ELSE d

Rewritten(d, name) ==
  CASE name = "authorize domains of members" -> AuthorizeDomainsOfMembers(d)
    [] name = "lower email addresses" -> LowerEmailAddresses(d)
    [] name = "remove free email providers" -> RemoveFreeEmailProviders(d)
    [] name = "normalize connections" -> NormalizeConnections(d)
    [] name = "count connections" -> CountConnections(d)
    [] name = "authorize verified domains" -> AuthorizeVerifiedDomains(d)
    [] name = "make rows of domains" -> MakeRowsOfDomains(d)
    [] name = "make lists of domains" -> MakeListsOfDomains(d)
    [] name = "delete email duplicates" -> DeleteEmailDuplicates(d)
    [] name = "add none beside verified" -> AddNoneBesideVerified(d)
    [] name = "delete duplicates" -> DeleteDuplicates(d)
    [] name = "delete same null" -> DeleteSameNull(d)
    [] name = "delete already verified" -> DeleteAlreadyVerified(d)
    [] name = "restore verification types" -> RestoreVerificationTypes(d)

-------------------------------------------------------------------------------
Execute(d, s) ==
  LET t == s.table
      there == ColumnsOf(d, t)
      row == t \in d.rows
  IN
  CASE s.do = "create" -> If(there = {}, WithCells(d, t, s.columns, "null"))
    [] s.do = "drop table" -> If(there # {}, WithoutTable(d, t))
    [] s.do = "add" -> If(s.columns \cap there = {}, WithCells(d, t, s.columns, s.value))
    [] s.do = "add required" ->
         If(s.columns \cap there = {} /\ ~row, WithCells(d, t, s.columns, "null"))
    [] s.do = "drop" -> If(s.columns \subseteq there, WithoutCells(d, t, s.columns))
    [] s.do = "rename" ->
         If(s.from \in there /\ s.to \notin there,
            WithCells(WithoutCells(d, t, {s.from}), t, {s.to}, d.cell[t][s.from]))
    [] s.do = "alter" -> If(s.columns \subseteq there, d)
    [] s.do = "require" ->
         If(s.columns \subseteq there /\ (row => \A c \in s.columns : d.cell[t][c] # "null"),
            [d EXCEPT !.required[t] = @ \cup s.columns])
    [] s.do = "release" ->
         If(s.columns \subseteq there, [d EXCEPT !.required[t] = @ \ s.columns])
    [] s.do = "default" ->
         If(s.column \in there, IF row THEN d ELSE WithCells(d, t, {s.column}, s.value))
    [] s.do = "update" ->
         If({s.column, s.of} \subseteq there,
            IF row /\ d.cell[t][s.of] \in s.in THEN WithCells(d, t, {s.column}, s.value) ELSE d)
    [] s.do = "cast" ->
         If({s.from, s.to} \subseteq there /\ (row => d.cell[t][s.from] \in s.values),
            IF row THEN WithCells(d, t, {s.to}, d.cell[t][s.from]) ELSE d)
    [] s.do = "delete" -> If(there # {}, [d EXCEPT !.rows = @ \ {t}])
    [] s.do = "rewrite" -> Rewritten(d, s.name)
    [] s.do = "unique" -> If(IsUnique(d.domains, s.how), [d EXCEPT !.unique = s.how])

\* A refused statement is the last one of its transaction.
GoOn(d, s) == IF d.ok THEN Execute(d, s) ELSE d

Run(d, statements) ==
  LET after[n \in 0..Len(statements)] ==
        IF n = 0 THEN d ELSE GoOn(after[n - 1], statements[n])
  IN  after[Len(statements)]

-------------------------------------------------------------------------------
(***************************************************************************)
(* The files of the directory, oldest first.                               *)
(***************************************************************************)

Adds(t, cs) == [up |-> <<Add(t, cs)>>, down |-> <<Drop(t, cs)>>]
Drops(t, cs) == [up |-> <<Drop(t, cs)>>, down |-> <<Add(t, cs)>>]

\* Columns of users that were never used.
Devise == {"remember_created_at", "current_sign_in_at", "current_sign_in_ip",
           "last_sign_in_ip", "account_type_id", "type"}

create_users_table ==
  [up |-> <<CreateTable("users", {"id", "email", "encrypted_password", "reset_password_token",
                "reset_password_sent_at", "remember_created_at", "sign_in_count",
                "current_sign_in_at", "last_sign_in_at", "current_sign_in_ip",
                "last_sign_in_ip", "created_at", "updated_at", "account_type_id", "roles",
                "type"}),
            Require("users", {"encrypted_password"})>>,
   down |-> <<DropTable("users")>>]

add_legacy_account_type ==
  [up |-> <<Add("users", {"legacy_account_type"})>>,
   down |-> <<Drop("users", {"legacy_account_type"})>>]

curate_users_table ==
  [up |-> <<Drop("users", Devise),
            AddWith("users", {"legacy_user"}, "false"),
            Update("users", "legacy_user", "true", "legacy_user", {"false"}),
            Alter("users", {"reset_password_sent_at", "last_sign_in_at", "created_at",
                "updated_at"})>>,
   down |-> <<Alter("users", {"reset_password_sent_at", "last_sign_in_at", "created_at",
                  "updated_at"}),
              Drop("users", {"legacy_user"}),
              Add("users", Devise)>>]

create_oidc_clients_table ==
  [up |-> <<CreateTable("oidc_clients", {"id", "name", "client_id", "client_secret", "redirect_uris",
                "created_at", "updated_at"}),
            SetDefault("oidc_clients", "redirect_uris", "empty")>>,
   down |-> <<DropTable("oidc_clients")>>]

add_verified_email ==
  [up |-> <<AddWith("users", {"email_verified"}, "false"),
            Add("users", {"verify_email_token", "verify_email_sent_at"})>>,
   down |-> <<Drop("users", {"email_verified", "verify_email_token", "verify_email_sent_at"})>>]

remove_legacy_account_type_from_users ==
  [up |-> <<Alter("users", {"roles"}), Drop("users", {"legacy_account_type"})>>,
   down |-> <<Add("users", {"legacy_account_type"}), Alter("users", {"roles"})>>]

add_names_to_user == Adds("users", {"given_name", "family_name"})

create_organizations ==
  [up |-> <<CreateTable("organizations", {"id", "siret"}),
            CreateTable("users_organizations", {"user_id", "organization_id"})>>,
   down |-> <<DropTable("users_organizations"), DropTable("organizations")>>]

add_authorized_email_domains_to_organizations ==
  [up |-> <<AddWith("organizations", {"authorized_email_domains"}, "empty"),
            Rewrite("authorize domains of members")>>,
   down |-> <<Drop("organizations", {"authorized_email_domains"})>>]

add_post_logout_redirect_uris_to_oidc_clients ==
  [up |-> <<AddWith("oidc_clients", {"post_logout_redirect_uris"}, "empty")>>,
   down |-> <<Drop("oidc_clients", {"post_logout_redirect_uris"})>>]

remove_roles_from_user == Drops("users", {"roles"})

add_personnal_informations_to_users == Adds("users", {"phone_number", "job"})

add_scope_to_oidc_clients ==
  [up |-> <<AddWith("oidc_clients", {"scope"}, "set")>>,
   down |-> <<Drop("oidc_clients", {"scope"})>>]

add_is_external_to_users_organisations ==
  [up |-> <<AddWith("users_organizations", {"is_external"}, "false"),
            AddWith("organizations", {"external_authorized_email_domains"}, "empty")>>,
   down |-> <<Drop("users_organizations", {"is_external"}),
              Drop("users_organizations", {"external_authorized_email_domains"})>>]

add_date_to_organisations ==
  [up |-> <<AddWith("users_organizations", {"created_at", "updated_at"}, "set"),
            AddWith("organizations", {"created_at", "updated_at"}, "set")>>,
   down |-> <<Drop("users_organizations", {"created_at", "updated_at"}),
              Drop("organizations", {"created_at", "updated_at"})>>]

add_moderation_table ==
  [up |-> <<CreateTable("moderation_type", {"organization_join_block"}),
            CreateTable("moderations", {"id", "user_id", "organization_id", "type", "created_at",
                "moderated_at"})>>,
   down |-> <<DropTable("moderations"), DropTable("moderation_type")>>]

capture_external_status ==
  [up |-> <<AddRequired("moderations", {"as_external"})>>,
   down |-> <<Drop("moderations", {"as_external"})>>]

lower_email_adresses == [up |-> <<Rewrite("lower email addresses")>>, down |-> <<>>]

add_new_moderation_type ==
  [up |-> <<Alter("moderations", {"type"}), DropTable("moderation_type")>>,
   down |-> <<CreateTable("moderation_type", {"organization_join_block"}),
              Cast("moderations", "type", "type", {"organization_join_block"})>>]

use_time_stamp_with_timezone ==
  [up |-> <<Alter("moderations", {"created_at", "moderated_at"})>>,
   down |-> <<Alter("moderations", {"created_at", "moderated_at"})>>]

add_comment_to_moderations == Adds("moderations", {"comment"})

add_magic_link_to_user ==
  [up |-> <<Add("users", {"magic_link_token", "magic_link_sent_at"}),
            Release("users", {"encrypted_password"})>>,
   down |-> <<Drop("users", {"magic_link_token", "magic_link_sent_at"}),
              Require("users", {"encrypted_password"})>>]

add_info_to_organization ==
  Adds("organizations", {"cached_libelle", "cached_nom_complet", "cached_enseigne",
      "cached_tranche_effectifs", "cached_tranche_effectifs_unite_legale",
      "cached_libelle_tranche_effectif", "cached_etat_administratif", "cached_est_active",
      "cached_statut_diffusion", "cached_est_diffusible", "cached_adresse",
      "cached_code_postal", "cached_activite_principale", "cached_libelle_activite_principale",
      "cached_categorie_juridique", "cached_libelle_categorie_juridique",
      "organization_info_fetched_at"})

add_email_verified_at_to_user == Adds("users", {"email_verified_at"})

remove_index_user_on_verify_email_token ==
  [up |-> <<>>,
   down |-> <<Alter("users", {"verify_email_token"})>>]

join_users_oidc_clients ==
  [up |-> <<CreateTable("users_oidc_clients", {"user_id", "oidc_client_id", "connection_count",
                "created_at", "updated_at"})>>,
   down |-> <<DropTable("users_oidc_clients")>>]

update_oidc_clients ==
  [up |-> <<Rename("oidc_clients", "name", "client_name"),
            Add("oidc_clients", {"client_uri", "client_description"})>>,
   down |-> <<Rename("oidc_clients", "client_name", "name"),
              Drop("oidc_clients", {"client_uri", "client_description"})>>]

cast_some_organization_info_to_boolean ==
  [up |-> <<Alter("organizations", {"cached_est_active", "cached_est_diffusible"})>>,
   down |-> <<Alter("organizations", {"cached_est_active", "cached_est_diffusible"})>>]

add_verified_domains ==
  [up |-> <<AddWith("organizations", {"verified_email_domains"}, "empty"),
            Add("users_organizations", {"verification_type"})>>,
   down |-> <<Drop("organizations", {"verified_email_domains"}),
              Drop("users_organizations", {"verification_type"})>>]

add_external_verified_domains ==
  [up |-> <<AddWith("organizations", {"external_verified_email_domains"}, "empty")>>,
   down |-> <<Drop("organizations", {"external_verified_email_domains"})>>]

remove_free_email_provider == [up |-> <<Rewrite("remove free email providers")>>, down |-> <<>>]

remove_external_verified ==
  [up |-> <<Drop("organizations", {"external_verified_email_domains"})>>,
   down |-> <<AddWith("organizations", {"external_verified_email_domains"}, "empty")>>]

remove_as_external ==
  [up |-> <<Drop("moderations", {"as_external"})>>,
   down |-> <<AddWith("moderations", {"as_external"}, "false")>>]

add_cog == Adds("organizations", {"cached_code_officiel_geographique"})

normalize_connection_counter ==
  [up |-> <<Add("users_oidc_clients", {"id"}),
            Rewrite("normalize connections"),
            Drop("users_oidc_clients", {"connection_count"})>>,
   down |-> <<Rewrite("count connections"),
              Drop("users_oidc_clients", {"id"}),
              Add("users_oidc_clients", {"connection_count"})>>]

fix_non_consistent_verified_domains ==
  [up |-> <<Rewrite("authorize verified domains")>>,
   down |-> <<>>]

add_peer_authentication ==
  [up |-> <<Add("users_organizations", {"authentication_by_peers_type"}),
            Add("users", {"has_been_greeted_for_first_organization_join"})>>,
   down |-> <<Drop("users_organizations", {"authentication_by_peers_type"}),
              Drop("users", {"has_been_greeted_for_first_organization_join"})>>]

improve_organisation_greeting ==
  [up |-> <<Drop("users", {"has_been_greeted_for_first_organization_join"}),
            Add("users_organizations", {"has_been_greeted"}),
            Update("users_organizations", "has_been_greeted", "true", "has_been_greeted",
                {"null"})>>,
   down |-> <<Add("users", {"has_been_greeted_for_first_organization_join"})>>]

record_sponsor_id == Adds("users_organizations", {"sponsor_id"})

add_sign_alg_to_client == Adds("oidc_clients", {"userinfo_signed_response_alg"})

add_more_sign_alg_to_client ==
  Adds("oidc_clients", {"id_token_signed_response_alg", "authorization_signed_response_alg",
      "introspection_signed_response_alg"})

\* Mistake: rows that have no value are left as they are.
update_default_values_only ==
  [up |-> <<Require("oidc_clients", {"redirect_uris", "post_logout_redirect_uris", "scope"}),
            Require("organizations", {"authorized_email_domains", "verified_email_domains",
                "external_authorized_email_domains"}),
            Require("users", {"legacy_user"}),
            SetDefault("users_organizations", "has_been_greeted", "false"),
            Require("users_organizations", {"is_external", "has_been_greeted"}),
            Require("moderations", {"type"})>>,
   down |-> <<Release("oidc_clients", {"redirect_uris", "post_logout_redirect_uris", "scope"}),
              Release("organizations", {"authorized_email_domains", "verified_email_domains",
                  "external_authorized_email_domains"}),
              Release("users", {"legacy_user"}),
              Release("users_organizations", {"is_external", "has_been_greeted"}),
              SetDefault("users_organizations", "has_been_greeted", "null"),
              Release("moderations", {"type"})>>]

update_default_values ==
  [up |-> <<Require("oidc_clients", {"redirect_uris", "post_logout_redirect_uris", "scope"}),
            Require("organizations", {"authorized_email_domains", "verified_email_domains",
                "external_authorized_email_domains"}),
            Require("users", {"legacy_user"}),
            Update("users_organizations", "has_been_greeted", "false", "has_been_greeted",
                {"null"}),
            SetDefault("users_organizations", "has_been_greeted", "false"),
            Require("users_organizations", {"is_external", "has_been_greeted"}),
            Require("moderations", {"type"})>>,
   down |-> <<Release("oidc_clients", {"redirect_uris", "post_logout_redirect_uris", "scope"}),
              Release("organizations", {"authorized_email_domains", "verified_email_domains",
                  "external_authorized_email_domains"}),
              Release("users", {"legacy_user"}),
              Release("users_organizations", {"is_external", "has_been_greeted"}),
              SetDefault("users_organizations", "has_been_greeted", "null"),
              Release("moderations", {"type"})>>]

add_official_email_contact_verification ==
  Adds("users_organizations", {"needs_official_contact_email_verification",
      "official_contact_email_verification_token",
      "official_contact_email_verification_sent_at"})

more_data_in_connection == Adds("users_oidc_clients", {"organization_id"})

add_webauthn ==
  [up |-> <<CreateTable("authenticators", {"credential_id", "credential_public_key", "counter",
                "credential_device_type", "credential_backed_up", "transports", "user_id"}),
            Add("users", {"current_challenge"})>>,
   down |-> <<DropTable("authenticators"), Drop("users", {"current_challenge"})>>]

add_zammad_ticket_id_on_moderations == Adds("moderations", {"ticket_id"})

webauthn_metadata == Adds("authenticators", {"display_name", "created_at", "last_used_at"})

add_webauth_use_count == Adds("authenticators", {"usage_count"})

add_moderated_by == Adds("moderations", {"moderated_by"})

add_trackdechets ==
  [up |-> <<AddWith("organizations", {"trackdechets_email_domains"}, "empty"),
            Require("organizations", {"trackdechets_email_domains"})>>,
   down |-> <<Drop("organizations", {"trackdechets_email_domains"})>>]

drop_legacy_field ==
  [up |-> <<Drop("users", {"legacy_user"})>>,
   down |-> <<AddWith("users", {"legacy_user"}, "false")>>]

inclusionconnect_welcome_page == Adds("users", {"needs_inclusionconnect_welcome_page"})

inclusionconnect_onboarding_help == Adds("users", {"needs_inclusionconnect_onboarding_help"})

add_totp_secret == Adds("users", {"encrypted_totp_key", "totp_key_verified_at"})

add_user_verified_in_authenticators == Adds("authenticators", {"user_verified"})

add_force_2fa ==
  [up |-> <<AddWith("users", {"force_2fa"}, "false"),
            Update("users", "force_2fa", "true", "encrypted_totp_key", {"set"})>>,
   down |-> <<Drop("users", {"force_2fa"})>>]

refactor_email_domains ==
  [up |-> <<CreateTable("email_domains", {"id", "organization_id", "domain", "verification_type",
                "can_be_suggested", "verified_at", "created_at", "updated_at"}),
            Rewrite("make rows of domains"),
            Drop("organizations", DOMAIN TypeOf)>>,
   down |-> <<AddWith("organizations", DOMAIN TypeOf, "empty"),
              Require("organizations", DOMAIN TypeOf),
              Rewrite("make lists of domains"),
              DropTable("email_domains")>>]

delete_email_duplicates ==
  [up |-> <<Rewrite("delete email duplicates")>>,
   down |-> <<Rewrite("add none beside verified")>>]

forbid_multiple_email_domains_type_by_organization ==
  [up |-> <<Unique("nulls distinct")>>,
   down |-> <<Unique("no")>>]

update_verification_type ==
  [up |-> <<Update("users_organizations", "verification_type", "domain", "verification_type",
                {"verified_email_domain", "trackdechets_email_domain",
                "official_contact_domain"})>>,
   down |-> <<Rewrite("restore verification types")>>]

add_link_verified_at == Adds("users_organizations", {"verified_at"})

remove_same_null_verified_email_domain ==
  [up |-> <<Rewrite("delete same null")>>,
   down |-> <<>>]

update_ticket_id ==
  [up |-> <<Rename("moderations", "ticket_id", "ticket_id_int"),
            Add("moderations", {"ticket_id"}),
            Cast("moderations", "ticket_id_int", "ticket_id", {"null", "number"}),
            Drop("moderations", {"ticket_id_int"})>>,
   down |-> <<Add("moderations", {"ticket_id_int"}),
              Cast("moderations", "ticket_id", "ticket_id_int", {"null", "number"}),
              Drop("moderations", {"ticket_id"}),
              Rename("moderations", "ticket_id_int", "ticket_id")>>]

delete_authentication_by_peers_type ==
  [up |-> <<Drop("users_organizations", {"authentication_by_peers_type"}),
            Drop("users_organizations", {"sponsor_id"})>>,
   down |-> <<Add("users_organizations", {"authentication_by_peers_type"}),
              Add("users_organizations", {"sponsor_id"})>>]

add_is_pcf == Adds("oidc_clients", {"is_proconnect_federation"})

add_null_not_distinct_to_email_domains ==
  [up |-> <<Rewrite("delete duplicates"), Unique("no"), Unique("nulls too")>>,
   down |-> <<Unique("no"), Unique("nulls distinct")>>]

delete_already_verified_email_domain ==
  [up |-> <<Rewrite("delete already verified")>>,
   down |-> <<>>]

\* Mistake: users go on being asked for what they have no more.
revoke_authenticators_only == [up |-> <<DeleteRows("authenticators")>>, down |-> <<>>]

revoke_authenticators ==
  [up |-> <<DeleteRows("authenticators"),
            Update("users", "force_2fa", "false", "encrypted_totp_key", {"null"})>>,
   down |-> <<>>]

Directory ==
  <<create_users_table, add_legacy_account_type, curate_users_table, create_oidc_clients_table,
    add_verified_email, remove_legacy_account_type_from_users, add_names_to_user,
    create_organizations, add_authorized_email_domains_to_organizations,
    add_post_logout_redirect_uris_to_oidc_clients, remove_roles_from_user,
    add_personnal_informations_to_users, add_scope_to_oidc_clients,
    add_is_external_to_users_organisations, add_date_to_organisations, add_moderation_table,
    capture_external_status, lower_email_adresses, add_new_moderation_type,
    use_time_stamp_with_timezone, add_comment_to_moderations, add_magic_link_to_user,
    add_info_to_organization, add_email_verified_at_to_user,
    remove_index_user_on_verify_email_token, join_users_oidc_clients, update_oidc_clients,
    cast_some_organization_info_to_boolean, add_verified_domains, add_external_verified_domains,
    remove_free_email_provider, remove_external_verified, remove_as_external, add_cog,
    normalize_connection_counter, fix_non_consistent_verified_domains, add_peer_authentication,
    improve_organisation_greeting, record_sponsor_id, add_sign_alg_to_client,
    add_more_sign_alg_to_client, update_default_values, add_official_email_contact_verification,
    more_data_in_connection, add_webauthn, add_zammad_ticket_id_on_moderations,
    webauthn_metadata, add_webauth_use_count, add_moderated_by, add_trackdechets,
    drop_legacy_field, inclusionconnect_welcome_page, inclusionconnect_onboarding_help,
    add_totp_secret, add_user_verified_in_authenticators, add_force_2fa, refactor_email_domains,
    delete_email_duplicates, forbid_multiple_email_domains_type_by_organization,
    update_verification_type, add_link_verified_at, remove_same_null_verified_email_domain,
    update_ticket_id, delete_authentication_by_peers_type, add_is_pcf,
    add_null_not_distinct_to_email_domains, delete_already_verified_email_domain,
    revoke_authenticators>>

\* Whether the application is one that goes with file.
After(file) == applied >= CHOOSE i \in DOMAIN Directory : Directory[i] = file

-------------------------------------------------------------------------------
Up ==
  /\ applied < Len(Directory)
  /\ LET e == Run(db, Directory[applied + 1].up)
     IN  e.ok /\ db' = e
  /\ applied' = applied + 1
  /\ UNCHANGED writes

Down ==
  /\ applied > 0
  /\ LET e == Run(db, Directory[applied].down)
     IN  e.ok /\ db' = e
  /\ applied' = applied - 1
  /\ UNCHANGED writes

(***************************************************************************)
(* What the application that goes with the schema writes meanwhile.        *)
(***************************************************************************)

Written(d) ==
  /\ db' = d
  /\ writes < MaxWrites /\ writes' = writes + 1
  /\ UNCHANGED applied

\* A row of t, with these values in the columns that there are.
Inserted(t, values) ==
  [db EXCEPT !.rows = @ \cup {t},
             !.cell[t] = [c \in DOMAIN @ |-> IF c \in DOMAIN values THEN values[c] ELSE @[c]]]

Possible(t) == t \notin db.rows /\ ColumnsOf(db, t) # {}

\* A user needs no password once there are magic links.
CreateUser(x, password) ==
  /\ Possible("users")
  /\ "encrypted_password" \in db.required["users"] => password = "set"
  /\ db' = [Inserted("users", [encrypted_password |-> password]) EXCEPT !.email = x]
  /\ UNCHANGED <<applied, writes>>

CreateOrganization ==
  /\ Possible("organizations")
  /\ db' = Inserted("organizations", NoValues)
  /\ UNCHANGED <<applied, writes>>

CreateClient ==
  /\ Possible("oidc_clients")
  /\ db' = Inserted("oidc_clients", NoValues)
  /\ UNCHANGED <<applied, writes>>

Verifications ==
  IF After(update_verification_type) THEN {"null", "domain"}
  ELSE {"null", "verified_email_domain", "trackdechets_email_domain", "official_contact_domain"}

LinkUser(verification) ==
  /\ Possible("users_organizations")
  /\ {"users", "organizations"} \subseteq db.rows
  /\ Written(Inserted("users_organizations", [verification_type |-> verification]))

\* A moderation of another type than those of the enumeration cannot be written,
\* nor a ticket that is not a number in a column of numbers.
Moderate(type, ticket) ==
  /\ Possible("moderations")
  /\ {"users", "organizations"} \subseteq db.rows
  /\ ColumnsOf(db, "moderation_type") # {} => type = "organization_join_block"
  /\ ticket = "text" => After(update_ticket_id)
  /\ Written(Inserted("moderations", [type |-> type, ticket_id |-> ticket]))

\* A domain is appended to a list, or gets a row.
AddDomain(kind, x) ==
  /\ "organizations" \in db.rows /\ kind \in Kinds(db)
  /\ db.domains[kind][x] < MaxCopies
  /\ LET domains == [db.domains EXCEPT ![kind][x] = @ + 1]
     IN  IsUnique(domains, db.unique) /\ Written([db EXCEPT !.domains = domains])

AddFactor(factor) ==
  /\ "users" \in db.rows
  /\ \/ /\ factor = "passkey" /\ Possible("authenticators")
        /\ Written(Inserted("authenticators", NoValues))
     \/ /\ factor = "totp" /\ Has(db, "users", "encrypted_totp_key")
        /\ Written(WithCells(db, "users", {"encrypted_totp_key"}, "set"))

HasFactor(d) ==
  \/ "authenticators" \in d.rows
  \/ Has(d, "users", "encrypted_totp_key") /\ d.cell["users"]["encrypted_totp_key"] = "set"

IsForced(d) ==
  Has(d, "users", "force_2fa") /\ d.cell["users"]["force_2fa"] = "true"

\* Only a user that has a second factor may ask for it always.
Force2fa ==
  /\ Has(db, "users", "force_2fa") /\ HasFactor(db) /\ ~IsForced(db)
  /\ Written(WithCells(db, "users", {"force_2fa"}, "true"))

\* A connection is counted, or gets a row.
Connect ==
  /\ {"users", "oidc_clients"} \subseteq db.rows /\ ColumnsOf(db, "users_oidc_clients") # {}
  /\ LET n == db.connections
         counted == Has(db, "users_oidc_clients", "connection_count")
     IN  Written([db EXCEPT !.connections =
                    IF ~counted THEN Append(n, 0) ELSE IF n = <<>> THEN <<1>> ELSE <<n[1] + 1>>])

MigrationsNext ==
  \/ Up
  \/ Down
  \/ \E x \in Domains, password \in {"null", "set"} : CreateUser(x, password)
  \/ CreateOrganization
  \/ CreateClient
  \/ \E verification \in Verifications : LinkUser(verification)
  \/ \E type \in {"organization_join_block", "other"}, ticket \in {"null", "number", "text"} :
       Moderate(type, ticket)
  \/ \E kind \in Lists \cup Types, x \in Domains : AddDomain(kind, x)
  \/ \E factor \in {"passkey", "totp"} : AddFactor(factor)
  \/ Force2fa
  \/ Connect

MigrationsSpec == MigrationsInit /\ [][MigrationsNext]_migrationsVars
=============================================================================
