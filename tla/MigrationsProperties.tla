------------------------- MODULE MigrationsProperties -------------------------
(* What the migrations of the database must keep. *)
EXTENDS Migrations

\* Where a list or a type of rows stands for the same verification.
Meaning(kind) == IF kind \in DOMAIN TypeOf THEN TypeOf[kind] ELSE kind

\* The verifications of the domains of d, a list that nothing ever read left out.
Verified(d) ==
  {<<Lower[xk[1]], Meaning(xk[2])>> :
     xk \in {xk \in Domains \X (Kinds(d) \ {"external_verified_email_domains"}) :
                d.domains[xk[2]][xk[1]] > 0}}

NotFree(verified) == {xk \in verified : xk[1] \notin Free}
Proven(verified) == {xk \in verified : xk[2] # "none"}
DomainsOf(verified) == {xk[1] : xk \in verified}

\* No upgrade loses how a domain was verified, or makes one verified that was not, nor
\* drops a domain: the lists become rows, duplicates go and spellings merge, through nine
\* files of migrations/ (1563806723167 to 1731434032350).  Those of free email providers
\* are removed on purpose.
UpgradesKeepDomains ==
  [][applied' > applied =>
       LET before == Verified(db)
           after == Verified(db')
       IN  /\ NotFree(Proven(before)) = NotFree(Proven(after))
           /\ Proven(after) \subseteq Proven(before)
           /\ DomainsOf(NotFree(before)) \subseteq DomainsOf(after)]_migrationsVars

Connections(d) ==
  IF Has(d, "users_oidc_clients", "connection_count")
  THEN Total(d.connections, DOMAIN d.connections)
  ELSE Len(d.connections)

ValueOf(d, t, c) == IF t \in d.rows /\ Has(d, t, c) THEN d.cell[t][c] ELSE "null"

\* No upgrade leaves a user who is always asked for a second factor without any (1718445352148,
\* 1738935239433), nor loses or invents a connection (1680524813673), the verification of a link
\* (1721662773865) or the ticket of a moderation (1724327131305).
UpgradesKeepAccounts ==
  [][applied' > applied =>
       /\ IsForced(db') => HasFactor(db')
       /\ Connections(db') = Connections(db)
       /\ (ValueOf(db, "users_organizations", "verification_type") = "null")
            <=> (ValueOf(db', "users_organizations", "verification_type") = "null")
       /\ ValueOf(db', "moderations", "ticket_id") = ValueOf(db, "moderations", "ticket_id")]_migrationsVars

NextFile == Directory[applied + 1]

\* Whatever the application has written and whatever was undone before, the next file can
\* be applied, except in three cases that the code has: has_been_greeted is still there after
\* 1685102115392 was undone; there is a moderation when 1623764013744 adds a column that must
\* not be null; the same domain was added again between 1721404910819, which removes
\* duplicates, and 1721406015258, which forbids them.
UpgradesRun ==
  applied < Len(Directory) =>
    \/ Run(db, NextFile.up).ok
    \/ NextFile = improve_organisation_greeting /\ Has(db, "users_organizations", "has_been_greeted")
    \/ NextFile = capture_external_status /\ "moderations" \in db.rows
    \/ /\ NextFile = forbid_multiple_email_domains_type_by_organization
       /\ \E x \in Domains, type \in Types \ {"none"} : db.domains[type][x] > 1
=============================================================================
