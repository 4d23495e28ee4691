------------------------ MODULE AccountsProperties ------------------------
(***************************************************************************)
(* What the deletion of an account must leave behind, and what it must not.*)
(***************************************************************************)
EXTENDS Accounts

\* Whatever the order, request r takes a step.
Moves(r) == ~ Free(r) /\ inFlight'[r] # inFlight[r]

\* A session names another user only by a sign-in of that user in that browser; a session
\* that was destroyed may only come back for the user it had, by a request of it that was in
\* flight.  Pages that look for their row by address must not take into a session of a
\* deleted account the account that has the address now
\* (managers/session/authenticated.ts, updateUserInAuthenticatedSession).
SessionsStayTheirOwn ==
    [][\A b \in Browsers :
          sessions'[b].id \notin {0, sessions[b].id} =>
              \E r \in Requests :
                  /\ Moves(r)
                  /\ inFlight[r].browser = b
                  /\ inFlight[r].user.id = sessions'[b].id
                  /\ inFlight[r].kind = "sign-in" \/ sessions[b] = NoUser]_vars

\* No request that began when its account was gone is answered as if it were there, by the
\* chain of requirements, by a page that finds its row by address, whoever has the address
\* by then, or by oidc-provider (middlewares/user.ts, UserNotFoundError).  The exception is
\* the code's: the options to use a passkey as second factor are answered, without any
\* check, from the row that has the address (managers/webauthn.ts,
\* getAuthenticationOptions), which then is never the row of the deleted account.
DeletedAreRefused ==
    [][\A r \in Requests :
          Moves(r) /\ inFlight[r].late /\ inFlight'[r].at = "done" =>
              /\ inFlight[r].kind = "options"
              /\ inFlight[r].found.id \notin {0, inFlight[r].user.id}]_vars

\* What user u gains in a step: rows, a selection, a session, an answer of oidc-provider,
\* a conversation at Crisp, a mail.
Gains(u) ==
    \/ selected'[u] \notin {selected[u], NoOrganization}
    \/ \E l \in links' \ links : l.user = u
    \/ \E m \in moderations' \ moderations : m.user = u
    \/ u \in connections' \ connections
    \/ \E b \in Browsers : opAccount'[b] = u /\ opAccount[b] # u
    \/ \E b \in Browsers : sessions'[b].id = u /\ sessions[b].id # u
    \/ \E c \in 1..Len(conversations') : conversations'[c].user = u /\ c > Len(conversations)
    \/ u \in told' \ told

\* After the deletion nothing new is kept of the account, in the database, in Redis or at
\* Crisp, except by requests that were in flight when it was deleted: neither by what
\* sessions of other browsers ask, nor by moderators, nor by clients.
NothingForTheDeleted ==
    [][\A u \in Gone :
          Gains(u) =>
              \E r \in Requests :
                  Moves(r) /\ inFlight[r].user.id = u /\ ~ inFlight[r].late]_vars

\* No account is deleted whose owner was not told by mail, whatever fails on the way, and no
\* change of the means of authentication is answered as done before its owner was told
\* (controllers/user/delete.ts, totp.ts, 2fa.ts, webauthn.ts).
OwnersAreTold ==
    /\ [](Gone \subseteq told)
    /\ [][\A r \in Requests :
            Moves(r) /\ inFlight[r].kind \in ChangesFactors /\ inFlight'[r].at = "done" =>
                inFlight'[r].mailed]_vars
=============================================================================
