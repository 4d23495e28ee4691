------------------------------ MODULE Accounts ------------------------------
(***************************************************************************)
(* What outlives an account.  A user is a row, and the row goes by one     *)
(* query of one request (controllers/user/delete.ts).  What refers to it   *)
(* by a foreign key goes with it; sessions, the selection in Redis, the    *)
(* account in the session of oidc-provider, conversations at Crisp and     *)
(* requests in flight do not, and another account may take the address,    *)
(* by which some pages look for their row.                                 *)
(*                                                                         *)
(* A step is one query, one call of a service, or an answer.  How users    *)
(* prove who they are is in SignIn and what a join decides in              *)
(* Organizations: here a sign-in succeeds, and a join asks a moderator.    *)
(***************************************************************************)
EXTENDS Naturals, FiniteSets, Sequences

CONSTANTS
    Emails,
    Organizations,
    Browsers,
    Requests,          \* slots for requests in flight
    MaxUsers,          \* bound: rows ever inserted in users
    MaxConversations,  \* bound: conversations ever opened at Crisp
    NoEmail,           \* of an id that has no row
    NoOrganization,
    NoBrowser          \* of a call of the API

ASSUME BoundsAssumption == MaxUsers \in Nat /\ MaxConversations \in Nat
ASSUME NamesAssumption ==
    NoEmail \notin Emails /\ NoOrganization \notin Organizations /\ NoBrowser \notin Browsers

VARIABLES
    users,         \* table users: the address of each id
    created,       \* ids given so far; none is given twice
    links,         \* table users_organizations
    moderations,   \* table moderations: organization_join_block, pending
    connections,   \* table users_oidc_clients: ids that have a row
    selected,      \* Redis: the organization selected by each id
    sessions,      \* Redis: the user in the session whose id the cookie holds
    opAccount,     \* accountId in the session of oidc-provider
    conversations, \* Crisp: what it was told of each conversation
    told,          \* history: ids whose owner got the mail of the deletion
    inFlight       \* requests, and the answers of those that ended

tables == <<users, links, moderations, connections>>
keys == <<selected, sessions, opAccount>>
vars == <<tables, keys, created, conversations, told, inFlight>>

Ids == 1..MaxUsers
NoUser == [id |-> 0, email |-> NoEmail]
Users == [id : Ids, email : Emails \cup {NoEmail}]  \* what a request knows of one
Gone == {u \in 1..created : users[u] = NoEmail}

(***************************************************************************)
(* The pages behind checkUserTwoFactorAuthMiddleware begin by looking for  *)
(* the row of the session.  A second factor given, and the options to      *)
(* register a passkey, only ask that there is a session, and so do the     *)
(* options to use a passkey as second factor.                              *)
(***************************************************************************)
FirstStep == [
    delete |-> "tell of deletion", factors |-> "change", passkeys |-> "look up",
    verify |-> "look up",
    select |-> "membership", join |-> "read", cancel |-> "find", connect |-> "issue"]
Chained == DOMAIN FirstStep
Kinds == Chained \cup {"second factor", "options", "sign-in", "processed", "none"}
ChangesFactors == {"factors", "passkeys"}

Ended == {"done", "failed"}
Steps == {"check", "session", "look up", "confirm", "challenge", "change", "tell", "tell of deletion",
          "remove", "leave", "membership", "store", "read", "open", "describe", "ask",
          "resolve", "record", "find", "withdraw", "issue", "count", "mail"}

\* ours: the browser still holds the session the request was made with.
\* found: the user found by address.  about: the conversation opened, or whose moderation
\* is to be cancelled.  late: the account was gone before the request began.
\* mailed: its owner was told of what the request did.
RequestStates == [
    kind : Kinds, browser : Browsers \cup {NoBrowser}, user : Users \cup {NoUser},
    at : Steps \cup Ended, organization : Organizations \cup {NoOrganization},
    ours : BOOLEAN, found : Users \cup {NoUser}, about : 0..MaxConversations,
    late : BOOLEAN, mailed : BOOLEAN]

Received(k, b, user, step) == [
    kind |-> k, browser |-> b, user |-> user, at |-> step, organization |-> NoOrganization,
    ours |-> TRUE, found |-> NoUser, about |-> 0, late |-> user.id \in Gone, mailed |-> FALSE]

\* Between requests; at is the last answer.
Idle == [kind |-> "none", browser |-> NoBrowser, user |-> NoUser, at |-> "done",
         organization |-> NoOrganization, ours |-> TRUE, found |-> NoUser, about |-> 0,
         late |-> FALSE, mailed |-> FALSE]

Init ==
    /\ users = [u \in Ids |-> NoEmail]
    /\ created = 0
    /\ links = {} /\ moderations = {} /\ connections = {}
    /\ selected = [u \in Ids |-> NoOrganization]
    /\ sessions = [b \in Browsers |-> NoUser]
    /\ opAccount = [b \in Browsers |-> 0]
    /\ conversations = <<>>
    /\ told = {}
    /\ inFlight = [r \in Requests |-> Idle]

Free(r) == inFlight[r].at \in Ended
At(r, step) == inFlight[r].at = step
Becomes(r, q) == inFlight' = [inFlight EXCEPT ![r] = q]
Goes(r, step) == Becomes(r, [inFlight[r] EXCEPT !.at = step])
Answers(r, answer) == Becomes(r, [Idle EXCEPT !.at = answer])

\* An answer to a request that has changed its session stores that session under its id,
\* even where another request has destroyed it; a new id is in the cookie after a sign-in.
Stored(r, user) ==
    sessions' = IF inFlight[r].ours
                THEN [sessions EXCEPT ![inFlight[r].browser] = user] ELSE sessions
\* destroyAuthenticatedSession
Destroyed(r) ==
    /\ selected' = [selected EXCEPT ![inFlight[r].user.id] = NoOrganization]
    /\ Stored(r, NoUser)

-----------------------------------------------------------------------------
(***************************************************************************)
(* Requests arrive.                                                        *)
(***************************************************************************)

\* A page or a form of a browser with a session.
Receive(r, b, k) ==
    /\ Free(r) /\ sessions[b] # NoUser
    /\ Becomes(r, Received(k, b, sessions[b], IF k \in Chained THEN "check" ELSE "look up"))
    /\ UNCHANGED <<tables, keys, created, conversations, told>>

\* The forms that name an organization.
ReceiveAbout(r, b, k, o) ==
    /\ Free(r) /\ sessions[b] # NoUser
    /\ Becomes(r, [Received(k, b, sessions[b], "check") EXCEPT !.organization = o])
    /\ UNCHANGED <<tables, keys, created, conversations, told>>

\* The form that cancels a moderation, by the id it has.
ReceiveCancel(r, b, c) ==
    /\ Free(r) /\ sessions[b] # NoUser
    /\ Becomes(r, [Received("cancel", b, sessions[b], "check") EXCEPT !.about = c])
    /\ UNCHANGED <<tables, keys, created, conversations, told>>

\* A client asks oidc-provider, which has answered for an account in this browser before.
ReceiveSilent(r, b) ==
    /\ Free(r) /\ opAccount[b] # 0
    /\ Becomes(r, [Received("connect", b, [id |-> opAccount[b], email |-> NoEmail], "issue")
                   EXCEPT !.ours = FALSE])
    /\ UNCHANGED <<tables, keys, created, conversations, told>>

\* POST /api/admin/send-moderation-processed-email
ReceiveProcessed(r, u) ==
    /\ Free(r)
    /\ Becomes(r, [Received("processed", NoBrowser, [id |-> u, email |-> NoEmail], "mail")
                   EXCEPT !.ours = FALSE])
    /\ UNCHANGED <<tables, keys, created, conversations, told>>

\* Signing in or up: findByEmail, or the insertion of the row.
Credentials(r, b, u, e) ==
    /\ Free(r)
    /\ \/ users[u] = e /\ UNCHANGED <<users, created>>
       \/ /\ \A v \in Ids : users[v] # e
          /\ u = created + 1 /\ created' = u
          /\ users' = [users EXCEPT ![u] = e]
    /\ Becomes(r, [Received("sign-in", b, [id |-> u, email |-> e], "session") EXCEPT !.late = FALSE])
    /\ UNCHANGED <<links, moderations, connections, keys, conversations, told>>

\* createAuthenticatedSession: the session gets another id, and the row as it is by then.
CreateSession(r) ==
    LET q == inFlight[r] IN
    /\ At(r, "session")
    /\ selected' = [selected EXCEPT ![q.user.id] = NoOrganization]
    /\ sessions' = [sessions EXCEPT ![q.browser] =
                      IF users[q.user.id] = NoEmail THEN NoUser ELSE q.user]
    /\ inFlight' = [s \in Requests |->
          IF s = r THEN [Idle EXCEPT !.at = IF users[q.user.id] = NoEmail THEN "failed" ELSE "done"]
          ELSE [inFlight[s] EXCEPT !.ours = @ /\ inFlight[s].browser # q.browser]]
    /\ UNCHANGED <<tables, opAccount, created, conversations, told>>

\* Mistake: force_2fa is read of the session, which is there whatever became of the row.
CheckOfSession(r) ==
    /\ At(r, "check")
    /\ Goes(r, FirstStep[inFlight[r].kind])
    /\ UNCHANGED <<tables, keys, created, conversations, told>>

\* checkUserTwoFactorAuthMiddleware, shouldForce2faForUser.
Check(r) ==
    /\ At(r, "check")
    /\ IF users[inFlight[r].user.id] = NoEmail
       THEN Answers(r, "failed") /\ Destroyed(r)
       ELSE Goes(r, FirstStep[inFlight[r].kind]) /\ UNCHANGED <<selected, sessions>>
    /\ UNCHANGED <<tables, opAccount, created, conversations, told>>

\* Wrong input, a service that does not answer, an id that names nothing, or the end of the
\* process.
Fail(r) ==
    /\ ~ Free(r)
    /\ Answers(r, "failed")
    /\ UNCHANGED <<tables, keys, created, conversations, told>>

\* A page without session after the session has gone: the cookie gets another id.
Forget(b) ==
    /\ sessions[b] = NoUser
    /\ inFlight' = [r \in Requests |->
          [inFlight[r] EXCEPT !.ours = @ /\ inFlight[r].browser # b]]
    /\ UNCHANGED <<tables, keys, created, conversations, told>>

-----------------------------------------------------------------------------
(***************************************************************************)
(* Deletion of the account.                                                *)
(***************************************************************************)

\* Mistake: a mail that cannot be sent does not stop the deletion.
TellOfDeletionIfPossible(r) ==
    /\ At(r, "tell of deletion")
    /\ told' \in {told, told \cup {inFlight[r].user.id}}
    /\ Goes(r, "remove")
    /\ UNCHANGED <<tables, keys, created, conversations>>

\* sendDeleteUserEmail
TellOfDeletion(r) ==
    /\ At(r, "tell of deletion")
    /\ users[inFlight[r].user.id] # NoEmail
    /\ told' = told \cup {inFlight[r].user.id}
    /\ Goes(r, "remove")
    /\ UNCHANGED <<tables, keys, created, conversations>>

\* Mistake: moderations stay, as the rows of no one.
DeleteUserKeepModerations(r) ==
    LET u == inFlight[r].user.id IN
    /\ At(r, "remove")
    /\ users' = [users EXCEPT ![u] = NoEmail]
    /\ links' = {l \in links : l.user # u}
    /\ connections' = connections \ {u}
    /\ Goes(r, "leave")
    /\ UNCHANGED <<moderations, keys, created, conversations, told>>

\* deleteUser, with the rows whose foreign keys say ON DELETE CASCADE.
DeleteUser(r) ==
    LET u == inFlight[r].user.id IN
    /\ At(r, "remove")
    /\ users' = [users EXCEPT ![u] = NoEmail]
    /\ links' = {l \in links : l.user # u}
    /\ moderations' = {m \in moderations : m.user # u}
    /\ connections' = connections \ {u}
    /\ Goes(r, "leave")
    /\ UNCHANGED <<keys, created, conversations, told>>

Leave(r) ==
    /\ At(r, "leave")
    /\ Destroyed(r) /\ Answers(r, "done")
    /\ UNCHANGED <<tables, opAccount, created, conversations, told>>

-----------------------------------------------------------------------------
(***************************************************************************)
(* Changes of the row of the session, told to its owner afterwards: an     *)
(* authenticator app is added or removed, two factors are not enforced any *)
(* more.  Passkeys are added and removed in the row found by the address.  *)
(***************************************************************************)

\* An update of no row returns nothing, of which the id is then read.
Change(r) ==
    /\ At(r, "change")
    /\ IF users[inFlight[r].user.id] = NoEmail THEN Answers(r, "failed") ELSE Goes(r, "tell")
    /\ UNCHANGED <<tables, keys, created, conversations, told>>

\* The mail is for the address of the row; the session is stored whether or not it is sent.
Tell(r, sent) ==
    /\ At(r, "tell")
    /\ sent => users[inFlight[r].user.id] # NoEmail
    /\ Becomes(r, [Idle EXCEPT !.at = IF sent THEN "done" ELSE "failed", !.mailed = sent])
    /\ Stored(r, inFlight[r].user)
    /\ UNCHANGED <<tables, selected, opAccount, created, conversations, told>>

(***************************************************************************)
(* Codes and passkeys, whose row is found by the address in the session.   *)
(* Of a code of an authenticator app it is found by the id: where the      *)
(* address has become another row's, that code is refused as well.         *)
(***************************************************************************)
LookUp(r) ==
    /\ At(r, "look up")
    /\ \E u \in Ids :
          /\ users[u] = inFlight[r].user.email /\ users[u] # NoEmail
          /\ Becomes(r, [inFlight[r] EXCEPT
                           !.at = IF inFlight[r].kind = "options" THEN "challenge" ELSE "confirm",
                           !.found = [id |-> u, email |-> users[u]]])
    /\ UNCHANGED <<tables, keys, created, conversations, told>>

\* Mistake: the user who has the address is taken into the session.
ConfirmAnyUser(r) ==
    /\ At(r, "confirm")
    /\ Answers(r, "done") /\ Stored(r, inFlight[r].found)
    /\ UNCHANGED <<tables, selected, opAccount, created, conversations, told>>

\* A code is cleared in the row, which is read back, and so is the row that gets a passkey;
\* a passkey is used with the row as it was found.  updateUserInAuthenticatedSession takes no
\* other user into the session, and none has the passkey to remove.
Confirm(r) ==
    LET q == inFlight[r] IN
    /\ At(r, "confirm")
    /\ CASE q.found.id # q.user.id \/ (users[q.found.id] = NoEmail /\ q.kind # "second factor")
               -> Answers(r, "failed") /\ UNCHANGED sessions
         [] q.found.id = q.user.id /\ q.kind = "passkeys" /\ users[q.found.id] # NoEmail
               -> Goes(r, "tell") /\ UNCHANGED sessions
         [] OTHER -> Answers(r, "done") /\ Stored(r, q.found)
    /\ UNCHANGED <<tables, selected, opAccount, created, conversations, told>>

\* getAuthenticationOptions: the passkeys of the row found, where the challenge is written,
\* are the answer, whoever's row that is and whether or not it is still there; the user in
\* the session is not compared with it and stays.
AnswerOptions(r) ==
    /\ At(r, "challenge")
    /\ Answers(r, "done")
    /\ UNCHANGED <<tables, keys, created, conversations, told>>

-----------------------------------------------------------------------------
(***************************************************************************)
(* Organizations: selectOrganization, and a join that needs a moderator.   *)
(***************************************************************************)
IsMember(u, o) == \E l \in links : l.user = u /\ l.organization = o

FindMembership(r) ==
    LET q == inFlight[r] IN
    /\ At(r, "membership")
    /\ IF IsMember(q.user.id, q.organization) THEN Goes(r, "store") ELSE Answers(r, "failed")
    /\ UNCHANGED <<tables, keys, created, conversations, told>>

Store(r) ==
    LET q == inFlight[r] IN
    /\ At(r, "store")
    /\ selected' = [selected EXCEPT ![q.user.id] = q.organization]
    /\ Answers(r, "done")
    /\ UNCHANGED <<tables, sessions, opAccount, created, conversations, told>>

\* The user, the links and the pending moderation, which sends to its page.
ReadForJoin(r) ==
    LET q == inFlight[r] IN
    /\ At(r, "read")
    /\ CASE users[q.user.id] = NoEmail \/ IsMember(q.user.id, q.organization) -> Answers(r, "failed")
         [] \E m \in moderations : m.user = q.user.id /\ m.organization = q.organization
               -> Answers(r, "done")
         [] OTHER -> Goes(r, "open")
    /\ UNCHANGED <<tables, keys, created, conversations, told>>

\* startCripsConversation: four calls of Crisp, each of which may fail.
OpenConversation(r) ==
    LET q == inFlight[r] IN
    /\ At(r, "open") /\ Len(conversations) < MaxConversations
    /\ conversations' = Append(conversations, [user |-> q.user.id, told |-> {}])
    /\ Becomes(r, [q EXCEPT !.at = "describe", !.about = Len(conversations) + 1])
    /\ UNCHANGED <<tables, keys, created, told>>

CallCrisp(r, step, next) ==
    /\ At(r, step)
    /\ conversations' = [conversations EXCEPT ![inFlight[r].about].told = @ \cup {step}]
    /\ Goes(r, next)
    /\ UNCHANGED <<tables, keys, created, told>>

\* createModeration; the user the row refers to must be there.
CreateModeration(r) ==
    LET q == inFlight[r] IN
    /\ At(r, "record")
    /\ IF users[q.user.id] = NoEmail THEN Answers(r, "failed") /\ UNCHANGED moderations
       ELSE /\ moderations' = moderations \cup
                  {[user |-> q.user.id, organization |-> q.organization, ticket |-> q.about]}
            /\ Answers(r, "done")
    /\ UNCHANGED <<users, links, connections, keys, created, conversations, told>>

\* cancelModeration: one that is gone is as good as cancelled, one of somebody else is not.
FindModeration(r) ==
    LET q == inFlight[r]
        Named == {m \in moderations : m.ticket = q.about} IN
    /\ At(r, "find")
    /\ CASE Named = {} -> Answers(r, "done")
         [] \E m \in Named : m.user # q.user.id -> Answers(r, "failed")
         [] OTHER -> Goes(r, "withdraw")
    /\ UNCHANGED <<tables, keys, created, conversations, told>>

DeleteModeration(r) ==
    /\ At(r, "withdraw")
    /\ moderations' = {m \in moderations : m.ticket # inFlight[r].about}
    /\ Answers(r, "done")
    /\ UNCHANGED <<users, links, connections, keys, created, conversations, told>>

\* A moderator decides, and forces the join by the API if the request is granted.
Moderate(m, granted) ==
    /\ m \in moderations
    /\ moderations' = moderations \ {m}
    /\ links' = IF granted THEN links \cup {[user |-> m.user, organization |-> m.organization]}
                ELSE links
    /\ UNCHANGED <<users, connections, keys, created, conversations, told, inFlight>>

\* sendModerationProcessedEmail
SendProcessed(r) ==
    /\ At(r, "mail")
    /\ Answers(r, IF users[inFlight[r].user.id] = NoEmail THEN "failed" ELSE "done")
    /\ UNCHANGED <<tables, keys, created, conversations, told>>

-----------------------------------------------------------------------------
(***************************************************************************)
(* Answers to clients, and the count of connections after them.            *)
(***************************************************************************)

\* The interaction ends, its values leave the session, and findAccount is asked:
\* oidc-provider answers for an account that is there.
Issue(r) ==
    LET q == inFlight[r] IN
    /\ At(r, "issue")
    /\ IF users[q.user.id] = NoEmail
       THEN Answers(r, "failed") /\ UNCHANGED <<sessions, opAccount>>
       ELSE /\ Goes(r, "count") /\ Stored(r, q.user)
            /\ opAccount' = [opAccount EXCEPT ![q.browser] = q.user.id]
    /\ UNCHANGED <<tables, selected, created, conversations, told>>

\* recordNewConnection, after the answer: a failure changes nothing of it.
AddConnection(r) ==
    /\ At(r, "count")
    /\ connections' = IF users[inFlight[r].user.id] = NoEmail THEN connections
                      ELSE connections \cup {inFlight[r].user.id}
    /\ Answers(r, "done")
    /\ UNCHANGED <<users, links, moderations, keys, created, conversations, told>>

-----------------------------------------------------------------------------
Arrive(r) ==
    \/ \E b \in Browsers :
          \/ \E k \in {"second factor", "options"} \cup (Chained \ {"select", "join", "cancel"}) : Receive(r, b, k)
          \/ \E k \in {"select", "join"}, o \in Organizations : ReceiveAbout(r, b, k, o)
          \/ \E c \in 1..MaxConversations : ReceiveCancel(r, b, c)
          \/ ReceiveSilent(r, b)
          \/ \E u \in Ids, e \in Emails : Credentials(r, b, u, e)
    \/ \E u \in Ids : ReceiveProcessed(r, u)

Step(r) ==
    \/ CreateSession(r) \/ Check(r) \/ Fail(r)
    \/ TellOfDeletion(r) \/ DeleteUser(r) \/ Leave(r)
    \/ Change(r) \/ (\E sent \in BOOLEAN : Tell(r, sent)) 
    \/ LookUp(r) \/ Confirm(r) \/ AnswerOptions(r)
    \/ FindMembership(r) \/ Store(r) \/ ReadForJoin(r) \/ OpenConversation(r)
    \/ CallCrisp(r, "describe", "ask") \/ CallCrisp(r, "ask", "resolve")
    \/ CallCrisp(r, "resolve", "record")
    \/ CreateModeration(r) \/ FindModeration(r) \/ DeleteModeration(r) \/ SendProcessed(r)
    \/ Issue(r) \/ AddConnection(r)

Next ==
    \/ \E r \in Requests : Arrive(r) \/ Step(r)
    \/ \E b \in Browsers : Forget(b)
    \/ \E m \in moderations, granted \in BOOLEAN : Moderate(m, granted)

Spec == Init /\ [][Next]_vars

-----------------------------------------------------------------------------
TypeOK ==
    /\ users \in [Ids -> Emails \cup {NoEmail}]
    /\ created \in 0..MaxUsers
    /\ links \subseteq [user : Ids, organization : Organizations]
    /\ moderations \subseteq
          [user : Ids, organization : Organizations, ticket : 1..MaxConversations]
    /\ connections \subseteq Ids
    /\ selected \in [Ids -> Organizations \cup {NoOrganization}]
    /\ sessions \in [Browsers -> Users \cup {NoUser}]
    /\ opAccount \in [Browsers -> 0..MaxUsers]
    /\ conversations \in Seq([user : Ids, told : SUBSET {"describe", "ask", "resolve"}])
    /\ Len(conversations) <= MaxConversations
    /\ told \subseteq Ids
    /\ inFlight \in [Requests -> RequestStates]
=============================================================================
