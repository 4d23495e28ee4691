# ProConnect Identité in TLA+

ProConnect Identité is an OpenID provider for people who act for an organization. It is an Express
application around `oidc-provider`, with PostgreSQL for users, organizations and links, and Redis for
sessions, selected organizations and what `oidc-provider` stores. There is no database transaction: every
awaited query stands alone, and a browser, or several, can have many requests in flight.

This directory models the parts of it that decide *who is let in, with what level, for which organization*.

## 1. Inventory

| component | state it keeps | operations | talks to |
|---|---|---|---|
| sign-in and sign-up (`src/src/controllers/user`, `src/src/managers/user.ts`) | the row of a user: password, `email_verified`, `email_verified_at`, tokens, personal informations | start, password, sign-up, magic link, verify email, reset and change password | sessions, mails |
| sessions (`src/src/managers/session`) | the express session of a browser: email typed, **copy** of the user row, authentication methods (`amr`), values of the interaction | create (regenerates), add methods, refresh the copy, destroy, expire | Redis, the row |
| trusted browsers (`src/src/managers/browser-authentication.ts`) | one signed cookie with one user id | set by factors of possession, read by the chain | sessions |
| requirements chain (`src/src/middlewares/user.ts`) | none of its own | a nested chain of conditions; the first unmet one redirects | all of the above |
| second factors (`src/src/managers/2fa.ts`, `totp.ts`, `webauthn.ts`) | TOTP key, authenticators, `force_2fa`, current challenge, usage count | register, use, delete, enforce | the row, sessions |
| levels of assurance (`src/src/services/acr-checks.ts`) | none | what a prompt asks for, what satisfies it | interactions |
| interactions (`src/src/controllers/interaction.ts`, `src/src/services/oidc-policy.ts`) | prompts and results in `oidc-provider`, four values in the session | start, end, error; resume and code by `oidc-provider` | chain, selected organization |
| claims (`src/src/services/oidc-account-adapter.ts`) | none | read the row, the links and the selection when the token is requested | Redis, the row |
| organizations of a user (`src/src/managers/organization`) | `users_organizations`, `moderations`, `email_domains`; the **per-user** selected organization in Redis | join, select, confirm with the official contact, greet, quit, verify a domain | external directories, chain |
| moderation and API (`src/src/managers/moderation.ts`, `src/src/controllers/api.ts`) | `moderations` | cancel, accept by moderators | organizations |
| storage of `oidc-provider` (`src/src/repositories/redis/oidc-provider.ts`) | keys with expiry, lists of the tokens of a grant | upsert, find, consume, revoke | Redis |
| accounts (`src/src/controllers/user/delete.ts`, `src/src/repositories`) | the row by its id, what refers to it in the database, in Redis, in the session of `oidc-provider`, at Crisp | delete, sign up again with the same address, count a connection | everything that names a user |
| information from INSEE (`src/packages/insee`, `src/scripts/update-organizations-info.ts`, `src/scripts/import-domains.ts`) | the cached columns of `organizations` | fetch and upsert on a join, fill in rows that have none, import domains | INSEE |
| imports of accounts (`src/scripts/import-accounts.ts`, `src/scripts/import-accounts-coop.ts`) | none of their own | an entry after the other: user, names, organizations, links | users and links of the site, which stays open |
| database schema (`src/migrations`) | the tables, the list of files applied | up and down of 68 files | rows the application has written |

Behaviours that are hard here, each listed at its line under `hazards` in PROJECT.json:

- **copies**: the session's copy of the user, the provider's copy of the level, the cookie's idea of the user;
- **sharing**: one selected organization for all sessions of a user, one set of interaction values for all
  interactions of a browser, one challenge for all ceremonies of a user;
- **awaits**: checks of a second factor, one-time secrets, joins, whose check and effect are different queries;
- **long legal sequences**: sign-ins on top of sign-ins, factors added and removed, links followed elsewhere;
- **redirects**: pages that send to each other, prompts that undo each other;
- **leftovers**: what names a user that is deleted, and a user who takes its address;
- **rows of other times**: migrations that rewrite what an earlier version of the code wrote.

What makes each component correct: a session is issued only where possession of the mailbox or of an
authenticator was shown (sign-in, browsers); no factor of one user counts for another, and nobody is locked out
(second factors); a code carries a level that was earned (interactions, levels); a consistency-checked level
rests on a check that is done, and the claims name one of the user's organizations (organizations, claims);
redirects and prompts come to an end (chain, interactions); nothing is kept of a deleted account, nor given to
another (accounts); nobody enters an organization that INSEE never said was active (information from INSEE); what users
entered survives an import (imports) and an upgrade (schema).

## 2. Modules

| module | models |
|---|---|
| `AuthenticationMethods` | `amr` values, one and two factors (`services/security.ts`) |
| `AcrChecks` | acr values and prompts (`services/acr-checks.ts`) |
| `SignIn` | the users table, sessions, cookies and mails, and every route that signs in, adds a factor, verifies an address or changes the means of authentication |
| `SignInProperties`, `MCSignIn` | its properties; its instances for TLC |
| `SignInProofs` | its theorems |
| `Interaction` | authorization requests, prompts, interactions, codes, claims, the organizations part of the chain, the selected organization |
| `InteractionProperties`, `MCInteraction` | its properties; its instances |
| `InteractionProofs` | its theorems, and those of the journey |
| `InteractionJourney`, `MCInteractionJourney` | extends `Interaction` with the page each browser is on, and every redirect between pages; its instances |
| `AtomicAccount` | abstract: what the requests on the factors and one-time secrets of an account promise, each in one step |
| `AccountRequests`, `AccountRequestsProperties`, `MCAccountRequests` | the same requests query by query, several in flight; its properties; its instances |
| `AccountRequestsProofs` | its theorems, among them that it implements `AtomicAccount` |
| `Membership` | abstract: what being in an organization means for a user; `Organizations` and `Interaction` implement it |
| `OrganizationKinds` | what an organization is taken for, of what INSEE says of it (`services/organization.ts`) |
| `Organizations`, `OrganizationsProperties`, `MCOrganizations` | joins, forced joins, domains, moderations and codes of one organization, query by query; its properties; its instances |
| `OrganizationsProofs` | its theorems, among them that it implements `Membership` |
| `Imports`, `ImportsProperties`, `MCImports` | the two scripts that import accounts, query by query, while the site is open; their properties; their instances |
| `OrganizationInfo`, `OrganizationInfoProperties`, `MCOrganizationInfo` | what joins and two scripts fetch from INSEE and store, query by query; its properties; its instances |
| `OrganizationInfoProofs` | its theorems |
| `Accounts`, `AccountsProperties`, `MCAccounts` | accounts by id, their deletion and what outlives it, query by query; its properties; its instances |
| `AccountsProofs` | its theorems |
| `Migrations`, `MigrationsProperties`, `MCMigrations` | the files of `migrations/`, statement by statement, on the rows the application writes between them; its properties; its instances |
| `ScriptsProofs` | the theorems of the imports and of the migrations |
| `OidcAdapter`, `OidcAdapterProperties`, `MCOidcAdapter` | codes, access tokens and the list of a grant in Redis, command by command; its properties; its instances |
| `OidcAdapterProofs` | its theorems |

`SignIn` and `Interaction` take a request as one step and vary what is done in which order, by whom and where.
`AccountRequests`, `Organizations`, `OidcAdapter`, `Imports`, `OrganizationInfo` and `Accounts` take a query as one step and
vary what else is in flight. `Migrations` takes a file as one step and varies what was written before it.

### SignIn

One action is one request: the chain of conditions in front of the route, its controller and the chain behind
it, with everything they change; requests of different browsers interleave freely. `account[u]` is the row of
a user with the authenticators; `session[b]` the express session, of whose copy of the row only the three
fields the code reads are kept; `trusted[b]` the cookie. Two variables are history: `possession` (a mailbox or
authenticator of `u` was used from `b`) and `ownSignIn` (when the session of `b` itself was signed in).
Passwords are right or the request changes nothing, so they are not modelled as values. Time is what the code
compares: a sign-in is the last one, an earlier recent one, or old; a token is there and valid, or not; the
verification of an address is recent or not. `Clocks` names the delays that may elapse, `Mails` the mails that
are followed: a run that leaves one out says nothing of it, and `MCSignIn_pairs` leaves none out. The chain is
data (`Obstacles`), so that one definition tells both whether a request passes and where it is sent; `Settles`
follows these redirects.

Left out: referrer paths, login hints, the welcome page of Inclusion Connect, the federation variant of the
start page, and the temporary TOTP key. The deletion of accounts is in `Accounts`.

### Interaction

`interaction[i]` is an authorization request from the first prompt to the claims; an identifier stands for all
its re-prompts. `session[b]` keeps what matters once the email is verified and the personal informations are
known: user, one factor or two, and the values an interaction leaves. `provider[b]` is the session
`oidc-provider` keeps with a cookie of its own: account and level, which outlive the express session. `link` and
`selected` are the rows and the Redis key. Every handler is a function on the *world* of a request, its session
with the rows of its user (`RowsOf`), and `Chain` says in what worlds the chain behind it may leave them;
`Save` writes one back. `oidc-provider` is external: `Authorize`, `Resume` and `Prompted` are written from how
`oidc-policy.ts` and `interaction.ts` rely on it (base prompts without consent, in the order of the policy).
The interaction of an express session is the uid of one prompt: once that is resumed, the next prompt has another uid, and `Former` is what
a session that kept the old one then holds. Until then `oidc-provider` finds an interaction for `start`, `login` and `error` alike (`Found`), answered or not.
Which organization of several is greeted first is left open. How a join is decided is left open too:
`JoinedLinks` says which of self-asserted, checked, to-be-checked may come out. Logins are modelled without hint.

### InteractionJourney

`Interaction` lets a browser make any request at any time; `InteractionJourney` says which one it makes. `page[b]`
is the page a browser is on. Each page's form and each redirect is one action, which conjoins the action of
`Interaction` it makes with the page it leads to (`Landing` for the chain and `issueSessionOrRedirectController`,
`PageOfPrompt` and `PageOfEnd` for the interaction controllers, `ErrorPage` for the error handler), so that every
step is a step of `Interaction` or changes the page alone. `Distraction` is any other action of `Interaction`:
another tab, a sign-out, an expired session or interaction. Users answer the form they see, possibly signing in as
somebody else; one who is told to be in an organization already may go to the home page.

### AccountRequests

A request of `SignIn` that changes factors or one-time secrets is here a process: `request[r].pc` is the query it
makes next, `seen` what an earlier query has found. An action is one query, or one call of a mail or password
service, with the code up to the next one, so that two requests interleave wherever an `await` lets them; a request
may die at any of them (`Dies`), since no transaction undoes what it has done. `account` is the row with its
authenticators, `account.secret[kind]` the column of a challenge, a verification code, a magic link or a reset token.
Secrets are model values, each generated once; a browser may answer with any that was generated, or with none. What
is not in this module is the session around a request (`SignIn` has it) and the expiry of tokens.

Three variables are history that the properties speak of: `accepted` (which secret was accepted, and whether it had
been before the request began), `disturbed` (requests have overlapped, or one died) and `contended` (two that
*conflict* have: one enforces the second factor and the other removes one, or one sends a token while the other sends
or uses one of that kind). `before` is the account when no request was in flight last: the refinement mapping shows it
while a request is under way.

### Organizations

One organization, its rows in `email_domains`, `users_organizations` and `moderations`, and the requests that change
them. `joinOrganization` is read as it is written, a query at a time: links, moderation, domains, the external
directory, the marking of a contact's domain, the insertion. What it decides is a list of rules, of which the first that
applies holds (`Decision`): without verification, by the official contact, by a known domain, else a moderator. Which
of them are asked depends on the legal category, the activity and the staff of the organization, of which
`OrganizationKinds` derives what the code takes it for. INSEE and the directories are external: `Cases` says what they
hold, and they may not answer. An address is its domain.
A moderator's forced join and marking go through the same steps as in `controllers/api.ts` and `packages/identite`;
leaving and cancelling a moderation are single queries that decide. Tables keep their keys: one link for a user, one row
for a domain and its type. The mails are left out; the greeting is in `Interaction`, and what a join first fetches
from INSEE in `OrganizationInfo`.

Two things are modelled as the code has them though it may mean otherwise: `forceJoinLink` stores
`no_validation_means_available` (`join.ts:394`) where `markDomainAsVerified` looks for `no_verification_means_available`
(`mark-domain-as-verified.ts:70`), so members who were forced in are not upgraded with their domain; and
`isAFreeEmailProvider` is given the whole address at `join.ts:191`, so whether the user is asked to confirm is left open.

### OidcAdapter

Time is ticks: `key[t].ttl` and `grant.ttl` are the remaining ticks of a token and of the list of its grant, with
the two special answers of the command `TTL`. A request takes less than two ticks. `upsert` reads the expiry of the list and stores in a
transaction after it; `revokeByGrantId` reads the list and deletes in a transaction after it; `consume` sets a field
of a key it does not look for. What oidc-provider does with the adapter is external: a code is found, consumed, and an access token
stored for it; a code that was consumed revokes its grant. `exposed`, `doubled` and `missed` are history: the
overlaps that the adapter does not protect from, each of which the properties must name to hold. The keys by uid and
user code are left out: no code, access token or list is looked up by them.

### AcrChecks

Pure operators. `Interaction` applies them to the prompts `oidc-provider` makes of requests (a level is asked for by one value or
by several), and `InteractionProperties` says what the start and the end of an interaction must make of the same prompt.

### Imports

`script` and `file` are chosen at the start: one of the two scripts and what it reads; `None` is an address or siret that is
refused. `job.pc` is the query that comes next. `import-accounts.ts` looks at the sirets after the user is created and named, and only logs
an organization that fails; `import-accounts-coop.ts` checks everything first and rejects the entry. Any query may
fail (`Fails`), and the script may be killed and started again with the same file; `user` and `link` are what is left then. On the site, users sign up,
name themselves, join, leave and delete their accounts between any two queries; an id is never given again. `imported`, `cutShort` and
`meanwhile` are history: what the properties must except by name. The transformation has `parallel: 1`, so entries never overlap.
The statistics the scripts print are left out.

### OrganizationInfo

`establishment[s]` is what INSEE has of a siret: whether it is shown in full, in part or not at all, and whether it is active.
`getOrganizationInfo` answers of one that is not to be shown as if there were none, and of one shown in part without names. Joins are answered
about the organization they ask for; the refresh doubts that, logs an answer about another one as an error, and stores it all the same.
`row[s]` is the row of `organizations` with the id it was inserted with, in the order of which the refresh reads. A join
(`request[u]`) asks, upserts and links; `refresh` is `update-organizations-info.ts`, which reads the rows one at a time by their
*offset* in the order of ids; `domainJob` is `import-domains.ts`, with the condition of the code (see §3). Every
query and every call of INSEE is a step, calls may fail, and the scripts may be killed and started again. `missed` and
`wasActive` are history: for which sirets the refresh got nothing, and to whom INSEE could have said "active" since they turned to the siret.
A line of the file has one siret: lines with several are gone through in the same way.

### Accounts

`users[i]` is the address of the id `i`, or none. `links`, `moderations` and `connections` go with the row, by the cascades of
the schema; `sessions`, `selected`, `opAccount` and `conversations` do not. A request is a process whose step is one
query, one call of Crisp or of the mail service, or the answer; `inFlight[r].ours` says that it holds the session of its browser, which
express-session stores again when the request ends although it was destroyed or regenerated meanwhile. Some pages look for their row by the address of
the session, others by the id: `found` is what they got. Of the pages that only ask for a session, the two that give a second factor and the options
of passkeys, to register one or to use one, are there; the page that offers second factors finds its row by the id and changes nothing. A sign-in succeeds (`SignIn` says how it is earned), a join asks a moderator
(`Organizations` says when). `told` is history, and so is `late` of a request: it began after the row had gone.

### Migrations

A file is a record of two sequences of statements, `up` and `down`, and `Run` executes one: `Execute` says of each statement
whether the database accepts it and what it leaves. A file one of whose statements is refused is undone by its transaction, hence
no step; `Directory` is the sequence of files that node-pg-migrate finds. The schema is the set of tables and columns. Data are one row for each table (one organization, user, link, moderation
and client), but for the domains of an organization, which are counted by list or type and by spelling, and the connections of a user.
The application writes what it may between two files, at any version. `MaxCopies` and
`MaxWrites` bound how often a domain is repeated and how many writes there are that no other row needs. Types, indexes, keys, dates and the variant of
`1675350389872` for instances that do not check whether mails can be delivered are left out.

## 3. What is checked

`SignIn`, `Interaction`, `AccountRequests`, `Organizations`, `Imports`, `OrganizationInfo`, `Accounts` and `Migrations` carry no fairness:
their runs are safety checks.
`OidcAdapter` has weak fairness of `Tick` (time passes, and a key expires whoever looks) and of `Proceed(r)` (an
`await` of Redis returns or throws; `Dies` is not fair, so nothing relies on a failure). `JourneySpec` has weak fairness of
`Proceed(b)` for each browser: a browser follows a redirect at once, and a user answers the page that is shown or
the journey is not one the code can be blamed for. Nothing else is fair: neither the choices within a page, nor
the other tab, nor new requests, nor the client that redeems a code. Deadlock is checked in
`accounts` and `migrations`: a request can always be made, a file always applied or undone. It is not in the others: with bounded
requests, mails and clocks there is legally nothing left to do.

| run | bound | shows |
|---|---|---|
| `sign_in` | 2 users, 2 browsers, 1 passkey, all mails, all clocks; one user does everything in one browser, or the usual things in two, or two users do in one (`OneOfEach`) | pages settle while the copy is current; the second factor page always offers one; forced users are capable; issued sessions and cookies are earned by their own user; no factor is inherited, and they change only from a two-factor session; a copied sign-in time is never before the session's own |
| `interaction` | 2 users (one with a second factor), 1 browser, 2 organizations, 2 requests of three usual kinds, 1 for certification-dirigeant with 1 for no level, or 1 of eight (any level, one or several), 1 distraction | codes carry an earned account and level; consistency-checked rests on a finished check; the start asks for two factors exactly when the end needs them; which requests can be met; an interaction is answered with what its own client asked for; links refine `Membership`; a browser never goes round in circles, and a request nothing interferes with is answered |
| `account_requests` | 4 requests, 2 in flight, 1 passkey, 2 secrets; factors and challenge, or tokens | lockout and lost mails need a race of conflicting requests; no secret is accepted again; requests alone are atomic |
| `organizations` | 2 users (colleagues, or one with a free address), 6 organizations (small company, small association, large company, one that bypasses moderation, commune, school), 3 tables of domains, 3 requests, 2 in flight | domain links have a domain; suggestions need no moderator; one pending request; marking reaches everybody; links refine `Membership` |
| `imports` | 1 email, 2 organizations, 5 files (an email twice, entries refused early and late), 2 accounts, 2 starts | created accounts are named unless cut short; what users entered is kept; a success is one |
| `token_store` | 2 codes, 2 access tokens, 4 requests, 2 in flight, lifetimes 2 and 3 | what a revocation saw is gone; a code is redeemed once; everything expires |
| `organization_info` | 2 organizations, 1 user, 1 domain, a file with a line to refuse and one to import, 1 change at INSEE, 2 starts | the refresh goes by no row; nobody enters, and no domain is imported, on an answer from before they asked |
| `accounts` | 1 address, 2 accounts one after the other, 1 organization, 2 browsers, 2 requests in flight, 1 conversation | a deleted account is refused (but for one kind of answer), nothing new is kept of it, its sessions are nobody else's, its owner is told |
| `migrations` | 3 domains (in upper and lower case, and of a free provider), 2 copies of each, 2 writes | no upgrade is refused but for three reasons; none loses or invents a verified domain, a connection, the verification of a link, a ticket, or locks a user out |

One browser and two users are where cookies, copies and values of an interaction can get mixed; two browsers and
one user are where copies of a row can differ; two open requests are where the values of a session can belong to
another; two requests in flight are where a query can come between two of another, and the requests before and after
them make the state they meet (`MaxRequests`). A third of any kind adds no new pair, and the properties of `SignIn` speak of pairs at most; what is
proved (below) holds for any number. In `organization_info` two rows are what an offset can mistake for each other; in
`accounts` one address is what two accounts can have in common; in `migrations` a domain is in a list or not, twice,
in another case, or of a provider whose domains are removed, and nothing else of it is read.

Type invariants are proved, and not run again; that of `Imports` also says that an email is that of one user.

`MaxDistractions = 1` is one interference at any point of either request: an interference is what makes two pages
disagree, and each further one only starts another disagreement.

Three runs end in a violation, each a disagreement of the code with what the repository says:

- `sign_in_loop`: a sign-up, then a password reset link in the same browser: the row says verified, the session's
  copy does not, and `verify-email` and `personal-information` redirect to each other for ever.
- `interaction_quit`: after leaving the selected organization, codes are issued whose claims are refused.
- `interaction_certified`: `prompt=select_organization` with the level certification-dirigeant: each prompt's answer
  undoes the other's, and the two alternate for ever.

`RedirectsSettleWhenCurrent` and `AuthTimeNotBeforeSignIn` say what does hold of redirects and of `auth_time` (whose copy may be that of a later sign-in in another browser).

Two disagreements were met on the way and are described here without a run. `signupWithPassword` resets `email_verified` of an
account without password (`managers/user.ts:138`), while a session verified elsewhere stays issuable and `README.md:72` says
the claim is always true. And the level a client is told is computed when an interaction ends (`interaction.ts:94`), the
organization in the claims when the token is requested: after another organization is selected outside of a request,
a code issued silently says consistency-checked of a link that may be self-asserted (`README.md:167`).

Reading the scripts and the services showed more, also without a run:

- `import-domains.ts` says "if the domain is already register, whatever the status, we do not insert it", and its condition is the
  other way round: it inserts again the domains that are there, and skips those that are not as already known.
- `import-accounts-coop.ts` does not count the entries of organizations that fail in its total.
- `InseeConnectionError` and `InseeNotFoundError` are each defined twice (`packages/insee/src/errors/index.ts:3` and `:8`, `config/errors.ts:12`
  and `:14`): those that are thrown are not those `join.ts:131`, `controllers/organization.ts:142`, `controllers/api.ts:53` and `:65`, and
  `import-domains.ts:176` test for.
- `middlewares/user.ts:149` and `:177-179`, and `controllers/organization.ts:222-225`, go on after `next(...)`.
- A session that was destroyed while another request held it is stored again when that one ends (`Accounts` has it: `ours`).
- A registration of a passkey looks for the row by address (`managers/webauthn.ts:158-229`): one that begins before the deletion of
  an account and ends after its address was used again is added to the new account.
- The options to use a passkey as second factor (`controllers/webauthn.ts:147-168`, `managers/webauthn.ts:231-265`) are behind no link of the
  chain and not compared with the user of the session: to a session of a deleted account whose address another one has, they answer with
  the passkeys of that one, whose challenge they replace. `DeletedAreRefused` excepts these answers; `Accounts` has no challenges, and
  `NothingForTheDeleted` does not count those that are written to, or cleared in, the row of another account; the options of a
  registration (`:91-156`), a registration and a use of a passkey (`:158-229`, `:267-338`) do so too before they are refused.
- An interaction that is ended out of turn, when the session leads to another one or to none, is decided by what is left in the session.
  Of the values of the last one started, `certificationDirigeantRequested` is never dropped (`interaction.ts:149-152`, `:170-173`): start a plain
  interaction, start one for certification-dirigeant, end the second, end the first, and the first has the level of the second
  (`interaction.ts:104`). `Interaction` allows this; `AnswersAreTheirOwn` speaks of interactions the session leads back to.

And reading the migrations, of which `Migrations` has all:

- `down` of `1618924395936` names the wrong table and always fails; so does that of `1724327131305` when a ticket is not a number, and that
  of `1656936947798` when a user has no password.
- `down` of `1685102115392` leaves `has_been_greeted`, so that its `up` then fails; `1623764013744` fails when `moderations` has
  rows; `1721406015258` fails when duplicates were inserted after `1721404910819` removed them. These are the exceptions of `UpgradesRun`.
- `down` of `1721662773865` restores how a link was verified only if the domain has exactly one row in the organization, and `down` of `1721397424071` forgets
  which domains were those of official contacts; both are why the properties speak of upgrades alone.

What a race does here, as `account_requests`, `organizations` and `token_store` show by the exceptions their properties have to make:
enforcing while the last factor is removed locks the account out (`2fa.ts:45`); two answers to one challenge, or two
followings of one magic link, are both accepted when they overlap; a reset mail sent while another is used is dead on arrival; two joins of
one user leave two pending moderations; a member who joins while the domain is marked stays self-asserted; a token
stored between the two commands of a revocation survives it; `consume` on a key that has just expired leaves one without
payload and without expiry.

Operators whose comment begins with *Mistake* are plausible bugs of the definition that follows; each is put
in its place to see that the property notices, and no action uses them.

## 4. What is proved

`SignInProofs` proves, for every set of users, browsers, passkeys, mails and clocks, and for either value of the
feature flag, from the assumptions named in `SignIn`:

- `TypeCorrect`: `TypeOK` is inductive.
- `CookiesEarned`: the invariant is `CookiesAreEarned` itself, because the cookie is only set together with a proof
  of possession. It needs `TRUSTED_AMR_VALUES` to hold only methods of possession.
- `TrustEarned`: an issuable session has a trusted browser, hence follows from `CookiesEarned` without induction.
- `PasskeysCompleteSessions`, then `SecondFactorPageHasAFactor`: the strengthening is `PasskeysComplete`: a session
  with `pop` has two factors, as a passkey is always added with `uv`. So the page that hides passkeys is never shown to one.
- `NoFactorIsInherited`: an action property, from types and the shape of `CreateAuthenticatedSession`.
- `NobodyIsLockedOut`: `ForcedUserIsCapable` needs that users without a row have no factors (`RowFactors`).
- `AuthTimes` and `FactorsAreProtected`, by `RowInv`: the user of a session has a row, one without a row has neither factors
  nor tokens (`RowsOfSessions`), and neither a session's copy of the sign-in time nor its row is behind the sign-in of the
  session (`TimesOfSessions`).
- `RedirectsComeToAPage`: from any page of the sign-in, two hops reach one that is shown, if the session's copy is current; the
  proof uses that forced users are capable (`NobodyIsLockedOut`). The first hop reads `force_2fa` again and leads to one of the six pages
  (`HopsAreToPages`); from there, the first obstacle that is not met (`HopByCases`) names a page that has only met ones in front of it
  (`OneHop`). Where the copy is behind, `sign_in_loop` shows that there is no such number of hops.

`AccountRequestsProofs` proves the four properties of its run and its types, for every set of requests, passkeys and secrets and
every bound, with five invariants, each inductive relative to the ones before it:

- `TypeCorrect` by `TypeInv`: besides types, each query is only reached by the operations that make it (`Placed`).
- `NoLockoutWithoutContention` by `LockoutInv`: as long as nothing was contended, no two requests in flight conflict, a
  request about to write `force_2fa` has an account that is capable, and an account that is forced without a factor has a
  request in flight that is about to look and to relax it. Only the last one ends quiet, hence the theorem.
- `SecretsOnce` by `SecretInv`: what stands in a column, or was found there by a request in flight, was generated
  and is accepted only by requests that began before it was cleared; a secret leaves its column with the first acceptance, and a column only ever
  gets a fresh one.
- `LastMailIsGood` by `MailInv`: while nothing was contended, the sender of a kind is alone with it, what it is about to
  mail is what is stored, and so is what was delivered and not accepted.
- `RequestsAreAtomic`: `Spec => ImplementsAtomicAccount`. `AloneInv` says of the only request in flight, position by
  position, how far `account` has moved from `before` (`Progress`); then every query is a stutter of `AtomicAccount` but the one
  that ends the request, which is one of its actions or changes nothing.

`OrganizationsProofs` proves the five properties of its run and its types, for every set of users, addresses, organizations, tables and
requests and every bound:

- `TypeCorrect` by `TypeInv`: types, and each query is only reached by the operations that make it (`Placed`).
- `DomainLinks` and `Suggestions` by `RestInv`. Of a link, stored or decided, `Rests` says that a domain stands behind
  it if its type is `domain`; what a request has read of `email_domains` is still there, since rows are only added; a
  request that upgrades members has the row it marks; and a request that was suggested has read a domain that decides for it.
- `PendingRequests` by `PendingInv`: as long as no two joins of a user overlapped, one that has looked for a pending
  moderation and found none is the only one to create one.
- `MarkingReaches` by `DoneInv`: while nothing overlapped, a request that upgrades is alone, and the members it has not
  upgraded are those it still has to.
- `Refinement`: `Spec => ImplementsMembership`; every query moves the links of at most one user, and only along
  `Membership`'s steps, or, for the update of the type, from asserted to verified.

`InteractionProofs` proves every safety property of `interaction`, for every set of users, browsers,
organizations, requests and links, and for either value of the feature flag. The invariant has five parts:

- `TypeOK`;
- `SessionsEarned`: the user of a session is in `earned`, with two factors if the session has them. Without it a sign-in in
  another tab could leave a level nobody showed;
- `LoginsEarned`: so is what `oidc-provider` holds at each stop on the way of a level, which nobody checks again: the
  answer of an interaction, the session of the provider, the code. `LevelsAreEarned` is its last stop;
- `PromptsMade`: the prompt of an interaction was made of its request, so that it
  names values only for the reasons it gives.
  `RequestsCanBeMet` needs it; `TwoFactorsNecessary` holds of any prompt whatever (`TwoFactorsNecessaryForPrompt`);
- `SessionsLeadBack`: a session that names an interaction has its values until it is resumed, whether it is still to be answered
  or was answered and then started again.

`AnswersTheirOwn` is an action property: by `SessionsLeadBack` the values that decide the answer are those of the interaction's own prompt
(`AnswerIsItsOwn`), and no other request answers one (`OnlyEndsAnswer`).

`ConsistencyChecked` is an action property: from the invariant, by what it means to pass the fifth link of the chain.

`Refinement` is `Spec => ImplementsMembership`, the same abstract specification that the queries of `Organizations` implement: where a user is
with an organization is read off the row of the link (`StandingOf`). The chain of requirements greets in a link but never moves it (`ChainKeepsStandings`), whatever
request runs it; every other request moves the link of one user and one organization (`LinkMoves`), who comes in, leaves or has it confirmed
(`Moves`), and each of these is a step of `Membership` (`StandingMoves`), since a link to be confirmed is one that counts as checked (`LinksCheckable`).

The same module carries this over to `JourneySpec`, for any number of interferences: every answer to a
page is a step of `Interaction`, or saves the selection alone (`NothingToConfirmInv`), and leads to a page the code serves,
of an interaction or an organization where the page needs one (`PagesTyped`, which `JourneysKeepToPages` needs). Since the pages of
`InteractionJourney` never restrict what `Interaction` does but only order it, `JourneysAreInteractions` proves `JourneySpec => Spec`, and
`LevelsAreEarnedOnJourneys`, `RequestsAreMetOnJourneys` and `PlacesOnJourneys`, with `AnswersTheirOwnOnJourneys`, all that the run checks of journeys
but its liveness.

`OidcAdapterProofs` proves the three safety properties of `token_store`, for every set of codes, tokens and requests in flight
and any lifetimes, from an invariant of five parts:

- `TypeInv`: types, and which request holds a code and which a token that was issued;
- `Fresh`: a token is stored by one request, before it is ever found, redeemed or revoked;
- `Lists`, for `RevocationReaches`: a token that is not excepted is on the list and the list lives at least as long; what
  an upsert has read of the list still holds, unless its token is excepted; what a revocation has read names every such
  token. It is this part that showed which tokens must be excepted: all whose upsert overlaps with anything that moves the
  list, not only those that overlap at the end, which four requests of an instance do not tell apart;
- `Once`, for `RedeemedOnce`: redemptions of a code that never overlapped are one, and a code that was accepted is consumed;
- `Counted`: acceptances and redemptions in flight are no more than requests received (`TypeOK` bounds them).

`OrganizationInfoProofs` proves both properties of `organization_info`, for every set of organizations, users and domains, any files and any
number of changes and starts:

- `OnlyActive` by `Placed`: what a join or `import-domains` holds of INSEE, it was told since it turned to the siret.
- `AllFetched` by `GoneBy`: a row before the offset has information or was missed. Rows are never deleted, and one that is inserted
  meanwhile, whatever its id (ids are given before they are seen), comes with its information and only moves others back. By the lemmas about the
  cardinality of `Before`, the script then reads a row again, but passes over none.

`AccountsProofs` proves the four properties of `accounts`, for any addresses, organizations, browsers, requests and bounds. The invariant says
that rows were created and go with their moderations, that the owner of a row that is gone, or about to go, was told; where each
request may be, that a late one has not got far (`TooLate`: at most to what refuses it, or to the passkeys of another account), and that all requests that hold the
session of a browser are of one user, who is that of the session unless it was destroyed (`OursAgree`).
`SessionsTheirOwn` is the one that needs the last part: a session that is stored again is that of the user it was.

`ScriptsProofs` proves the three properties of `imports` and its types, for any emails, sirets, files, ids and number of starts. `Invariance` is the induction: besides
types, where the script is in the file and whom it has with it (`JobPlaced`), that ids are given in order, and that the user it is about to name
or to link is there without names of its own, unless history says what the user did in the meantime (`UserPlaced`). This makes
`ImportedUsersAreNamed` inductive; `EnteredIsKept` and `SuccessImported` are action properties that follow from it.

It also proves the three properties of `migrations`, for any domains, spellings, free providers and bounds, whatever is written, applied
and undone and in whatever order. The invariant is `Built` (`EverBuilt`): after `n` files,

- the columns of every table are those of `ColumnsAt` (`Schema`), a table that tells them file by file, but for `has_been_greeted`, which
  may be there or not (`Keepable`) because the `down` of `1685102115392` leaves it;
- the rows are such as the next files need them (`Firm`): values are in their domains, what was given a default is never null (`NeverNull`),
  no table has rows before it is there (`Populated`), a moderation has a type, its ticket is a number until `1724327131305` (`Numbers`),
  who is forced to have a second factor has one (`Factors`), a user and a client have one row of connections, that counts them, until
  `1680524813673` (`Counts`), and what is not a list or a type (yet, or any more) has no domains (`NoneElsewhere`).

Each kind of statement has a lemma that says what it accepts and leaves. A file is *quiet* when nothing it does is seen by a property
(`Quietly`); for these the columns are all that there is to prove. For the others, the lemma of the file follows the database from statement to
statement. `EveryUp` and `EveryDown` put the 68 lemmas together: a file that starts on a database of its predecessor ends on one of its own
number, and back, and on the way up no statement is refused and the domains and the accounts are kept, but in the three cases of
`UpgradesRun` (`Hindered`); `Refused` says that in these the file never runs, so that `UpgradesRunExactly` has no case too
many. The actions of the application keep `Built` by a lemma each.

Only model-checked:

- liveness under fairness, out of the prover's reach: `JourneysEnd` and `RequestsAreAnswered` of `InteractionJourney`, `EverythingExpires`
  of `OidcAdapter`;
- that the three exceptions of `UpgradesRun` do occur: without any one of them, `migrations` fails.

Every other invariant and action property of a passing run is proved. Where a property of a violation run is false, nothing is proved of it.

## 5. Plan

What is there was written in the order of its weight: signing in, interactions and their journey, then the requests at their
awaits (account, organization, storage), then the scripts, the deletion of accounts and the schema. What is left, in that order:

1. Composition: what a join decides in `Organizations`, given to `Interaction` in place of its open `JoinedLinks`.
2. The keys by uid of sessions in `OidcAdapter`.
3. The directories of contacts (`connectors/api-annuaire-*.ts`), which of their answers a join takes for an official contact.
4. The scripts in the browser (passkeys, the answers of a slow page sent twice) and the rate limiter.

## 6. Not modelled

Rendering, mails as text, assets, the inside of the connectors to external services, the rate limiter and CSRF
tokens (they restrict who may make a request, the models let every browser make any), the helpers of the scripts, logging.
PROJECT.json lists every component with its status.

The share of the implementation that definitions stand for, 30 %, is small because much of the repository holds no
behaviour a model could have: the word list of passwords, the tables of activity and legal codes of INSEE, mail templates
and their stories, and the client of the sirene API are most of its lines.
