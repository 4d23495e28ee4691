-------------------------------- MODULE MCSignIn --------------------------------
(* Instances of SignIn for TLC. *)
EXTENDS SignInProperties, TLC

Symmetry == Permutations(Users) \cup Permutations(Browsers) \cup Permutations(Passkeys)

NoAccount == [NewAccount EXCEPT !.exists = FALSE]

\* An account that uses ProConnect every day.
Settled ==
  [NewAccount EXCEPT !.password = TRUE, !.verified = TRUE,
                     !.verifiedRecently = TRUE, !.info = TRUE]

StrangersOrSettled == {NoAccount, Settled}
Strangers == {NoAccount}

\* Nobody but u ever comes.
Only(u) ==
  /\ \A v \in Users \ {u} : account[v] = NoAccount
  /\ \A b \in Browsers : session[b].email \in {u, None}

OneBrowser ==
  \E b \in Browsers : \A c \in Browsers \ {b} :
    session[c] = EmptySession /\ \A u \in Users : <<c, u>> \notin possession

\* Settled users, with an authenticator app or codes by mail, and nothing expires.
Settling ==
  /\ \A u \in Users : account[u] # NoAccount =>
       /\ account[u].password /\ account[u].verifiedRecently /\ account[u].info
       /\ account[u].passkeys = {} /\ account[u].tokens \subseteq {"verify"}
  /\ \A b \in Browsers :
       /\ session[b].user # None => ownSignIn[b] # "old"
       /\ "pop" \notin session[b].amr

\* One user does all there is to do in one browser; or does the usual things in
\* several; or several users do in one.
OneOfEach ==
  \/ OneBrowser /\ \E u \in Users : Only(u)
  \/ Settling /\ \E u \in Users : Only(u)
  \/ Settling /\ OneBrowser /\ \A u \in Users : account[u] # NoAccount

SpecOfEach == Init /\ [][Next /\ OneOfEach']_vars
=============================================================================
