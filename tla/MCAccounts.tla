---------------------------- MODULE MCAccounts ----------------------------
EXTENDS AccountsProperties, TLC

CONSTANTS b1, b2, r1, r2

Symmetry == Permutations(Browsers) \cup Permutations(Requests)

\* Clients are answered, or organizations are joined: the two meet in nothing but the row of
\* the user.
OneAffair ==
    \/ conversations = <<>>
    \/ connections = {} /\ \A b \in Browsers : opAccount[b] = 0
SpecOfEach == Init /\ [][Next /\ OneAffair']_vars
=============================================================================
