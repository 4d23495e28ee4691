----------------------------- MODULE AtomicAccount -----------------------------
(***************************************************************************)
(* What the requests that change the second factors and the one-time       *)
(* secrets of an account promise when they do not get in each other's way: *)
(* each takes effect at once, as in SignIn, or is refused.  Of requests    *)
(* that overlap or die half-way nothing is promised any more.              *)
(***************************************************************************)
EXTENDS Integers

CONSTANTS Passkeys, Kinds, Secrets, None

VARIABLES
  row,          \* the account as the next request will find it
  disturbed     \* requests have overlapped, or one has died

Absent == -1

Capable(a) == a.totp \/ \E k \in Passkeys : a.keys[k] # Absent

Forced(a) == [a EXCEPT !.force = TRUE]
Relaxed(a) == [a EXCEPT !.force = a.force /\ Capable(a)]
Without(a, kind) == [a EXCEPT !.secret[kind] = None]

Enable == Capable(row) /\ row' = Forced(row)
Disable == row' = [row EXCEPT !.force = FALSE]
ConfirmTotp == row' = Forced([row EXCEPT !.totp = TRUE])
DeleteTotp == row' = Relaxed([row EXCEPT !.totp = FALSE])
DeleteKey(k) == row.keys[k] # Absent /\ row' = Relaxed([row EXCEPT !.keys[k] = Absent])
Issue(kind, s) == row' = [row EXCEPT !.secret[kind] = s]
RegisterKey(k) ==
  /\ row.secret["challenge"] # None
  /\ row.keys[k] = Absent
  /\ row' = Forced([Without(row, "challenge") EXCEPT !.keys[k] = 0])
UseKey(k) ==
  /\ row.secret["challenge"] # None
  /\ row.keys[k] # Absent
  /\ row' = [Without(row, "challenge") EXCEPT !.keys[k] = row.keys[k] + 1]
\* A wrong answer spends the challenge as well.
SpendChallenge == row' = Without(row, "challenge")
UseToken(kind) == row.secret[kind] # None /\ row' = Without(row, kind)

Effect ==
  \/ Enable \/ Disable \/ ConfirmTotp \/ DeleteTotp \/ SpendChallenge
  \/ \E k \in Passkeys : DeleteKey(k) \/ RegisterKey(k) \/ UseKey(k)
  \/ \E kind \in Kinds :
       \/ UseToken(kind)
       \/ \E s \in Secrets : Issue(kind, s)

Init == ~disturbed /\ (row.force => Capable(row))

Next == \/ ~disturbed /\ Effect /\ UNCHANGED disturbed
        \/ disturbed'

Spec == Init /\ [][Next]_<<row, disturbed>>
=============================================================================
