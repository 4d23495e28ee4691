---------------------------- MODULE AccountsProofs ----------------------------
(***************************************************************************)
(* Proofs about Accounts, for any addresses, organizations, browsers,      *)
(* requests and bounds.                                                    *)
(***************************************************************************)
EXTENDS AccountsProperties, TLAPS

\* Ids are given in order, and the rows they had are gone with everything that refers to them.
RowsAreCreated == \A u \in Ids : users[u] # NoEmail => u <= created
ModerationsHaveUsers == \A m \in moderations : users[m.user] # NoEmail
DeletionsAreTold ==
    /\ Gone \subseteq told
    /\ \A r \in Requests : At(r, "remove") => inFlight[r].user.id \in told

\* Where a request may be, and what it knows there, when n conversations have been opened.
WellPlaced(q, n) ==
    /\ q.at \notin Ended => q.user \in Users
    /\ q.at = "check" => q.kind \in Chained
    /\ q.kind \in {"select", "join"} => q.organization \in Organizations
    /\ q.at \in {"membership", "store"} => q.kind = "select"
    /\ q.at \in {"read", "open", "describe", "ask", "resolve", "record"} => q.kind = "join"
    /\ q.at \in {"describe", "ask", "resolve", "record"} => q.about \in 1..n
    /\ q.at \in {"confirm", "challenge"} => q.found \in Users
    /\ q.at = "challenge" => q.kind = "options"
    /\ q.at = "session" <=> q.kind = "sign-in"
    /\ IF q.kind = "processed" THEN ~ q.ours /\ q.at = "mail" ELSE q.browser \in Browsers
    /\ q.kind = "factors" => q.at \in {"check", "change", "tell"}
    /\ q.kind = "passkeys" => q.at \in {"check", "look up", "confirm", "tell"}

\* A request that began too late has not got far.
TooLate(q, gone) ==
    /\ q.user.id \in gone
    /\ q.at \in {"check", "look up", "confirm", "challenge", "issue", "mail"}
    /\ q.at \in {"confirm", "challenge"} => q.found.id # q.user.id

Placed(q, n, gone) == WellPlaced(q, n) /\ (q.late => TooLate(q, gone))
RequestsPlaced ==
    \A r \in Requests : ~ Free(r) => Placed(inFlight[r], Len(conversations), Gone)

\* The requests that hold the session of a browser are of the user it has, or had.
Holds(r) == ~ Free(r) /\ inFlight[r].ours /\ inFlight[r].kind # "sign-in"
OursAgree ==
    /\ \A r \in Requests :
          Holds(r) => sessions[inFlight[r].browser].id \in {0, inFlight[r].user.id}
    /\ \A r, s \in Requests :
          Holds(r) /\ Holds(s) /\ inFlight[r].browser = inFlight[s].browser =>
              inFlight[r].user.id = inFlight[s].user.id

Inv ==
    /\ TypeOK
    /\ RowsAreCreated /\ ModerationsHaveUsers /\ DeletionsAreTold
    /\ RequestsPlaced
    /\ OursAgree

-----------------------------------------------------------------------------
(* What every step of a request has in common.                             *)

\* All that is typed but sessions and requests.
RestTyped ==
    /\ links \subseteq [user : Ids, organization : Organizations]
    /\ moderations \subseteq
          [user : Ids, organization : Organizations, ticket : 1..MaxConversations]
    /\ connections \subseteq Ids
    /\ selected \in [Ids -> Organizations \cup {NoOrganization}]
    /\ opAccount \in [Browsers -> 0..MaxUsers]
    /\ conversations \in Seq([user : Ids, told : SUBSET {"describe", "ask", "resolve"}])
    /\ Len(conversations) <= MaxConversations
    /\ told \subseteq Ids

\* A request goes on, for whom it was and with the session it had; or one begins with the
\* session of its browser.
GoesOn(r, q) ==
    /\ ~ Free(r)
    /\ q.kind = inFlight[r].kind /\ q.user = inFlight[r].user
    /\ q.browser = inFlight[r].browser /\ q.ours = inFlight[r].ours
Begins(q) ==
    q.ours /\ q.kind # "sign-in" => sessions[q.browser] = q.user /\ q.user # NoUser

\* What request r may leave of the sessions.
SessionsBy(r) ==
    /\ sessions' \in [Browsers -> Users \cup {NoUser}]
    /\ \A b \in Browsers :
          \/ sessions'[b] = sessions[b]
          \/ Holds(r) /\ b = inFlight[r].browser /\ sessions'[b].id \in {0, inFlight[r].user.id}

LEMMA Here ==
  ASSUME Inv, NEW r \in Requests
  PROVE  inFlight[r] \in RequestStates /\ (~ Free(r) => Placed(inFlight[r], Len(conversations), Gone))
BY DEF Inv, TypeOK, RequestsPlaced

LEMMA Becoming ==
  ASSUME Inv, NEW r \in Requests, NEW q, Becomes(r, q)
  PROVE  inFlight'[r] = q /\ \A s \in Requests \ {r} : inFlight'[s] = inFlight[s]
BY DEF Inv, TypeOK, Becomes

LEMMA GoneSame ==
  ASSUME UNCHANGED <<users, created>>
  PROVE  Gone' = Gone
BY DEF Gone

LEMMA Agreement ==
  ASSUME Inv, NEW r \in Requests, NEW q \in RequestStates, Becomes(r, q), SessionsBy(r),
         \/ q.at \in Ended \/ GoesOn(r, q)
         \/ Begins(q) /\ (q.ours => q.browser \in Browsers) /\ ~ Holds(r)
  PROVE  OursAgree'
<1>1. inFlight'[r] = q /\ \A s \in Requests \ {r} : inFlight'[s] = inFlight[s]
  BY Becoming
<1>2. \A s \in Requests : Holds(s) => inFlight[s].browser \in Browsers
  BY Here DEF Holds, Placed, WellPlaced, Free
<1>3. \A s \in Requests \ {r} : Holds(s)' = Holds(s)
  BY <1>1 DEF Holds, Free, At
<1>4. Holds(r)' =>
         \/ Holds(r) /\ GoesOn(r, q)
         \/ /\ Begins(q) /\ q.ours /\ q.kind # "sign-in" /\ q.browser \in Browsers
            /\ ~ Holds(r)
  BY <1>1 DEF Holds, Free, At, GoesOn
<1>5. OursAgree
  BY DEF Inv
<1>6. \A s, t \in Requests : Holds(s)' /\ Holds(t)' /\ inFlight'[s].browser = inFlight'[t].browser =>
              inFlight'[s].user.id = inFlight'[t].user.id
  <2> SUFFICES ASSUME NEW s \in Requests, NEW t \in Requests, Holds(s)', Holds(t)',
                      inFlight'[s].browser = inFlight'[t].browser
               PROVE  inFlight'[s].user.id = inFlight'[t].user.id
    OBVIOUS
  <2>1. ASSUME NEW x \in Requests, x # r, Holds(x), Begins(q), q.ours, q.kind # "sign-in",
               q.browser \in Browsers,
               inFlight[x].browser = q.browser
        PROVE  inFlight[x].user.id = q.user.id
    <3>1. sessions[q.browser].id \in {0, inFlight[x].user.id}
      BY <1>5, <2>1 DEF OursAgree
    <3>2. q.user \in Users /\ q.user = sessions[q.browser]
      BY <2>1 DEF RequestStates, Begins
    <3> QED BY <3>1, <3>2 DEF Users, Ids
  <2>2. CASE s = r /\ t = r
    BY <2>2
  <2>3. CASE s # r /\ t # r
    BY <2>3, <1>1, <1>3, <1>5 DEF OursAgree
  <2>4. CASE s = r /\ t # r
    BY <2>4, <2>1, <1>1, <1>3, <1>4, <1>5 DEF OursAgree, GoesOn
  <2>5. CASE s # r /\ t = r
    BY <2>5, <2>1, <1>1, <1>3, <1>4, <1>5 DEF OursAgree, GoesOn
  <2> QED BY <2>2, <2>3, <2>4, <2>5
<1>7. \A s \in Requests : Holds(s)' => sessions'[inFlight'[s].browser].id \in {0, inFlight'[s].user.id}
  <2> SUFFICES ASSUME NEW s \in Requests, Holds(s)'
               PROVE  sessions'[inFlight'[s].browser].id \in {0, inFlight'[s].user.id}
    OBVIOUS
  <2> DEFINE b == inFlight'[s].browser
  <2>1. b \in Browsers
    BY <1>1, <1>2, <1>3, <1>4 DEF GoesOn
  <2>2. sessions[b].id \in {0, inFlight'[s].user.id}
    <3>1. CASE s = r
      BY <3>1, <1>1, <1>4, <1>5 DEF OursAgree, GoesOn, Begins
    <3>2. CASE s # r
      BY <3>2, <1>1, <1>3, <1>5 DEF OursAgree
    <3> QED BY <3>1, <3>2
  <2>3. CASE sessions'[b] = sessions[b]
    BY <2>2, <2>3
  <2>4. CASE sessions'[b] # sessions[b]
    <3>1. Holds(r) /\ b = inFlight[r].browser /\ sessions'[b].id \in {0, inFlight[r].user.id}
      BY <2>1, <2>4 DEF SessionsBy
    <3>2. inFlight[r].user.id = inFlight'[s].user.id
      BY <3>1, <1>1, <1>3, <1>4, <1>5 DEF OursAgree, GoesOn
    <3> QED BY <3>1, <3>2
  <2> QED BY <2>3, <2>4
<1> QED BY <1>6, <1>7 DEF OursAgree

LEMMA Placing ==
  ASSUME Inv, NEW r \in Requests, NEW q \in RequestStates, Becomes(r, q), Gone \subseteq Gone',
         Len(conversations) \in Nat, Len(conversations') \in Nat,
         Len(conversations) <= Len(conversations'),
         q.at \in Ended \/ Placed(q, Len(conversations'), Gone')
  PROVE  RequestsPlaced' /\ inFlight' \in [Requests -> RequestStates]
<1>1. inFlight'[r] = q /\ \A s \in Requests \ {r} : inFlight'[s] = inFlight[s]
  BY Becoming
<1>2. inFlight' \in [Requests -> RequestStates]
  BY DEF Inv, TypeOK, Becomes
<1>3. ~ Free(r)' => Placed(inFlight'[r], Len(conversations'), Gone')
  BY <1>1 DEF Free
<1>4. ASSUME NEW s \in Requests \ {r}, ~ Free(s)'
      PROVE  Placed(inFlight'[s], Len(conversations'), Gone')
  <2>1. inFlight'[s] = inFlight[s] /\ ~ Free(s)
    BY <1>1, <1>4 DEF Free
  <2>2. Placed(inFlight[s], Len(conversations), Gone)
    BY <2>1, Here
  <2>3. WellPlaced(inFlight[s], Len(conversations'))
    <3>1. inFlight[s].about \in Nat
      BY Here, BoundsAssumption DEF RequestStates
    <3>2. \A n \in Nat : n \in 1..Len(conversations) => n \in 1..Len(conversations')
      OBVIOUS
    <3> QED BY <2>2, <3>1, <3>2 DEF Placed, WellPlaced
  <2>4. inFlight[s].late => TooLate(inFlight[s], Gone')
    BY <2>2 DEF Placed, TooLate
  <2> QED BY <2>1, <2>3, <2>4 DEF Placed
<1> QED BY <1>2, <1>3, <1>4 DEF RequestsPlaced

LEMMA StepKeeps ==
  ASSUME Inv, NEW r \in Requests, NEW q \in RequestStates, Becomes(r, q),
         UNCHANGED <<users, created>>, RestTyped', told \subseteq told', ModerationsHaveUsers',
         Len(conversations) <= Len(conversations'), SessionsBy(r),
         \/ q.at \in Ended
         \/ /\ Placed(q, Len(conversations'), Gone') /\ (q.at = "remove" => q.user.id \in told')
            /\ GoesOn(r, q) \/ (Begins(q) /\ ~ Holds(r))
  PROVE  Inv'
<1>1. Gone' = Gone
  BY GoneSame
<1>2. Len(conversations) \in Nat /\ Len(conversations') \in Nat
  BY DEF Inv, TypeOK, RestTyped
<1>3. RequestsPlaced' /\ inFlight' \in [Requests -> RequestStates]
  BY <1>1, <1>2, Placing
<1>4. TypeOK'
  BY <1>3 DEF Inv, TypeOK, RestTyped, SessionsBy
<1>5. RowsAreCreated'
  BY DEF Inv, RowsAreCreated
<1>6. DeletionsAreTold'
  <2>1. inFlight'[r] = q /\ \A s \in Requests \ {r} : inFlight'[s] = inFlight[s]
    BY Becoming
  <2> QED BY <1>1, <2>1 DEF Inv, DeletionsAreTold, At, Ended
<1>7. OursAgree'
  <2>1. ~ (q.at \in Ended) => (q.ours => q.browser \in Browsers)
    BY DEF Placed, WellPlaced
  <2> QED BY <2>1, Agreement
<1> QED BY <1>3, <1>4, <1>5, <1>6, <1>7 DEF Inv
-----------------------------------------------------------------------------
(* The actions, one by one.                                                *)

\* What most steps leave alone.
Quiet ==
  UNCHANGED <<tables, created, conversations, told, selected, opAccount>>

LEMMA QuietFacts ==
  ASSUME Inv, Quiet
  PROVE  /\ RestTyped' /\ told \subseteq told' /\ ModerationsHaveUsers'
         /\ UNCHANGED <<users, created>> /\ Gone' = Gone
         /\ Len(conversations) <= Len(conversations')
<1>1. UNCHANGED <<users, created>>
  BY DEF Quiet, tables
<1>2. Gone' = Gone
  BY <1>1, GoneSame
<1>3. Len(conversations) \in Nat
  BY DEF Inv, TypeOK
<1> QED BY <1>1, <1>2, <1>3 DEF Inv, TypeOK, Quiet, tables, RestTyped, ModerationsHaveUsers

LEMMA SessionsSame ==
  ASSUME Inv, NEW r \in Requests, UNCHANGED sessions
  PROVE  SessionsBy(r)
BY DEF Inv, TypeOK, SessionsBy

LEMMA SessionsStored ==
  ASSUME Inv, NEW r \in Requests, ~ Free(r), inFlight[r].kind # "sign-in",
         NEW user \in Users \cup {NoUser}, user.id \in {0, inFlight[r].user.id}, Stored(r, user)
  PROVE  SessionsBy(r)
<1>1. inFlight[r].ours => Holds(r)
  BY DEF Holds
<1> QED BY <1>1 DEF Inv, TypeOK, SessionsBy, Stored

LEMMA IdleTyped == Idle \in RequestStates
<1>1. NoUser \in Users \cup {NoUser} /\ 0 \in 0..MaxConversations
  BY BoundsAssumption
<1>2. "none" \in Kinds /\ "done" \in Steps \cup Ended
  BY DEF Kinds, Ended
<1> QED BY <1>1, <1>2 DEF Idle, RequestStates

LEMMA ReceivedTyped ==
  ASSUME NEW k \in Kinds, NEW b \in Browsers \cup {NoBrowser}, NEW user \in Users \cup {NoUser},
         NEW step \in Steps
  PROVE  Received(k, b, user, step) \in RequestStates
<1>1. NoUser \in Users \cup {NoUser} /\ 0 \in 0..MaxConversations
  BY BoundsAssumption
<1>2. (user.id \in Gone) \in BOOLEAN
  OBVIOUS
<1> QED BY <1>1, <1>2 DEF Received, RequestStates

LEMMA AnswerTyped ==
  ASSUME NEW answer \in Ended, NEW sent \in BOOLEAN
  PROVE  LET q == [Idle EXCEPT !.at = answer, !.mailed = sent] IN
         q \in RequestStates /\ q.at \in Ended
BY IdleTyped DEF RequestStates

LEMMA AnswerEnds ==
  ASSUME NEW answer \in Ended
  PROVE  LET q == [Idle EXCEPT !.at = answer] IN q \in RequestStates /\ q.at \in Ended
BY IdleTyped DEF RequestStates

LEMMA ReceiveKeeps ==
  ASSUME Inv, NEW r \in Requests, NEW b \in Browsers,
         NEW k \in {"second factor", "options"} \cup (Chained \ {"select", "join", "cancel"}), Receive(r, b, k)
  PROVE  Inv'
<1> DEFINE q == Received(k, b, sessions[b], IF k \in Chained THEN "check" ELSE "look up")
<1>1. Free(r) /\ Becomes(r, q) /\ Quiet /\ UNCHANGED sessions
  BY DEF Receive, keys, Quiet
<1>2. q \in RequestStates /\ q.at \notin Ended
  <2>1. Received(k, b, sessions[b], IF k \in Chained THEN "check" ELSE "look up") \in RequestStates
    BY <1>1, ReceivedTyped, BoundsAssumption DEF Receive, Inv, TypeOK, Kinds, Chained,
       FirstStep, Steps, Users, NoUser, Ids
  <2> QED BY <2>1, <1>1 DEF Receive, RequestStates, Received, Ended
<1>3. WellPlaced(q, Len(conversations'))
  BY NamesAssumption, BoundsAssumption, <1>1 DEF Receive, Received, WellPlaced, Chained,
     FirstStep, ChangesFactors, Ended, Inv, TypeOK, Users, NoUser, Ids
<1>4. q.late => TooLate(q, Gone')
  BY <1>1, QuietFacts DEF Received, TooLate
<1>5. Begins(q) /\ ~ Holds(r) /\ q.at # "remove"
  BY <1>1 DEF Receive, Received, Begins, Holds
<1> HIDE DEF q
<1> QED BY <1>1, <1>2, <1>3, <1>4, <1>5, QuietFacts, SessionsSame, StepKeeps DEF Placed

LEMMA ReceiveAboutKeeps ==
  ASSUME Inv, NEW r \in Requests, NEW b \in Browsers,
         NEW k \in {"select", "join"}, NEW o \in Organizations, ReceiveAbout(r, b, k, o)
  PROVE  Inv'
<1> DEFINE q == [Received(k, b, sessions[b], "check") EXCEPT !.organization = o]
<1>1. Free(r) /\ Becomes(r, q) /\ Quiet /\ UNCHANGED sessions
  BY DEF ReceiveAbout, keys, Quiet
<1>2. q \in RequestStates /\ q.at \notin Ended
  <2>1. Received(k, b, sessions[b], "check") \in RequestStates
    BY <1>1, ReceivedTyped, BoundsAssumption DEF ReceiveAbout, Inv, TypeOK, Kinds, Chained,
       FirstStep, Steps, Users, NoUser, Ids
  <2> QED BY <2>1, <1>1 DEF ReceiveAbout, RequestStates, Received, Ended
<1>3. WellPlaced(q, Len(conversations'))
  BY NamesAssumption, BoundsAssumption, <1>1 DEF ReceiveAbout, Received, WellPlaced, Chained,
     FirstStep, ChangesFactors, Ended, Inv, TypeOK, Users, NoUser, Ids
<1>4. q.late => TooLate(q, Gone')
  BY <1>1, QuietFacts DEF Received, TooLate
<1>5. Begins(q) /\ ~ Holds(r) /\ q.at # "remove"
  BY <1>1 DEF ReceiveAbout, Received, Begins, Holds
<1> HIDE DEF q
<1> QED BY <1>1, <1>2, <1>3, <1>4, <1>5, QuietFacts, SessionsSame, StepKeeps DEF Placed

LEMMA ReceiveCancelKeeps ==
  ASSUME Inv, NEW r \in Requests, NEW b \in Browsers, NEW c \in 1..MaxConversations, ReceiveCancel(r, b, c)
  PROVE  Inv'
<1> DEFINE q == [Received("cancel", b, sessions[b], "check") EXCEPT !.about = c]
<1>1. Free(r) /\ Becomes(r, q) /\ Quiet /\ UNCHANGED sessions
  BY DEF ReceiveCancel, keys, Quiet
<1>2. q \in RequestStates /\ q.at \notin Ended
  <2>1. Received("cancel", b, sessions[b], "check") \in RequestStates
    BY <1>1, ReceivedTyped, BoundsAssumption DEF ReceiveCancel, Inv, TypeOK, Kinds, Chained,
       FirstStep, Steps, Users, NoUser, Ids
  <2>2. c \in 0..MaxConversations
    BY BoundsAssumption
  <2> QED BY <2>1, <1>1, <2>2 DEF ReceiveCancel, RequestStates, Received, Ended
<1>3. WellPlaced(q, Len(conversations'))
  BY NamesAssumption, BoundsAssumption, <1>1 DEF ReceiveCancel, Received, WellPlaced, Chained,
     FirstStep, ChangesFactors, Ended, Inv, TypeOK, Users, NoUser, Ids
<1>4. q.late => TooLate(q, Gone')
  BY <1>1, QuietFacts DEF Received, TooLate
<1>5. Begins(q) /\ ~ Holds(r) /\ q.at # "remove"
  BY <1>1 DEF ReceiveCancel, Received, Begins, Holds
<1> HIDE DEF q
<1> QED BY <1>1, <1>2, <1>3, <1>4, <1>5, QuietFacts, SessionsSame, StepKeeps DEF Placed

LEMMA ReceiveSilentKeeps ==
  ASSUME Inv, NEW r \in Requests, NEW b \in Browsers, ReceiveSilent(r, b)
  PROVE  Inv'
<1> DEFINE q == [Received("connect", b, [id |-> opAccount[b], email |-> NoEmail], "issue")
                 EXCEPT !.ours = FALSE]
<1>1. Free(r) /\ Becomes(r, q) /\ Quiet /\ UNCHANGED sessions
  BY DEF ReceiveSilent, keys, Quiet
<1>2. q \in RequestStates /\ q.at \notin Ended
  <2>1. Received("connect", b, [id |-> opAccount[b], email |-> NoEmail], "issue") \in RequestStates
    <3>1. opAccount[b] \in Ids
      BY BoundsAssumption DEF ReceiveSilent, Inv, TypeOK, Ids
    <3>2. [id |-> opAccount[b], email |-> NoEmail] \in Users
      BY <3>1 DEF Users
    <3> QED BY <3>2, ReceivedTyped DEF Kinds, Chained, FirstStep, Steps
  <2> QED BY <2>1, <1>1 DEF ReceiveSilent, RequestStates, Received, Ended, Ids
<1>3. WellPlaced(q, Len(conversations'))
  BY NamesAssumption, BoundsAssumption, <1>1 DEF ReceiveSilent, Received, WellPlaced, Chained,
     FirstStep, ChangesFactors, Ended, Inv, TypeOK, Users, NoUser, Ids
<1>4. q.late => TooLate(q, Gone')
  BY <1>1, QuietFacts DEF Received, TooLate
<1>5. Begins(q) /\ ~ Holds(r) /\ q.at # "remove"
  BY <1>1 DEF ReceiveSilent, Received, Begins, Holds
<1> HIDE DEF q
<1> QED BY <1>1, <1>2, <1>3, <1>4, <1>5, QuietFacts, SessionsSame, StepKeeps DEF Placed

LEMMA ReceiveProcessedKeeps ==
  ASSUME Inv, NEW r \in Requests, NEW u \in Ids, ReceiveProcessed(r, u)
  PROVE  Inv'
<1> DEFINE q == [Received("processed", NoBrowser, [id |-> u, email |-> NoEmail], "mail")
                 EXCEPT !.ours = FALSE]
<1>1. Free(r) /\ Becomes(r, q) /\ Quiet /\ UNCHANGED sessions
  BY DEF ReceiveProcessed, keys, Quiet
<1>2. q \in RequestStates /\ q.at \notin Ended
  <2>1. Received("processed", NoBrowser, [id |-> u, email |-> NoEmail], "mail") \in RequestStates
    BY <1>1, ReceivedTyped, BoundsAssumption DEF ReceiveProcessed, Inv, TypeOK, Kinds, Chained,
       FirstStep, Steps, Users, NoUser, Ids
  <2> QED BY <2>1, <1>1 DEF ReceiveProcessed, RequestStates, Received, Ended
<1>3. WellPlaced(q, Len(conversations'))
  BY NamesAssumption, BoundsAssumption, <1>1 DEF ReceiveProcessed, Received, WellPlaced,
     Chained, FirstStep, ChangesFactors, Ended, Inv, TypeOK, Users, NoUser, Ids
<1>4. q.late => TooLate(q, Gone')
  BY <1>1, QuietFacts DEF Received, TooLate
<1>5. Begins(q) /\ ~ Holds(r) /\ q.at # "remove"
  BY <1>1 DEF ReceiveProcessed, Received, Begins, Holds
<1> HIDE DEF q
<1> QED BY <1>1, <1>2, <1>3, <1>4, <1>5, QuietFacts, SessionsSame, StepKeeps DEF Placed

LEMMA FailKeeps ==
  ASSUME Inv, NEW r \in Requests, Fail(r)
  PROVE  Inv'
<1>1. ~ Free(r) /\ inFlight[r] \in RequestStates /\ Placed(inFlight[r], Len(conversations), Gone)
  BY Here DEF Fail, At, Free, Ended
<1>2. CASE TRUE
  <2> DEFINE q == [Idle EXCEPT !.at = "failed"]
  <2>1. Becomes(r, q) /\ Quiet /\ UNCHANGED sessions
    BY <1>1, <1>2 DEF Fail, Answers, Quiet, tables, keys
  <2>2. q \in RequestStates /\ q.at \in Ended
    BY AnswerTyped, AnswerEnds DEF Ended
  <2>3. SessionsBy(r)
    BY <2>1, SessionsSame
  <2> HIDE DEF q
  <2> QED BY <2>1, <2>2, <2>3, QuietFacts, StepKeeps
<1> QED BY <1>1, <1>2

LEMMA ChangeKeeps ==
  ASSUME Inv, NEW r \in Requests, Change(r)
  PROVE  Inv'
<1>1. ~ Free(r) /\ inFlight[r] \in RequestStates /\ Placed(inFlight[r], Len(conversations), Gone)
  BY Here DEF Change, At, Free, Ended
<1>2. CASE users[inFlight[r].user.id] = NoEmail
  <2> DEFINE q == [Idle EXCEPT !.at = "failed"]
  <2>1. Becomes(r, q) /\ Quiet /\ UNCHANGED sessions
    BY <1>1, <1>2 DEF Change, Answers, Quiet, tables, keys
  <2>2. q \in RequestStates /\ q.at \in Ended
    BY AnswerTyped, AnswerEnds DEF Ended
  <2>3. SessionsBy(r)
    BY <2>1, SessionsSame
  <2> HIDE DEF q
  <2> QED BY <2>1, <2>2, <2>3, QuietFacts, StepKeeps
<1>3. CASE users[inFlight[r].user.id] # NoEmail
  <2> DEFINE q == [inFlight[r] EXCEPT !.at = "tell"]
  <2>1. Becomes(r, q) /\ Quiet /\ UNCHANGED sessions
    BY <1>1, <1>3 DEF Change, Goes, Quiet, tables, keys
  <2>2. q \in RequestStates
    BY <1>1, <1>3 DEF Change, RequestStates, Steps, FirstStep, Chained, Placed, WellPlaced, At
  <2>3. WellPlaced(q, Len(conversations'))
    BY <1>1, <1>3, <2>1 DEF Change, Placed, WellPlaced, RequestStates, FirstStep, Chained,
       ChangesFactors, Ended, At, Quiet
  <2>4. q.late => TooLate(q, Gone')
    BY <1>1, <1>3, <2>1, QuietFacts DEF Change, Placed, TooLate, RequestStates, At, Gone
  <2>5. GoesOn(r, q) /\ q.at # "remove"
    BY <1>1, <1>3 DEF Change, GoesOn, RequestStates, FirstStep, Chained, Placed, WellPlaced, At
  <2>6. SessionsBy(r)
    BY <2>1, SessionsSame
  <2> HIDE DEF q
  <2> QED BY <2>1, <2>2, <2>3, <2>4, <2>5, <2>6, QuietFacts, StepKeeps DEF Placed
<1> QED BY <1>1, <1>2, <1>3

LEMMA FindMembershipKeeps ==
  ASSUME Inv, NEW r \in Requests, FindMembership(r)
  PROVE  Inv'
<1>1. ~ Free(r) /\ inFlight[r] \in RequestStates /\ Placed(inFlight[r], Len(conversations), Gone)
  BY Here DEF FindMembership, At, Free, Ended
<1>2. CASE ~ IsMember(inFlight[r].user.id, inFlight[r].organization)
  <2> DEFINE q == [Idle EXCEPT !.at = "failed"]
  <2>1. Becomes(r, q) /\ Quiet /\ UNCHANGED sessions
    BY <1>1, <1>2 DEF FindMembership, Answers, Quiet, tables, keys
  <2>2. q \in RequestStates /\ q.at \in Ended
    BY AnswerTyped, AnswerEnds DEF Ended
  <2>3. SessionsBy(r)
    BY <2>1, SessionsSame
  <2> HIDE DEF q
  <2> QED BY <2>1, <2>2, <2>3, QuietFacts, StepKeeps
<1>3. CASE IsMember(inFlight[r].user.id, inFlight[r].organization)
  <2> DEFINE q == [inFlight[r] EXCEPT !.at = "store"]
  <2>1. Becomes(r, q) /\ Quiet /\ UNCHANGED sessions
    BY <1>1, <1>3 DEF FindMembership, Goes, Quiet, tables, keys
  <2>2. q \in RequestStates
    BY <1>1, <1>3 DEF FindMembership, RequestStates, Steps, FirstStep, Chained, Placed,
       WellPlaced, At
  <2>3. WellPlaced(q, Len(conversations'))
    BY <1>1, <1>3, <2>1 DEF FindMembership, Placed, WellPlaced, RequestStates, FirstStep,
       Chained, ChangesFactors, Ended, At, Quiet
  <2>4. q.late => TooLate(q, Gone')
    BY <1>1, <1>3, <2>1, QuietFacts DEF FindMembership, Placed, TooLate, RequestStates, At, Gone
  <2>5. GoesOn(r, q) /\ q.at # "remove"
    BY <1>1, <1>3 DEF FindMembership, GoesOn, RequestStates, FirstStep, Chained, Placed,
       WellPlaced, At
  <2>6. SessionsBy(r)
    BY <2>1, SessionsSame
  <2> HIDE DEF q
  <2> QED BY <2>1, <2>2, <2>3, <2>4, <2>5, <2>6, QuietFacts, StepKeeps DEF Placed
<1> QED BY <1>1, <1>2, <1>3

LEMMA ReadForJoinKeeps ==
  ASSUME Inv, NEW r \in Requests, ReadForJoin(r)
  PROVE  Inv'
<1>1. ~ Free(r) /\ inFlight[r] \in RequestStates /\ Placed(inFlight[r], Len(conversations), Gone)
  BY Here DEF ReadForJoin, At, Free, Ended
<1>2. CASE Answers(r, "failed")
  <2> DEFINE q == [Idle EXCEPT !.at = "failed"]
  <2>1. Becomes(r, q) /\ Quiet /\ UNCHANGED sessions
    BY <1>1, <1>2 DEF ReadForJoin, Answers, Quiet, tables, keys
  <2>2. q \in RequestStates /\ q.at \in Ended
    BY AnswerTyped, AnswerEnds DEF Ended
  <2>3. SessionsBy(r)
    BY <2>1, SessionsSame
  <2> HIDE DEF q
  <2> QED BY <2>1, <2>2, <2>3, QuietFacts, StepKeeps
<1>3. CASE Answers(r, "done")
  <2> DEFINE q == [Idle EXCEPT !.at = "done"]
  <2>1. Becomes(r, q) /\ Quiet /\ UNCHANGED sessions
    BY <1>1, <1>3 DEF ReadForJoin, Answers, Quiet, tables, keys
  <2>2. q \in RequestStates /\ q.at \in Ended
    BY AnswerTyped, AnswerEnds DEF Ended
  <2>3. SessionsBy(r)
    BY <2>1, SessionsSame
  <2> HIDE DEF q
  <2> QED BY <2>1, <2>2, <2>3, QuietFacts, StepKeeps
<1>4. CASE Goes(r, "open")
  <2> DEFINE q == [inFlight[r] EXCEPT !.at = "open"]
  <2>1. Becomes(r, q) /\ Quiet /\ UNCHANGED sessions
    BY <1>1, <1>4 DEF ReadForJoin, Goes, Quiet, tables, keys
  <2>2. q \in RequestStates
    BY <1>1, <1>4 DEF ReadForJoin, RequestStates, Steps, FirstStep, Chained, Placed, WellPlaced,
       At
  <2>3. WellPlaced(q, Len(conversations'))
    BY <1>1, <1>4, <2>1 DEF ReadForJoin, Placed, WellPlaced, RequestStates, FirstStep, Chained,
       ChangesFactors, Ended, At, Quiet
  <2>4. q.late => TooLate(q, Gone')
    BY <1>1, <1>4, <2>1, QuietFacts DEF ReadForJoin, Placed, TooLate, RequestStates, At, Gone
  <2>5. GoesOn(r, q) /\ q.at # "remove"
    BY <1>1, <1>4 DEF ReadForJoin, GoesOn, RequestStates, FirstStep, Chained, Placed,
       WellPlaced, At
  <2>6. SessionsBy(r)
    BY <2>1, SessionsSame
  <2> HIDE DEF q
  <2> QED BY <2>1, <2>2, <2>3, <2>4, <2>5, <2>6, QuietFacts, StepKeeps DEF Placed
<1> QED BY <1>1, <1>2, <1>3, <1>4 DEF ReadForJoin

LEMMA FindModerationKeeps ==
  ASSUME Inv, NEW r \in Requests, FindModeration(r)
  PROVE  Inv'
<1>1. ~ Free(r) /\ inFlight[r] \in RequestStates /\ Placed(inFlight[r], Len(conversations), Gone)
  BY Here DEF FindModeration, At, Free, Ended
<1>2. CASE Answers(r, "failed")
  <2> DEFINE q == [Idle EXCEPT !.at = "failed"]
  <2>1. Becomes(r, q) /\ Quiet /\ UNCHANGED sessions
    BY <1>1, <1>2 DEF FindModeration, Answers, Quiet, tables, keys
  <2>2. q \in RequestStates /\ q.at \in Ended
    BY AnswerTyped, AnswerEnds DEF Ended
  <2>3. SessionsBy(r)
    BY <2>1, SessionsSame
  <2> HIDE DEF q
  <2> QED BY <2>1, <2>2, <2>3, QuietFacts, StepKeeps
<1>3. CASE Answers(r, "done")
  <2> DEFINE q == [Idle EXCEPT !.at = "done"]
  <2>1. Becomes(r, q) /\ Quiet /\ UNCHANGED sessions
    BY <1>1, <1>3 DEF FindModeration, Answers, Quiet, tables, keys
  <2>2. q \in RequestStates /\ q.at \in Ended
    BY AnswerTyped, AnswerEnds DEF Ended
  <2>3. SessionsBy(r)
    BY <2>1, SessionsSame
  <2> HIDE DEF q
  <2> QED BY <2>1, <2>2, <2>3, QuietFacts, StepKeeps
<1>4. CASE Goes(r, "withdraw")
  <2> DEFINE q == [inFlight[r] EXCEPT !.at = "withdraw"]
  <2>1. Becomes(r, q) /\ Quiet /\ UNCHANGED sessions
    BY <1>1, <1>4 DEF FindModeration, Goes, Quiet, tables, keys
  <2>2. q \in RequestStates
    BY <1>1, <1>4 DEF FindModeration, RequestStates, Steps, FirstStep, Chained, Placed,
       WellPlaced, At
  <2>3. WellPlaced(q, Len(conversations'))
    BY <1>1, <1>4, <2>1 DEF FindModeration, Placed, WellPlaced, RequestStates, FirstStep,
       Chained, ChangesFactors, Ended, At, Quiet
  <2>4. q.late => TooLate(q, Gone')
    BY <1>1, <1>4, <2>1, QuietFacts DEF FindModeration, Placed, TooLate, RequestStates, At, Gone
  <2>5. GoesOn(r, q) /\ q.at # "remove"
    BY <1>1, <1>4 DEF FindModeration, GoesOn, RequestStates, FirstStep, Chained, Placed,
       WellPlaced, At
  <2>6. SessionsBy(r)
    BY <2>1, SessionsSame
  <2> HIDE DEF q
  <2> QED BY <2>1, <2>2, <2>3, <2>4, <2>5, <2>6, QuietFacts, StepKeeps DEF Placed
<1> QED BY <1>1, <1>2, <1>3, <1>4 DEF FindModeration

LEMMA SendProcessedKeeps ==
  ASSUME Inv, NEW r \in Requests, SendProcessed(r)
  PROVE  Inv'
<1>1. ~ Free(r) /\ inFlight[r] \in RequestStates /\ Placed(inFlight[r], Len(conversations), Gone)
  BY Here DEF SendProcessed, At, Free, Ended
<1>2. CASE TRUE
  <2> DEFINE q == [Idle EXCEPT !.at = IF users[inFlight[r].user.id] = NoEmail THEN "failed" ELSE "done"]
  <2>1. Becomes(r, q) /\ Quiet /\ UNCHANGED sessions
    BY <1>1, <1>2 DEF SendProcessed, Answers, Quiet, tables, keys
  <2>2. q \in RequestStates /\ q.at \in Ended
    BY AnswerTyped, AnswerEnds DEF Ended
  <2>3. SessionsBy(r)
    BY <2>1, SessionsSame
  <2> HIDE DEF q
  <2> QED BY <2>1, <2>2, <2>3, QuietFacts, StepKeeps
<1> QED BY <1>1, <1>2

LEMMA TellKeeps ==
  ASSUME Inv, NEW r \in Requests, NEW sent \in BOOLEAN, Tell(r, sent)
  PROVE  Inv'
<1>1. ~ Free(r) /\ inFlight[r] \in RequestStates /\ Placed(inFlight[r], Len(conversations), Gone)
  BY Here DEF Tell, At, Free, Ended
<1>2. CASE TRUE
  <2> DEFINE q == [Idle EXCEPT !.at = IF sent THEN "done" ELSE "failed", !.mailed = sent]
  <2>1. Becomes(r, q) /\ Quiet
    BY <1>1, <1>2 DEF Tell, Answers, Quiet, tables, keys
  <2>2. q \in RequestStates /\ q.at \in Ended
    BY AnswerTyped, AnswerEnds DEF Ended
  <2>3. SessionsBy(r)
    <3>1. inFlight[r].user \in Users /\ inFlight[r].kind # "sign-in"
      BY <1>1 DEF Tell, Placed, WellPlaced, Ended, At
    <3> QED BY <1>1, <3>1, SessionsStored DEF Tell, Users
  <2> HIDE DEF q
  <2> QED BY <2>1, <2>2, <2>3, QuietFacts, StepKeeps
<1> QED BY <1>1, <1>2

LEMMA LookUpKeeps ==
  ASSUME Inv, NEW r \in Requests, LookUp(r)
  PROVE  Inv'
<1>1. ~ Free(r) /\ inFlight[r] \in RequestStates /\ Placed(inFlight[r], Len(conversations), Gone)
  BY Here DEF LookUp, At, Free, Ended
<1>2. PICK u \in Ids :
          /\ users[u] = inFlight[r].user.email /\ users[u] # NoEmail
          /\ Becomes(r, [inFlight[r] EXCEPT
                           !.at = IF inFlight[r].kind = "options" THEN "challenge" ELSE "confirm",
                           !.found = [id |-> u, email |-> users[u]]])
  BY DEF LookUp
<1> DEFINE step == IF inFlight[r].kind = "options" THEN "challenge" ELSE "confirm"
           q == [inFlight[r] EXCEPT !.at = step, !.found = [id |-> u, email |-> users[u]]]
<1>3. Becomes(r, q) /\ Quiet /\ UNCHANGED sessions
  BY <1>2 DEF LookUp, Quiet, tables, keys
<1>4. [id |-> u, email |-> users[u]] \in Users
  BY DEF Users, Inv, TypeOK
<1>5. q \in RequestStates
  BY <1>1, <1>4 DEF RequestStates, Steps
<1>6. WellPlaced(q, Len(conversations'))
  BY <1>1, <1>3, <1>4 DEF Placed, WellPlaced, RequestStates, ChangesFactors, Ended, At, Quiet,
     LookUp
<1>7. q.late => TooLate(q, Gone')
  BY <1>1, <1>2, <1>3, QuietFacts DEF Placed, TooLate, RequestStates, Gone
<1>8. GoesOn(r, q) /\ q.at # "remove"
  BY <1>1 DEF GoesOn, RequestStates
<1>9. SessionsBy(r)
  BY <1>3, SessionsSame
<1> HIDE DEF q
<1> QED BY <1>3, <1>5, <1>6, <1>7, <1>8, <1>9, QuietFacts, StepKeeps DEF Placed

LEMMA FirstSteps ==
  \A k \in Chained :
      /\ FirstStep[k] \in Steps /\ FirstStep[k] \notin {"remove", "check", "session"}
      /\ FirstStep[k] = "membership" => k = "select"
      /\ FirstStep[k] = "read" => k = "join"
      /\ FirstStep[k] \notin {"store", "open", "describe", "ask", "resolve", "record"}
      /\ FirstStep[k] \notin {"confirm", "challenge"}
      /\ k = "factors" => FirstStep[k] = "change"
      /\ k = "passkeys" => FirstStep[k] = "look up"
      /\ k \notin {"sign-in", "processed"}
<1>1. Chained = {"delete", "factors", "passkeys", "verify", "select", "join", "cancel", "connect"}
  BY DEF Chained, FirstStep
<1>2. /\ FirstStep["delete"] = "tell of deletion" /\ FirstStep["factors"] = "change"
      /\ FirstStep["passkeys"] = "look up" /\ FirstStep["verify"] = "look up"
      /\ FirstStep["select"] = "membership" /\ FirstStep["join"] = "read"
      /\ FirstStep["cancel"] = "find" /\ FirstStep["connect"] = "issue"
  BY DEF FirstStep
<1> QED BY <1>1, <1>2 DEF Steps, ChangesFactors

LEMMA CheckKeeps ==
  ASSUME Inv, NEW r \in Requests, Check(r)
  PROVE  Inv'
<1>1. ~ Free(r) /\ inFlight[r] \in RequestStates /\ Placed(inFlight[r], Len(conversations), Gone)
  BY Here DEF Check, At, Free, Ended
<1>2. CASE users[inFlight[r].user.id] = NoEmail
  <2> DEFINE q == [Idle EXCEPT !.at = "failed"]
  <2>1. Becomes(r, q) /\ Stored(r, NoUser) /\ UNCHANGED <<tables, opAccount, created, conversations, told>>
    BY <1>1, <1>2 DEF Check, Answers, Destroyed
  <2>2. q \in RequestStates /\ q.at \in Ended
    BY AnswerEnds DEF Ended
  <2>3. SessionsBy(r)
    BY <1>1, <2>1, SessionsStored DEF Check, At, Placed, WellPlaced, NoUser
  <2>4. selected' \in [Ids -> Organizations \cup {NoOrganization}]
    BY <1>2 DEF Check, Destroyed, Inv, TypeOK
  <2>5. Len(conversations) \in Nat
    BY DEF Inv, TypeOK
  <2>6. RestTyped' /\ ModerationsHaveUsers' /\ told \subseteq told' /\ UNCHANGED <<users, created>>
    BY <2>1, <2>4 DEF Inv, TypeOK, RestTyped, ModerationsHaveUsers, tables
  <2> HIDE DEF q
  <2> QED BY <2>1, <2>2, <2>3, <2>5, <2>6, StepKeeps
<1>3. CASE users[inFlight[r].user.id] # NoEmail
  <2> DEFINE q == [inFlight[r] EXCEPT !.at = FirstStep[inFlight[r].kind]]
  <2>1. Becomes(r, q) /\ Quiet /\ UNCHANGED sessions
    BY <1>1, <1>3 DEF Check, Goes, Quiet, tables
  <2>2. inFlight[r].kind \in Chained
    BY <1>1 DEF Check, At, Placed, WellPlaced
  <2>3. q \in RequestStates
    BY <1>1, <2>2, FirstSteps DEF RequestStates
  <2>4. WellPlaced(q, Len(conversations'))
    <3>1. q.at = FirstStep[q.kind] /\ q.kind \in Chained
      BY <1>1, <2>2 DEF RequestStates
    <3>2. /\ q.user = inFlight[r].user /\ q.organization = inFlight[r].organization
          /\ q.ours = inFlight[r].ours /\ q.browser = inFlight[r].browser
      BY <1>1 DEF RequestStates
    <3>3. q.user \in Users /\ (q.kind # "processed" => q.browser \in Browsers)
          /\ (q.kind \in {"select", "join"} => q.organization \in Organizations)
      BY <1>1, <3>2 DEF Placed, WellPlaced, RequestStates, Check, At, Ended
    <3> HIDE DEF q
    <3> QED BY <3>1, <3>3, FirstSteps DEF WellPlaced
  <2>5. ~ q.late
    BY <1>1, <1>3 DEF Placed, TooLate, RequestStates, Gone
  <2>6. GoesOn(r, q) /\ q.at # "remove"
    BY <1>1, <2>2, FirstSteps DEF GoesOn, RequestStates
  <2>7. SessionsBy(r)
    BY <2>1, SessionsSame
  <2> HIDE DEF q
  <2> QED BY <2>1, <2>3, <2>4, <2>5, <2>6, <2>7, QuietFacts, StepKeeps DEF Placed
<1> QED BY <1>2, <1>3

LEMMA LeaveKeeps ==
  ASSUME Inv, NEW r \in Requests, Leave(r)
  PROVE  Inv'
<1>1. ~ Free(r) /\ inFlight[r] \in RequestStates /\ Placed(inFlight[r], Len(conversations), Gone)
  BY Here DEF Leave, At, Free, Ended
<1> DEFINE q == [Idle EXCEPT !.at = "done"]
<1>2. Becomes(r, q) /\ Stored(r, NoUser) /\ UNCHANGED <<tables, opAccount, created, conversations, told>>
  BY DEF Leave, Answers, Destroyed
<1>3. q \in RequestStates /\ q.at \in Ended
  BY AnswerEnds DEF Ended
<1>4. SessionsBy(r)
  BY <1>1, <1>2, SessionsStored DEF Leave, At, Placed, WellPlaced, NoUser
<1>5. selected' \in [Ids -> Organizations \cup {NoOrganization}]
  BY DEF Leave, Destroyed, Inv, TypeOK
<1>6. Len(conversations) \in Nat
  BY DEF Inv, TypeOK
<1>7. RestTyped' /\ ModerationsHaveUsers' /\ told \subseteq told' /\ UNCHANGED <<users, created>>
  BY <1>2, <1>5 DEF Inv, TypeOK, RestTyped, ModerationsHaveUsers, tables
<1> HIDE DEF q
<1> QED BY <1>2, <1>3, <1>4, <1>6, <1>7, StepKeeps

LEMMA ConfirmKeeps ==
  ASSUME Inv, NEW r \in Requests, Confirm(r)
  PROVE  Inv'
<1>1. ~ Free(r) /\ inFlight[r] \in RequestStates /\ Placed(inFlight[r], Len(conversations), Gone)
  BY Here DEF Confirm, At, Free, Ended
<1>2. Quiet
  BY DEF Confirm, Quiet
<1>3. CASE \E answer \in Ended : Answers(r, answer) /\ SessionsBy(r)
  <2>1. PICK answer \in Ended : Answers(r, answer) /\ SessionsBy(r)
    BY <1>3
  <2> DEFINE q == [Idle EXCEPT !.at = answer]
  <2>2. q \in RequestStates /\ q.at \in Ended /\ Becomes(r, q)
    BY <2>1, AnswerEnds DEF Answers
  <2> HIDE DEF q
  <2> QED BY <1>2, <2>1, <2>2, QuietFacts, StepKeeps
<1>4. CASE Answers(r, "done") /\ Stored(r, inFlight[r].found) /\ inFlight[r].found.id = inFlight[r].user.id
  <2>1. inFlight[r].found \in Users \cup {NoUser} /\ inFlight[r].kind # "sign-in"
    BY <1>1 DEF Confirm, At, Placed, WellPlaced, RequestStates, Ended
  <2>2. SessionsBy(r)
    BY <1>1, <1>4, <2>1, SessionsStored
  <2> QED BY <1>3, <1>4, <2>2 DEF Ended
<1>5. CASE Goes(r, "tell") /\ UNCHANGED sessions /\ users[inFlight[r].found.id] # NoEmail
           /\ inFlight[r].found.id = inFlight[r].user.id
  <2> DEFINE q == [inFlight[r] EXCEPT !.at = "tell"]
  <2>1. Becomes(r, q)
    BY <1>5 DEF Goes
  <2>2. q \in RequestStates
    BY <1>1 DEF RequestStates, Steps
  <2>3. WellPlaced(q, Len(conversations'))
    BY <1>1 DEF Confirm, Placed, WellPlaced, RequestStates, ChangesFactors, Ended, At
  <2>4. ~ q.late
    BY <1>1, <1>5 DEF Confirm, At, Placed, TooLate, RequestStates
  <2>5. GoesOn(r, q) /\ q.at # "remove"
    BY <1>1 DEF GoesOn, RequestStates
  <2>6. SessionsBy(r)
    BY <1>5, SessionsSame
  <2> HIDE DEF q
  <2> QED BY <1>2, <2>1, <2>2, <2>3, <2>4, <2>5, <2>6, QuietFacts, StepKeeps DEF Placed
<1>6. CASE Answers(r, "failed") /\ UNCHANGED sessions
  BY <1>3, <1>6, SessionsSame DEF Ended
<1> QED BY <1>4, <1>5, <1>6 DEF Confirm

LEMMA AnswerOptionsKeeps ==
  ASSUME Inv, NEW r \in Requests, AnswerOptions(r)
  PROVE  Inv'
<1> DEFINE q == [Idle EXCEPT !.at = "done"]
<1>1. ~ Free(r)
  BY DEF AnswerOptions, At, Free, Ended
<1>2. Becomes(r, q) /\ Quiet /\ UNCHANGED sessions
  BY DEF AnswerOptions, Answers, Quiet, tables, keys
<1>3. q \in RequestStates /\ q.at \in Ended
  BY AnswerEnds DEF Ended
<1>4. SessionsBy(r)
  BY <1>2, SessionsSame
<1> HIDE DEF q
<1> QED BY <1>2, <1>3, <1>4, QuietFacts, StepKeeps

LEMMA StoreKeeps ==
  ASSUME Inv, NEW r \in Requests, Store(r)
  PROVE  Inv'
<1>1. ~ Free(r) /\ inFlight[r] \in RequestStates /\ Placed(inFlight[r], Len(conversations), Gone)
  BY Here DEF Store, At, Free, Ended
<1> DEFINE q == [Idle EXCEPT !.at = "done"]
<1>2. Becomes(r, q) /\ UNCHANGED <<tables, sessions, opAccount, created, conversations, told>>
  BY DEF Store, Answers
<1>3. q \in RequestStates /\ q.at \in Ended
  BY AnswerEnds DEF Ended
<1>4. SessionsBy(r)
  BY <1>2, SessionsSame
<1>5. inFlight[r].organization \in Organizations
  BY <1>1 DEF Store, At, Placed, WellPlaced
<1>6. selected' \in [Ids -> Organizations \cup {NoOrganization}]
  BY <1>5 DEF Store, Inv, TypeOK
<1>7. Len(conversations) \in Nat
  BY DEF Inv, TypeOK
<1>8. RestTyped' /\ ModerationsHaveUsers' /\ told \subseteq told' /\ UNCHANGED <<users, created>>
  BY <1>2, <1>6 DEF Inv, TypeOK, RestTyped, ModerationsHaveUsers, tables
<1> HIDE DEF q
<1> QED BY <1>2, <1>3, <1>4, <1>7, <1>8, StepKeeps

LEMMA TellOfDeletionKeeps ==
  ASSUME Inv, NEW r \in Requests, TellOfDeletion(r)
  PROVE  Inv'
<1>1. ~ Free(r) /\ inFlight[r] \in RequestStates /\ Placed(inFlight[r], Len(conversations), Gone)
  BY Here DEF TellOfDeletion, At, Free, Ended
<1> DEFINE q == [inFlight[r] EXCEPT !.at = "remove"]
<1>2. Becomes(r, q) /\ UNCHANGED <<tables, keys, created, conversations>>
  BY DEF TellOfDeletion, Goes
<1>3. q \in RequestStates /\ q.user.id \in told'
  BY <1>1 DEF RequestStates, Steps, TellOfDeletion
<1>4. inFlight[r].user \in Users /\ inFlight[r].user.id \in Ids
  BY <1>1 DEF TellOfDeletion, At, Placed, WellPlaced, Ended, Users
<1>5. WellPlaced(q, Len(conversations'))
  BY <1>1, <1>2 DEF TellOfDeletion, Placed, WellPlaced, RequestStates, ChangesFactors, Ended, At
<1>6. ~ q.late
  BY <1>1 DEF TellOfDeletion, At, Placed, TooLate, RequestStates
<1>7. GoesOn(r, q)
  BY <1>1 DEF GoesOn, RequestStates
<1>8. SessionsBy(r)
  BY <1>2, SessionsSame DEF keys
<1>9. Len(conversations) \in Nat
  BY DEF Inv, TypeOK
<1>10. RestTyped' /\ ModerationsHaveUsers' /\ told \subseteq told' /\ UNCHANGED <<users, created>>
  BY <1>2, <1>4 DEF Inv, TypeOK, RestTyped, ModerationsHaveUsers, tables, keys, TellOfDeletion
<1> HIDE DEF q
<1> QED BY <1>2, <1>3, <1>5, <1>6, <1>7, <1>8, <1>9, <1>10, StepKeeps DEF Placed

LEMMA OpenConversationKeeps ==
  ASSUME Inv, NEW r \in Requests, OpenConversation(r)
  PROVE  Inv'
<1>1. ~ Free(r) /\ inFlight[r] \in RequestStates /\ Placed(inFlight[r], Len(conversations), Gone)
  BY Here DEF OpenConversation, At, Free, Ended
<1> DEFINE q == [inFlight[r] EXCEPT !.at = "describe", !.about = Len(conversations) + 1]
           c == [user |-> inFlight[r].user.id, told |-> {}]
<1>2. Becomes(r, q) /\ UNCHANGED <<tables, keys, created, told>> /\ conversations' = Append(conversations, c)
  BY DEF OpenConversation
<1>3. Len(conversations) \in Nat /\ Len(conversations) < MaxConversations
      /\ conversations \in Seq([user : Ids, told : SUBSET {"describe", "ask", "resolve"}])
  BY DEF Inv, TypeOK, OpenConversation
<1>4. inFlight[r].user.id \in Ids
  BY <1>1 DEF OpenConversation, At, Placed, WellPlaced, Ended, Users
<1>5. c \in [user : Ids, told : SUBSET {"describe", "ask", "resolve"}]
  BY <1>4
<1>6. /\ conversations' \in Seq([user : Ids, told : SUBSET {"describe", "ask", "resolve"}])
      /\ Len(conversations') = Len(conversations) + 1
  <2> HIDE DEF c
  <2> QED BY <1>2, <1>3, <1>5
<1>7. q \in RequestStates
  <2>1. Len(conversations) + 1 \in 0..MaxConversations
    BY <1>3, BoundsAssumption
  <2> QED BY <1>1, <2>1 DEF RequestStates, Steps
<1>8. WellPlaced(q, Len(conversations'))
  BY <1>1, <1>3, <1>6 DEF OpenConversation, Placed, WellPlaced, RequestStates, ChangesFactors,
     Ended, At
<1>9. ~ q.late
  BY <1>1 DEF OpenConversation, At, Placed, TooLate, RequestStates
<1>10. GoesOn(r, q) /\ q.at # "remove"
  BY <1>1 DEF GoesOn, RequestStates
<1>11. SessionsBy(r)
  BY <1>2, SessionsSame DEF keys
<1>12. RestTyped' /\ ModerationsHaveUsers' /\ told \subseteq told' /\ UNCHANGED <<users, created>>
  BY <1>2, <1>3, <1>6, BoundsAssumption DEF Inv, TypeOK, RestTyped, ModerationsHaveUsers,
     tables, keys
<1>13. Len(conversations) <= Len(conversations')
  BY <1>3, <1>6
<1> HIDE DEF q
<1> QED BY <1>2, <1>7, <1>8, <1>9, <1>10, <1>11, <1>12, <1>13, StepKeeps DEF Placed

LEMMA CallCrispKeeps ==
  ASSUME Inv, NEW r \in Requests, NEW step \in {"describe", "ask", "resolve"},
         NEW next \in {"ask", "resolve", "record"}, CallCrisp(r, step, next)
  PROVE  Inv'
<1>1. ~ Free(r) /\ inFlight[r] \in RequestStates /\ Placed(inFlight[r], Len(conversations), Gone)
  BY Here DEF CallCrisp, At, Free, Ended
<1> DEFINE q == [inFlight[r] EXCEPT !.at = next]
           C == [user : Ids, told : SUBSET {"describe", "ask", "resolve"}]
           c == inFlight[r].about
           new == [conversations[c] EXCEPT !.told = @ \cup {step}]
<1>2. Becomes(r, q) /\ UNCHANGED <<tables, keys, created, told>>
      /\ conversations' = [conversations EXCEPT ![c] = new]
  BY DEF CallCrisp, Goes
<1>3. conversations \in Seq(C) /\ Len(conversations) \in Nat /\ Len(conversations) <= MaxConversations
  BY DEF Inv, TypeOK
<1>4. c \in 1..Len(conversations)
  BY <1>1 DEF CallCrisp, At, Placed, WellPlaced
<1>5. new \in C
  <2>1. conversations[c] \in C
    <3> HIDE DEF C, c
    <3> QED BY <1>3, <1>4
  <2> HIDE DEF c
  <2> QED BY <2>1
<1>6. conversations' \in Seq(C) /\ Len(conversations') = Len(conversations)
  <2> HIDE DEF C, c, new
  <2> QED BY <1>2, <1>3, <1>4, <1>5
<1>7. q \in RequestStates
  BY <1>1 DEF RequestStates, Steps
<1>8. WellPlaced(q, Len(conversations'))
  BY <1>1, <1>4, <1>6 DEF CallCrisp, Placed, WellPlaced, RequestStates, ChangesFactors, Ended, At
<1>9. ~ q.late
  BY <1>1 DEF CallCrisp, At, Placed, TooLate, RequestStates
<1>10. GoesOn(r, q) /\ q.at # "remove"
  BY <1>1 DEF GoesOn, RequestStates
<1>11. SessionsBy(r)
  BY <1>2, SessionsSame DEF keys
<1>12. RestTyped' /\ ModerationsHaveUsers' /\ told \subseteq told' /\ UNCHANGED <<users, created>>
  BY <1>2, <1>3, <1>6 DEF Inv, TypeOK, RestTyped, ModerationsHaveUsers, tables, keys
<1>13. Len(conversations) <= Len(conversations')
  BY <1>3, <1>6
<1> HIDE DEF q
<1> QED BY <1>2, <1>7, <1>8, <1>9, <1>10, <1>11, <1>12, <1>13, StepKeeps DEF Placed

LEMMA CreateModerationKeeps ==
  ASSUME Inv, NEW r \in Requests, CreateModeration(r)
  PROVE  Inv'
<1>1. ~ Free(r) /\ inFlight[r] \in RequestStates /\ Placed(inFlight[r], Len(conversations), Gone)
  BY Here DEF CreateModeration, At, Free, Ended
<1>2. \E answer \in Ended : Answers(r, answer)
  BY DEF CreateModeration, Ended
<1>3. PICK answer \in Ended : Answers(r, answer)
  BY <1>2
<1> DEFINE q == [Idle EXCEPT !.at = answer]
           m == [user |-> inFlight[r].user.id, organization |-> inFlight[r].organization,
                 ticket |-> inFlight[r].about]
<1>4. Becomes(r, q) /\ UNCHANGED <<users, links, connections, keys, created, conversations, told>>
  BY <1>3 DEF CreateModeration, Answers
<1>5. q \in RequestStates /\ q.at \in Ended
  BY AnswerEnds
<1>6. Len(conversations) \in Nat /\ Len(conversations) <= MaxConversations
  BY DEF Inv, TypeOK
<1>7. m \in [user : Ids, organization : Organizations, ticket : 1..MaxConversations]
  <2>1. inFlight[r].user.id \in Ids /\ inFlight[r].organization \in Organizations
        /\ inFlight[r].about \in 1..Len(conversations)
    BY <1>1 DEF CreateModeration, At, Placed, WellPlaced, Ended, Users
  <2>2. inFlight[r].about \in 1..MaxConversations
    BY <1>6, <2>1, BoundsAssumption
  <2> QED BY <2>1, <2>2
<1>8. \/ moderations' = moderations
      \/ moderations' = moderations \cup {m} /\ users[inFlight[r].user.id] # NoEmail
  BY DEF CreateModeration
<1>9. ModerationsHaveUsers'
  BY <1>4, <1>8 DEF Inv, ModerationsHaveUsers
<1>10. moderations' \subseteq [user : Ids, organization : Organizations, ticket : 1..MaxConversations]
  <2> HIDE DEF m
  <2> QED BY <1>7, <1>8 DEF Inv, TypeOK
<1>11. SessionsBy(r)
  BY <1>4, SessionsSame DEF keys
<1>12. RestTyped' /\ told \subseteq told' /\ UNCHANGED <<users, created>>
  BY <1>4, <1>10 DEF Inv, TypeOK, RestTyped, tables, keys
<1> HIDE DEF q
<1> QED BY <1>4, <1>5, <1>6, <1>9, <1>11, <1>12, StepKeeps

LEMMA DeleteModerationKeeps ==
  ASSUME Inv, NEW r \in Requests, DeleteModeration(r)
  PROVE  Inv'
<1>1. ~ Free(r)
  BY DEF DeleteModeration, At, Free, Ended
<1> DEFINE q == [Idle EXCEPT !.at = "done"]
<1>2. Becomes(r, q) /\ UNCHANGED <<users, links, connections, keys, created, conversations, told>>
      /\ moderations' \subseteq moderations
  BY DEF DeleteModeration, Answers
<1>3. q \in RequestStates /\ q.at \in Ended
  BY AnswerEnds DEF Ended
<1>4. SessionsBy(r)
  BY <1>2, SessionsSame DEF keys
<1>5. Len(conversations) \in Nat
  BY DEF Inv, TypeOK
<1>6. RestTyped' /\ ModerationsHaveUsers' /\ told \subseteq told' /\ UNCHANGED <<users, created>>
  BY <1>2 DEF Inv, TypeOK, RestTyped, ModerationsHaveUsers, keys
<1> HIDE DEF q
<1> QED BY <1>2, <1>3, <1>4, <1>5, <1>6, StepKeeps

LEMMA AddConnectionKeeps ==
  ASSUME Inv, NEW r \in Requests, AddConnection(r)
  PROVE  Inv'
<1>1. ~ Free(r) /\ inFlight[r] \in RequestStates /\ Placed(inFlight[r], Len(conversations), Gone)
  BY Here DEF AddConnection, At, Free, Ended
<1> DEFINE q == [Idle EXCEPT !.at = "done"]
<1>2. Becomes(r, q) /\ UNCHANGED <<users, links, moderations, keys, created, conversations, told>>
  BY DEF AddConnection, Answers
<1>3. q \in RequestStates /\ q.at \in Ended
  BY AnswerEnds DEF Ended
<1>4. SessionsBy(r)
  BY <1>2, SessionsSame DEF keys
<1>5. Len(conversations) \in Nat
  BY DEF Inv, TypeOK
<1>6. inFlight[r].user.id \in Ids
  BY <1>1 DEF AddConnection, At, Placed, WellPlaced, Ended, Users
<1>7. RestTyped' /\ ModerationsHaveUsers' /\ told \subseteq told' /\ UNCHANGED <<users, created>>
  BY <1>2, <1>6 DEF AddConnection, Inv, TypeOK, RestTyped, ModerationsHaveUsers, keys
<1> HIDE DEF q
<1> QED BY <1>2, <1>3, <1>4, <1>5, <1>7, StepKeeps

LEMMA IssueKeeps ==
  ASSUME Inv, NEW r \in Requests, Issue(r)
  PROVE  Inv'
<1>1. ~ Free(r) /\ inFlight[r] \in RequestStates /\ Placed(inFlight[r], Len(conversations), Gone)
  BY Here DEF Issue, At, Free, Ended
<1>2. Len(conversations) \in Nat
  BY DEF Inv, TypeOK
<1>3. CASE users[inFlight[r].user.id] = NoEmail
  <2> DEFINE q == [Idle EXCEPT !.at = "failed"]
  <2>1. Becomes(r, q) /\ Quiet /\ UNCHANGED sessions
    BY <1>3 DEF Issue, Answers, Quiet
  <2>2. q \in RequestStates /\ q.at \in Ended
    BY AnswerEnds DEF Ended
  <2>3. SessionsBy(r)
    BY <2>1, SessionsSame
  <2> HIDE DEF q
  <2> QED BY <2>1, <2>2, <2>3, QuietFacts, StepKeeps
<1>4. CASE users[inFlight[r].user.id] # NoEmail
  <2> DEFINE q == [inFlight[r] EXCEPT !.at = "count"]
  <2>1. /\ Becomes(r, q) /\ Stored(r, inFlight[r].user)
        /\ UNCHANGED <<tables, selected, created, conversations, told>>
        /\ opAccount' = [opAccount EXCEPT ![inFlight[r].browser] = inFlight[r].user.id]
    BY <1>4 DEF Issue, Goes
  <2>2. inFlight[r].user \in Users /\ inFlight[r].user.id \in Ids /\ inFlight[r].kind # "sign-in"
    BY <1>1 DEF Issue, At, Placed, WellPlaced, Ended, Users
  <2>3. q \in RequestStates
    BY <1>1 DEF RequestStates, Steps
  <2>4. WellPlaced(q, Len(conversations'))
    BY <1>1 DEF Issue, Placed, WellPlaced, RequestStates, ChangesFactors, Ended, At
  <2>5. ~ q.late
    BY <1>1, <1>4 DEF Placed, TooLate, RequestStates, Gone
  <2>6. GoesOn(r, q) /\ q.at # "remove"
    BY <1>1 DEF GoesOn, RequestStates
  <2>7. SessionsBy(r)
    BY <1>1, <2>1, <2>2, SessionsStored
  <2>8. opAccount' \in [Browsers -> 0..MaxUsers]
    <3>1. inFlight[r].user.id \in 0..MaxUsers
      BY <2>2, BoundsAssumption DEF Ids
    <3> QED BY <2>1, <3>1 DEF Inv, TypeOK
  <2>9. RestTyped' /\ ModerationsHaveUsers' /\ told \subseteq told' /\ UNCHANGED <<users, created>>
    BY <2>1, <2>8 DEF Inv, TypeOK, RestTyped, ModerationsHaveUsers, tables
  <2>10. Len(conversations) <= Len(conversations')
    BY <1>2, <2>1
  <2> HIDE DEF q
  <2> QED BY <2>1, <2>3, <2>4, <2>5, <2>6, <2>7, <2>9, <2>10, StepKeeps DEF Placed
<1> QED BY <1>3, <1>4

LEMMA ForgetKeeps ==
  ASSUME Inv, NEW b \in Browsers, Forget(b)
  PROVE  Inv'
<1>1. /\ UNCHANGED <<tables, keys, created, conversations, told>>
      /\ \A r \in Requests :
            inFlight'[r] = [inFlight[r] EXCEPT !.ours = @ /\ inFlight[r].browser # b]
  BY DEF Forget
<1>2. inFlight' \in [Requests -> RequestStates]
  <2>1. ASSUME NEW r \in Requests
        PROVE  [inFlight[r] EXCEPT !.ours = @ /\ inFlight[r].browser # b] \in RequestStates
    <3>1. inFlight[r] \in RequestStates
      BY Here
    <3>2. (inFlight[r].ours /\ inFlight[r].browser # b) \in BOOLEAN
      BY <3>1 DEF RequestStates
    <3> QED BY <3>1, <3>2 DEF RequestStates
  <2> QED BY <2>1 DEF Forget
<1>3. TypeOK'
  BY <1>1, <1>2 DEF Inv, TypeOK, tables, keys
<1>4. \A r \in Requests :
         /\ inFlight'[r].kind = inFlight[r].kind /\ inFlight'[r].user = inFlight[r].user
         /\ inFlight'[r].browser = inFlight[r].browser /\ inFlight'[r].at = inFlight[r].at
         /\ inFlight'[r].late = inFlight[r].late /\ inFlight'[r].found = inFlight[r].found
         /\ inFlight'[r].about = inFlight[r].about
         /\ inFlight'[r].organization = inFlight[r].organization
         /\ inFlight'[r].ours => inFlight[r].ours
  BY <1>1, Here DEF RequestStates
<1>5. Gone' = Gone
  BY <1>1, GoneSame DEF tables
<1>6. RowsAreCreated' /\ ModerationsHaveUsers' /\ DeletionsAreTold'
  BY <1>1, <1>4, <1>5 DEF Inv, RowsAreCreated, ModerationsHaveUsers, DeletionsAreTold, tables,
     keys, At
<1>7. RequestsPlaced'
  <2>1. ASSUME NEW r \in Requests, ~ Free(r)'
        PROVE  Placed(inFlight'[r], Len(conversations'), Gone')
    <3>1. Placed(inFlight[r], Len(conversations), Gone)
      BY <1>4, <2>1, Here DEF Free
    <3> QED BY <1>1, <1>4, <1>5, <3>1 DEF Placed, WellPlaced, TooLate
  <2> QED BY <2>1 DEF RequestsPlaced
<1>8. OursAgree'
  <2>1. \A r \in Requests : Holds(r)' => Holds(r)
    BY <1>4 DEF Holds, Free
  <2> QED BY <1>1, <1>4, <2>1 DEF Inv, OursAgree, keys
<1> QED BY <1>3, <1>6, <1>7, <1>8 DEF Inv

LEMMA ModerateKeeps ==
  ASSUME Inv, NEW m \in moderations, NEW granted \in BOOLEAN, Moderate(m, granted)
  PROVE  Inv'
<1>1. UNCHANGED <<users, connections, keys, created, conversations, told, inFlight>>
      /\ moderations' \subseteq moderations
  BY DEF Moderate
<1>2. [user |-> m.user, organization |-> m.organization] \in [user : Ids, organization : Organizations]
  BY DEF Inv, TypeOK
<1>3. links' \subseteq [user : Ids, organization : Organizations]
  BY <1>2 DEF Moderate, Inv, TypeOK
<1>4. TypeOK'
  BY <1>1, <1>3 DEF Inv, TypeOK, keys
<1>5. Gone' = Gone
  BY <1>1, GoneSame
<1>6. RowsAreCreated' /\ ModerationsHaveUsers' /\ DeletionsAreTold'
  BY <1>1, <1>5 DEF Inv, RowsAreCreated, ModerationsHaveUsers, DeletionsAreTold, At
<1>7. RequestsPlaced' /\ OursAgree'
  BY <1>1, <1>5 DEF Inv, RequestsPlaced, Free, OursAgree, Holds, keys
<1> QED BY <1>4, <1>6, <1>7 DEF Inv

LEMMA CredentialsKeeps ==
  ASSUME Inv, NEW r \in Requests, NEW b \in Browsers, NEW u \in Ids, NEW e \in Emails,
         Credentials(r, b, u, e)
  PROVE  Inv'
<1> DEFINE q == [Received("sign-in", b, [id |-> u, email |-> e], "session") EXCEPT !.late = FALSE]
<1>1. Free(r) /\ Becomes(r, q) /\ UNCHANGED <<links, moderations, connections, keys, conversations, told>>
  BY DEF Credentials
<1>2. q \in RequestStates /\ q.at = "session" /\ ~ q.late /\ q.kind = "sign-in"
  <2>1. [id |-> u, email |-> e] \in Users
    BY DEF Users
  <2>2. Received("sign-in", b, [id |-> u, email |-> e], "session") \in RequestStates
    BY <2>1, ReceivedTyped DEF Kinds, Steps
  <2> QED BY <2>2 DEF RequestStates, Received
<1>3. q.user = [id |-> u, email |-> e] /\ q.browser = b /\ q.kind = "sign-in"
  BY DEF Received
<1>4. WellPlaced(q, Len(conversations'))
  <2>1. q.user \in Users
    BY <1>3 DEF Users
  <2> HIDE DEF q
  <2> QED BY <1>2, <1>3, <2>1 DEF WellPlaced, ChangesFactors, Ended
<1> HIDE DEF q
<1>5. /\ users' \in [Ids -> Emails \cup {NoEmail}] /\ created' \in 0..MaxUsers
      /\ Gone' = Gone /\ RowsAreCreated'
      /\ \A v \in Ids : users[v] # NoEmail => users'[v] # NoEmail
  <2>1. CASE UNCHANGED <<users, created>>
    BY <2>1, GoneSame DEF Inv, TypeOK, RowsAreCreated
  <2>2. CASE u = created + 1 /\ created' = u /\ users' = [users EXCEPT ![u] = e]
    <3>1. created \in Nat /\ users \in [Ids -> Emails \cup {NoEmail}]
      BY BoundsAssumption DEF Inv, TypeOK
    <3>2. e # NoEmail
      BY NamesAssumption
    <3>3. created' \in 0..MaxUsers
      BY <2>2, BoundsAssumption DEF Ids
    <3>4. users' \in [Ids -> Emails \cup {NoEmail}] /\ users'[u] = e
          /\ \A v \in Ids \ {u} : users'[v] = users[v]
      BY <2>2, <3>1
    <3>5. \A v \in 1..created : v \in Ids \ {u}
      BY <2>2, <3>1, BoundsAssumption DEF Ids
    <3>6. 1..created' = 1..created \cup {u}
      BY <2>2, <3>1
    <3>7. Gone' = Gone
      BY <3>2, <3>4, <3>5, <3>6 DEF Gone
    <3>8. RowsAreCreated'
      <4>1. ASSUME NEW v \in Ids, users'[v] # NoEmail
            PROVE  v <= created'
        <5>1. CASE v = u
          BY <5>1, <2>2 DEF Ids
        <5>2. CASE v # u
          <6>1. v \in Nat /\ v <= created
            BY <3>4, <4>1, <5>2 DEF Inv, RowsAreCreated, Ids
          <6> QED BY <6>1, <2>2, <3>1
        <5> QED BY <5>1, <5>2
      <4> QED BY <4>1 DEF RowsAreCreated
    <3> QED BY <3>2, <3>3, <3>4, <3>7, <3>8
  <2> QED BY <2>1, <2>2 DEF Credentials
<1>6. Len(conversations) \in Nat /\ UNCHANGED conversations
  BY <1>1 DEF Inv, TypeOK
<1>7. RequestsPlaced' /\ inFlight' \in [Requests -> RequestStates]
  <2>1. Placed(q, Len(conversations'), Gone')
    BY <1>2, <1>4 DEF Placed
  <2> QED BY <1>1, <1>2, <1>5, <1>6, <2>1, Placing
<1>8. TypeOK'
  BY <1>1, <1>5, <1>7 DEF Inv, TypeOK, keys
<1>9. ModerationsHaveUsers'
  BY <1>1, <1>5 DEF Inv, TypeOK, ModerationsHaveUsers
<1>10. inFlight'[r] = q /\ \A s \in Requests \ {r} : inFlight'[s] = inFlight[s]
  BY <1>1, Becoming
<1>11. DeletionsAreTold'
  BY <1>1, <1>2, <1>5, <1>10 DEF Inv, DeletionsAreTold, At
<1>12. OursAgree'
  <2>1. SessionsBy(r)
    BY <1>1, SessionsSame DEF keys
  <2>2. Begins(q) /\ (q.ours => q.browser \in Browsers) /\ ~ Holds(r)
    BY <1>1, <1>2, <1>3 DEF Begins, Holds
  <2> QED BY <1>1, <1>2, <2>1, <2>2, Agreement
<1> QED BY <1>5, <1>7, <1>8, <1>9, <1>11, <1>12 DEF Inv

LEMMA DeleteUserKeeps ==
  ASSUME Inv, NEW r \in Requests, DeleteUser(r)
  PROVE  Inv'
<1>1. ~ Free(r) /\ inFlight[r] \in RequestStates /\ Placed(inFlight[r], Len(conversations), Gone)
  BY Here DEF DeleteUser, At, Free, Ended
<1> DEFINE q == [inFlight[r] EXCEPT !.at = "leave"]
           u == inFlight[r].user.id
<1>2. Becomes(r, q) /\ UNCHANGED <<keys, created, conversations, told>>
      /\ users' = [users EXCEPT ![u] = NoEmail]
      /\ links' \subseteq links /\ connections' \subseteq connections
      /\ moderations' = {m \in moderations : m.user # u}
  BY DEF DeleteUser, Goes
<1>3. u \in Ids /\ inFlight[r].user \in Users /\ u \in told
  BY <1>1 DEF DeleteUser, At, Placed, WellPlaced, Ended, Users, Inv, DeletionsAreTold
<1>4. q \in RequestStates /\ q.at = "leave"
  BY <1>1 DEF RequestStates, Steps
<1>5. WellPlaced(q, Len(conversations')) /\ ~ q.late
  BY <1>1, <1>2 DEF DeleteUser, Placed, WellPlaced, TooLate, RequestStates, ChangesFactors,
     Ended, At
<1>6. GoesOn(r, q)
  BY <1>1 DEF GoesOn, RequestStates
<1> HIDE DEF q
<1>7. /\ users' \in [Ids -> Emails \cup {NoEmail}] /\ users'[u] = NoEmail
      /\ \A v \in Ids \ {u} : users'[v] = users[v]
  BY <1>2, <1>3 DEF Inv, TypeOK
<1>8. Gone \subseteq Gone' /\ Gone' \subseteq Gone \cup {u}
  <2>1. \A v \in 1..created : v \in Ids
    BY BoundsAssumption DEF Inv, TypeOK, Ids
  <2>2. created' = created
    BY <1>2
  <2> QED BY <1>7, <2>1, <2>2 DEF Gone
<1>9. Len(conversations) \in Nat /\ UNCHANGED conversations
  BY <1>2 DEF Inv, TypeOK
<1>10. RequestsPlaced' /\ inFlight' \in [Requests -> RequestStates]
  <2>1. Placed(q, Len(conversations'), Gone')
    BY <1>5 DEF Placed
  <2> QED BY <1>2, <1>4, <1>8, <1>9, <2>1, Placing
<1>11. TypeOK'
  BY <1>2, <1>7, <1>10 DEF Inv, TypeOK, keys
<1>12. RowsAreCreated' /\ ModerationsHaveUsers'
  BY <1>2, <1>7 DEF Inv, TypeOK, RowsAreCreated, ModerationsHaveUsers
<1>13. inFlight'[r] = q /\ \A s \in Requests \ {r} : inFlight'[s] = inFlight[s]
  BY <1>2, Becoming
<1>14. DeletionsAreTold'
  BY <1>2, <1>3, <1>4, <1>8, <1>13 DEF Inv, DeletionsAreTold, At
<1>15. OursAgree'
  <2>1. SessionsBy(r)
    BY <1>2, SessionsSame DEF keys
  <2> QED BY <1>2, <1>4, <1>6, <2>1, Agreement
<1> QED BY <1>10, <1>11, <1>12, <1>14, <1>15 DEF Inv

LEMMA CreateSessionKeeps ==
  ASSUME Inv, NEW r \in Requests, CreateSession(r)
  PROVE  Inv'
<1>1. ~ Free(r) /\ inFlight[r] \in RequestStates /\ Placed(inFlight[r], Len(conversations), Gone)
  BY Here DEF CreateSession, At, Free, Ended
<1> DEFINE user == inFlight[r].user
           b == inFlight[r].browser
           answer == IF users[user.id] = NoEmail THEN "failed" ELSE "done"
           q == [Idle EXCEPT !.at = answer]
<1>2. user \in Users /\ b \in Browsers /\ inFlight[r].kind = "sign-in"
  BY <1>1 DEF CreateSession, At, Placed, WellPlaced, Ended
<1>3. /\ UNCHANGED <<tables, opAccount, created, conversations, told>>
      /\ inFlight' = [s \in Requests |-> IF s = r THEN q
                        ELSE [inFlight[s] EXCEPT !.ours = @ /\ inFlight[s].browser # b]]
      /\ sessions' = [sessions EXCEPT ![b] = IF users[user.id] = NoEmail THEN NoUser ELSE user]
      /\ selected' = [selected EXCEPT ![user.id] = NoOrganization]
  BY DEF CreateSession
<1>4. q \in RequestStates /\ q.at \in Ended
  BY AnswerEnds DEF Ended
<1> HIDE DEF q
<1>5. inFlight'[r] = q /\ \A s \in Requests \ {r} :
         inFlight'[s] = [inFlight[s] EXCEPT !.ours = @ /\ inFlight[s].browser # b]
  BY <1>3
<1>6. ASSUME NEW s \in Requests
      PROVE  [inFlight[s] EXCEPT !.ours = @ /\ inFlight[s].browser # b] \in RequestStates
  <2>1. inFlight[s] \in RequestStates
    BY Here
  <2>2. (inFlight[s].ours /\ inFlight[s].browser # b) \in BOOLEAN
    BY <2>1 DEF RequestStates
  <2> QED BY <2>1, <2>2 DEF RequestStates
<1>7. inFlight' \in [Requests -> RequestStates]
  BY <1>3, <1>4, <1>6
<1>8. sessions' \in [Browsers -> Users \cup {NoUser}]
      /\ selected' \in [Ids -> Organizations \cup {NoOrganization}]
  BY <1>2, <1>3 DEF Inv, TypeOK
<1>9. TypeOK'
  BY <1>3, <1>7, <1>8 DEF Inv, TypeOK, tables
<1>10. \A s \in Requests \ {r} :
         /\ inFlight'[s].kind = inFlight[s].kind /\ inFlight'[s].user = inFlight[s].user
         /\ inFlight'[s].browser = inFlight[s].browser /\ inFlight'[s].at = inFlight[s].at
         /\ inFlight'[s].late = inFlight[s].late /\ inFlight'[s].found = inFlight[s].found
         /\ inFlight'[s].about = inFlight[s].about
         /\ inFlight'[s].organization = inFlight[s].organization
         /\ inFlight'[s].ours => inFlight[s].ours /\ inFlight[s].browser # b
  BY <1>5, Here DEF RequestStates
<1>11. Gone' = Gone
  BY <1>3, GoneSame DEF tables
<1>12. RowsAreCreated' /\ ModerationsHaveUsers' /\ DeletionsAreTold'
  BY <1>3, <1>4, <1>5, <1>10, <1>11
     DEF Inv, RowsAreCreated, ModerationsHaveUsers, DeletionsAreTold, tables, At, Ended
<1>13. RequestsPlaced'
  <2>1. ASSUME NEW s \in Requests, ~ Free(s)'
        PROVE  Placed(inFlight'[s], Len(conversations'), Gone')
    <3>1. s # r
      BY <1>4, <1>5, <2>1 DEF Free
    <3>2. Placed(inFlight[s], Len(conversations), Gone)
      BY <1>10, <2>1, <3>1, Here DEF Free
    <3>3. WellPlaced(inFlight'[s], Len(conversations'))
      <4>1. /\ inFlight'[s].kind = inFlight[s].kind /\ inFlight'[s].user = inFlight[s].user
            /\ inFlight'[s].browser = inFlight[s].browser /\ inFlight'[s].at = inFlight[s].at
            /\ inFlight'[s].found = inFlight[s].found /\ inFlight'[s].about = inFlight[s].about
            /\ inFlight'[s].organization = inFlight[s].organization
            /\ inFlight'[s].ours => inFlight[s].ours
        BY <1>10, <3>1
      <4>2. WellPlaced(inFlight[s], Len(conversations)) /\ UNCHANGED conversations
        BY <1>3, <3>2 DEF Placed
      <4> QED BY <4>1, <4>2 DEF WellPlaced
    <3>4. inFlight'[s].late => TooLate(inFlight'[s], Gone')
      BY <1>10, <1>11, <3>1, <3>2 DEF Placed, TooLate
    <3> QED BY <3>3, <3>4 DEF Placed
  <2> QED BY <2>1 DEF RequestsPlaced
<1>14. OursAgree'
  <2>1. \A s \in Requests : Holds(s)' => s # r /\ Holds(s) /\ inFlight[s].browser # b
    BY <1>4, <1>5, <1>10 DEF Holds, Free
  <2>2. \A s \in Requests : Holds(s) => inFlight[s].browser \in Browsers
    BY Here DEF Holds, Placed, WellPlaced
  <2>3. \A c \in Browsers \ {b} : sessions'[c] = sessions[c]
    BY <1>3 DEF Inv, TypeOK
  <2> QED BY <1>10, <2>1, <2>2, <2>3 DEF Inv, OursAgree
<1> QED BY <1>9, <1>12, <1>13, <1>14 DEF Inv

-----------------------------------------------------------------------------
(* The specification.                                                      *)

LEMMA InitInv == Init => Inv
<1> SUFFICES ASSUME Init PROVE Inv
  OBVIOUS
<1>1. 0 \in 0..MaxUsers /\ Ids = 1..MaxUsers
  BY BoundsAssumption DEF Ids
<1>2. TypeOK
  BY <1>1, IdleTyped, BoundsAssumption DEF Init, TypeOK
<1>3. Idle.at = "done"
  BY DEF Idle
<1>4. RowsAreCreated /\ ModerationsHaveUsers /\ Gone = {}
  BY DEF Init, RowsAreCreated, ModerationsHaveUsers, Gone
<1>5. DeletionsAreTold
  BY <1>3, <1>4 DEF Init, DeletionsAreTold, At
<1>6. RequestsPlaced /\ OursAgree
  BY <1>3 DEF Init, RequestsPlaced, OursAgree, Holds, Free, Ended
<1> QED BY <1>2, <1>4, <1>5, <1>6 DEF Inv

LEMMA NextKeeps ==
  ASSUME Inv, [Next]_vars
  PROVE  Inv'
<1>1. CASE UNCHANGED vars
  <2>1. Gone' = Gone
    BY <1>1, GoneSame DEF vars, tables
  <2> QED BY <1>1, <2>1 DEF vars, tables, keys, Inv, TypeOK, RowsAreCreated, ModerationsHaveUsers,
             DeletionsAreTold, At, RequestsPlaced, Free, OursAgree, Holds
<1>2. ASSUME NEW r \in Requests, Arrive(r)
      PROVE  Inv'
  BY <1>2, ReceiveKeeps, ReceiveAboutKeeps, ReceiveCancelKeeps, ReceiveSilentKeeps,
     CredentialsKeeps, ReceiveProcessedKeeps DEF Arrive
<1>3. ASSUME NEW r \in Requests, Step(r)
      PROVE  Inv'
  <2>1. CASE CreateSession(r) \/ Check(r) \/ Fail(r) \/ TellOfDeletion(r) \/ DeleteUser(r) \/ Leave(r)
    BY <2>1, CreateSessionKeeps, CheckKeeps, FailKeeps, TellOfDeletionKeeps, DeleteUserKeeps,
       LeaveKeeps
  <2>2. CASE Change(r) \/ (\E sent \in BOOLEAN : Tell(r, sent)) \/ LookUp(r) \/ Confirm(r)
             \/ AnswerOptions(r) \/ FindMembership(r) \/ Store(r) \/ ReadForJoin(r) \/ OpenConversation(r)
    BY <2>2, ChangeKeeps, TellKeeps, LookUpKeeps, ConfirmKeeps, AnswerOptionsKeeps,
       FindMembershipKeeps, StoreKeeps, ReadForJoinKeeps, OpenConversationKeeps
  <2>3. CASE CallCrisp(r, "describe", "ask") \/ CallCrisp(r, "ask", "resolve")
             \/ CallCrisp(r, "resolve", "record")
    BY <2>3, CallCrispKeeps
  <2>4. CASE CreateModeration(r) \/ FindModeration(r) \/ DeleteModeration(r) \/ SendProcessed(r)
             \/ Issue(r) \/ AddConnection(r)
    BY <2>4, CreateModerationKeeps, FindModerationKeeps, DeleteModerationKeeps,
       SendProcessedKeeps,
       IssueKeeps, AddConnectionKeeps
  <2> QED BY <1>3, <2>1, <2>2, <2>3, <2>4 DEF Step
<1> QED BY <1>1, <1>2, <1>3, ForgetKeeps, ModerateKeeps DEF Next

LEMMA InvAlways == Spec => []Inv
BY InitInv, NextKeeps, PTL DEF Spec

\* For any addresses, organizations, browsers and requests, every state is well typed: no id
\* is given twice, and what the tables, Redis and requests refer to are ids that were given.
THEOREM TypeCorrect == Spec => []TypeOK
<1>1. Inv => TypeOK
  BY DEF Inv
<1> QED BY <1>1, InvAlways, PTL

-----------------------------------------------------------------------------
(* What a step does to requests other than its own.                        *)

LEMMA OneMoves ==
  ASSUME Inv, NEW r \in Requests, Arrive(r) \/ Step(r), NEW s \in Requests, s # r
  PROVE  inFlight'[s].at = inFlight[s].at
<1>1. CASE \E q : Becomes(r, q)
  BY <1>1, Becoming
<1>2. CASE CreateSession(r)
  BY <1>2, Here DEF CreateSession, RequestStates
<1>3. CASE Step(r) /\ ~ CreateSession(r)
  <2>1. CASE Check(r) \/ Fail(r) \/ TellOfDeletion(r) \/ DeleteUser(r) \/ Leave(r)
    BY <2>1, <1>1 DEF Check, Fail, TellOfDeletion, DeleteUser, Leave, Answers, Goes
  <2>2. CASE Change(r) \/ (\E sent \in BOOLEAN : Tell(r, sent)) \/ LookUp(r) \/ Confirm(r)
             \/ AnswerOptions(r) \/ FindMembership(r) \/ Store(r) \/ ReadForJoin(r) \/ OpenConversation(r)
    BY <2>2, <1>1 DEF Change, Tell, LookUp, Confirm, AnswerOptions, FindMembership, Store,
       ReadForJoin, OpenConversation, Answers, Goes
  <2>3. CASE CallCrisp(r, "describe", "ask") \/ CallCrisp(r, "ask", "resolve")
             \/ CallCrisp(r, "resolve", "record")
    BY <2>3, <1>1 DEF CallCrisp, Goes
  <2>4. CASE CreateModeration(r) \/ FindModeration(r) \/ DeleteModeration(r) \/ SendProcessed(r)
             \/ Issue(r) \/ AddConnection(r)
    BY <2>4, <1>1 DEF CreateModeration, FindModeration, DeleteModeration, SendProcessed, Issue,
       AddConnection, Answers, Goes
  <2> QED BY <1>3, <2>1, <2>2, <2>3, <2>4 DEF Step
<1>4. CASE Arrive(r)
  BY <1>1, <1>4 DEF Arrive, Receive, ReceiveAbout, ReceiveCancel, ReceiveSilent, Credentials,
     ReceiveProcessed
<1> QED BY <1>2, <1>3, <1>4

LEMMA OthersStay ==
  ASSUME Inv, [Next]_vars, NEW s \in Requests, Moves(s), inFlight'[s].at # inFlight[s].at
  PROVE  Step(s)
<1>1. ~ UNCHANGED vars
  BY DEF vars
<1>2. ~ \E b \in Browsers : Forget(b)
  BY Here DEF Forget, RequestStates
<1>3. ~ \E m \in moderations, granted \in BOOLEAN : Moderate(m, granted)
  BY DEF Moderate
<1>4. PICK r \in Requests : Arrive(r) \/ Step(r)
  BY <1>1, <1>2, <1>3 DEF Next
<1>5. r = s
  BY <1>4, OneMoves
<1>6. ~ Arrive(s)
  BY DEF Moves, Arrive, Receive, ReceiveAbout, ReceiveCancel, ReceiveSilent, Credentials,
     ReceiveProcessed
<1> QED BY <1>4, <1>5, <1>6

-----------------------------------------------------------------------------
(* Requests too late.                                                      *)

LEMMA LookUpGoesOn ==
  ASSUME Inv, NEW r \in Requests, LookUp(r)
  PROVE  inFlight'[r].at \in {"confirm", "challenge"}
<1> DEFINE step == IF inFlight[r].kind = "options" THEN "challenge" ELSE "confirm"
<1>1. inFlight[r] \in RequestStates
  BY Here
<1>2. PICK u \in Ids : Becomes(r, [inFlight[r] EXCEPT
                                     !.at = step, !.found = [id |-> u, email |-> users[u]]])
  BY DEF LookUp
<1>3. inFlight'[r] = [inFlight[r] EXCEPT !.at = step, !.found = [id |-> u, email |-> users[u]]]
  BY <1>2, Becoming
<1> QED BY <1>1, <1>3 DEF RequestStates

LEMMA LateAnswers ==
  ASSUME Inv, NEW r \in Requests, Step(r), inFlight[r].late, ~ Free(r)
  PROVE  inFlight'[r].at = "done" =>
            /\ inFlight[r].kind = "options"
            /\ inFlight[r].found.id \notin {0, inFlight[r].user.id}
<1>1. /\ inFlight[r] \in RequestStates
      /\ WellPlaced(inFlight[r], Len(conversations)) /\ TooLate(inFlight[r], Gone)
  BY Here DEF Placed
<1>2. users[inFlight[r].user.id] = NoEmail
  BY <1>1 DEF TooLate, Gone
<1>3. \A answer : Answers(r, answer) => inFlight'[r].at = answer
  BY Becoming, IdleTyped DEF Answers, RequestStates
<1>4. \A step : Goes(r, step) => inFlight'[r].at = step
  BY Becoming, <1>1 DEF Goes, RequestStates
<1>5. CASE Check(r) \/ Fail(r) \/ Issue(r) \/ SendProcessed(r)
  BY <1>2, <1>3, <1>5 DEF Check, Fail, Issue, SendProcessed
<1>6. CASE Confirm(r)
  <2>1. inFlight[r].found.id # inFlight[r].user.id
    BY <1>1, <1>6 DEF TooLate, Confirm, At
  <2> QED BY <1>3, <1>6, <2>1 DEF Confirm
<1>7. CASE LookUp(r)
  BY <1>7, LookUpGoesOn
<1>8. inFlight[r].at \in {"check", "look up", "confirm", "challenge", "issue", "mail"}
  BY <1>1 DEF TooLate
<1>9. ~ (CreateSession(r) \/ TellOfDeletion(r) \/ DeleteUser(r) \/ Leave(r))
  BY <1>8 DEF CreateSession, TellOfDeletion, DeleteUser, Leave, At
<1>10. ~ (Change(r) \/ (\E sent \in BOOLEAN : Tell(r, sent)) \/ FindMembership(r) \/ Store(r))
  BY <1>8 DEF Change, Tell, FindMembership, Store, At
<1>11. ~ (ReadForJoin(r) \/ OpenConversation(r) \/ CallCrisp(r, "describe", "ask")
          \/ CallCrisp(r, "ask", "resolve") \/ CallCrisp(r, "resolve", "record"))
  BY <1>8 DEF ReadForJoin, OpenConversation, CallCrisp, At
<1>12. ~ (CreateModeration(r) \/ FindModeration(r) \/ DeleteModeration(r) \/ AddConnection(r))
  BY <1>8 DEF CreateModeration, FindModeration, DeleteModeration, AddConnection, At
<1>13. CASE AnswerOptions(r)
  <2>1. inFlight[r].at = "challenge"
    BY <1>13 DEF AnswerOptions, At
  <2>2. inFlight[r].found.id \in Ids /\ inFlight[r].found.id # inFlight[r].user.id
    BY <1>1, <2>1 DEF WellPlaced, TooLate, Users
  <2> QED BY <1>1, <2>1, <2>2 DEF WellPlaced, Ids
<1> QED BY <1>5, <1>6, <1>7, <1>9, <1>10, <1>11, <1>12, <1>13 DEF Step

\* Whatever requests are in flight together, and whoever takes the address, no request that
\* begins after the deletion of its account is answered as done, but one for the options of
\* a passkey as second factor, answered from the row of another account
\* (middlewares/user.ts, UserNotFoundError; managers/webauthn.ts, getAuthenticationOptions).
THEOREM DeletedRefused == Spec => DeletedAreRefused
<1> DEFINE Excepted(r) == /\ inFlight[r].kind = "options"
                          /\ inFlight[r].found.id \notin {0, inFlight[r].user.id}
<1>1. ASSUME Inv, [Next]_vars
      PROVE  \A r \in Requests :
                Moves(r) /\ inFlight[r].late /\ inFlight'[r].at = "done" => Excepted(r)
  <2> SUFFICES ASSUME NEW r \in Requests, Moves(r), inFlight[r].late, inFlight'[r].at = "done"
               PROVE  Excepted(r)
    OBVIOUS
  <2>1. ~ Free(r) /\ inFlight'[r].at # inFlight[r].at
    BY DEF Moves, Free, Ended
  <2>2. Step(r)
    BY <1>1, <2>1, OthersStay
  <2> QED BY <1>1, <2>1, <2>2, LateAnswers
<1>2. Inv /\ [Next]_vars =>
        [\A r \in Requests :
            Moves(r) /\ inFlight[r].late /\ inFlight'[r].at = "done" =>
                /\ inFlight[r].kind = "options"
                /\ inFlight[r].found.id \notin {0, inFlight[r].user.id}]_vars
  BY <1>1
<1> QED BY <1>2, InvAlways, PTL DEF Spec, DeletedAreRefused

-----------------------------------------------------------------------------
(* Owners are told.                                                        *)

LEMMA FactorAnswers ==
  ASSUME Inv, NEW r \in Requests, Step(r), inFlight[r].kind \in ChangesFactors, ~ Free(r),
         inFlight'[r].at = "done"
  PROVE  inFlight'[r].mailed
<1>1. inFlight[r] \in RequestStates /\ WellPlaced(inFlight[r], Len(conversations))
  BY Here DEF Placed
<1>2. \A answer : Answers(r, answer) => inFlight'[r].at = answer
  BY Becoming, IdleTyped DEF Answers, RequestStates
<1>3. \A step : Goes(r, step) => inFlight'[r].at = step
  BY Becoming, <1>1 DEF Goes, RequestStates
<1>4. inFlight[r].at \in {"check", "change", "look up", "confirm", "tell"}
  BY <1>1 DEF WellPlaced, ChangesFactors
<1>5. ASSUME NEW sent \in BOOLEAN, Tell(r, sent)
      PROVE  inFlight'[r].mailed
  <2>1. inFlight'[r] = [Idle EXCEPT !.at = IF sent THEN "done" ELSE "failed", !.mailed = sent]
    BY <1>5, Becoming DEF Tell
  <2> QED BY <2>1, IdleTyped DEF RequestStates
<1>6. ~ Check(r)
  <2>1. FirstStep[inFlight[r].kind] # "done"
    BY FirstSteps DEF ChangesFactors, Chained, FirstStep
  <2> QED BY <1>2, <1>3, <2>1 DEF Check
<1>7. ~ (Change(r) \/ Fail(r))
  BY <1>2, <1>3 DEF Change, Fail
<1>8. ~ (LookUp(r) \/ AnswerOptions(r))
  BY <1>4, LookUpGoesOn DEF AnswerOptions, At
<1>9. ~ Confirm(r)
  <2> SUFFICES ASSUME Confirm(r) PROVE FALSE
    OBVIOUS
  <2>1. inFlight[r].kind = "passkeys"
    BY <1>1 DEF WellPlaced, ChangesFactors, Confirm, At
  <2> QED BY <1>2, <1>3, <2>1 DEF Confirm
<1>10. ~ (CreateSession(r) \/ TellOfDeletion(r) \/ DeleteUser(r) \/ Leave(r) \/ FindMembership(r)
          \/ Store(r) \/ ReadForJoin(r) \/ OpenConversation(r))
  BY <1>4 DEF CreateSession, TellOfDeletion, DeleteUser, Leave, FindMembership, Store,
     ReadForJoin,
              OpenConversation, At
<1>11. ~ (CallCrisp(r, "describe", "ask") \/ CallCrisp(r, "ask", "resolve")
          \/ CallCrisp(r, "resolve", "record") \/ CreateModeration(r) \/ FindModeration(r)
          \/ DeleteModeration(r) \/ SendProcessed(r) \/ Issue(r) \/ AddConnection(r))
  BY <1>4 DEF CallCrisp, CreateModeration, FindModeration, DeleteModeration, SendProcessed, Issue,
              AddConnection, At
<1> QED BY <1>5, <1>6, <1>7, <1>8, <1>9, <1>10, <1>11 DEF Step

\* In every order of requests, mails and failures, the owner of an account that is gone was
\* told before it went, and a change of factors is answered as done after its mail.
THEOREM OwnersTold == Spec => OwnersAreTold
<1>1. ASSUME Inv, [Next]_vars
      PROVE  \A r \in Requests :
                Moves(r) /\ inFlight[r].kind \in ChangesFactors /\ inFlight'[r].at = "done" =>
                    inFlight'[r].mailed
  <2> SUFFICES ASSUME NEW r \in Requests, Moves(r), inFlight[r].kind \in ChangesFactors,
                      inFlight'[r].at = "done"
               PROVE  inFlight'[r].mailed
    OBVIOUS
  <2>1. ~ Free(r) /\ inFlight'[r].at # inFlight[r].at
    BY DEF Moves, Free, Ended
  <2>2. Step(r)
    BY <1>1, <2>1, OthersStay
  <2> QED BY <1>1, <2>1, <2>2, FactorAnswers
<1>2. Inv /\ [Next]_vars =>
        [\A r \in Requests :
            Moves(r) /\ inFlight[r].kind \in ChangesFactors /\ inFlight'[r].at = "done" =>
                inFlight'[r].mailed]_vars
  BY <1>1
<1>3. Inv => Gone \subseteq told
  BY DEF Inv, DeletionsAreTold
<1> QED BY <1>2, <1>3, InvAlways, PTL DEF Spec, OwnersAreTold

-----------------------------------------------------------------------------
(* Sessions stay their own.                                                *)

LEMMA Stores ==
  ASSUME Inv, NEW r \in Requests,
         Check(r) \/ Leave(r) \/ (\E sent \in BOOLEAN : Tell(r, sent)) \/ Confirm(r) \/ Issue(r)
  PROVE  SessionsBy(r) /\ Moves(r)
<1>1. ~ Free(r) /\ inFlight[r] \in RequestStates /\ Placed(inFlight[r], Len(conversations), Gone)
  BY Here DEF Check, Leave, Tell, Confirm, Issue, At, Free, Ended
<1>2. inFlight[r].user \in Users /\ inFlight[r].kind # "sign-in"
  BY <1>1 DEF Check, Leave, Tell, Confirm, Issue, At, Placed, WellPlaced, Ended
<1>3. \A answer : Answers(r, answer) => inFlight'[r].at = answer
  BY Becoming, IdleTyped DEF Answers, RequestStates
<1>4. \A step : Goes(r, step) => inFlight'[r].at = step
  BY Becoming, <1>1 DEF Goes, RequestStates
<1>5. UNCHANGED sessions => SessionsBy(r)
  BY SessionsSame
<1>6. Stored(r, NoUser) \/ Stored(r, inFlight[r].user) => SessionsBy(r)
  BY <1>1, <1>2, SessionsStored DEF NoUser
<1>7. CASE Check(r)
  <2>1. inFlight[r].kind \in Chained
    BY <1>1, <1>7 DEF Check, At, Placed, WellPlaced
  <2>2. FirstStep[inFlight[r].kind] # "check"
    BY <2>1, FirstSteps
  <2> QED BY <1>1, <1>3, <1>4, <1>5, <1>6, <1>7, <2>2 DEF Check, Destroyed, Moves, At
<1>8. CASE Leave(r)
  BY <1>1, <1>3, <1>6, <1>8 DEF Leave, Destroyed, Moves, At
<1>9. ASSUME NEW sent \in BOOLEAN, Tell(r, sent)
      PROVE  SessionsBy(r) /\ Moves(r)
  <2>1. inFlight'[r] = [Idle EXCEPT !.at = IF sent THEN "done" ELSE "failed", !.mailed = sent]
    BY <1>9, Becoming DEF Tell
  <2>2. inFlight'[r].at # "tell"
    BY <2>1, IdleTyped DEF RequestStates
  <2> QED BY <1>1, <1>6, <1>9, <2>2 DEF Tell, Moves, At
<1>10. CASE Confirm(r)
  <2>1. inFlight[r].found \in Users \cup {NoUser}
    BY <1>1 DEF RequestStates
  <2>2. Stored(r, inFlight[r].found) /\ inFlight[r].found.id = inFlight[r].user.id => SessionsBy(r)
    BY <1>1, <1>2, <2>1, SessionsStored
  <2>3. inFlight'[r].at # "confirm"
    BY <1>3, <1>4, <1>10 DEF Confirm
  <2> QED BY <1>1, <1>5, <1>10, <2>2, <2>3 DEF Confirm, Moves, At
<1>11. CASE Issue(r)
  BY <1>1, <1>3, <1>4, <1>5, <1>6, <1>11 DEF Issue, Moves, At
<1> QED BY <1>7, <1>8, <1>9, <1>10, <1>11

LEMMA OthersLeaveSessions ==
  ASSUME NEW r \in Requests, Step(r), ~ CreateSession(r),
         ~ (Check(r) \/ Leave(r) \/ (\E sent \in BOOLEAN : Tell(r, sent)) \/ Confirm(r) \/ Issue(r))
  PROVE  UNCHANGED sessions
<1>1. CASE Fail(r) \/ TellOfDeletion(r) \/ DeleteUser(r) \/ Change(r) \/ LookUp(r)
           \/ AnswerOptions(r)
  BY <1>1 DEF Fail, TellOfDeletion, DeleteUser, Change, LookUp, AnswerOptions, keys
<1>2. CASE FindMembership(r) \/ Store(r) \/ ReadForJoin(r) \/ OpenConversation(r)
  BY <1>2 DEF FindMembership, Store, ReadForJoin, OpenConversation, keys
<1>3. CASE CallCrisp(r, "describe", "ask") \/ CallCrisp(r, "ask", "resolve")
           \/ CallCrisp(r, "resolve", "record")
  BY <1>3 DEF CallCrisp, keys
<1>4. CASE CreateModeration(r) \/ FindModeration(r) \/ DeleteModeration(r) \/ SendProcessed(r)
           \/ AddConnection(r)
  BY <1>4 DEF CreateModeration, FindModeration, DeleteModeration, SendProcessed, AddConnection,
     keys
<1> QED BY <1>1, <1>2, <1>3, <1>4 DEF Step

LEMMA ArrivalsLeaveSessions ==
  ASSUME NEW r \in Requests, Arrive(r)
  PROVE  UNCHANGED <<links, moderations, connections, keys, conversations, told>>
BY DEF Arrive, Receive, ReceiveAbout, ReceiveCancel, ReceiveSilent, Credentials,
   ReceiveProcessed, tables

\* What becomes of the sessions in a step.
Own(b) ==
  sessions'[b].id \notin {0, sessions[b].id} =>
      \E r \in Requests :
          /\ Moves(r)
          /\ inFlight[r].browser = b
          /\ inFlight[r].user.id = sessions'[b].id
          /\ inFlight[r].kind = "sign-in" \/ sessions[b] = NoUser

\* However sessions end and come back, no session passes to another user but by a sign-in in
\* its browser (managers/session/authenticated.ts, updateUserInAuthenticatedSession).
THEOREM SessionsTheirOwn == Spec => SessionsStayTheirOwn
<1>1. ASSUME Inv, [Next]_vars, NEW b \in Browsers, sessions'[b].id \notin {0, sessions[b].id}
      PROVE  \E r \in Requests :
                  /\ Moves(r)
                  /\ inFlight[r].browser = b
                  /\ inFlight[r].user.id = sessions'[b].id
                  /\ inFlight[r].kind = "sign-in" \/ sessions[b] = NoUser
  <2>1. ~ UNCHANGED sessions
    BY <1>1
  <2>2. ~ UNCHANGED vars
    BY <2>1 DEF vars, keys
  <2>3. ~ ((\E c \in Browsers : Forget(c)) \/ \E m \in moderations, granted \in BOOLEAN : Moderate(m, granted))
    BY <2>1 DEF Forget, Moderate, keys
  <2>4. PICK r \in Requests : Arrive(r) \/ Step(r)
    BY <1>1, <2>2, <2>3 DEF Next
  <2>5. Step(r)
    BY <2>1, <2>4, ArrivalsLeaveSessions DEF keys
  <2>6. sessions \in [Browsers -> Users \cup {NoUser}]
    BY <1>1 DEF Inv, TypeOK
  <2>7. CASE CreateSession(r)
    <3>1. ~ Free(r) /\ inFlight[r] \in RequestStates /\ WellPlaced(inFlight[r], Len(conversations))
      BY <1>1, <2>7, Here DEF CreateSession, At, Free, Ended, Placed
    <3>2. inFlight[r].kind = "sign-in" /\ inFlight[r].browser \in Browsers
      BY <2>7, <3>1 DEF CreateSession, At, WellPlaced
    <3>3. inFlight[r].browser = b /\ inFlight[r].user.id = sessions'[b].id
      BY <1>1, <2>6, <2>7, <3>2 DEF CreateSession, NoUser
    <3>4. inFlight'[r].at \in Ended
      BY <2>7, AnswerEnds DEF CreateSession, Ended
    <3> QED BY <3>1, <3>2, <3>3, <3>4 DEF Moves, Free
  <2>8. CASE ~ CreateSession(r)
    <3>1. SessionsBy(r) /\ Moves(r)
      BY <1>1, <2>1, <2>5, <2>8, Stores, OthersLeaveSessions
    <3>2. Holds(r) /\ b = inFlight[r].browser /\ sessions'[b].id = inFlight[r].user.id
      BY <1>1, <3>1 DEF SessionsBy
    <3>3. sessions[b].id \in {0, inFlight[r].user.id}
      BY <1>1, <3>2 DEF Inv, OursAgree
    <3>4. sessions[b] = NoUser
      BY <1>1, <2>6, <3>2, <3>3, BoundsAssumption DEF Users, Ids
    <3> QED BY <3>1, <3>2, <3>4
  <2> QED BY <2>7, <2>8
<1>2. Inv /\ [Next]_vars => [\A b \in Browsers : Own(b)]_vars
  BY <1>1 DEF Own
<1>3. [\A b \in Browsers : Own(b)]_vars =>
        [\A b \in Browsers :
          sessions'[b].id \notin {0, sessions[b].id} =>
              \E r \in Requests :
                  /\ Moves(r)
                  /\ inFlight[r].browser = b
                  /\ inFlight[r].user.id = sessions'[b].id
                  /\ inFlight[r].kind = "sign-in" \/ sessions[b] = NoUser]_vars
  BY DEF Own
<1> QED BY <1>2, <1>3, InvAlways, PTL DEF Spec, SessionsStayTheirOwn

-----------------------------------------------------------------------------
(* Nothing for the deleted.                                                *)

LEMMA NoGain ==
  ASSUME UNCHANGED <<links, moderations, connections, keys, conversations, told>>, NEW u
  PROVE  ~ Gains(u)
BY DEF Gains, keys

\* A request of an account that is gone gains something for it only if it began before.
LEMMA GainsOfStep ==
  ASSUME Inv, NEW r \in Requests, Step(r), NEW u \in Gone, Gains(u)
  PROVE  Moves(r) /\ inFlight[r].user.id = u /\ ~ inFlight[r].late
<1>1. ~ Free(r)
  <2>1. CASE CreateSession(r) \/ Check(r) \/ Fail(r) \/ TellOfDeletion(r) \/ DeleteUser(r) \/ Leave(r)
    BY <2>1 DEF CreateSession, Check, Fail, TellOfDeletion, DeleteUser, Leave, At, Free, Ended
  <2>2. CASE Change(r) \/ (\E sent \in BOOLEAN : Tell(r, sent)) \/ LookUp(r) \/ Confirm(r)
             \/ AnswerOptions(r) \/ FindMembership(r) \/ Store(r) \/ ReadForJoin(r) \/ OpenConversation(r)
    BY <2>2 DEF Change, Tell, LookUp, Confirm, AnswerOptions, FindMembership, Store,
       ReadForJoin, OpenConversation, At, Free, Ended
  <2>3. CASE CallCrisp(r, "describe", "ask") \/ CallCrisp(r, "ask", "resolve")
             \/ CallCrisp(r, "resolve", "record")
    BY <2>3 DEF CallCrisp, At, Free, Ended
  <2>4. CASE CreateModeration(r) \/ FindModeration(r) \/ DeleteModeration(r) \/ SendProcessed(r)
             \/ Issue(r) \/ AddConnection(r)
    BY <2>4 DEF CreateModeration, FindModeration, DeleteModeration, SendProcessed, Issue,
                AddConnection, At, Free, Ended
  <2> QED BY <2>1, <2>2, <2>3, <2>4 DEF Step
<1>2. inFlight[r] \in RequestStates /\ Placed(inFlight[r], Len(conversations), Gone)
  BY <1>1, Here
<1>3. u \in Ids /\ users[u] = NoEmail /\ u # 0
  BY BoundsAssumption DEF Gone, Inv, TypeOK, Ids
<1>4. Becomes(r, [Idle EXCEPT !.at = "done"]) \/ Becomes(r, [Idle EXCEPT !.at = "failed"]) => Moves(r)
  BY <1>1, Becoming, IdleTyped DEF Moves, Free, Ended, RequestStates
<1>5. ~ (Fail(r) \/ Change(r) \/ LookUp(r) \/ AnswerOptions(r) \/ FindMembership(r)
         \/ ReadForJoin(r) \/ FindModeration(r) \/ SendProcessed(r))
  BY NoGain DEF Fail, Change, LookUp, AnswerOptions, FindMembership, ReadForJoin, FindModeration,
     SendProcessed, tables
<1>6. ~ CreateSession(r)
  <2> SUFFICES ASSUME CreateSession(r) PROVE FALSE
    OBVIOUS
  <2>1. UNCHANGED <<links, moderations, connections, opAccount, conversations, told>>
    BY DEF CreateSession, tables
  <2>2. selected'[u] \in {selected[u], NoOrganization}
    BY <1>3 DEF CreateSession, Inv, TypeOK
  <2>3. \A b \in Browsers : sessions'[b].id = u => sessions[b].id = u
    BY <1>3 DEF CreateSession, Inv, TypeOK, NoUser
  <2> QED BY <2>1, <2>2, <2>3 DEF Gains
<1>7. ~ (Check(r) \/ Leave(r))
  <2> SUFFICES ASSUME Check(r) \/ Leave(r) PROVE FALSE
    OBVIOUS
  <2>1. UNCHANGED <<links, moderations, connections, opAccount, conversations, told>>
    BY DEF Check, Leave, tables
  <2>2. Destroyed(r) \/ UNCHANGED <<selected, sessions>>
    BY DEF Check, Leave
  <2>3. selected'[u] \in {selected[u], NoOrganization}
    BY <1>3, <2>2 DEF Destroyed, Inv, TypeOK
  <2>4. \A b \in Browsers : sessions'[b].id = u => sessions[b].id = u
    <3>1. NoUser.id # u
      BY <1>3 DEF NoUser
    <3>2. sessions' = sessions \/ sessions' = [sessions EXCEPT ![inFlight[r].browser] = NoUser]
      BY <2>2 DEF Destroyed, Stored
    <3>3. sessions \in [Browsers -> Users \cup {NoUser}]
      BY DEF Inv, TypeOK
    <3> QED BY <3>1, <3>2, <3>3
  <2> QED BY <2>1, <2>3, <2>4 DEF Gains
<1>8. ~ TellOfDeletion(r)
  <2> SUFFICES ASSUME TellOfDeletion(r) PROVE FALSE
    OBVIOUS
  <2>1. UNCHANGED <<links, moderations, connections, keys, conversations>>
    BY DEF TellOfDeletion, tables
  <2>2. Len(conversations) \in Nat
    BY DEF Inv, TypeOK
  <2>3. u \notin told' \ told
    BY <1>3 DEF TellOfDeletion
  <2> QED BY <2>1, <2>2, <2>3 DEF Gains, keys
<1>9. ~ (DeleteUser(r) \/ DeleteModeration(r))
  BY DEF DeleteUser, DeleteModeration, Gains, keys
<1>10. ~ CreateModeration(r)
  BY <1>3 DEF CreateModeration, Gains, keys
<1>11. ~ AddConnection(r)
  BY <1>3 DEF AddConnection, Gains, keys
<1>12. ~ Issue(r)
  <2> SUFFICES ASSUME Issue(r) PROVE FALSE
    OBVIOUS
  <2>1. UNCHANGED <<links, moderations, connections, selected, conversations, told>>
    BY DEF Issue, tables
  <2>2. CASE UNCHANGED <<sessions, opAccount>>
    BY <2>1, <2>2, NoGain DEF keys
  <2>3. CASE users[inFlight[r].user.id] # NoEmail
    <3>1. Stored(r, inFlight[r].user)
          /\ opAccount' = [opAccount EXCEPT ![inFlight[r].browser] = inFlight[r].user.id]
      BY <2>3 DEF Issue
    <3>2. inFlight[r].user.id # u
      BY <1>3, <2>3
    <3> QED BY <2>1, <3>1, <3>2 DEF Gains, Stored, Inv, TypeOK
  <2> QED BY <2>2, <2>3 DEF Issue
<1>13. ~ \E step \in {"describe", "ask", "resolve"}, next \in {"ask", "resolve", "record"} :
           CallCrisp(r, step, next)
  <2> SUFFICES ASSUME NEW step, NEW next, CallCrisp(r, step, next) PROVE FALSE
    OBVIOUS
  <2>1. UNCHANGED <<links, moderations, connections, keys, told>>
    BY DEF CallCrisp, tables
  <2>2. Len(conversations') = Len(conversations) /\ Len(conversations) \in Nat
    BY DEF CallCrisp, Inv, TypeOK
  <2>3. \A c \in 1..Len(conversations') : ~ (c > Len(conversations))
    BY <2>2
  <2> QED BY <2>1, <2>3 DEF Gains, keys
<1>14. CASE OpenConversation(r)
  <2>1. UNCHANGED <<links, moderations, connections, keys, told>>
    BY <1>14 DEF OpenConversation, tables
  <2>2. conversations' = Append(conversations, [user |-> inFlight[r].user.id, told |-> {}])
    BY <1>14 DEF OpenConversation
  <2>3. conversations \in Seq([user : Ids, told : SUBSET {"describe", "ask", "resolve"}])
    BY DEF Inv, TypeOK
  <2>4. PICK c \in 1..Len(conversations') : conversations'[c].user = u /\ c > Len(conversations)
    BY <2>1 DEF Gains, keys
  <2>5. c = Len(conversations) + 1
    BY <2>2, <2>3, <2>4
  <2>6. conversations'[c] = [user |-> inFlight[r].user.id, told |-> {}]
    BY <2>2, <2>3, <2>5
  <2>7. inFlight'[r].at = "describe"
    BY <1>2, <1>14, Becoming DEF OpenConversation, RequestStates
  <2>8. ~ inFlight[r].late
    BY <1>2, <1>14 DEF OpenConversation, At, Placed, TooLate
  <2> QED BY <1>1, <1>14, <2>4, <2>6, <2>7, <2>8 DEF Moves, OpenConversation, At
<1>15. CASE Store(r)
  <2>1. UNCHANGED <<links, moderations, connections, sessions, opAccount, conversations, told>>
    BY <1>15 DEF Store, tables
  <2>2. selected'[u] # selected[u]
    BY <2>1 DEF Gains
  <2>3. inFlight[r].user.id = u
    BY <1>3, <1>15, <2>2 DEF Store, Inv, TypeOK
  <2>4. ~ inFlight[r].late
    BY <1>2, <1>15 DEF Store, At, Placed, TooLate
  <2> QED BY <1>4, <1>15, <2>3, <2>4 DEF Store, Answers
<1>16. CASE Confirm(r) \/ \E sent \in BOOLEAN : Tell(r, sent)
  <2>1. UNCHANGED <<links, moderations, connections, selected, opAccount, conversations, told>>
    BY <1>16 DEF Confirm, Tell, tables
  <2>2. PICK b \in Browsers : sessions'[b].id = u /\ sessions[b].id # u
    BY <2>1 DEF Gains
  <2>3. SessionsBy(r) /\ Moves(r)
    BY <1>16, Stores
  <2>4. inFlight[r].user.id = u
    BY <1>3, <2>2, <2>3 DEF SessionsBy
  <2>5. CASE Confirm(r)
    <3>1. inFlight[r].found.id = inFlight[r].user.id
      BY <2>2, <2>5 DEF Confirm
    <3> QED BY <1>2, <2>3, <2>4, <2>5, <3>1 DEF Confirm, At, Placed, TooLate
  <2>6. CASE \E sent \in BOOLEAN : Tell(r, sent)
    BY <1>2, <2>3, <2>4, <2>6 DEF Tell, At, Placed, TooLate
  <2> QED BY <1>16, <2>5, <2>6
<1> QED BY <1>5, <1>6, <1>7, <1>8, <1>9, <1>10, <1>11, <1>12, <1>13, <1>14, <1>15, <1>16 DEF Step

\* After a deletion nothing is ever kept again for the account, except by requests that were
\* in flight at that moment (controllers/user/delete.ts).
THEOREM NothingForDeleted == Spec => NothingForTheDeleted
<1>1. ASSUME Inv, [Next]_vars, NEW u \in Gone, Gains(u)
      PROVE  \E r \in Requests : Moves(r) /\ inFlight[r].user.id = u /\ ~ inFlight[r].late
  <2>1. ~ UNCHANGED vars
    BY <1>1, NoGain DEF vars, tables
  <2>2. ~ \E b \in Browsers : Forget(b)
    BY <1>1, NoGain DEF Forget, tables
  <2>3. ~ \E m \in moderations, granted \in BOOLEAN : Moderate(m, granted)
    <3> SUFFICES ASSUME NEW m \in moderations, NEW granted \in BOOLEAN, Moderate(m, granted)
                 PROVE  FALSE
      OBVIOUS
    <3>1. m.user # u
      BY <1>1 DEF Inv, ModerationsHaveUsers, Gone
    <3>2. links' \subseteq links \cup {[user |-> m.user, organization |-> m.organization]}
      BY DEF Moderate
    <3>3. UNCHANGED <<connections, keys, conversations, told>> /\ moderations' \subseteq moderations
      BY DEF Moderate
    <3> QED BY <1>1, <3>1, <3>2, <3>3 DEF Gains, keys
  <2>4. PICK r \in Requests : Arrive(r) \/ Step(r)
    BY <1>1, <2>1, <2>2, <2>3 DEF Next
  <2>5. ~ Arrive(r)
    BY <1>1, ArrivalsLeaveSessions, NoGain
  <2> QED BY <1>1, <2>4, <2>5, GainsOfStep
<1>2. Inv /\ [Next]_vars =>
        [\A u \in Gone :
          Gains(u) =>
              \E r \in Requests :
                  Moves(r) /\ inFlight[r].user.id = u /\ ~ inFlight[r].late]_vars
  BY <1>1
<1> QED BY <1>2, InvAlways, PTL DEF Spec, NothingForTheDeleted

=============================================================================
