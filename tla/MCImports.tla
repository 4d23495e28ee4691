------------------------------- MODULE MCImports -------------------------------
(* Instances of Imports for TLC. *)
EXTENDS ImportsProperties, TLC

E1 == CHOOSE e \in Emails : TRUE
O1 == CHOOSE o \in Sirets : TRUE
O2 == CHOOSE o \in Sirets : o # O1

Line(email, named, sirets) == [email |-> email, named |-> named, sirets |-> sirets]

\* An email that is there twice, and entries that are refused early or late.
SmallFiles ==
  [accounts |-> {<<Line(E1, TRUE, <<O1, O2>>)>>, <<Line(E1, TRUE, <<>>)>>,
                 <<Line(E1, TRUE, <<None>>), Line(E1, FALSE, <<O1>>)>>},
   coop |-> {<<Line(E1, TRUE, <<O1>>), Line(E1, TRUE, <<O2>>)>>,
             <<Line(E1, TRUE, <<None>>), Line(None, TRUE, <<O1>>)>>}]
=============================================================================
