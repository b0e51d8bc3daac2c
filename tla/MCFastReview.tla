---------------------------- MODULE MCFastReview ----------------------------
(* Three requests on an instance, to which the budget guard may      *)
(* speak late or never, as to any other instance: two of one client, one of *)
(* them forced, and one of another client.                                  *)
EXTENDS FastReview

CONSTANTS i1, r1, r2, r3, alice, bob, run1, run2

MCInstances == {i1}
MCClients == {alice, bob}
MCRuns == {run1, run2}
MCThree == {r1, r2, r3}

\* r3 repeats the run id of r2.
MCInstanceOf == [r \in Requests |-> i1]
MCClientOf == [r \in Requests |-> IF r = r3 THEN bob ELSE alice]
MCRunOf == [r \in Requests |-> IF r = r1 THEN run1 ELSE run2]
MCForced == {r2}
MCNobody == {}
=============================================================================
