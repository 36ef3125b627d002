---------------------------- MODULE MCCloudClient ----------------------------
(* Instance of CloudClient for TLC: two addresses, two queries.            *)
EXTENDS CloudClient

CONSTANTS a1, a2, q1, q2, m1, m2

MCAddresses == {a1, a2}
MCQueries   == {q1, q2}
MCMessages  == {m1, m2}

MCOneAddress == {a1}
MCOneMessage == {m1}

=============================================================================
