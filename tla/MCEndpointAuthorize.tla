------------------------- MODULE MCEndpointAuthorize -------------------------
(* An instance of EndpointAuthorize for TLC: two clients of one route, one   *)
(* of them on two versions, and room for two grants.                         *)
EXTENDS EndpointAuthorize, TLC

CONSTANTS t1, t2

R(client, version) == [client |-> client, route |-> "r", version |-> version, host |-> "h"]
MCRequests == {R("alice", "1"), R("alice", "2"), R("bob", "1")}
MCKeys     == {CacheKey(r) : r \in MCRequests}
MCGrants   == {GrantOf(r) : r \in MCRequests} \cup {NoGrant}
=============================================================================
