-------------------------- MODULE MCConfiguration --------------------------
(* Instances of Configuration for TLC: two organizations' client ids, a     *)
(* plain one, base URLs with and without slashes and /api, and arguments    *)
(* that supply and omit, clear and are refused.                              *)
EXTENDS Configuration, TLC

CONSTANTS main, worker

Hosts == [x \in {"acme.1", "zeta.2"} |-> IF x = "acme.1" THEN "acme.in" ELSE "zeta.in"]
Parts  == {"acme.in", "zeta.in", "in", "log", "a", "b", "d", "env", "api", Empty}
InUrl  == <<"in">>
LogUrl == <<"log">>

Given == {
  [client_id |-> "acme.1", client_secret |-> "s1", derive |-> TRUE],
  [client_id |-> "plain", client_secret |-> "s2", base_url |-> <<"a", Empty>>],
  [client_id |-> "zeta.2", client_secret |-> Empty],
  [base_url |-> <<"b", "api", Empty>>],
  [client_secret |-> "s3", derive |-> Bad]}
Assigned == {[log_base_url |-> <<"d", Empty, Empty>>], [cache_ttl |-> Bad]}

Unset == [s \in FromEnvironment |-> None]
Envs == {[Unset EXCEPT !.client_id = "zeta.2", !.client_secret = "e"],
         [Unset EXCEPT !.base_url = <<"env">>, !.log_base_url = <<"env", Empty>>]}
=============================================================================
