--------------------------- MODULE MCAccessTokens ---------------------------
(* Instances of AccessTokens for TLC.                                        *)
EXTENDS AccessTokens, TLC

CONSTANTS c1, c2

A      == <<"h", "a">>
AB     == <<"h", "a", "b">>
AC     == <<"h", "a", "c">>

MCUrls == {A, AB, AC}

(* An environment at h/a, with one inside it at h/a/b that is registered     *)
(* now and then.                                                             *)
MCResolve == A :> {A} @@ AB :> {A, AB} @@ AC :> {A}

MCAnswers == {[status |-> 201, minted |-> TRUE], [status |-> 401, minted |-> FALSE]}
=============================================================================
