------------------------------ MODULE MCPaging ------------------------------
(* Instances of Paging for TLC. *)
EXTENDS Paging

(* The ends of what is allowed, and one beyond each.                          *)
LimitsTried == {0, 1, MaxPageSize, MaxPageSize + 1}
=============================================================================
