------------------------- MODULE MCDiscoveryPaging -------------------------
(* A small instance of DiscoveryPaging for TLC. *)
EXTENDS DiscoveryPaging

Request(limit, search, schema) == [limit |-> limit, search |-> search, schema |-> schema]
Asked == {Request(1, TRUE, "right"), Request(2, FALSE, "right"), Request(1, FALSE, "wrong")}
Keys == {{1, 3}}
===========================================================================
