-------------------------- MODULE DiscoveryPaging --------------------------
(***************************************************************************)
(* A client reads listings page by page from each of the three engines     *)
(* while their catalogs change.                                            *)
(***************************************************************************)
EXTENDS PostgresDiscovery, MySQLDiscovery, SqliteDiscovery

ClientStep ==
    \E r \in Requests :
       StartListing(r) \/ NextPage(r) \/ \E ordinal \in BOOLEAN : BadCursor(r, ordinal)

CatalogStep ==
    \/ \E o \in Ids : CreateObject(o) \/ DropObject(o)
    \/ \E what \in {"no schema", "schema denied", "no relation", "relation denied", "other kind"} :
          Vanish(what)
    \/ \E objects \in SUBSET Ids : Reappear(objects)

Next ==
    \/ ClientStep \/ CatalogStep \/ CancelRequest \/ QueryTimeout
    \/ CheckRequest \/ ListDataSources \/ PgNext \/ MyNext \/ LiteNext \/ Respond

Spec == Init /\ [][Next]_vars
---------------------------------------------------------------------------
Steady == listing.begun \ gone
Found(objects) == IF listing.request.search THEN objects \cap Matching ELSE objects

(* A listing read to its end is whole, whatever happened to the catalog    *)
(* meanwhile, whichever calls failed and were repeated, and whatever else  *)
(* the client sent with its cursor: every object that was there from the   *)
(* first page on was on a page, and none was twice.  Of columns that are   *)
(* renumbered (MySQL, SQLite) at most one is missed for every column       *)
(* dropped meanwhile, and one repeated for every column added.  With the   *)
(* columns come their constraints (of MySQL, those of the first page).     *)
(* The cursors of execution/cursor.go and the discoverers' LIMIT + 1.      *)
ListingIsWhole ==
    /\ listing.repeats <= IF Renumbered THEN additions ELSE 0
    /\ listing.state = "complete" =>
          /\ Cardinality(Found(Steady) \ listing.delivered) <= IF Renumbered THEN drops ELSE 0
          /\ operation = "columns" =>
                \A k \in Constraints :
                   LET seen == IF engine = "mysql" THEN listing.first ELSE listing.delivered IN
                   k \subseteq Steady /\ k \cap seen # {} => k \in listing.constraints

(* A page is only answered if nothing failed while it was read.  A failure *)
(* is told by the category of something that happened, or by that of the   *)
(* contexts, and a request that was given up is never told as a failure of *)
(* the database.  What SQLite reports by a code of its own is told as      *)
(* internal (Classify over the errors of the discoverers).                 *)
FailuresAreExplained ==
    pc = "idle" /\ answer # "none" =>
        /\ answer = "ok" => causes = {}
        /\ answer # "ok" =>
              \/ answer \in causes
              \/ answer = "cancelled" /\ ctx = "cancelled"
              \/ answer = "query_timeout" /\ query = "deadline"
              \/ /\ engine = "sqlite" /\ answer = "internal"
                 /\ causes \cap {LiteFailures[code] : code \in DOMAIN LiteFailures} # {}
        /\ ctx = "cancelled" /\ engine = "postgres" =>
              answer \notin {"database_unavailable", "internal", "query_timeout"}
===========================================================================
