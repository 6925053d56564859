--------------------------- MODULE MCZoneIngester ---------------------------
(* Small instances of ZoneIngester for TLC. *)
EXTENDS ZoneIngester

\* Every kind of entry.
AllKinds == {"reading", "other", "undecodable", "unparsable", "empty"}

\* The kinds that some path of the ingester acknowledges; "other" and
\* "undecodable" take the same one.
AckedKinds == {"reading", "undecodable", "empty"}
====
