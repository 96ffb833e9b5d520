---------------------------- MODULE MCIndexBuild ----------------------------
(***************************************************************************)
(* A small schema for IndexBuild: the primary key of a partitioned table   *)
(* and of its one partition, and an index with an expression; a foreign    *)
(* key to the partitioned table and one to the partition, both on the same *)
(* table; a check that came with its table, whose text the target renders  *)
(* unlike the source, as it does that of the second foreign key; one       *)
(* comment.                                                                *)
(***************************************************************************)
EXTENDS IndexBuild

CONSTANTS pkey, part, expr, toparted, topart, check, t1

MCIndex    == {pkey, part, expr}
MCParent   == [x \in MCIndex |-> IF x = part THEN pkey ELSE None]
MCBytes    == [x \in MCIndex |-> IF x = pkey THEN 0 ELSE 1]
MCForeignKey == {toparted, topart}
MCRefers   == [c \in MCForeignKey |-> IF c = toparted THEN pkey ELSE part]
MCOnTable  == [c \in MCForeignKey |-> t1]
=============================================================================
