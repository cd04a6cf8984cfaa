------------------------------ MODULE MCEngineInit ------------------------------
(***************************************************************************)
(* A small schema: two tables with an index each, as versions and nodes    *)
(* have, and nodes_fts.                                                    *)
(***************************************************************************)
EXTENDS EngineInit

SmallSchema == <<1, 1, 3, 3>>
================================================================================
