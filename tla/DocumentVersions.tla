--------------------------- MODULE DocumentVersions ---------------------------
(***************************************************************************)
(* What the rest of the service relies on of one document's stored         *)
(* versions.  A version is the function from the lineages of its nodes to  *)
(* their content hashes: no two nodes of a version share a lineage.        *)
(* Versions are only appended, and a new one takes up no lineage that the  *)
(* latest version has already lost.                                        *)
(***************************************************************************)
EXTENDS Naturals, Sequences

VARIABLE versions

Used == UNION {DOMAIN versions[v] : v \in DOMAIN versions}

\* The lineages of f are new or those of the latest version.
Admissible(f) ==
    versions # <<>> => DOMAIN f \cap Used \subseteq DOMAIN versions[Len(versions)]

Init == versions = <<>>

Next ==
    /\ Len(versions') = Len(versions) + 1
    /\ \A v \in DOMAIN versions : versions'[v] = versions[v]
    /\ Admissible(versions'[Len(versions')])

Spec == Init /\ [][Next]_versions
================================================================================
