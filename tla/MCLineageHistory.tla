--------------------------- MODULE MCLineageHistory ---------------------------
(***************************************************************************)
(* Small instances of LineageHistory.  "B A" has the words of "A B" but    *)
(* another key, and a section called "Root" has the root's key.            *)
(***************************************************************************)
EXTENDS LineageHistory

MCHeadings == {"root", "Root", "A B", "B A"}
MCBodies == {"", "x"}
MCKey == [h \in MCHeadings |->
            CASE h = "A B" -> "a b" [] h = "B A" -> "b a" [] OTHER -> "root"]
MCWords == [h \in MCHeadings |->
              IF h \in {"root", "Root"} THEN {"root"} ELSE {"a", "b"}]

Section(h, b, d) == [heading |-> h, body |-> b, depth |-> d]

\* Every shape and labelling of a root and up to n sections over headings hs.
RECURSIVE Forests(_, _)
Forests(n, hs) ==
    IF n = 0 THEN {<<Section("root", b, 0)>> : b \in MCBodies}
    ELSE LET shorter == Forests(n - 1, hs)
         IN  shorter \cup
             {Append(t, Section(h, b, d)) :
                t \in {s \in shorter : Len(s) = n}, h \in hs, b \in MCBodies,
                d \in {1, 2}}

WellFormed(t) == \A i \in 2..Len(t) : t[i].depth <= t[i - 1].depth + 1

Labels == {<<"Root", "x">>, <<"A B", "x">>, <<"A B", "">>, <<"B A", "x">>}

\* A root and up to two sections.
TwoSections ==
    {t \in Forests(2, {"Root", "A B", "B A"}) :
        /\ WellFormed(t)
        /\ \A i \in 2..Len(t) : <<t[i].heading, t[i].body>> \in Labels}
================================================================================
