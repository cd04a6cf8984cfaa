------------------------------ MODULE VersionLog ------------------------------
(***************************************************************************)
(* What ingestion promises a client: every filename has a log of versions, *)
(* numbered 1, 2, 3, ... without a gap, that only ever grows and never     *)
(* holds the same PDF bytes twice.                                         *)
(***************************************************************************)
EXTENDS Naturals, FiniteSets

CONSTANTS Names,      \* filenames, which identify documents
          Contents    \* PDF byte strings

VARIABLE log          \* the set of published versions, over all filenames

Entry == [name : Names, number : Nat, content : Contents]

Numbers(n) == {e.number : e \in {x \in log : x.name = n}}

Init == log = {}

\* The next number of filename n goes to bytes that n does not hold yet.
Publish(n, c) ==
    /\ \A e \in log : e.name = n => e.content # c
    /\ log' = log \cup {[name |-> n, content |-> c,
                         number |-> Cardinality(Numbers(n)) + 1]}

Next == \E n \in Names, c \in Contents : Publish(n, c)

Spec == Init /\ [][Next]_log
================================================================================
