----------------------------- MODULE MCIngestStore -----------------------------
(***************************************************************************)
(* Small instances of IngestStore for TLC.                                 *)
(***************************************************************************)
EXTENDS IngestStore, TLC

\* Uploads, filenames and bytes are interchangeable (safety runs only).
Interchangeable ==
    Permutations(Requests) \cup Permutations(Names) \cup Permutations(Contents)
        \cup Permutations(Workers)
================================================================================
