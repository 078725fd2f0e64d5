----------------------------- MODULE MCSynchCons -----------------------------
(* Instances of SynchCons for TLC. *)
EXTENDS SynchCons

CONSTANTS t1, t2

\* All of up to two characters, and lines for two readers.
Lines ==
    UNION {[1..n -> Char] : n \in 0..2}
    \cup {<<"letter", "letter", "letter">>, <<"letter", "newline", "letter">>,
          <<"letter", "EOF", "letter", "newline">>}
=============================================================================
