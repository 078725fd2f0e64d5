--------------------------- MODULE MCWaterPipeline ---------------------------
(* Instances of WaterPipeline for TLC. *)
EXTENDS WaterPipeline

\* Up to three students, and up to three time points, as in input.txt, or four.
Students == UNION {[1..n -> {"1", "3"}] : n \in 1..3}
MCInputs == UNION {[1..n -> UNION {[1..k -> {"1", "3"}] : k \in 1..2}] : n \in 0..3}
            \cup [1..1 -> Students]
            \cup [1..4 -> {<<"1">>, <<"3", "1">>}]
            \cup {<< <<"4", "2", "1">>, <<"5", "3", "4", "1">>, <<"8", "5", "2">> >>}
=============================================================================
