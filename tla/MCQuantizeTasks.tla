--------------------------- MODULE MCQuantizeTasks ---------------------------
(* Small instances of QuantizeTasks for TLC. *)
EXTENDS QuantizeTasks

\* Two sources; the same label twice, another label, and a target format that
\* ModelFormat() rejects.
R(s, b, f) == [src |-> s, bits |-> b, format |-> f]
MCSubmissions == {R("v1", 4, "mlx"), R("v2", 4, "pickle")}
MCOneSubmission == {R("v1", 4, "mlx")}
=============================================================================
