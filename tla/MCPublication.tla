---------------------------- MODULE MCPublication ----------------------------
(* Two converters and a report generator behind one closeout.               *)
EXTENDS Publication

MCKind(p) ==
    CASE p = "closeout" -> "recovery"
      [] p = "report" -> "overview"
      [] OTHER -> "perfetto"
=============================================================================
