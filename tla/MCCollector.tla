---------------------------- MODULE MCCollector ----------------------------
(***************************************************************************)
(* A small instance of Collector: three punches, of which the last carries *)
(* the watermark past the first, the second may be written after the last, *)
(* and the first may grow too old or fall out of the look-back.            *)
(***************************************************************************)
EXTENDS Collector

MCPunches == {"p1", "p2", "p3"}
MCTime    == [p \in MCPunches |-> CASE p = "p1" -> 1 [] p = "p2" -> 3 [] p = "p3" -> 4]
=============================================================================
