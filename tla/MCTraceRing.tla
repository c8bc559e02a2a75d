---------------------------- MODULE MCTraceRing ----------------------------
(* Small instances of TraceRing for TLC.                                    *)
EXTENDS TraceRing, TLC

\* the producers run the same code
ProducerSymmetry == Permutations(Producers)

=============================================================================
