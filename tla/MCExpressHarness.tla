--------------------------- MODULE MCExpressHarness ---------------------------
(* The chain logs a line, announces it is running, and logs two more; the *)
(* pipe holds two lines, so the chain blocks until the reader catches up.  *)
EXTENDS ExpressHarness

MCOutput == <<LOG, READY, LOG, LOG>>
=============================================================================
