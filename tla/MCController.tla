----------------------------- MODULE MCController -----------------------------
(* Small instances of Controller for TLC. *)
EXTENDS Controller

\* Two attempts at startup, so that one is retried and one is the last.
MCStartupAttempts == 2

\* One periodic sample, which can fall before, between and after the phases.
MCMaxTicks == 1

\* Two things go wrong in one run.
MCMaxFailures == 2
===============================================================================
