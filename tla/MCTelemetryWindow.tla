--------------------------- MODULE MCTelemetryWindow ---------------------------
(***************************************************************************)
(* TelemetryWindow and its Dashboard with the kernel's usual 100 ticks,    *)
(* over three milliseconds: time for a first sample, two periodic ones and *)
(* a final one, of which two may fail.  The disagreement about faultless   *)
(* runs needs no periodic sample: one millisecond shows it.                *)
(***************************************************************************)
EXTENDS Dashboard

MCMaxClock == 3
MCMaxTicks == 2
MCMaxErrors == 2

MCShortClock == 1
===============================================================================
