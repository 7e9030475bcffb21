------------------------------ MODULE MCSignaling ------------------------------
(***************************************************************************)
(* Signaling for a mixed room: one peer publishes audio and camera, one a  *)
(* camera only, and one listens.  A connection may break, or the server may*)
(* have a peer close its RTC peer; an event may be on its way at any time. *)
(***************************************************************************)
EXTENDS Signaling

MCMaxFaults == 1
===============================================================================
