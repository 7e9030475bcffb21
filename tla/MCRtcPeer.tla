------------------------------- MODULE MCRtcPeer -------------------------------
(***************************************************************************)
(* RtcPeer with a timeline of three packets, two milliseconds apart so that*)
(* timeouts fall due between them, and the last of them out of order;      *)
(* passes of two reads over three media packets and two other datagrams;   *)
(* and a peer that stalls twice.                                           *)
(***************************************************************************)
EXTENDS RtcPeer

MCOffsets == <<0, 2, 1>>
===============================================================================
