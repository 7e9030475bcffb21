---------------------------- MODULE MCPacketLedger ----------------------------
(***************************************************************************)
(* PacketLedger on one audio stream of three packets, one video stream of  *)
(* two and one stream of another room.                                     *)
(***************************************************************************)
EXTENDS PacketLedger

CONSTANTS audio, video, other

MCStreams == {audio, video}
MCForeign == {other}
MCPackets == [s \in MCStreams |-> IF s = audio THEN 3 ELSE 2]
===============================================================================
