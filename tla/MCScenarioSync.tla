---------------------------- MODULE MCScenarioSync ----------------------------
(***************************************************************************)
(* ScenarioSync with two rooms: one of two peers, of which one publishes,  *)
(* and one of a single publishing peer.                                    *)
(***************************************************************************)
EXTENDS ScenarioSync

CONSTANTS r1, r2, p1, p2, p3

MCRooms == {r1, r2}
MCPeers == {p1, p2, p3}
MCRoom == [p \in MCPeers |-> IF p = p3 THEN r2 ELSE r1]
MCWork == [p \in MCPeers |-> IF p = p2 THEN 0 ELSE 1]

===============================================================================
