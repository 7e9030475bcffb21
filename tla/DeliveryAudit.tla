---------------------------- MODULE DeliveryAudit ----------------------------
(***************************************************************************)
(* What the packet accounting of one receiving peer promises, without the  *)
(* means: every measured packet that reaches the peer before its account   *)
(* is closed is heard, and the account is closed as clean exactly when     *)
(* each expected stream was heard once, completely and in order, and       *)
(* nothing else was heard.                                                 *)
(***************************************************************************)
EXTENDS Naturals, Sequences

CONSTANTS
    Streams,    \* the (source, kind, layer) identities this peer subscribes to
    Packets     \* measured packets each stream owes this peer

VARIABLES
    heard,      \* heard[s]: the ordinals heard on stream s, in order of arrival
    foul,       \* something came that belongs to no stream, or was damaged
    verdict     \* "open" until the account is closed

auditVars == <<heard, foul, verdict>>

Ordinals(s) == 0 .. (Packets[s] - 1)

InOrder(s) == [i \in 1 .. Packets[s] |-> i - 1]

Exact == /\ ~foul
         /\ \A s \in Streams : heard[s] = InOrder(s)

AuditInit == /\ heard = [s \in Streams |-> << >>]
             /\ foul = FALSE
             /\ verdict = "open"

Hear(s, o, damaged) ==
    /\ verdict = "open"
    /\ heard' = [heard EXCEPT ![s] = Append(@, o)]
    /\ foul' = (foul \/ damaged)
    /\ UNCHANGED verdict

HearStray ==
    /\ verdict = "open"
    /\ foul' = TRUE
    /\ UNCHANGED <<heard, verdict>>

Close ==
    /\ verdict = "open"
    /\ verdict' = IF Exact THEN "clean" ELSE "dirty"
    /\ UNCHANGED <<heard, foul>>

AuditNext ==
    \/ \E s \in Streams : \E o \in Ordinals(s), damaged \in BOOLEAN :
            Hear(s, o, damaged)
    \/ HearStray
    \/ Close

AuditSpec == AuditInit /\ [][AuditNext]_auditVars
==============================================================================
