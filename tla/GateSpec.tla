------------------------------ MODULE GateSpec ------------------------------
(***************************************************************************)
(* What both gates of checkpoint.cpp promise (checkpoint.h).  Users are    *)
(* admitted and leave; checkpoints ask to close the gate, hold it once     *)
(* nobody is inside, and reopen it.  From the moment a checkpoint asks     *)
(* until it reopens the gate nobody is admitted, and one checkpoint at a   *)
(* time holds it.                                                          *)
(***************************************************************************)
CONSTANTS Users, Checkpoints

VARIABLES
    inside,    \* users that were admitted and have not left
    closing,   \* checkpoints that asked for the gate and have not resumed it
    holding    \* checkpoints that were told the gate is theirs

gvars == <<inside, closing, holding>>

GInit ==
    /\ inside = {}
    /\ closing = {}
    /\ holding = {}

Admit(u) ==
    /\ u \notin inside
    /\ closing = {}
    /\ inside' = inside \cup {u}
    /\ UNCHANGED <<closing, holding>>

Leave(u) ==
    /\ u \in inside
    /\ inside' = inside \ {u}
    /\ UNCHANGED <<closing, holding>>

Ask(k) ==
    /\ k \notin closing
    /\ closing' = closing \cup {k}
    /\ UNCHANGED <<inside, holding>>

\* A checkpoint that finds the gate empty asks and holds at once.
Hold(k) ==
    /\ holding = {}
    /\ inside = {}
    /\ closing' = closing \cup {k}
    /\ holding' = {k}
    /\ UNCHANGED inside

Reopen(k) ==
    /\ k \in holding
    /\ closing' = closing \ {k}
    /\ holding' = {}
    /\ UNCHANGED inside

GNext ==
    \/ \E u \in Users : Admit(u) \/ Leave(u)
    \/ \E k \in Checkpoints : Ask(k) \/ Hold(k) \/ Reopen(k)

GSpec == GInit /\ [][GNext]_gvars

=============================================================================
