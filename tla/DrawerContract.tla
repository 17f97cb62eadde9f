---------------------------- MODULE DrawerContract ----------------------------
(***************************************************************************)
(* What every page promises of its drawer: it can be opened for any row    *)
(* (or for a new one) at any time, also over another; a save keeps the row *)
(* it was clicked for; while one is under way no other starts and the      *)
(* drawer does not close.  A save that fails leaves the drawer that is     *)
(* open by then, one that succeeds closes it, whichever row it shows.      *)
(***************************************************************************)
CONSTANTS Targets, NoTarget
VARIABLES open, target, saved

vars == <<open, target, saved>>

Init == open = FALSE /\ target = NoTarget /\ saved = {}

Open(t) == open' = TRUE /\ target' = t /\ UNCHANGED saved
Save == open /\ saved = {} /\ saved' = {target} /\ UNCHANGED <<open, target>>
SaveFails == saved # {} /\ saved' = {} /\ UNCHANGED <<open, target>>
SaveEnds == saved # {} /\ saved' = {} /\ open' = FALSE /\ target' = NoTarget
Close == open /\ saved = {} /\ open' = FALSE /\ target' = NoTarget /\ UNCHANGED saved

Next == (\E t \in Targets : Open(t)) \/ Save \/ SaveFails \/ SaveEnds \/ Close

Spec == Init /\ [][Next]_vars
=============================================================================
