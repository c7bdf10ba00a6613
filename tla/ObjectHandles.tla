--------------------------- MODULE ObjectHandles ---------------------------
(***************************************************************************)
(* What an electrical world promises the holders of Wire and Device        *)
(* handles: a new object gets a handle no object ever had, the handle is   *)
(* usable until its object is removed, and never again afterwards.         *)
(***************************************************************************)
CONSTANT Handles   \* every handle that can be written down

VARIABLES
    issued,   \* the handles given out so far
    usable    \* the handles the world accepts

vars == <<issued, usable>>

Init == issued = {} /\ usable = {}

Create(h) ==
    /\ h \notin issued
    /\ issued' = issued \cup {h}
    /\ usable' = usable \cup {h}

Destroy(h) ==
    /\ h \in usable
    /\ usable' = usable \ {h}
    /\ UNCHANGED issued

Next == \E h \in Handles : Create(h) \/ Destroy(h)

Spec == Init /\ [][Next]_vars
=============================================================================
