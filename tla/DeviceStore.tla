----------------------------- MODULE DeviceStore -----------------------------
(***************************************************************************)
(* What the storage of devices promises: every device has a parameter and  *)
(* a physical state of its own, wherever they are stored, and whatever     *)
(* happens to the other devices leaves them alone.                         *)
(***************************************************************************)
CONSTANTS Devices, Parameters

VARIABLE store   \* the devices there are

Unassigned == "unassigned"

Init == store = << >>

Add(d) ==
    /\ d \notin DOMAIN store
    /\ store' = [e \in DOMAIN store \cup {d} |->
                    IF e = d THEN [parameter |-> Unassigned, state |-> "initial"] ELSE store[e]]

Remove(d) ==
    /\ d \in DOMAIN store
    /\ store' = [e \in DOMAIN store \ {d} |-> store[e]]

SetParameter(d, value) ==
    /\ d \in DOMAIN store
    /\ store' = [store EXCEPT ![d].parameter = value]

\* Each island of devices advances or, if its solution failed, keeps its states.
Tick ==
    \E advancing \in SUBSET DOMAIN store :
        /\ \A d \in advancing : store[d].parameter # Unassigned
        /\ store' = [d \in DOMAIN store |->
                        IF d \in advancing THEN [store[d] EXCEPT !.state = "next"] ELSE store[d]]

Next ==
    \/ \E d \in Devices : Add(d) \/ Remove(d) \/ \E value \in Parameters : SetParameter(d, value)
    \/ Tick

Spec == Init /\ [][Next]_store
=============================================================================
