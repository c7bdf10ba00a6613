---------------------------- MODULE TickContract ----------------------------
(***************************************************************************)
(* What the ticks of a world promise its users.  A tick that succeeds      *)
(* advances every island once: its states move to the next ones, or take   *)
(* their failed transition if it could not be solved, and every subscriber *)
(* then knows what its observer shows.  A tick that does not succeed       *)
(* changes nothing; one that has begun to commit succeeds.                 *)
(***************************************************************************)
CONSTANTS Failed(_, _),   \* the state of a component after a tick its island failed
          Advanced(_)     \* the state after a solved one

VARIABLES
    islandOf,    \* the island of each component
    parameter,   \* of each device
    state,       \* of each component that has one
    seen,        \* [component, shown]: what each subscription shows
    committing   \* a tick has begun to commit

vars == <<islandOf, parameter, state, seen, committing>>

Unassigned == "unassigned"

Members(island) == {c \in DOMAIN islandOf : islandOf[c] = island}
Islands == {islandOf[c] : c \in DOMAIN islandOf}
Parts(island) == {c[1] : c \in Members(island)}

\* What an island that was solved shows depends on its parameters and states.
Shown(island) ==
    [ parameters |-> [d \in Parts(island) |-> parameter[d]],
      inputs |-> [c \in Members(island) \cap DOMAIN state |-> state[c]] ]

Commit ==
    /\ committing' = TRUE
    /\ UNCHANGED <<islandOf, parameter, state, seen>>

Tick ==
    \E failing \in SUBSET Islands :
        /\ committing /\ ~committing'
        /\ \A i \in Islands \ failing : \A d \in Parts(i) : parameter[d] # Unassigned
        /\ state' = [c \in DOMAIN state |-> IF islandOf[c] \in failing THEN Failed(c, state[c])
                                            ELSE Advanced(state[c])]
        /\ seen' = [s \in DOMAIN seen |->
            LET island == islandOf[seen[s].component] IN
            [seen[s] EXCEPT !.shown = IF island \in failing THEN <<"unavailable">>
                                      ELSE <<"available", Shown(island)>>]]
        /\ UNCHANGED <<islandOf, parameter>>

\* Commands and subscriptions: a state stays with its component, and what a
\* subscription shows changes with a tick only.
Edit ==
    /\ ~committing /\ ~committing'
    /\ \A c \in DOMAIN state \cap DOMAIN state' : state'[c] = state[c]
    /\ \A c \in DOMAIN state' \ DOMAIN state : state'[c] = "initial"
    /\ \A s \in DOMAIN seen \cap DOMAIN seen' : seen'[s] = seen[s]
    /\ \A s \in DOMAIN seen' \ DOMAIN seen : seen'[s].shown = << >>
    /\ \A s \in DOMAIN seen' : seen'[s].component \in DOMAIN islandOf'

Init ==
    /\ islandOf = << >> /\ parameter = << >> /\ state = << >> /\ seen = << >>
    /\ ~committing

Next == Commit \/ Tick \/ Edit

Spec == Init /\ [][Next]_vars
=============================================================================
