------------------------- MODULE DefinitionCatalog -------------------------
(***************************************************************************)
(* What the definition store of an engine promises: a catalog that only    *)
(* grows, one definition at a time.  The ID of a definition is its place,  *)
(* its elements were there before it, and what a caller was told about an  *)
(* ID is true for ever.                                                    *)
(***************************************************************************)
EXTENDS Naturals, Sequences

CONSTANTS
    InitialCatalog,   \* the built-in primitives
    Definitions,      \* what can be registered
    Limit             \* definitions that have an ID

VARIABLES
    catalog,    \* the definitions, in the order of their IDs
    promised    \* pairs of an ID and its definition that callers were told

Init ==
    /\ catalog = InitialCatalog
    /\ promised = {}

Register ==
    /\ Len(catalog) < Limit
    /\ \E definition \in Definitions :
        /\ definition.elements \subseteq DOMAIN catalog
        /\ catalog' = Append(catalog, definition)
    /\ UNCHANGED promised

Promise ==
    /\ \E id \in DOMAIN catalog :
        promised' = promised \cup {[id |-> id, definition |-> catalog[id]]}
    /\ UNCHANGED catalog

Next == Register \/ Promise

Spec == Init /\ [][Next]_<<catalog, promised>>
=============================================================================
