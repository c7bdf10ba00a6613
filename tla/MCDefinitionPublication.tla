---------------------- MODULE MCDefinitionPublication ----------------------
(* Small stores for TLC.                                                   *)
EXTENDS DefinitionPublication

\* The first definition that is registered gets ID 2.
PrimitivesOrFirst == {{}, {1}, {1, 2}}
=============================================================================
