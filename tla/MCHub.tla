-------------------------------- MODULE MCHub --------------------------------
(* Argument sets of the engine: the hub calls it with these only.            *)
EXTENDS Hub

HubRoles == {<<TRUE, TRUE>>}
=============================================================================
