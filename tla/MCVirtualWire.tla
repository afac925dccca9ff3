---------------------------- MODULE MCVirtualWire ----------------------------
(* Argument sets for model checking VirtualWire.                             *)
EXTENDS VirtualWireRefinement

InOut == <<TRUE, TRUE>>
InOnly == <<TRUE, FALSE>>
OutOnly == <<FALSE, TRUE>>

BothOnly == {InOut}
TwoRoles == {InOut, InOnly}
AllRoles == BOOLEAN \X BOOLEAN
=============================================================================
