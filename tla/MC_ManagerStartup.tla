-------------------------- MODULE MC_ManagerStartup --------------------------
(* Construction of the manager on two endpoint ids over four launches.    *)
EXTENDS ManagerStartup

CONSTANTS e1, e2, none

MCEpIds == {e1, e2}
=============================================================================
