------------------------- MODULE MCDashboardRefresh -------------------------
(* Small instances of a dashboard's refreshes for TLC.                     *)
EXTENDS DashboardRefresh, TLC

CONSTANTS s1, g1, h1

OneGroup == [s \in Sources |-> g1]
NoKeys == [h \in Requests |-> NoKey]
=============================================================================
