-------------------------- MODULE MCRunLifecycle --------------------------
(***************************************************************************)
(* Instances of RunLifecycle for TLC.                                      *)
(***************************************************************************)
EXTENDS RunLifecycle, TLC

CONSTANTS r1, r2, g1

\* Both runs belong to pipeline g1 on one branch.
OneGroup == [r \in Runs |-> g1]
\* A top-level run of g1 and the child run its agent creates.
FamilyGroups == r1 :> g1 @@ r2 :> NoGroup
Family == r1 :> NoRun @@ r2 :> r1
TopLevel == [r \in Runs |-> NoRun]
=============================================================================
