-------------------------- MODULE MCAgentPipeline --------------------------
(***************************************************************************)
(* A pipeline for TLC.  Step A has two tasks, a1 before a2; a2 declares    *)
(* outputs.  G asks for an approval once a1 is done.  I, on a condition,   *)
(* includes a child pipeline once a1 is done and does not wait for it.  B  *)
(* includes one after A, reads a2's outputs, waits, and may fail.          *)
(***************************************************************************)
EXTENDS AgentPipeline, TLC

CONSTANTS A, G, I, B, a1, a2, g, i, b

AllSteps == {A, G, I, B}
AllTasks == {a1, a2, g, i, b}
StepOfAll == a1 :> A @@ a2 :> A @@ g :> G @@ i :> I @@ b :> B
Kinds == A :> "work" @@ G :> "approval" @@ I :> "async" @@ B :> "sync"
Places == A :> 1 @@ G :> 2 @@ I :> 3 @@ B :> 4
AfterSteps == [s \in AllSteps |-> IF s = B THEN {A} ELSE {}]
AfterTasks == [s \in AllSteps |-> IF s \in {G, I} THEN {a1} ELSE {}]
TaskAfter == [t \in AllTasks |-> IF t = a2 THEN {a1} ELSE {}]
ReadByStep == [s \in AllSteps |-> IF s = B THEN {a2} ELSE {}]
ReadByTask == [t \in AllTasks |-> {}]
=============================================================================
