---------------------------- MODULE MCDispatcher ----------------------------
(* Small instances of the dispatcher for TLC.                              *)
EXTENDS DispatcherRefinement

CONSTANTS r1, r2,   \* runs
          a, b,     \* runners
          prod,     \* a scope
          k1        \* an affinity key

\* a registers with capacity 0, which counts as 1.
ZeroAndTwo == (a :> 0) @@ (b :> 2)
AllOne == [id \in Runners |-> 1]
\* a serves every scope, b only prod.
ScopedB == [id \in Runners |-> IF id = b THEN Scopes ELSE {}]
Unscoped == [id \in Runners |-> {}]
\* r1 needs prod, the other runs need no scope.
ScopedR1 == [r \in Runs |-> IF r = r1 /\ Scopes # {} THEN prod ELSE AnyScope]
OneKey == [r \in Runs |-> k1]
NoPreference == [r \in Runs |-> NoRunner]
R2PrefersA == [r \in Runs |-> IF r = r2 THEN a ELSE NoRunner]
NoTable == [k \in RouteKeys |-> {}]
DefaultToA == [k \in RouteKeys |-> IF k = AnyScope THEN {a} ELSE {}]
OnlyNoTable == {NoTable}
OnlyDefaultToA == {DefaultToA}
=============================================================================
