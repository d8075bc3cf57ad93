------------------------------ MODULE MCMapper ------------------------------
(* Instances of Mapper for TLC: a mesh of two processors and three            *)
(* applications behind the management application.                            *)
EXTENDS Mapper

CONSTANTS p1, p2, mt, a1, a2, b1, b2, c1, None

MCPEs == {p1, p2}

\* Application 1 has one static and one dynamic task, application 2 is entirely static
\* and has to wait for one or two pages of p1, application 3 is dynamic.
StaticTasks == {mt, a1, a2, b1, b2, c1}
StaticAppOf ==
  [t \in StaticTasks |-> IF t = mt THEN 0 ELSE IF t \in {a1, a2} THEN 1
                         ELSE IF t \in {b1, b2} THEN 2 ELSE 3]
StaticStatic ==
  [t \in StaticTasks |-> IF t \in {mt, a1, b1, b2} THEN p1 ELSE None]

\* Only the management application is static, as the configuration guide asks.
DynamicTasks == {mt, a1, a2, b1, b2}
DynamicAppOf ==
  [t \in DynamicTasks |-> IF t = mt THEN 0 ELSE IF t \in {a1, a2} THEN 1 ELSE 2]
DynamicStatic == [t \in DynamicTasks |-> IF t = mt THEN p1 ELSE None]

\* Static applications while tasks migrate: application 3 waits for both pages of p2,
\* which application 1 holds; application 2 fills p1.
MixedTasks == {mt, a1, a2, c1, b1, b2}
MixedAppOf ==
  [t \in MixedTasks |-> IF t = mt THEN 0 ELSE IF t \in {a1, a2} THEN 1
                        ELSE IF t = c1 THEN 2 ELSE 3]
MixedStatic ==
  [t \in MixedTasks |-> IF t = mt THEN p1 ELSE IF t = c1 THEN None ELSE p2]
=============================================================================
