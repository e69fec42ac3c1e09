---------------------------- MODULE MCEventQueue -----------------------------
(* Instances of EventQueue.  A hook hands in events of its own session only: *)
(* e3 is of s2, and the others are of s1.  The last one, again, carries the  *)
(* eventId of e1, as the sweep's event of a declined edit carries that of    *)
(* the PostToolUse before it.                                                *)
EXTENDS EventQueue, TLC

CONSTANTS e1, e2, e3, e4, again, s1, s2

MCSessionOf == [e \in Event |-> IF e = e3 THEN s2 ELSE s1]
MCIdOf      == [e \in Event |-> IF e = again THEN e1 ELSE e]

\* Four hand-ins where there is room for two, of two sessions, one id twice.
FewBatches == {<<>>, <<e1, e2>>, <<e3>>, <<again>>}

\* Any three of the four.
ThreeHandIns == Cardinality({e \in Event : HandedIn(e)}) <= 3

Symmetry == Permutations(Hook)

\* Five events where there is room for three, one hand-in with an id twice.
SomeBatches == {<<>>, <<e1, e2>>, <<e3>>, <<again>>, <<again, e1, e4>>}
=============================================================================
