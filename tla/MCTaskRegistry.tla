--------------------------- MODULE MCTaskRegistry ---------------------------
(* Instances of TaskRegistry for TLC: the model values of its sets and the *)
(* symmetry of the sets whose elements no operator tells apart.            *)
EXTENDS TaskRegistry, TLC

CONSTANTS a1, p1, p2, s1, s2, t1, t2, x1, x2

OneAgent == {p1}
TwoAgents == {a1, p1}
OnePrincipal == {p1}
OneSession == {s1}
TwoSessions == {s1, s2}
OneTask == {t1}
TwoTasks == {t1, t2}
NoActivities == {}
TwoActivities == {x1, x2}

Symmetric == Permutations(Session) \cup Permutations(Activity)
=============================================================================
