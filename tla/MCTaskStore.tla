----------------------------- MODULE MCTaskStore -----------------------------
(* TaskStore with a task that is posted and run twice, and one that is not. *)
EXTENDS TaskStore

CONSTANTS t1, t2, r1, r2, r3

TwoTasks == {t1, t2}
ThreeRunners == {r1, r2, r3}
Jobs == [r \in ThreeRunners |-> IF r = r3 THEN t2 ELSE t1]
Firsts == [t \in TwoTasks |-> IF t = t1 THEN r1 ELSE r3]
OnlyT1 == {t1}
=============================================================================
