--------------------------- MODULE MCRunLifecycle ---------------------------
(* Constants for model checking RunLifecycle: small sets of model values,  *)
(* and the bounds on crashes, failing writes and repeated calls.           *)
EXTENDS RunLifecycle, TLC

CONSTANTS u1, u2, r1, r2, r3, t1, t2

TwoUsers  == {u1, u2}
TwoRuns   == {r1, r2}
ThreeRuns == {r1, r2, r3}
TwoTasks  == {t1, t2}

Limit(crashes, writes, calls) ==
  [what \in {"crash", "write", "call"} |->
     CASE what = "crash" -> crashes [] what = "write" -> writes [] OTHER -> calls]

Undisturbed == Limit(0, 0, 0)
Everything  == Limit(1, 1, 1)

Symmetry == Permutations(Users) \union Permutations(Runs) \union Permutations(Tasks)
=============================================================================
