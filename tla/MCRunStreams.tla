---------------------------- MODULE MCRunStreams ----------------------------
(* Constants for model checking RunStreams.                                *)
EXTENDS RunStreams, TLC

CONSTANTS u1, r1, t1, t2, p1, s1, s2

OneUser    == {u1}
OneRun     == {r1}
TwoTasks   == {t1, t2}
OnePage    == {p1}
TwoStreams == {s1, s2}

Limit(crashes, writes, calls) ==
  [what \in {"crash", "write", "call"} |->
     CASE what = "crash" -> crashes [] what = "write" -> writes [] OTHER -> calls]

Everything  == Limit(1, 1, 1)
=====
