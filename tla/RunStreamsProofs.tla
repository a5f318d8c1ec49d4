--------------------------- MODULE RunStreamsProofs ---------------------------
(***************************************************************************)
(* Theorems about RunStreams for any pages, streams, lost connections and  *)
(* everything RunLifecycle leaves open, in a deployment with one account.  *)
(***************************************************************************)
EXTENDS RunStreams, RunLifecycleProofs, WellFoundedInduction, SequenceTheorems

-----------------------------------------------------------------------------
(***************************************************************************)
(* Induction over the naturals.  It is stated for a set of numbers, which  *)
(* the provers can instantiate; for a predicate they cannot.               *)
(***************************************************************************)

LEMMA Least ==
  ASSUME NEW T \in SUBSET Nat, T # {}
  PROVE  \E m \in T : \A k \in T : m <= k
<1>1. IsWellFoundedOn(OpToRel(<, Nat), Nat)
  BY NatLessThanWellFounded
<1>2. \E m \in T : \A k \in T : ~(<<k, m>> \in OpToRel(<, Nat))
  BY <1>1, WFMin
<1>3. OpToRel(<, Nat) = {pair \in Nat \X Nat : pair[1] < pair[2]}
  BY DEF OpToRel
<1>4. PICK m \in T : \A k \in T : ~(<<k, m>> \in OpToRel(<, Nat))
  BY <1>2
<1>5. ASSUME NEW k \in T PROVE m <= k
  <2>1. k \in Nat /\ m \in Nat /\ <<k, m>> \in Nat \X Nat
    OBVIOUS
  <2>2. ~(k < m)
    BY <1>3, <1>4, <2>1
  <2>3. QED
    BY <2>1, <2>2
<1>6. QED
  BY <1>5

LEMMA SetInduction ==
  ASSUME NEW S \in SUBSET Nat, 0 \in S, \A n \in S : n + 1 \in S
  PROVE  S = Nat
<1> SUFFICES ASSUME Nat \ S # {} PROVE FALSE
  OBVIOUS
<1>1. PICK m \in Nat \ S : \A k \in Nat \ S : m <= k
  BY Least
<1>2. m # 0 /\ m - 1 \in Nat
  BY <1>1
<1>3. m - 1 \in S
  BY <1>1, <1>2
<1>4. QED
  BY <1>1, <1>3

-----------------------------------------------------------------------------
(***************************************************************************)
(* What a page lists after the frames on its wire, as a function of what   *)
(* it lists now: the recursion of AfterWire is well founded, a frame that  *)
(* is appended acts last, and reading the first one changes nothing.       *)
(***************************************************************************)

Folds(f, list, w, n) ==
  f = [i \in 0..n |-> IF i = 0 THEN list ELSE AfterFrame(f[i - 1], w[i])]

Steps(f, list, w, n) ==
  f[0] = list /\ \A i \in 1..n : f[i] = AfterFrame(f[i - 1], w[i])

After(list, w) == (CHOOSE f : Folds(f, list, w, Len(w)))[Len(w)]

LEMMA AfterWireIsAfter ==
  ASSUME NEW p
  PROVE  AfterWire(p) = After(shown[p], wire[current[p]])
BY DEF AfterWire, After, Folds

LEMMA FoldExists ==
  ASSUME NEW list, NEW w, NEW n \in Nat
  PROVE  \E f : Folds(f, list, w, n)
<1> DEFINE S == {m \in Nat : \E f : Folds(f, list, w, m)}
<1>1. 0 \in S
  <2> DEFINE f == [i \in 0..0 |-> list]
  <2>1. Folds(f, list, w, 0)
    BY DEF Folds
  <2>2. QED
    BY <2>1
<1>2. ASSUME NEW m \in S PROVE m + 1 \in S
  <2>1. PICK f : Folds(f, list, w, m)
    OBVIOUS
  <2> DEFINE g == [i \in 0..(m + 1) |-> IF i <= m THEN f[i] ELSE AfterFrame(f[m], w[m + 1])]
             h == [i \in 0..(m + 1) |-> IF i = 0 THEN list ELSE AfterFrame(g[i - 1], w[i])]
  <2>2. m \in Nat /\ f[0] = list /\ \A i \in 1..m : f[i] = AfterFrame(f[i - 1], w[i])
    BY <2>1 DEF Folds
  <2>3. ASSUME NEW i \in 0..(m + 1) PROVE g[i] = h[i]
    <3>1. CASE i = 0
      BY <2>2, <3>1
    <3>2. CASE i \in 1..m
      BY <2>2, <3>2
    <3>3. CASE i = m + 1
      BY <2>2, <3>3
    <3>4. QED
      BY <2>2, <3>1, <3>2, <3>3
  <2>4. g = h
    BY <2>3
  <2>5. Folds(g, list, w, m + 1)
    BY <2>4 DEF Folds
  <2>6. QED
    BY <2>2, <2>5
<1>3. S = Nat
  <2> HIDE DEF S
  <2>1. S \in SUBSET Nat
    BY DEF S
  <2>2. QED
    BY <1>1, <1>2, <2>1, SetInduction
<1>4. QED
  BY <1>3

\* Two foldings of the same frames are the same.
LEMMA FoldUnique ==
  ASSUME NEW list, NEW w, NEW m \in Nat, NEW f, NEW g,
         Steps(f, list, w, m), Steps(g, list, w, m)
  PROVE  \A i \in 0..m : f[i] = g[i]
<1> DEFINE S == {k \in Nat : k <= m => f[k] = g[k]}
<1>1. 0 \in S
  BY DEF Steps
<1>2. ASSUME NEW k \in S PROVE k + 1 \in S
  <2>1. CASE k + 1 <= m
    <3>1. k \in Nat /\ f[k] = g[k] /\ k + 1 \in 1..m
      BY <2>1
    <3>2. f[k + 1] = AfterFrame(f[k], w[k + 1]) /\ g[k + 1] = AfterFrame(g[k], w[k + 1])
      BY <3>1 DEF Steps
    <3>3. QED
      BY <3>1, <3>2
  <2>2. QED
    BY <2>1
<1>3. S = Nat
  <2> HIDE DEF S
  <2>1. S \in SUBSET Nat
    BY DEF S
  <2>2. QED
    BY <1>1, <1>2, <2>1, SetInduction
<1>4. QED
  BY <1>3

LEMMA FoldSteps ==
  ASSUME NEW list, NEW w, NEW n \in Nat, NEW f, Folds(f, list, w, n)
  PROVE  Steps(f, list, w, n)
<1>1. \A i \in 0..n : f[i] = IF i = 0 THEN list ELSE AfterFrame(f[i - 1], w[i])
  BY DEF Folds
<1>2. QED
  BY <1>1 DEF Steps

LEMMA FoldedFacts ==
  ASSUME NEW list, NEW w, Len(w) \in Nat, NEW f, Folds(f, list, w, Len(w))
  PROVE  After(list, w) = f[Len(w)]
<1> DEFINE g == CHOOSE h : Folds(h, list, w, Len(w))
<1>1. Folds(g, list, w, Len(w))
  BY FoldExists
<1> HIDE DEF g
<1>2. Steps(f, list, w, Len(w)) /\ Steps(g, list, w, Len(w))
  BY <1>1, FoldSteps
<1>3. \A i \in 0..Len(w) : f[i] = g[i]
  BY <1>2, FoldUnique
<1>4. After(list, w) = g[Len(w)]
  BY DEF After, g
<1>5. QED
  BY <1>3, <1>4

LEMMA AfterNone ==
  ASSUME NEW list
  PROVE  After(list, <<>>) = list
<1>1. Len(<<>>) = 0
  BY EmptySeq
<1>2. PICK f : Folds(f, list, <<>>, 0)
  BY FoldExists
<1>3. f[0] = list
  BY <1>2 DEF Folds
<1>4. QED
  BY <1>1, <1>2, <1>3, FoldedFacts

LEMMA AfterAppend ==
  ASSUME NEW list, NEW S, NEW w \in Seq(S), NEW frame \in S
  PROVE  After(list, Append(w, frame)) = AfterFrame(After(list, w), frame)
<1> DEFINE v == Append(w, frame)
<1>1. /\ Len(w) \in Nat /\ Len(v) = Len(w) + 1 /\ v[Len(w) + 1] = frame
      /\ \A i \in 1..Len(w) : v[i] = w[i]
  BY LenProperties, AppendProperties
<1> HIDE DEF v
<1>2. Len(v) \in Nat
  BY <1>1
<1>3. PICK f : Folds(f, list, v, Len(v))
  BY <1>2, FoldExists
<1>4. PICK g : Folds(g, list, w, Len(w))
  BY <1>1, FoldExists
<1>5. After(list, v) = f[Len(v)] /\ After(list, w) = g[Len(w)]
  BY <1>1, <1>3, <1>4, <1>2, FoldedFacts
<1>6. /\ Steps(f, list, w, Len(w)) /\ Steps(g, list, w, Len(w))
      /\ f[Len(w) + 1] = AfterFrame(f[Len(w)], frame)
  <2>1. Steps(f, list, v, Len(v)) /\ Steps(g, list, w, Len(w))
    BY <1>1, <1>2, <1>3, <1>4, FoldSteps
  <2>2. \A i \in 1..Len(w) : i \in 1..Len(v) /\ v[i] = w[i]
    BY <1>1
  <2>3. Len(w) + 1 \in 1..Len(v) /\ (Len(w) + 1) - 1 = Len(w)
    BY <1>1
  <2>4. f[Len(w) + 1] = AfterFrame(f[Len(w)], frame)
    BY <1>1, <2>1, <2>3 DEF Steps
  <2>5. Steps(f, list, w, Len(w))
    BY <2>1, <2>2 DEF Steps
  <2>6. QED
    BY <2>1, <2>4, <2>5
<1>7. f[Len(w)] = g[Len(w)]
  BY <1>1, <1>6, FoldUnique
<1>8. QED
  BY <1>1, <1>5, <1>6, <1>7 DEF v

LEMMA AfterHead ==
  ASSUME NEW list, NEW S, NEW w \in Seq(S), w # <<>>
  PROVE  After(AfterFrame(list, Head(w)), Tail(w)) = After(list, w)
<1> DEFINE v == Tail(w)
<1>1. /\ Len(w) \in Nat /\ Len(w) # 0 /\ Len(v) = Len(w) - 1 /\ Head(w) = w[1]
      /\ \A i \in 1..Len(v) : v[i] = w[i + 1]
  BY EmptySeq, HeadTailProperties, LenProperties
<1> HIDE DEF v
<1>2. PICK f : Folds(f, list, w, Len(w))
  BY <1>1, FoldExists
<1> DEFINE first == AfterFrame(list, w[1])
           g == [i \in 0..Len(v) |-> f[i + 1]]
           h == [i \in 0..Len(v) |-> IF i = 0 THEN first ELSE AfterFrame(g[i - 1], v[i])]
<1>3. f[0] = list /\ \A i \in 1..Len(w) : f[i] = AfterFrame(f[i - 1], w[i])
  <2>1. Steps(f, list, w, Len(w))
    BY <1>1, <1>2, FoldSteps
  <2>2. QED
    BY <2>1 DEF Steps
<1>4. ASSUME NEW i \in 0..Len(v) PROVE g[i] = h[i]
  <2>1. CASE i = 0
    BY <1>1, <1>3, <2>1
  <2>2. CASE i # 0
    <3>1. /\ i + 1 \in 1..Len(w) /\ i - 1 \in 0..Len(v) /\ (i - 1) + 1 = i
          /\ (i + 1) - 1 = i /\ v[i] = w[i + 1]
      BY <1>1, <2>2
    <3>2. g[i] = f[i + 1] /\ g[i - 1] = f[i] /\ h[i] = AfterFrame(g[i - 1], v[i])
      BY <2>2, <3>1
    <3>3. f[i + 1] = AfterFrame(f[i], w[i + 1])
      BY <1>3, <3>1
    <3>4. QED
      BY <3>1, <3>2, <3>3
  <2>3. QED
    BY <2>1, <2>2
<1>5. g = h
  BY <1>4
<1>6. Folds(g, first, v, Len(v))
  BY <1>5 DEF Folds
<1>7. After(first, v) = g[Len(v)] /\ After(list, w) = f[Len(w)]
  BY <1>1, <1>2, <1>6, FoldedFacts
<1>8. g[Len(v)] = f[Len(w)]
  BY <1>1
<1>9. QED
  BY <1>1, <1>7, <1>8 DEF v

-----------------------------------------------------------------------------
(***************************************************************************)
(* The tables under the streams.  RunStreams only adds to RunLifecycle, so *)
(* what is proved of the runs holds here too.                              *)
(***************************************************************************)

streamsAll == <<vars, streamVars>>

LEMMA StreamsStepIsStep == [StreamsNext]_streamsAll => [Next]_vars
<1> SUFFICES ASSUME [StreamsNext]_streamsAll PROVE [Next]_vars
  OBVIOUS
<1>1. CASE Posted
  BY <1>1 DEF Posted, Next
<1>2. CASE CrashAll
  BY <1>2 DEF CrashAll, Next
<1>3. ASSUME NEW t \in Tasks, TaskStep(t) PROVE [Next]_vars
  <2>1. Step(t)
    BY <1>3 DEF TaskStep, Quiet, EmitCheck, FailPreparation, FinishRun, Step
  <2>2. QED
    BY <2>1 DEF Next
<1>4. ASSUME NEW s \in Streams, Serve(s) \/ Abort(s) \/ Release(s) PROVE UNCHANGED vars
  BY <1>4 DEF Serve, ServeLive, ServeEnded, Abort, Release
<1>5. ASSUME NEW p \in Pages, NEW r \in Runs, NEW s \in Streams, OpenPage(p, r, s)
      PROVE  UNCHANGED vars
  BY <1>5 DEF OpenPage, Request
<1>6. ASSUME NEW p \in Pages, NEW s \in Streams, Reconnect(p, s)
      PROVE  UNCHANGED vars
  BY <1>6 DEF Reconnect, Request
<1>7. ASSUME NEW p \in Pages, Read(p) \/ Drop(p) \/ Leave(p)
      PROVE  UNCHANGED vars
  BY <1>7 DEF Read, ReadSnapshot, ReadCheck, ReadTerminal, Reading, Drop, Leave, Disconnect
<1>8. CASE UNCHANGED streamsAll
  BY <1>8 DEF streamsAll
<1>9. QED
  BY <1>1, <1>2, <1>3, <1>4, <1>5, <1>6, <1>7, <1>8 DEF StreamsNext

\* The streams leave the life of the runs as it is: every behaviour of the whole is one
\* of the executor and the tables.
THEOREM StreamsKeepRuns == StreamsSpec => Spec
<1>1. StreamsInit => Init
  BY DEF StreamsInit
<1>2. QED
  BY <1>1, StreamsStepIsStep, PTL DEF StreamsSpec, Spec, streamsAll

\* What is known of the runs of a single account.
Lone == IInv /\ LiveIsOwned /\ OneLiveRunPerUser /\ ExecutingIsRunning

LEMMA LoneStays == SingleUser => (StreamsSpec => []Lone)
<1> SUFFICES ASSUME SingleUser PROVE StreamsSpec => []Lone
  OBVIOUS
<1>1. Spec => []ExecutingIsRunning
  BY SingleUserRunning
<1>2. QED
  BY <1>1, StreamsKeepRuns, Inductive, Gate, PTL DEF Lone

\* No task executes the run, and none will.
Settled(r) ==
  /\ status[r] \notin {"absent", "queued"}
  /\ \A t \in Tasks : Executing(t) => run[t] # r

\* A step that stores no row and ends no run; a task that begins to execute takes its run
\* from queued to running.
Calm ==
  /\ rows' = rows
  /\ \A r \in Runs :
       \/ status'[r] = status[r]
       \/ status[r] = "absent" /\ status'[r] = "queued"
       \/ status[r] = "queued" /\ status'[r] = "running"
  /\ \A t \in Tasks : Executing(t)' =>
       \/ Executing(t) /\ run'[t] = run[t] /\ emitted'[t] = emitted[t]
       \/ run'[t] \in Runs /\ status[run'[t]] = "queued" /\ status'[run'[t]] = "running"

LEMMA PostedIsCalm ==
  ASSUME SingleUser, Lone, Posted
  PROVE  Calm
<1>1. TypeOK
  BY DEF Lone, IInv
<1>2. ASSUME NEW u \in Users, NEW r \in Runs, NEW t \in Tasks, Post(u, r, t)
      PROVE  Calm
  <2>1. \A s \in Tasks : Executing(s)' =>
          Executing(s) /\ run'[s] = run[s] /\ emitted'[s] = emitted[s]
    BY <1>1, <1>2, CallEffect DEF Post, SameLocals
  <2>2. QED
    BY <1>1, <1>2, <2>1 DEF Calm, Post, TypeOK, TablesTypeOK
<1>3. ASSUME NEW t \in Tasks, NEW r \in Runs, CallAgain(t, r)
      PROVE  Calm
  <2>1. \A s \in Tasks : Executing(s)' =>
          Executing(s) /\ run'[s] = run[s] /\ emitted'[s] = emitted[s]
    BY <1>1, <1>3, CallEffect DEF CallAgain, SameLocals
  <2>2. QED
    BY <1>3, <2>1 DEF Calm, CallAgain, tables
<1>4. QED
  BY <1>2, <1>3 DEF Posted

LEMMA QuietIsCalm ==
  ASSUME SingleUser, Lone, NEW t \in Tasks, Quiet(t)
  PROVE  Calm
<1>1. TypeOK /\ LiveIsOwned /\ OneLiveRunPerUser /\ (pc[t] # "idle" => run[t] \in Runs)
  BY DEF Lone, IInv, TypeOK, TasksTypeOK
<1>2. CASE RefuseActive(t) \/ RefuseStatus(t)
  <2>1. Return(t) /\ UNCHANGED tables
    BY <1>2 DEF RefuseActive, RefuseStatus
  <2>2. QED
    BY <1>1, <2>1, ReturnEffect DEF Calm, SameLocals, tables
<1>3. CASE PassActive(t) \/ StartEngine(t)
  <2>1. /\ UNCHANGED tables /\ (Executing(t)' => Executing(t))
        /\ \A s \in Tasks : SameLocals(s)
        /\ \A s \in Tasks \ {t} : Executing(s)' <=> Executing(s)
    BY <1>1, <1>3, GotoEffect DEF PassActive, StartEngine, Executing
  <2>2. QED
    BY <2>1 DEF Calm, SameLocals, tables
<1>4. CASE Begin(t) \/ BeginRejects(t)
  <2>1. run[t] \in Runs /\ status[run[t]] = "queued" /\ rows' = rows
    BY <1>1, <1>4 DEF Begin, BeginRejects, Goto
  <2>2. SweptBy(run[t]) = {}
    BY <1>1, <2>1, SweepFindsNothing
  <2>3. CASE Begin(t)
    <3>1. status' = [status EXCEPT ![run[t]] = "running"]
      BY <1>1, <2>1, <2>2, <2>3 DEF Begin, TypeOK, TablesTypeOK
    <3>2. /\ \A s \in Tasks : SameLocals(s)
          /\ \A s \in Tasks \ {t} : Executing(s)' <=> Executing(s)
      BY <1>1, <2>3, GotoEffect DEF Begin
    <3>3. QED
      BY <1>1, <2>1, <3>1, <3>2 DEF Calm, SameLocals, TypeOK, TablesTypeOK
  <2>4. CASE BeginRejects(t)
    <3>1. status' = status
      BY <1>1, <2>2, <2>4 DEF BeginRejects, TypeOK, TablesTypeOK
    <3>2. Return(t)
      BY <2>4 DEF BeginRejects
    <3>3. QED
      BY <1>1, <2>1, <3>1, <3>2, ReturnEffect DEF Calm, SameLocals
  <2>5. QED
    BY <1>4, <2>3, <2>4
<1>5. QED
  BY <1>2, <1>3, <1>4 DEF Quiet

\* A step that ends the execution of a run.
Ends(t) ==
  /\ rows' = rows
  /\ \A r \in Runs :
       \/ status'[r] = status[r]
       \/ r = run[t] /\ status[r] = "running" /\ status'[r] \in Terminal
  /\ \A s \in Tasks : Executing(s)' =>
       Executing(s) /\ s # t /\ run'[s] = run[s] /\ emitted'[s] = emitted[s]

LEMMA EndEnds ==
  ASSUME Lone, NEW t \in Tasks, Executing(t), NEW new \in Terminal, NEW reason,
         End(t, new, reason)
  PROVE  Ends(t) /\ run[t] \in Runs /\ \A r : r = run[t] => Settled(r)'
<1>1. TypeOK /\ run[t] \in Runs /\ status[run[t]] = "running"
  BY DEF Lone, IInv, TypeOK, TasksTypeOK, Executing, ExecutingIsRunning
<1>2. \A s \in Tasks : Executing(s)' =>
        Executing(s) /\ s # t /\ run'[s] = run[s] /\ emitted'[s] = emitted[s]
  BY <1>1, ReturnEffect DEF End, SameLocals
<1>3. status' = [status EXCEPT ![run[t]] = new] \/ status' = status
  BY DEF End, MarkEnded
<1>4. Ends(t)
  BY <1>1, <1>2, <1>3 DEF Ends, End, TypeOK, TablesTypeOK
<1>5. \A s \in Tasks : Executing(s) /\ s # t => run[s] # run[t]
  BY DEF Lone, IInv, OneExecutionPerRun
<1>6. status'[run[t]] \in {"running"} \cup Terminal
  BY <1>1, <1>3 DEF TypeOK, TablesTypeOK
<1>7. ASSUME NEW r, r = run[t] PROVE Settled(r)'
  BY <1>2, <1>5, <1>6, <1>7 DEF Settled, Terminal
<1>8. QED
  BY <1>1, <1>4, <1>7

\* A run that is settled stays so, and a run that exists is not created again.
LEMMA SettledStays ==
  ASSUME Lone, NEW r \in Runs, Calm \/ \E t \in Tasks : Ends(t)
  PROVE  /\ status[r] # "absent" => status'[r] # "absent"
         /\ status[r] # "absent" /\ status'[r] = "queued" => status[r] = "queued"
         /\ Settled(r) => Settled(r)'
<1>1. CASE Calm
  BY <1>1 DEF Calm, Settled
<1>2. CASE \E t \in Tasks : Ends(t)
  BY <1>2 DEF Ends, Settled, Terminal
<1>3. QED
  BY <1>1, <1>2

-----------------------------------------------------------------------------
(***************************************************************************)
(* The inductive invariant.  A stream that was served stays subscribed as  *)
(* long as its run may still emit; what its page will list once it has     *)
(* read its wire is all that is stored, and nothing beyond what has been   *)
(* emitted.                                                                *)
(***************************************************************************)

StreamsOK ==
  \A s \in Streams :
    /\ phase[s] # "free" => of[s] \in Runs /\ status[of[s]] # "absent"
    /\ phase[s] \in {"open", "ended"} => s \in subscribers[of[s]] \/ Settled(of[s])
    /\ phase[s] = "deaf" => ~HasReader(s)

PagesOK ==
  \A p \in Pages :
    /\ current[p] # NoStream \/ connection[p] = "reconnecting" => watched[p] \in Runs
    /\ watched[p] \in Runs => status[watched[p]] # "absent"
    /\ current[p] # NoStream => \A q \in Pages : current[q] = current[p] => q = p

Served(p) == current[p] # NoStream /\ phase[current[p]] \in {"open", "ended"}

\* The list has every stored row of the run, each once and in order, and no event to come.
Listing(r, list) ==
  /\ list \in Seq(Nat)
  /\ \A i \in 1..Len(list) : i > 1 => list[i - 1] < list[i]
  /\ \A i \in 1..Len(rows[r]) : \E j \in 1..Len(list) : list[j] = rows[r][i].event
  /\ status[r] = "queued" => list = <<>>
  /\ \A t \in Tasks : Executing(t) /\ run[t] = r =>
       \A i \in 1..Len(list) : list[i] <= emitted[t]

Upcoming(p) == After(shown[p], wire[current[p]])

ListsOK == \A p \in Pages : Served(p) => Listing(watched[p], Upcoming(p))

StreamsInv ==
  StreamsTypeOK /\ OverMeansUnsubscribed /\ StreamsOK /\ PagesOK /\ ListsOK

-----------------------------------------------------------------------------
(* Lists while the tables change *)

LEMMA ListingKept ==
  ASSUME Lone, NEW r \in Runs, status[r] # "absent", NEW list, Listing(r, list),
         Calm \/ \E t \in Tasks : Ends(t)
  PROVE  Listing(r, list)'
<1>1. rows' = rows /\ (status'[r] = "queued" => status[r] = "queued")
  BY SettledStays DEF Calm, Ends
<1>2. ASSUME NEW t \in Tasks, Executing(t)', run'[t] = r
      PROVE  \A i \in 1..Len(list) : list[i] <= emitted'[t]
  <2>1. CASE Executing(t) /\ run[t] = r /\ emitted'[t] = emitted[t]
    BY <2>1 DEF Listing
  <2>2. CASE status[r] = "queued"
    <3>1. list = <<>>
      BY <2>2 DEF Listing
    <3>2. Len(list) = 0
      BY <3>1, EmptySeq
    <3>3. QED
      BY <3>2
  <2>3. QED
    BY <1>2, <2>1, <2>2 DEF Calm, Ends
<1>3. QED
  BY <1>1, <1>2 DEF Listing

LEMMA ListingUnchanged ==
  ASSUME NEW r, NEW list, Listing(r, list), UNCHANGED vars
  PROVE  Listing(r, list)'
BY DEF Listing, Executing, vars, tables, locals

Extends(longer, list, e) ==
  /\ longer \in Seq(Nat) /\ Len(longer) = Len(list) + 1 /\ longer[Len(list) + 1] = e
  /\ \A i \in 1..Len(list) : longer[i] = list[i]

LEMMA AppendExtends ==
  ASSUME NEW list \in Seq(Nat), NEW e \in Nat
  PROVE  Extends(Append(list, e), list, e)
BY DEF Extends

\* The row of a task's next event comes last in the list.
LEMMA ListingAppended ==
  ASSUME Lone, NEW t \in Tasks, EmitRow(t), NEW r, r = run[t], NEW list, Listing(r, list),
         NEW e, e = emitted[t] + 1, NEW longer, Extends(longer, list, e)
  PROVE  Listing(r, longer)'
<1>1. /\ TypeOK /\ r \in Runs /\ Executing(t) /\ status[r] = "running"
      /\ emitted[t] \in Nat /\ e \in Nat
  BY DEF Lone, IInv, TypeOK, TasksTypeOK, EmitRow, Executing, ExecutingIsRunning
<1>2. list \in Seq(Nat) /\ Len(list) \in Nat /\ \A i \in 1..Len(list) : list[i] \in Nat
  BY DEF Listing
<1>3. /\ longer \in Seq(Nat) /\ Len(longer) = Len(list) + 1 /\ longer[Len(list) + 1] = e
      /\ \A i \in 1..Len(list) : longer[i] = list[i]
  BY DEF Extends
<1>4. \A i \in 1..Len(list) : list[i] <= emitted[t]
  BY <1>1 DEF Listing
<1>5. ASSUME NEW i \in 1..Len(longer), i > 1 PROVE longer[i - 1] < longer[i]
  <2>1. CASE i = Len(list) + 1
    <3>1. i - 1 \in 1..Len(list)
      BY <1>2, <1>5, <2>1
    <3>2. list[i - 1] <= emitted[t] /\ list[i - 1] \in Nat /\ longer[i - 1] = list[i - 1]
      BY <1>2, <1>3, <1>4, <3>1
    <3>3. QED
      BY <1>1, <1>3, <2>1, <3>2
  <2>2. CASE i \in 1..Len(list)
    <3>1. i - 1 \in 1..Len(list)
      BY <1>2, <1>5, <2>2
    <3>2. list[i - 1] < list[i]
      BY <1>5, <2>2 DEF Listing
    <3>3. QED
      BY <1>3, <2>2, <3>1, <3>2
  <2>3. QED
    BY <1>2, <1>3, <2>1, <2>2
<1>6. ASSUME NEW s \in Tasks, Executing(s)', run'[s] = r
      PROVE  \A i \in 1..Len(longer) : longer[i] <= emitted'[s]
  <2>1. s = t
    BY <1>1, <1>6 DEF EmitRow, Executing, Lone, IInv, OneExecutionPerRun
  <2>2. emitted'[s] = e
    BY <1>1, <2>1 DEF EmitRow, TypeOK, TasksTypeOK
  <2>3. ASSUME NEW i \in 1..Len(longer) PROVE longer[i] <= e
    <3>1. CASE i = Len(list) + 1
      BY <1>1, <1>3, <3>1
    <3>2. CASE i \in 1..Len(list)
      <4>1. list[i] \in Nat /\ list[i] <= emitted[t] /\ longer[i] = list[i]
        BY <1>2, <1>3, <1>4, <3>2
      <4>2. QED
        BY <1>1, <4>1
    <3>3. QED
      BY <1>2, <1>3, <3>1, <3>2
  <2>4. QED
    BY <2>2, <2>3
<1>7. ASSUME NEW i \in 1..Len(rows'[r])
      PROVE  \E j \in 1..Len(longer) : longer[j] = rows'[r][i].event
  <2>1. rows[r] \in Seq(Row) /\ rows \in [Runs -> Seq(Row)] /\ nextOrder[t] \in Nat
    BY <1>1 DEF TypeOK, TablesTypeOK, TasksTypeOK
  <2>2. ASSUME NEW k \in 1..Len(rows[r])
        PROVE  \E j \in 1..Len(longer) : longer[j] = rows[r][k].event
    <3>1. PICK j \in 1..Len(list) : list[j] = rows[r][k].event
      BY DEF Listing
    <3>2. j \in 1..Len(longer) /\ longer[j] = list[j]
      BY <1>2, <1>3, <3>1
    <3>3. QED
      BY <3>1, <3>2
  <2>3. CASE rows' = rows
    BY <1>7, <2>2, <2>3
  <2>4. CASE rows' # rows
    <3> DEFINE new == [order |-> nextOrder[t], event |-> e]
    <3>1. rows' = [rows EXCEPT ![r] = Append(@, new)] /\ new \in Row /\ new.event = e
      BY <1>1, <2>1, <2>4 DEF EmitRow, Row
    <3> HIDE DEF new
    <3>2. rows'[r] = Append(rows[r], new)
      BY <1>1, <2>1, <3>1
    <3>3. CASE i \in 1..Len(rows[r])
      <4>1. rows'[r][i] = rows[r][i]
        BY <2>1, <3>1, <3>2, <3>3
      <4>2. \E j \in 1..Len(longer) : longer[j] = rows[r][i].event
        BY <2>2, <3>3
      <4>3. QED
        BY <4>1, <4>2
    <3>4. CASE i = Len(rows[r]) + 1
      <4>1. rows'[r][i].event = e
        BY <2>1, <3>1, <3>2, <3>4
      <4>2. Len(longer) \in 1..Len(longer) /\ longer[Len(longer)] = e
        BY <1>2, <1>3
      <4>3. QED
        BY <4>1, <4>2
    <3>5. QED
      BY <1>7, <2>1, <3>1, <3>2, <3>3, <3>4
  <2>5. QED
    BY <2>3, <2>4
<1>8. status'[r] # "queued"
  BY <1>1 DEF EmitRow
<1>9. QED
  <2>1. \A i \in 1..Len(longer) : i > 1 => longer[i - 1] < longer[i]
    BY <1>5
  <2>2. \A i \in 1..Len(rows'[r]) : \E j \in 1..Len(longer) : longer[j] = rows'[r][i].event
    BY <1>7
  <2>3. \A s \in Tasks : Executing(s)' /\ run'[s] = r =>
          \A i \in 1..Len(longer) : longer[i] <= emitted'[s]
    BY <1>6
  <2>4. QED
    BY <1>3, <1>8, <2>1, <2>2, <2>3 DEF Listing

LEMMA ListingElsewhere ==
  ASSUME Lone, NEW t \in Tasks, EmitRow(t), NEW r \in Runs, r # run[t],
         NEW list, Listing(r, list)
  PROVE  Listing(r, list)'
<1>1. TypeOK /\ rows'[r] = rows[r] /\ UNCHANGED <<status, pc, run>>
  BY DEF Lone, IInv, TypeOK, TablesTypeOK, EmitRow
<1>2. \A s \in Tasks : s # t => emitted'[s] = emitted[s]
  BY <1>1 DEF EmitRow, TypeOK, TasksTypeOK
<1>3. \A s \in Tasks : Executing(s)' /\ run'[s] = r => s # t /\ Executing(s) /\ run[s] = r
  BY <1>1 DEF Executing
<1>4. QED
  BY <1>1, <1>2, <1>3 DEF Listing

\* The stored rows list themselves.
LEMMA ListingStored ==
  ASSUME Lone, NEW r \in Runs
  PROVE  Listing(r, Stored(r))
<1> DEFINE list == Stored(r)
<1>1. /\ rows[r] \in Seq(Row) /\ Len(rows[r]) \in Nat
      /\ \A i \in 1..Len(rows[r]) : rows[r][i] \in Row /\ rows[r][i].event \in Nat
  <2>1. rows[r] \in Seq(Row)
    BY DEF Lone, IInv, TypeOK, TablesTypeOK
  <2>2. Len(rows[r]) \in Nat /\ \A i \in 1..Len(rows[r]) : rows[r][i] \in Row
    BY <2>1
  <2>3. \A row \in Row : row.event \in Nat
    BY DEF Row
  <2>4. QED
    BY <2>1, <2>2, <2>3
<1>2. /\ list \in Seq(Nat) /\ Len(list) = Len(rows[r])
      /\ \A i \in 1..Len(rows[r]) : list[i] = rows[r][i].event
  BY <1>1 DEF Stored
<1> HIDE DEF list
<1>3. \A i \in 1..Len(list) : i > 1 => list[i - 1] < list[i]
  <2>1. ASSUME NEW i \in 1..Len(list), i > 1 PROVE list[i - 1] < list[i]
    <3>1. i \in 1..Len(rows[r]) /\ i - 1 \in 1..Len(rows[r])
      BY <1>1, <1>2, <2>1
    <3>2. rows[r][i - 1].event < rows[r][i].event
      BY <2>1, <3>1 DEF Lone, IInv, RowsInOrder, InOrder
    <3>3. QED
      BY <1>2, <3>1, <3>2
  <2>2. QED
    BY <2>1
<1>4. status[r] = "queued" => list = <<>>
  <2>1. ASSUME status[r] = "queued" PROVE list = <<>>
    <3>1. Len(list) = 0
      BY <1>2, <2>1, EmptySeq DEF Lone, IInv, UnstartedHasNoRows
    <3>2. QED
      BY <1>2, <3>1, EmptySeq
  <2>2. QED
    BY <2>1
<1>5. ASSUME NEW t \in Tasks, Executing(t), run[t] = r
      PROVE  \A i \in 1..Len(list) : list[i] <= emitted[t]
  BY <1>2, <1>5 DEF Lone, IInv, CountersMatch, UpTo
<1>6. \A i \in 1..Len(rows[r]) : \E j \in 1..Len(list) : list[j] = rows[r][i].event
  BY <1>2
<1>7. Listing(r, list)
  BY <1>2, <1>3, <1>4, <1>5, <1>6 DEF Listing
<1>8. QED
  BY <1>7 DEF list

-----------------------------------------------------------------------------
(* Steps of the executor *)

\* What the invariant says of a page whose stream is served.
LEMMA ServedPage ==
  ASSUME StreamsInv, NEW p \in Pages, Served(p)
  PROVE  /\ current[p] \in Streams /\ of[current[p]] = watched[p]
         /\ watched[p] \in Runs /\ status[watched[p]] # "absent"
         /\ wire[current[p]] \in Seq(Frame) /\ HasReader(current[p])
         /\ Listing(watched[p], Upcoming(p))
BY DEF StreamsInv, StreamsTypeOK, StreamsOK, PagesOK, ListsOK, Served, HasReader

\* Listing of each served page, with its run and its list named in the next state.
LEMMA ListsNext ==
  ASSUME \A p \in Pages : \A r, list :
           /\ Served(p)' /\ r = watched'[p]
           /\ list = After(shown'[p], wire'[current'[p]])
           => Listing(r, list)'
  PROVE  ListsOK'
<1> SUFFICES ASSUME NEW p \in Pages, Served(p)' PROVE Listing(watched[p], Upcoming(p))'
  BY DEF ListsOK
<1>1. Upcoming(p)' = After(shown'[p], wire'[current'[p]])
  BY DEF Upcoming, After, Folds
<1>2. PICK r, list : r = watched'[p] /\ list = Upcoming(p)'
  OBVIOUS
<1>3. Listing(r, list)'
  BY <1>1, <1>2
<1>4. QED
  BY <1>2, <1>3 DEF Listing

LEMMA CalmStep ==
  ASSUME Lone, StreamsInv, Calm, UNCHANGED streamVars
  PROVE  StreamsInv'
<1>1. StreamsTypeOK'
  BY DEF StreamsInv, StreamsTypeOK, streamVars, server, client
<1>2. OverMeansUnsubscribed'
  BY DEF StreamsInv, OverMeansUnsubscribed, Calm, Terminal, streamVars, server
<1>3. StreamsOK'
  BY SettledStays DEF StreamsInv, StreamsOK, HasReader, streamVars, server, client
<1>4. PagesOK'
  BY SettledStays DEF StreamsInv, PagesOK, streamVars, server, client
<1>5. ListsOK'
  <2>1. ASSUME NEW p \in Pages, NEW r, NEW list, Served(p)', r = watched'[p],
               list = After(shown'[p], wire'[current'[p]])
        PROVE  Listing(r, list)'
    <3>1. Served(p) /\ r = watched[p] /\ list = Upcoming(p)
      BY <2>1 DEF Served, Upcoming, streamVars, server, client
    <3>2. r \in Runs /\ status[r] # "absent" /\ Listing(r, list)
      BY <3>1, ServedPage
    <3>3. QED
      BY <3>2, ListingKept
  <2>2. QED
    BY <2>1, ListsNext
<1>6. QED
  BY <1>1, <1>2, <1>3, <1>4, <1>5 DEF StreamsInv

LEMMA FrameKinds ==
  /\ \A n \in Nat : Check(n) \in Frame /\ \A list : AfterFrame(list, Check(n)) = Append(list, n)
  /\ RunTerminal \in Frame /\ \A list : AfterFrame(list, RunTerminal) = list
  /\ \A events \in Seq(Nat) :
       /\ [kind |-> "snapshot", events |-> events] \in Frame
       /\ \A list : AfterFrame(list, [kind |-> "snapshot", events |-> events]) = events
  /\ \A f \in Frame :
       /\ f.kind = "snapshot" => f.events \in Seq(Nat)
       /\ f.kind = "check" => f.event \in Nat
<1>1. \A n \in Nat : Check(n) \in Frame /\ \A list : AfterFrame(list, Check(n)) = Append(list, n)
  BY DEF Frame, Check, AfterFrame
<1>2. RunTerminal \in Frame /\ \A list : AfterFrame(list, RunTerminal) = list
  BY DEF Frame, RunTerminal, AfterFrame
<1>3. \A events \in Seq(Nat) : [kind |-> "snapshot", events |-> events] \in Frame
  BY DEF Frame
<1>4. \A events, list : AfterFrame(list, [kind |-> "snapshot", events |-> events]) = events
  BY DEF AfterFrame
<1>5. \A f \in Frame : f.kind = "snapshot" => f.events \in Seq(Nat)
  BY DEF Frame
<1>6. \A f \in Frame : f.kind = "check" => f.event \in Nat
  BY DEF Frame
<1>7. QED
  BY <1>1, <1>2, <1>3, <1>4, <1>5, <1>6

\* A callback of the run whose execution emits is that of a stream the page reads.
LEMMA EmitCheckStep ==
  ASSUME Lone, StreamsInv, NEW t \in Tasks, EmitCheck(t)
  PROVE  StreamsInv'
<1>1. /\ Executing(t) /\ run[t] \in Runs /\ emitted[t] \in Nat
      /\ EmitRow(t) /\ Emit(run[t], Check(emitted[t] + 1))
      /\ UNCHANGED <<server, client, drops, status>>
  BY DEF Lone, IInv, TypeOK, TasksTypeOK, EmitCheck, EmitRow, Executing
<1>2. UNCHANGED <<subscribers, phase, of, watched, current, connection, shown, drops, status>>
  BY <1>1 DEF server, client
<1>3. wire' \in [Streams -> Seq(Frame)]
  <2>1. wire \in [Streams -> Seq(Frame)]
    BY DEF StreamsInv, StreamsTypeOK
  <2>2. emitted[t] + 1 \in Nat
    BY <1>1
  <2>3. Check(emitted[t] + 1) \in Frame
    BY <2>2, FrameKinds
  <2>4. QED
    BY <1>1, <2>1, <2>3 DEF Emit
<1>4. StreamsTypeOK'
  BY <1>2, <1>3 DEF StreamsInv, StreamsTypeOK
<1>5. OverMeansUnsubscribed'
  BY <1>2 DEF StreamsInv, OverMeansUnsubscribed
<1>6. StreamsOK'
  <2>1. \A r : Settled(r) => Settled(r)'
    BY <1>1 DEF Settled, EmitRow, Executing
  <2>2. QED
    BY <1>2, <2>1 DEF StreamsInv, StreamsOK, HasReader
<1>7. PagesOK'
  BY <1>2 DEF StreamsInv, PagesOK
<1>8. ListsOK'
  <2>1. ASSUME NEW p \in Pages, NEW r, NEW list, Served(p)', r = watched'[p],
               list = After(shown'[p], wire'[current'[p]])
        PROVE  Listing(r, list)'
    <3>1. Served(p) /\ r = watched[p] /\ list = After(shown[p], wire'[current[p]])
      BY <1>2, <2>1 DEF Served
    <3>2. /\ r \in Runs /\ current[p] \in Streams /\ of[current[p]] = r
          /\ wire[current[p]] \in Seq(Frame) /\ HasReader(current[p])
      BY <3>1, ServedPage
    <3>3. PICK upcoming : upcoming = Upcoming(p)
      OBVIOUS
    <3>4. Listing(r, upcoming)
      BY <3>1, <3>3, ServedPage
    <3>5. CASE r = run[t]
      <4>1. current[p] \in subscribers[r]
        BY <1>1, <3>1, <3>2, <3>5 DEF StreamsInv, StreamsOK, Settled, Served
      <4>2. wire'[current[p]] = Append(wire[current[p]], Check(emitted[t] + 1))
        BY <1>1, <3>2, <3>5, <4>1 DEF Emit
      <4>3. list = AfterFrame(upcoming, Check(emitted[t] + 1))
        <5>1. Check(emitted[t] + 1) \in Frame
          BY <1>1, FrameKinds
        <5>2. QED
          BY <3>1, <3>2, <3>3, <4>2, <5>1, AfterAppend DEF Upcoming
      <4>4. PICK e : e = emitted[t] + 1
        OBVIOUS
      <4>5. upcoming \in Seq(Nat) /\ e \in Nat
        BY <1>1, <3>4, <4>4 DEF Listing
      <4>6. list = Append(upcoming, e)
        <5>1. list = AfterFrame(upcoming, Check(e))
          BY <4>3, <4>4
        <5>2. QED
          BY <4>5, <5>1, FrameKinds
      <4>7. QED
        BY <1>1, <3>4, <3>5, <4>4, <4>5, <4>6, AppendExtends, ListingAppended
    <3>6. CASE r # run[t]
      <4>1. current[p] \notin subscribers[run[t]]
        BY <1>1, <3>2, <3>6 DEF StreamsInv, OverMeansUnsubscribed
      <4>2. wire'[current[p]] = wire[current[p]]
        BY <1>1, <3>2, <4>1 DEF Emit
      <4>3. list = upcoming
        BY <3>1, <3>3, <4>2 DEF Upcoming
      <4>4. QED
        BY <1>1, <3>2, <3>4, <3>6, <4>3, ListingElsewhere
    <3>7. QED
      BY <3>5, <3>6
  <2>2. QED
    BY <2>1, ListsNext
<1>9. QED
  BY <1>4, <1>5, <1>6, <1>7, <1>8 DEF StreamsInv

\* The early return of a failed preparation: the bus is closed, and nothing is written.
LEMMA FailPreparationStep ==
  ASSUME Lone, StreamsInv, NEW t \in Tasks, FailPreparation(t)
  PROVE  StreamsInv'
<1>1. /\ Ends(t) /\ run[t] \in Runs /\ (\A r : r = run[t] => Settled(r)')
      /\ subscribers' = [subscribers EXCEPT ![run[t]] = {}]
  BY EndEnds DEF FailPreparation, PrepareFails, Close, Executing, Terminal
<1>2. UNCHANGED <<phase, of, wire, watched, current, connection, shown, drops>>
  BY DEF FailPreparation, client
<1>3. /\ subscribers \in [Runs -> SUBSET Streams]
      /\ \A r \in Runs : subscribers'[r] = IF r = run[t] THEN {} ELSE subscribers[r]
  BY <1>1 DEF StreamsInv, StreamsTypeOK
<1>4. StreamsTypeOK'
  BY <1>1, <1>2, <1>3 DEF StreamsInv, StreamsTypeOK
<1>5. OverMeansUnsubscribed'
  BY <1>1, <1>2, <1>3 DEF StreamsInv, OverMeansUnsubscribed, Ends
<1>6. StreamsOK'
  BY <1>1, <1>2, <1>3, SettledStays DEF StreamsInv, StreamsOK, HasReader
<1>7. PagesOK'
  BY <1>1, <1>2, SettledStays DEF StreamsInv, PagesOK
<1>8. ListsOK'
  <2>1. ASSUME NEW p \in Pages, NEW r, NEW list, Served(p)', r = watched'[p],
               list = After(shown'[p], wire'[current'[p]])
        PROVE  Listing(r, list)'
    <3>1. Served(p) /\ r = watched[p] /\ list = Upcoming(p)
      BY <1>2, <2>1 DEF Served, Upcoming
    <3>2. r \in Runs /\ status[r] # "absent" /\ Listing(r, list)
      BY <3>1, ServedPage
    <3>3. QED
      BY <1>1, <3>2, ListingKept
  <2>2. QED
    BY <2>1, ListsNext
<1>9. QED
  BY <1>4, <1>5, <1>6, <1>7, <1>8 DEF StreamsInv

\* run-finished: every callback ends its stream, then the bus forgets them.
LEMMA FinishRunStep ==
  ASSUME Lone, StreamsInv, NEW t \in Tasks, FinishRun(t)
  PROVE  StreamsInv'
<1>1. /\ Ends(t) /\ run[t] \in Runs /\ (\A r : r = run[t] => Settled(r)')
      /\ subscribers' = [subscribers EXCEPT ![run[t]] = {}]
      /\ EmitFinished(run[t])
  BY EndEnds DEF FinishRun, Finish, Close, Executing, Terminal
<1>2. UNCHANGED <<of, watched, current, connection, shown, drops>>
  BY DEF FinishRun, client
<1>3. /\ subscribers \in [Runs -> SUBSET Streams]
      /\ \A r \in Runs : subscribers'[r] = IF r = run[t] THEN {} ELSE subscribers[r]
  BY <1>1 DEF StreamsInv, StreamsTypeOK
<1>4. \A s \in subscribers[run[t]] : s \in Streams /\ phase[s] \in {"open", "deaf"} /\ of[s] = run[t]
  BY <1>1, <1>3 DEF StreamsInv, OverMeansUnsubscribed
<1>5. /\ phase' \in [Streams -> Phases]
      /\ \A s \in Streams : phase'[s] = IF s \in subscribers[run[t]] THEN "ended" ELSE phase[s]
  <2>1. phase \in [Streams -> Phases] /\ "ended" \in Phases
    BY DEF StreamsInv, StreamsTypeOK, Phases
  <2>2. QED
    BY <1>1, <2>1 DEF EmitFinished
<1>6. \A s \in Streams : phase'[s] = "free" <=> phase[s] = "free"
  BY <1>4, <1>5
<1>7. StreamsTypeOK'
  <2>1. wire' \in [Streams -> Seq(Frame)]
    <3>1. wire \in [Streams -> Seq(Frame)] /\ RunTerminal \in Frame
      BY FrameKinds DEF StreamsInv, StreamsTypeOK
    <3>2. QED
      BY <1>1, <3>1 DEF EmitFinished, Emit
  <2>2. \A p \in Pages : current'[p] # NoStream =>
          phase'[current'[p]] \in Phases \ {"free"} /\ of'[current'[p]] = watched'[p]
    BY <1>2, <1>5, <1>6 DEF StreamsInv, StreamsTypeOK
  <2>3. QED
    BY <1>1, <1>2, <1>3, <1>5, <2>1, <2>2 DEF StreamsInv, StreamsTypeOK
<1>8. OverMeansUnsubscribed'
  <2>1. ASSUME NEW r \in Runs, NEW s \in subscribers'[r]
        PROVE  phase'[s] \in {"open", "deaf"} /\ of'[s] = r
    <3>1. r # run[t] /\ s \in subscribers[r] /\ s \in Streams
      BY <1>3, <2>1
    <3>2. phase[s] \in {"open", "deaf"} /\ of[s] = r
      BY <3>1 DEF StreamsInv, OverMeansUnsubscribed
    <3>3. s \notin subscribers[run[t]]
      BY <1>4, <3>1, <3>2
    <3>4. QED
      BY <1>2, <1>5, <3>1, <3>2, <3>3
  <2>2. ASSUME NEW r \in Runs, status'[r] \in Terminal PROVE subscribers'[r] = {}
    BY <1>1, <1>3, <2>2 DEF StreamsInv, OverMeansUnsubscribed, Ends
  <2>3. QED
    BY <2>1, <2>2 DEF OverMeansUnsubscribed
<1>9. StreamsOK'
  <2>1. ASSUME NEW s \in Streams
        PROVE  phase'[s] # "free" => of'[s] \in Runs /\ status'[of'[s]] # "absent"
    BY <1>1, <1>2, <1>6, <2>1, SettledStays DEF StreamsInv, StreamsOK
  <2>2. ASSUME NEW s \in Streams, phase'[s] \in {"open", "ended"}
        PROVE  s \in subscribers'[of'[s]] \/ Settled(of[s])'
    <3>1. PICK r : r = of[s]
      OBVIOUS
    <3>2. of'[s] = r /\ r \in Runs
      BY <1>2, <1>6, <2>2, <3>1 DEF StreamsInv, StreamsOK
    <3>3. CASE r = run[t]
      BY <1>1, <3>2, <3>3 DEF Settled
    <3>4. CASE r # run[t]
      <4>1. s \notin subscribers[run[t]]
        BY <1>4, <3>1, <3>4
      <4>2. s \in subscribers[r] \/ Settled(r)
        BY <1>5, <2>2, <3>1, <4>1 DEF StreamsInv, StreamsOK, Settled
      <4>3. s \in subscribers'[r] \/ Settled(r)'
        BY <1>1, <1>3, <3>2, <3>4, <4>2, SettledStays
      <4>4. QED
        BY <3>2, <4>3 DEF Settled
    <3>5. QED
      BY <3>3, <3>4
  <2>3. ASSUME NEW s \in Streams, phase'[s] = "deaf" PROVE ~HasReader(s)'
    BY <1>2, <1>5, <2>3 DEF StreamsInv, StreamsOK, HasReader
  <2>4. QED
    BY <2>1, <2>2, <2>3 DEF StreamsOK
<1>10. PagesOK'
  BY <1>1, <1>2, SettledStays DEF StreamsInv, PagesOK
<1>11. ListsOK'
  <2>1. ASSUME NEW p \in Pages, NEW r, NEW list, Served(p)', r = watched'[p],
               list = After(shown'[p], wire'[current'[p]])
        PROVE  Listing(r, list)'
    <3>1. current[p] \in Streams /\ HasReader(current[p]) /\ current[p] # NoStream
      BY <1>2, <2>1 DEF Served, StreamsInv, StreamsTypeOK, HasReader
    <3>2. phase[current[p]] \in {"open", "ended"}
      BY <1>2, <1>4, <1>5, <2>1, <3>1 DEF Served, StreamsInv, StreamsOK
    <3>3. Served(p) /\ r = watched[p]
      BY <1>2, <2>1, <3>1, <3>2 DEF Served
    <3>4. wire[current[p]] \in Seq(Frame)
      BY <3>3, ServedPage
    <3>5. list = Upcoming(p)
      <4>1. list = After(shown[p], wire'[current[p]])
        BY <1>2, <2>1
      <4>2. wire'[current[p]] \in {wire[current[p]], Append(wire[current[p]], RunTerminal)}
        BY <1>1, <3>1 DEF EmitFinished, Emit
      <4>3. After(shown[p], Append(wire[current[p]], RunTerminal)) = Upcoming(p)
        BY <3>4, FrameKinds, AfterAppend DEF Upcoming
      <4>4. QED
        BY <4>1, <4>2, <4>3 DEF Upcoming
    <3>6. r \in Runs /\ status[r] # "absent" /\ Listing(r, list)
      BY <3>3, <3>5, ServedPage
    <3>7. QED
      BY <1>1, <3>6, ListingKept
  <2>2. QED
    BY <2>1, ListsNext
<1>12. QED
  BY <1>7, <1>8, <1>9, <1>10, <1>11 DEF StreamsInv

-----------------------------------------------------------------------------
(* Steps of the route handler *)

\* A step of a stream or a page leaves what is settled and what is listed as it is.
LEMMA TablesKept ==
  ASSUME UNCHANGED vars
  PROVE  /\ \A r : Settled(r) => Settled(r)'
         /\ \A r, list : Listing(r, list) => Listing(r, list)'
<1>1. UNCHANGED <<status, rows, pc, run, emitted>>
  BY DEF vars, tables, locals
<1>2. QED
  BY <1>1 DEF Settled, Listing, Executing

LEMMA StoredSeq ==
  ASSUME Lone, NEW r \in Runs
  PROVE  Stored(r) \in Seq(Nat)
BY ListingStored DEF Listing

\* The rows are read and the callback is subscribed with no await between them.
LEMMA ServeLiveStep ==
  ASSUME Lone, StreamsInv, NEW s \in Streams, ServeLive(s)
  PROVE  StreamsInv'
<1>1. PICK r : r = of[s]
  OBVIOUS
<1>2. /\ phase[s] = "requested" /\ r \in Runs /\ status[r] \in Live
      /\ UNCHANGED <<of, watched, current, connection, shown, drops>> /\ UNCHANGED vars
      /\ status' = status
  BY <1>1 DEF ServeLive, client, vars, tables, StreamsInv, StreamsOK
<1>3. /\ subscribers \in [Runs -> SUBSET Streams]
      /\ \A q \in Runs : subscribers'[q] = IF q = r THEN subscribers[r] \union {s} ELSE subscribers[q]
      /\ subscribers' \in [Runs -> SUBSET Streams]
  BY <1>1, <1>2 DEF ServeLive, StreamsInv, StreamsTypeOK
<1>4. /\ phase \in [Streams -> Phases] /\ phase' \in [Streams -> Phases]
      /\ phase'[s] = IF HasReader(s) THEN "open" ELSE "deaf"
      /\ \A q \in Streams \ {s} : phase'[q] = phase[q]
  BY DEF ServeLive, StreamsInv, StreamsTypeOK, Phases
<1>5. Snapshot(r) \in Frame /\ \A list : AfterFrame(list, Snapshot(r)) = Stored(r)
  BY <1>2, StoredSeq, FrameKinds DEF Snapshot
<1>6. /\ wire \in [Streams -> Seq(Frame)] /\ wire' \in [Streams -> Seq(Frame)]
      /\ HasReader(s) => wire'[s] = <<Snapshot(r)>>
      /\ \A q \in Streams \ {s} : wire'[q] = wire[q]
  BY <1>1, <1>5 DEF ServeLive, Answer, StreamsInv, StreamsTypeOK
<1>7. StreamsTypeOK'
  <2>1. \A p \in Pages : current'[p] # NoStream =>
          phase'[current'[p]] \in Phases \ {"free"} /\ of'[current'[p]] = watched'[p]
    BY <1>2, <1>4 DEF StreamsInv, StreamsTypeOK
  <2>2. QED
    BY <1>2, <1>3, <1>4, <1>6, <2>1 DEF StreamsInv, StreamsTypeOK
<1>8. OverMeansUnsubscribed'
  <2>1. ASSUME NEW q \in Runs, NEW x \in subscribers'[q]
        PROVE  phase'[x] \in {"open", "deaf"} /\ of'[x] = q
    <3>1. CASE x = s
      <4>1. q = r
        BY <1>1, <1>2, <1>3, <2>1, <3>1 DEF StreamsInv, OverMeansUnsubscribed
      <4>2. QED
        BY <1>1, <1>2, <1>4, <3>1, <4>1
    <3>2. CASE x # s
      BY <1>2, <1>3, <1>4, <2>1, <3>2 DEF StreamsInv, OverMeansUnsubscribed
    <3>3. QED
      BY <3>1, <3>2
  <2>2. ASSUME NEW q \in Runs, status'[q] \in Terminal PROVE subscribers'[q] = {}
    BY <1>2, <1>3, <2>2 DEF StreamsInv, OverMeansUnsubscribed, Live, Terminal
  <2>3. QED
    BY <2>1, <2>2 DEF OverMeansUnsubscribed
<1>9. StreamsOK'
  <2>1. ASSUME NEW x \in Streams
        PROVE  phase'[x] # "free" => of'[x] \in Runs /\ status'[of'[x]] # "absent"
    BY <1>1, <1>2, <1>4, <2>1 DEF StreamsInv, StreamsOK
  <2>2. ASSUME NEW x \in Streams, phase'[x] \in {"open", "ended"}
        PROVE  x \in subscribers'[of'[x]] \/ Settled(of[x])'
    <3>1. CASE x = s
      BY <1>1, <1>2, <1>3, <3>1
    <3>2. CASE x # s
      <4>1. of[x] \in Runs /\ (x \in subscribers[of[x]] \/ Settled(of[x]))
        BY <1>4, <2>2, <3>2 DEF StreamsInv, StreamsOK
      <4>2. PICK q : q = of[x]
        OBVIOUS
      <4>3. x \in subscribers'[q] \/ Settled(q)'
        BY <1>2, <1>3, <4>1, <4>2, TablesKept
      <4>4. of'[x] = q
        BY <1>2, <4>2
      <4>5. QED
        BY <4>3, <4>4 DEF Settled
    <3>3. QED
      BY <3>1, <3>2
  <2>3. ASSUME NEW x \in Streams, phase'[x] = "deaf" PROVE ~HasReader(x)'
    BY <1>2, <1>4, <2>3 DEF StreamsInv, StreamsOK, HasReader
  <2>4. QED
    BY <2>1, <2>2, <2>3 DEF StreamsOK
<1>10. PagesOK'
  BY <1>2 DEF StreamsInv, PagesOK
<1>11. ListsOK'
  <2>1. ASSUME NEW p \in Pages, NEW q, NEW list, Served(p)', q = watched'[p],
               list = After(shown'[p], wire'[current'[p]])
        PROVE  Listing(q, list)'
    <3>1. /\ current[p] \in Streams /\ HasReader(current[p]) /\ current[p] # NoStream
          /\ list = After(shown[p], wire'[current[p]]) /\ of[current[p]] = watched[p]
          /\ q = watched[p]
      BY <1>2, <2>1 DEF Served, StreamsInv, StreamsTypeOK, HasReader
    <3>2. CASE current[p] = s
      <4>1. q = r
        BY <1>1, <3>1, <3>2
      <4>2. list = Stored(r)
        <5>1. PICK w : w = <<Snapshot(r)>>
          OBVIOUS
        <5>2. list = After(shown[p], w)
          BY <1>6, <3>1, <3>2, <5>1
        <5>3. w \in Seq(Frame) /\ w # <<>> /\ Head(w) = Snapshot(r) /\ Tail(w) = <<>>
          BY <1>5, <5>1
        <5>4. After(AfterFrame(shown[p], Snapshot(r)), <<>>) = After(shown[p], w)
          BY <5>3, AfterHead
        <5>5. QED
          BY <1>5, <5>2, <5>4, AfterNone
      <4>3. Listing(r, list)
        BY <1>2, <4>2, ListingStored
      <4>4. QED
        BY <1>2, <4>1, <4>3, TablesKept
    <3>3. CASE current[p] # s
      <4>1. Served(p) /\ list = Upcoming(p)
        BY <1>2, <1>4, <1>6, <2>1, <3>1, <3>3 DEF Served, Upcoming
      <4>2. Listing(q, list)
        BY <3>1, <4>1, ServedPage
      <4>3. QED
        BY <1>2, <4>2, TablesKept
    <3>4. QED
      BY <3>2, <3>3
  <2>2. QED
    BY <2>1, ListsNext
<1>12. QED
  BY <1>7, <1>8, <1>9, <1>10, <1>11 DEF StreamsInv

\* A run that is over is served from the tables alone.
LEMMA ServeEndedStep ==
  ASSUME Lone, StreamsInv, NEW s \in Streams, ServeEnded(s)
  PROVE  StreamsInv'
<1>1. PICK r : r = of[s]
  OBVIOUS
<1>2. /\ phase[s] = "requested" /\ r \in Runs /\ status[r] \in Terminal
      /\ UNCHANGED <<subscribers, of, watched, current, connection, shown, drops>>
      /\ UNCHANGED vars /\ status' = status
  BY <1>1 DEF ServeEnded, client, vars, tables, StreamsInv, StreamsOK
<1>3. Settled(r)
  BY <1>2 DEF Settled, Lone, ExecutingIsRunning, Terminal
<1>4. /\ phase \in [Streams -> Phases] /\ phase' \in [Streams -> Phases]
      /\ phase'[s] = "ended"
      /\ \A q \in Streams \ {s} : phase'[q] = phase[q]
  BY DEF ServeEnded, StreamsInv, StreamsTypeOK, Phases
<1>5. /\ Snapshot(r) \in Frame /\ \A list : AfterFrame(list, Snapshot(r)) = Stored(r)
      /\ RunTerminal \in Frame /\ \A list : AfterFrame(list, RunTerminal) = list
  BY <1>2, StoredSeq, FrameKinds DEF Snapshot
<1>6. /\ wire \in [Streams -> Seq(Frame)] /\ wire' \in [Streams -> Seq(Frame)]
      /\ HasReader(s) => wire'[s] = <<Snapshot(r), RunTerminal>>
      /\ \A q \in Streams \ {s} : wire'[q] = wire[q]
  BY <1>1, <1>5 DEF ServeEnded, Answer, StreamsInv, StreamsTypeOK
<1>7. StreamsTypeOK'
  <2>1. \A p \in Pages : current'[p] # NoStream =>
          phase'[current'[p]] \in Phases \ {"free"} /\ of'[current'[p]] = watched'[p]
    BY <1>2, <1>4 DEF StreamsInv, StreamsTypeOK
  <2>2. QED
    BY <1>2, <1>4, <1>6, <2>1 DEF StreamsInv, StreamsTypeOK
<1>8. OverMeansUnsubscribed'
  <2>1. \A q \in Runs : \A x \in subscribers[q] : x \in Streams /\ x # s
    BY <1>2 DEF StreamsInv, OverMeansUnsubscribed, StreamsTypeOK
  <2>2. QED
    BY <1>2, <1>4, <2>1 DEF StreamsInv, OverMeansUnsubscribed
<1>9. StreamsOK'
  <2>1. ASSUME NEW x \in Streams
        PROVE  phase'[x] # "free" => of'[x] \in Runs /\ status'[of'[x]] # "absent"
    BY <1>1, <1>2, <1>4, <2>1 DEF StreamsInv, StreamsOK
  <2>2. ASSUME NEW x \in Streams, phase'[x] \in {"open", "ended"}
        PROVE  x \in subscribers'[of'[x]] \/ Settled(of[x])'
    <3>1. x \in subscribers[of[x]] \/ Settled(of[x])
      BY <1>1, <1>3, <1>4, <2>2 DEF StreamsInv, StreamsOK
    <3>2. PICK q : q = of[x]
      OBVIOUS
    <3>3. x \in subscribers'[q] \/ Settled(q)'
      BY <1>2, <3>1, <3>2, TablesKept
    <3>4. of'[x] = q
      BY <1>2, <3>2
    <3>5. QED
      BY <3>3, <3>4 DEF Settled
  <2>3. ASSUME NEW x \in Streams, phase'[x] = "deaf" PROVE ~HasReader(x)'
    BY <1>2, <1>4, <2>3 DEF StreamsInv, StreamsOK, HasReader
  <2>4. QED
    BY <2>1, <2>2, <2>3 DEF StreamsOK
<1>10. PagesOK'
  BY <1>2 DEF StreamsInv, PagesOK
<1>11. ListsOK'
  <2>1. ASSUME NEW p \in Pages, NEW q, NEW list, Served(p)', q = watched'[p],
               list = After(shown'[p], wire'[current'[p]])
        PROVE  Listing(q, list)'
    <3>1. /\ current[p] \in Streams /\ HasReader(current[p]) /\ current[p] # NoStream
          /\ list = After(shown[p], wire'[current[p]]) /\ of[current[p]] = watched[p]
          /\ q = watched[p]
      BY <1>2, <2>1 DEF Served, StreamsInv, StreamsTypeOK, HasReader
    <3>2. CASE current[p] = s
      <4>1. q = r
        BY <1>1, <3>1, <3>2
      <4>2. list = Stored(r)
        <5>1. PICK w, v : w = <<Snapshot(r), RunTerminal>> /\ v = <<RunTerminal>>
          OBVIOUS
        <5>2. list = After(shown[p], w)
          BY <1>6, <3>1, <3>2, <5>1
        <5>3. /\ w \in Seq(Frame) /\ w # <<>> /\ Head(w) = Snapshot(r) /\ Tail(w) = v
              /\ v \in Seq(Frame) /\ v # <<>> /\ Head(v) = RunTerminal /\ Tail(v) = <<>>
          BY <1>5, <5>1
        <5>4. /\ After(AfterFrame(shown[p], Snapshot(r)), v) = After(shown[p], w)
              /\ After(AfterFrame(Stored(r), RunTerminal), <<>>) = After(Stored(r), v)
          BY <5>3, AfterHead
        <5>5. QED
          BY <1>5, <5>2, <5>4, AfterNone
      <4>3. Listing(r, list)
        BY <1>2, <4>2, ListingStored
      <4>4. QED
        BY <1>2, <4>1, <4>3, TablesKept
    <3>3. CASE current[p] # s
      <4>1. Served(p) /\ list = Upcoming(p)
        BY <1>2, <1>4, <1>6, <2>1, <3>1, <3>3 DEF Served, Upcoming
      <4>2. Listing(q, list)
        BY <3>1, <4>1, ServedPage
      <4>3. QED
        BY <1>2, <4>2, TablesKept
    <3>4. QED
      BY <3>2, <3>3
  <2>2. QED
    BY <2>1, ListsNext
<1>12. QED
  BY <1>7, <1>8, <1>9, <1>10, <1>11 DEF StreamsInv

\* A stream that nobody reads is forgotten.
LEMMA FreeStep ==
  ASSUME StreamsInv, NEW s \in Streams, ~HasReader(s), Free(s),
         UNCHANGED <<watched, current, connection, shown, drops>>, UNCHANGED vars,
         subscribers' = [r \in Runs |-> subscribers[r] \ {s}]
  PROVE  StreamsInv'
<1>1. /\ phase \in [Streams -> Phases] /\ phase' \in [Streams -> Phases] /\ phase'[s] = "free"
      /\ of \in [Streams -> Runs \union {NoRun}] /\ of' \in [Streams -> Runs \union {NoRun}]
      /\ wire \in [Streams -> Seq(Frame)] /\ wire' \in [Streams -> Seq(Frame)]
      /\ \A q \in Streams \ {s} : phase'[q] = phase[q] /\ of'[q] = of[q] /\ wire'[q] = wire[q]
  BY DEF StreamsInv, StreamsTypeOK, Free, Phases
<1>2. subscribers \in [Runs -> SUBSET Streams] /\ UNCHANGED status
  BY DEF StreamsInv, StreamsTypeOK, vars, tables
<1>3. \A p \in Pages : current[p] # s
  BY DEF HasReader
<1>4. StreamsTypeOK'
  BY <1>1, <1>2, <1>3 DEF StreamsInv, StreamsTypeOK
<1>5. OverMeansUnsubscribed'
  BY <1>1, <1>2 DEF StreamsInv, OverMeansUnsubscribed
<1>6. StreamsOK'
  <2>1. ASSUME NEW x \in Streams
        PROVE  phase'[x] # "free" => of'[x] \in Runs /\ status'[of'[x]] # "absent"
    BY <1>1, <1>2, <2>1 DEF StreamsInv, StreamsOK
  <2>2. ASSUME NEW x \in Streams, phase'[x] \in {"open", "ended"}
        PROVE  x \in subscribers'[of'[x]] \/ Settled(of[x])'
    <3>1. PICK q : q = of[x]
      OBVIOUS
    <3>2. x # s /\ of'[x] = q /\ q \in Runs /\ (x \in subscribers[q] \/ Settled(q))
      BY <1>1, <2>2, <3>1 DEF StreamsInv, StreamsOK, Settled
    <3>3. x \in subscribers'[q] \/ Settled(q)'
      BY <3>2, TablesKept
    <3>4. QED
      BY <3>2, <3>3 DEF Settled
  <2>3. ASSUME NEW x \in Streams, phase'[x] = "deaf" PROVE ~HasReader(x)'
    BY <1>1, <2>3 DEF StreamsInv, StreamsOK, HasReader
  <2>4. QED
    BY <2>1, <2>2, <2>3 DEF StreamsOK
<1>7. PagesOK'
  BY <1>2 DEF StreamsInv, PagesOK
<1>8. ListsOK'
  <2>1. ASSUME NEW p \in Pages, NEW r, NEW list, Served(p)', r = watched'[p],
               list = After(shown'[p], wire'[current'[p]])
        PROVE  Listing(r, list)'
    <3>1. Served(p) /\ r = watched[p] /\ list = Upcoming(p)
      BY <1>1, <1>3, <2>1 DEF Served, Upcoming, StreamsInv, StreamsTypeOK
    <3>2. QED
      BY <3>1, ServedPage, TablesKept
  <2>2. QED
    BY <2>1, ListsNext
<1>9. QED
  BY <1>4, <1>5, <1>6, <1>7, <1>8 DEF StreamsInv

LEMMA AbortStep ==
  ASSUME StreamsInv, NEW s \in Streams, Abort(s)
  PROVE  StreamsInv'
<1>1. phase[s] = "open" /\ ~HasReader(s) /\ Free(s) /\ UNCHANGED vars
      /\ UNCHANGED <<watched, current, connection, shown, drops>>
  BY DEF Abort, client
<1>2. subscribers \in [Runs -> SUBSET Streams] /\ of[s] \in Runs
  BY <1>1 DEF StreamsInv, StreamsTypeOK, StreamsOK
<1>3. \A r \in Runs : r # of[s] => s \notin subscribers[r]
  BY DEF StreamsInv, OverMeansUnsubscribed
<1>4. subscribers' = [subscribers EXCEPT ![of[s]] = @ \ {s}]
  BY DEF Abort
<1>5. subscribers' = [r \in Runs |-> subscribers[r] \ {s}]
  BY <1>2, <1>3, <1>4
<1>6. QED
  BY <1>1, <1>5, FreeStep

LEMMA ReleaseStep ==
  ASSUME StreamsInv, NEW s \in Streams, Release(s)
  PROVE  StreamsInv'
<1>1. phase[s] = "ended" /\ ~HasReader(s) /\ Free(s) /\ UNCHANGED vars
      /\ UNCHANGED <<watched, current, connection, shown, drops>> /\ subscribers' = subscribers
  BY DEF Release, client
<1>2. subscribers \in [Runs -> SUBSET Streams]
  BY DEF StreamsInv, StreamsTypeOK
<1>3. \A r \in Runs : s \notin subscribers[r]
  BY <1>1 DEF StreamsInv, OverMeansUnsubscribed
<1>4. subscribers' = [r \in Runs |-> subscribers[r] \ {s}]
  BY <1>1, <1>2, <1>3
<1>5. QED
  BY <1>1, <1>4, FreeStep

-----------------------------------------------------------------------------
(* Steps of the page *)

\* What a page that requests a stream had and has.
LEMMA RequestStep ==
  ASSUME StreamsInv, NEW p \in Pages, NEW r \in Runs, NEW s \in Streams,
         Request(p, r, s), status[r] # "absent", current[p] = NoStream,
         watched' = [watched EXCEPT ![p] = r], UNCHANGED <<connection, shown>>
  PROVE  StreamsInv'
<1>1. /\ phase[s] = "free" /\ UNCHANGED <<subscribers, wire, drops, connection, shown>>
      /\ UNCHANGED vars /\ status' = status
  BY DEF Request, vars, tables
<1>2. /\ phase \in [Streams -> Phases] /\ phase' \in [Streams -> Phases] /\ phase'[s] = "requested"
      /\ of \in [Streams -> Runs \union {NoRun}] /\ of' \in [Streams -> Runs \union {NoRun}]
      /\ of'[s] = r
      /\ \A q \in Streams \ {s} : phase'[q] = phase[q] /\ of'[q] = of[q]
  BY DEF StreamsInv, StreamsTypeOK, Request, Phases
<1>3. /\ current \in [Pages -> Streams \union {NoStream}]
      /\ current' \in [Pages -> Streams \union {NoStream}] /\ current'[p] = s
      /\ watched' \in [Pages -> Runs \union {NoRun}] /\ watched'[p] = r
      /\ \A q \in Pages \ {p} : current'[q] = current[q] /\ watched'[q] = watched[q]
  BY DEF StreamsInv, StreamsTypeOK, Request
<1>4. \A q \in Pages : current[q] # s
  BY <1>1, StreamsAssumption DEF StreamsInv, StreamsTypeOK
<1>5. \A q \in Runs : s \notin subscribers[q]
  BY <1>1 DEF StreamsInv, OverMeansUnsubscribed
<1>6. StreamsTypeOK'
  <2>1. \A q \in Pages : current'[q] # NoStream =>
          phase'[current'[q]] \in Phases \ {"free"} /\ of'[current'[q]] = watched'[q]
    <3>1. ASSUME NEW q \in Pages, current'[q] # NoStream, q # p
          PROVE  phase'[current'[q]] \in Phases \ {"free"} /\ of'[current'[q]] = watched'[q]
      BY <1>2, <1>3, <1>4, <3>1 DEF StreamsInv, StreamsTypeOK
    <3>2. phase'[s] \in Phases \ {"free"} /\ of'[s] = watched'[p]
      BY <1>2, <1>3
    <3>3. QED
      BY <1>3, <3>1, <3>2
  <2>2. QED
    BY <1>1, <1>2, <1>3, <2>1 DEF StreamsInv, StreamsTypeOK
<1>7. OverMeansUnsubscribed'
  <2>1. \A q \in Runs : \A x \in subscribers[q] : x \in Streams
    BY DEF StreamsInv, StreamsTypeOK
  <2>2. QED
    BY <1>1, <1>2, <1>5, <2>1 DEF StreamsInv, OverMeansUnsubscribed
<1>8. StreamsOK'
  <2>1. ASSUME NEW x \in Streams
        PROVE  phase'[x] # "free" => of'[x] \in Runs /\ status'[of'[x]] # "absent"
    BY <1>1, <1>2, <2>1 DEF StreamsInv, StreamsOK
  <2>2. ASSUME NEW x \in Streams, phase'[x] \in {"open", "ended"}
        PROVE  x \in subscribers'[of'[x]] \/ Settled(of[x])'
    <3>1. PICK q : q = of[x]
      OBVIOUS
    <3>2. x # s /\ of'[x] = q /\ (x \in subscribers[q] \/ Settled(q))
      BY <1>2, <2>2, <3>1 DEF StreamsInv, StreamsOK, Settled
    <3>3. x \in subscribers'[q] \/ Settled(q)'
      BY <1>1, <3>2, TablesKept
    <3>4. QED
      BY <3>2, <3>3 DEF Settled
  <2>3. ASSUME NEW x \in Streams, phase'[x] = "deaf" PROVE ~HasReader(x)'
    BY <1>2, <1>3, <2>3 DEF StreamsInv, StreamsOK, HasReader
  <2>4. QED
    BY <2>1, <2>2, <2>3 DEF StreamsOK
<1>9. PagesOK'
  BY <1>1, <1>3, <1>4 DEF StreamsInv, PagesOK
<1>10. ListsOK'
  <2>1. ASSUME NEW q \in Pages, NEW shownRun, NEW list, Served(q)', shownRun = watched'[q],
               list = After(shown'[q], wire'[current'[q]])
        PROVE  Listing(shownRun, list)'
    <3>1. q # p
      BY <1>2, <1>3, <2>1 DEF Served
    <3>2. Served(q) /\ shownRun = watched[q] /\ list = Upcoming(q)
      BY <1>1, <1>2, <1>3, <1>4, <2>1, <3>1 DEF Served, Upcoming
    <3>3. QED
      BY <1>1, <3>2, ServedPage, TablesKept
  <2>2. QED
    BY <2>1, ListsNext
<1>11. QED
  BY <1>6, <1>7, <1>8, <1>9, <1>10 DEF StreamsInv

LEMMA OpenPageStep ==
  ASSUME StreamsInv, NEW p \in Pages, NEW r \in Runs, NEW s \in Streams, OpenPage(p, r, s)
  PROVE  StreamsInv'
<1>1. current[p] = NoStream
  BY ConstantsAssumption DEF OpenPage, StreamsInv, PagesOK
<1>2. QED
  BY <1>1, RequestStep DEF OpenPage

LEMMA ReconnectStep ==
  ASSUME StreamsInv, NEW p \in Pages, NEW s \in Streams, Reconnect(p, s)
  PROVE  StreamsInv'
<1>1. PICK r : r = watched[p]
  OBVIOUS
<1>2. r \in Runs /\ status[r] # "absent" /\ Request(p, r, s) /\ current[p] = NoStream
  BY <1>1 DEF Reconnect, StreamsInv, PagesOK
<1>3. watched' = [watched EXCEPT ![p] = r]
  BY <1>1 DEF Reconnect, StreamsInv, StreamsTypeOK
<1>4. QED
  BY <1>2, <1>3, RequestStep DEF Reconnect

\* The page reads a frame of its stream, or gives the stream up.
LEMMA PageStep ==
  ASSUME StreamsInv, NEW p \in Pages, current[p] # NoStream,
         UNCHANGED <<subscribers, phase, of>>, UNCHANGED vars, drops' \in 0..MaxDrops,
         NEW w \in Seq(Frame), wire' = [wire EXCEPT ![current[p]] = w],
         NEW c \in {"live", "reconnecting", "terminal"}, connection' = [connection EXCEPT ![p] = c],
         NEW seen \in Seq(Nat), shown' = [shown EXCEPT ![p] = seen],
         NEW r \in {watched[p], NoRun}, watched' = [watched EXCEPT ![p] = r],
         r = watched[p] \/ c # "reconnecting",
         \/ current' = current /\ r = watched[p] /\ After(seen, w) = Upcoming(p)
         \/ current' = [current EXCEPT ![p] = NoStream]
  PROVE  StreamsInv'
<1>1. /\ current[p] \in Streams /\ watched[p] \in Runs /\ UNCHANGED status
      /\ \A q \in Pages : current[q] = current[p] => q = p
  BY DEF StreamsInv, StreamsTypeOK, PagesOK, vars, tables
<1>2. /\ wire' \in [Streams -> Seq(Frame)] /\ wire'[current[p]] = w
      /\ \A s \in Streams : s # current[p] => wire'[s] = wire[s]
  BY <1>1 DEF StreamsInv, StreamsTypeOK
<1>3. /\ current \in [Pages -> Streams \union {NoStream}]
      /\ current' \in [Pages -> Streams \union {NoStream}]
      /\ watched' \in [Pages -> Runs \union {NoRun}] /\ watched'[p] = r
      /\ shown' \in [Pages -> Seq(Nat)] /\ shown'[p] = seen
      /\ connection' \in [Pages -> {"live", "reconnecting", "terminal"}] /\ connection'[p] = c
      /\ \A q \in Pages : q # p => current'[q] = current[q] /\ watched'[q] = watched[q]
                                   /\ shown'[q] = shown[q] /\ connection'[q] = connection[q]
      /\ current'[p] = NoStream \/ (current'[p] = current[p] /\ current' = current)
  <2>1. /\ current \in [Pages -> Streams \union {NoStream}]
        /\ watched \in [Pages -> Runs \union {NoRun}] /\ shown \in [Pages -> Seq(Nat)]
        /\ connection \in [Pages -> {"live", "reconnecting", "terminal"}]
    BY DEF StreamsInv, StreamsTypeOK
  <2>2. /\ watched' \in [Pages -> Runs \union {NoRun}] /\ watched'[p] = r
        /\ \A q \in Pages : q # p => watched'[q] = watched[q]
    BY <2>1
  <2>3. /\ shown' \in [Pages -> Seq(Nat)] /\ shown'[p] = seen
        /\ \A q \in Pages : q # p => shown'[q] = shown[q]
    BY <2>1
  <2>4. /\ connection' \in [Pages -> {"live", "reconnecting", "terminal"}] /\ connection'[p] = c
        /\ \A q \in Pages : q # p => connection'[q] = connection[q]
    BY <2>1
  <2>5. /\ current' \in [Pages -> Streams \union {NoStream}]
        /\ \A q \in Pages : q # p => current'[q] = current[q]
        /\ current'[p] = NoStream \/ (current'[p] = current[p] /\ current' = current)
    BY <2>1
  <2>6. QED
    BY <2>1, <2>2, <2>3, <2>4, <2>5
<1>4. StreamsTypeOK'
  <2>1. \A q \in Pages : current'[q] # NoStream =>
          phase'[current'[q]] \in Phases \ {"free"} /\ of'[current'[q]] = watched'[q]
    <3>1. ASSUME NEW q \in Pages, current'[q] # NoStream
          PROVE  phase'[current'[q]] \in Phases \ {"free"} /\ of'[current'[q]] = watched'[q]
      <4>1. current'[q] = current[q] /\ watched'[q] = watched[q]
        BY <1>3, <3>1
      <4>2. QED
        BY <3>1, <4>1 DEF StreamsInv, StreamsTypeOK
    <3>2. QED
      BY <3>1
  <2>2. /\ subscribers' \in [Runs -> SUBSET Streams] /\ phase' \in [Streams -> Phases]
        /\ of' \in [Streams -> Runs \union {NoRun}]
    BY DEF StreamsInv, StreamsTypeOK
  <2>3. QED
    BY <1>2, <1>3, <2>1, <2>2 DEF StreamsTypeOK
<1>5. OverMeansUnsubscribed'
  BY <1>1 DEF StreamsInv, OverMeansUnsubscribed
<1>6. StreamsOK'
  <2>1. ASSUME NEW x \in Streams
        PROVE  phase'[x] # "free" => of'[x] \in Runs /\ status'[of'[x]] # "absent"
    BY <1>1, <2>1 DEF StreamsInv, StreamsOK
  <2>2. ASSUME NEW x \in Streams, phase'[x] \in {"open", "ended"}
        PROVE  x \in subscribers'[of'[x]] \/ Settled(of[x])'
    <3>1. PICK q : q = of[x]
      OBVIOUS
    <3>2. of'[x] = q /\ (x \in subscribers[q] \/ Settled(q))
      BY <2>2, <3>1 DEF StreamsInv, StreamsOK, Settled
    <3>3. x \in subscribers'[q] \/ Settled(q)'
      BY <3>2, TablesKept
    <3>4. QED
      BY <3>2, <3>3 DEF Settled
  <2>3. ASSUME NEW x \in Streams, phase'[x] = "deaf" PROVE ~HasReader(x)'
    <3>1. \A q \in Pages : current[q] # x
      BY <2>3 DEF StreamsInv, StreamsOK, HasReader
    <3>2. \A q \in Pages : current'[q] \in {current[q], NoStream}
      BY <1>3
    <3>3. QED
      BY <3>1, <3>2, StreamsAssumption DEF HasReader
  <2>4. QED
    BY <2>1, <2>2, <2>3 DEF StreamsOK
<1>7. PagesOK'
  <2>1. ASSUME NEW q \in Pages, current'[q] # NoStream \/ connection'[q] = "reconnecting"
        PROVE  watched'[q] \in Runs
    BY <1>1, <1>3, <2>1 DEF StreamsInv, PagesOK
  <2>2. ASSUME NEW q \in Pages, watched'[q] \in Runs PROVE status'[watched'[q]] # "absent"
    <3>1. watched'[q] = watched[q]
      BY <1>3, <2>2, ConstantsAssumption
    <3>2. QED
      BY <1>1, <2>2, <3>1 DEF StreamsInv, PagesOK
  <2>3. ASSUME NEW q \in Pages, current'[q] # NoStream,
               NEW x \in Pages, current'[x] = current'[q]
        PROVE  x = q
    <3>1. current'[q] = current[q] /\ current'[x] = current[x]
      BY <1>3, <2>3
    <3>2. QED
      BY <2>3, <3>1 DEF StreamsInv, PagesOK
  <2>4. QED
    BY <2>1, <2>2, <2>3 DEF PagesOK
<1>8. ListsOK'
  <2>1. ASSUME NEW q \in Pages, NEW shownRun, NEW list, Served(q)', shownRun = watched'[q],
               list = After(shown'[q], wire'[current'[q]])
        PROVE  Listing(shownRun, list)'
    <3>1. current'[q] = current[q] /\ current[q] # NoStream /\ Served(q)
      BY <1>3, <2>1 DEF Served
    <3>2. shownRun = watched[q] /\ list = Upcoming(q)
      <4>1. CASE q = p
        BY <1>2, <1>3, <2>1, <3>1, <4>1 DEF Upcoming
      <4>2. CASE q # p
        <5>1. current[q] \in Streams /\ current[q] # current[p]
          BY <1>1, <1>3, <3>1, <4>2
        <5>2. QED
          BY <1>2, <1>3, <2>1, <3>1, <4>2, <5>1 DEF Upcoming
      <4>3. QED
        BY <4>1, <4>2
    <3>3. QED
      BY <3>1, <3>2, ServedPage, TablesKept
  <2>2. QED
    BY <2>1, ListsNext
<1>9. QED
  BY <1>4, <1>5, <1>6, <1>7, <1>8 DEF StreamsInv

LEMMA ReadStep ==
  ASSUME StreamsInv, NEW p \in Pages, Read(p)
  PROVE  StreamsInv'
<1> DEFINE w == wire[current[p]]
<1>1. /\ current[p] # NoStream /\ w # <<>> /\ wire' = [wire EXCEPT ![current[p]] = Tail(w)]
      /\ UNCHANGED <<subscribers, phase, of>> /\ UNCHANGED vars /\ drops' = drops
      /\ Head(w).kind \in {"snapshot", "check", "terminal"}
  <2>1. PICK kind \in {"snapshot", "check", "terminal"} : Reading(p, kind)
    BY DEF Read, ReadSnapshot, ReadCheck, ReadTerminal
  <2>2. current[p] \in Streams
    BY <2>1 DEF Reading, StreamsInv, StreamsTypeOK
  <2>3. QED
    BY <2>1, <2>2 DEF Reading, server, StreamsInv, StreamsTypeOK
<1>2. /\ w \in Seq(Frame) /\ shown \in [Pages -> Seq(Nat)] /\ shown[p] \in Seq(Nat)
      /\ connection \in [Pages -> {"live", "reconnecting", "terminal"}]
      /\ watched \in [Pages -> Runs \union {NoRun}] /\ drops \in 0..MaxDrops
  BY <1>1 DEF StreamsInv, StreamsTypeOK
<1>3. Tail(w) \in Seq(Frame) /\ Head(w) \in Frame
  BY <1>1, <1>2
<1>4. After(AfterFrame(shown[p], Head(w)), Tail(w)) = Upcoming(p)
  BY <1>1, <1>2, AfterHead DEF Upcoming
<1>5. watched = [watched EXCEPT ![p] = watched[p]]
  BY <1>2
<1> HIDE DEF w
<1>6. CASE ReadSnapshot(p)
  <2>1. /\ Head(w).kind = "snapshot"
        /\ connection' = [connection EXCEPT ![p] = "live"]
        /\ shown' = [shown EXCEPT ![p] = Head(w).events]
        /\ watched' = watched /\ current' = current
    BY <1>6 DEF ReadSnapshot, Reading, w
  <2>2. Head(w).events \in Seq(Nat)
    BY <1>3, <2>1, FrameKinds
  <2>3. AfterFrame(shown[p], Head(w)) = Head(w).events
    BY <2>1 DEF AfterFrame
  <2>4. QED
    BY <1>1, <1>2, <1>3, <1>4, <1>5, <2>1, <2>2, <2>3, PageStep
<1>7. CASE ReadCheck(p)
  <2>1. /\ Head(w).kind = "check"
        /\ shown' = [shown EXCEPT ![p] = Append(shown[p], Head(w).event)]
        /\ watched' = watched /\ current' = current
        /\ connection' = [connection EXCEPT ![p] = connection[p]]
    BY <1>2, <1>7 DEF ReadCheck, Reading, w
  <2>2. Head(w).event \in Nat
    BY <1>3, <2>1, FrameKinds
  <2>3. Append(shown[p], Head(w).event) \in Seq(Nat)
    BY <1>2, <2>2
  <2>4. AfterFrame(shown[p], Head(w)) = Append(shown[p], Head(w).event)
    BY <2>1 DEF AfterFrame
  <2>5. connection[p] \in {"live", "reconnecting", "terminal"}
    BY <1>2
  <2>6. QED
    BY <1>1, <1>2, <1>3, <1>4, <1>5, <2>1, <2>3, <2>4, <2>5, PageStep
<1>8. CASE ReadTerminal(p)
  <2>1. /\ connection' = [connection EXCEPT ![p] = "terminal"]
        /\ current' = [current EXCEPT ![p] = NoStream]
        /\ watched' = watched /\ shown' = [shown EXCEPT ![p] = shown[p]]
    BY <1>2, <1>8 DEF ReadTerminal
  <2>2. QED
    BY <1>1, <1>2, <1>3, <1>5, <2>1, PageStep
<1>9. QED
  BY <1>6, <1>7, <1>8 DEF Read

LEMMA DisconnectStep ==
  ASSUME StreamsInv, NEW p \in Pages, Drop(p) \/ Leave(p)
  PROVE  StreamsInv'
<1>1. /\ current[p] # NoStream /\ drops > 0 /\ drops' = drops - 1
      /\ wire' = [wire EXCEPT ![current[p]] = <<>>]
      /\ current' = [current EXCEPT ![p] = NoStream]
      /\ UNCHANGED <<subscribers, phase, of>> /\ UNCHANGED vars
  BY DEF Drop, Leave, Disconnect, server
<1>2. /\ shown \in [Pages -> Seq(Nat)] /\ shown[p] \in Seq(Nat)
      /\ watched \in [Pages -> Runs \union {NoRun}] /\ drops' \in 0..MaxDrops
  BY <1>1, StreamsAssumption DEF StreamsInv, StreamsTypeOK
<1>3. <<>> \in Seq(Frame) /\ <<>> \in Seq(Nat)
  OBVIOUS
<1>4. CASE Drop(p)
  <2>1. /\ connection' = [connection EXCEPT ![p] = "reconnecting"]
        /\ watched' = [watched EXCEPT ![p] = watched[p]]
        /\ shown' = [shown EXCEPT ![p] = shown[p]]
    BY <1>2, <1>4 DEF Drop
  <2>2. QED
    BY <1>1, <1>2, <1>3, <2>1, PageStep
<1>5. CASE Leave(p)
  <2>1. /\ connection' = [connection EXCEPT ![p] = "live"]
        /\ watched' = [watched EXCEPT ![p] = NoRun]
        /\ shown' = [shown EXCEPT ![p] = <<>>]
    BY <1>5 DEF Leave
  <2>2. QED
    BY <1>1, <1>2, <1>3, <2>1, PageStep
<1>6. QED
  BY <1>4, <1>5

-----------------------------------------------------------------------------
(* The process *)

LEMMA CrashStep ==
  ASSUME StreamsInv, CrashAll
  PROVE  StreamsInv'
<1>1. /\ subscribers' = [r \in Runs |-> {}]
      /\ phase' = [s \in Streams |-> "free"]
      /\ of' = [s \in Streams |-> NoRun]
      /\ wire' = [s \in Streams |-> <<>>]
      /\ current' = [p \in Pages |-> NoStream]
      /\ connection' = [p \in Pages |-> IF current[p] = NoStream THEN connection[p]
                                        ELSE "reconnecting"]
      /\ UNCHANGED <<watched, shown, drops, status>>
  BY DEF CrashAll, Crash, tables
<1>2. StreamsTypeOK'
  BY <1>1 DEF StreamsInv, StreamsTypeOK, Phases
<1>3. OverMeansUnsubscribed'
  BY <1>1 DEF OverMeansUnsubscribed
<1>4. StreamsOK'
  BY <1>1 DEF StreamsOK
<1>5. PagesOK'
  <2>1. \A p \in Pages : current'[p] = NoStream
    BY <1>1
  <2>2. \A p \in Pages : connection'[p] = "reconnecting" => watched'[p] \in Runs
    BY <1>1 DEF StreamsInv, PagesOK
  <2>3. \A p \in Pages : watched'[p] \in Runs => status'[watched'[p]] # "absent"
    BY <1>1 DEF StreamsInv, PagesOK
  <2>4. QED
    BY <2>1, <2>2, <2>3 DEF PagesOK
<1>6. ListsOK'
  BY <1>1 DEF ListsOK, Served
<1>7. QED
  BY <1>2, <1>3, <1>4, <1>5, <1>6 DEF StreamsInv

LEMMA StreamsInvInit == StreamsInit => StreamsInv
<1> SUFFICES ASSUME StreamsInit PROVE StreamsInv
  OBVIOUS
<1>1. StreamsTypeOK
  BY StreamsAssumption DEF StreamsInit, StreamsTypeOK, Phases
<1>2. OverMeansUnsubscribed
  BY DEF StreamsInit, OverMeansUnsubscribed
<1>3. StreamsOK
  BY DEF StreamsInit, StreamsOK
<1>4. PagesOK
  BY ConstantsAssumption DEF StreamsInit, PagesOK
<1>5. ListsOK
  BY DEF StreamsInit, ListsOK, Served
<1>6. QED
  BY <1>1, <1>2, <1>3, <1>4, <1>5 DEF StreamsInv

LEMMA StreamsInvStep ==
  ASSUME SingleUser, Lone, StreamsInv, [StreamsNext]_streamsAll
  PROVE  StreamsInv'
<1>1. CASE Posted
  BY <1>1, PostedIsCalm, CalmStep DEF Posted
<1>2. CASE CrashAll
  BY <1>2, CrashStep
<1>3. ASSUME NEW t \in Tasks, TaskStep(t) PROVE StreamsInv'
  <2>1. CASE Quiet(t)
    BY <2>1, QuietIsCalm, CalmStep DEF Quiet
  <2>2. CASE EmitCheck(t)
    BY <2>2, EmitCheckStep
  <2>3. CASE FailPreparation(t)
    BY <2>3, FailPreparationStep
  <2>4. CASE FinishRun(t)
    BY <2>4, FinishRunStep
  <2>5. QED
    BY <1>3, <2>1, <2>2, <2>3, <2>4 DEF TaskStep
<1>4. ASSUME NEW s \in Streams, Serve(s) \/ Abort(s) \/ Release(s) PROVE StreamsInv'
  BY <1>4, ServeLiveStep, ServeEndedStep, AbortStep, ReleaseStep DEF Serve
<1>5. ASSUME NEW p \in Pages, NEW r \in Runs, NEW s \in Streams, OpenPage(p, r, s)
      PROVE  StreamsInv'
  BY <1>5, OpenPageStep
<1>6. ASSUME NEW p \in Pages, NEW s \in Streams, Reconnect(p, s) PROVE StreamsInv'
  BY <1>6, ReconnectStep
<1>7. ASSUME NEW p \in Pages, Read(p) \/ Drop(p) \/ Leave(p) PROVE StreamsInv'
  BY <1>7, ReadStep, DisconnectStep
<1>8. CASE UNCHANGED streamsAll
  <2>1. UNCHANGED vars /\ UNCHANGED streamVars
    BY <1>8 DEF streamsAll
  <2>2. Calm
    BY <2>1 DEF Calm, vars, tables, locals, Executing
  <2>3. QED
    BY <2>1, <2>2, CalmStep
<1>9. QED
  BY <1>1, <1>2, <1>3, <1>4, <1>5, <1>6, <1>7, <1>8 DEF StreamsNext

-----------------------------------------------------------------------------

\* The inductive invariant, in a deployment with one account: with several, startRun's
\* sweep fails runs of other accounts whose callbacks are still on the bus.
THEOREM StreamsInductive == SingleUser => (StreamsSpec => []StreamsInv)
<1> SUFFICES ASSUME SingleUser PROVE StreamsSpec => []StreamsInv
  OBVIOUS
<1>1. StreamsInit => StreamsInv
  BY StreamsInvInit
<1>2. Lone /\ StreamsInv /\ [StreamsNext]_streamsAll => StreamsInv'
  BY StreamsInvStep
<1>3. StreamsSpec => []Lone
  BY LoneStays
<1>4. QED
  BY <1>1, <1>2, <1>3, PTL DEF StreamsSpec, streamsAll

\* Every page reads a stream the server still keeps, and reads it for the run it shows.
THEOREM StreamsTypeCorrect == SingleUser => (StreamsSpec => []StreamsTypeOK)
<1>1. StreamsInv => StreamsTypeOK
  BY DEF StreamsInv
<1>2. QED
  BY <1>1, StreamsInductive, PTL

\* bus.close forgets every callback of a run that is over, and cleanup takes a stream's own
\* callback with it, wherever among the awaits of the handler the run ended or the request
\* was aborted.
THEOREM BusForgets == SingleUser => (StreamsSpec => []OverMeansUnsubscribed)
<1>1. StreamsInv => OverMeansUnsubscribed
  BY DEF StreamsInv
<1>2. QED
  BY <1>1, StreamsInductive, PTL

\* Replay then live, for any number of tabs, rows, drops and restarts: the snapshot that
\* the handler reads and the frames it forwards afterwards leave out no stored row and
\* repeat none, so what a page lists is in the engine's order.
THEOREM MissesNothing == SingleUser => (StreamsSpec => []PageMissesNothing)
<1>1. StreamsInv => PageMissesNothing
  <2> SUFFICES ASSUME StreamsInv, NEW p \in Pages,
                      current[p] # NoStream, phase[current[p]] \in {"open", "ended"}
               PROVE  LET list == AfterWire(p)
                      IN /\ \A i \in 1..Len(list) : i > 1 => list[i - 1] < list[i]
                         /\ \A i \in 1..Len(rows[watched[p]]) :
                              \E j \in 1..Len(list) : list[j] = rows[watched[p]][i].event
    BY DEF PageMissesNothing
  <2>1. Listing(watched[p], Upcoming(p))
    BY ServedPage DEF Served
  <2>2. AfterWire(p) = Upcoming(p)
    BY AfterWireIsAfter DEF Upcoming
  <2>3. QED
    BY <2>1, <2>2 DEF Listing
<1>2. QED
  BY <1>1, StreamsInductive, PTL

===============================================================================
