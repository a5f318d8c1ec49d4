--------------------------- MODULE SectionProgress ---------------------------
(***************************************************************************)
(* What the page of a live run shows of its sections: the events of the    *)
(* engine reach useRunEvents over an event stream that may be lost and     *)
(* reconnected, and each of them changes what the page knows of a section. *)
(* LiveProgress shows it together with what the server rendered.           *)
(*                                                                         *)
(* The engine is EngineEvents, which SectionRunner implements; how the     *)
(* server serves a stream is in RunStreams, here it is one step.  A page   *)
(* that is left and opened again is a page opened later.                   *)
(***************************************************************************)
EXTENDS EngineEvents, Sequences, Orders

CONSTANTS
  Inputs,    \* base id and status of the rows that each section may add
  MaxRows,   \* bound on the rows of each section
  MaxDrops   \* bound on the lost connections

Sections == 1..NumSections

ASSUME ProgressAssumption ==
  /\ NumSections \in Nat
  /\ MaxRows \in [Sections -> Nat]
  /\ MaxDrops \in Nat

VARIABLES
  rows,        \* check_rows of the run, in their order
  lost,        \* history: the checks whose insert failed
  attached,    \* the page's stream is subscribed
  wire,        \* its frames that the page has not read yet
  connection,  \* connectionState, "closed" before the page is opened
  known,       \* the hook's sections: a status and checks for some of them
  initial,     \* initialSections: those that had rows when the page was rendered
  drops        \* connections that may still be lost

engine == <<last, at>>
page   == <<connection, known, initial, drops>>
table  == <<rows, lost>>
progressVars == <<engine, table, attached, wire, page>>

Frame(kind, section, added) == [kind |-> kind, section |-> section, rows |-> added]

ProgressInit ==
  /\ EInit
  /\ rows = <<>>
  /\ lost = {}
  /\ attached = FALSE
  /\ wire = <<>>
  /\ connection = "closed"
  /\ known = <<>>
  /\ initial = {}
  /\ drops = MaxDrops

InSection(list, n) == Picked(list, {i \in DOMAIN list : list[i].section = n})
WithRows(list)     == {list[i].section : i \in DOMAIN list}

-----------------------------------------------------------------------------
(* The engine's events *)

Send(kind, section, added) ==
  /\ wire' = IF attached THEN Append(wire, Frame(kind, section, added)) ELSE wire
  /\ UNCHANGED <<attached, page>>

\* Events for which the page has no listener.
Unheard ==
  /\ RunStarted \/ (Collected /\ last' # "check-completed")
  /\ UNCHANGED <<table, attached, wire, page>>

Started == SectionStarted /\ Send("section-started", at', <<>>) /\ UNCHANGED table

\* What the engine has emitted; the n-th row of a base id in a section has the number n.
Emitted == {rows[i] : i \in DOMAIN rows} \cup lost

Like(n, base) == {row \in Emitted : row.section = n /\ row.base = base}

Row(input) ==
  [section |-> at, base |-> input.base, status |-> input.status,
   number |-> Cardinality(Like(at, input.base)) + 1]

\* Live first: the event is sent, and then its row is inserted; should that throw, it is
\* caught, and the row is nowhere.
Completed(input) ==
  /\ Collected
  /\ last' = "check-completed"
  /\ Cardinality({row \in Emitted : row.section = at}) < MaxRows[at]
  /\ Send("check-completed", at, <<Row(input)>>)
  /\ \/ rows' = Append(rows, Row(input)) /\ UNCHANGED lost
     \/ lost' = lost \cup {Row(input)} /\ UNCHANGED rows

Failed   == SectionError /\ Send("section-error", at, <<>>) /\ UNCHANGED table
Finished == SectionFinished /\ Send("section-finished", at, <<>>) /\ UNCHANGED table

\* The stream's callback writes run-terminal after run-finished.
Ended == RunFinished /\ Send("run-terminal", at, <<>>) /\ UNCHANGED table

EngineStep ==
  \/ Unheard \/ Started \/ Failed \/ Finished \/ Ended
  \/ at > 0 /\ \E input \in Inputs[at] : Completed(input)

-----------------------------------------------------------------------------
(* The page *)

\* RunPage renders the live view of a run that has not ended.
Open ==
  /\ connection = "closed"
  /\ last # "run-finished"
  /\ connection' = "live"
  /\ initial' = WithRows(rows)
  /\ UNCHANGED <<engine, table, attached, wire, known, drops>>

\* The stream is served: the stored rows, then what follows, or the end.
Connect ==
  /\ connection \in {"live", "reconnecting"}
  /\ ~attached
  /\ attached' = TRUE
  /\ wire' = <<Frame("snapshot", 0, rows)>> \o
               IF last = "run-finished" THEN <<Frame("run-terminal", 0, <<>>)>> ELSE <<>>
  /\ UNCHANGED <<engine, table, page>>

\* onerror
Drop ==
  /\ attached
  /\ drops > 0
  /\ drops' = drops - 1
  /\ attached' = FALSE
  /\ wire' = <<>>
  /\ connection' = "reconnecting"
  /\ UNCHANGED <<engine, table, known, initial>>

Entry(status, checks) == [status |-> status, checks |-> checks]

Knows(n)  == n \in DOMAIN known
Checks(n) == IF Knows(n) THEN known[n].checks ELSE <<>>

Learn(n, entry) ==
  known' = [m \in DOMAIN known \cup {n} |-> IF m = n THEN entry ELSE known[m]]

\* Seeded fault: the snapshot is added to what the page knows.
handleSnapshotFault(list) ==
  known' = [n \in DOMAIN known \cup WithRows(list) |->
              IF n \in WithRows(list) /\ ~Knows(n)
                THEN Entry("completed", InSection(list, n))
                ELSE Entry(known[n].status, InSection(list, n))]

\* Every section of the snapshot is taken for completed, and no other is known.
handleSnapshot(list) ==
  known' = [n \in WithRows(list) |-> Entry("completed", InSection(list, n))]

\* Seeded fault: a check of an unknown section is ignored, as its end is.
checkCompletedFault(n, added) ==
  IF Knows(n) THEN Learn(n, Entry(known[n].status, Checks(n) \o added)) ELSE UNCHANGED known

checkCompleted(n, added) ==
  Learn(n, Entry(IF Knows(n) THEN known[n].status ELSE "running", Checks(n) \o added))

\* Whatever the section's status was, a failure included, its end makes it completed.
sectionFinished(n) ==
  IF Knows(n) THEN Learn(n, Entry("completed", Checks(n))) ELSE UNCHANGED known

Apply(frame) ==
  LET n == frame.section
  IN \/ frame.kind = "snapshot" /\ handleSnapshot(frame.rows)
     \/ frame.kind = "section-started" /\ Learn(n, Entry("running", Checks(n)))
     \/ frame.kind = "check-completed" /\ checkCompleted(n, frame.rows)
     \/ frame.kind = "section-error" /\ Learn(n, Entry("failed", Checks(n)))
     \/ frame.kind = "section-finished" /\ sectionFinished(n)
     \/ frame.kind = "run-terminal" /\ UNCHANGED known

Read ==
  /\ wire # <<>>
  /\ Apply(Head(wire))
  /\ wire' = Tail(wire)
  /\ connection' = IF Head(wire).kind = "run-terminal" THEN "terminal" ELSE "live"
  /\ attached' = (Head(wire).kind # "run-terminal")
  /\ UNCHANGED <<engine, table, initial, drops>>

ProgressNext == EngineStep \/ Open \/ Connect \/ Drop \/ Read

ProgressSpec == ProgressInit /\ [][ProgressNext]_progressVars

-----------------------------------------------------------------------------
(* Properties *)

\* The badge of LiveProgress.
statusOf(n) ==
  IF Knows(n) THEN known[n].status ELSE IF n \in initial THEN "completed" ELSE "not shown"

\* The section whose collectors run, if any.
IsUnderWay(n) == n = at /\ last \in Collecting \cup {"section-error"}

\* Through lost connections at any point of a section, a page that has read what it
\* was sent shows no section as running but the one that is, and none at all once it
\* has been told that the run is over.
RunningIsCurrent ==
  \A n \in Sections :
    /\ attached /\ wire = <<>> /\ statusOf(n) = "running" => IsUnderWay(n)
    /\ connection = "terminal" => statusOf(n) # "running"
=============================================================================
