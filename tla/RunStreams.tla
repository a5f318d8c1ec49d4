----------------------------- MODULE RunStreams -----------------------------
(***************************************************************************)
(* The live progress of a run: the in-memory event bus the executor emits  *)
(* into, the event streams GET /api/runs/[id]/events serves, and the page  *)
(* hook useRunEvents that reads one, on top of RunLifecycle.               *)
(*                                                                         *)
(* A stream's frames are delivered in order and are lost with the          *)
(* connection.  Only the frames the properties tell apart are kept: the    *)
(* snapshot, check-completed and run-terminal.  A frame carries the number *)
(* of the engine's event in place of the row.                              *)
(***************************************************************************)
EXTENDS RunLifecycle

CONSTANTS
  Pages,      \* browser tabs with a run page
  Streams,    \* bound on the event streams the server holds at a time
  NoStream,
  MaxDrops    \* bound on the connections that are lost or abandoned

ASSUME StreamsAssumption == NoStream \notin Streams /\ MaxDrops \in Nat

VARIABLES
  subscribers,  \* the bus: streams subscribed to each run
  phase,        \* of a stream on the server
  of,           \* the run id a stream was requested for
  wire,         \* its frames that the page has not read yet
  watched,      \* the run a page shows
  current,      \* the page's EventSource
  connection,   \* connectionState of the hook
  shown,        \* the checks the page lists, in order
  drops         \* connections that may still be lost

server     == <<subscribers, phase, of>>
client     == <<watched, current, connection, shown>>
streamVars == <<server, wire, client, drops>>

\* requested: the handler awaits the session.  deaf: subscribed after the
\* request was aborted, so that no abort event will ever arrive.  ended: the
\* last frame is written and the controller is closed.
Phases == {"free", "requested", "open", "deaf", "ended"}

Frame ==
  [kind : {"snapshot"}, events : Seq(Nat)]
    \union [kind : {"check"}, event : Nat]
    \union [kind : {"terminal"}]

\* Type invariant; a page only reads a stream that exists, for its own run.
StreamsTypeOK ==
  /\ subscribers \in [Runs -> SUBSET Streams]
  /\ phase \in [Streams -> Phases]
  /\ of \in [Streams -> Runs \union {NoRun}]
  /\ wire \in [Streams -> Seq(Frame)]
  /\ watched \in [Pages -> Runs \union {NoRun}]
  /\ current \in [Pages -> Streams \union {NoStream}]
  /\ connection \in [Pages -> {"live", "reconnecting", "terminal"}]
  /\ shown \in [Pages -> Seq(Nat)]
  /\ drops \in 0..MaxDrops
  /\ \A p \in Pages : current[p] # NoStream =>
       phase[current[p]] \in Phases \ {"free"} /\ of[current[p]] = watched[p]

StreamsInit ==
  /\ Init
  /\ subscribers = [r \in Runs |-> {}]
  /\ phase = [s \in Streams |-> "free"]
  /\ of = [s \in Streams |-> NoRun]
  /\ wire = [s \in Streams |-> <<>>]
  /\ watched = [p \in Pages |-> NoRun]
  /\ current = [p \in Pages |-> NoStream]
  /\ connection = [p \in Pages |-> "live"]
  /\ shown = [p \in Pages |-> <<>>]
  /\ drops = MaxDrops

HasReader(s) == \E p \in Pages : current[p] = s

-----------------------------------------------------------------------------
(* The bus *)

Check(event) == [kind |-> "check", event |-> event]
RunTerminal  == [kind |-> "terminal"]

\* bus.emit calls every subscriber's callback; a frame for a page that has gone
\* is written to nobody.
Emit(r, frame) ==
  wire' = [s \in Streams |-> IF s \in subscribers[r] /\ HasReader(s)
                             THEN Append(wire[s], frame) ELSE wire[s]]

\* bus.close forgets the subscribers; it does not call them.
Close(r) == subscribers' = [subscribers EXCEPT ![r] = {}]

\* The callback writes run-terminal on run-finished and closes its stream.
EmitFinished(r) ==
  /\ Emit(r, RunTerminal)
  /\ phase' = [s \in Streams |-> IF s \in subscribers[r] THEN "ended" ELSE phase[s]]

-----------------------------------------------------------------------------
(* The executor's steps, with what they do to the bus *)

Quiet(t) ==
  /\ \/ RefuseActive(t) \/ PassActive(t) \/ RefuseStatus(t)
     \/ Begin(t) \/ BeginRejects(t) \/ StartEngine(t)
  /\ UNCHANGED streamVars

EmitCheck(t) ==
  /\ EmitRow(t)
  /\ Emit(run[t], Check(emitted[t] + 1))
  /\ UNCHANGED <<server, client, drops>>

\* Seeded fault: the early return of a failed preparation leaves the bus open.
FailPreparationFault(t) ==
  /\ PrepareFails(t)
  /\ UNCHANGED streamVars

FailPreparation(t) ==
  /\ PrepareFails(t)
  /\ Close(run[t])
  /\ UNCHANGED <<phase, of, wire, client, drops>>

\* Seeded fault: run-finished is not forwarded to the subscribers.
FinishRunFaultSilent(t) ==
  /\ Finish(t)
  /\ Close(run[t])
  /\ UNCHANGED <<phase, of, wire, client, drops>>

\* run-finished is emitted, the run is marked and the bus is closed before any
\* other task of the event loop.
FinishRun(t) ==
  /\ Finish(t)
  /\ EmitFinished(run[t])
  /\ Close(run[t])
  /\ UNCHANGED <<of, client, drops>>

-----------------------------------------------------------------------------
(* GET /api/runs/[id]/events *)

Stored(r) == [i \in 1..Len(rows[r]) |-> rows[r][i].event]
Snapshot(r) == [kind |-> "snapshot", events |-> Stored(r)]

Answer(s, frames) ==
  wire' = [wire EXCEPT ![s] = IF HasReader(s) THEN frames ELSE <<>>]

\* Seeded fault: the last row is inserted between the snapshot and the
\* subscription, as it can be when an await lies between them.
ServeLiveFault(s) ==
  /\ phase[s] = "requested"
  /\ status[of[s]] \in Live
  /\ LET events == Stored(of[s])
     IN Answer(s, <<[kind |-> "snapshot",
                     events |-> SubSeq(events, 1, Len(events) - 1)]>>)
  /\ subscribers' = [subscribers EXCEPT ![of[s]] = @ \union {s}]
  /\ phase' = [phase EXCEPT ![s] = IF HasReader(s) THEN "open" ELSE "deaf"]
  /\ UNCHANGED <<of, client, drops, vars>>

\* The rows are read and the callback is subscribed in one step.  An abort that
\* came during the awaits is over when the listener is added.
ServeLive(s) ==
  /\ phase[s] = "requested"
  /\ status[of[s]] \in Live
  /\ Answer(s, <<Snapshot(of[s])>>)
  /\ subscribers' = [subscribers EXCEPT ![of[s]] = @ \union {s}]
  /\ phase' = [phase EXCEPT ![s] = IF HasReader(s) THEN "open" ELSE "deaf"]
  /\ UNCHANGED <<of, client, drops, vars>>

ServeEnded(s) ==
  /\ phase[s] = "requested"
  /\ status[of[s]] \in Terminal
  /\ Answer(s, <<Snapshot(of[s]), RunTerminal>>)
  /\ phase' = [phase EXCEPT ![s] = "ended"]
  /\ UNCHANGED <<subscribers, of, client, drops, vars>>

Free(s) ==
  /\ phase' = [phase EXCEPT ![s] = "free"]
  /\ of' = [of EXCEPT ![s] = NoRun]
  /\ wire' = [wire EXCEPT ![s] = <<>>]

\* Seeded fault: the cleanup runs while a page still reads the stream.
AbortFault(s) ==
  /\ phase[s] = "open"
  /\ subscribers' = [subscribers EXCEPT ![of[s]] = @ \ {s}]
  /\ Free(s)
  /\ UNCHANGED <<client, drops, vars>>

\* The request's abort event runs cleanup.
Abort(s) ==
  /\ phase[s] = "open" /\ ~HasReader(s)
  /\ subscribers' = [subscribers EXCEPT ![of[s]] = @ \ {s}]
  /\ Free(s)
  /\ UNCHANGED <<client, drops, vars>>

\* A closed stream goes with its connection.
Release(s) ==
  /\ phase[s] = "ended" /\ ~HasReader(s)
  /\ Free(s)
  /\ UNCHANGED <<subscribers, client, drops, vars>>

-----------------------------------------------------------------------------
(* useRunEvents *)

\* new EventSource(`/api/runs/${runId}/events`)
Request(p, r, s) ==
  /\ phase[s] = "free"
  /\ phase' = [phase EXCEPT ![s] = "requested"]
  /\ of' = [of EXCEPT ![s] = r]
  /\ current' = [current EXCEPT ![p] = s]
  /\ UNCHANGED <<subscribers, wire, drops, vars>>

\* The page was rendered while the run was live; it may have ended since.
OpenPage(p, r, s) ==
  /\ watched[p] = NoRun
  /\ status[r] # "absent"
  /\ watched' = [watched EXCEPT ![p] = r]
  /\ Request(p, r, s)
  /\ UNCHANGED <<connection, shown>>

Reconnect(p, s) ==
  /\ connection[p] = "reconnecting"
  /\ current[p] = NoStream
  /\ Request(p, watched[p], s)
  /\ UNCHANGED <<watched, connection, shown>>

Reading(p, kind) ==
  /\ current[p] # NoStream
  /\ wire[current[p]] # <<>>
  /\ Head(wire[current[p]]).kind = kind
  /\ wire' = [wire EXCEPT ![current[p]] = Tail(@)]
  /\ UNCHANGED <<server, drops, vars>>

\* onopen, then the snapshot replaces what the page shows.
ReadSnapshot(p) ==
  /\ Reading(p, "snapshot")
  /\ connection' = [connection EXCEPT ![p] = "live"]
  /\ shown' = [shown EXCEPT ![p] = Head(wire[current[p]]).events]
  /\ UNCHANGED <<watched, current>>

ReadCheck(p) ==
  /\ Reading(p, "check")
  /\ shown' = [shown EXCEPT ![p] = Append(@, Head(wire[current[p]]).event)]
  /\ UNCHANGED <<watched, current, connection>>

\* The toast, es.close() and router.refresh(), whatever the status told.
ReadTerminal(p) ==
  /\ Reading(p, "terminal")
  /\ connection' = [connection EXCEPT ![p] = "terminal"]
  /\ current' = [current EXCEPT ![p] = NoStream]
  /\ UNCHANGED <<watched, shown>>

Disconnect(p) ==
  /\ current[p] # NoStream
  /\ drops > 0
  /\ drops' = drops - 1
  /\ wire' = [wire EXCEPT ![current[p]] = <<>>]
  /\ current' = [current EXCEPT ![p] = NoStream]
  /\ UNCHANGED <<server, vars>>

\* onerror closes the EventSource and schedules connect().
Drop(p) ==
  /\ Disconnect(p)
  /\ connection' = [connection EXCEPT ![p] = "reconnecting"]
  /\ UNCHANGED <<watched, shown>>

\* The effect's cleanup when the page is left.
Leave(p) ==
  /\ Disconnect(p)
  /\ watched' = [watched EXCEPT ![p] = NoRun]
  /\ connection' = [connection EXCEPT ![p] = "live"]
  /\ shown' = [shown EXCEPT ![p] = <<>>]

-----------------------------------------------------------------------------

\* The process takes its streams and its bus with it; the pages see an error.
CrashAll ==
  /\ Crash
  /\ subscribers' = [r \in Runs |-> {}]
  /\ phase' = [s \in Streams |-> "free"]
  /\ of' = [s \in Streams |-> NoRun]
  /\ wire' = [s \in Streams |-> <<>>]
  /\ current' = [p \in Pages |-> NoStream]
  /\ connection' = [p \in Pages |-> IF current[p] = NoStream THEN connection[p]
                                    ELSE "reconnecting"]
  /\ UNCHANGED <<watched, shown, drops>>

Posted ==
  /\ \/ \E u \in Users, r \in Runs, t \in Tasks : Post(u, r, t)
     \/ \E t \in Tasks, r \in Runs : CallAgain(t, r)
  /\ UNCHANGED streamVars

TaskStep(t) == Quiet(t) \/ EmitCheck(t) \/ FailPreparation(t) \/ FinishRun(t)

Serve(s) == ServeLive(s) \/ ServeEnded(s)
Read(p)  == ReadSnapshot(p) \/ ReadCheck(p) \/ ReadTerminal(p)

StreamsNext ==
  \/ Posted
  \/ CrashAll
  \/ \E t \in Tasks : TaskStep(t)
  \/ \E s \in Streams : Serve(s) \/ Abort(s) \/ Release(s)
  \/ \E p \in Pages, r \in Runs, s \in Streams : OpenPage(p, r, s)
  \/ \E p \in Pages, s \in Streams : Reconnect(p, s)
  \/ \E p \in Pages : Read(p) \/ Drop(p) \/ Leave(p)

StreamsSpec == StreamsInit /\ [][StreamsNext]_<<vars, streamVars>>

\* The event loop serves every request, closed connections are noticed, the
\* browser reads what arrives and its reconnect timer fires.
StreamsFairSpec ==
  /\ StreamsSpec
  /\ \A t \in Tasks : WF_<<vars, streamVars>>(TaskStep(t))
  /\ \A s \in Streams : WF_<<vars, streamVars>>(Serve(s) \/ Abort(s) \/ Release(s))
  /\ \A p \in Pages : WF_<<vars, streamVars>>(Read(p) \/ \E s \in Streams : Reconnect(p, s))

-----------------------------------------------------------------------------
(* Properties *)

\* What the page will list once it has read every frame on its wire.
AfterFrame(list, frame) ==
  CASE frame.kind = "snapshot" -> frame.events
    [] frame.kind = "check"    -> Append(list, frame.event)
    [] OTHER                   -> list

AfterWire(p) ==
  LET w == wire[current[p]]
      list[i \in 0..Len(w)] == IF i = 0 THEN shown[p] ELSE AfterFrame(list[i - 1], w[i])
  IN list[Len(w)]

\* Replay-then-live: a page whose stream is served misses no stored row and
\* lists none twice or out of order, however often it has reconnected and
\* wherever between two rows it did.
PageMissesNothing ==
  \A p \in Pages :
    current[p] # NoStream /\ phase[current[p]] \in {"open", "ended"} =>
      LET list == AfterWire(p)
      IN /\ \A i \in 1..Len(list) : i > 1 => list[i - 1] < list[i]
         /\ \A i \in 1..Len(rows[watched[p]]) :
              \E j \in 1..Len(list) : list[j] = rows[watched[p]][i].event

\* The bus keeps no callback of a run that is over, or of a stream that is.  The
\* first part is for one account: the sweep ends a run without its bus.
OverMeansUnsubscribed ==
  \A r \in Runs :
    /\ status[r] \in Terminal => subscribers[r] = {}
    /\ \A s \in subscribers[r] : phase[s] \in {"open", "deaf"} /\ of[s] = r

\* A page that watches a run which completes learns of it, through lost
\* connections and restarts.
CompletionIsAnnounced ==
  \A p \in Pages, r \in Runs :
    (watched[p] = r /\ status[r] = "completed")
      ~> (connection[p] = "terminal" \/ watched[p] # r)
=============================================================================
