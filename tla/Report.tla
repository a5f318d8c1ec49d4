-------------------------------- MODULE Report --------------------------------
(***************************************************************************)
(* buildReportData: the report of a completed run as a function of its     *)
(* rows.  A row has a section, a base id and its number, and a status.     *)
(* Texts, the label of the covered domains and the rendering are left out. *)
(***************************************************************************)
EXTENDS Sequences, Orders

CONSTANTS
  Bases,     \* base ids, and their rank in the alphabet
  Severity,  \* risk-severity.json: the rank of a base id's severity
  Registry   \* registry.json: which controls of which frameworks a check maps to

Unranked == 99

\* An entry for each framework of a check; an alias is a duplicate of another check
\* that is left out.
ASSUME ReportAssumption ==
  /\ Bases \in Seq(STRING)
  /\ \A b \in DOMAIN Severity : Severity[b] \in 0..4
  /\ IsFiniteSet(Registry)
  /\ \A e \in Registry : e.alias \in BOOLEAN /\ IsFiniteSet(e.controls)

StatusOrder ==
  [Fail |-> 0, Warning |-> 1, Review |-> 2, Skipped |-> 3, Info |-> 4, Pass |-> 5]

severityRank(row) == IF row.base \in DOMAIN Severity THEN Severity[row.base] ELSE Unranked

Alphabetical(base) == CHOOSE i \in DOMAIN Bases : Bases[i] = base

-----------------------------------------------------------------------------
(* Sorting *)

\* Keys are compared from their first place on.
Before(k, l) == \E n \in DOMAIN k : k[n] < l[n] /\ \A m \in 1..(n - 1) : k[m] = l[m]

\* Array.sort is stable.
Sorted(list, key) ==
  LET isBefore(i, j) == Before(key[i], key[j]) \/ (key[i] = key[j] /\ i < j)
      places == DOMAIN list
      order  == Arranged(places, {pair \in places \X places : isBefore(pair[1], pair[2])})
  IN  [n \in places |-> list[order[n]]]

\* Seeded fault: rows of one status and severity stay in the order of the run.
findingSortKeyFault(row) == <<StatusOrder[row.status], severityRank(row)>>

\* With numbers below ten the ids of one check compare like their numbers.
findingSortKey(row) ==
  <<StatusOrder[row.status], severityRank(row), Alphabetical(row.base), row.number>>

findings(rows) == Sorted(rows, [i \in DOMAIN rows |-> findingSortKey(rows[i])])

remediationItems(rows) ==
  LET all  == findings(rows)
      open == Picked(all, {i \in DOMAIN all : all[i].status \in {"Fail", "Warning"}})
  IN  Sorted(open, [i \in DOMAIN open |-> <<severityRank(open[i]), StatusOrder[open[i].status]>>])

-----------------------------------------------------------------------------
(* Counts *)

Count(rows, statuses) == Cardinality({i \in DOMAIN rows : rows[i].status \in statuses})

\* Math.round(part / whole * 100)
Percent(part, whole) == IF whole = 0 THEN 0 ELSE (200 * part + whole) \div (2 * whole)

summary(rows) ==
  LET evaluated == Count(rows, {"Pass", "Fail", "Warning", "Review"})
  IN  [pass |-> Count(rows, {"Pass"}), fail |-> Count(rows, {"Fail"}),
       warning |-> Count(rows, {"Warning"}), review |-> Count(rows, {"Review"}),
       infoAndSkipped |-> Count(rows, {"Info", "Skipped"}),
       passRatePct |-> Percent(Count(rows, {"Pass"}), evaluated)]

\* The rows of each section that has any.
sections(rows) ==
  [s \in {rows[i].section : i \in DOMAIN rows} |->
     Cardinality({i \in DOMAIN rows : rows[i].section = s})]

-----------------------------------------------------------------------------
(* Frameworks *)

canonicalRegistryChecks == {e \in Registry : ~e.alias}

frameworks == {e.framework : e \in Registry}

\* The checks of each control of a framework.
controls(fw) ==
  LET entries == {e \in canonicalRegistryChecks : e.framework = fw}
  IN  [c \in UNION {e.controls : e \in entries} |->
         {e.base : e \in {f \in entries : c \in f.controls}}]

\* Seeded fault: a check is drilled down once for each control it maps to.
drillDownFault(fw, list) ==
  {d \in (DOMAIN controls(fw)) \X (DOMAIN list) : list[d[2]].base \in controls(fw)[d[1]]}

\* allCheckIdsInFramework is a set, though a check may map to several controls.
drillDown(fw, list) ==
  LET ids == UNION {controls(fw)[c] : c \in DOMAIN controls(fw)}
  IN  {d \in ids \X (DOMAIN list) : list[d[2]].base = d[1]}

\* Info counts half, and a check that was skipped counts as not passed.
computeFrameworkScore(fw, rows) ==
  LET list   == findings(rows)
      drill  == drillDown(fw, list)
      With(status) == Cardinality({d \in drill : list[d[2]].status = status})
      present == {list[i].base : i \in DOMAIN list}
  IN  [scorePct        |-> Percent(2 * With("Pass") + With("Info"), 2 * Cardinality(drill)),
       checks          |-> Cardinality(drill),
       controlsCovered |-> Cardinality({c \in DOMAIN controls(fw) : controls(fw)[c] \cap present # {}}),
       controlsTotal   |-> Cardinality(DOMAIN controls(fw))]
=============================================================================
