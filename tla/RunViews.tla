------------------------------- MODULE RunViews -------------------------------
(***************************************************************************)
(* The two views of a run beside each other: the page that follows it      *)
(* live, and the report that replaces it when the run has completed.       *)
(***************************************************************************)
EXTENDS SectionProgress, Report, Functions

\* Every row has one of the base ids and one of the statuses.
ASSUME ViewsAssumption ==
  \A n \in Sections : \A input \in Inputs[n] :
    input.base \in Range(Bases) /\ input.status \in DOMAIN StatusOrder

Over == last = "run-finished"

\* However often the connection was lost and whichever inserts failed, a page that has
\* been told of the end lists under each section every finding of the report, each once;
\* all that it may list beyond them are checks that were emitted and never stored.
PageMatchesReport ==
  connection = "terminal" =>
    \A n \in Sections :
      LET stored == Range(Checks(n)) \ lost
      IN  /\ IsInjective(Checks(n))
          /\ stored = Range(InSection(findings(rows), n))
          /\ Cardinality(stored) = IF n \in DOMAIN sections(rows) THEN sections(rows)[n] ELSE 0

Urgency(row) == <<severityRank(row), StatusOrder[row.status], Alphabetical(row.base), row.number>>

\* The remediation list has every failed and warned check once: the most severe first,
\* among equals Fail before Warning, and then by check id, for which the second sort
\* relies on the first.
RemediationIsSorted ==
  Over =>
    LET items == remediationItems(rows)
    IN  /\ Len(items) = summary(rows).fail + summary(rows).warning
        /\ Range(items) = {row \in Range(rows) : row.status \in {"Fail", "Warning"}}
        /\ \A i, j \in DOMAIN items : i < j => Before(Urgency(items[i]), Urgency(items[j]))
                                               \/ Urgency(items[i]) = Urgency(items[j])

\* A check of the run counts once in the score of a framework, whichever controls it maps
\* to, and a framework has a score exactly if one of its controls is covered.
FrameworksCountOnce ==
  Over =>
    \A fw \in frameworks :
      LET score  == computeFrameworkScore(fw, rows)
          mapped == {i \in DOMAIN rows :
                       \E e \in canonicalRegistryChecks :
                         e.framework = fw /\ e.base = rows[i].base /\ e.controls # {}}
      IN  /\ score.checks = Cardinality(mapped)
          /\ score.checks = 0 <=> score.controlsCovered = 0
          /\ score.controlsCovered <= score.controlsTotal
=============================================================================
