------------------------- MODULE SectionRunnerProofs -------------------------
(***************************************************************************)
(* Theorems about SectionRunner for any sections, any collectors, any      *)
(* threshold of the breaker and any number of rows.                        *)
(***************************************************************************)
EXTENDS SectionRunner, FiniteSetTheorems, SequenceTheorems, TLAPS

-----------------------------------------------------------------------------
(* Rows and verdicts.                                                      *)

Verdict == [status : {"Pass", "Fail", "Warning", "Review", "Info", "Skipped"},
            skipReason : {"none", "not_applicable", "not_licensed", "graph_error",
                          "circuit_broken"}]

\* Every status of a collector has a verdict, and no collector breaks a row.
LEMMA MapStatusType ==
  ASSUME NEW ps \in PsStatus
  PROVE  mapStatus(ps) \in Verdict /\ mapStatus(ps).skipReason # "circuit_broken"
BY DEF mapStatus, Mapped, Skipped, PsStatus, Verdict

LEMMA SkippedType == Skipped("circuit_broken") \in Verdict
BY DEF Skipped, Verdict

-----------------------------------------------------------------------------
(* The breaker: what the count of consecutive failures says of a list of   *)
(* rows, and what one more row changes.                                    *)

\* Threshold rows in a row are surfaced Graph errors.
HasStreak(list) ==
  \E first \in 1..(Len(list) - Threshold + 1) :
    \A j \in first..(first + Threshold - 1) : IsGraphError(list[j])

\* The count is the length of the run of Graph errors that ends the list, until it
\* reaches the threshold, and never before.
CountsErrors(list, n) ==
  /\ n < Threshold =>
       /\ n <= Len(list)
       /\ \A j \in (Len(list) - n + 1)..Len(list) : IsGraphError(list[j])
       /\ n < Len(list) => ~IsGraphError(list[Len(list) - n])
       /\ ~HasStreak(list)
  /\ n = Threshold => HasStreak(list)

LEMMA ThresholdType == Threshold \in Nat /\ Threshold >= 1
BY RunnerAssumption

\* One more row in a section.
LEMMA AppendRow ==
  ASSUME NEW list \in Seq(Row), NEW row \in Row
  PROVE  /\ Append(list, row) \in Seq(Row)
         /\ Len(list) \in Nat
         /\ Len(Append(list, row)) = Len(list) + 1
         /\ \A i \in 1..Len(list) : Append(list, row)[i] = list[i]
         /\ Append(list, row)[Len(list) + 1] = row
BY AppendProperties, LenProperties

\* A streak stays a streak.
LEMMA StreakStays ==
  ASSUME NEW list \in Seq(Row), NEW row \in Row, HasStreak(list)
  PROVE  HasStreak(Append(list, row))
<1>1. PICK first \in 1..(Len(list) - Threshold + 1) :
        \A j \in first..(first + Threshold - 1) : IsGraphError(list[j])
  BY DEF HasStreak
<1>2. first \in 1..(Len(Append(list, row)) - Threshold + 1)
  BY AppendRow, RunnerAssumption
<1>3. ASSUME NEW j \in first..(first + Threshold - 1)
      PROVE  IsGraphError(Append(list, row)[j])
  <2>1. j \in 1..Len(list)
    BY AppendRow, RunnerAssumption
  <2>2. QED
    BY <1>1, <2>1, AppendRow
<1>4. QED
  BY <1>2, <1>3 DEF HasStreak

\* A new streak ends with the new row.
LEMMA StreakEndsHere ==
  ASSUME NEW list \in Seq(Row), NEW row \in Row,
         ~HasStreak(list), HasStreak(Append(list, row))
  PROVE  /\ Len(list) + 2 - Threshold >= 1
         /\ \A j \in (Len(list) + 2 - Threshold)..Len(list) : IsGraphError(list[j])
         /\ IsGraphError(row)
<1> DEFINE new == Append(list, row)
<1>0. /\ Threshold \in Nat /\ Threshold >= 1
      /\ Len(list) \in Nat /\ Len(new) = Len(list) + 1
      /\ \A i \in 1..Len(list) : new[i] = list[i]
      /\ new[Len(list) + 1] = row
  BY AppendRow, ThresholdType
<1>1. PICK first \in 1..(Len(new) - Threshold + 1) :
        \A j \in first..(first + Threshold - 1) : IsGraphError(new[j])
  BY DEF HasStreak
<1>2. first = Len(list) + 2 - Threshold
  <2> SUFFICES ASSUME first # Len(list) + 2 - Threshold PROVE FALSE
    OBVIOUS
  <2>1. first \in 1..(Len(list) - Threshold + 1)
    BY <1>0
  <2>2. \A j \in first..(first + Threshold - 1) : j \in 1..Len(list)
    BY <2>1, <1>0
  <2>3. \A j \in first..(first + Threshold - 1) : IsGraphError(list[j])
    BY <1>1, <2>2, <1>0
  <2>4. QED
    BY <2>1, <2>3 DEF HasStreak
<1>3. \A j \in (Len(list) + 2 - Threshold)..(Len(list) + 1) : IsGraphError(new[j])
  BY <1>1, <1>2, <1>0
<1>4. IsGraphError(new[Len(list) + 1])
  BY <1>3, <1>0
<1>5. \A j \in (Len(list) + 2 - Threshold)..Len(list) : IsGraphError(list[j])
  BY <1>1, <1>2, <1>3, <1>0
<1>6. QED
  BY <1>1, <1>2, <1>4, <1>5, <1>0

\* breaker.recordGraphError
LEMMA CountError ==
  ASSUME NEW list \in Seq(Row), NEW row \in Row, NEW n \in 0..Threshold,
         n < Threshold, CountsErrors(list, n), IsGraphError(row)
  PROVE  CountsErrors(Append(list, row), n + 1)
<1> DEFINE new == Append(list, row)
<1>0. /\ Threshold \in Nat /\ Threshold >= 1
      /\ Len(list) \in Nat /\ Len(new) = Len(list) + 1
      /\ \A i \in 1..Len(list) : new[i] = list[i]
      /\ new[Len(list) + 1] = row
  BY AppendRow, ThresholdType
<1>1. /\ n <= Len(list) /\ ~HasStreak(list)
      /\ \A j \in (Len(list) - n + 1)..Len(list) : IsGraphError(list[j])
      /\ n < Len(list) => ~IsGraphError(list[Len(list) - n])
  BY DEF CountsErrors
<1>2. \A j \in (Len(list) - n + 1)..(Len(list) + 1) : IsGraphError(new[j])
  BY <1>1, <1>0
<1>3. n + 1 = Threshold => HasStreak(new)
  <2> SUFFICES ASSUME n + 1 = Threshold PROVE HasStreak(new)
    OBVIOUS
  <2> DEFINE first == Len(list) - n + 1
  <2>1. first \in 1..(Len(new) - Threshold + 1) /\ first + Threshold - 1 = Len(list) + 1
    BY <1>1, <1>0
  <2>2. QED
    BY <1>2, <2>1 DEF HasStreak
<1>4. ASSUME n + 1 < Threshold PROVE ~HasStreak(new)
  <2> SUFFICES ASSUME HasStreak(new) PROVE FALSE
    OBVIOUS
  <2>1. Len(list) + 2 - Threshold >= 1
    BY <1>1, StreakEndsHere
  <2>2. \A j \in (Len(list) + 2 - Threshold)..Len(list) : IsGraphError(list[j])
    BY <1>1, StreakEndsHere
  <2>3. n < Len(list) /\ Len(list) - n \in (Len(list) + 2 - Threshold)..Len(list)
    BY <1>4, <2>1, <1>0
  <2>4. QED
    BY <1>1, <2>2, <2>3
<1>5. n + 1 < Len(new) => ~IsGraphError(new[Len(new) - (n + 1)])
  BY <1>1, <1>0
<1>6. /\ n + 1 <= Len(new)
      /\ \A j \in (Len(new) - (n + 1) + 1)..Len(new) : IsGraphError(new[j])
  BY <1>1, <1>2, <1>0
<1>7. QED
  BY <1>3, <1>4, <1>5, <1>6 DEF CountsErrors

\* breaker.recordSuccess
LEMMA CountSuccess ==
  ASSUME NEW list \in Seq(Row), NEW row \in Row, NEW n \in 0..Threshold,
         n < Threshold, CountsErrors(list, n), ~IsGraphError(row)
  PROVE  CountsErrors(Append(list, row), 0)
<1> DEFINE new == Append(list, row)
<1>0. /\ Threshold \in Nat /\ Threshold >= 1
      /\ Len(list) \in Nat /\ Len(new) = Len(list) + 1
      /\ \A i \in 1..Len(list) : new[i] = list[i]
      /\ new[Len(list) + 1] = row
  BY AppendRow, ThresholdType
<1>1. ~HasStreak(list)
  BY DEF CountsErrors
<1>2. ~HasStreak(new)
  BY <1>1, StreakEndsHere
<1>3. \A j \in (Len(new) - 0 + 1)..Len(new) : IsGraphError(new[j])
  BY <1>0
<1>4. 0 < Len(new) => ~IsGraphError(new[Len(new) - 0])
  BY <1>0
<1>5. QED
  BY <1>2, <1>3, <1>4, <1>0 DEF CountsErrors

\* A row that is broken exactly when there was a streak before it keeps the list right.
LEMMA BreaksAppend ==
  ASSUME NEW list \in Seq(Row), NEW row \in Row,
         BreaksRightly(list), IsBroken(row) <=> HasStreak(list)
  PROVE  BreaksRightly(Append(list, row))
<1> DEFINE new == Append(list, row)
           Before(l, i) == \E first \in 1..(i - Threshold) :
                             \A j \in first..(first + Threshold - 1) : IsGraphError(l[j])
<1>0. /\ Threshold \in Nat /\ Threshold >= 1
      /\ Len(list) \in Nat /\ Len(new) = Len(list) + 1
      /\ \A i \in 1..Len(list) : new[i] = list[i]
      /\ new[Len(list) + 1] = row
  BY AppendRow, ThresholdType
<1>1. ASSUME NEW i \in 1..(Len(list) + 1)
      PROVE  Before(new, i) <=> Before(list, i)
  <2>1. \A first \in 1..(i - Threshold) : \A j \in first..(first + Threshold - 1) :
          new[j] = list[j]
    BY <1>0
  <2>2. QED
    BY <2>1
<1>2. \A i \in 1..Len(list) : IsBroken(list[i]) <=> Before(list, i)
  BY DEF BreaksRightly
<1>3. HasStreak(list) <=> Before(list, Len(list) + 1)
  BY <1>0 DEF HasStreak
<1> HIDE DEF Before
<1>4. \A i \in 1..Len(new) : IsBroken(new[i]) <=> Before(new, i)
  <2>1. ASSUME NEW i \in 1..Len(new) PROVE IsBroken(new[i]) <=> Before(new, i)
    <3>1. CASE i \in 1..Len(list)
      BY <1>0, <1>1, <1>2, <3>1
    <3>2. CASE i = Len(list) + 1
      BY <1>0, <1>1, <1>3, <3>2
    <3>3. QED
      BY <1>0, <3>1, <3>2
  <2>2. QED
    BY <2>1
<1>5. QED
  BY <1>4 DEF BreaksRightly, Before

-----------------------------------------------------------------------------
(* The check ids: the counters say how many rows of each base id there     *)
(* are, and a row is given the next number of its base id.                 *)

Upto(list, i, base) == {j \in 1..i : list[j].base = base}
Given(list, base)   == Upto(list, Len(list), base)

CountsRows(list, count) ==
  \A b \in BaseIds \ {""} : count[b] = Cardinality(Given(list, b))

LEMMA GivenIsFinite ==
  ASSUME NEW list \in Seq(Row), NEW base
  PROVE  IsFiniteSet(Given(list, base)) /\ Cardinality(Given(list, base)) \in Nat
<1>1. IsFiniteSet(1..Len(list))
  BY LenProperties, FS_Interval
<1>2. Given(list, base) \in SUBSET (1..Len(list))
  BY DEF Given, Upto
<1>3. QED
  BY <1>1, <1>2, FS_Subset, FS_CardinalityType

\* One more row of a base id adds one to its number of rows, and to no other.
LEMMA GivenAppend ==
  ASSUME NEW list \in Seq(Row), NEW row \in Row, NEW base
  PROVE  /\ row.base = base => Cardinality(Given(Append(list, row), base)) =
                                 Cardinality(Given(list, base)) + 1
         /\ row.base # base => Cardinality(Given(Append(list, row), base)) =
                                 Cardinality(Given(list, base))
<1> DEFINE new == Append(list, row)
<1>0. /\ Len(list) \in Nat /\ Len(new) = Len(list) + 1
      /\ \A i \in 1..Len(list) : new[i] = list[i]
      /\ new[Len(list) + 1] = row
  BY AppendRow
<1> HIDE DEF new
<1>1. Len(list) + 1 \notin Given(list, base)
  BY <1>0 DEF Given, Upto
<1>2. IsFiniteSet(Given(list, base)) /\ Cardinality(Given(list, base)) \in Nat
  BY GivenIsFinite
<1>3. CASE row.base = base
  <2>1. Given(new, base) = Given(list, base) \cup {Len(list) + 1}
    BY <1>0, <1>3 DEF Given, Upto
  <2>2. QED
    BY <1>1, <1>2, <1>3, <2>1, FS_AddElement DEF new
<1>4. CASE row.base # base
  <2>1. Given(new, base) = Given(list, base)
    BY <1>0, <1>4 DEF Given, Upto
  <2>2. QED
    BY <1>2, <1>4, <2>1 DEF new
<1>5. QED
  BY <1>3, <1>4

\* The rows that were there stay where they are.
LEMMA BeforeAppend ==
  ASSUME NEW list \in Seq(Row), NEW row \in Row, NEW base
  PROVE  \A i \in 1..Len(list) : Upto(Append(list, row), i, base) = Upto(list, i, base)
<1> DEFINE new == Append(list, row)
<1>0. Len(list) \in Nat /\ \A i \in 1..Len(list) : new[i] = list[i]
  BY AppendRow
<1> HIDE DEF new
<1>1. \A i \in 1..Len(list) : \A j \in 1..i : new[j] = list[j]
  BY <1>0
<1>2. \A i \in 1..Len(list) : Upto(new, i, base) = Upto(list, i, base)
  BY <1>1 DEF Upto
<1>3. QED
  BY <1>2 DEF new

LEMMA LastOrBefore ==
  ASSUME NEW list \in Seq(Row), NEW row \in Row
  PROVE  \A i \in 1..Len(Append(list, row)) : i \in 1..Len(list) \/ i = Len(list) + 1
BY AppendRow

\* SubNumberer.assign: a row with the next number of its base id keeps the list
\* numbered and the counters right.
LEMMA NumberedAppend ==
  ASSUME NEW list \in Seq(Row), NEW row \in Row, NEW count \in [BaseIds -> Nat],
         NumberedInOrder(list), CountsRows(list, count),
         row.number = IF row.base = "" THEN 0 ELSE count[row.base] + 1
  PROVE  /\ NumberedInOrder(Append(list, row))
         /\ CountsRows(Append(list, row),
                       IF row.base = "" THEN count ELSE [count EXCEPT ![row.base] = @ + 1])
<1> DEFINE new  == Append(list, row)
           next == IF row.base = "" THEN count ELSE [count EXCEPT ![row.base] = @ + 1]
<1>0. /\ Len(list) \in Nat /\ Len(new) = Len(list) + 1
      /\ \A i \in 1..Len(list) : new[i] = list[i]
      /\ new[Len(list) + 1] = row
  BY AppendRow
<1>1. row.base \in BaseIds
  BY DEF Row
<1>2. CountsRows(new, next)
  <2> SUFFICES ASSUME NEW b \in BaseIds \ {""}
               PROVE  next[b] = Cardinality(Given(new, b))
    BY DEF CountsRows
  <2>1. /\ row.base = b => Cardinality(Given(new, b)) = Cardinality(Given(list, b)) + 1
        /\ row.base # b => Cardinality(Given(new, b)) = Cardinality(Given(list, b))
    BY GivenAppend
  <2>2. count[b] = Cardinality(Given(list, b)) /\ count[b] \in Nat
    BY DEF CountsRows
  <2>3. CASE row.base = b
    <3>1. next[b] = count[b] + 1
      BY <1>1, <2>3
    <3>2. QED
      BY <2>1, <2>2, <2>3, <3>1
  <2>4. CASE row.base # b
    <3>1. next[b] = count[b]
      BY <1>1, <2>4
    <3>2. QED
      BY <2>1, <2>2, <2>4, <3>1
  <2>5. QED
    BY <2>3, <2>4
<1>3. row.base # "" => row.number = Cardinality(Given(new, row.base))
  <2>1. row.base # "" => count[row.base] = Cardinality(Given(list, row.base))
    BY <1>1 DEF CountsRows
  <2>2. Cardinality(Given(new, row.base)) = Cardinality(Given(list, row.base)) + 1
    BY GivenAppend
  <2>3. QED
    BY <2>1, <2>2
<1> DEFINE Right(l, i) ==
             l[i].number =
               IF l[i].base = "" THEN 0
               ELSE Cardinality(Upto(l, i, l[i].base))
<1> HIDE DEF new
<1>4. ASSUME NEW i \in 1..Len(list) PROVE Right(new, i)
  <2>2. Upto(new, i, list[i].base) = Upto(list, i, list[i].base)
    BY BeforeAppend DEF new
  <2>3. Right(list, i)
    BY DEF NumberedInOrder, Upto
  <2>4. QED
    BY <1>0, <2>2, <2>3
<1>5. Right(new, Len(list) + 1)
  <2>1. Upto(new, Len(list) + 1, row.base) = Given(new, row.base)
    BY <1>0 DEF Given
  <2>2. QED
    BY <1>0, <1>3, <2>1
<1> HIDE DEF Right
<1>6. \A i \in 1..Len(new) : i \in 1..Len(list) \/ i = Len(list) + 1
  BY LastOrBefore DEF new
<1>7. \A i \in 1..Len(new) : Right(new, i)
  BY <1>4, <1>5, <1>6
<1>8. QED
  BY <1>2, <1>7 DEF NumberedInOrder, Right, new, Upto

-----------------------------------------------------------------------------
(* Types.                                                                  *)

Result == [rows : Seq(Row), error : Errors]

NewRow(base, verdict) ==
  [base |-> base, number |-> subNumber(base),
   status |-> verdict.status, skipReason |-> verdict.skipReason]

LEMMA NewRowType ==
  ASSUME TypeOK, NEW base \in BaseIds, NEW verdict \in Verdict
  PROVE  NewRow(base, verdict) \in Row
<1>1. subNumber(base) \in Nat
  <2>1. counters[base] \in Nat
    BY DEF TypeOK
  <2>2. counters[base] + 1 \in Nat
    BY <2>1
  <2>3. QED
    BY <2>2 DEF subNumber
<1>2. verdict.status \in {"Pass", "Fail", "Warning", "Review", "Info", "Skipped"}
  BY DEF Verdict
<1>3. verdict.skipReason \in {"none", "not_applicable", "not_licensed", "graph_error",
                              "circuit_broken"}
  BY DEF Verdict
<1>4. QED
  BY <1>1, <1>2, <1>3 DEF NewRow, Row

\* The section that is under way is one of the run's.
LEMMA AtType ==
  ASSUME TypeOK, pc \in {"collect", "close"}
  PROVE  at \in Sections /\ at \in Nat
<1>1. Len(results) \in Nat /\ Len(sectionIds) \in Nat
  BY LenProperties, RunnerAssumption DEF TypeOK
<1>2. QED
  BY <1>1 DEF TypeOK, Sections

\* One row added: what it does to the lists and the counters.
LEMMA EmitType ==
  ASSUME TypeOK, pc = "collect", NEW base \in BaseIds, NEW verdict \in Verdict,
         Emit(base, verdict)
  PROVE  /\ rows' = Append(rows, NewRow(base, verdict))
         /\ rows' \in Seq(Row)
         /\ streamed' = [streamed EXCEPT ![at] = Append(streamed[at], NewRow(base, verdict))]
         /\ streamed' \in [Sections -> Seq(Row)]
         /\ counters' = IF base = "" THEN counters
                        ELSE [counters EXCEPT ![base] = @ + 1]
         /\ counters' \in [BaseIds -> Nat]
         /\ last' = "check-completed"
<1>1. /\ rows' = Append(rows, NewRow(base, verdict))
      /\ streamed' = [streamed EXCEPT ![at] = Append(streamed[at], NewRow(base, verdict))]
      /\ counters' = IF base = "" THEN counters ELSE [counters EXCEPT ![base] = @ + 1]
      /\ last' = "check-completed"
  BY DEF Emit, NewRow, Count
<1>2. counters' \in [BaseIds -> Nat]
  <2>1. counters \in [BaseIds -> Nat] /\ counters[base] + 1 \in Nat
    BY DEF TypeOK
  <2>2. [counters EXCEPT ![base] = @ + 1] \in [BaseIds -> Nat]
    BY <2>1
  <2>3. QED
    BY <1>1, <2>1, <2>2
<1>3. at \in Sections /\ streamed[at] \in Seq(Row) /\ rows \in Seq(Row)
  BY AtType DEF TypeOK
<1>4. Append(streamed[at], NewRow(base, verdict)) \in Seq(Row) /\ rows' \in Seq(Row)
  BY <1>1, <1>3, NewRowType, AppendRow
<1>5. streamed' \in [Sections -> Seq(Row)]
  BY <1>1, <1>3, <1>4 DEF TypeOK
<1>6. QED
  BY <1>1, <1>2, <1>4, <1>5

\* A collector's input is a base id and a status.
LEMMA InputType ==
  ASSUME TypeOK, pc = "collect", NEW input \in Inputs[at]
  PROVE  input.base \in BaseIds /\ input.ps \in PsStatus
BY AtType, RunnerAssumption

LEMMA AddBrokenRowType ==
  ASSUME TypeOK, NEW base \in BaseIds, AddBrokenRow(base)
  PROVE  TypeOK'
<1>1. /\ rows' \in Seq(Row) /\ streamed' \in [Sections -> Seq(Row)]
      /\ counters' \in [BaseIds -> Nat]
  BY EmitType, SkippedType DEF AddBrokenRow
<1>2. QED
  BY <1>1 DEF TypeOK, AddBrokenRow

LEMMA AddRowType ==
  ASSUME TypeOK, NEW base \in BaseIds, NEW ps \in PsStatus, AddRow(base, ps)
  PROVE  TypeOK'
<1>1. mapStatus(ps) \in Verdict
  BY MapStatusType
<1>2. /\ rows' \in Seq(Row) /\ streamed' \in [Sections -> Seq(Row)]
      /\ counters' \in [BaseIds -> Nat]
  BY <1>1, EmitType DEF AddRow
<1>3. consecutiveFailures' \in 0..Threshold
  BY ThresholdType DEF TypeOK, AddRow, shouldTrip
<1>4. QED
  BY <1>2, <1>3 DEF TypeOK, AddRow

\* The licensing overlay changes neither the number of rows nor their type.
LEMMA OverlayType ==
  ASSUME NEW list \in Seq(Row)
  PROVE  /\ applyLicensingOverlay(list) \in Seq(Row)
         /\ Len(applyLicensingOverlay(list)) = Len(list)
         /\ \A i \in 1..Len(list) :
              \/ applyLicensingOverlay(list)[i] = list[i]
              \/ /\ skus = "inactive" /\ list[i].base \in Overlaid
                 /\ applyLicensingOverlay(list)[i].skipReason = "not_licensed"
<1> DEFINE gated(i) == [list[i] EXCEPT !.status = "Skipped", !.skipReason = "not_licensed"]
           new(i) == IF list[i].base \in Overlaid /\ skus = "inactive" THEN gated(i) ELSE list[i]
<1>1. Len(list) \in Nat /\ \A i \in 1..Len(list) : list[i] \in Row
  BY LenProperties, ElementOfSeq
<1>2. \A i \in 1..Len(list) : gated(i) \in Row /\ gated(i).skipReason = "not_licensed"
  BY <1>1 DEF Row
<1>3. applyLicensingOverlay(list) = [i \in 1..Len(list) |-> new(i)]
  BY DEF applyLicensingOverlay
<1>4. \A i \in 1..Len(list) : new(i) \in Row
  BY <1>1, <1>2
<1>5. \A i \in 1..Len(list) :
        \/ new(i) = list[i]
        \/ skus = "inactive" /\ list[i].base \in Overlaid /\ new(i).skipReason = "not_licensed"
  BY <1>2
<1> HIDE DEF new
<1>6. applyLicensingOverlay(list) \in Seq(Row) /\ Len(applyLicensingOverlay(list)) = Len(list)
  BY <1>1, <1>3, <1>4
<1>7. QED
  BY <1>3, <1>5, <1>6

LEMMA FinishType ==
  ASSUME TypeOK, Finish
  PROVE  TypeOK'
<1>1. [rows |-> rows, error |-> sectionError] \in Result
  BY DEF TypeOK, Result
<1>2. results \in Seq(Result) /\ at \in Nat
  BY AtType DEF TypeOK, Result, Finish
<1>3. results' \in Seq(Result) /\ Len(results') = Len(results) + 1
  BY <1>1, <1>2, AppendProperties DEF Finish
<1>4. Len(results') = at
  BY <1>2, <1>3 DEF TypeOK, Finish
<1>5. QED
  BY <1>3, <1>4 DEF TypeOK, Finish, current, Result

\* The overlay is applied to every section's rows.
LEMMA FinishRunType ==
  ASSUME TypeOK, FinishRun
  PROVE  /\ TypeOK'
         /\ Len(results') = Len(results)
         /\ \A i \in 1..Len(results) :
              /\ results[i].rows \in Seq(Row)
              /\ \/ results'[i].rows = results[i].rows
                 \/ results'[i].rows = applyLicensingOverlay(results[i].rows)
<1> DEFINE new(i) == [results[i] EXCEPT !.rows = applyLicensingOverlay(@)]
<1>1. /\ results \in Seq(Result) /\ Len(results) \in Nat
      /\ \A i \in 1..Len(results) : results[i] \in Result
  BY LenProperties, ElementOfSeq DEF TypeOK, Result
<1>2. \A i \in 1..Len(results) :
        /\ results[i].rows \in Seq(Row)
        /\ new(i).rows = applyLicensingOverlay(results[i].rows)
        /\ new(i) = [rows |-> applyLicensingOverlay(results[i].rows), error |-> results[i].error]
  BY <1>1 DEF Result
<1>3. \A i \in 1..Len(results) : applyLicensingOverlay(results[i].rows) \in Seq(Row)
  BY <1>2, OverlayType
<1>4. \A i \in 1..Len(results) : new(i) \in Result
  BY <1>1, <1>2, <1>3 DEF Result
<1>5. results' = results \/ results' = [i \in 1..Len(results) |-> new(i)]
  BY DEF FinishRun
<1> HIDE DEF new
<1>6. results' \in Seq(Result) /\ Len(results') = Len(results)
  BY <1>1, <1>4, <1>5
<1>7. \A i \in 1..Len(results) : results'[i] = results[i] \/ results'[i] = new(i)
  BY <1>5
<1>8. TypeOK'
  BY <1>6 DEF TypeOK, FinishRun, current, Result
<1>9. QED
  BY <1>2, <1>6, <1>7, <1>8

LEMMA TypeInit == Init => TypeOK
BY RunnerAssumption, LenProperties, ThresholdType, EmptySeq DEF Init, TypeOK, Errors

LEMMA TypeStep == TypeOK /\ [Next]_vars => TypeOK'
<1> SUFFICES ASSUME TypeOK, [Next]_vars PROVE TypeOK'
  OBVIOUS
<1>1. CASE Start
  BY <1>1 DEF Start, TypeOK, current
<1>2. CASE Enter
  <2>1. at' \in 0..Len(sectionIds) /\ at \in Nat
    BY <1>2, LenProperties, RunnerAssumption DEF Enter, TypeOK
  <2>2. Len(results) = at' - 1
    BY <1>2, <2>1 DEF Enter, TypeOK
  <2>3. <<>> \in Seq(Row) /\ 0 \in 0..Threshold
    BY ThresholdType
  <2>4. QED
    BY <1>2, <2>1, <2>2, <2>3 DEF Enter, TypeOK, Errors
<1>3. CASE Collect
  <2>1. pc = "collect"
    BY <1>3 DEF Collect
  <2>2. ASSUME NEW input \in Inputs[at], AddBrokenRow(input.base) PROVE TypeOK'
    BY <2>1, <2>2, InputType, AddBrokenRowType
  <2>3. ASSUME NEW input \in Inputs[at], AddRow(input.base, input.ps) PROVE TypeOK'
    BY <2>1, <2>3, InputType, AddRowType
  <2>4. CASE GraphCall \/ StoreSkus
    BY <2>4 DEF GraphCall, StoreSkus, TypeOK, current
  <2>5. QED
    BY <1>3, <2>2, <2>3, <2>4 DEF Collect
<1>4. CASE NotImplemented \/ Throw \/ Return
  BY <1>4 DEF NotImplemented, Throw, Return, SectionFails, TypeOK, Errors, current
<1>5. CASE Finish
  BY <1>5, FinishType
<1>6. CASE FinishRun
  BY <1>6, FinishRunType
<1>7. CASE UNCHANGED vars
  BY <1>7 DEF vars, current, TypeOK
<1>8. QED
  BY <1>1, <1>2, <1>3, <1>4, <1>5, <1>6, <1>7 DEF Next

\* The state of the loop over the sections keeps its type: the loop is never past
\* the last section, and every section that has ended has one result.
THEOREM TypeCorrect == Spec => []TypeOK
BY TypeInit, TypeStep, PTL DEF Spec

-----------------------------------------------------------------------------
(* The inductive invariant.  The properties speak of what was streamed;    *)
(* what keeps them is that the current section's rows are what it has      *)
(* streamed, that sections not yet entered have streamed nothing, and that *)
(* the breaker's count and the counters describe those rows.               *)

StreamsOK ==
  /\ \A i \in Sections : i > at => streamed[i] = <<>>
  /\ pc \in {"collect", "close"} => rows = streamed[at]
  /\ pc = "start" => at = 0
  /\ pc = "done" => at = Len(sectionIds)

BreakerOK == pc = "collect" => CountsErrors(rows, consecutiveFailures)
CountersOK == pc = "collect" => CountsRows(rows, counters)

\* Where the loop is says what the latest event was.
EventsOK ==
  /\ pc = "start" => last = "none"
  /\ pc = "loop" => last \in {"run-started", "section-finished"}
  /\ pc = "collect" => last \in Events!Collecting
  /\ pc = "close" => last \in Events!Collecting \cup {"section-error"}

IInv ==
  /\ TypeOK
  /\ StreamsOK
  /\ BreakerOK /\ BreakerIsExact
  /\ CountersOK /\ CheckIdsAreUnique
  /\ StreamIsResult
  /\ EventsOK

LEMMA InductiveInit == Init => IInv
<1> SUFFICES ASSUME Init PROVE IInv
  OBVIOUS
<1>1. TypeOK
  BY TypeInit
<1>2. BreakerIsExact /\ CheckIdsAreUnique
  BY DEF Init, BreakerIsExact, BreaksRightly, CheckIdsAreUnique, NumberedInOrder
<1>3. StreamsOK /\ BreakerOK /\ CountersOK /\ EventsOK
  BY DEF Init, StreamsOK, BreakerOK, CountersOK, EventsOK
<1>4. StreamIsResult
  BY DEF Init, StreamIsResult
<1>5. QED
  BY <1>1, <1>2, <1>3, <1>4 DEF IInv

\* One row added to the current section: what its consumers saw and what the result
\* will say stay the same, the new row has the next number, and it is broken rightly
\* if it is broken exactly after a streak.
LEMMA EmitStep ==
  ASSUME IInv, TypeOK', pc = "collect", NEW base \in BaseIds, NEW verdict \in Verdict,
         Emit(base, verdict), UNCHANGED <<pc, at, results, skus>>,
         verdict.skipReason = "circuit_broken" <=> HasStreak(rows)
  PROVE  /\ StreamsOK' /\ StreamIsResult' /\ EventsOK'
         /\ CountersOK' /\ CheckIdsAreUnique' /\ BreakerIsExact'
<1> DEFINE row == NewRow(base, verdict)
<1>1. /\ at \in Sections /\ at \in Nat /\ rows = streamed[at]
      /\ rows \in Seq(Row) /\ row \in Row /\ counters \in [BaseIds -> Nat]
  BY AtType, NewRowType DEF IInv, StreamsOK, TypeOK
<1>2. /\ rows' = Append(rows, row)
      /\ streamed' = [streamed EXCEPT ![at] = Append(streamed[at], row)]
      /\ counters' = IF base = "" THEN counters ELSE [counters EXCEPT ![base] = @ + 1]
      /\ last' = "check-completed"
  BY EmitType DEF IInv
<1>3. /\ row.base = base /\ row.number = IF base = "" THEN 0 ELSE counters[base] + 1
      /\ row.skipReason = verdict.skipReason
  BY DEF NewRow, subNumber
<1> HIDE DEF row
<1>4. /\ streamed'[at] = rows'
      /\ \A i \in Sections \ {at} : streamed'[i] = streamed[i]
  BY <1>1, <1>2 DEF IInv, TypeOK
<1>5. StreamsOK'
  <2>1. \A i \in Sections : i > at => i # at
    BY <1>1 DEF Sections
  <2>2. QED
    BY <1>4, <2>1 DEF IInv, StreamsOK
<1>6. StreamIsResult'
  <2>1. Len(results) = at - 1 /\ \A i \in 1..Len(results) : i \in Sections \ {at}
    BY <1>1 DEF IInv, TypeOK, Sections
  <2>2. \A i \in 1..Len(results) : results[i].rows = streamed[i]
    BY DEF IInv, StreamIsResult
  <2>3. \A i \in 1..Len(results) : results[i].rows = streamed'[i]
    BY <1>4, <2>1, <2>2
  <2>4. QED
    BY <2>3 DEF StreamIsResult
<1>7. EventsOK'
  BY <1>2 DEF EventsOK, Events!Collecting
<1>8. NumberedInOrder(rows') /\ CountsRows(rows', counters')
  <2>1. NumberedInOrder(rows) /\ CountsRows(rows, counters)
    BY <1>1 DEF IInv, CheckIdsAreUnique, CountersOK
  <2>2. QED
    BY <1>1, <1>2, <1>3, <2>1, NumberedAppend
<1>9. CountersOK' /\ CheckIdsAreUnique'
  BY <1>4, <1>8 DEF CountersOK, CheckIdsAreUnique, IInv
<1>10. BreaksRightly(rows')
  <2>1. BreaksRightly(rows)
    BY <1>1 DEF IInv, BreakerIsExact
  <2>2. IsBroken(row) <=> HasStreak(rows)
    BY <1>3 DEF IsBroken
  <2>3. QED
    BY <1>1, <1>2, <2>1, <2>2, BreaksAppend
<1>11. BreakerIsExact'
  BY <1>4, <1>10 DEF BreakerIsExact, IInv
<1>12. QED
  BY <1>5, <1>6, <1>7, <1>9, <1>11

LEMMA AddBrokenRowStep ==
  ASSUME IInv, NEW base \in BaseIds, AddBrokenRow(base)
  PROVE  IInv'
<1> DEFINE verdict == Skipped("circuit_broken")
           row == NewRow(base, verdict)
<1>1. /\ pc = "collect" /\ Emit(base, verdict)
      /\ UNCHANGED <<pc, at, results, skus, consecutiveFailures>>
      /\ consecutiveFailures = Threshold
      /\ rows \in Seq(Row)
  BY ThresholdType DEF AddBrokenRow, IInv, TypeOK, shouldTrip
<1>2. TypeOK'
  BY AddBrokenRowType DEF IInv
<1>3. verdict \in Verdict /\ verdict.skipReason = "circuit_broken"
  BY SkippedType DEF Skipped
<1>4. HasStreak(rows)
  BY <1>1 DEF IInv, BreakerOK, CountsErrors
<1> HIDE DEF verdict
<1>5. rows' = Append(rows, row) /\ row \in Row
  BY <1>1, <1>3, EmitType, NewRowType DEF IInv
<1>6. BreakerOK'
  BY <1>1, <1>4, <1>5, StreakStays, ThresholdType DEF BreakerOK, CountsErrors
<1>7. QED
  BY <1>1, <1>2, <1>3, <1>4, <1>6, EmitStep DEF IInv

LEMMA AddRowStep ==
  ASSUME IInv, NEW base \in BaseIds, NEW ps \in PsStatus, AddRow(base, ps)
  PROVE  IInv'
<1> DEFINE verdict == mapStatus(ps)
           row == NewRow(base, verdict)
<1>1. /\ pc = "collect" /\ Emit(base, verdict)
      /\ UNCHANGED <<pc, at, results, skus>>
      /\ consecutiveFailures \in 0..Threshold /\ consecutiveFailures < Threshold
      /\ rows \in Seq(Row)
      /\ consecutiveFailures' = IF verdict = Skipped("graph_error")
                                THEN consecutiveFailures + 1 ELSE 0
  BY ThresholdType DEF AddRow, IInv, TypeOK, shouldTrip
<1>2. TypeOK'
  BY AddRowType DEF IInv
<1>3. /\ verdict \in Verdict /\ verdict.skipReason # "circuit_broken"
      /\ verdict = [status |-> verdict.status, skipReason |-> verdict.skipReason]
  BY MapStatusType DEF Verdict
<1>4. ~HasStreak(rows) /\ CountsErrors(rows, consecutiveFailures)
  BY <1>1 DEF IInv, BreakerOK, CountsErrors
<1> HIDE DEF verdict
<1>5. rows' = Append(rows, row) /\ row \in Row
  BY <1>1, <1>3, EmitType, NewRowType DEF IInv
<1>6. IsGraphError(row) <=> verdict = Skipped("graph_error")
  BY <1>3 DEF IsGraphError, NewRow, Skipped
<1>7. BreakerOK'
  <2>1. CASE IsGraphError(row)
    BY <1>1, <1>4, <1>5, <1>6, <2>1, CountError DEF BreakerOK
  <2>2. CASE ~IsGraphError(row)
    BY <1>1, <1>4, <1>5, <1>6, <2>2, CountSuccess DEF BreakerOK
  <2>3. QED
    BY <2>1, <2>2
<1>8. QED
  BY <1>1, <1>2, <1>3, <1>4, <1>7, EmitStep DEF IInv

\* A section is entered with no rows, a count of zero and fresh counters.
LEMMA EnterStep ==
  ASSUME IInv, TypeOK', Enter
  PROVE  IInv'
<1>1. at \in Nat /\ at' = at + 1 /\ at' \in Sections /\ UNCHANGED streamed
  BY LenProperties, RunnerAssumption DEF Enter, IInv, TypeOK, Sections
<1>2. streamed[at'] = <<>> /\ rows' = <<>>
  BY <1>1 DEF IInv, StreamsOK, Enter
<1>3. StreamsOK'
  BY <1>1, <1>2 DEF IInv, StreamsOK, Enter, Sections
<1>4. CountsErrors(<<>>, 0)
  <2>1. Len(<<>>) = 0
    OBVIOUS
  <2>2. ~HasStreak(<<>>)
    BY <2>1, ThresholdType DEF HasStreak
  <2>3. QED
    BY <2>1, <2>2, ThresholdType DEF CountsErrors
<1>5. BreakerOK'
  BY <1>2, <1>4 DEF BreakerOK, Enter
<1>6. CountersOK'
  <2>1. \A b : Given(<<>>, b) = {}
    BY DEF Given, Upto
  <2>2. QED
    BY <1>2, <2>1, FS_EmptySet DEF CountersOK, CountsRows, Enter
<1>7. StreamIsResult' /\ BreakerIsExact' /\ CheckIdsAreUnique'
  BY <1>1 DEF IInv, StreamIsResult, BreakerIsExact, CheckIdsAreUnique, Enter
<1>8. EventsOK'
  BY DEF EventsOK, Enter, Events!Collecting
<1>9. QED
  BY <1>3, <1>5, <1>6, <1>7, <1>8 DEF IInv

LEMMA FinishStep ==
  ASSUME IInv, TypeOK', Finish
  PROVE  IInv'
<1>1. /\ at \in Sections /\ at \in Nat /\ rows = streamed[at] /\ pc = "close"
      /\ results' = Append(results, [rows |-> rows, error |-> sectionError])
      /\ results \in Seq(Result) /\ Len(results) = at - 1
      /\ [rows |-> rows, error |-> sectionError] \in Result
  BY AtType DEF IInv, TypeOK, StreamsOK, Finish, Result
<1>2. /\ Len(results') = at /\ results'[at] = [rows |-> rows, error |-> sectionError]
      /\ \A i \in 1..(at - 1) : results'[i] = results[i]
  BY <1>1, AppendProperties, LenProperties
<1>3. \A i \in 1..(at - 1) : results[i].rows = streamed[i]
  BY <1>1 DEF IInv, StreamIsResult
<1>4. \A i \in 1..Len(results') : results'[i].rows = streamed[i]
  BY <1>1, <1>2, <1>3
<1>5. StreamIsResult'
  BY <1>4 DEF StreamIsResult, Finish
<1>6. /\ StreamsOK' /\ BreakerOK' /\ CountersOK' /\ EventsOK'
      /\ BreakerIsExact' /\ CheckIdsAreUnique'
  BY DEF IInv, StreamsOK, BreakerOK, CountersOK, EventsOK, BreakerIsExact, CheckIdsAreUnique,
         Finish, current
<1>7. QED
  BY <1>5, <1>6 DEF IInv

\* What the overlay rewrites at the end of the run.
LEMMA FinishRunStep ==
  ASSUME IInv, FinishRun
  PROVE  IInv'
<1>1. /\ TypeOK' /\ Len(results') = Len(results) /\ Len(results) = Len(sectionIds)
      /\ \A i \in 1..Len(results) :
           /\ results[i].rows \in Seq(Row)
           /\ \/ results'[i].rows = results[i].rows
              \/ results'[i].rows = applyLicensingOverlay(results[i].rows)
  BY FinishRunType DEF IInv, TypeOK, FinishRun
<1>2. \A i \in Sections : results[i].rows = streamed[i]
  BY <1>1 DEF IInv, StreamIsResult, FinishRun, Sections
<1>3. ASSUME NEW i \in Sections
      PROVE  /\ Len(results'[i].rows) = Len(streamed[i])
             /\ \A j \in 1..Len(streamed[i]) :
                  \/ results'[i].rows[j] = streamed[i][j]
                  \/ /\ skus = "inactive"
                     /\ streamed[i][j].base \in Overlaid
                     /\ results'[i].rows[j].skipReason = "not_licensed"
  <2>1. /\ results[i].rows \in Seq(Row)
        /\ \/ results'[i].rows = results[i].rows
           \/ results'[i].rows = applyLicensingOverlay(results[i].rows)
    BY <1>1 DEF Sections
  <2>2. QED
    BY <1>2, <2>1, OverlayType
<1>4. StreamIsResult'
  BY <1>3 DEF StreamIsResult, FinishRun
<1>5. /\ StreamsOK' /\ BreakerOK' /\ CountersOK' /\ EventsOK'
      /\ BreakerIsExact' /\ CheckIdsAreUnique'
  BY DEF IInv, StreamsOK, BreakerOK, CountersOK, EventsOK, BreakerIsExact, CheckIdsAreUnique,
         FinishRun, current
<1>6. QED
  BY <1>1, <1>4, <1>5 DEF IInv

\* Steps that touch neither the rows nor the results.
LEMMA OtherStep ==
  ASSUME IInv, TypeOK',
         Start \/ (pc = "collect" /\ (GraphCall \/ StoreSkus)) \/ NotImplemented \/ Throw
         \/ Return \/ UNCHANGED vars
  PROVE  IInv'
<1>1. UNCHANGED <<at, rows, consecutiveFailures, counters, results, streamed>>
  BY DEF Start, GraphCall, StoreSkus, NotImplemented, Throw, Return, SectionFails, vars, current
<1>2. /\ pc' = pc \/ pc' \in {"loop", "close"}
      /\ pc' = "close" => pc \in {"close", "collect"}
      /\ pc' = "done" <=> pc = "done"
      /\ pc' = "start" => pc = "start"
  BY DEF Start, GraphCall, StoreSkus, NotImplemented, Throw, Return, SectionFails, vars
<1>3. StreamsOK' /\ BreakerOK' /\ CountersOK' /\ BreakerIsExact' /\ CheckIdsAreUnique'
  BY <1>1, <1>2
     DEF IInv, StreamsOK, BreakerOK, CountersOK, BreakerIsExact, CheckIdsAreUnique
<1>4. pc = "done" => UNCHANGED skus
  BY DEF Start, GraphCall, StoreSkus, NotImplemented, Throw, Return, SectionFails, vars
<1>5. StreamIsResult'
  BY <1>1, <1>2, <1>4 DEF IInv, StreamIsResult
<1>6. EventsOK'
  BY DEF IInv, EventsOK, Events!Collecting, Start, GraphCall, StoreSkus, NotImplemented, Throw,
         Return, SectionFails, vars
<1>7. QED
  BY <1>3, <1>5, <1>6 DEF IInv

LEMMA InductiveStep == IInv /\ [Next]_vars => IInv'
<1> SUFFICES ASSUME IInv, [Next]_vars PROVE IInv'
  OBVIOUS
<1>1. TypeOK'
  BY TypeStep DEF IInv
<1>2. CASE Collect
  <2>1. pc = "collect" /\ TypeOK
    BY <1>2 DEF Collect, IInv
  <2>2. ASSUME NEW input \in Inputs[at], AddBrokenRow(input.base) PROVE IInv'
    BY <2>1, <2>2, InputType, AddBrokenRowStep
  <2>3. ASSUME NEW input \in Inputs[at], AddRow(input.base, input.ps) PROVE IInv'
    BY <2>1, <2>3, InputType, AddRowStep
  <2>4. CASE GraphCall \/ StoreSkus
    BY <1>1, <2>1, <2>4, OtherStep
  <2>5. QED
    BY <1>2, <2>2, <2>3, <2>4 DEF Collect
<1>3. CASE Enter
  BY <1>1, <1>3, EnterStep
<1>4. CASE Finish
  BY <1>1, <1>4, FinishStep
<1>5. CASE FinishRun
  BY <1>5, FinishRunStep
<1>6. CASE Start \/ NotImplemented \/ Throw \/ Return \/ UNCHANGED vars
  BY <1>1, <1>6, OtherStep
<1>7. QED
  BY <1>2, <1>3, <1>4, <1>5, <1>6 DEF Next

\* The properties of the runner with what keeps them.
THEOREM Inductive == Spec => []IInv
BY InductiveInit, InductiveStep, PTL DEF Spec

\* A section's breaker trips after exactly Threshold surfaced Graph errors in a row,
\* and stays tripped for the rest of that section and no longer.
THEOREM BreakerExact == Spec => []BreakerIsExact
BY Inductive, PTL DEF IInv

\* No two rows of a section have the same check id, broken rows included.
THEOREM CheckIds == Spec => []CheckIdsAreUnique
BY Inductive, PTL DEF IInv

\* What consumers saw row by row is what the result says, but for rows that the
\* licensing overlay gates.
THEOREM StreamsAreResults == Spec => []StreamIsResult
BY Inductive, PTL DEF IInv

-----------------------------------------------------------------------------
(* The order of the events.                                                *)

LEMMA EventsInit == Init => Events!EInit
BY DEF Init, Events!EInit

\* Every step of the loop emits the event that may come next, or none.
LEMMA EventsStep == IInv /\ [Next]_vars => [Events!ENext]_<<last, at>>
<1> SUFFICES ASSUME IInv, [Next]_vars PROVE [Events!ENext]_<<last, at>>
  OBVIOUS
<1>1. CASE Start
  BY <1>1 DEF Start, IInv, EventsOK, Events!ENext, Events!RunStarted
<1>2. CASE Enter
  BY <1>2 DEF Enter, IInv, EventsOK, Events!ENext, Events!SectionStarted
<1>3. CASE Collect
  <2>1. /\ pc = "collect" /\ at' = at
        /\ last' = last \/ last' \in {"check-completed", "graph-call", "page-cap-warning"}
    BY <1>3 DEF Collect, AddBrokenRow, AddRow, GraphCall, StoreSkus, Emit
  <2>2. QED
    BY <2>1 DEF IInv, EventsOK, Events!ENext, Events!Collected, Events!Collecting
<1>4. CASE NotImplemented \/ Throw
  BY <1>4 DEF NotImplemented, Throw, SectionFails, IInv, EventsOK, Events!ENext,
              Events!SectionError
<1>5. CASE Return \/ UNCHANGED vars
  BY <1>5 DEF Return, vars
<1>6. CASE Finish
  BY <1>6 DEF Finish, IInv, EventsOK, Events!ENext, Events!SectionFinished
<1>7. CASE FinishRun
  BY <1>7 DEF FinishRun, IInv, EventsOK, Events!ENext, Events!RunFinished
<1>8. QED
  BY <1>1, <1>2, <1>3, <1>4, <1>5, <1>6, <1>7 DEF Next

\* The events reach the consumers in the order that engine-events.ts promises.
THEOREM EventOrder == Spec => ImplementsEventOrder
BY EventsInit, EventsStep, Inductive, PTL DEF Spec, ImplementsEventOrder, Events!ESpec
=============================================================================
