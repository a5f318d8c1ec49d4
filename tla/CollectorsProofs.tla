--------------------------- MODULE CollectorsProofs ---------------------------
(***************************************************************************)
(* Theorems about Collectors for any policies, locations, apps and         *)
(* authorization policies that Graph may answer.                           *)
(*                                                                         *)
(* What the properties say of a state is a fact about the request that is  *)
(* judged in it.  The invariant relates the state to the request, and the  *)
(* rest of the module proves the fact for every request of every           *)
(* collector.                                                              *)
(***************************************************************************)
EXTENDS Collectors, FiniteSetTheorems, WellFoundedInduction, TLAPS

-----------------------------------------------------------------------------
(* What is true of every request *)

\* What a check adds, with the rows of a failed call if it stops by an exception.
AddedBy(checks, failed, a, k) ==
  LET added == checks[a][k] IN IF Stops \subseteq added THEN added \cup failed ELSE added

Rated(rows) == \A row \in Judged(rows) : row[2] \in DOMAIN Worth

\* The rows say nothing about the tenant.
Unjudging(rows) == \A row \in Judged(rows) : row[2] \notin {"Pass", "Fail"}

RequestFields == {"checks", "scales", "untold", "refused", "failed", "declined", "keeps",
                  "shares", "forgets", "calls", "fails", "swallows"}

\* All checks of an answer judge it by rows with a known status.
AreRated(checks, failed) ==
  /\ Rated(failed)
  /\ \A a \in DOMAIN checks :
       /\ Len(checks[a]) \in Nat
       /\ \A k \in 1..Len(checks[a]) : Rated(checks[a][k])

NeverWorse(rows, others) ==
  \A id \in Ids(rows) \cap Ids(others) : Worst(rows, id) <= Worst(others, id)

Improves(scales, a, b) ==
  \/ scales # <<>> /\ Stricter(scales, a, b)
  \/ /\ "principals" \in DOMAIN a
     /\ b.principals \subseteq a.principals
     /\ b = [a EXCEPT !.principals = b.principals]

AreMonotone(scales, checks, failed) ==
  \A a, b \in DOMAIN checks : \A k \in 1..Len(checks[a]) :
    Improves(scales, a, b) /\ ~FirstNamed(a, b) =>
      NeverWorse(AddedBy(checks, failed, a, k), checks[b][k])

StillPasses(a, rows, others) ==
  \A id \in Ids(rows) \ AboutMore(a) :
    Worst(rows, id) = 3 /\ id \in Ids(others) => Worst(others, id) = 3

CountEnforced(checks, failed) ==
  \A a, b \in DOMAIN checks : \A k \in 1..Len(checks[a]) :
    /\ "policies" \in DOMAIN a
    /\ b = [a EXCEPT !.policies = b.policies]
    /\ enabledPolicies(b) = enabledPolicies(a)
    => StillPasses(a, AddedBy(checks, failed, a, k), checks[b][k])

AreNested(checks, failed) ==
  \A a \in DOMAIN checks : \A k, l \in 1..Len(checks[a]) : \A demand \in Demands :
    LET rows == AddedBy(checks, failed, a, k)
    IN  /\ demand[1] \in Ids(rows) /\ Worst(rows, demand[1]) = 3
        /\ demand[2] \in Ids(checks[a][l])
        => Worst(checks[a][l], demand[2]) = 3

\* Where a read has failed, checks judge only what they would whatever it had told.
JudgesTold(untold, checks) ==
  \A a \in DOMAIN untold \cap DOMAIN checks : \A k \in 1..Len(checks[a]) :
    \A row \in Judged(checks[a][k]) :
      row[2] \in {"Pass", "Fail"} /\ row[1] \notin JudgedUnread[unreadOf(a)] =>
        \A b \in untold[a] : row \in checks[b][k]

Lawful(r) ==
  /\ DOMAIN r = RequestFields
  /\ Unjudging(r.refused) /\ Unjudging(r.failed) /\ Unjudging(r.declined)
  /\ AreRated(r.checks, r.failed)
  /\ AreMonotone(r.scales, r.checks, r.failed)
  /\ CountEnforced(r.checks, r.failed)
  /\ AreNested(r.checks, r.failed)
  /\ JudgesTold(r.untold, r.checks)

AllLawful(requests) ==
  Len(requests) \in Nat \ {0} /\ \A i \in 1..Len(requests) : Lawful(requests[i])

-----------------------------------------------------------------------------
(* The worst row of a check *)

LEMMA WorstRow ==
  ASSUME NEW rows, Rated(rows), NEW id \in Ids(rows)
  PROVE  /\ Worst(rows, id) \in 0..3
         /\ \E row \in Judged(rows) : row[1] = id /\ Worth[row[2]] = Worst(rows, id)
         /\ \A row \in Judged(rows) : row[1] = id => Worth[row[2]] >= Worst(rows, id)
<1> DEFINE Least(w) == /\ \E row \in Judged(rows) : row[1] = id /\ Worth[row[2]] = w
                       /\ \A row \in Judged(rows) : row[1] = id => Worth[row[2]] >= w
           Has(w)   == \E row \in Judged(rows) : row[1] = id /\ Worth[row[2]] = w
<1>1. \A row \in Judged(rows) : Worth[row[2]] \in 0..3
  BY DEF Rated, Worth
<1>2. Has(0) \/ Has(1) \/ Has(2) \/ Has(3)
  <2>1. PICK row \in Judged(rows) : row[1] = id
    BY DEF Ids
  <2>2. Worth[row[2]] \in {0, 1, 2, 3}
    BY <1>1
  <2>3. QED
    BY <2>1, <2>2
<1>3. \E w \in 0..3 : Least(w)
  <2>1. CASE Has(0)
    BY <1>1, <2>1
  <2>2. CASE Has(1) /\ ~Has(0)
    BY <1>1, <2>2
  <2>3. CASE Has(2) /\ ~Has(1) /\ ~Has(0)
    BY <1>1, <2>3
  <2>4. CASE Has(3) /\ ~Has(2) /\ ~Has(1) /\ ~Has(0)
    BY <1>1, <2>4
  <2>5. QED
    BY <1>2, <2>1, <2>2, <2>3, <2>4
<1>4. Worst(rows, id) = CHOOSE w \in 0..3 : Least(w)
  BY DEF Worst
<1> HIDE DEF Least
<1>5. Worst(rows, id) \in 0..3 /\ Least(Worst(rows, id))
  BY <1>3, <1>4
<1>6. QED
  BY <1>5 DEF Least

LEMMA WorstPasses ==
  ASSUME NEW rows, Rated(rows), NEW id \in Ids(rows)
  PROVE  Worst(rows, id) = 3 <=> \A row \in Judged(rows) : row[1] = id => row[2] = "Pass"
<1>1. \A row \in Judged(rows) : /\ Worth[row[2]] \in 0..3
                                /\ Worth[row[2]] = 3 <=> row[2] = "Pass"
  BY DEF Rated, Worth
<1>2. QED
  BY <1>1, WorstRow

\* It is enough to find for each row of one a row of the other that is no better.
LEMMA WorseByRows ==
  ASSUME NEW rows, NEW others, Rated(rows), Rated(others),
         \A other \in Judged(others) : other[1] \in Ids(rows) =>
           \E row \in Judged(rows) : row[1] = other[1] /\ Worth[row[2]] <= Worth[other[2]]
  PROVE  NeverWorse(rows, others)
<1> SUFFICES ASSUME NEW id \in Ids(rows), id \in Ids(others)
             PROVE  Worst(rows, id) <= Worst(others, id)
  BY DEF NeverWorse
<1>1. PICK other \in Judged(others) : other[1] = id /\ Worth[other[2]] = Worst(others, id)
  BY WorstRow
<1>2. PICK row \in Judged(rows) : row[1] = id /\ Worth[row[2]] <= Worth[other[2]]
  BY <1>1
<1>3. Worth[row[2]] >= Worst(rows, id) /\ Worst(rows, id) \in 0..3
  BY <1>2, WorstRow
<1>4. Worth[row[2]] \in 0..3 /\ Worth[other[2]] \in 0..3
  BY DEF Rated, Worth
<1>5. QED
  BY <1>1, <1>2, <1>3, <1>4

-----------------------------------------------------------------------------
(***************************************************************************)
(* Requests like most: no answer lists policies or apps, and no check      *)
(* passes that demands more than another.                                  *)
(***************************************************************************)

Marks     == Stops \cup Returns \cup Leaves
Demanding == {demand[1] : demand \in Demands}

Plain(rows) ==
  \A row \in rows :
    row \in Marks \/ (row[2] \in DOMAIN Worth /\ (row[1] \in Demanding => row[2] # "Pass"))

Quiet(rows) == \A row \in rows : row \in Marks \/ row[2] \in DOMAIN Worth \ {"Pass", "Fail"}

PlainChecks(checks) ==
  \A a \in DOMAIN checks :
    /\ Len(checks[a]) \in Nat
    /\ \A k \in 1..Len(checks[a]) :
         "policies" \notin DOMAIN a /\ "principals" \notin DOMAIN a /\ Plain(checks[a][k])

AllPlain(checks) ==
  \A a \in DOMAIN checks :
    Len(checks[a]) \in Nat /\ \A k \in 1..Len(checks[a]) : Plain(checks[a][k])

Appless(checks) ==
  \A a \in DOMAIN checks : \A k \in 1..Len(checks[a]) : "principals" \notin DOMAIN a

NoBetter(rows, others) ==
  \A row \in rows \ Marks, other \in others \ Marks : row[1] = other[1] =>
    \E worse \in rows :
      /\ worse[1] = other[1]
      /\ worse = other \/ (worse \notin Marks /\ Worth[worse[2]] <= Worth[other[2]])

\* There is a row that is no better for every row.
Below(rows, others) ==
  \A other \in others : \E worse \in rows :
    worse[1] = other[1] /\ worse \notin Marks /\ Worth[worse[2]] <= Worth[other[2]]

Rises(scales, checks) ==
  \A a, b \in DOMAIN checks : \A k \in 1..Len(checks[a]) :
    Stricter(scales, a, b) /\ ~FirstNamed(a, b) =>
      k \in 1..Len(checks[b]) /\ NoBetter(checks[a][k], checks[b][k])

Stopless(checks) == \A a \in DOMAIN checks : \A k \in 1..Len(checks[a]) :
  ~(Stops \subseteq checks[a][k])

LEMMA NotJudged == \A rows : \A row \in rows : row \in Judged(rows) \/ row \in Marks
BY DEF Judged, Marks

LEMMA PlainIsRated == ASSUME NEW rows, Plain(rows) PROVE Rated(rows)
BY DEF Plain, Rated, Judged, Marks

LEMMA QuietIsPlain == ASSUME NEW rows, Quiet(rows) PROVE Plain(rows) /\ Unjudging(rows)
BY DEF Plain, Quiet, Unjudging, Judged, Marks

LEMMA PlainAdded ==
  ASSUME NEW checks, NEW failed, AllPlain(checks), Quiet(failed),
         NEW a \in DOMAIN checks, NEW k \in 1..Len(checks[a])
  PROVE  Plain(AddedBy(checks, failed, a, k)) /\ Plain(checks[a][k])
<1>1. Plain(checks[a][k]) /\ Plain(failed)
  BY QuietIsPlain DEF AllPlain
<1>2. QED
  BY <1>1 DEF AddedBy, Plain

LEMMA PlainChecksAre ==
  ASSUME NEW checks, PlainChecks(checks)
  PROVE  AllPlain(checks) /\ Appless(checks)
BY DEF PlainChecks, AllPlain, Appless

LEMMA PlainAreRated ==
  ASSUME NEW checks, NEW failed, AllPlain(checks), Quiet(failed)
  PROVE  AreRated(checks, failed)
BY PlainIsRated, QuietIsPlain DEF AllPlain, AreRated

LEMMA PlainCountEnforced ==
  ASSUME NEW checks, NEW failed, PlainChecks(checks)
  PROVE  CountEnforced(checks, failed)
BY DEF PlainChecks, CountEnforced

LEMMA PlainAreNested ==
  ASSUME NEW checks, NEW failed, AllPlain(checks), Quiet(failed)
  PROVE  AreNested(checks, failed)
<1> SUFFICES ASSUME NEW a \in DOMAIN checks, NEW k \in 1..Len(checks[a]), NEW demand \in Demands,
                    demand[1] \in Ids(AddedBy(checks, failed, a, k)),
                    Worst(AddedBy(checks, failed, a, k), demand[1]) = 3
             PROVE  FALSE
  BY DEF AreNested
<1> DEFINE rows == AddedBy(checks, failed, a, k)
<1>1. Plain(rows) /\ Rated(rows)
  BY PlainAdded, PlainIsRated
<1>2. PICK row \in Judged(rows) : row[1] = demand[1]
  BY DEF Ids
<1>3. row[2] = "Pass"
  BY <1>1, <1>2, WorstPasses
<1>4. row \in rows /\ row \notin Marks
  BY <1>2 DEF Judged, Marks
<1>5. row[1] \in Demanding
  BY <1>2 DEF Demanding
<1>6. QED
  BY <1>1, <1>3, <1>4, <1>5 DEF Plain

\* Without an order of the settings there is nothing to compare.
LEMMA UnorderedIsMonotone ==
  ASSUME NEW checks, NEW failed, Appless(checks)
  PROVE  AreMonotone(<<>>, checks, failed)
BY DEF Appless, AreMonotone, Improves

LEMMA NoBetterIsWorse ==
  ASSUME NEW rows, NEW others, Rated(rows), Rated(others), NoBetter(rows, others)
  PROVE  NeverWorse(rows, others)
<1>1. ASSUME NEW other \in Judged(others), other[1] \in Ids(rows)
      PROVE  \E row \in Judged(rows) : row[1] = other[1] /\ Worth[row[2]] <= Worth[other[2]]
  <2>1. PICK row \in Judged(rows) : row[1] = other[1]
    BY <1>1 DEF Ids
  <2>2. row \in rows \ Marks /\ other \in others \ Marks
    BY <1>1, <2>1 DEF Judged, Marks
  <2>3. PICK worse \in rows :
          /\ worse[1] = other[1]
          /\ worse = other \/ (worse \notin Marks /\ Worth[worse[2]] <= Worth[other[2]])
    BY <2>1, <2>2 DEF NoBetter
  <2>4. worse \in Judged(rows)
    <3>1. CASE worse = other
      BY <1>1, <2>3, <3>1 DEF Judged
    <3>2. CASE worse \notin Marks
      BY <2>3, <3>2, NotJudged
    <3>3. QED
      BY <2>3, <3>1, <3>2
  <2>5. Worth[other[2]] <= Worth[other[2]]
    BY <1>1 DEF Rated, Worth
  <2>6. QED
    BY <2>3, <2>4, <2>5
<1>2. QED
  BY <1>1, WorseByRows

LEMMA RisingIsMonotone ==
  ASSUME NEW checks, NEW failed, AreRated(checks, failed), Appless(checks),
         NEW scales, Rises(scales, checks), failed = NoRows \/ Stopless(checks)
  PROVE  AreMonotone(scales, checks, failed)
<1> SUFFICES ASSUME NEW a \in DOMAIN checks, NEW b \in DOMAIN checks, NEW k \in 1..Len(checks[a]),
                    Improves(scales, a, b), ~FirstNamed(a, b)
             PROVE  NeverWorse(AddedBy(checks, failed, a, k), checks[b][k])
  BY DEF AreMonotone
<1>1. AddedBy(checks, failed, a, k) = checks[a][k]
  BY DEF AddedBy, Stopless, NoRows
<1>2. Stricter(scales, a, b)
  BY DEF Improves, Appless
<1>3. NoBetter(checks[a][k], checks[b][k]) /\ k \in 1..Len(checks[b])
  BY <1>2 DEF Rises
<1>4. Rated(checks[a][k]) /\ Rated(checks[b][k])
  BY <1>3 DEF AreRated
<1>5. QED
  BY <1>1, <1>3, <1>4, NoBetterIsWorse

-----------------------------------------------------------------------------
(* Rows, and how they compare *)

LEMMA PlainRow ==
  ASSUME NEW id
  PROVE  /\ id \notin Demanding => Plain(Row(id, "Pass"))
         /\ Plain(Row(id, "Fail")) /\ Plain(Row(id, "Warning")) /\ Plain(Row(id, "Review"))
         /\ Plain(Row(id, "Info")) /\ Plain(Row(id, "Skipped")) /\ Plain(Row(id, "Unknown"))
BY DEF Plain, Row, Worth

LEMMA PlainRows ==
  /\ Plain(NoRows) /\ Plain(Stops) /\ Plain(Returns) /\ Plain(Leaves)
  /\ \A rows, more : Plain(rows) /\ Plain(more) => Plain(rows \cup more)
BY DEF Plain, NoRows, Marks

LEMMA RowRises ==
  ASSUME NEW id, NEW s \in DOMAIN Worth, NEW t \in DOMAIN Worth, Worth[s] <= Worth[t]
  PROVE  NoBetter(Row(id, s), Row(id, t))
BY DEF NoBetter, Row, Marks, Stops, Returns, Leaves, Worth

LEMMA Rise ==
  ASSUME NEW id
  PROVE  /\ \A s \in {"Fail", "Warning", "Review", "Info", "Pass"} :
              /\ NoBetter(Row(id, "Fail"), Row(id, s))
              /\ NoBetter(Row(id, s), Row(id, "Pass"))
              /\ s # "Fail" => NoBetter(Row(id, "Warning"), Row(id, s))
              /\ NoBetter(Row(id, s), Row(id, s))
BY RowRises DEF Worth

LEMMA SameRises == ASSUME NEW rows PROVE NoBetter(rows, rows)
BY DEF NoBetter

LEMMA NoneRises == ASSUME NEW rows PROVE NoBetter(NoRows, rows) /\ NoBetter(rows, NoRows)
BY DEF NoBetter, NoRows

LEMMA StopsRise == ASSUME NEW rows PROVE NoBetter(Stops, rows) /\ NoBetter(rows, Stops)
BY DEF NoBetter, Marks

\* Checks that add several rows.
LEMMA BelowRises ==
  ASSUME NEW rows, NEW others, Below(rows, others)
  PROVE  NoBetter(rows, others)
BY DEF NoBetter, Below

LEMMA BelowUnion ==
  ASSUME NEW rows, NEW more, NEW others, NEW rest, Below(rows, others), Below(more, rest)
  PROVE  Below(rows \cup more, others \cup rest)
BY DEF Below

LEMMA BelowRow ==
  ASSUME NEW id
  PROVE  \A s \in {"Fail", "Warning", "Review", "Pass"} :
           /\ Below(Row(id, "Fail"), Row(id, s)) /\ Below(Row(id, s), Row(id, "Pass"))
           /\ Below(Row(id, s), Row(id, s))
BY DEF Below, Row, Marks, Stops, Returns, Leaves, Worth

LEMMA DemandingIds ==
  Demanding = {"CA-DEVICE-002", "CA-SIGNINRISK-002", "ENTRA-SECDEFAULT-002", "ENTRA-PIM-006",
               "PURVIEW-RETENTION-005"}
BY DEF Demanding, Demands

-----------------------------------------------------------------------------
(* What two answers on a scale can be *)

LEMMA TwoSteps ==
  ASSUME NEW scales, NEW a, NEW b, Stricter(scales, a, b),
         NEW f \in DOMAIN a, NEW x, NEW y, scales[f] = <<x, y>>
  PROVE  a[f] = b[f] \/ (a[f] = x /\ b[f] = y)
<1>1. Len(scales[f]) = 2 /\ scales[f][1] = x /\ scales[f][2] = y
  OBVIOUS
<1>2. CASE \E i, j \in 1..Len(scales[f]) : i < j /\ scales[f][i] = a[f] /\ scales[f][j] = b[f]
  <2>1. PICK i \in 1..2, j \in 1..2 : i < j /\ scales[f][i] = a[f] /\ scales[f][j] = b[f]
    BY <1>1, <1>2
  <2>2. i = 1 /\ j = 2
    BY <2>1
  <2>3. QED
    BY <1>1, <2>1, <2>2
<1>3. QED
  BY <1>2 DEF Stricter

LEMMA ThreeSteps ==
  ASSUME NEW scales, NEW a, NEW b, Stricter(scales, a, b),
         NEW f \in DOMAIN a, NEW x, NEW y, NEW z, scales[f] = <<x, y, z>>
  PROVE  a[f] = b[f] \/ (a[f] = x /\ b[f] \in {y, z}) \/ (a[f] = y /\ b[f] = z)
<1>1. Len(scales[f]) = 3 /\ scales[f][1] = x /\ scales[f][2] = y /\ scales[f][3] = z
  OBVIOUS
<1>2. CASE \E i, j \in 1..Len(scales[f]) : i < j /\ scales[f][i] = a[f] /\ scales[f][j] = b[f]
  <2>1. PICK i \in 1..3, j \in 1..3 : i < j /\ scales[f][i] = a[f] /\ scales[f][j] = b[f]
    BY <1>1, <1>2
  <2>2. (i = 1 /\ j \in {2, 3}) \/ (i = 2 /\ j = 3)
    BY <2>1
  <2>3. QED
    BY <1>1, <2>1, <2>2
<1>3. QED
  BY <1>2 DEF Stricter

LEMMA FourSteps ==
  ASSUME NEW scales, NEW a, NEW b, Stricter(scales, a, b),
         NEW f \in DOMAIN a, NEW w, NEW x, NEW y, NEW z, scales[f] = <<w, x, y, z>>
  PROVE  \/ a[f] = b[f]
         \/ a[f] = w /\ b[f] \in {x, y, z}
         \/ a[f] = x /\ b[f] \in {y, z}
         \/ a[f] = y /\ b[f] = z
<1>1. /\ Len(scales[f]) = 4 /\ scales[f][1] = w /\ scales[f][2] = x
      /\ scales[f][3] = y /\ scales[f][4] = z
  OBVIOUS
<1>2. CASE \E i, j \in 1..Len(scales[f]) : i < j /\ scales[f][i] = a[f] /\ scales[f][j] = b[f]
  <2>1. PICK i \in 1..4, j \in 1..4 : i < j /\ scales[f][i] = a[f] /\ scales[f][j] = b[f]
    BY <1>1, <1>2
  <2>2. (i = 1 /\ j \in {2, 3, 4}) \/ (i = 2 /\ j \in {3, 4}) \/ (i = 3 /\ j = 4)
    BY <2>1
  <2>3. QED
    BY <1>1, <2>1, <2>2
<1>3. QED
  BY <1>2 DEF Stricter

LEMMA FiveSteps ==
  ASSUME NEW scales, NEW a, NEW b, Stricter(scales, a, b),
         NEW f \in DOMAIN a, NEW v, NEW w, NEW x, NEW y, NEW z, scales[f] = <<v, w, x, y, z>>
  PROVE  \/ a[f] = b[f]
         \/ a[f] = v /\ b[f] \in {w, x, y, z}
         \/ a[f] = w /\ b[f] \in {x, y, z}
         \/ a[f] = x /\ b[f] \in {y, z}
         \/ a[f] = y /\ b[f] = z
<1>1. /\ Len(scales[f]) = 5 /\ scales[f][1] = v /\ scales[f][2] = w /\ scales[f][3] = x
      /\ scales[f][4] = y /\ scales[f][5] = z
  OBVIOUS
<1>2. CASE \E i, j \in 1..Len(scales[f]) : i < j /\ scales[f][i] = a[f] /\ scales[f][j] = b[f]
  <2>1. PICK i \in 1..5, j \in 1..5 : i < j /\ scales[f][i] = a[f] /\ scales[f][j] = b[f]
    BY <1>1, <1>2
  <2>2. \/ i = 1 /\ j \in {2, 3, 4, 5}
        \/ i = 2 /\ j \in {3, 4, 5}
        \/ i = 3 /\ j \in {4, 5}
        \/ i = 4 /\ j = 5
    BY <2>1
  <2>3. QED
    BY <1>1, <2>1, <2>2
<1>3. QED
  BY <1>2 DEF Stricter

LEMMA YesRises ==
  ASSUME NEW scales, NEW a, NEW b, Stricter(scales, a, b),
         NEW f \in DOMAIN a, scales[f] = YesIsSafe
  PROVE  a[f] => b[f]
<1> DEFINE no  == FALSE
           yes == TRUE
<1>1. scales[f] = <<no, yes>>
  BY DEF YesIsSafe
<1> HIDE DEF no, yes
<1>2. a[f] = b[f] \/ (a[f] = no /\ b[f] = yes)
  BY <1>1, TwoSteps
<1>3. a[f] = b[f] \/ (a[f] = FALSE /\ b[f] = TRUE)
  BY <1>2 DEF no, yes
<1>4. QED
  BY <1>3, Zenon

LEMMA NoRises ==
  ASSUME NEW scales, NEW a, NEW b, Stricter(scales, a, b),
         NEW f \in DOMAIN a, scales[f] = NoIsSafe
  PROVE  b[f] => a[f]
<1> DEFINE no  == FALSE
           yes == TRUE
<1>1. scales[f] = <<yes, no>>
  BY DEF NoIsSafe
<1> HIDE DEF no, yes
<1>2. a[f] = b[f] \/ (a[f] = yes /\ b[f] = no)
  BY <1>1, TwoSteps
<1>3. a[f] = b[f] \/ (a[f] = TRUE /\ b[f] = FALSE)
  BY <1>2 DEF no, yes
<1>4. QED
  BY <1>3, Zenon

\* The answers that scales span have their fields, and the values of the scales.
LEMMA AnswersAreOnScales ==
  ASSUME NEW scales, NEW a \in Answers(scales)
  PROVE  /\ DOMAIN a = DOMAIN scales
         /\
              \A f \in DOMAIN a : \E i \in Int :
              1 <= i /\ i <= Len(scales[f]) /\ a[f] = scales[f][i]
<1> DEFINE fields    == DOMAIN scales
           longest   == CHOOSE n \in {Len(scales[f]) : f \in fields} :
                          \A f \in fields : Len(scales[f]) <= n
           positions == {i \in [fields -> 1..longest] : \A f \in fields : i[f] <= Len(scales[f])}
<1>1. Answers(scales) = {[f \in fields |-> scales[f][i[f]]] : i \in positions}
  BY DEF Answers
<1> HIDE DEF longest
<1>2. PICK i \in positions : a = [f \in fields |-> scales[f][i[f]]]
  BY <1>1
<1>3. \A f \in fields : i[f] \in Int /\ 1 <= i[f] /\ i[f] <= Len(scales[f])
  BY <1>2
<1>4. QED
  BY <1>2, <1>3

LEMMA OffScale ==
  ASSUME NEW scales, NEW a, NEW b, Stricter(scales, a, b),
         NEW f \in DOMAIN a, f \notin DOMAIN scales
  PROVE  a[f] = b[f]
BY DEF Stricter

-----------------------------------------------------------------------------
(* Requests *)

LEMMA LawfulByParts ==
  ASSUME NEW r, DOMAIN r = RequestFields, Quiet(r.refused), Quiet(r.failed),
         r.declined = r.failed, AreRated(r.checks, r.failed),
         AreMonotone(r.scales, r.checks, r.failed),
         CountEnforced(r.checks, r.failed), AreNested(r.checks, r.failed),
         r.untold = <<>>
  PROVE  Lawful(r)
<1>1. JudgesTold(r.untold, r.checks)
  BY DEF JudgesTold
<1>2. QED
  BY <1>1, QuietIsPlain DEF Lawful

LEMMA RequestByParts ==
  ASSUME NEW checks, NEW refused, NEW failed, Quiet(refused), Quiet(failed),
         AreRated(checks, failed), CountEnforced(checks, failed), AreNested(checks, failed)
  PROVE  /\ AreMonotone(<<>>, checks, failed) => Lawful(Request(checks, refused, failed))
         /\ \A scales : AreMonotone(scales, checks, failed) =>
              Lawful(Ordered(scales, Request(checks, refused, failed)))
<1> DEFINE r == Request(checks, refused, failed)
<1>1. /\ DOMAIN r = RequestFields /\ r.checks = checks /\ r.scales = <<>> /\ r.untold = <<>>
      /\ r.refused = refused /\ r.failed = failed /\ r.declined = failed
  BY DEF Request, RequestFields
<1> HIDE DEF r
<1>2. AreMonotone(<<>>, checks, failed) => Lawful(r)
  BY <1>1, LawfulByParts
<1>3. ASSUME NEW scales, AreMonotone(scales, checks, failed) PROVE Lawful(Ordered(scales, r))
  <2> DEFINE o == Ordered(scales, r)
  <2>1. /\ DOMAIN o = RequestFields /\ o.checks = checks /\ o.scales = scales /\ o.untold = <<>>
        /\ o.refused = refused /\ o.failed = failed /\ o.declined = failed
    BY <1>1 DEF Ordered, RequestFields
  <2> HIDE DEF o
  <2>2. Lawful(o)
    BY <1>3, <2>1, LawfulByParts
  <2>3. QED
    BY <2>2 DEF o
<1>4. QED
  BY <1>2, <1>3 DEF r

LEMMA PlainRequest ==
  ASSUME NEW checks, NEW refused, NEW failed, PlainChecks(checks), Quiet(refused), Quiet(failed)
  PROVE  Lawful(Request(checks, refused, failed))
<1>1. /\ AreRated(checks, failed) /\ AreMonotone(<<>>, checks, failed)
      /\ CountEnforced(checks, failed) /\ AreNested(checks, failed)
  BY PlainChecksAre, PlainAreRated, PlainCountEnforced, PlainAreNested, UnorderedIsMonotone
<1>2. QED
  BY <1>1, RequestByParts

LEMMA OrderedRequest ==
  ASSUME NEW checks, NEW refused, NEW failed, NEW scales,
         PlainChecks(checks), Quiet(refused), Quiet(failed), Rises(scales, checks),
         failed = NoRows \/ Stopless(checks)
  PROVE  Lawful(Ordered(scales, Request(checks, refused, failed)))
<1>1. /\ AreRated(checks, failed) /\ AreMonotone(scales, checks, failed)
      /\ CountEnforced(checks, failed) /\ AreNested(checks, failed)
  BY PlainChecksAre, PlainAreRated, PlainCountEnforced, PlainAreNested, RisingIsMonotone
<1>2. QED
  BY <1>1, RequestByParts

\* How a request uses the store, and what a failing call of it leads to, is no matter.
LEMMA StillLawful ==
  ASSUME NEW r, Lawful(r), NEW fields
  PROVE  /\ Lawful(Keeping(fields, r)) /\ Lawful(Sharing(fields, r))
         /\ Lawful(Forgetting(fields, r))
         /\ Lawful(Local(r)) /\ Lawful(Swallowing(r))
BY DEF Lawful, RequestFields, Keeping, Sharing, Forgetting, Local, Swallowing

\* A request that goes on without what a failed read would have told.
LEMMA TellingIsLawful ==
  ASSUME NEW r, Lawful(r), NEW untold, JudgesTold(untold, r.checks)
  PROVE  Lawful(Untold(untold, r)) /\ Lawful(Telling(untold, r))
BY DEF Lawful, RequestFields, Untold, Telling

LEMMA DecliningIsLawful ==
  ASSUME NEW r, Lawful(r), NEW rows, Unjudging(rows)
  PROVE  Lawful(Declining(rows, r))
BY DEF Lawful, RequestFields, Declining

\* Failed calls.
LEMMA QuietRows ==
  /\ Quiet(NoRows) /\ Quiet(Leaves) /\ Quiet(Returns)
  /\ \A status \in {"Review", "Skipped", "Info", "Warning", "NotLicensed"} : \A id, ids :
       /\ Quiet(Row(id, status)) /\ Quiet(AllRows(ids, status))
       /\ Quiet(Row(id, status) \cup Returns) /\ Quiet(AllRows(ids, status) \cup Returns)
BY DEF Quiet, NoRows, Marks, Row, AllRows, Worth

LEMMA StaticIsLawful ==
  ASSUME NEW rows, Quiet(rows)
  PROVE  Lawful(Static(rows))
<1>1. PlainChecks(Always(<<rows>>))
  BY QuietIsPlain DEF PlainChecks, Always
<1>2. Lawful(Request(Always(<<rows>>), NoRows, NoRows))
  BY <1>1, QuietRows, PlainRequest
<1>3. QED
  BY <1>2, StillLawful DEF Static

-----------------------------------------------------------------------------
(* Requests of one check *)

LEMMA RequestIsLawful ==
  ASSUME NEW checks, NEW refused, NEW failed, Quiet(refused), Quiet(failed),
         \A a \in DOMAIN checks :
           /\ "policies" \notin DOMAIN a /\ "principals" \notin DOMAIN a
           /\ Len(checks[a]) = 1 /\ Plain(checks[a][1])
  PROVE  Lawful(Request(checks, refused, failed))
<1>1. PlainChecks(checks)
  BY DEF PlainChecks
<1>2. QED
  BY <1>1, PlainRequest

LEMMA OrderedIsLawful ==
  ASSUME NEW scales, NEW checks, NEW refused, Quiet(refused),
         \A a \in DOMAIN checks :
           /\ "policies" \notin DOMAIN a /\ "principals" \notin DOMAIN a
           /\ Len(checks[a]) = 1 /\ Plain(checks[a][1]),
         \A a, b \in DOMAIN checks :
           Stricter(scales, a, b) => NoBetter(checks[a][1], checks[b][1])
  PROVE  Lawful(Ordered(scales, Request(checks, refused, NoRows)))
<1>1. PlainChecks(checks) /\ Rises(scales, checks)
  BY DEF PlainChecks, Rises
<1>2. QED
  BY <1>1, QuietRows, OrderedRequest

LEMMA SettingIsLawful ==
  ASSUME NEW scales, NEW checks,
         \A a \in DOMAIN checks :
           /\ "policies" \notin DOMAIN a /\ "principals" \notin DOMAIN a
           /\ Len(checks[a]) = 1 /\ Plain(checks[a][1]),
         \A a, b \in DOMAIN checks :
           Stricter(scales, a, b) => NoBetter(checks[a][1], checks[b][1])
  PROVE  Lawful(Setting(scales, checks))
<1>1. Lawful(Ordered(scales, Request(checks, NoRows, NoRows)))
  BY QuietRows, OrderedIsLawful
<1>2. QED
  BY <1>1, StillLawful DEF Setting

\* Where a read failed, the check judges only what it would whatever it had told.
LEMMA ToldIsLawful ==
  ASSUME NEW scales, NEW checks, NEW refused, Quiet(refused), NEW untold,
         \A a \in DOMAIN checks :
           /\ "policies" \notin DOMAIN a /\ "principals" \notin DOMAIN a
           /\ Len(checks[a]) = 1 /\ Plain(checks[a][1]),
         \A a, b \in DOMAIN checks :
           Stricter(scales, a, b) => NoBetter(checks[a][1], checks[b][1]),
         \A a \in DOMAIN untold \cap DOMAIN checks : \A row \in checks[a][1] :
           row[2] \in {"Pass", "Fail"} /\ row[1] \notin JudgedUnread[unreadOf(a)] =>
             \A b \in untold[a] : row \in checks[b][1]
  PROVE  Lawful(Telling(untold, Ordered(scales, Request(checks, refused, NoRows))))
<1> DEFINE r == Ordered(scales, Request(checks, refused, NoRows))
<1>1. Lawful(r)
  BY OrderedIsLawful
<1>2. r.checks = checks
  BY DEF Ordered, Request
<1>3. JudgesTold(untold, checks)
  BY DEF JudgesTold, Judged
<1> HIDE DEF r
<1>4. Lawful(Telling(untold, r))
  BY <1>1, <1>2, <1>3, TellingIsLawful
<1>5. QED
  BY <1>4 DEF r

\* Calls of which only the failure matters.
LEMMA CallIsLawful ==
  ASSUME NEW refused, NEW failed, Quiet(refused), Quiet(failed)
  PROVE  Lawful(Request(Always(<<>>), refused, failed))
<1>1. PlainChecks(Always(<<>>))
  BY DEF PlainChecks, Always
<1>2. QED
  BY <1>1, PlainRequest

\* One collector that makes one request.
LEMMA OneRequestIsLawful == ASSUME NEW r, Lawful(r) PROVE AllLawful(<<r>>)
BY DEF AllLawful

-----------------------------------------------------------------------------
(* Requests of which a check may pass that demands more than another *)

\* Where one check passes and the other judges the same, the other passes too.
KeepsPassing(rows, others) ==
  \A row \in rows \ Marks, other \in others \ Marks :
    row[1] = other[1] /\ other[1] \notin AboutUnenforced =>
      other[2] = "Pass" \/ \E bad \in rows \ Marks : bad[1] = other[1] /\ bad[2] # "Pass"

\* Where some row passes the first of a pair, every row about the second passes.
Demanded(rows, others) ==
  \A demand \in Demands, row \in rows \ Marks, other \in others \ Marks :
    row[1] = demand[1] /\ row[2] = "Pass" /\ other[1] = demand[2] => other[2] = "Pass"

LEMMA RatedRow ==
  ASSUME NEW id
  PROVE  \A s \in DOMAIN Worth : Rated(Row(id, s))
BY DEF Rated, Row, Judged

LEMMA RatedRows ==
  /\ Rated(NoRows)
  /\ \A rows, more : Rated(rows) /\ Rated(more) => Rated(rows \cup more)
BY DEF Rated, NoRows, Judged

\* A quiet failure adds nothing that passes.
LEMMA PassesOfChecks ==
  ASSUME NEW checks, NEW failed, AreRated(checks, failed), Quiet(failed),
         NEW a \in DOMAIN checks, NEW k \in 1..Len(checks[a]),
         NEW id \in Ids(AddedBy(checks, failed, a, k)),
         Worst(AddedBy(checks, failed, a, k), id) = 3
  PROVE  /\ \E row \in checks[a][k] \ Marks : row[1] = id /\ row[2] = "Pass"
         /\ \A row \in checks[a][k] \ Marks : row[1] = id => row[2] = "Pass"
<1> DEFINE rows == AddedBy(checks, failed, a, k)
<1>1. Rated(rows) /\ checks[a][k] \subseteq rows /\ rows \subseteq checks[a][k] \cup failed
  BY DEF AreRated, AddedBy, Rated, Judged
<1>2. Judged(rows) = rows \ Marks
  BY DEF Judged, Marks
<1>3. \A row \in rows \ Marks : row[1] = id => row[2] = "Pass"
  BY <1>1, <1>2, WorstPasses
<1>4. PICK row \in rows \ Marks : row[1] = id
  BY <1>2 DEF Ids
<1>5. row \notin failed
  BY <1>3, <1>4 DEF Quiet
<1>6. QED
  BY <1>1, <1>3, <1>4, <1>5

\* The rows of CA-STALEREF-001, where not all groups were looked up.
Unsettled(a, rows) ==
  Cardinality(namedGroups(a)) > MaxProbes /\ \A row \in rows : row[1] = "CA-STALEREF-001"

LEMMA EnforcedByRows ==
  ASSUME NEW checks, NEW failed, AreRated(checks, failed), Quiet(failed),
         \A a, b \in DOMAIN checks : \A k \in 1..Len(checks[a]) :
           /\ "policies" \in DOMAIN a
           /\ b = [a EXCEPT !.policies = b.policies]
           /\ enabledPolicies(b) = enabledPolicies(a)
           => /\ k \in 1..Len(checks[b])
              /\ KeepsPassing(checks[a][k], checks[b][k]) \/ Unsettled(a, checks[b][k])
  PROVE  CountEnforced(checks, failed)
<1> SUFFICES ASSUME NEW a \in DOMAIN checks, NEW b \in DOMAIN checks, NEW k \in 1..Len(checks[a]),
                    "policies" \in DOMAIN a, b = [a EXCEPT !.policies = b.policies],
                    enabledPolicies(b) = enabledPolicies(a),
                    NEW id \in Ids(AddedBy(checks, failed, a, k)) \ AboutMore(a),
                    Worst(AddedBy(checks, failed, a, k), id) = 3, id \in Ids(checks[b][k])
             PROVE  Worst(checks[b][k], id) = 3
  BY DEF CountEnforced, StillPasses
<1>1. Rated(checks[b][k])
  BY DEF AreRated
<1>2. /\ \E row \in checks[a][k] \ Marks : row[1] = id
      /\ \A row \in checks[a][k] \ Marks : row[1] = id => row[2] = "Pass"
  BY PassesOfChecks
<1>3. id \notin AboutUnenforced
  BY DEF AboutMore
<1>4. CASE KeepsPassing(checks[a][k], checks[b][k])
  <2>1. \A other \in checks[b][k] \ Marks : other[1] = id => other[2] = "Pass"
    BY <1>2, <1>3, <1>4 DEF KeepsPassing
  <2>2. QED
    BY <1>1, <2>1, WorstPasses DEF Judged, Marks
<1>5. CASE Unsettled(a, checks[b][k])
  <2>1. id = "CA-STALEREF-001"
    BY <1>5 DEF Unsettled, Ids, Judged
  <2>2. id \in AboutMore(a)
    BY <1>5, <2>1 DEF Unsettled, AboutMore
  <2>3. QED
    BY <2>2
<1>6. QED
  BY <1>4, <1>5

LEMMA NestedByRows ==
  ASSUME NEW checks, NEW failed, AreRated(checks, failed), Quiet(failed),
         \A a \in DOMAIN checks : \A k, l \in 1..Len(checks[a]) :
           Demanded(checks[a][k], checks[a][l])
  PROVE  AreNested(checks, failed)
<1> SUFFICES ASSUME NEW a \in DOMAIN checks, NEW k \in 1..Len(checks[a]),
                    NEW l \in 1..Len(checks[a]), NEW demand \in Demands,
                    demand[1] \in Ids(AddedBy(checks, failed, a, k)),
                    Worst(AddedBy(checks, failed, a, k), demand[1]) = 3,
                    demand[2] \in Ids(checks[a][l])
             PROVE  Worst(checks[a][l], demand[2]) = 3
  BY DEF AreNested
<1>1. PICK row \in checks[a][k] \ Marks : row[1] = demand[1] /\ row[2] = "Pass"
  BY PassesOfChecks
<1>2. Rated(checks[a][l]) /\ Demanded(checks[a][k], checks[a][l])
  BY DEF AreRated
<1>3. \A other \in checks[a][l] \ Marks : other[1] = demand[2] => other[2] = "Pass"
  BY <1>1, <1>2 DEF Demanded
<1>4. QED
  BY <1>2, <1>3, WorstPasses DEF Judged, Marks

LEMMA SameKeepsPassing == ASSUME NEW rows PROVE KeepsPassing(rows, rows)
BY DEF KeepsPassing

\* One check of the policies that passes by none that demands more.
LEMMA PolicyRequest ==
  ASSUME NEW checks, NEW refused, NEW failed, Quiet(refused), Quiet(failed),
         DOMAIN checks = [policies : PolicyLists],
         \A a \in DOMAIN checks : Len(checks[a]) = 1 /\ Plain(checks[a][1]),
         \A a, b \in DOMAIN checks : enabledPolicies(a) = enabledPolicies(b) =>
           KeepsPassing(checks[a][1], checks[b][1])
  PROVE  Lawful(Request(checks, refused, failed))
<1>1. AllPlain(checks) /\ Appless(checks)
  BY DEF AllPlain, Appless
<1>2. AreRated(checks, failed)
  BY <1>1, PlainAreRated
<1>3. CountEnforced(checks, failed)
  <2>1. ASSUME NEW a \in DOMAIN checks, NEW b \in DOMAIN checks, NEW k \in 1..Len(checks[a]),
               enabledPolicies(b) = enabledPolicies(a)
        PROVE  k \in 1..Len(checks[b]) /\ KeepsPassing(checks[a][k], checks[b][k])
    <3>1. Len(checks[a]) = 1 /\ Len(checks[b]) = 1 /\ k \in 1..Len(checks[a])
      BY <2>1
    <3>2. QED
      BY <2>1, <3>1
  <2>2. QED
    BY <1>2, <2>1, EnforcedByRows
<1>4. AreNested(checks, failed) /\ AreMonotone(<<>>, checks, failed)
  BY <1>1, PlainAreNested, UnorderedIsMonotone
<1>5. QED
  BY <1>2, <1>3, <1>4, RequestByParts

-----------------------------------------------------------------------------
(* ca-security-config *)

LEMMA Least ==
  ASSUME NEW T \in SUBSET Nat, T # {}
  PROVE  \E m \in T : \A k \in T : m <= k
<1>1. IsWellFoundedOn(OpToRel(<, Nat), Nat)
  BY NatLessThanWellFounded
<1>2. \E m \in T : \A k \in T : ~(<<k, m>> \in OpToRel(<, Nat))
  BY <1>1, WFMin
<1>3. OpToRel(<, Nat) = {pair \in Nat \X Nat : pair[1] < pair[2]}
  BY DEF OpToRel
<1>4. PICK m \in T : \A k \in T : ~(<<k, m>> \in OpToRel(<, Nat))
  BY <1>2
<1>5. ASSUME NEW k \in T PROVE m <= k
  <2>1. k \in Nat /\ m \in Nat /\ <<k, m>> \in Nat \X Nat
    OBVIOUS
  <2>2. ~(k < m)
    BY <1>3, <1>4, <2>1
  <2>3. QED
    BY <2>1, <2>2
<1>6. QED
  BY <1>5

LEMMA ImageIsFinite ==
  ASSUME NEW f, IsFiniteSet(DOMAIN f)
  PROVE  IsFiniteSet({f[x] : x \in DOMAIN f})
<1> DEFINE T == {f[x] : x \in DOMAIN f}
           g == [x \in DOMAIN f |-> f[x]]
<1>1. g \in Surjection(DOMAIN f, T)
  BY DEF Surjection
<1> HIDE DEF g
<1>2. QED
  BY <1>1, FS_Surjection

LEMMA PoliciesOfReads ==
  ASSUME NEW w \in Reads
  PROVE  /\ Len(w.policies) \in Nat
         /\ \A i \in 1..Len(w.policies) :
              /\ w.policies[i].includeGroups \in Seq(STRING)
              /\ w.policies[i].excludeGroups \in Seq(STRING)
<1>1. w.policies \in PolicyLists
  BY DEF Reads
<1>2. QED
  BY <1>1, ConditionalAccessAssumption

LEMMA NamedGroupsAreFinite ==
  ASSUME NEW w \in Reads
  PROVE  IsFiniteSet(namedGroups(w))
<1> DEFINE places == {i \in 1..Len(w.policies) : w.policies[i].state = "enabled"}
           groups == [i \in places |-> groupRefs(w.policies[i])]
           last   == Len(w.policies)
<1>0. last \in Nat
  BY PoliciesOfReads
<1> HIDE DEF last
<1>1. IsFiniteSet(1..last)
  BY <1>0, FS_Interval
<1>2. IsFiniteSet(places)
  BY <1>1, FS_Subset DEF last
<1>3. ASSUME NEW i \in places PROVE IsFiniteSet(groupRefs(w.policies[i]))
  <2> DEFINE all  == w.policies[i].includeGroups \o w.policies[i].excludeGroups
             refs == [j \in 1..Len(all) |-> all[j]]
  <2>1. all \in Seq(STRING)
    BY PoliciesOfReads
  <2> HIDE DEF all
  <2>2. Len(all) \in Nat
    BY <2>1
  <2>3. IsFiniteSet(1..Len(all))
    BY <2>2, FS_Interval
  <2>4. DOMAIN refs = 1..Len(all) /\ \A j \in 1..Len(all) : refs[j] = all[j]
    OBVIOUS
  <2> HIDE DEF refs
  <2>5. IsFiniteSet({refs[j] : j \in DOMAIN refs})
    BY <2>3, <2>4, ImageIsFinite
  <2>6. {refs[j] : j \in DOMAIN refs} = groupRefs(w.policies[i])
    BY <2>4 DEF all, groupRefs
  <2>7. QED
    BY <2>5, <2>6
<1>4. /\ DOMAIN groups = places
      /\ \A i \in places : groups[i] = groupRefs(w.policies[i])
  OBVIOUS
<1> HIDE DEF groups
<1>5. IsFiniteSet({groups[i] : i \in DOMAIN groups})
  BY <1>2, <1>4, ImageIsFinite
<1>6. \A T \in {groups[i] : i \in DOMAIN groups} : IsFiniteSet(T)
  BY <1>3, <1>4
<1>7. IsFiniteSet(UNION {groups[i] : i \in DOMAIN groups})
  BY <1>5, <1>6, FS_UNION
<1>8. {groupRefs(p) : p \in enabledPolicies(w)} = {groups[i] : i \in DOMAIN groups}
  BY <1>4 DEF enabledPolicies
<1>9. QED
  BY <1>7, <1>8 DEF namedGroups

\* Where the enabled policies name no more groups than are looked up at most, all are.
LEMMA AllLookedUp ==
  ASSUME NEW w \in Reads, Cardinality(namedGroups(w)) <= MaxProbes
  PROVE  staleGroups(w) = PassIf("CA-STALEREF-001",
           \A p \in enabledPolicies(w) : groupRefs(p) \cap w.rest.gone = {})
<1> DEFINE list     == w.policies
           refs(i)  == IF w.policies[i].state = "enabled"
                       THEN w.policies[i].includeGroups \o w.policies[i].excludeGroups ELSE <<>>
           places   == UNION {{i} \X (1..Len(refs(i))) : i \in 1..Len(w.policies)}
           ref(a)   == refs(a[1])[a[2]]
           before(a) == {b \in places : b[1] < a[1] \/ (b[1] = a[1] /\ b[2] < a[2])}
           probed   == {ref(a) : a \in {b \in places :
                                   Cardinality({ref(c) : c \in before(b)}) < MaxProbes}}
<1>1. staleGroups(w) = PassIf("CA-STALEREF-001",
        \A p \in enabledPolicies(w) : groupRefs(p) \cap (probed \cap w.rest.gone) = {})
  BY DEF staleGroups
<1>2. Len(list) \in Nat
  BY PoliciesOfReads
<1>3. \A i \in 1..Len(list) :
        /\ refs(i) \in Seq(STRING)
        /\ list[i].state # "enabled" => refs(i) = <<>>
        /\ list[i].state = "enabled" =>
             refs(i) = list[i].includeGroups \o list[i].excludeGroups
  <2> SUFFICES ASSUME NEW i \in 1..Len(list)
               PROVE  /\ refs(i) \in Seq(STRING)
                      /\ list[i].state # "enabled" => refs(i) = <<>>
                      /\ list[i].state = "enabled" =>
                           refs(i) = list[i].includeGroups \o list[i].excludeGroups
    OBVIOUS
  <2> DEFINE both == list[i].includeGroups \o list[i].excludeGroups
  <2>1. both \in Seq(STRING) /\ <<>> \in Seq(STRING)
    BY PoliciesOfReads
  <2>2. refs(i) = IF list[i].state = "enabled" THEN both ELSE <<>>
    OBVIOUS
  <2> HIDE DEF refs, both
  <2>3. QED
    BY <2>1, <2>2 DEF both
<1> HIDE DEF refs
<1>4. \A i \in 1..Len(list) : Len(refs(i)) \in Nat
  BY <1>3
<1>5. ASSUME NEW i \in 1..Len(list), NEW j \in 1..Len(refs(i))
      PROVE  list[i] \in enabledPolicies(w) /\ refs(i)[j] \in groupRefs(list[i])
  <2>1. Len(<<>>) = 0 /\ j \in 1..0 => FALSE
    OBVIOUS
  <2>2. list[i].state = "enabled"
    BY <1>3, <2>1
  <2>3. refs(i) = list[i].includeGroups \o list[i].excludeGroups
    BY <1>3, <2>2
  <2>4. QED
    BY <2>2, <2>3 DEF enabledPolicies, groupRefs
<1>6. ASSUME NEW p \in enabledPolicies(w), NEW g \in groupRefs(p)
      PROVE  \E i \in 1..Len(list) : \E j \in 1..Len(refs(i)) : refs(i)[j] = g
  <2>1. PICK i \in 1..Len(list) : list[i].state = "enabled" /\ p = list[i]
    BY DEF enabledPolicies
  <2>2. refs(i) = p.includeGroups \o p.excludeGroups
    BY <1>3, <2>1
  <2>3. QED
    BY <2>1, <2>2 DEF groupRefs
<1>7. ASSUME NEW p \in enabledPolicies(w), NEW g \in groupRefs(p) PROVE g \in probed
  <2> DEFINE naming == {i \in 1..Len(list) : \E j \in 1..Len(refs(i)) : refs(i)[j] = g}
  <2>1. naming \subseteq Nat /\ naming # {}
    BY <1>6, <1>7
  <2>2. PICK m \in naming : \A k \in naming : m <= k
    BY <2>1, Least
  <2> DEFINE within == {j \in 1..Len(refs(m)) : refs(m)[j] = g}
  <2>3. m \in 1..Len(list) /\ within \subseteq Nat /\ within # {}
    BY <1>4, <2>2
  <2>4. PICK n \in within : \A k \in within : n <= k
    BY <2>3, Least
  <2> DEFINE first == <<m, n>>
  <2>5. n \in 1..Len(refs(m)) /\ refs(m)[n] = g
    BY <2>4
  <2>6. first \in places /\ ref(first) = g
    <3>1. first \in {m} \X (1..Len(refs(m)))
      BY <2>5
    <3>2. QED
      BY <2>3, <2>5, <3>1
  <2>7. ASSUME NEW c \in before(first) PROVE ref(c) \in namedGroups(w) \ {g}
    <3>1. PICK i \in 1..Len(list) : c \in {i} \X (1..Len(refs(i)))
      BY <2>7
    <3>2. c[1] = i /\ c[2] \in 1..Len(refs(i)) /\ ref(c) = refs(i)[c[2]]
      BY <3>1
    <3>3. ref(c) \in namedGroups(w)
      BY <1>5, <3>2 DEF namedGroups
    <3>4. i < m \/ (i = m /\ c[2] < n)
      BY <2>7, <3>2
    <3>5. CASE ref(c) = g /\ i < m
      <4>1. i \in naming
        BY <3>2, <3>5
      <4>2. m <= i
        BY <2>2, <4>1
      <4>3. i \in Int /\ m \in Int
        BY <2>3
      <4>4. QED
        BY <3>5, <4>2, <4>3
    <3>6. CASE ref(c) = g /\ i = m /\ c[2] < n
      <4>1. c[2] \in within
        BY <3>2, <3>6
      <4>2. n <= c[2]
        BY <2>4, <4>1
      <4>3. c[2] \in Int /\ n \in Int
        BY <2>3, <2>5, <4>1
      <4>4. QED
        BY <3>6, <4>2, <4>3
    <3>7. QED
      BY <3>3, <3>4, <3>5, <3>6
  <2> HIDE DEF places, before, first, ref
  <2> DEFINE earlier == {ref(c) : c \in before(first)}
  <2>8. earlier \subseteq namedGroups(w) \ {g}
    BY <2>7
  <2>9. g \in namedGroups(w)
    BY <1>7 DEF namedGroups
  <2>10. /\ IsFiniteSet(namedGroups(w) \ {g})
         /\ Cardinality(namedGroups(w) \ {g}) = Cardinality(namedGroups(w)) - 1
    BY <2>9, NamedGroupsAreFinite, FS_RemoveElement
  <2>11. IsFiniteSet(earlier) /\ Cardinality(earlier) <= Cardinality(namedGroups(w) \ {g})
    BY <2>8, <2>10, FS_Subset
  <2>12. Cardinality(earlier) \in Nat /\ Cardinality(namedGroups(w)) \in Nat
    BY <2>11, NamedGroupsAreFinite, FS_CardinalityType
  <2>13. Cardinality(earlier) < MaxProbes
    BY <2>10, <2>11, <2>12, ConditionalAccessAssumption
  <2>14. QED
    BY <2>6, <2>13
<1> HIDE DEF probed
<1>8. \A p \in enabledPolicies(w) :
        groupRefs(p) \cap (probed \cap w.rest.gone) = groupRefs(p) \cap w.rest.gone
  BY <1>7
<1>9. QED
  BY <1>1, <1>8

\* A check that adds at most rows with its own id.
OfCheck(id, rows) == \A row \in rows : row[1] = id /\ row[2] \in DOMAIN Worth

LEMMA RowsOfCheck ==
  ASSUME NEW id
  PROVE  OfCheck(id, NoRows) /\ \A s \in DOMAIN Worth : OfCheck(id, Row(id, s))
BY DEF OfCheck, NoRows, Row

CaIds ==
  <<"CA-MFA-ADMIN-001", "CA-MFA-ALL-001", "CA-LEGACYAUTH-001", "CA-SIGNIN-FREQ-001",
    "CA-PHISHRES-001", "CA-USERRISK-001", "CA-SIGNINRISK-001", "CA-SIGNINRISK-002",
    "CA-DEVICE-001", "CA-DEVICE-002", "CA-INTUNE-001", "CA-DEVICECODE-001",
    "CA-REPORTONLY-001", "CA-NAMEDLOC-001", "CA-SESSION-001", "CA-RISKPOLICY-001",
    "CA-ROLECOVERAGE-001", "CA-FALLBACK-001", "CA-NAMEDLOC-002", "CA-STALEREF-001">>

caChecks(w) ==
  <<mfaAdmin(w), mfaAll(w), legacyAuth(w), signinFreq(w), phishRes(w), userRisk(w),
    signinRisk(w), signinRiskBlock(w), device(w), secInfoDevice(w), intuneFreq(w),
    deviceCode(w), reportOnly(w), namedLoc(w), persistentBrowser(w), combinedRisk(w),
    roleCoverage(w), emptyTarget(w), staleLocations(w), staleGroups(w)>>

LEMMA CaIdsDiffer ==
  /\ Len(CaIds) = 20
  /\ \A k \in 1..20 :
       /\ CaIds[k] = "CA-DEVICE-001" <=> k = 9
       /\ CaIds[k] = "CA-DEVICE-002" <=> k = 10
       /\ CaIds[k] = "CA-SIGNINRISK-001" <=> k = 7
       /\ CaIds[k] = "CA-SIGNINRISK-002" <=> k = 8
       /\ CaIds[k] \in AboutUnenforced <=> k = 13
       /\ CaIds[k] \notin {"ENTRA-SECDEFAULT-002", "ENTRA-PIM-006", "PURVIEW-RETENTION-005"}
       /\ k \notin {14, 17} => CaIds[k] \in JudgedUnread.policies
       /\ k \in {1, 2, 3, 8} => CaIds[k] \in JudgedUnread.defaults
       /\ k = 20 => CaIds[k] \in JudgedUnread.groups
<1>0. /\ JudgedUnread.policies =
           {"CA-MFA-ADMIN-001", "CA-MFA-ALL-001", "CA-LEGACYAUTH-001", "CA-SIGNIN-FREQ-001",
            "CA-PHISHRES-001", "CA-USERRISK-001", "CA-SIGNINRISK-001", "CA-SIGNINRISK-002",
            "CA-DEVICE-001", "CA-DEVICE-002", "CA-INTUNE-001", "CA-DEVICECODE-001",
            "CA-REPORTONLY-001", "CA-SESSION-001", "CA-RISKPOLICY-001", "CA-FALLBACK-001",
            "CA-NAMEDLOC-002", "CA-STALEREF-001", "ENTRA-BREAKGLASS-001"}
      /\ JudgedUnread.defaults =
           {"CA-MFA-ADMIN-001", "CA-MFA-ALL-001", "CA-LEGACYAUTH-001", "CA-SIGNINRISK-002"}
      /\ JudgedUnread.groups = {"CA-STALEREF-001"}
  BY DEF JudgedUnread
<1>1. Len(CaIds) = 20
  BY DEF CaIds
<1>2. CaIds[1] = "CA-MFA-ADMIN-001"
  BY DEF CaIds
<1>3. CaIds[2] = "CA-MFA-ALL-001"
  BY DEF CaIds
<1>4. CaIds[3] = "CA-LEGACYAUTH-001"
  BY DEF CaIds
<1>5. CaIds[4] = "CA-SIGNIN-FREQ-001"
  BY DEF CaIds
<1>6. CaIds[5] = "CA-PHISHRES-001"
  BY DEF CaIds
<1>7. CaIds[6] = "CA-USERRISK-001"
  BY DEF CaIds
<1>8. CaIds[7] = "CA-SIGNINRISK-001"
  BY DEF CaIds
<1>9. CaIds[8] = "CA-SIGNINRISK-002"
  BY DEF CaIds
<1>10. CaIds[9] = "CA-DEVICE-001"
  BY DEF CaIds
<1>11. CaIds[10] = "CA-DEVICE-002"
  BY DEF CaIds
<1>12. CaIds[11] = "CA-INTUNE-001"
  BY DEF CaIds
<1>13. CaIds[12] = "CA-DEVICECODE-001"
  BY DEF CaIds
<1>14. CaIds[13] = "CA-REPORTONLY-001"
  BY DEF CaIds
<1>15. CaIds[14] = "CA-NAMEDLOC-001"
  BY DEF CaIds
<1>16. CaIds[15] = "CA-SESSION-001"
  BY DEF CaIds
<1>17. CaIds[16] = "CA-RISKPOLICY-001"
  BY DEF CaIds
<1>18. CaIds[17] = "CA-ROLECOVERAGE-001"
  BY DEF CaIds
<1>19. CaIds[18] = "CA-FALLBACK-001"
  BY DEF CaIds
<1>20. CaIds[19] = "CA-NAMEDLOC-002"
  BY DEF CaIds
<1>21. CaIds[20] = "CA-STALEREF-001"
  BY DEF CaIds
<1>22. \A k \in 1..20 : k \in {1, 2, 3, 4, 5, 6, 7, 8, 9, 10, 11, 12, 13, 14, 15, 16, 17, 18,
                               19, 20}
  OBVIOUS
<1>23. QED
  BY <1>0, <1>1, <1>2, <1>3, <1>4, <1>5, <1>6, <1>7, <1>8, <1>9, <1>10, <1>11, <1>12, <1>13,
     <1>14, <1>15, <1>16, <1>17, <1>18, <1>19, <1>20, <1>21, <1>22 DEF AboutUnenforced

LEMMA CaChecksAre ==
  ASSUME NEW w
  PROVE  /\ Len(caChecks(w)) = 20
         /\ caChecks(w)[1] = mfaAdmin(w)
         /\ caChecks(w)[2] = mfaAll(w)
         /\ caChecks(w)[3] = legacyAuth(w)
         /\ caChecks(w)[4] = signinFreq(w)
         /\ caChecks(w)[5] = phishRes(w)
         /\ caChecks(w)[6] = userRisk(w)
         /\ caChecks(w)[7] = signinRisk(w)
         /\ caChecks(w)[8] = signinRiskBlock(w)
         /\ caChecks(w)[9] = device(w)
         /\ caChecks(w)[10] = secInfoDevice(w)
         /\ caChecks(w)[11] = intuneFreq(w)
         /\ caChecks(w)[12] = deviceCode(w)
         /\ caChecks(w)[13] = reportOnly(w)
         /\ caChecks(w)[14] = namedLoc(w)
         /\ caChecks(w)[15] = persistentBrowser(w)
         /\ caChecks(w)[16] = combinedRisk(w)
         /\ caChecks(w)[17] = roleCoverage(w)
         /\ caChecks(w)[18] = emptyTarget(w)
         /\ caChecks(w)[19] = staleLocations(w)
         /\ caChecks(w)[20] = staleGroups(w)
BY DEF caChecks

LEMMA CaChecksAreOfCheck ==
  ASSUME NEW w, NEW k \in 1..20
  PROVE  OfCheck(CaIds[k], caChecks(w)[k])
<1>1. OfCheck("CA-MFA-ADMIN-001", mfaAdmin(w))
  BY RowsOfCheck DEF mfaAdmin, PassIf, PassElse, Covered, Worth
<1>2. OfCheck("CA-MFA-ALL-001", mfaAll(w))
  BY RowsOfCheck DEF mfaAll, PassIf, PassElse, Covered, Worth
<1>3. OfCheck("CA-LEGACYAUTH-001", legacyAuth(w))
  BY RowsOfCheck DEF legacyAuth, PassIf, PassElse, Covered, Worth
<1>4. OfCheck("CA-SIGNIN-FREQ-001", signinFreq(w))
  BY RowsOfCheck DEF signinFreq, PassIf, PassElse, Covered, Worth
<1>5. OfCheck("CA-PHISHRES-001", phishRes(w))
  BY RowsOfCheck DEF phishRes, PassIf, PassElse, Covered, Worth
<1>6. OfCheck("CA-USERRISK-001", userRisk(w))
  BY RowsOfCheck DEF userRisk, PassIf, PassElse, Covered, Worth
<1>7. OfCheck("CA-SIGNINRISK-001", signinRisk(w))
  BY RowsOfCheck DEF signinRisk, PassIf, PassElse, Covered, Worth
<1>8. OfCheck("CA-SIGNINRISK-002", signinRiskBlock(w))
  BY RowsOfCheck DEF signinRiskBlock, PassIf, PassElse, Covered, Worth
<1>9. OfCheck("CA-DEVICE-001", device(w))
  BY RowsOfCheck DEF device, PassIf, PassElse, Covered, Worth
<1>10. OfCheck("CA-DEVICE-002", secInfoDevice(w))
  BY RowsOfCheck DEF secInfoDevice, PassIf, PassElse, Covered, Worth
<1>11. OfCheck("CA-INTUNE-001", intuneFreq(w))
  BY RowsOfCheck DEF intuneFreq, PassIf, PassElse, Covered, Worth
<1>12. OfCheck("CA-DEVICECODE-001", deviceCode(w))
  BY RowsOfCheck DEF deviceCode, PassIf, PassElse, Covered, Worth
<1>13. OfCheck("CA-REPORTONLY-001", reportOnly(w))
  BY RowsOfCheck DEF reportOnly, PassIf, PassElse, Covered, Worth
<1>14. OfCheck("CA-NAMEDLOC-001", namedLoc(w))
  BY RowsOfCheck DEF namedLoc, PassIf, PassElse, Covered, Worth
<1>15. OfCheck("CA-SESSION-001", persistentBrowser(w))
  BY RowsOfCheck DEF persistentBrowser, PassIf, PassElse, Covered, Worth
<1>16. OfCheck("CA-RISKPOLICY-001", combinedRisk(w))
  BY RowsOfCheck DEF combinedRisk, PassIf, PassElse, Covered, Worth
<1>17. OfCheck("CA-ROLECOVERAGE-001", roleCoverage(w))
  BY RowsOfCheck DEF roleCoverage, PassIf, PassElse, Covered, Worth
<1>18. OfCheck("CA-FALLBACK-001", emptyTarget(w))
  BY RowsOfCheck DEF emptyTarget, PassIf, PassElse, Covered, Worth
<1>19. OfCheck("CA-NAMEDLOC-002", staleLocations(w))
  BY RowsOfCheck DEF staleLocations, PassIf, PassElse, Covered, Worth
<1>20. OfCheck("CA-STALEREF-001", staleGroups(w))
  BY RowsOfCheck DEF staleGroups, PassIf, PassElse, Covered, Worth
<1>21. \A n \in 1..20 : n \in {1, 2, 3, 4, 5, 6, 7, 8, 9, 10, 11, 12, 13, 14, 15, 16, 17, 18,
                                 19, 20}
  OBVIOUS
<1>22. QED
  BY <1>1, <1>2, <1>3, <1>4, <1>5, <1>6, <1>7, <1>8, <1>9, <1>10, <1>11, <1>12, <1>13, <1>14,
     <1>15, <1>16, <1>17, <1>18, <1>19, <1>20, <1>21,
     CaChecksAre DEF CaIds

\* All but two depend only on the policies that are enforced and on what else was read.
LEMMA CaChecksKeepPassing ==
  ASSUME NEW a \in Reads, NEW b \in Reads, b.rest = a.rest,
         enabledPolicies(b) = enabledPolicies(a),
         NEW k \in 1..20
  PROVE  KeepsPassing(caChecks(a)[k], caChecks(b)[k]) \/ Unsettled(a, caChecks(b)[k])
<1>1. mfaAdmin(b) = mfaAdmin(a)
  BY DEF mfaAdmin, Covered
<1>2. mfaAll(b) = mfaAll(a)
  BY DEF mfaAll, Covered
<1>3. legacyAuth(b) = legacyAuth(a)
  BY DEF legacyAuth, Covered
<1>4. signinFreq(b) = signinFreq(a)
  BY DEF signinFreq
<1>5. phishRes(b) = phishRes(a)
  BY DEF phishRes
<1>6. userRisk(b) = userRisk(a)
  BY DEF userRisk
<1>7. signinRisk(b) = signinRisk(a)
  BY DEF signinRisk
<1>8. signinRiskBlock(b) = signinRiskBlock(a)
  BY DEF signinRiskBlock, Covered
<1>9. device(b) = device(a)
  BY DEF device
<1>10. secInfoDevice(b) = secInfoDevice(a)
  BY DEF secInfoDevice
<1>11. intuneFreq(b) = intuneFreq(a)
  BY DEF intuneFreq
<1>12. deviceCode(b) = deviceCode(a)
  BY DEF deviceCode
<1>13. k = 13 => KeepsPassing(caChecks(a)[k], caChecks(b)[k])
  BY CaChecksAreOfCheck, CaIdsDiffer DEF KeepsPassing, OfCheck
<1>14. namedLoc(b) = namedLoc(a)
  BY DEF namedLoc
<1>15. persistentBrowser(b) = persistentBrowser(a)
  BY DEF persistentBrowser
<1>16. combinedRisk(b) = combinedRisk(a)
  BY DEF combinedRisk
<1>17. roleCoverage(b) = roleCoverage(a)
  BY DEF roleCoverage
<1>18. emptyTarget(b) = emptyTarget(a)
  BY DEF emptyTarget
<1>19. staleLocations(b) = staleLocations(a)
  BY DEF staleLocations
<1>20. staleGroups(b) = staleGroups(a) \/ (k = 20 => Unsettled(a, caChecks(b)[k]))
  <2>1. namedGroups(b) = namedGroups(a)
    BY DEF namedGroups
  <2>2. CASE Cardinality(namedGroups(a)) <= MaxProbes
    BY <2>1, <2>2, AllLookedUp
  <2>3. CASE ~(Cardinality(namedGroups(a)) <= MaxProbes)
    <3>1. k = 20 => \A row \in caChecks(b)[k] : row[1] = "CA-STALEREF-001"
      BY CaChecksAreOfCheck, CaIdsDiffer DEF OfCheck, CaIds
    <3>2. Cardinality(namedGroups(a)) > MaxProbes
      BY <2>3, NamedGroupsAreFinite, FS_CardinalityType, ConditionalAccessAssumption
    <3>3. QED
      BY <3>1, <3>2 DEF Unsettled
  <2>4. QED
    BY <2>2, <2>3
<1>21. \A n \in 1..20 : n \in {1, 2, 3, 4, 5, 6, 7, 8, 9, 10, 11, 12, 13, 14, 15, 16, 17, 18,
                                 19, 20}
  OBVIOUS
<1>22. \/ k = 13
       \/ caChecks(a)[k] = caChecks(b)[k]
       \/ Unsettled(a, caChecks(b)[k])
  BY <1>1, <1>2, <1>3, <1>4, <1>5, <1>6, <1>7, <1>8, <1>9, <1>10, <1>11, <1>12, <1>14, <1>15,
     <1>16, <1>17, <1>18, <1>19, <1>20, <1>21,
     CaChecksAre
<1>23. QED
  BY <1>13, <1>22, SameKeepsPassing

LEMMA CaChecksAreNested ==
  ASSUME NEW w \in Reads, NEW k \in 1..20, NEW l \in 1..20
  PROVE  Demanded(caChecks(w)[k], caChecks(w)[l])
<1> SUFFICES ASSUME NEW demand \in Demands, NEW row \in caChecks(w)[k] \ Marks,
                    NEW other \in caChecks(w)[l] \ Marks,
                    row[1] = demand[1], row[2] = "Pass", other[1] = demand[2]
             PROVE  other[2] = "Pass"
  BY DEF Demanded
<1>1. CaIds[k] = demand[1] /\ CaIds[l] = demand[2]
  BY CaChecksAreOfCheck DEF OfCheck
<1>2. (k = 8 /\ l = 7) \/ (k = 10 /\ l = 9)
  BY <1>1, CaIdsDiffer DEF Demands
<1>3. CASE k = 8 /\ l = 7
  <2>1. row \in signinRiskBlock(w) /\ other \in signinRisk(w)
    BY <1>3, CaChecksAre
  <2>2. \E p \in enabledPolicies(w) : p.signInRisk # {}
    BY <2>1 DEF signinRiskBlock, Covered, Row
  <2>3. QED
    BY <2>1, <2>2 DEF signinRisk, PassIf, Row
<1>4. CASE k = 10 /\ l = 9
  <2>1. row \in secInfoDevice(w) /\ other \in device(w)
    BY <1>4, CaChecksAre
  <2>2. \E p \in enabledPolicies(w) : requiresDevice(p)
    BY <2>1 DEF secInfoDevice, PassIf, Row
  <2>3. QED
    BY <2>1, <2>2 DEF device, PassIf, Row
<1>5. QED
  BY <1>2, <1>3, <1>4

\* Only four checks look at Security Defaults, and only the last at the groups.
LEMMA CaChecksOfReads ==
  ASSUME NEW a \in Reads, NEW b \in Reads, b.policies = a.policies,
         b.rest.located = a.rest.located, b.rest.locations = a.rest.locations,
         b.rest.assigned = a.rest.assigned,
         NEW k \in 1..20,
         k \in {1, 2, 3, 8} => b.rest.defaults = a.rest.defaults,
         k = 20 => b.rest.gone = a.rest.gone
  PROVE  caChecks(b)[k] = caChecks(a)[k]
<1>0. enabledPolicies(b) = enabledPolicies(a)
  BY DEF enabledPolicies
<1>1. k = 1 => mfaAdmin(b) = mfaAdmin(a)
  BY <1>0 DEF mfaAdmin, Covered
<1>2. k = 2 => mfaAll(b) = mfaAll(a)
  BY <1>0 DEF mfaAll, Covered
<1>3. k = 3 => legacyAuth(b) = legacyAuth(a)
  BY <1>0 DEF legacyAuth, Covered
<1>4. signinFreq(b) = signinFreq(a)
  BY <1>0 DEF signinFreq
<1>5. phishRes(b) = phishRes(a)
  BY <1>0 DEF phishRes
<1>6. userRisk(b) = userRisk(a)
  BY <1>0 DEF userRisk
<1>7. signinRisk(b) = signinRisk(a)
  BY <1>0 DEF signinRisk
<1>8. k = 8 => signinRiskBlock(b) = signinRiskBlock(a)
  BY <1>0 DEF signinRiskBlock, Covered
<1>9. device(b) = device(a)
  BY <1>0 DEF device
<1>10. secInfoDevice(b) = secInfoDevice(a)
  BY <1>0 DEF secInfoDevice
<1>11. intuneFreq(b) = intuneFreq(a)
  BY <1>0 DEF intuneFreq
<1>12. deviceCode(b) = deviceCode(a)
  BY <1>0 DEF deviceCode
<1>13. reportOnly(b) = reportOnly(a)
  BY DEF reportOnly
<1>14. namedLoc(b) = namedLoc(a)
  BY DEF namedLoc
<1>15. persistentBrowser(b) = persistentBrowser(a)
  BY <1>0 DEF persistentBrowser
<1>16. combinedRisk(b) = combinedRisk(a)
  BY <1>0 DEF combinedRisk
<1>17. roleCoverage(b) = roleCoverage(a)
  BY <1>0 DEF roleCoverage
<1>18. emptyTarget(b) = emptyTarget(a)
  BY <1>0 DEF emptyTarget
<1>19. staleLocations(b) = staleLocations(a)
  BY <1>0 DEF staleLocations
<1>20. k = 20 => staleGroups(b) = staleGroups(a)
  <2> DEFINE refs(list, i) == IF list[i].state = "enabled"
                              THEN list[i].includeGroups \o list[i].excludeGroups ELSE <<>>
             places(list)   == UNION {{i} \X (1..Len(refs(list, i))) : i \in 1..Len(list)}
             ref(list, c)   == refs(list, c[1])[c[2]]
             before(list, c) == {d \in places(list) :
                                   d[1] < c[1] \/ (d[1] = c[1] /\ d[2] < c[2])}
             probed(list)   == {ref(list, c) : c \in {d \in places(list) :
                Cardinality({ref(list, e) : e \in before(list, d)}) < MaxProbes}}
  <2>1. /\ staleGroups(a) = PassIf("CA-STALEREF-001", \A p \in enabledPolicies(a) :
             groupRefs(p) \cap (probed(a.policies) \cap a.rest.gone) = {})
        /\ staleGroups(b) = PassIf("CA-STALEREF-001", \A p \in enabledPolicies(b) :
             groupRefs(p) \cap (probed(b.policies) \cap b.rest.gone) = {})
    BY DEF staleGroups
  <2> HIDE DEF probed
  <2>2. QED
    BY <1>0, <2>1
<1>21. k \in {1, 2, 3, 4, 5, 6, 7, 8, 9, 10, 11, 12, 13, 14, 15, 16, 17, 18, 19, 20}
  OBVIOUS
<1>22. QED
  BY <1>1, <1>2, <1>3, <1>4, <1>5, <1>6, <1>7, <1>8, <1>9, <1>10, <1>11, <1>12, <1>13, <1>14,
     <1>15, <1>16, <1>17, <1>18, <1>19, <1>20, <1>21,
     CaChecksAre

LEMMA ReadsOfTold ==
  ASSUME NEW a \in Reads, a.unread # "none", NEW b \in ReadsTold[a]
  PROVE  b \in Reads
<1>1. PICK list \in IF a.unread = "policies" THEN PolicyLists ELSE {a.policies},
           rest \in otherwise(a) : b = [unread |-> "none", policies |-> list, rest |-> rest]
  BY DEF ReadsTold
<1>2. list \in PolicyLists /\ rest \in OtherReads
  BY DEF Reads, otherwise
<1>3. QED
  BY <1>1, <1>2 DEF Reads

\* Where a read failed, checks outside JudgedUnread do not depend on it.
LEMMA CaChecksJudgeTold ==
  ASSUME NEW a \in Reads, a.unread # "none", NEW b \in ReadsTold[a], NEW k \in 1..20,
         NEW row \in caChecks(a)[k], row[2] \in {"Pass", "Fail"},
         row[1] \notin JudgedUnread[a.unread]
  PROVE  row \in caChecks(b)[k]
<1>1. a.unread \in {"policies", "defaults", "groups"} /\ a.rest \in OtherReads
  BY DEF Reads
<1>2. PICK list \in IF a.unread = "policies" THEN PolicyLists ELSE {a.policies},
           rest \in otherwise(a) : b = [unread |-> "none", policies |-> list, rest |-> rest]
  BY DEF ReadsTold
<1>3. b \in Reads /\ b.policies = list /\ b.rest = rest
  BY <1>2, ReadsOfTold
<1>4. /\ rest.located = a.rest.located /\ rest.locations = a.rest.locations
      /\ rest.assigned = a.rest.assigned
      /\ rest.defaults = a.rest.defaults \/ a.unread = "defaults"
      /\ rest.gone = a.rest.gone \/ a.unread = "groups"
  BY DEF otherwise
<1>5. CaIds[k] \notin JudgedUnread[a.unread]
  BY CaChecksAreOfCheck DEF OfCheck
<1>6. CASE a.unread = "policies"
  <2>1. k \in {14, 17}
    BY <1>5, <1>6, CaIdsDiffer
  <2>2. CASE k = 14
    <3>1. caChecks(a)[k] = namedLoc(a) /\ caChecks(b)[k] = namedLoc(b)
      BY <2>2, CaChecksAre
    <3>2. namedLoc(b) = namedLoc(a)
      BY <1>3, <1>4 DEF namedLoc
    <3>3. QED
      BY <3>1, <3>2
  <2>3. CASE k = 17
    <3>1. row \in roleCoverage(a)
      BY <2>3, CaChecksAre
    <3>2. a.policies = <<>>
      BY <1>6 DEF Reads
    <3>3. enabledPolicies(a) = {}
      BY <3>2 DEF enabledPolicies
    <3>4. row[2] = "Review"
      BY <3>1, <3>3 DEF roleCoverage, Row, NoRows
    <3>5. QED
      BY <3>4
  <2>4. QED
    BY <2>1, <2>2, <2>3
<1>7. CASE a.unread = "defaults"
  <2>1. k \notin {1, 2, 3, 8}
    BY <1>5, <1>7, CaIdsDiffer
  <2>2. b.policies = a.policies /\ rest.gone = a.rest.gone
    BY <1>2, <1>3, <1>4, <1>7
  <2>3. QED
    BY <1>3, <1>4, <2>1, <2>2, CaChecksOfReads
<1>8. CASE a.unread = "groups"
  <2>1. k # 20
    BY <1>5, <1>8, CaIdsDiffer
  <2>2. b.policies = a.policies /\ rest.defaults = a.rest.defaults
    BY <1>2, <1>3, <1>4, <1>8
  <2>3. QED
    BY <1>3, <1>4, <2>1, <2>2, CaChecksOfReads
<1>9. QED
  BY <1>1, <1>6, <1>7, <1>8

LEMMA CaSecurityConfigIsLawful == AllLawful(caSecurityConfig)
<1> DEFINE checks == [w \in Reads |-> caChecks(w)]
<1>1. \A w \in DOMAIN checks : checks[w] = caChecks(w) /\ Len(checks[w]) = 20 /\ w \in Reads
  BY CaChecksAre
<1>2. \A w \in DOMAIN checks : DOMAIN w = {"unread", "policies", "rest"}
  BY DEF Reads
<1>3. DOMAIN checks = Reads
  OBVIOUS
<1> HIDE DEF checks
<1>4. Quiet(NoRows)
  BY QuietRows
<1>5. AreRated(checks, NoRows)
  <2>1. \A w : \A k \in 1..20 : Rated(caChecks(w)[k])
    BY CaChecksAreOfCheck DEF OfCheck, Rated, Judged
  <2>2. Rated(NoRows)
    BY RatedRows
  <2>3. ASSUME NEW a \in DOMAIN checks
        PROVE  Len(checks[a]) \in Nat /\ \A k \in 1..Len(checks[a]) : Rated(checks[a][k])
    <3>1. checks[a] = caChecks(a) /\ Len(caChecks(a)) = 20
      BY <1>1, <2>3
    <3>2. QED
      BY <2>1, <3>1
  <2>4. QED
    BY <2>2, <2>3 DEF AreRated
<1>6. CountEnforced(checks, NoRows)
  <2>1. ASSUME NEW a \in DOMAIN checks, NEW b \in DOMAIN checks, NEW k \in 1..Len(checks[a]),
               b = [a EXCEPT !.policies = b.policies], enabledPolicies(b) = enabledPolicies(a)
        PROVE  /\ k \in 1..Len(checks[b])
               /\ KeepsPassing(checks[a][k], checks[b][k]) \/ Unsettled(a, checks[b][k])
    <3>1. b.rest = a.rest
      BY <1>2, <2>1
    <3>2. k \in 1..20 /\ Len(checks[b]) = 20
      BY <1>1, <2>1
    <3>3. \/ KeepsPassing(caChecks(a)[k], caChecks(b)[k])
          \/ Unsettled(a, caChecks(b)[k])
      BY <1>1, <2>1, <3>1, <3>2, CaChecksKeepPassing
    <3>4. QED
      BY <1>1, <2>1, <3>2, <3>3
  <2>2. QED
    BY <1>4, <1>5, <2>1, EnforcedByRows
<1>7. AreNested(checks, NoRows)
  <2>1. \A a \in DOMAIN checks : \A k, l \in 1..Len(checks[a]) :
          Demanded(checks[a][k], checks[a][l])
    BY <1>1, CaChecksAreNested
  <2>2. QED
    BY <1>4, <1>5, <2>1, NestedByRows
<1>8. AreMonotone(<<>>, checks, NoRows)
  BY <1>2, UnorderedIsMonotone DEF Appless
<1>9. Lawful(Request(checks, NoRows, NoRows))
  BY <1>4, <1>5, <1>6, <1>7, <1>8, RequestByParts
<1>10. JudgesTold(ReadsTold, checks)
  <2> SUFFICES ASSUME NEW a \in DOMAIN ReadsTold \cap DOMAIN checks, NEW k \in 1..Len(checks[a]),
                      NEW row \in Judged(checks[a][k]), row[2] \in {"Pass", "Fail"},
                      row[1] \notin JudgedUnread[unreadOf(a)], NEW b \in ReadsTold[a]
               PROVE  row \in checks[b][k]
    BY DEF JudgesTold
  <2>0. DOMAIN ReadsTold = {c \in Reads : c.unread # "none"}
    BY DEF ReadsTold
  <2>1. a \in Reads /\ a.unread # "none" /\ k \in 1..20
    BY <1>1, <2>0
  <2>2. unreadOf(a) = a.unread
    BY <1>2 DEF unreadOf
  <2>3. row \in caChecks(a)[k]
    BY <1>1 DEF Judged
  <2>4. row \in caChecks(b)[k]
    BY <2>1, <2>2, <2>3, CaChecksJudgeTold
  <2>5. b \in Reads
    BY <2>1, ReadsOfTold
  <2>6. QED
    BY <1>1, <1>3, <2>4, <2>5
<1>11. Request(checks, NoRows, NoRows).checks = checks
  BY DEF Request
<1>12. Lawful(Telling(ReadsTold, Request(checks, NoRows, NoRows)))
  BY <1>9, <1>10, <1>11, TellingIsLawful
<1>13. caSecurityConfig = <<Telling(ReadsTold, Request(checks, NoRows, NoRows))>>
  BY DEF caSecurityConfig, caChecks, checks
<1>14. QED
  BY <1>12, <1>13, OneRequestIsLawful

-----------------------------------------------------------------------------
(* entra-pim-additional-config *)

LEMMA ActivationRises ==
  ASSUME NEW a \in ActivationPolicies, NEW b \in ActivationPolicies, Stricter(PolicyScales, a, b)
  PROVE  NoBetter(activationPolicy(a), activationPolicy(b))
<1>1. DOMAIN a = {"found", "expires", "hours", "justified", "mfa", "notified"}
  BY DEF ActivationPolicies
<1>2. a.found = b.found
  BY <1>1, OffScale DEF PolicyScales
<1>3. /\ a.expires => b.expires
      /\ a.justified => b.justified
      /\ a.mfa => b.mfa
      /\ a.notified => b.notified
  BY <1>1, YesRises DEF PolicyScales
<1>4. a.hours = b.hours \/ (a.hours = 5 /\ b.hours = 4)
  BY <1>1, TwoSteps DEF PolicyScales
<1>5. CASE a.found
  <2>1. /\ Below(PassIf("ENTRA-PIM-006", a.expires /\ a.hours \in 0..4),
                 PassIf("ENTRA-PIM-006", b.expires /\ b.hours \in 0..4))
        /\ Below(PassIf("ENTRA-PIM-007", a.justified), PassIf("ENTRA-PIM-007", b.justified))
        /\ Below(PassIf("ENTRA-PIM-008", a.mfa), PassIf("ENTRA-PIM-008", b.mfa))
        /\ Below(PassIf("ENTRA-PIM-009", a.expires), PassIf("ENTRA-PIM-009", b.expires))
        /\ Below(PassIf("ENTRA-PIM-010", a.notified), PassIf("ENTRA-PIM-010", b.notified))
    BY <1>3, <1>4, BelowRow DEF PassIf
  <2>2. Below(activationPolicy(a), activationPolicy(b))
    BY <1>2, <1>5, <2>1, BelowUnion DEF activationPolicy
  <2>3. QED
    BY <2>2, BelowRises
<1>6. CASE ~a.found
  BY <1>6, NoneRises DEF activationPolicy
<1>7. QED
  BY <1>5, <1>6

\* An activation that needs no more than four hours expires.
LEMMA ActivationIsNested ==
  ASSUME NEW a
  PROVE  Demanded(activationPolicy(a), activationPolicy(a))
<1> SUFFICES ASSUME NEW demand \in Demands, NEW row \in activationPolicy(a),
                    NEW other \in activationPolicy(a),
                    row[1] = demand[1], row[2] = "Pass", other[1] = demand[2]
             PROVE  other[2] = "Pass"
  BY DEF Demanded
<1>1. \A r \in activationPolicy(a) :
        /\ r[1] \in ActivationIds
        /\ r[1] = "ENTRA-PIM-006" =>
             r[2] = IF a.expires /\ a.hours \in 0..4 THEN "Pass" ELSE "Fail"
        /\ r[1] = "ENTRA-PIM-009" => r[2] = IF a.expires THEN "Pass" ELSE "Fail"
  BY DEF activationPolicy, ActivationIds, PassIf, Row, NoRows
<1>2. demand = <<"ENTRA-PIM-006", "ENTRA-PIM-009">>
  BY <1>1 DEF Demands, ActivationIds
<1>3. QED
  BY <1>1, <1>2

LEMMA ActivationRequestIsLawful ==
  Lawful(Ordered(PolicyScales, Request([a \in ActivationPolicies |-> <<activationPolicy(a)>>],
                                       AllRows(ActivationIds, "Review"), NoRows)))
<1> DEFINE checks == [a \in ActivationPolicies |-> <<activationPolicy(a)>>]
           refused == AllRows(ActivationIds, "Review")
<1>1. \A a \in DOMAIN checks :
        /\ a \in ActivationPolicies /\ Len(checks[a]) = 1
        /\ checks[a][1] = activationPolicy(a) /\ \A k \in 1..Len(checks[a]) : k = 1
        /\ "policies" \notin DOMAIN a /\ "principals" \notin DOMAIN a
  BY DEF ActivationPolicies
<1> HIDE DEF checks
<1>2. Quiet(refused) /\ Quiet(NoRows)
  BY QuietRows
<1>3. AreRated(checks, NoRows)
  <2>1. \A a : Rated(activationPolicy(a))
    BY RatedRow, RatedRows DEF activationPolicy, PassIf, Worth
  <2>2. QED
    BY <1>1, <2>1, RatedRows DEF AreRated
<1>4. AreMonotone(PolicyScales, checks, NoRows)
  <2>1. Rises(PolicyScales, checks)
    BY <1>1, ActivationRises DEF Rises
  <2>2. QED
    BY <1>1, <1>3, <2>1, RisingIsMonotone DEF Appless
<1>5. CountEnforced(checks, NoRows)
  BY <1>1 DEF CountEnforced
<1>6. AreNested(checks, NoRows)
  <2>1. \A a \in DOMAIN checks : \A k, l \in 1..Len(checks[a]) :
          Demanded(checks[a][k], checks[a][l])
    BY <1>1, ActivationIsNested
  <2>2. QED
    BY <1>2, <1>3, <2>1, NestedByRows
<1>7. Lawful(Ordered(PolicyScales, Request(checks, refused, NoRows)))
  BY <1>2, <1>3, <1>4, <1>5, <1>6, RequestByParts
<1>8. QED
  BY <1>7 DEF checks

LEMMA EntraPimAdditionalConfigIsLawful == AllLawful(entraPimAdditionalConfig)
<1>1. Lawful(entraPimAdditionalConfig[1])
  <2> DEFINE unlicensed == AllRows(ActivationIds, "Review") \cup Returns
  <2>1. Quiet(unlicensed)
    BY QuietRows
  <2>2. \A a \in [licensed : BOOLEAN] : Plain(pimLicence(a))
    BY <2>1, QuietIsPlain, PlainRows DEF pimLicence
  <2>3. QED
    BY <2>1, <2>2, RequestIsLawful, StillLawful DEF entraPimAdditionalConfig
<1>2. /\ Lawful(entraPimAdditionalConfig[2]) /\ Lawful(entraPimAdditionalConfig[3])
      /\ Lawful(entraPimAdditionalConfig[4])
  BY ActivationRequestIsLawful DEF entraPimAdditionalConfig
<1>3. Len(entraPimAdditionalConfig) = 4
  BY DEF entraPimAdditionalConfig
<1>4. QED
  BY <1>1, <1>2, <1>3 DEF AllLawful

-----------------------------------------------------------------------------
(* purview-retention-config *)

LEMMA RunPurviewRetentionConfigIsLawful == AllLawful(runPurviewRetentionConfig)
<1> DEFINE checks == [a \in LabelSets |-> <<retentionPolicies(a), exchangeRetention(a),
                                            teamsRetention(a), sharePointRetention(a),
                                            testMode(a)>>]
           skipped == AllRows(RetentionIds, "Skipped")
<1>1. \A a \in DOMAIN checks :
        /\ Len(checks[a]) = 5
        /\ checks[a][1] = retentionPolicies(a) /\ checks[a][2] = exchangeRetention(a)
        /\ checks[a][3] = teamsRetention(a) /\ checks[a][4] = sharePointRetention(a)
        /\ checks[a][5] = testMode(a)
        /\ \A k \in 1..Len(checks[a]) : k \in {1, 2, 3, 4, 5}
  OBVIOUS
<1>2. \A a \in DOMAIN checks : DOMAIN a = {"labels"}
  BY DEF LabelSets
<1> HIDE DEF checks
<1>3. Quiet(skipped)
  BY QuietRows
<1>4. \A a :
        /\ Plain(retentionPolicies(a)) /\ Plain(exchangeRetention(a))
        /\ Plain(teamsRetention(a)) /\ Plain(sharePointRetention(a))
  BY PlainRow, DemandingIds
  DEF retentionPolicies, exchangeRetention, teamsRetention, sharePointRetention,
      workloadRetention, PassIf
<1>5. AreRated(checks, skipped)
  <2>1. \A a : /\ Rated(retentionPolicies(a)) /\ Rated(exchangeRetention(a))
               /\ Rated(teamsRetention(a)) /\ Rated(sharePointRetention(a))
    BY <1>4, PlainIsRated
  <2>2. \A a : Rated(testMode(a))
    BY RatedRow DEF testMode, Worth
  <2>3. Rated(skipped)
    BY <1>3, QuietIsPlain, PlainIsRated
  <2>4. QED
    BY <1>1, <2>1, <2>2, <2>3 DEF AreRated
<1>6. CountEnforced(checks, skipped)
  BY <1>2 DEF CountEnforced
<1>7. AreNested(checks, skipped)
  <2>1. ASSUME NEW a \in DOMAIN checks, NEW k \in 1..Len(checks[a]), NEW l \in 1..Len(checks[a])
        PROVE  Demanded(checks[a][k], checks[a][l])
    <3>1. \A row \in testMode(a) : row[2] = "Pass" => enabledLabels(a) # {}
      BY DEF testMode, Row
    <3>2. enabledLabels(a) # {} => \A other \in retentionPolicies(a) : other[2] = "Pass"
      BY DEF retentionPolicies, PassIf, Row
    <3>3. \A r \in testMode(a) : r[1] = "PURVIEW-RETENTION-005"
      BY DEF testMode, Row
    <3>4. \A others \in {exchangeRetention(a), teamsRetention(a), sharePointRetention(a),
                             testMode(a)} :
            \A other \in others : other[1] # "PURVIEW-RETENTION-001"
      BY DEF exchangeRetention, teamsRetention, sharePointRetention, workloadRetention,
         testMode, Row
    <3>5. \A demand \in Demands :
            demand[1] = "PURVIEW-RETENTION-005" => demand[2] = "PURVIEW-RETENTION-001"
      BY DEF Demands
    <3>6. CASE k # 5
      <4>1. Plain(checks[a][k])
        BY <1>1, <1>4, <2>1, <3>6
      <4>2. QED
        BY <4>1 DEF Demanded, Plain, Demanding
    <3>7. CASE k = 5 /\ l = 1
      BY <1>1, <2>1, <3>1, <3>2, <3>7 DEF Demanded
    <3>8. CASE k = 5 /\ l # 1
      BY <1>1, <2>1, <3>3, <3>4, <3>5, <3>8 DEF Demanded
    <3>9. QED
      BY <3>6, <3>7, <3>8
  <2>2. QED
    BY <1>3, <1>5, <2>1, NestedByRows
<1>8. AreMonotone(<<>>, checks, skipped)
  BY <1>2, UnorderedIsMonotone DEF Appless
<1>9. Lawful(Request(checks, skipped, skipped))
  BY <1>3, <1>5, <1>6, <1>7, <1>8, RequestByParts
<1>10. QED
  BY <1>9, OneRequestIsLawful DEF runPurviewRetentionConfig, checks

-----------------------------------------------------------------------------
(* ent-app-security-config *)

appChecks(w) ==
  <<appsWithCredentials(w), inactiveApps(w), foreignTiers(w), foreignDelegated(w),
    foreignRoles(w), excessive(w), propertyLock(w), managedPermissions(w), managedRoles(w),
    internalTier0(w), secretOnly(w), expiredCredentials(w), dualCredentials(w),
    secretWithRole(w), privilegedOwners(w), roleOwners(w), orphaned(w), unusedPrivileged(w),
    localhostUris(w), httpUris(w), wildcardUris(w), impersonators(w), multiTenant(w)>>

LEMMA AppChecksAre ==
  ASSUME NEW w
  PROVE  /\ Len(appChecks(w)) = 23
         /\ appChecks(w)[1] = appsWithCredentials(w)
         /\ appChecks(w)[2] = inactiveApps(w)
         /\ appChecks(w)[3] = foreignTiers(w)
         /\ appChecks(w)[4] = foreignDelegated(w)
         /\ appChecks(w)[5] = foreignRoles(w)
         /\ appChecks(w)[6] = excessive(w)
         /\ appChecks(w)[7] = propertyLock(w)
         /\ appChecks(w)[8] = managedPermissions(w)
         /\ appChecks(w)[9] = managedRoles(w)
         /\ appChecks(w)[10] = internalTier0(w)
         /\ appChecks(w)[11] = secretOnly(w)
         /\ appChecks(w)[12] = expiredCredentials(w)
         /\ appChecks(w)[13] = dualCredentials(w)
         /\ appChecks(w)[14] = secretWithRole(w)
         /\ appChecks(w)[15] = privilegedOwners(w)
         /\ appChecks(w)[16] = roleOwners(w)
         /\ appChecks(w)[17] = orphaned(w)
         /\ appChecks(w)[18] = unusedPrivileged(w)
         /\ appChecks(w)[19] = localhostUris(w)
         /\ appChecks(w)[20] = httpUris(w)
         /\ appChecks(w)[21] = wildcardUris(w)
         /\ appChecks(w)[22] = impersonators(w)
         /\ appChecks(w)[23] = multiTenant(w)
BY DEF appChecks

LEMMA AppChecksArePlain ==
  ASSUME NEW w, NEW k \in 1..23
  PROVE  Plain(appChecks(w)[k])
<1>1. Plain(appsWithCredentials(w))
  BY PlainRow, PlainRows, DemandingIds DEF appsWithCredentials, NoneOf, PassElse
<1>2. Plain(inactiveApps(w))
  BY PlainRow, PlainRows, DemandingIds DEF inactiveApps, NoneOf, PassElse
<1>3. Plain(foreignTiers(w))
  BY PlainRow, PlainRows, DemandingIds DEF foreignTiers, NoneOf, PassElse
<1>4. Plain(foreignDelegated(w))
  BY PlainRow, PlainRows, DemandingIds DEF foreignDelegated, NoneOf, PassElse
<1>5. Plain(foreignRoles(w))
  BY PlainRow, PlainRows, DemandingIds DEF foreignRoles, NoneOf, PassElse
<1>6. Plain(excessive(w))
  BY PlainRow, PlainRows, DemandingIds DEF excessive, NoneOf, PassElse
<1>7. Plain(propertyLock(w))
  BY PlainRow, PlainRows, DemandingIds DEF propertyLock, NoneOf, PassElse
<1>8. Plain(managedPermissions(w))
  BY PlainRow, PlainRows, DemandingIds DEF managedPermissions, NoneOf, PassElse
<1>9. Plain(managedRoles(w))
  BY PlainRow, PlainRows, DemandingIds DEF managedRoles, NoneOf, PassElse
<1>10. Plain(internalTier0(w))
  BY PlainRow, PlainRows, DemandingIds DEF internalTier0, NoneOf, PassElse
<1>11. Plain(secretOnly(w))
  BY PlainRow, PlainRows, DemandingIds DEF secretOnly, NoneOf, PassElse
<1>12. Plain(expiredCredentials(w))
  BY PlainRow, PlainRows, DemandingIds DEF expiredCredentials, NoneOf, PassElse
<1>13. Plain(dualCredentials(w))
  BY PlainRow, PlainRows, DemandingIds DEF dualCredentials, NoneOf, PassElse
<1>14. Plain(secretWithRole(w))
  BY PlainRow, PlainRows, DemandingIds DEF secretWithRole, NoneOf, PassElse
<1>15. Plain(privilegedOwners(w))
  BY PlainRow, PlainRows, DemandingIds DEF privilegedOwners, NoneOf, PassElse
<1>16. Plain(roleOwners(w))
  BY PlainRow, PlainRows, DemandingIds DEF roleOwners, NoneOf, PassElse
<1>17. Plain(orphaned(w))
  BY PlainRow, PlainRows, DemandingIds DEF orphaned, NoneOf, PassElse
<1>18. Plain(unusedPrivileged(w))
  BY PlainRow, PlainRows, DemandingIds DEF unusedPrivileged, NoneOf, PassElse
<1>19. Plain(localhostUris(w))
  BY PlainRow, PlainRows, DemandingIds DEF localhostUris, NoneOf, PassElse
<1>20. Plain(httpUris(w))
  BY PlainRow, PlainRows, DemandingIds DEF httpUris, NoneOf, PassElse
<1>21. Plain(wildcardUris(w))
  BY PlainRow, PlainRows, DemandingIds DEF wildcardUris, NoneOf, PassElse
<1>22. Plain(impersonators(w))
  BY PlainRow, PlainRows, DemandingIds DEF impersonators, NoneOf, PassElse
<1>23. Plain(multiTenant(w))
  BY PlainRow, PlainRows, DemandingIds DEF multiTenant, NoneOf, PassElse
<1>24. \A i \in 1..23 : i \in {1, 2, 3, 4, 5, 6, 7, 8, 9, 10, 11, 12, 13, 14, 15, 16, 17, 18,
                                 19, 20, 21, 22, 23}
  OBVIOUS
<1>25. QED
  BY <1>1, <1>2, <1>3, <1>4, <1>5, <1>6, <1>7, <1>8, <1>9, <1>10, <1>11, <1>12, <1>13, <1>14,
     <1>15, <1>16, <1>17, <1>18, <1>19, <1>20, <1>21, <1>22, <1>23, <1>24,
     AppChecksAre

LEMMA FewerRises ==
  ASSUME NEW apps, NEW fewer, fewer \subseteq apps
  PROVE  \A id : \A else \in {"Fail", "Warning", "Info"} :
           /\ Below(NoneOf(id, apps, else), NoneOf(id, fewer, else))
           /\ NoBetter(NoneOf(id, apps, else), NoneOf(id, fewer, else))
<1>1. ASSUME NEW id, NEW else \in {"Fail", "Warning", "Info"}
      PROVE  Below(NoneOf(id, apps, else), NoneOf(id, fewer, else))
  <2>1. /\ Below(Row(id, else), Row(id, else)) /\ Below(Row(id, else), Row(id, "Pass"))
        /\ Below(Row(id, "Pass"), Row(id, "Pass"))
    BY <1>1 DEF Below, Row, Marks, Stops, Returns, Leaves, Worth
  <2>2. fewer = {} \/ apps # {}
    OBVIOUS
  <2>3. QED
    BY <2>1, <2>2 DEF NoneOf, PassElse
<1>2. QED
  BY <1>1, BelowRises

\* What the checks look at shrinks with the apps.
LEMMA FewerApps ==
  ASSUME NEW a \in AppReads, NEW b \in AppReads, b.principals \subseteq a.principals,
         b = [a EXCEPT !.principals = b.principals]
  PROVE  /\ a.principals \in PrincipalSets
         /\ a.lock = b.lock /\ registrations(a) = registrations(b)
         /\ \A sp : /\ permissions(a, sp) = permissions(b, sp)
                    /\ holdsRole(a, sp) <=> holdsRole(b, sp)
                    /\ grantsScopes(a, sp) <=> grantsScopes(b, sp)
         /\ servicePrincipals(a) \subseteq a.principals
         /\ regularApps(b) \subseteq regularApps(a)
         /\ managedIdentities(b) \subseteq managedIdentities(a)
         /\ enabledAppsWithCreds(b) \subseteq enabledAppsWithCreds(a)
         /\ thirdPartyForeignApps(b) \subseteq thirdPartyForeignApps(a)
         /\ internalApps(b) \subseteq internalApps(a)
<1>1. /\ a.unread = b.unread /\ a.lock = b.lock /\ a.registrations = b.registrations
      /\ a.principals \in PrincipalSets
  BY DEF AppReads
<1>2. servicePrincipals(b) \subseteq servicePrincipals(a)
      /\ servicePrincipals(a) \subseteq a.principals
  BY <1>1 DEF servicePrincipals
<1>3. /\ regularApps(b) \subseteq regularApps(a)
      /\ managedIdentities(b) \subseteq managedIdentities(a)
  BY <1>2 DEF regularApps, managedIdentities
<1>4. enabledAppsWithCreds(b) \subseteq enabledAppsWithCreds(a)
  BY <1>3 DEF enabledAppsWithCreds
<1>5. thirdPartyForeignApps(b) \subseteq thirdPartyForeignApps(a)
  BY <1>1, <1>3 DEF thirdPartyForeignApps, foreignApps
<1>6. internalApps(b) \subseteq internalApps(a)
  BY <1>1, <1>3 DEF internalApps
<1>7. \A sp : /\ permissions(a, sp) = permissions(b, sp)
              /\ holdsRole(a, sp) <=> holdsRole(b, sp)
              /\ grantsScopes(a, sp) <=> grantsScopes(b, sp)
  BY <1>1 DEF permissions, holdsRole, grantsScopes
<1>8. registrations(a) = registrations(b)
  BY <1>1 DEF registrations
<1>9. QED
  BY <1>1, <1>2, <1>3, <1>4, <1>5, <1>6, <1>7, <1>8

LEMMA FewerWithCredentials ==
  ASSUME NEW a \in AppReads, NEW b \in AppReads, b.principals \subseteq a.principals,
         b = [a EXCEPT !.principals = b.principals]
  PROVE  NoBetter(appsWithCredentials(a), appsWithCredentials(b))
<1> DEFINE A == enabledAppsWithCreds(a)
           B == enabledAppsWithCreds(b)
<1>1. IsFiniteSet(A) /\ B \subseteq A
  <2>1. IsFiniteSet(a.principals)
    BY FewerApps, EnterpriseAppsAssumption
  <2>2. A \subseteq a.principals
    BY FewerApps DEF enabledAppsWithCreds, regularApps
  <2>3. QED
    BY <2>1, <2>2, FewerApps, FS_Subset
<1>2. /\ Cardinality(A) \in Nat /\ Cardinality(B) \in Nat
      /\ Cardinality(B) <= Cardinality(A)
  BY <1>1, FS_Subset, FS_CardinalityType
<1>3. FewApps \in Nat
  BY EnterpriseAppsAssumption
<1> HIDE DEF A, B
<1> DEFINE of(apps) == IF apps = {} THEN "Pass"
                       ELSE IF Cardinality(apps) <= FewApps THEN "Info" ELSE "Warning"
<1>4. /\ appsWithCredentials(a) = Row("ENTRA-ENTAPP-001", of(A))
      /\ appsWithCredentials(b) = Row("ENTRA-ENTAPP-001", of(B))
  BY DEF appsWithCredentials, A, B
<1>5. /\ of(A) \in {"Pass", "Info", "Warning"} /\ of(B) \in {"Pass", "Info", "Warning"}
      /\ of(A) = "Pass" => of(B) = "Pass"
      /\ of(A) = "Info" => of(B) # "Warning"
  BY <1>1, <1>2, <1>3
<1>6. Worth[of(A)] <= Worth[of(B)] /\ of(A) \in DOMAIN Worth /\ of(B) \in DOMAIN Worth
  BY <1>5 DEF Worth
<1>7. QED
  BY <1>4, <1>6, RowRises

LEMMA AppChecksRise ==
  ASSUME NEW a \in AppReads, NEW b \in AppReads, b.principals \subseteq a.principals,
         b = [a EXCEPT !.principals = b.principals], NEW k \in 1..23
  PROVE  NoBetter(appChecks(a)[k], appChecks(b)[k])
<1>1. NoBetter(appsWithCredentials(a), appsWithCredentials(b))
  BY FewerWithCredentials
<1>2. NoBetter(inactiveApps(a), inactiveApps(b))
  BY FewerApps, FewerRises DEF inactiveApps
<1>3. NoBetter(foreignTiers(a), foreignTiers(b))
  BY FewerApps, FewerRises, BelowUnion, BelowRises DEF foreignTiers
<1>4. NoBetter(foreignDelegated(a), foreignDelegated(b))
  BY FewerApps, FewerRises DEF foreignDelegated
<1>5. NoBetter(foreignRoles(a), foreignRoles(b))
  BY FewerApps, FewerRises DEF foreignRoles
<1>6. NoBetter(excessive(a), excessive(b))
  BY FewerApps, FewerRises DEF excessive
<1>7. NoBetter(propertyLock(a), propertyLock(b))
  BY FewerApps, SameRises DEF propertyLock
<1>8. NoBetter(managedPermissions(a), managedPermissions(b))
  BY FewerApps, FewerRises DEF managedPermissions
<1>9. NoBetter(managedRoles(a), managedRoles(b))
  BY FewerApps, FewerRises DEF managedRoles
<1>10. NoBetter(internalTier0(a), internalTier0(b))
  BY FewerApps, FewerRises DEF internalTier0
<1>11. NoBetter(secretOnly(a), secretOnly(b))
  BY FewerApps, FewerRises DEF secretOnly
<1>12. NoBetter(expiredCredentials(a), expiredCredentials(b))
  BY FewerApps, FewerRises DEF expiredCredentials
<1>13. NoBetter(dualCredentials(a), dualCredentials(b))
  BY FewerApps, FewerRises DEF dualCredentials
<1>14. NoBetter(secretWithRole(a), secretWithRole(b))
  BY FewerApps, FewerRises DEF secretWithRole
<1>15. NoBetter(privilegedOwners(a), privilegedOwners(b))
  BY FewerApps, FewerRises DEF privilegedOwners
<1>16. NoBetter(roleOwners(a), roleOwners(b))
  BY FewerApps, FewerRises DEF roleOwners
<1>17. NoBetter(orphaned(a), orphaned(b))
  BY FewerApps, FewerRises DEF orphaned
<1>18. NoBetter(unusedPrivileged(a), unusedPrivileged(b))
  BY FewerApps, FewerRises DEF unusedPrivileged
<1>19. NoBetter(localhostUris(a), localhostUris(b))
  BY FewerApps, SameRises DEF localhostUris
<1>20. NoBetter(httpUris(a), httpUris(b))
  BY FewerApps, SameRises DEF httpUris
<1>21. NoBetter(wildcardUris(a), wildcardUris(b))
  BY FewerApps, SameRises DEF wildcardUris
<1>22. NoBetter(impersonators(a), impersonators(b))
  BY FewerApps, FewerRises DEF impersonators
<1>23. NoBetter(multiTenant(a), multiTenant(b))
  BY FewerApps, SameRises DEF multiTenant
<1>24. \A i \in 1..23 : i \in {1, 2, 3, 4, 5, 6, 7, 8, 9, 10, 11, 12, 13, 14, 15, 16, 17, 18,
                                 19, 20, 21, 22, 23}
  OBVIOUS
<1>25. QED
  BY <1>1, <1>2, <1>3, <1>4, <1>5, <1>6, <1>7, <1>8, <1>9, <1>10, <1>11, <1>12, <1>13, <1>14,
     <1>15, <1>16, <1>17, <1>18, <1>19, <1>20, <1>21, <1>22, <1>23, <1>24,
     AppChecksAre

LEMMA RowsOfNone ==
  ASSUME NEW id, NEW apps, NEW else, NEW row \in NoneOf(id, apps, else)
  PROVE  row[1] = id
BY DEF NoneOf, PassElse, Row

\* What a check looks at is the same in answers that list the same apps, where the reads
\* that matter for it went the same way.
LEMMA AppChecksOfReads ==
  ASSUME NEW a \in AppReads, NEW b \in AppReads,
         b.principals = a.principals, b.registrations = a.registrations,
         NEW k \in 1..23, k # 7, NEW row \in appChecks(a)[k],
         \A u \in Supports \ {"none"} :
           (a.unread = u <=> b.unread = u) \/ row[1] \notin JudgedUnread[u]
  PROVE  appChecks(b)[k] = appChecks(a)[k]
<1> DEFINE id   == row[1]
           Same(u) == a.unread = u <=> b.unread = u
<1>1. /\ id \in PrincipalIds => Same("servicePrincipals")
      /\ id \in ForeignIds \cup {"ENTRA-ENTAPP-010"} => Same("organization")
      /\ id \in {"ENTRA-ENTAPP-005", "ENTRA-ENTAPP-009", "ENTRA-ENTAPP-015", "ENTRA-ENTAPP-017"}
           => Same("roleAssignments")
      /\ id \in {"ENTRA-ENTAPP-003", "ENTRA-ENTAPP-006", "ENTRA-ENTAPP-008",
                 "ENTRA-ENTAPP-010", "ENTRA-ENTAPP-011", "ENTRA-ENTAPP-016",
                 "ENTRA-ENTAPP-019"} => Same("permissions")
      /\ id = "ENTRA-ENTAPP-004" => Same("oauth2Grants")
      /\ id \in RegistrationIds => Same("applications")
  <2> HIDE DEF id, Same
  <2>1. \A u \in Supports \ {"none"} : id \in JudgedUnread[u] => Same(u)
    BY DEF id, Same
  <2>2. /\ JudgedUnread["servicePrincipals"] = PrincipalIds
        /\ JudgedUnread["organization"] = ForeignIds \cup {"ENTRA-ENTAPP-010"}
        /\ JudgedUnread["roleAssignments"] =
             {"ENTRA-ENTAPP-005", "ENTRA-ENTAPP-009", "ENTRA-ENTAPP-015", "ENTRA-ENTAPP-017"}
        /\ JudgedUnread["permissions"] =
             {"ENTRA-ENTAPP-003", "ENTRA-ENTAPP-006", "ENTRA-ENTAPP-008", "ENTRA-ENTAPP-010",
              "ENTRA-ENTAPP-011", "ENTRA-ENTAPP-016", "ENTRA-ENTAPP-019"}
        /\ JudgedUnread["oauth2Grants"] = {"ENTRA-ENTAPP-004"}
        /\ JudgedUnread["applications"] = RegistrationIds
    BY DEF JudgedUnread
  <2>3. {"servicePrincipals", "organization", "roleAssignments", "permissions",
         "oauth2Grants", "applications"} \subseteq Supports \ {"none"}
    BY DEF Supports
  <2>4. QED
    BY <2>1, <2>2, <2>3
<1>2. /\ id \in PrincipalIds =>
           /\ regularApps(b) = regularApps(a) /\ managedIdentities(b) = managedIdentities(a)
           /\ enabledAppsWithCreds(b) = enabledAppsWithCreds(a)
      /\ id \in ForeignIds => thirdPartyForeignApps(b) = thirdPartyForeignApps(a)
      /\ id = "ENTRA-ENTAPP-010" => internalApps(b) = internalApps(a)
  <2>1. id \in PrincipalIds => servicePrincipals(b) = servicePrincipals(a)
    BY <1>1 DEF servicePrincipals
  <2>2. id \in PrincipalIds => regularApps(b) = regularApps(a)
    BY <2>1 DEF regularApps
  <2>3. id \in PrincipalIds => managedIdentities(b) = managedIdentities(a)
    BY <2>1 DEF managedIdentities
  <2>4. id \in PrincipalIds => enabledAppsWithCreds(b) = enabledAppsWithCreds(a)
    BY <2>2 DEF enabledAppsWithCreds
  <2>5. ForeignIds \subseteq PrincipalIds /\ "ENTRA-ENTAPP-010" \in PrincipalIds
    BY DEF PrincipalIds
  <2>6. id \in ForeignIds => foreignApps(b) = foreignApps(a)
    BY <1>1, <2>2, <2>5 DEF foreignApps
  <2>7. id \in ForeignIds => thirdPartyForeignApps(b) = thirdPartyForeignApps(a)
    BY <2>6 DEF thirdPartyForeignApps
  <2>8. id = "ENTRA-ENTAPP-010" => internalApps(b) = internalApps(a)
    BY <1>1, <2>2, <2>5 DEF internalApps
  <2>9. QED
    BY <2>2, <2>3, <2>4, <2>7, <2>8
<1>3. /\ Same("permissions") => \A sp : permissions(b, sp) = permissions(a, sp)
      /\ Same("roleAssignments") => \A sp : holdsRole(b, sp) <=> holdsRole(a, sp)
      /\ Same("oauth2Grants") => \A sp : grantsScopes(b, sp) <=> grantsScopes(a, sp)
      /\ Same("applications") => registrations(b) = registrations(a)
  BY DEF permissions, holdsRole, grantsScopes, registrations
<1>4. /\ ForeignIds = {"ENTRA-ENTAPP-003", "ENTRA-ENTAPP-004", "ENTRA-ENTAPP-005",
                       "ENTRA-ENTAPP-011", "ENTRA-ENTAPP-020"}
      /\ ForeignIds \subseteq PrincipalIds
      /\ {"ENTRA-ENTAPP-001", "ENTRA-ENTAPP-002", "ENTRA-ENTAPP-006", "ENTRA-ENTAPP-008",
          "ENTRA-ENTAPP-009", "ENTRA-ENTAPP-010", "ENTRA-ENTAPP-012", "ENTRA-ENTAPP-013",
          "ENTRA-ENTAPP-014", "ENTRA-ENTAPP-015", "ENTRA-ENTAPP-016", "ENTRA-ENTAPP-017",
          "ENTRA-ENTAPP-018", "ENTRA-ENTAPP-019"} \subseteq PrincipalIds
      /\ RegistrationIds = {"ENTRA-APPREG-002", "ENTRA-APPREG-003", "ENTRA-APPREG-004",
                            "ENTRA-ENTAPP-021"}
  BY DEF ForeignIds, PrincipalIds, RegistrationIds
<1> HIDE DEF Same
<1>5. row \in appsWithCredentials(a) => appsWithCredentials(b) = appsWithCredentials(a)
  <2>1. row \in appsWithCredentials(a) => id = "ENTRA-ENTAPP-001"
    BY RowsOfNone DEF appsWithCredentials, Row
  <2>2. QED
    BY <1>1, <1>2, <1>3, <1>4, <2>1 DEF appsWithCredentials
<1>6. row \in inactiveApps(a) => inactiveApps(b) = inactiveApps(a)
  <2>1. row \in inactiveApps(a) => id = "ENTRA-ENTAPP-002"
    BY RowsOfNone DEF inactiveApps
  <2>2. QED
    BY <1>1, <1>2, <1>3, <1>4, <2>1 DEF inactiveApps
<1>7. row \in foreignTiers(a) => foreignTiers(b) = foreignTiers(a)
  <2>1. row \in foreignTiers(a) => id = "ENTRA-ENTAPP-003" \/ id = "ENTRA-ENTAPP-011"
    BY RowsOfNone DEF foreignTiers
  <2>2. row \in foreignTiers(a) =>
          /\ thirdPartyForeignApps(b) = thirdPartyForeignApps(a)
          /\ \A sp : permissions(b, sp) = permissions(a, sp)
    BY <1>1, <1>2, <1>3, <1>4, <2>1
  <2>3. ASSUME row \in foreignTiers(a), NEW tier
        PROVE  {sp \in thirdPartyForeignApps(b) : tier \in permissions(b, sp)}
                 = {sp \in thirdPartyForeignApps(a) : tier \in permissions(a, sp)}
    <3>1. /\ thirdPartyForeignApps(b) = thirdPartyForeignApps(a)
          /\ \A sp : tier \in permissions(b, sp) <=> tier \in permissions(a, sp)
      BY <2>2, <2>3
    <3>2. QED
      BY <3>1
  <2>4. QED
    BY <2>3, Zenon DEF foreignTiers
<1>8. row \in foreignDelegated(a) => foreignDelegated(b) = foreignDelegated(a)
  <2>1. row \in foreignDelegated(a) => id = "ENTRA-ENTAPP-004"
    BY RowsOfNone DEF foreignDelegated
  <2>2. QED
    BY <1>1, <1>2, <1>3, <1>4, <2>1 DEF foreignDelegated
<1>9. row \in foreignRoles(a) => foreignRoles(b) = foreignRoles(a)
  <2>1. row \in foreignRoles(a) => id = "ENTRA-ENTAPP-005"
    BY RowsOfNone DEF foreignRoles
  <2>2. QED
    BY <1>1, <1>2, <1>3, <1>4, <2>1 DEF foreignRoles
<1>10. row \in excessive(a) => excessive(b) = excessive(a)
  <2>1. row \in excessive(a) => id = "ENTRA-ENTAPP-006"
    BY RowsOfNone DEF excessive
  <2>2. row \in excessive(a) =>
          /\ regularApps(b) = regularApps(a)
          /\ \A sp : permissions(b, sp) = permissions(a, sp)
    BY <1>1, <1>2, <1>3, <1>4, <2>1
  <2>3. ASSUME row \in excessive(a)
        PROVE  {sp \in regularApps(b) : sp.enabled /\ "many" \in permissions(b, sp)}
                 = {sp \in regularApps(a) : sp.enabled /\ "many" \in permissions(a, sp)}
    <3>1. /\ regularApps(b) = regularApps(a)
          /\ \A sp : "many" \in permissions(b, sp) <=> "many" \in permissions(a, sp)
      BY <2>2, <2>3
    <3>2. QED
      BY <3>1
  <2>4. QED
    BY <2>3, Zenon DEF excessive
<1>11. row \in managedPermissions(a) => managedPermissions(b) = managedPermissions(a)
  <2>1. row \in managedPermissions(a) => id = "ENTRA-ENTAPP-008"
    BY RowsOfNone DEF managedPermissions
  <2>2. QED
    BY <1>1, <1>2, <1>3, <1>4, <2>1 DEF managedPermissions
<1>12. row \in managedRoles(a) => managedRoles(b) = managedRoles(a)
  <2>1. row \in managedRoles(a) => id = "ENTRA-ENTAPP-009"
    BY RowsOfNone DEF managedRoles
  <2>2. QED
    BY <1>1, <1>2, <1>3, <1>4, <2>1 DEF managedRoles
<1>13. row \in internalTier0(a) => internalTier0(b) = internalTier0(a)
  <2>1. row \in internalTier0(a) => id = "ENTRA-ENTAPP-010"
    BY RowsOfNone DEF internalTier0
  <2>2. QED
    BY <1>1, <1>2, <1>3, <1>4, <2>1 DEF internalTier0
<1>14. row \in secretOnly(a) => secretOnly(b) = secretOnly(a)
  <2>1. row \in secretOnly(a) => id = "ENTRA-ENTAPP-012"
    BY RowsOfNone DEF secretOnly
  <2>2. QED
    BY <1>1, <1>2, <1>3, <1>4, <2>1 DEF secretOnly
<1>15. row \in expiredCredentials(a) => expiredCredentials(b) = expiredCredentials(a)
  <2>1. row \in expiredCredentials(a) => id = "ENTRA-ENTAPP-013"
    BY RowsOfNone DEF expiredCredentials
  <2>2. QED
    BY <1>1, <1>2, <1>3, <1>4, <2>1 DEF expiredCredentials
<1>16. row \in dualCredentials(a) => dualCredentials(b) = dualCredentials(a)
  <2>1. row \in dualCredentials(a) => id = "ENTRA-ENTAPP-014"
    BY RowsOfNone DEF dualCredentials
  <2>2. QED
    BY <1>1, <1>2, <1>3, <1>4, <2>1 DEF dualCredentials
<1>17. row \in secretWithRole(a) => secretWithRole(b) = secretWithRole(a)
  <2>1. row \in secretWithRole(a) => id = "ENTRA-ENTAPP-015"
    BY RowsOfNone DEF secretWithRole
  <2>2. QED
    BY <1>1, <1>2, <1>3, <1>4, <2>1 DEF secretWithRole
<1>18. row \in privilegedOwners(a) => privilegedOwners(b) = privilegedOwners(a)
  <2>1. row \in privilegedOwners(a) => id = "ENTRA-ENTAPP-016"
    BY RowsOfNone DEF privilegedOwners
  <2>2. row \in privilegedOwners(a) =>
          /\ regularApps(b) = regularApps(a)
          /\ \A sp : permissions(b, sp) = permissions(a, sp)
    BY <1>1, <1>2, <1>3, <1>4, <2>1
  <2>3. ASSUME row \in privilegedOwners(a)
        PROVE  {sp \in regularApps(b) : "tier0" \in permissions(b, sp) /\ sp.owners = "some"}
                 = {sp \in regularApps(a) : "tier0" \in permissions(a, sp) /\ sp.owners = "some"}
    <3>1. /\ regularApps(b) = regularApps(a)
          /\ \A sp : "tier0" \in permissions(b, sp) <=> "tier0" \in permissions(a, sp)
      BY <2>2, <2>3
    <3>2. QED
      BY <3>1
  <2>4. QED
    BY <2>3, Zenon DEF privilegedOwners
<1>19. row \in roleOwners(a) => roleOwners(b) = roleOwners(a)
  <2>1. row \in roleOwners(a) => id = "ENTRA-ENTAPP-017"
    BY RowsOfNone DEF roleOwners
  <2>2. QED
    BY <1>1, <1>2, <1>3, <1>4, <2>1 DEF roleOwners
<1>20. row \in orphaned(a) => orphaned(b) = orphaned(a)
  <2>1. row \in orphaned(a) => id = "ENTRA-ENTAPP-018"
    BY RowsOfNone DEF orphaned
  <2>2. QED
    BY <1>1, <1>2, <1>3, <1>4, <2>1 DEF orphaned
<1>21. row \in unusedPrivileged(a) => unusedPrivileged(b) = unusedPrivileged(a)
  <2>1. row \in unusedPrivileged(a) => id = "ENTRA-ENTAPP-019"
    BY RowsOfNone DEF unusedPrivileged
  <2>2. row \in unusedPrivileged(a) =>
          /\ regularApps(b) = regularApps(a)
          /\ \A sp : permissions(b, sp) = permissions(a, sp)
    BY <1>1, <1>2, <1>3, <1>4, <2>1
  <2>3. ASSUME row \in unusedPrivileged(a)
        PROVE  {sp \in regularApps(b) : "tier0" \in permissions(b, sp)}
                 = {sp \in regularApps(a) : "tier0" \in permissions(a, sp)}
    <3>1. /\ regularApps(b) = regularApps(a)
          /\ \A sp : "tier0" \in permissions(b, sp) <=> "tier0" \in permissions(a, sp)
      BY <2>2, <2>3
    <3>2. QED
      BY <3>1
  <2>4. QED
    BY <2>3, Zenon DEF unusedPrivileged
<1>22. row \in localhostUris(a) => localhostUris(b) = localhostUris(a)
  <2>1. row \in localhostUris(a) => id = "ENTRA-APPREG-002"
    BY RowsOfNone DEF localhostUris
  <2>2. QED
    BY <1>1, <1>2, <1>3, <1>4, <2>1 DEF localhostUris
<1>23. row \in httpUris(a) => httpUris(b) = httpUris(a)
  <2>1. row \in httpUris(a) => id = "ENTRA-APPREG-003"
    BY RowsOfNone DEF httpUris
  <2>2. QED
    BY <1>1, <1>2, <1>3, <1>4, <2>1 DEF httpUris
<1>24. row \in wildcardUris(a) => wildcardUris(b) = wildcardUris(a)
  <2>1. row \in wildcardUris(a) => id = "ENTRA-APPREG-004"
    BY RowsOfNone DEF wildcardUris
  <2>2. QED
    BY <1>1, <1>2, <1>3, <1>4, <2>1 DEF wildcardUris
<1>25. row \in impersonators(a) => impersonators(b) = impersonators(a)
  <2>1. row \in impersonators(a) => id = "ENTRA-ENTAPP-020"
    BY RowsOfNone DEF impersonators
  <2>2. QED
    BY <1>1, <1>2, <1>3, <1>4, <2>1 DEF impersonators
<1>26. row \in multiTenant(a) => multiTenant(b) = multiTenant(a)
  <2>1. row \in multiTenant(a) => id = "ENTRA-ENTAPP-021"
    BY RowsOfNone DEF multiTenant
  <2>2. QED
    BY <1>1, <1>2, <1>3, <1>4, <2>1 DEF multiTenant
<1>27. \A i \in 1..23 : i \in {1, 2, 3, 4, 5, 6, 7, 8, 9, 10, 11, 12, 13, 14, 15, 16, 17, 18,
                                 19, 20, 21, 22, 23}
  OBVIOUS
<1>28. QED
  BY <1>5, <1>6, <1>7, <1>8, <1>9, <1>10, <1>11, <1>12, <1>13, <1>14, <1>15, <1>16, <1>17,
     <1>18, <1>19, <1>20, <1>21, <1>22, <1>23, <1>24, <1>25, <1>26, <1>27,
     AppChecksAre

\* Where a read failed, checks outside JudgedUnread do not depend on it.
LEMMA AppChecksJudgeTold ==
  ASSUME NEW a \in DOMAIN AppsTold, NEW b \in AppsTold[a], NEW k \in 1..23,
         NEW row \in appChecks(a)[k], row[2] \in {"Pass", "Fail"},
         row[1] \notin JudgedUnread[a.unread]
  PROVE  b \in AppReads /\ row \in appChecks(b)[k]
<1>1. /\ a \in AppReads /\ b \in AppReads /\ b.unread = "none"
      /\ b.principals = a.principals /\ b.registrations = a.registrations
      /\ b.lock = a.lock \/ a.lock = "unread"
  BY DEF AppsTold
<1>2. CASE k = 7
  <2>1. appChecks(a)[k] = propertyLock(a) /\ appChecks(b)[k] = propertyLock(b)
    BY <1>2, AppChecksAre
  <2>2. a.lock # "unread"
    BY <2>1 DEF propertyLock, PassElse, Row
  <2>3. propertyLock(b) = propertyLock(a)
    BY <1>1, <2>2 DEF propertyLock
  <2>4. QED
    BY <1>1, <2>1, <2>3
<1>3. CASE k # 7
  BY <1>1, <1>3, AppChecksOfReads
<1>4. QED
  BY <1>2, <1>3

\* With the lock on the rest is as it was.
LEMMA LockRises ==
  ASSUME NEW a \in AppReads, NEW b \in AppReads, Stricter(LockScale, a, b), NEW k \in 1..23
  PROVE  NoBetter(appChecks(a)[k], appChecks(b)[k])
<1> DEFINE off == "off"
           on  == "on"
<1>1. DOMAIN a = {"principals", "registrations", "unread", "lock"} /\ DOMAIN LockScale = {"lock"}
  BY DEF AppReads, LockScale
<1>2. b.principals = a.principals /\ b.registrations = a.registrations /\ b.unread = a.unread
  BY <1>1, OffScale
<1>3. a.lock = b.lock \/ (a.lock = "off" /\ b.lock = "on")
  <2>1. LockScale["lock"] = <<"off", "on">>
    BY DEF LockScale
  <2>2. QED
    BY <1>1, <2>1, TwoSteps
<1>4. CASE k = 7
  <2>1. NoBetter(propertyLock(a), propertyLock(b))
    BY <1>3, Rise DEF propertyLock, PassElse
  <2>2. QED
    BY <1>4, <2>1, AppChecksAre
<1>5. CASE k # 7
  <2>1. CASE appChecks(a)[k] = {}
    BY <2>1 DEF NoBetter
  <2>2. ASSUME NEW row \in appChecks(a)[k] PROVE appChecks(b)[k] = appChecks(a)[k]
    BY <1>2, <1>5, AppChecksOfReads
  <2>3. QED
    BY <2>1, <2>2, SameRises
<1>6. QED
  BY <1>4, <1>5

LEMMA EntAppSecurityConfigIsLawful == AllLawful(entAppSecurityConfig)
<1> DEFINE checks == [w \in AppReads |-> appChecks(w)]
<1>1. \A w \in DOMAIN checks :
        /\ w \in AppReads /\ checks[w] = appChecks(w) /\ Len(checks[w]) = 23
        /\ "policies" \notin DOMAIN w
  BY AppChecksAre DEF AppReads
<1> HIDE DEF checks
<1>2. AllPlain(checks)
  <2>1. ASSUME NEW a \in DOMAIN checks
        PROVE  Len(checks[a]) \in Nat /\ \A k \in 1..Len(checks[a]) : Plain(checks[a][k])
    <3>1. checks[a] = appChecks(a) /\ Len(appChecks(a)) = 23
      BY <1>1, <2>1
    <3>2. QED
      BY <3>1, AppChecksArePlain
  <2>2. QED
    BY <2>1 DEF AllPlain
<1>3. AreRated(checks, NoRows) /\ AreNested(checks, NoRows)
  BY <1>2, QuietRows, PlainAreRated, PlainAreNested
<1>4. CountEnforced(checks, NoRows)
  BY <1>1 DEF CountEnforced
<1>5. AreMonotone(LockScale, checks, NoRows)
  <2> SUFFICES ASSUME NEW a \in DOMAIN checks, NEW b \in DOMAIN checks,
                      NEW k \in 1..Len(checks[a]), Improves(LockScale, a, b)
               PROVE  NeverWorse(AddedBy(checks, NoRows, a, k), checks[b][k])
    BY DEF AreMonotone
  <2>1. AddedBy(checks, NoRows, a, k) = checks[a][k]
    BY DEF AddedBy, NoRows
  <2>2. k \in 1..23 /\ k \in 1..Len(checks[b])
    BY <1>1
  <2>3. NoBetter(checks[a][k], checks[b][k])
    BY <1>1, <2>2, AppChecksRise, LockRises DEF Improves
  <2>4. Rated(checks[a][k]) /\ Rated(checks[b][k])
    BY <1>3, <2>2 DEF AreRated
  <2>5. QED
    BY <2>1, <2>3, <2>4, NoBetterIsWorse
<1> DEFINE r == Ordered(LockScale, Request(checks, NoRows, NoRows))
<1>6. Lawful(r)
  BY <1>3, <1>4, <1>5, QuietRows, RequestByParts
<1>7. JudgesTold(AppsTold, checks)
  <2> SUFFICES ASSUME NEW a \in DOMAIN AppsTold \cap DOMAIN checks, NEW k \in 1..Len(checks[a]),
                      NEW row \in Judged(checks[a][k]), row[2] \in {"Pass", "Fail"},
                      row[1] \notin JudgedUnread[unreadOf(a)], NEW b \in AppsTold[a]
               PROVE  row \in checks[b][k]
    BY DEF JudgesTold
  <2>1. k \in 1..23 /\ row \in appChecks(a)[k]
    BY <1>1 DEF Judged
  <2>2. unreadOf(a) = a.unread
    BY <1>1 DEF unreadOf, AppReads
  <2>3. b \in AppReads /\ row \in appChecks(b)[k]
    BY <2>1, <2>2, AppChecksJudgeTold
  <2>4. QED
    BY <2>3 DEF checks
<1>8. r.checks = checks
  BY DEF Request, Ordered
<1>9. Lawful(Telling(AppsTold, r))
  BY <1>6, <1>7, <1>8, TellingIsLawful
<1>10. entAppSecurityConfig = <<Telling(AppsTold, r)>>
  BY DEF entAppSecurityConfig, appChecks, checks
<1>11. QED
  BY <1>9, <1>10, OneRequestIsLawful

-----------------------------------------------------------------------------
(* The collectors that judge the list of policies *)

LEMMA ConditionalAccessReportIsLawful == AllLawful(conditionalAccessReport)
<1> DEFINE checks == [a \in [policies : PolicyLists] |-> <<listed(a)>>]
<1>1. \A a \in DOMAIN checks : Len(checks[a]) = 1 /\ Plain(checks[a][1])
  BY PlainRow, PlainRows, DemandingIds DEF listed, NoId
<1>2. \A a, b \in DOMAIN checks : KeepsPassing(checks[a][1], checks[b][1])
  BY DEF KeepsPassing, listed, Row, NoRows
<1>3. Lawful(Request(checks, Leaves, Leaves))
  BY <1>1, <1>2, QuietRows, PolicyRequest
<1>4. QED
  BY <1>3, OneRequestIsLawful DEF conditionalAccessReport

LEMMA EntraCaRemoteDeviceIsLawful == AllLawful(entraCaRemoteDevice)
<1> DEFINE checks == [a \in [policies : PolicyLists] |-> <<remoteDevice(a)>>]
<1>1. \A a \in DOMAIN checks : Len(checks[a]) = 1 /\ Plain(checks[a][1])
  BY PlainRow, DemandingIds DEF remoteDevice
<1>2. ASSUME NEW a \in DOMAIN checks, NEW b \in DOMAIN checks,
             enabledPolicies(a) = enabledPolicies(b)
      PROVE  KeepsPassing(remoteDevice(a), remoteDevice(b))
  <2> DEFINE Matches(c) == \E p \in enabledPolicies(c) :
                             "compliantDevice" \in p.controls /\ p.excludeLocations # {}
  <2>1. \A c : Matches(c) <=>
          \E i \in 1..Len(c.policies) :
            /\ c.policies[i].state = "enabled"
            /\ "compliantDevice" \in c.policies[i].controls
            /\ c.policies[i].excludeLocations # {}
    BY DEF enabledPolicies
  <2> HIDE DEF Matches
  <2>2. ASSUME NEW c
        PROVE  \E s \in {"Pass", "Warning", "Fail"} :
                 remoteDevice(c) = Row("CA-REMOTEDEVICE-001", s) /\ (s = "Pass" <=> Matches(c))
    BY <2>1 DEF remoteDevice
  <2>3. Matches(a) <=> Matches(b)
    BY <1>2 DEF Matches
  <2>4. QED
    BY <2>2, <2>3 DEF KeepsPassing, Row
<1>3. \A a, b \in DOMAIN checks : enabledPolicies(a) = enabledPolicies(b) =>
        KeepsPassing(checks[a][1], checks[b][1])
  BY <1>2
<1>4. Lawful(Request(checks, Row("CA-REMOTEDEVICE-001", "Review"), NoRows))
  BY <1>1, <1>3, QuietRows, PolicyRequest
<1>5. QED
  BY <1>4, OneRequestIsLawful DEF entraCaRemoteDevice

LEMMA PolicyCountIsLawful == Lawful(conditionalAccessChecks[1])
<1> DEFINE checks == [a \in [policies : PolicyLists] |-> <<policyCount(a)>>]
<1>1. \A a \in DOMAIN checks : Len(checks[a]) = 1 /\ Plain(checks[a][1])
  BY PlainRow, PlainRows, DemandingIds DEF policyCount, PassElse
<1>2. ASSUME NEW a \in DOMAIN checks, NEW b \in DOMAIN checks,
             enabledPolicies(a) = enabledPolicies(b)
      PROVE  policyCount(a) = policyCount(b)
  <2>1. \A c : (\E i \in 1..Len(c.policies) : c.policies[i].state = "enabled")
                 <=> enabledPolicies(c) # {}
    BY DEF enabledPolicies
  <2>2. QED
    BY <1>2, <2>1 DEF policyCount
<1>3. \A a, b \in DOMAIN checks : enabledPolicies(a) = enabledPolicies(b) =>
        KeepsPassing(checks[a][1], checks[b][1])
  BY <1>2, SameKeepsPassing
<1>4. Lawful(Request(checks, NoRows, NoRows))
  BY <1>1, <1>3, QuietRows, PolicyRequest
<1>5. QED
  BY <1>4 DEF conditionalAccessChecks

-----------------------------------------------------------------------------
(* password-auth-checks and the other collectors of the sign-in *)

LEMMA DefaultsRequestIsLawful == Lawful(runPasswordAuthChecks[1])
<1> DEFINE checks == [a \in Defaults |-> <<securityDefaults(a), defaultsGap(a)>>]
           refused == Row("ENTRA-SECDEFAULT-001", "Review")
<1>1. /\ DOMAIN checks = Defaults
      /\ \A a \in Defaults : /\ checks[a] = <<securityDefaults(a), defaultsGap(a)>>
                             /\ Len(checks[a]) = 2
                             /\ DOMAIN a = {"defaults", "policies"} /\ a.defaults \in BOOLEAN
  BY DEF Defaults
<1>2. Quiet(refused)
  BY QuietRows
<1>3. \A a \in Defaults :
        /\ securityDefaults(a) = Row("ENTRA-SECDEFAULT-001",
             IF a.defaults \/ enabledPolicies(a) # {} THEN "Pass" ELSE "Fail")
        /\ \/ defaultsGap(a) = NoRows
           \/ \E s \in {"Pass", "Review", "Fail"} :
                defaultsGap(a) = Row("ENTRA-SECDEFAULT-002", s)
                  /\ (s = "Pass" => enabledPolicies(a) # {})
  <2>1. ASSUME NEW a \in Defaults, enabledPolicies(a) = {} PROVE Cardinality(coverageAreas(a)) # 4
    <3>1. coverageAreas(a) = {}
      BY <2>1 DEF coverageAreas
    <3>2. QED
      BY <3>1, FS_EmptySet
  <2>2. QED
    BY <2>1 DEF securityDefaults, PassIf, defaultsGap
<1> HIDE DEF checks
<1>4. AreRated(checks, refused)
  <2>1. \A a \in Defaults : Rated(securityDefaults(a)) /\ Rated(defaultsGap(a))
    BY <1>3, RatedRow, RatedRows DEF Worth
  <2>2. Rated(refused)
    BY RatedRow DEF Worth
  <2>3. QED
    BY <1>1, <2>1, <2>2 DEF AreRated
<1>5. CountEnforced(checks, refused)
  <2>1. ASSUME NEW a \in DOMAIN checks, NEW b \in DOMAIN checks,
               b = [a EXCEPT !.policies = b.policies], enabledPolicies(b) = enabledPolicies(a)
        PROVE  securityDefaults(b) = securityDefaults(a) /\ defaultsGap(b) = defaultsGap(a)
    <3>1. b.defaults = a.defaults
      BY <1>1, <2>1
    <3>2. coverageAreas(b) = coverageAreas(a)
      BY <2>1 DEF coverageAreas
    <3>3. QED
      BY <2>1, <3>1, <3>2 DEF securityDefaults, defaultsGap
  <2>2. ASSUME NEW a \in DOMAIN checks, NEW b \in DOMAIN checks, NEW k \in 1..Len(checks[a]),
               b = [a EXCEPT !.policies = b.policies], enabledPolicies(b) = enabledPolicies(a)
        PROVE  k \in 1..Len(checks[b]) /\ KeepsPassing(checks[a][k], checks[b][k])
    BY <1>1, <2>1, <2>2, SameKeepsPassing
  <2>3. QED
    BY <1>2, <1>4, <2>2, EnforcedByRows
<1>6. AreNested(checks, refused)
  <2>1. ASSUME NEW a \in DOMAIN checks, NEW k \in 1..Len(checks[a]), NEW l \in 1..Len(checks[a])
        PROVE  Demanded(checks[a][k], checks[a][l])
    <3>1. k \in {1, 2} /\ l \in {1, 2}
      <4>1. Len(checks[a]) = 2
        BY <1>1, <2>1
      <4>2. k \in 1..2 /\ l \in 1..2
        BY <2>1, <4>1
      <4>3. QED
        BY <4>2
    <3>2. \A demand \in Demands :
            /\ demand[1] # "ENTRA-SECDEFAULT-001"
            /\ demand[1] = "ENTRA-SECDEFAULT-002" => demand[2] = "ENTRA-SECDEFAULT-001"
      BY DEF Demands
    <3>3. CASE k = 1
      BY <1>1, <1>3, <3>2, <3>3 DEF Demanded, Row
    <3>4. CASE k = 2 /\ l = 2
      <4>1. \A other \in defaultsGap(a) : other[1] = "ENTRA-SECDEFAULT-002"
        BY <1>1, <1>3 DEF Row, NoRows
      <4>2. QED
        BY <1>1, <3>2, <3>4, <4>1 DEF Demanded
    <3>5. CASE k = 2 /\ l = 1
      <4>1. \A row \in defaultsGap(a) : row[2] = "Pass" => enabledPolicies(a) # {}
        BY <1>1, <1>3 DEF Row, NoRows
      <4>2. enabledPolicies(a) # {} => securityDefaults(a) = Row("ENTRA-SECDEFAULT-001", "Pass")
        BY <1>1, <1>3
      <4>3. QED
        BY <1>1, <3>5, <4>1, <4>2 DEF Demanded, Row
    <3>6. QED
      BY <3>1, <3>3, <3>4, <3>5
  <2>2. QED
    BY <1>2, <1>4, <2>1, NestedByRows
<1> DEFINE scales == [defaults |-> YesIsSafe]
<1>7. Rises(scales, checks)
  <2>1. DOMAIN scales = {"defaults"} /\ scales["defaults"] = YesIsSafe
    OBVIOUS
  <2> HIDE DEF scales
  <2>2. ASSUME NEW a \in Defaults, NEW b \in Defaults, Stricter(scales, a, b)
        PROVE  NoBetter(securityDefaults(a), securityDefaults(b))
               /\ NoBetter(defaultsGap(a), defaultsGap(b))
    <3>1. a.policies = b.policies
      BY <1>1, <2>1, <2>2, OffScale
    <3>2. a.defaults => b.defaults
      BY <1>1, <2>1, <2>2, YesRises
    <3>3. enabledPolicies(a) = enabledPolicies(b) /\ coverageAreas(a) = coverageAreas(b)
      BY <3>1 DEF enabledPolicies, coverageAreas
    <3>4. NoBetter(securityDefaults(a), securityDefaults(b))
      BY <1>3, <3>2, <3>3, Rise
    <3>5. NoBetter(defaultsGap(a), defaultsGap(b))
      <4>1. defaultsGap(a) = defaultsGap(b) \/ defaultsGap(b) = NoRows
        BY <3>2, <3>3 DEF defaultsGap
      <4>2. QED
        BY <4>1, SameRises, NoneRises
    <3>6. QED
      BY <3>4, <3>5
  <2>3. QED
    BY <1>1, <2>2 DEF Rises
<1>8. Stopless(checks)
  <2>1. \A a \in Defaults : \A row \in securityDefaults(a) \cup defaultsGap(a) : row[2] # "stops"
    BY <1>3 DEF Row, NoRows
  <2>2. \E row \in Stops : row[2] = "stops"
    BY DEF Stops
  <2>3. ASSUME NEW a \in Defaults, NEW k \in 1..Len(checks[a]) PROVE ~(Stops \subseteq checks[a][k])
    <3>1. Len(checks[a]) = 2
      BY <1>1
    <3>2. k \in {1, 2}
      BY <3>1
    <3>3. checks[a][k] \subseteq securityDefaults(a) \cup defaultsGap(a)
      BY <1>1, <3>2
    <3>4. QED
      BY <2>1, <2>2, <3>3
  <2>4. QED
    BY <1>1, <2>3 DEF Stopless
<1>9. AreMonotone(scales, checks, refused)
  BY <1>1, <1>4, <1>7, <1>8, RisingIsMonotone DEF Appless
<1>10. Lawful(Ordered(scales, Request(checks, refused, refused)))
  BY <1>2, <1>4, <1>5, <1>6, <1>9, RequestByParts
<1>11. QED
  BY <1>10 DEF runPasswordAuthChecks, checks

LEMMA RunPasswordAuthChecksIsLawful == AllLawful(runPasswordAuthChecks)
<1>1. Lawful(runPasswordAuthChecks[1])
  BY DefaultsRequestIsLawful
<1>2. Lawful(runPasswordAuthChecks[2])
  <2> DEFINE checks == [a \in Methods |-> <<registrationCampaign(a), weakMethods(a)>>]
  <2>0. \A a \in Methods : DOMAIN a = {"campaign", "listed", "sms", "voice", "email",
                                        "authenticator", "systemPreferred"}
    BY DEF Methods
  <2>1. PlainChecks(checks)
    <3>1. \A a \in Methods : Plain(registrationCampaign(a)) /\ Plain(weakMethods(a))
      BY PlainRow, PlainRows, DemandingIds DEF registrationCampaign, weakMethods, PassIf, PassElse
    <3>2. QED
      BY <2>0, <3>1 DEF PlainChecks
  <2>2. Rises(MethodScales, checks)
    <3>1. ASSUME NEW a \in Methods, NEW b \in Methods, Stricter(MethodScales, a, b)
          PROVE  NoBetter(registrationCampaign(a), registrationCampaign(b))
                 /\ NoBetter(weakMethods(a), weakMethods(b))
      <4>1. /\ a.campaign => b.campaign
            /\ a.sms = "disabled" => b.sms = "disabled"
            /\ a.voice = "disabled" => b.voice = "disabled"
            /\ a.email = "disabled" => b.email = "disabled"
        <5>1. /\ MethodScales.campaign = YesIsSafe
              /\ MethodScales.sms = <<"notFound", "enabled", "disabled">>
              /\ MethodScales.voice = <<"enabled", "disabled">>
              /\ MethodScales.email = <<"enabled", "disabled">>
          BY DEF MethodScales
        <5>2. a.campaign => b.campaign
          BY <2>0, <3>1, <5>1, YesRises
        <5>3. a.sms = "disabled" => b.sms = "disabled"
          BY <2>0, <3>1, <5>1, ThreeSteps
        <5>4. QED
          BY <2>0, <3>1, <5>1, <5>2, <5>3, TwoSteps
      <4>2. a.listed = b.listed
        <5>1. "listed" \notin DOMAIN MethodScales
          BY DEF MethodScales
        <5>2. QED
          BY <2>0, <3>1, <5>1, OffScale
      <4>3. NoBetter(registrationCampaign(a), registrationCampaign(b))
        BY <4>1, Rise DEF registrationCampaign, PassElse
      <4>4. NoBetter(weakMethods(a), weakMethods(b))
        <5>1. /\ Below(PassIf("ENTRA-AUTHMETHOD-001", a.sms = "disabled"),
                       PassIf("ENTRA-AUTHMETHOD-001", b.sms = "disabled"))
              /\ Below(PassIf("ENTRA-AUTHMETHOD-001", a.voice = "disabled"),
                       PassIf("ENTRA-AUTHMETHOD-001", b.voice = "disabled"))
              /\ Below(PassIf("ENTRA-AUTHMETHOD-002", a.email = "disabled"),
                       PassIf("ENTRA-AUTHMETHOD-002", b.email = "disabled"))
          BY <4>1, BelowRow DEF PassIf
        <5>2. CASE a.listed
          BY <4>2, <5>1, <5>2, BelowUnion, BelowRises DEF weakMethods
        <5>3. CASE ~a.listed
          BY <4>2, <5>3, NoneRises DEF weakMethods
        <5>4. QED
          BY <5>2, <5>3
      <4>5. QED
        BY <4>3, <4>4
    <3>2. QED
      BY <3>1 DEF Rises
  <2>3. QED
    BY <2>1, <2>2, QuietRows, OrderedRequest, StillLawful DEF runPasswordAuthChecks
<1>3. Lawful(runPasswordAuthChecks[3])
  BY QuietRows, StaticIsLawful DEF runPasswordAuthChecks
<1>4. Lawful(runPasswordAuthChecks[4])
  <2> DEFINE checks == [a \in DirectorySettings |->
                         <<bannedEnforced(a), bannedList(a), lockoutThreshold(a)>>]
  <2>1. \A a \in DirectorySettings : DOMAIN a = {"onPremises", "enforced", "banned", "lockout"}
    BY AnswersAreOnScales DEF DirectorySettings, SettingScales, Unconfigured
  <2>2. PlainChecks(checks)
    <3>1. \A a \in DirectorySettings :
            Plain(bannedEnforced(a)) /\ Plain(bannedList(a)) /\ Plain(lockoutThreshold(a))
      BY PlainRow, PlainRows, DemandingIds
      DEF bannedEnforced, bannedList, lockoutThreshold, PassElse
    <3>2. QED
      BY <2>1, <3>1 DEF PlainChecks
  <2>3. Rises(SettingScales, checks)
    <3>1. ASSUME NEW a \in DirectorySettings, NEW b \in DirectorySettings,
                 Stricter(SettingScales, a, b)
          PROVE  /\ NoBetter(bannedEnforced(a), bannedEnforced(b))
                 /\ NoBetter(bannedList(a), bannedList(b))
                 /\ NoBetter(lockoutThreshold(a), lockoutThreshold(b))
      <4>1. a.enforced => b.enforced
        BY <2>1, <3>1, YesRises DEF SettingScales
      <4>2. a.banned # "unset" => b.banned # "unset"
        BY <2>1, <3>1, ThreeSteps DEF SettingScales
      <4>3. \/ a.lockout = b.lockout
            \/ a.lockout = NaN /\ b.lockout \in {11, 10, 0}
            \/ a.lockout = 11 /\ b.lockout \in {10, 0}
            \/ a.lockout = 10 /\ b.lockout = 0
        BY <2>1, <3>1, FourSteps DEF SettingScales
      <4>4. a.onPremises = b.onPremises \/ (a.onPremises = "off" /\ b.onPremises = "on")
        BY <2>1, <3>1, TwoSteps DEF SettingScales
      <4>5. configured(a) <=> configured(b)
        BY <4>4 DEF configured, Unread
      <4>6. NoBetter(bannedEnforced(a), bannedEnforced(b))
        BY <4>1, <4>5, Rise, NoneRises DEF bannedEnforced, PassElse
      <4>7. NoBetter(bannedList(a), bannedList(b))
        BY <4>2, <4>5, Rise, NoneRises DEF bannedList, PassElse
      <4>8. NoBetter(lockoutThreshold(a), lockoutThreshold(b))
        BY <4>3, <4>5, Rise, NoneRises, SameRises, StopsRise DEF lockoutThreshold, PassElse, NaN
      <4>9. QED
        BY <4>6, <4>7, <4>8
    <3>2. QED
      BY <3>1 DEF Rises
  <2>4. QED
    BY <2>2, <2>3, QuietRows, OrderedRequest, StillLawful DEF runPasswordAuthChecks
<1>5. Lawful(runPasswordAuthChecks[5])
  <2> DEFINE scales == [domains |-> ExpirationScale]
             of(d)  == IF d = "unverified" THEN NoRows
                       ELSE PassIf("ENTRA-PASSWORD-001", d = "neverExpires")
             answers == [domains : SUBSET {"unverified", "expires", "neverExpires"}]
             checks == [a \in answers |-> <<passwordExpiration(a)>>]
  <2>1. \A d : Plain(of(d))
    BY PlainRow, PlainRows, DemandingIds DEF PassIf
  <2>2. \A a : Plain(passwordExpiration(a))
    BY <2>1 DEF Plain, passwordExpiration
  <2>3. ASSUME NEW a \in answers, NEW b \in answers, Stricter(scales, a, b)
        PROVE  NoBetter(passwordExpiration(a), passwordExpiration(b))
    <3>1. a.domains = b.domains \/ "expires" \in a.domains
      <4>1. "domains" \in DOMAIN a /\ scales["domains"] =
              <<{"expires"}, {"expires", "neverExpires"}, {"neverExpires"}>>
        BY DEF ExpirationScale
      <4>2. \/ a.domains = b.domains
            \/ a.domains = {"expires"} \/ a.domains = {"expires", "neverExpires"}
        BY <2>3, <4>1, ThreeSteps
      <4>3. QED
        BY <4>2
    <3>2. CASE a.domains = b.domains
      BY <3>2, SameRises DEF passwordExpiration
    <3>3. CASE "expires" \in a.domains
      <4>1. <<"ENTRA-PASSWORD-001", "Fail">> \in passwordExpiration(a)
        BY <3>3 DEF passwordExpiration, PassIf, Row
      <4>2. \A row \in passwordExpiration(b) :
              row[1] = "ENTRA-PASSWORD-001" /\ row[2] \in {"Pass", "Fail"}
        BY DEF passwordExpiration, PassIf, Row, NoRows
      <4>3. Below(passwordExpiration(a), passwordExpiration(b))
        <5>1. <<"ENTRA-PASSWORD-001", "Fail">> \notin Marks
          BY DEF Marks, Stops, Returns, Leaves, NoId
        <5>2. Worth["Fail"] = 0 /\ Worth["Pass"] = 3
          BY DEF Worth
        <5>3. QED
          BY <4>1, <4>2, <5>1, <5>2 DEF Below
      <4>4. QED
        BY <4>3, BelowRises
    <3>4. QED
      BY <3>1, <3>2, <3>3
  <2>4. Lawful(Ordered(scales, Request(checks, NoRows, NoRows)))
    BY <2>2, <2>3, OrderedIsLawful, QuietRows
  <2>5. QED
    BY <2>4 DEF runPasswordAuthChecks
<1>6. Lawful(runPasswordAuthChecks[6])
  <2> DEFINE scales == [authenticator |-> AuthenticatorScale]
             answers == [authenticator : {Unread, "missing", "bare", "weak", "strong"}]
             checks == [a \in answers |-> <<authenticatorFatigue(a)>>]
  <2>1. \A a \in answers : Plain(authenticatorFatigue(a))
    BY PlainRow, DemandingIds, PlainRows DEF authenticatorFatigue
  <2>2. ASSUME NEW a \in answers, NEW b \in answers, Stricter(scales, a, b)
        PROVE  NoBetter(authenticatorFatigue(a), authenticatorFatigue(b))
    <3>1. "authenticator" \in DOMAIN a /\ scales["authenticator"] = <<"weak", "strong">>
      BY DEF AuthenticatorScale
    <3>2. a.authenticator = b.authenticator \/ (a.authenticator = "weak" /\ b.authenticator = "strong")
      BY <2>2, <3>1, TwoSteps
    <3>3. QED
      BY <3>2, Rise, SameRises DEF authenticatorFatigue, Unread
  <2>3. Lawful(Ordered(scales, Request(checks, NoRows, NoRows)))
    BY <2>1, <2>2, OrderedIsLawful, QuietRows
  <2>4. QED
    BY <2>3, StillLawful DEF Judging, runPasswordAuthChecks
<1>7. Lawful(runPasswordAuthChecks[7])
  <2> DEFINE scales == [systemPreferred |-> SystemPreferredScale]
             answers == [systemPreferred : {Unread, "unset", "on", "off"}]
             checks == [a \in answers |-> <<systemPreferred(a)>>]
  <2>1. \A a \in answers : Plain(systemPreferred(a))
    BY PlainRow, DemandingIds, PlainRows DEF systemPreferred, PassIf
  <2>2. ASSUME NEW a \in answers, NEW b \in answers, Stricter(scales, a, b)
        PROVE  NoBetter(systemPreferred(a), systemPreferred(b))
    <3>1. "systemPreferred" \in DOMAIN a /\ scales["systemPreferred"] = <<"off", "on">>
      BY DEF SystemPreferredScale
    <3>2. \/ a.systemPreferred = b.systemPreferred
          \/ a.systemPreferred = "off" /\ b.systemPreferred = "on"
      BY <2>2, <3>1, TwoSteps
    <3>3. QED
      BY <3>2, Rise, SameRises DEF systemPreferred, PassIf, Unread
  <2>3. Lawful(Ordered(scales, Request(checks, NoRows, NoRows)))
    BY <2>1, <2>2, OrderedIsLawful, QuietRows
  <2>4. QED
    BY <2>3, StillLawful DEF Judging, runPasswordAuthChecks
<1>8. Lawful(runPasswordAuthChecks[8])
  <2> DEFINE scales == [onPremises |-> <<"off", "on">>]
             answers == [orgSettings : {Unread, "cloud", "synced"}, onPremises : {Unread, "off", "on"}]
             checks == [a \in answers |-> <<onPremisesProtection(a)>>]
  <2>1. \A a \in answers : Plain(onPremisesProtection(a))
    BY PlainRow, DemandingIds DEF onPremisesProtection
  <2>2. ASSUME NEW a \in answers, NEW b \in answers, Stricter(scales, a, b)
        PROVE  NoBetter(onPremisesProtection(a), onPremisesProtection(b))
    <3>1. /\ {"onPremises", "orgSettings"} \subseteq DOMAIN a
          /\ scales["onPremises"] = <<"off", "on">> /\ DOMAIN scales = {"onPremises"}
      OBVIOUS
    <3> HIDE DEF scales
    <3>2. a.onPremises = b.onPremises \/ (a.onPremises = "off" /\ b.onPremises = "on")
      BY <2>2, <3>1, TwoSteps
    <3>3. a.orgSettings = b.orgSettings
      BY <2>2, <3>1, OffScale
    <3>4. QED
      BY <3>2, <3>3, Rise, SameRises DEF onPremisesProtection
  <2>3. Lawful(Ordered(scales, Request(checks, NoRows, NoRows)))
    BY <2>1, <2>2, OrderedIsLawful, QuietRows
  <2>4. QED
    BY <2>3, StillLawful DEF Judging, runPasswordAuthChecks
<1>9. Lawful(runPasswordAuthChecks[9])
  <2> DEFINE scales == [sync |-> SyncScale]
             answers == [sync : DOMAIN HashSync]
             checks == [a \in answers |-> <<passwordHashSync(a)>>]
  <2>1. \A a \in answers : Plain(passwordHashSync(a))
    BY PlainRow, DemandingIds DEF passwordHashSync, HashSync
  <2>2. ASSUME NEW a \in answers, NEW b \in answers, Stricter(scales, a, b)
        PROVE  NoBetter(passwordHashSync(a), passwordHashSync(b))
    <3>1. /\ "sync" \in DOMAIN a
          /\ scales["sync"] = <<"syncedWithoutHashes", "syncedWithHashes">>
      BY DEF SyncScale
    <3>2. \/ a.sync = b.sync
          \/ a.sync = "syncedWithoutHashes" /\ b.sync = "syncedWithHashes"
      BY <2>2, <3>1, TwoSteps
    <3>3. QED
      BY <3>2, Rise, SameRises DEF passwordHashSync, HashSync
  <2>3. Lawful(Ordered(scales, Request(checks, NoRows, NoRows)))
    BY <2>1, <2>2, OrderedIsLawful, QuietRows
  <2>4. QED
    BY <2>3 DEF runPasswordAuthChecks
<1>10. Len(runPasswordAuthChecks) = 9
  BY DEF runPasswordAuthChecks
<1>11. QED
  BY <1>1, <1>2, <1>3, <1>4, <1>5, <1>6, <1>7, <1>8, <1>9, <1>10 DEF AllLawful

LEMMA MfaReportIsLawful == AllLawful(mfaReport)
<1>1. Lawful(mfaReport[1])
  <2>1. \A a \in [users : 0..1] : Plain(users(a))
    BY PlainRow, DemandingIds, PlainRows DEF users
  <2>2. QED
    BY <2>1, RequestIsLawful, QuietRows, StillLawful DEF mfaReport
<1>2. Len(mfaReport) = 1
  BY DEF mfaReport
<1>3. QED
  BY <1>1, <1>2 DEF AllLawful

LEMMA PasswordPolicyReportIsLawful == AllLawful(passwordPolicyReport)
<1>1. Lawful(passwordPolicyReport[1])
  <2>1. PlainChecks([a \in [domains : {"none", "some"}] |-> <<>>])
    BY DEF PlainChecks
  <2>2. QED
    BY <2>1, QuietRows, PlainRequest, StillLawful DEF passwordPolicyReport
<1>2. Lawful(passwordPolicyReport[2])
  <2>1. \A a \in [domains : {"none", "some"}] : Plain(domainsListed(a))
    BY PlainRow, DemandingIds, PlainRows DEF domainsListed
  <2>2. QED
    BY <2>1, RequestIsLawful, QuietRows, StillLawful DEF passwordPolicyReport
<1>3. Len(passwordPolicyReport) = 2
  BY DEF passwordPolicyReport
<1>4. QED
  BY <1>1, <1>2, <1>3 DEF AllLawful

LEMMA EntraAuthMethodAdditionalIsLawful == AllLawful(entraAuthMethodAdditional)
<1> DEFINE checks == [a \in Additional |->
                       <<migration(a), suspicious(a), accessPass(a), singleUse(a)>>]
<1>1. PlainChecks(checks)
  <2>1. \A a \in Additional :
          Plain(migration(a)) /\ Plain(suspicious(a))
          /\ Plain(accessPass(a)) /\ Plain(singleUse(a))
    BY PlainRow, DemandingIds DEF migration, suspicious, accessPass, singleUse, PassIf, PassElse
  <2>2. QED
    BY <2>1 DEF PlainChecks, Additional
<1>2. Rises(AdditionalScales, checks)
  <2>1. ASSUME NEW a \in Additional, NEW b \in Additional, Stricter(AdditionalScales, a, b)
        PROVE  /\ NoBetter(migration(a), migration(b))
               /\ NoBetter(suspicious(a), suspicious(b))
               /\ NoBetter(accessPass(a), accessPass(b))
               /\ NoBetter(singleUse(a), singleUse(b))
    <3>1. /\ a.migrated => b.migrated
          /\ a.suspicious => b.suspicious
          /\ a.pass = b.pass \/ (a.pass = "off" /\ b.pass = "on")
          /\ a.once = b.once \/ (a.once = "often" /\ b.once = "once")
      BY <2>1, YesRises, TwoSteps DEF Additional, AdditionalScales
    <3>2. QED
      BY <3>1, Rise DEF migration, suspicious, accessPass, singleUse, PassIf, PassElse
  <2>2. QED
    BY <2>1 DEF Rises
<1>3. Len(entraAuthMethodAdditional) = 1 /\ Lawful(entraAuthMethodAdditional[1])
  BY <1>1, <1>2, QuietRows, OrderedRequest DEF entraAuthMethodAdditional
<1>4. QED
  BY <1>3 DEF AllLawful

-----------------------------------------------------------------------------
(* conditional-access-checks and entra-breakglass-config *)

LEMMA ConditionalAccessChecksIsLawful == AllLawful(conditionalAccessChecks)
<1>1. Lawful(conditionalAccessChecks[1])
  BY PolicyCountIsLawful
<1>2. Lawful(conditionalAccessChecks[2])
  <2> DEFINE checks == [a \in Answers(DeviceScales) |->
                         <<deviceJoin(a), deviceQuota(a), deviceAdmins(a)>>]
  <2>1. \A a \in Answers(DeviceScales) : DOMAIN a = {"join", "quota", "adminsJoin"}
    BY AnswersAreOnScales DEF DeviceScales
  <2>2. PlainChecks(checks)
    <3>1. \A a \in Answers(DeviceScales) :
            Plain(deviceJoin(a)) /\ Plain(deviceQuota(a)) /\ Plain(deviceAdmins(a))
      BY PlainRow, PlainRows, DemandingIds DEF deviceJoin, deviceQuota, deviceAdmins, PassIf
    <3>2. QED
      BY <2>1, <3>1 DEF PlainChecks
  <2>3. Rises(DeviceScales, checks)
    <3>1. ASSUME NEW a \in Answers(DeviceScales), NEW b \in Answers(DeviceScales),
                 Stricter(DeviceScales, a, b)
          PROVE  /\ NoBetter(deviceJoin(a), deviceJoin(b))
                 /\ NoBetter(deviceQuota(a), deviceQuota(b))
                 /\ NoBetter(deviceAdmins(a), deviceAdmins(b))
      <4>1. /\ a.join = b.join \/ (a.join = "all" /\ b.join = "restricted")
            /\ b.adminsJoin => a.adminsJoin
        BY <2>1, <3>1, TwoSteps, NoRises DEF DeviceScales
      <4>2. \/ a.quota = b.quota
            \/ a.quota = NaN /\ b.quota \in {16, 15, 0}
            \/ a.quota = 16 /\ b.quota \in {15, 0}
            \/ a.quota = 15 /\ b.quota = 0
        BY <2>1, <3>1, FourSteps DEF DeviceScales
      <4>3. NoBetter(deviceJoin(a), deviceJoin(b)) /\ NoBetter(deviceAdmins(a), deviceAdmins(b))
        BY <4>1, Rise DEF deviceJoin, deviceAdmins, PassIf
      <4>4. NoBetter(deviceQuota(a), deviceQuota(b))
        BY <4>2, Rise, StopsRise DEF deviceQuota, PassIf, NaN
      <4>5. QED
        BY <4>3, <4>4
    <3>2. QED
      BY <3>1 DEF Rises
  <2>4. QED
    BY <2>2, <2>3, QuietRows, OrderedRequest DEF conditionalAccessChecks
<1>3. Lawful(conditionalAccessChecks[3])
  <2>1. \A a \in Answers(ExtendedScales) : DOMAIN a = {"localAdmins", "laps"}
    BY AnswersAreOnScales DEF ExtendedScales
  <2>2. \A a : Plain(deviceExtended(a))
    BY PlainRow, PlainRows, DemandingIds DEF deviceExtended, PassIf, PassElse
  <2>3. ASSUME NEW a \in Answers(ExtendedScales), NEW b \in Answers(ExtendedScales),
               Stricter(ExtendedScales, a, b)
        PROVE  NoBetter(deviceExtended(a), deviceExtended(b))
    <3>1. a.laps => b.laps
      BY <2>1, <2>3, YesRises DEF ExtendedScales
    <3>2. \/ a.localAdmins = b.localAdmins
          \/ a.localAdmins = 1 /\ b.localAdmins \in {0, NaN}
          \/ a.localAdmins = 0 /\ b.localAdmins = NaN
      BY <2>1, <2>3, ThreeSteps DEF ExtendedScales
    <3>3. /\ Below(PassElse("ENTRA-DEVICE-004", a.localAdmins <= 0, "Review"),
                   PassElse("ENTRA-DEVICE-004", b.localAdmins <= 0, "Review"))
          /\ Below(PassIf("ENTRA-DEVICE-005", a.laps), PassIf("ENTRA-DEVICE-005", b.laps))
          /\ Below(Row("ENTRA-DEVICE-006", "Review"), Row("ENTRA-DEVICE-006", "Review"))
      BY <3>1, <3>2, BelowRow DEF PassIf, PassElse, NaN
    <3>4. QED
      BY <3>3, BelowUnion, BelowRises DEF deviceExtended
  <2>4. QED
    BY <2>1, <2>2, <2>3, QuietRows, OrderedIsLawful DEF conditionalAccessChecks
<1>4. Len(conditionalAccessChecks) = 3
  BY DEF conditionalAccessChecks
<1>5. QED
  BY <1>1, <1>2, <1>3, <1>4 DEF AllLawful

LEMMA EntraBreakglassConfigIsLawful == AllLawful(entraBreakglassConfig)
<1> DEFINE checks == [a \in Answers(BreakglassScales) |-> <<breakglass(a)>>]
<1>1. \A a \in Answers(BreakglassScales) :
        DOMAIN a = {"activated", "named", "excluded", "policiesRead"}
  BY AnswersAreOnScales DEF BreakglassScales
<1>2. PlainChecks(checks)
  <2>1. \A a : Plain(breakglass(a))
    BY PlainRow, DemandingIds DEF breakglass
  <2>2. QED
    BY <1>1, <2>1 DEF PlainChecks
<1>3. ASSUME NEW a \in Answers(BreakglassScales), NEW b \in Answers(BreakglassScales),
             Stricter(BreakglassScales, a, b)
      PROVE  NoBetter(breakglass(a), breakglass(b))
  <2>1. (a.activated => b.activated) /\ (a.policiesRead => b.policiesRead)
    BY <1>1, <1>3, YesRises DEF BreakglassScales
  <2>2. /\ a.named = b.named \/ (a.named = 0 /\ b.named \in {1, 2})
             \/ (a.named = 1 /\ b.named = 2)
        /\ \/ a.excluded = b.excluded
           \/ a.excluded = 0 /\ b.excluded \in {1, 2}
           \/ a.excluded = 1 /\ b.excluded = 2
    BY <1>1, <1>3, ThreeSteps DEF BreakglassScales
  <2>3. a.named \in 0..2 /\ a.excluded \in 0..2
    <3>1. BreakglassScales.named = <<0, 1, 2>> /\ BreakglassScales.excluded = <<0, 1, 2>>
      BY DEF BreakglassScales
    <3>2. /\ \E i \in Int : 1 <= i /\ i <= Len(BreakglassScales.named)
                        /\ a.named = BreakglassScales.named[i]
          /\ \E i \in Int : 1 <= i /\ i <= Len(BreakglassScales.excluded)
                        /\ a.excluded = BreakglassScales.excluded[i]
      <4>1. \A f \in DOMAIN a : \E i \in Int :
              1 <= i /\ i <= Len(BreakglassScales[f]) /\ a[f] = BreakglassScales[f][i]
        BY AnswersAreOnScales
      <4>2. "named" \in DOMAIN a /\ "excluded" \in DOMAIN a
        BY <1>1
      <4>3. QED
        BY <4>1, <4>2
    <3>3. QED
      BY <3>1, <3>2
  <2>4. QED
    BY <2>1, <2>2, <2>3, Rise DEF breakglass
<1>4. Rises(BreakglassScales, checks) /\ Stopless(checks)
  BY <1>3 DEF Rises, Stopless, breakglass, Row, Stops
<1> DEFINE review == Row("ENTRA-BREAKGLASS-001", "Review")
           r      == Ordered(BreakglassScales, Request(checks, review, review))
<1>5. Lawful(r)
  BY <1>2, <1>4, QuietRows, OrderedRequest
<1>6. JudgesTold(BreakglassTold, checks)
  <2>1. ASSUME NEW a \in Answers(BreakglassScales) PROVE unreadOf(a) = "policies"
    BY <1>1, <2>1 DEF unreadOf
  <2>2. "ENTRA-BREAKGLASS-001" \in JudgedUnread["policies"]
    BY DEF JudgedUnread
  <2>3. ASSUME NEW a \in Answers(BreakglassScales), NEW row \in breakglass(a)
        PROVE  row[1] = "ENTRA-BREAKGLASS-001"
    BY <2>3 DEF breakglass, Row
  <2>4. ASSUME NEW a \in DOMAIN checks, NEW k \in 1..Len(checks[a]), NEW row \in checks[a][k]
        PROVE  row[1] \in JudgedUnread[unreadOf(a)]
    BY <2>1, <2>2, <2>3, <2>4
  <2>5. QED
    BY <2>4 DEF JudgesTold, Judged
<1>7. r.checks = checks
  BY DEF Ordered, Request
<1>8. Lawful(Untold(BreakglassTold, r))
  BY <1>5, <1>6, <1>7, TellingIsLawful
<1>9. entraBreakglassConfig = <<Untold(BreakglassTold, r)>>
  BY DEF entraBreakglassConfig
<1>10. QED
  BY <1>8, <1>9, OneRequestIsLawful

-----------------------------------------------------------------------------
(* AdminRoles *)

LEMMA RunAdminRoleChecksIsLawful == AllLawful(runAdminRoleChecks)
<1>1. Lawful(runAdminRoleChecks[1])
  <2> DEFINE scales == [operational |-> <<5, 4, 3, 2>>]
             checks == [a \in GlobalAdmins |-> <<globalAdminCount(a)>>]
  <2>1. \A a \in GlobalAdmins : DOMAIN a = {"activated", "operational"} /\ a.operational \in 0..5
    BY DEF GlobalAdmins
  <2>2. \A a \in GlobalAdmins : Plain(globalAdminCount(a))
    BY PlainRow, DemandingIds DEF globalAdminCount
  <2>3. ASSUME NEW a \in GlobalAdmins, NEW b \in GlobalAdmins, Stricter(scales, a, b)
        PROVE  NoBetter(globalAdminCount(a), globalAdminCount(b))
    <3>1. DOMAIN scales = {"operational"} /\ scales["operational"] = <<5, 4, 3, 2>>
      OBVIOUS
    <3> HIDE DEF scales
    <3>2. a.activated = b.activated
      BY <2>1, <2>3, <3>1, OffScale
    <3>3. \/ a.operational = b.operational
          \/ a.operational = 5 /\ b.operational \in {4, 3, 2}
          \/ a.operational = 4 /\ b.operational \in {3, 2}
          \/ a.operational = 3 /\ b.operational = 2
      BY <2>1, <2>3, <3>1, FourSteps
    <3>4. CASE a.operational = b.operational
      BY <3>2, <3>4, SameRises DEF globalAdminCount
    <3>5. CASE a.operational # b.operational
      <4>1. globalAdminCount(b) = Row("ENTRA-ADMIN-001", IF b.activated THEN "Pass" ELSE "Warning")
        BY <3>3, <3>5 DEF globalAdminCount
      <4>2. \/ globalAdminCount(a) = Row("ENTRA-ADMIN-001", "Warning")
            \/ a.activated /\ globalAdminCount(a) = Row("ENTRA-ADMIN-001", "Pass")
        BY <3>3, <3>5 DEF globalAdminCount
      <4>3. QED
        BY <3>2, <4>1, <4>2, Rise
    <3>6. QED
      BY <3>4, <3>5
  <2>4. \A a \in GlobalAdmins : "policies" \notin DOMAIN a /\ "principals" \notin DOMAIN a
    BY <2>1
  <2>5. Lawful(Ordered(scales, Request(checks, NoRows, NoRows)))
    BY <2>2, <2>3, <2>4, OrderedIsLawful, QuietRows
  <2>6. QED
    BY <2>5 DEF runAdminRoleChecks
<1>2. Lawful(runAdminRoleChecks[2])
  <2> DEFINE checks == [a \in Pim |-> <<pimManagesRoles(a)>>]
  <2>1. \A a \in Pim :
          /\ DOMAIN a = {"licensed", "answers", "pim", "membersRead", "members", "eligibleRead",
                         "eligible"}
          /\ a.members \in 0..2 /\ a.eligible \in 0..2 /\ a.eligible <= a.members
          /\ {a.licensed, a.membersRead, a.eligibleRead} \subseteq BOOLEAN
    BY DEF Pim
  <2>2. \A a \in Pim : Plain(pimManagesRoles(a))
    BY PlainRow, DemandingIds DEF pimManagesRoles
  <2>3. ASSUME NEW a \in Pim, NEW b \in Pim, Stricter(PimScales, a, b)
        PROVE  NoBetter(pimManagesRoles(a), pimManagesRoles(b))
    <3>1. /\ DOMAIN PimScales = {"members", "eligible"}
          /\ PimScales["members"] = <<2, 1, 0>> /\ PimScales["eligible"] = <<0, 1, 2>>
      BY DEF PimScales
    <3>2. /\ a.licensed = b.licensed /\ a.membersRead = b.membersRead
          /\ a.eligibleRead = b.eligibleRead
      BY <2>1, <2>3, <3>1, OffScale
    <3>3. /\ \/ a.members = b.members
             \/ a.members = 2 /\ b.members \in {1, 0}
             \/ a.members = 1 /\ b.members = 0
          /\ \/ a.eligible = b.eligible
             \/ a.eligible = 0 /\ b.eligible \in {1, 2}
             \/ a.eligible = 1 /\ b.eligible = 2
      BY <2>1, <2>3, <3>1, ThreeSteps
    <3>4. b.members <= a.members /\ a.eligible <= b.eligible
      BY <2>1, <3>3
    <3>5. permanentGAs(a) = 0 => permanentGAs(b) = 0
      BY <2>1, <3>2, <3>4 DEF permanentGAs
    <3>6. CASE ~a.membersRead
      BY <3>2, <3>6, SameRises DEF pimManagesRoles
    <3>7. CASE a.membersRead
      <4>1. /\ pimManagesRoles(a) =
                 Row("ENTRA-PIM-001", IF permanentGAs(a) = 0 THEN "Pass" ELSE "Fail")
            /\ pimManagesRoles(b) =
                 Row("ENTRA-PIM-001", IF permanentGAs(b) = 0 THEN "Pass" ELSE "Fail")
        BY <3>2, <3>7 DEF pimManagesRoles
      <4>2. QED
        BY <3>5, <4>1, Rise
    <3>8. QED
      BY <3>6, <3>7
  <2>4. ASSUME NEW a \in DOMAIN PimTold \cap Pim, NEW row \in pimManagesRoles(a),
               row[2] \in {"Pass", "Fail"}
        PROVE  row[1] \in JudgedUnread[unreadOf(a)]
    <3>1. row[1] = "ENTRA-PIM-001" /\ a.membersRead
      BY <2>4 DEF pimManagesRoles, Row
    <3>2. unreadOf(a) = "eligible"
      BY <2>1, <3>1 DEF unreadOf
    <3>3. "ENTRA-PIM-001" \in JudgedUnread["eligible"]
      BY DEF JudgedUnread
    <3>4. QED
      BY <3>1, <3>2, <3>3
  <2>5. \A a \in Pim : "policies" \notin DOMAIN a /\ "principals" \notin DOMAIN a
    BY <2>1
  <2>6. Lawful(Telling(PimTold, Ordered(PimScales, Request(checks, NoRows, NoRows))))
    BY <2>2, <2>3, <2>4, <2>5, ToldIsLawful, QuietRows
  <2>7. QED
    BY <2>6, StillLawful DEF runAdminRoleChecks
<1>3. Lawful(runAdminRoleChecks[3])
  <2> DEFINE checks == [a \in Reviews |-> <<accessReviews(a)>>]
  <2>1. \A a \in Reviews :
          DOMAIN a = {"pim", "reviews", "guests", "roles", "pimNow"}
    BY DEF Reviews
  <2>2. \A a \in Reviews : Plain(accessReviews(a))
    BY PlainRow, DemandingIds, PlainRows, QuietRows, QuietIsPlain DEF accessReviews, PassIf
  <2>3. ASSUME NEW a \in Reviews, NEW b \in Reviews, Stricter(ReviewScales, a, b)
        PROVE  NoBetter(accessReviews(a), accessReviews(b))
    <3>1. /\ DOMAIN ReviewScales = {"guests", "roles"}
          /\ ReviewScales["guests"] = YesIsSafe /\ ReviewScales["roles"] = YesIsSafe
      BY DEF ReviewScales
    <3>2. a.reviews = b.reviews /\ a.pimNow = b.pimNow
      BY <2>1, <2>3, <3>1, OffScale
    <3>3. (a.guests => b.guests) /\ (a.roles => b.roles)
      BY <2>1, <2>3, <3>1, YesRises
    <3>4. CASE a.reviews = "read"
      <4>1. /\ Below(PassIf("ENTRA-PIM-002", a.guests), PassIf("ENTRA-PIM-002", b.guests))
            /\ Below(PassIf("ENTRA-PIM-003", a.roles), PassIf("ENTRA-PIM-003", b.roles))
        BY <3>3, BelowRow DEF PassIf
      <4>2. QED
        BY <3>2, <3>4, <4>1, BelowUnion, BelowRises DEF accessReviews
    <3>5. CASE a.reviews # "read"
      BY <3>2, <3>5, SameRises DEF accessReviews
    <3>6. QED
      BY <3>4, <3>5
  <2>4. ASSUME NEW a \in DOMAIN ReviewsTold \cap Reviews, NEW row \in accessReviews(a)
        PROVE  row[2] = "Review"
    <3>1. a.reviews # "read"
      BY DEF ReviewsTold
    <3>2. QED
      BY <3>1 DEF accessReviews, AllRows, NoRows
  <2>5. \A a \in Reviews : "policies" \notin DOMAIN a /\ "principals" \notin DOMAIN a
    BY <2>1
  <2>6. Lawful(Telling(ReviewsTold, Ordered(ReviewScales, Request(checks, NoRows, NoRows))))
    BY <2>2, <2>3, <2>4, <2>5, ToldIsLawful, QuietRows
  <2>7. QED
    BY <2>6, StillLawful DEF runAdminRoleChecks
<1> DEFINE approves(id) == [a \in Approvals |-> <<approval(id, a)>>]
<1>4. ASSUME NEW id \in {"ENTRA-PIM-004", "ENTRA-PIM-005"}
      PROVE  Lawful(Telling(ApprovalsTold, Ordered(ApprovalScales,
               Request(approves(id), NoRows, NoRows))))
  <2>1. \A a \in Approvals : DOMAIN a = {"pimNow", "approval"}
    BY DEF Approvals
  <2>2. \A a \in Approvals : Plain(approval(id, a))
    BY <1>4, PlainRow, DemandingIds DEF approval
  <2>3. ASSUME NEW a \in Approvals, NEW b \in Approvals, Stricter(ApprovalScales, a, b)
        PROVE  NoBetter(approval(id, a), approval(id, b))
    <3>1. /\ DOMAIN ApprovalScales = {"approval"}
          /\ ApprovalScales["approval"] = <<"bare", "waived", "required">>
      BY DEF ApprovalScales
    <3>2. a.pimNow = b.pimNow
      BY <2>1, <2>3, <3>1, OffScale
    <3>3. \/ a.approval = b.approval
          \/ a.approval = "bare" /\ b.approval \in {"waived", "required"}
          \/ a.approval = "waived" /\ b.approval = "required"
      BY <2>1, <2>3, <3>1, ThreeSteps
    <3>4. QED
      BY <3>2, <3>3, Rise, SameRises DEF approval
  <2>4. ASSUME NEW a \in DOMAIN ApprovalsTold \cap Approvals, NEW row \in approval(id, a)
        PROVE  row[2] = "Review"
    BY <2>4 DEF ApprovalsTold, approval, Row
  <2>5. \A a \in Approvals : "policies" \notin DOMAIN a /\ "principals" \notin DOMAIN a
    BY <2>1
  <2>6. QED
    BY <2>2, <2>3, <2>4, <2>5, ToldIsLawful, QuietRows
<1>5. Lawful(runAdminRoleChecks[4]) /\ Lawful(runAdminRoleChecks[5])
  BY <1>4, StillLawful DEF runAdminRoleChecks, globalAdminApproval, roleAdminApproval
<1>6. Lawful(runAdminRoleChecks[6])
  <2>1. \A a \in [synced : BOOLEAN] : Plain(cloudOnlyAdmins(a))
    BY PlainRow, DemandingIds DEF cloudOnlyAdmins, PassIf
  <2>2. \A a, b \in [synced : BOOLEAN] :
          Stricter([synced |-> NoIsSafe], a, b) =>
            NoBetter(cloudOnlyAdmins(a), cloudOnlyAdmins(b))
    BY NoRises, Rise DEF cloudOnlyAdmins, PassIf
  <2>3. QED
    BY <2>1, <2>2, OrderedIsLawful, QuietRows DEF runAdminRoleChecks
<1>7. Lawful(runAdminRoleChecks[7])
  <2>1. \A a \in [licensed : BOOLEAN] : Plain(unlicensedAdmins(a))
    BY PlainRow, DemandingIds DEF unlicensedAdmins, PassElse
  <2>2. \A a, b \in [licensed : BOOLEAN] :
          Stricter([licensed |-> NoIsSafe], a, b) =>
            NoBetter(unlicensedAdmins(a), unlicensedAdmins(b))
    BY NoRises, Rise DEF unlicensedAdmins, PassElse
  <2>3. QED
    BY <2>1, <2>2, OrderedIsLawful, QuietRows DEF runAdminRoleChecks
<1>8. Lawful(runAdminRoleChecks[8])
  <2> DEFINE scales == [restricted |-> <<"no", "yes">>]
             answers == [restricted : {Unread, "unset", "no", "yes"}]
             checks == [a \in answers |-> <<restrictedCenter(a)>>]
  <2>1. \A a \in answers : Plain(restrictedCenter(a))
    BY PlainRow, DemandingIds DEF restrictedCenter
  <2>2. ASSUME NEW a \in answers, NEW b \in answers, Stricter(scales, a, b)
        PROVE  NoBetter(restrictedCenter(a), restrictedCenter(b))
    <3>1. a.restricted = b.restricted \/ (a.restricted = "no" /\ b.restricted = "yes")
      BY <2>2, TwoSteps
    <3>2. QED
      BY <3>1, Rise, SameRises DEF restrictedCenter
  <2>3. Lawful(Ordered(scales, Request(checks, NoRows, NoRows)))
    BY <2>1, <2>2, OrderedIsLawful, QuietRows
  <2>4. QED
    BY <2>3, StillLawful DEF runAdminRoleChecks
<1>9. Lawful(runAdminRoleChecks[9])
  <2> DEFINE checks == [a \in Registrations |-> <<adminMfa(a)>>]
  <2>1. \A a \in Registrations : DOMAIN a = {"admins", "listed"}
    BY DEF Registrations
  <2>2. \A a \in Registrations : Plain(adminMfa(a))
    BY PlainRow, DemandingIds, PlainRows DEF adminMfa
  <2>3. ASSUME NEW a \in Registrations, NEW b \in Registrations,
               Stricter(RegistrationScales, a, b)
        PROVE  NoBetter(adminMfa(a), adminMfa(b))
    <3>1. /\ DOMAIN RegistrationScales = {"listed"}
          /\ RegistrationScales["listed"] =
               <<{"noMFA", "weak", "strong"}, {"weak", "strong"}, {"strong"}>>
      BY DEF RegistrationScales
    <3>2. a.admins = b.admins
      BY <2>1, <2>3, <3>1, OffScale
    <3>3. \/ a.listed = b.listed
          \/ a.listed = {"noMFA", "weak", "strong"}
          \/ a.listed = {"weak", "strong"} /\ b.listed = {"strong"}
      BY <2>1, <2>3, <3>1, ThreeSteps
    <3>4. CASE a.listed = b.listed
      BY <3>2, <3>4, SameRises DEF adminMfa
    <3>5. CASE a.listed = {"noMFA", "weak", "strong"}
      <4>1. "noMFA" \in a.listed
        BY <3>5
      <4>2. adminMfa(a) = NoRows \/ adminMfa(a) = Row("ENTRA-ADMIN-004", "Fail")
        BY <4>1 DEF adminMfa
      <4>3. adminMfa(b) = NoRows
              \/ \E s \in {"Fail", "Warning", "Pass"} : adminMfa(b) = Row("ENTRA-ADMIN-004", s)
        BY DEF adminMfa
      <4>4. QED
        BY <4>2, <4>3, Rise, NoneRises
    <3>6. CASE a.listed = {"weak", "strong"} /\ b.listed = {"strong"}
      <4>1. "noMFA" \notin a.listed /\ "weak" \in a.listed
            /\ "noMFA" \notin b.listed /\ "weak" \notin b.listed
        BY <3>6
      <4>2. QED
        BY <3>2, <4>1, Rise, NoneRises DEF adminMfa
    <3>7. QED
      BY <3>3, <3>4, <3>5, <3>6
  <2>4. \A a \in Registrations : "policies" \notin DOMAIN a /\ "principals" \notin DOMAIN a
    BY <2>1
  <2>5. Lawful(Ordered(RegistrationScales, Request(checks, NoRows, NoRows)))
    BY <2>2, <2>3, <2>4, OrderedIsLawful, QuietRows
  <2>6. QED
    BY <2>5 DEF runAdminRoleChecks
<1>10. Len(runAdminRoleChecks) = 9
  BY DEF runAdminRoleChecks
<1>11. QED
  BY <1>1, <1>2, <1>3, <1>5, <1>6, <1>7, <1>8, <1>9, <1>10 DEF AllLawful

LEMMA EntraSodConfigIsLawful == AllLawful(entraSodConfig)
<1> DEFINE scales == [both |-> <<2, 1, 0>>]
           checks == [a \in Holders |-> <<separated(a)>>]
           refused == Row("ENTRA-SOD-001", "Review")
<1>1. \A a \in Holders : DOMAIN a = {"global", "privileged", "both"}
  BY DEF Holders
<1>2. \A a \in Holders : Plain(separated(a))
  BY PlainRow, DemandingIds DEF separated, PassIf
<1>3. ASSUME NEW a \in Holders, NEW b \in Holders, Stricter(scales, a, b)
      PROVE  NoBetter(separated(a), separated(b))
  <2>1. DOMAIN scales = {"both"} /\ scales["both"] = <<2, 1, 0>>
    OBVIOUS
  <2> HIDE DEF scales
  <2>2. a.global = b.global /\ a.privileged = b.privileged
    BY <1>1, <1>3, <2>1, OffScale
  <2>3. a.both = 0 => b.both = 0
    BY <1>1, <1>3, <2>1, ThreeSteps
  <2>4. QED
    BY <2>2, <2>3, Rise DEF separated, PassIf
<1>4. \A a \in Holders : "policies" \notin DOMAIN a /\ "principals" \notin DOMAIN a
  BY <1>1
<1>5. Lawful(Ordered(scales, Request(checks, refused, NoRows)))
  BY <1>2, <1>3, <1>4, OrderedIsLawful, QuietRows
<1>6. QED
  BY <1>5, OneRequestIsLawful DEF entraSodConfig

LEMMA EntraAdminRoleSeparationIsLawful == AllLawful(entraAdminRoleSeparation)
<1> DEFINE scales  == [accounts |-> <<{"mailbox"}, {"plain", "mailbox"}, {"plain"}>>]
           answers == [accounts : SUBSET {"gone", "plain", "mailbox"}]
           checks  == [a \in answers |-> <<mixedAccounts(a)>>]
           refused == Row("ENTRA-ADMINROLE-SEPARATION-001", "Review")
<1>1. \A a \in answers : Plain(mixedAccounts(a))
  BY PlainRow, DemandingIds DEF mixedAccounts, PassIf
<1>2. ASSUME NEW a \in answers, NEW b \in answers, Stricter(scales, a, b)
      PROVE  NoBetter(mixedAccounts(a), mixedAccounts(b))
  <2>1. \/ a.accounts = b.accounts
        \/ a.accounts = {"mailbox"} \/ a.accounts = {"plain", "mailbox"}
    BY <1>2, ThreeSteps
  <2>2. "mailbox" \notin a.accounts => "mailbox" \notin b.accounts
    BY <2>1
  <2>3. QED
    BY <2>2, Rise DEF mixedAccounts, PassIf
<1>3. Lawful(Ordered(scales, Request(checks, refused, NoRows)))
  BY <1>1, <1>2, OrderedIsLawful, QuietRows
<1>4. QED
  BY <1>3, OneRequestIsLawful DEF entraAdminRoleSeparation

LEMMA EntraPrivRemoteIsLawful == AllLawful(entraPrivRemote)
<1> DEFINE scales  == [permanent |-> <<3, 2, 1, 0>>, eligible |-> <<0, 1>>]
           answers == [permanent : 0..3, eligible : {NotRead, 0, 1}]
           checks  == [a \in answers |-> <<pimForActivation(a)>>]
           refused == Row("ENTRA-PRIVREMOTE-001", "Review")
<1>1. \A a \in answers : Plain(pimForActivation(a))
  BY PlainRow, DemandingIds DEF pimForActivation
<1>2. ASSUME NEW a \in answers, NEW b \in answers, Stricter(scales, a, b)
      PROVE  NoBetter(pimForActivation(a), pimForActivation(b))
  <2>1. \/ a.permanent = b.permanent
        \/ a.permanent = 3 /\ b.permanent \in {2, 1, 0}
        \/ a.permanent = 2 /\ b.permanent \in {1, 0}
        \/ a.permanent = 1 /\ b.permanent = 0
    BY <1>2, FourSteps
  <2>2. a.eligible = b.eligible \/ (a.eligible = 0 /\ b.eligible = 1)
    BY <1>2, TwoSteps
  <2>3. a.permanent <= 2 => b.permanent <= 2
    BY <2>1
  <2>4. CASE a.eligible = 0 /\ b.eligible = 1
    <3>1. pimForActivation(a) = Row("ENTRA-PRIVREMOTE-001", "Fail")
      BY <2>4 DEF pimForActivation, NotRead
    <3>2. \E s \in {"Pass", "Warning"} : pimForActivation(b) = Row("ENTRA-PRIVREMOTE-001", s)
      BY <2>4 DEF pimForActivation, NotRead
    <3>3. QED
      BY <3>1, <3>2, Rise
  <2>5. CASE a.eligible = b.eligible
    BY <2>3, <2>5, Rise, SameRises DEF pimForActivation
  <2>6. QED
    BY <2>2, <2>4, <2>5
<1>3. Lawful(Ordered(scales, Request(checks, refused, NoRows)))
  BY <1>1, <1>2, OrderedIsLawful, QuietRows
<1>4. QED
  BY <1>3, OneRequestIsLawful DEF entraPrivRemote

LEMMA AdminRoleReportIsLawful == AllLawful(adminRoleReport)
<1>1. Lawful(adminRoleReport[1])
  <2>1. \A a \in [roles : SUBSET {"members", "empty", "unread"}] : Plain(membersListed(a))
    BY PlainRow, DemandingIds, PlainRows DEF membersListed
  <2>2. QED
    BY <2>1, RequestIsLawful, QuietRows DEF adminRoleReport
<1>2. Len(adminRoleReport) = 1
  BY DEF adminRoleReport
<1>3. QED
  BY <1>1, <1>2 DEF AllLawful

-----------------------------------------------------------------------------
(* Collaboration *)

LEMMA RunSharePointSecurityConfigIsLawful == AllLawful(runSharePointSecurityConfig)
<1>1. Lawful(runSharePointSecurityConfig[1])
  <2>1. PlainChecks(Always(<<NoRows>>))
    BY QuietRows, QuietIsPlain DEF PlainChecks, Always
  <2>2. /\ Quiet(AllRows(SettingsIds, "Skipped") \cup Returns)
        /\ Quiet(AllRows(SettingsIds, "Review") \cup Returns) /\ Quiet(Returns)
    BY QuietRows
  <2>3. Lawful(spoSettings)
    BY <2>1, <2>2, PlainRequest, DecliningIsLawful, QuietIsPlain DEF spoSettings
  <2>4. QED
    BY <2>3 DEF runSharePointSecurityConfig
<1>2. Lawful(runSharePointSecurityConfig[2])
  <2>1. \A a \in [sharing : {"unset"} \cup {SharingScale[i] : i \in 1..3}] :
          Plain(sharingLevel(a))
    BY PlainRow, DemandingIds DEF sharingLevel
  <2>2. \A a, b \in [sharing : {"unset"} \cup {SharingScale[i] : i \in 1..3}] :
          Stricter([sharing |-> SharingScale], a, b) => NoBetter(sharingLevel(a), sharingLevel(b))
    BY ThreeSteps, Rise DEF sharingLevel, SharingScale
  <2>3. QED
    BY <2>1, <2>2, SettingIsLawful, StillLawful DEF runSharePointSecurityConfig
<1>3. Lawful(runSharePointSecurityConfig[3])
  <2>1. \A a \in [resharing : Switch] : Plain(resharing(a))
    BY PlainRow, DemandingIds DEF resharing, wants, Given
  <2>2. \A a, b \in [resharing : Switch] :
          Stricter([resharing |-> <<"on", "off">>], a, b) => NoBetter(resharing(a), resharing(b))
    BY TwoSteps, Rise DEF resharing, wants, Given
  <2>3. QED
    BY <2>1, <2>2, SettingIsLawful DEF runSharePointSecurityConfig
<1>4. Lawful(runSharePointSecurityConfig[4])
  <2>1. \A a \in [mode : {"none", "listed", "unset"}] : Plain(domainMode(a))
    BY PlainRow, DemandingIds DEF domainMode, wants, Given
  <2>2. \A a, b \in [mode : {"none", "listed", "unset"}] :
          Stricter([mode |-> <<"none", "listed">>], a, b) =>
            NoBetter(domainMode(a), domainMode(b))
    BY TwoSteps, Rise DEF domainMode, wants, Given
  <2>3. QED
    BY <2>1, <2>2, SettingIsLawful DEF runSharePointSecurityConfig
<1>5. Lawful(runSharePointSecurityConfig[5])
  <2>1. \A a \in [link : {"anyone", "organization", "specificPeople", "unset"}] :
          Plain(linkType(a))
    BY PlainRow, DemandingIds DEF linkType
  <2>2. \A a, b \in [link : {"anyone", "organization", "specificPeople", "unset"}] :
          Stricter([link |-> <<"anyone", "organization", "specificPeople">>], a, b) =>
            NoBetter(linkType(a), linkType(b))
    BY ThreeSteps, Rise DEF linkType
  <2>3. QED
    BY <2>1, <2>2, SettingIsLawful DEF runSharePointSecurityConfig
<1>6. Lawful(runSharePointSecurityConfig[6])
  <2>1. \A a \in [unmanagedSync : Switch] : Plain(unmanagedSync(a))
    BY PlainRow, DemandingIds DEF unmanagedSync, PassElse
  <2>2. \A a, b \in [unmanagedSync : Switch] :
          Stricter([unmanagedSync |-> <<"off", "on">>], a, b) =>
            NoBetter(unmanagedSync(a), unmanagedSync(b))
    BY TwoSteps, Rise DEF unmanagedSync, PassElse
  <2>3. QED
    BY <2>1, <2>2, SettingIsLawful, StillLawful DEF runSharePointSecurityConfig
<1>7. Lawful(runSharePointSecurityConfig[7])
  <2>1. \A a \in [legacy : Switch] : Plain(legacyProtocols(a))
    BY PlainRow, DemandingIds DEF legacyProtocols, wants, Given
  <2>2. \A a, b \in [legacy : Switch] :
          Stricter([legacy |-> <<"on", "off">>], a, b) =>
            NoBetter(legacyProtocols(a), legacyProtocols(b))
    BY TwoSteps, Rise DEF legacyProtocols, wants, Given
  <2>3. QED
    BY <2>1, <2>2, SettingIsLawful DEF runSharePointSecurityConfig
<1>8. Lawful(runSharePointSecurityConfig[8])
  <2>1. \A a \in GuestExpiry : Plain(guestExpiration(a))
    BY PlainRow, DemandingIds DEF guestExpiration, wants, Given, GuestExpiry, NotNumber
  <2>2. \A a, b \in GuestExpiry :
          Stricter([days |-> <<31, 30>>, required |-> <<"off", "on">>], a, b) =>
            NoBetter(guestExpiration(a), guestExpiration(b))
    BY TwoSteps, Rise DEF guestExpiration, wants, Given, GuestExpiry, NotNumber
  <2>3. QED
    BY <2>1, <2>2, SettingIsLawful DEF runSharePointSecurityConfig, GuestExpiry, NotNumber
<1>9. Lawful(runSharePointSecurityConfig[9])
  <2>1. \A a \in [permission : {"edit", "view", "none", "unset"}] : Plain(linkPermission(a))
    BY PlainRow, DemandingIds DEF linkPermission
  <2>2. \A a, b \in [permission : {"edit", "view", "none", "unset"}] :
          Stricter([permission |-> <<"edit", "view">>], a, b) =>
            NoBetter(linkPermission(a), linkPermission(b))
    BY TwoSteps, Rise DEF linkPermission
  <2>3. QED
    BY <2>1, <2>2, SettingIsLawful DEF runSharePointSecurityConfig
<1>10. Lawful(runSharePointSecurityConfig[10])
  <2>1. \A a \in [listed : BOOLEAN] : Plain(domainLists(a))
    BY PlainRow, DemandingIds DEF domainLists, PassElse
  <2>2. \A a, b \in [listed : BOOLEAN] :
          Stricter([listed |-> YesIsSafe], a, b) => NoBetter(domainLists(a), domainLists(b))
    BY YesRises, Rise DEF domainLists, PassElse
  <2>3. QED
    BY <2>1, <2>2, SettingIsLawful DEF runSharePointSecurityConfig
<1>11. Lawful(runSharePointSecurityConfig[11])
  <2>1. \A a \in [attestation : Switch] : Plain(reattestation(a))
    BY PlainRow, DemandingIds DEF reattestation, wants, Given
  <2>2. \A a, b \in [attestation : Switch] :
          Stricter([attestation |-> <<"off", "on">>], a, b) =>
            NoBetter(reattestation(a), reattestation(b))
    BY TwoSteps, Rise DEF reattestation, wants, Given
  <2>3. QED
    BY <2>1, <2>2, SettingIsLawful DEF runSharePointSecurityConfig
<1>12. Lawful(runSharePointSecurityConfig[12])
  BY QuietRows, StaticIsLawful DEF runSharePointSecurityConfig
<1>13. Lawful(runSharePointSecurityConfig[13])
  <2>1. \A a \in Sites : Plain(siteSharing(a))
    BY PlainRow, DemandingIds DEF siteSharing, Sites
  <2>2. \A a, b \in Sites :
          Stricter([sites |-> <<"open", "restricted">>], a, b) =>
            NoBetter(siteSharing(a), siteSharing(b))
    BY TwoSteps, Rise DEF siteSharing, Sites
  <2>3. QED
    BY <2>1, <2>2, OrderedIsLawful, QuietRows DEF runSharePointSecurityConfig, Sites
<1>14. Lawful(runSharePointSecurityConfig[14])
  BY QuietRows, StaticIsLawful DEF runSharePointSecurityConfig
<1>15. Lawful(runSharePointSecurityConfig[15])
  <2>1. \A a \in SyncSettings : Plain(syncClients(a))
    BY PlainRow, DemandingIds DEF syncClients, Given, SyncSettings
  <2> DEFINE scales == [mac |-> <<"on", "off">>, unmanagedSync |-> <<"off", "on">>]
             checks == [a \in SyncSettings |-> <<syncClients(a)>>]
  <2>2. /\ scales["mac"] = <<"on", "off">> /\ scales["unmanagedSync"] = <<"off", "on">>
        /\ DOMAIN scales = {"mac", "unmanagedSync"}
    OBVIOUS
  <2> HIDE DEF scales
  <2>3. ASSUME NEW a \in SyncSettings, NEW b \in SyncSettings, Stricter(scales, a, b)
        PROVE  NoBetter(syncClients(a), syncClients(b))
    <3>1. a.mac = b.mac \/ (a.mac = "on" /\ b.mac = "off")
      BY <2>2, <2>3, TwoSteps DEF SyncSettings
    <3>2. \/ a.unmanagedSync = b.unmanagedSync
          \/ a.unmanagedSync = "off" /\ b.unmanagedSync = "on"
      BY <2>2, <2>3, TwoSteps DEF SyncSettings
    <3>3. QED
      BY <3>1, <3>2, Rise DEF syncClients, Given
  <2>4. Lawful(Setting(scales, checks))
    BY <2>1, <2>3, SettingIsLawful DEF SyncSettings
  <2>5. QED
    BY <2>4, StillLawful DEF runSharePointSecurityConfig, scales
<1>16. Lawful(runSharePointSecurityConfig[16])
  <2>1. \A a \in [loop : Switch] : Plain(loop(a))
    BY PlainRow, DemandingIds DEF loop, wants, Given
  <2>2. \A a, b \in [loop : Switch] :
          Stricter([loop |-> <<"on", "off">>], a, b) => NoBetter(loop(a), loop(b))
    BY TwoSteps, Rise DEF loop, wants, Given
  <2>3. QED
    BY <2>1, <2>2, SettingIsLawful DEF runSharePointSecurityConfig
<1>17. Lawful(runSharePointSecurityConfig[17])
  <2>1. \A a \in [oneDriveLoop : Switch] : Plain(loopInOneDrive(a))
    BY PlainRow, DemandingIds DEF loopInOneDrive, wants, Given
  <2>2. \A a, b \in [oneDriveLoop : Switch] :
          Stricter([oneDriveLoop |-> <<"on", "off">>], a, b) =>
            NoBetter(loopInOneDrive(a), loopInOneDrive(b))
    BY TwoSteps, Rise DEF loopInOneDrive, wants, Given
  <2>3. QED
    BY <2>1, <2>2, SettingIsLawful DEF runSharePointSecurityConfig
<1>18. Lawful(runSharePointSecurityConfig[18])
  <2>1. \A a \in [disallowInfected : Switch] : Plain(infectedDownload(a))
    BY PlainRow, DemandingIds DEF infectedDownload, wants, Given
  <2>2. \A a, b \in [disallowInfected : Switch] :
          Stricter([disallowInfected |-> <<"off", "on">>], a, b) =>
            NoBetter(infectedDownload(a), infectedDownload(b))
    BY TwoSteps, Rise DEF infectedDownload, wants, Given
  <2>3. QED
    BY <2>1, <2>2, SettingIsLawful DEF runSharePointSecurityConfig
<1>19. Lawful(runSharePointSecurityConfig[19])
  <2>1. \A a \in OneDriveLevels : Plain(oneDriveSharing(a))
    BY PlainRow, DemandingIds DEF oneDriveSharing, wants, Given, OneDriveLevels
  <2> DEFINE scales == [oneDrive |-> SharingScale, sharing |-> SharingScale]
             checks == [a \in OneDriveLevels |-> <<oneDriveSharing(a)>>]
  <2>2. /\ scales["oneDrive"] = SharingScale /\ scales["sharing"] = SharingScale
        /\ DOMAIN scales = {"oneDrive", "sharing"}
    OBVIOUS
  <2> HIDE DEF scales
  <2>3. ASSUME NEW a \in OneDriveLevels, NEW b \in OneDriveLevels, Stricter(scales, a, b)
        PROVE  NoBetter(oneDriveSharing(a), oneDriveSharing(b))
    <3>1. ASSUME NEW f \in {"oneDrive", "sharing"}
          PROVE  /\ Given(a[f]) <=> Given(b[f])
                 /\ Given(a[f]) /\ a[f] = "restricted" => b[f] = "restricted"
      <4>1. f \in DOMAIN a /\ scales[f] = SharingScale
        BY <2>2, <3>1 DEF OneDriveLevels
      <4>2. \/ a[f] = b[f]
            \/ /\ a[f] = "externalUserAndGuestSharing"
               /\ b[f] \in {"externalUserSharingOnly", "restricted"}
            \/ a[f] = "externalUserSharingOnly" /\ b[f] = "restricted"
        BY <2>3, <4>1, ThreeSteps DEF SharingScale
      <4>3. QED
        BY <4>2 DEF Given
    <3>2. \/ oneDriveSharing(a) = oneDriveSharing(b)
          \/ /\ oneDriveSharing(a) = Row("SPO-OD-001", "Warning")
             /\ oneDriveSharing(b) = Row("SPO-OD-001", "Pass")
      BY <3>1 DEF oneDriveSharing, wants, Given
    <3>3. QED
      BY <3>2, Rise, SameRises
  <2>4. Lawful(Setting(scales, checks))
    BY <2>1, <2>3, SettingIsLawful DEF OneDriveLevels
  <2>5. QED
    BY <2>4, StillLawful DEF runSharePointSecurityConfig, scales, OneDriveLevels
<1>20. Lawful(runSharePointSecurityConfig[20])
  <2>1. \A a \in [idle : Switch] : Plain(idleSignOut(a))
    BY PlainRow, DemandingIds DEF idleSignOut, wants, Given
  <2>2. \A a, b \in [idle : Switch] :
          Stricter([idle |-> <<"off", "on">>], a, b) => NoBetter(idleSignOut(a), idleSignOut(b))
    BY TwoSteps, Rise DEF idleSignOut, wants, Given
  <2>3. QED
    BY <2>1, <2>2, SettingIsLawful DEF runSharePointSecurityConfig
<1>21. Lawful(runSharePointSecurityConfig[21])
  <2>1. \A a \in [versioning : Switch] : Plain(versioning(a))
    BY PlainRow, DemandingIds DEF versioning, wants, Given
  <2>2. \A a, b \in [versioning : Switch] :
          Stricter([versioning |-> <<"off", "on">>], a, b) =>
            NoBetter(versioning(a), versioning(b))
    BY TwoSteps, Rise DEF versioning, wants, Given
  <2>3. QED
    BY <2>1, <2>2, SettingIsLawful DEF runSharePointSecurityConfig
<1>22. Lawful(runSharePointSecurityConfig[22])
  <2>1. \A a \in [sway : Switch] : Plain(sway(a))
    BY PlainRow, DemandingIds DEF sway, wants, Given
  <2>2. \A a, b \in [sway : Switch] :
          Stricter([sway |-> <<"on", "off">>], a, b) => NoBetter(sway(a), sway(b))
    BY TwoSteps, Rise DEF sway, wants, Given
  <2>3. QED
    BY <2>1, <2>2, SettingIsLawful DEF runSharePointSecurityConfig
<1>23. Len(runSharePointSecurityConfig) = 22
  BY DEF runSharePointSecurityConfig
<1>24. QED
  BY <1>1, <1>2, <1>3, <1>4, <1>5, <1>6, <1>7, <1>8, <1>9, <1>10, <1>11, <1>12, <1>13, <1>14,
     <1>15, <1>16, <1>17, <1>18, <1>19, <1>20, <1>21, <1>22, <1>23
  DEF AllLawful

LEMMA TeamsIsLawful == AllLawful(runTeamsSecurityConfig)
<1>1. Lawful(runTeamsSecurityConfig[1])
  <2>1. \A a \in Teamwork : Plain(workload(a)) /\ Plain(chatConsent(a))
    BY PlainRow, PlainRows, DemandingIds DEF workload, chatConsent, PassElse
  <2>2. PlainChecks([a \in Teamwork |-> <<workload(a), chatConsent(a)>>])
    BY <2>1 DEF PlainChecks, Teamwork
  <2>3. \A a, b \in Teamwork : Stricter([consent |-> <<"on", "off">>], a, b) =>
          /\ a.present = b.present
          /\ a.consent = b.consent \/ (a.consent = "on" /\ b.consent = "off")
    BY TwoSteps DEF Stricter, Teamwork
  <2>4. \A a, b \in Teamwork : Stricter([consent |-> <<"on", "off">>], a, b) =>
          NoBetter(workload(a), workload(b)) /\ NoBetter(chatConsent(a), chatConsent(b))
    BY <2>3, Rise, SameRises DEF workload, chatConsent, PassElse
  <2>5. Rises([consent |-> <<"on", "off">>],
              [a \in Teamwork |-> <<workload(a), chatConsent(a)>>])
    BY <2>4 DEF Rises
  <2>6. QED
    BY <2>2, <2>5, QuietRows, OrderedRequest DEF runTeamsSecurityConfig
<1>2. Lawful(runTeamsSecurityConfig[2])
  <2>1. \A a \in GuestSettings : Plain(guestAccess(a))
    BY PlainRow, DemandingIds DEF guestAccess, wants, Given, GuestSettings
  <2>2. \A a, b \in GuestSettings :
          Stricter([access |-> <<"on", "off">>, adding |-> <<"on", "off">>], a, b) =>
            NoBetter(guestAccess(a), guestAccess(b))
    BY TwoSteps, Rise DEF guestAccess, wants, Given, Switch, GuestSettings
  <2>3. QED
    BY <2>1, <2>2, OrderedIsLawful, QuietRows DEF runTeamsSecurityConfig, GuestSettings
<1>3. Lawful(runTeamsSecurityConfig[3])
  BY QuietRows, StaticIsLawful DEF runTeamsSecurityConfig
<1>4. Len(runTeamsSecurityConfig) = 3
  BY DEF runTeamsSecurityConfig
<1>5. QED
  BY <1>1, <1>2, <1>3, <1>4 DEF AllLawful

LEMMA FormsIsLawful == AllLawful(runFormsSecurityConfig)
<1> DEFINE scales == [send |-> <<"on", "off">>, share |-> <<"on", "off">>,
                      phishing |-> <<"off", "on">>, identity |-> <<"off", "on">>]
           checks == [a \in FormsSettings |->
                        <<externalSend(a), externalShare(a), phishingScan(a), recordIdentity(a)>>]
           request == Ordered(scales, Request(checks, AllRows(FormsIds, "Skipped"),
                                              AllRows(FormsIds, "Skipped")))
<1>1. PlainChecks(checks)
  <2>1. \A a \in FormsSettings :
          /\ Plain(externalSend(a)) /\ Plain(externalShare(a))
          /\ Plain(phishingScan(a)) /\ Plain(recordIdentity(a))
    BY QuietRows, QuietIsPlain, PlainRow, DemandingIds
    DEF externalSend, externalShare, phishingScan, recordIdentity, PassIf, PassElse
  <2>2. QED
    BY <2>1 DEF PlainChecks, FormsSettings
<1>2. Rises(scales, checks)
  <2>1. ASSUME NEW a \in FormsSettings, NEW b \in FormsSettings, Stricter(scales, a, b)
        PROVE  /\ NoBetter(externalSend(a), externalSend(b))
               /\ NoBetter(externalShare(a), externalShare(b))
               /\ NoBetter(phishingScan(a), phishingScan(b))
               /\ NoBetter(recordIdentity(a), recordIdentity(b))
    <3>1. /\ a.send = b.send \/ (a.send = "on" /\ b.send = "off")
          /\ a.share = b.share \/ (a.share = "on" /\ b.share = "off")
          /\ a.phishing = b.phishing \/ (a.phishing = "off" /\ b.phishing = "on")
          /\ a.identity = b.identity \/ (a.identity = "off" /\ b.identity = "on")
      BY <2>1, TwoSteps DEF FormsSettings
    <3>2. QED
      BY <3>1, Rise, SameRises
      DEF externalSend, externalShare, phishingScan, recordIdentity, PassIf, PassElse
  <2>2. QED
    BY <2>1 DEF Rises
<1>3. Stopless(checks)
  BY DEF Stopless, Stops, externalSend, externalShare, phishingScan, recordIdentity, PassIf,
         PassElse, Row, AllRows, FormsIds, Returns
<1>4. Lawful(Declining(AllRows(FormsIds, "Review"), request))
  <2>1. Quiet(AllRows(FormsIds, "Skipped")) /\ Unjudging(AllRows(FormsIds, "Review"))
    BY QuietRows, QuietIsPlain
  <2>2. QED
    BY <1>1, <1>2, <1>3, <2>1, OrderedRequest, DecliningIsLawful
<1>5. Len(runFormsSecurityConfig) = 1 /\ Lawful(runFormsSecurityConfig[1])
  BY <1>4 DEF runFormsSecurityConfig
<1>6. QED
  BY <1>5 DEF AllLawful

-----------------------------------------------------------------------------
(* DeviceChecks *)

LEMMA DeviceComplianceReportIsLawful == AllLawful(deviceComplianceReport)
<1>1. Lawful(deviceComplianceReport[1])
  <2>1. \A a \in Lists : Plain(devicesListed(a))
    BY PlainRow, DemandingIds, PlainRows DEF devicesListed, listedOnly, Lists
  <2>2. QED
    BY <2>1, RequestIsLawful, QuietRows DEF deviceComplianceReport, Lists
<1>2. Len(deviceComplianceReport) = 1
  BY DEF deviceComplianceReport
<1>3. QED
  BY <1>1, <1>2 DEF AllLawful

LEMMA ConfigProfileReportIsLawful == AllLawful(configProfileReport)
<1>1. Lawful(configProfileReport[1])
  <2>1. \A a \in Lists : Plain(profilesListed(a))
    BY PlainRow, DemandingIds, PlainRows DEF profilesListed, listedOnly, Lists
  <2>2. QED
    BY <2>1, RequestIsLawful, QuietRows DEF configProfileReport, Lists
<1>2. Len(configProfileReport) = 1
  BY DEF configProfileReport
<1>3. QED
  BY <1>1, <1>2 DEF AllLawful

LEMMA RunIntuneSecurityConfigIsLawful == AllLawful(runIntuneSecurityConfig)
<1>1. Lawful(runIntuneSecurityConfig[1])
  <2>1. \A a \in [days : CheckinThresholds] : Plain(checkinThreshold(a))
    BY PlainRow, DemandingIds DEF checkinThreshold
  <2>2. \A a, b \in [days : CheckinThresholds] :
          Stricter([days |-> <<"31", "30">>], a, b) =>
            NoBetter(checkinThreshold(a), checkinThreshold(b))
    BY TwoSteps, Rise DEF checkinThreshold
  <2>3. QED
    BY <2>1, <2>2, OrderedIsLawful, QuietRows DEF runIntuneSecurityConfig
<1>2. Lawful(runIntuneSecurityConfig[2])
  <2> DEFINE Restricts == [restrictions : SUBSET {"admits", "blocks"}]
             scales    == [restrictions |-> Cleared("admits", "blocks")]
             checks    == [a \in Restricts |-> <<personalDevices(a)>>]
  <2>1. \A a \in Restricts : Plain(personalDevices(a))
    BY PlainRow, DemandingIds DEF personalDevices, PassIf
  <2>2. scales["restrictions"] = <<{"admits"}, {"admits", "blocks"}, {"blocks"}>>
    BY DEF Cleared
  <2> HIDE DEF scales
  <2>3. ASSUME NEW a \in Restricts, NEW b \in Restricts, Stricter(scales, a, b)
        PROVE  NoBetter(personalDevices(a), personalDevices(b))
    <3>1. a.restrictions = b.restrictions \/ "admits" \in a.restrictions
      BY <2>2, <2>3, ThreeSteps
    <3>2. QED
      BY <3>1, Rise DEF personalDevices, PassIf
  <2>4. \A a \in Restricts : "policies" \notin DOMAIN a /\ "principals" \notin DOMAIN a
    OBVIOUS
  <2>5. Lawful(Ordered(scales, Request(checks, Row("INTUNE-ENROLL-001", "Skipped"), NoRows)))
    BY <2>1, <2>3, <2>4, QuietRows, OrderedIsLawful
  <2>6. QED
    BY <2>5 DEF runIntuneSecurityConfig, scales
<1>3. Len(runIntuneSecurityConfig) = 2
  BY DEF runIntuneSecurityConfig
<1>4. QED
  BY <1>1, <1>2, <1>3 DEF AllLawful

\* Lists of profiles of which those on a scale are compared.
LEMMA ProfilesAreLawful ==
  ASSUME NEW kinds, NEW x, NEW y, NEW z, NEW checks, DOMAIN checks = [profiles : SUBSET kinds],
         NEW refused, Quiet(refused),
         \A a \in DOMAIN checks : Len(checks[a]) = 1 /\ Plain(checks[a][1]),
         \A a, b \in DOMAIN checks :
           (a.profiles = x /\ b.profiles \in {y, z}) \/ (a.profiles = y /\ b.profiles = z) =>
             NoBetter(checks[a][1], checks[b][1])
  PROVE  Lawful(Ordered([profiles |-> <<x, y, z>>], Request(checks, refused, NoRows)))
<1> DEFINE scales == [profiles |-> <<x, y, z>>]
<1>1. scales["profiles"] = <<x, y, z>>
  OBVIOUS
<1> HIDE DEF scales
<1>2. ASSUME NEW a \in DOMAIN checks, NEW b \in DOMAIN checks, Stricter(scales, a, b)
      PROVE  NoBetter(checks[a][1], checks[b][1])
  <2>1. DOMAIN a = {"profiles"} /\ DOMAIN b = {"profiles"}
    OBVIOUS
  <2>2. \/ a.profiles = b.profiles
        \/ a.profiles = x /\ b.profiles \in {y, z}
        \/ a.profiles = y /\ b.profiles = z
    BY <1>1, <1>2, <2>1, ThreeSteps
  <2>3. CASE a.profiles = b.profiles
    <3>1. a = b
      BY <2>3
    <3>2. QED
      BY <3>1, SameRises
  <2>4. QED
    BY <2>2, <2>3
<1>3. \A a \in DOMAIN checks : "policies" \notin DOMAIN a /\ "principals" \notin DOMAIN a
  OBVIOUS
<1>4. QED
  BY <1>2, <1>3, OrderedIsLawful DEF scales

LEMMA EachProfileIsPlain ==
  ASSUME NEW id, id \notin Demanding, NEW a
  PROVE  Plain(eachProfile(id, a))
<1>1. \A p : Plain(PassIf(id, p = "blocked"))
  BY PlainRow DEF PassIf
<1>2. Plain(UNION {PassIf(id, p = "blocked") : p \in a.profiles})
  BY <1>1 DEF Plain
<1>3. QED
  BY <1>2, PlainRow DEF eachProfile

\* One profile that is open is enough for a row that fails.
LEMMA EachProfileRises ==
  ASSUME NEW id, NEW a, NEW b, a.profiles \in SUBSET {"blocked", "open"},
         b.profiles \in SUBSET {"blocked", "open"}, "open" \in a.profiles
  PROVE  NoBetter(eachProfile(id, a), eachProfile(id, b))
<1>1. PassIf(id, "open" = "blocked") = Row(id, "Fail")
  BY DEF PassIf
<1>2. Row(id, "Fail") \subseteq UNION {PassIf(id, p = "blocked") : p \in a.profiles}
  BY <1>1
<1>3. <<id, "Fail">> \in eachProfile(id, a)
  BY <1>2 DEF eachProfile, Row
<1>4. \A p : PassIf(id, p = "blocked") \subseteq {<<id, "Pass">>, <<id, "Fail">>}
  BY DEF PassIf, Row
<1>5. eachProfile(id, b) \subseteq {<<id, "Pass">>, <<id, "Fail">>}
  BY <1>4 DEF eachProfile, Row
<1>6. <<id, "Fail">> \notin Marks
  BY DEF Marks, Stops, Returns, Leaves
<1>7. QED
  BY <1>3, <1>5, <1>6 DEF NoBetter, Worth

LEMMA RunIntuneFipsConfigIsLawful == AllLawful(runIntuneFipsConfig)
<1>1. Lawful(runIntuneFipsConfig[1])
  <2> DEFINE kinds  == {"customOn", "customOff", "named"}
             checks == [a \in [profiles : SUBSET kinds] |-> <<fips(a)>>]
  <2>1. \A a \in [profiles : SUBSET kinds] : Plain(fips(a))
    BY PlainRow, DemandingIds, PlainRows DEF fips
  <2>2. ASSUME NEW a \in [profiles : SUBSET kinds], NEW b \in [profiles : SUBSET kinds],
               "customOff" \in a.profiles, b.profiles # {}
        PROVE  NoBetter(fips(a), fips(b))
    <3>1. <<"INTUNE-FIPS-001", "Fail">> \in fips(a)
      BY <2>2 DEF fips, Row
    <3>2. \A other \in fips(b) :
            other[1] = "INTUNE-FIPS-001" /\ other[2] \in {"Pass", "Fail", "Warning"}
      BY DEF fips, Row, NoRows
    <3>3. QED
      BY <3>1, <3>2 DEF NoBetter, Worth, Marks, Stops, Returns, Leaves
  <2>3. Lawful(Ordered([profiles |-> <<{"customOff"}, {"customOff", "customOn"}, {"customOn"}>>],
                       Request(checks, Row("INTUNE-FIPS-001", "Skipped"), NoRows)))
    BY <2>1, <2>2, QuietRows, ProfilesAreLawful
  <2>4. QED
    BY <2>3 DEF runIntuneFipsConfig, Cleared
<1>2. Lawful(runIntuneFipsConfig[2])
  <2> DEFINE kinds  == {"AppLocker", "custom"}
             checks == [a \in [profiles : SUBSET kinds] |-> <<appControl(a)>>]
  <2>1. \A a \in [profiles : SUBSET kinds] : Plain(appControl(a))
    BY PlainRow, DemandingIds DEF appControl, PassIf
  <2>2. \A a, b \in [profiles : SUBSET kinds] :
          b.profiles # {} => NoBetter(appControl(a), appControl(b))
    BY Rise DEF appControl, PassIf
  <2>3. Lawful(Ordered([profiles |-> <<{}, {"AppLocker"}, {"AppLocker", "custom"}>>],
                       Request(checks, Row("INTUNE-APPCONTROL-001", "Skipped"), NoRows)))
    BY <2>1, <2>2, QuietRows, ProfilesAreLawful
  <2>4. QED
    BY <2>3 DEF runIntuneFipsConfig
<1>3. Lawful(runIntuneFipsConfig[3])
  <2> DEFINE P      == SUBSET {"encrypted", "open"}
             id     == "INTUNE-MOBILEENCRYPT-001"
             order  == <<{"open"}, {"open", "encrypted"}, {"encrypted"}>>
             scales == [ios |-> order, android |-> order]
             Each(S) == UNION {PassIf(id, p = "encrypted") : p \in S}
             platform(S) == IF S = {} THEN Row(id, "Fail") ELSE Each(S)
             checks == [a \in [ios : P, android : P] |-> <<mobileEncryption(a)>>]
  <2>1. \A p : Plain(PassIf(id, p = "encrypted"))
    BY PlainRow, DemandingIds DEF PassIf
  <2>2. \A S : Plain(Each(S))
    BY <2>1 DEF Plain
  <2>3. \A a : mobileEncryption(a) = platform(a.ios) \cup platform(a.android)
    BY DEF mobileEncryption
  <2>4. \A a \in [ios : P, android : P] : Plain(mobileEncryption(a))
    BY <2>2, <2>3, PlainRow, PlainRows
  <2>5. \A S \in P :
          /\ <<id, "Fail">> \in platform(S) <=> S # {"encrypted"}
          /\ \A row \in platform(S) : row \in {<<id, "Pass">>, <<id, "Fail">>}
    <3>1. \A p : PassIf(id, p = "encrypted") =
                   IF p = "encrypted" THEN {<<id, "Pass">>} ELSE {<<id, "Fail">>}
      BY DEF PassIf, Row
    <3>2. \A S : <<id, "Fail">> \in Each(S) <=> \E p \in S : p # "encrypted"
      BY <3>1
    <3>3. \A S : \A row \in Each(S) : row \in {<<id, "Pass">>, <<id, "Fail">>}
      BY <3>1
    <3> HIDE DEF Each
    <3>4. QED
      BY <3>2, <3>3 DEF Row
  <2>6. scales["ios"] = order /\ scales["android"] = order
    OBVIOUS
  <2> HIDE DEF scales, platform
  <2>7. ASSUME NEW a \in [ios : P, android : P], NEW b \in [ios : P, android : P],
               Stricter(scales, a, b)
        PROVE  NoBetter(mobileEncryption(a), mobileEncryption(b))
    <3>1. a.ios = b.ios \/ a.ios # {"encrypted"}
      BY <2>6, <2>7, ThreeSteps
    <3>2. a.android = b.android \/ a.android # {"encrypted"}
      BY <2>6, <2>7, ThreeSteps
    <3>3. CASE a.ios = b.ios /\ a.android = b.android
      BY <2>3, <3>3, SameRises
    <3>4. CASE a.ios # {"encrypted"} \/ a.android # {"encrypted"}
      <4>1. <<id, "Fail">> \in mobileEncryption(a)
        BY <2>3, <2>5, <3>4
      <4>2. \A other \in mobileEncryption(b) : other \in {<<id, "Pass">>, <<id, "Fail">>}
        BY <2>3, <2>5
      <4>3. QED
        BY <4>1, <4>2 DEF NoBetter, Worth, Marks, Stops, Returns, Leaves
    <3>5. QED
      BY <3>1, <3>2, <3>3, <3>4
  <2>8. \A a \in [ios : P, android : P] :
          "policies" \notin DOMAIN a /\ "principals" \notin DOMAIN a
    OBVIOUS
  <2>9. Lawful(Ordered(scales, Request(checks, Row(id, "Skipped"), NoRows)))
    BY <2>4, <2>7, <2>8, QuietRows, OrderedIsLawful
  <2>10. QED
    BY <2>9 DEF runIntuneFipsConfig, Cleared, scales
<1>4. Lawful(runIntuneFipsConfig[4])
  <2> DEFINE checks == [a \in [profiles : SUBSET Profiles] |-> <<wifi(a)>>]
  <2>1. \A a \in [profiles : SUBSET Profiles] : Plain(wifi(a))
    BY PlainRow, DemandingIds DEF wifi, PassIf
  <2>2. \A a, b \in [profiles : SUBSET Profiles] :
          "compliant" \notin a.profiles => NoBetter(wifi(a), wifi(b))
    BY Rise DEF wifi, PassIf
  <2>3. Lawful(Ordered([profiles |-> <<{"other"}, {"unassigned"}, {"compliant"}>>],
                       Request(checks, Row("INTUNE-WIFI-001", "Skipped"), NoRows)))
    BY <2>1, <2>2, QuietRows, ProfilesAreLawful
  <2>4. QED
    BY <2>3 DEF runIntuneFipsConfig
<1>5. Lawful(runIntuneFipsConfig[5])
  <2> DEFINE kinds  == {"blocked", "open"}
             checks == [a \in [profiles : SUBSET kinds] |-> <<portStorage(a)>>]
  <2>1. \A a \in [profiles : SUBSET kinds] : Plain(portStorage(a))
    BY EachProfileIsPlain, DemandingIds DEF portStorage
  <2>2. \A a, b \in [profiles : SUBSET kinds] :
          "open" \in a.profiles => NoBetter(portStorage(a), portStorage(b))
    BY EachProfileRises DEF portStorage
  <2>3. Lawful(Ordered([profiles |-> <<{"open"}, {"open", "blocked"}, {"blocked"}>>],
                       Request(checks, Row("INTUNE-PORTSTORAGE-001", "Skipped"), NoRows)))
    BY <2>1, <2>2, QuietRows, ProfilesAreLawful
  <2>4. QED
    BY <2>3 DEF runIntuneFipsConfig, Cleared
<1>6. Lawful(runIntuneFipsConfig[6])
  <2> DEFINE checks == [a \in Discovery |-> <<autoDiscovery(a)>>]
             r      == Ordered(DiscoveryScales,
                         Request(checks, Row("INTUNE-AUTODISC-001", "Skipped"), NoRows))
  <2>1. \A a \in Discovery : Plain(autoDiscovery(a))
    BY PlainRow, DemandingIds DEF autoDiscovery, PassElse
  <2>2. ASSUME NEW a \in Discovery, NEW b \in Discovery, Stricter(DiscoveryScales, a, b)
        PROVE  NoBetter(autoDiscovery(a), autoDiscovery(b))
    <3>1. /\ DiscoveryScales["enrolled"] = YesIsSafe
          /\ DiscoveryScales["autopilot"] = <<"none", "profiles">>
      BY DEF DiscoveryScales
    <3>2. a.enrolled => b.enrolled
      BY <2>2, <3>1, YesRises DEF Discovery
    <3>3. a.autopilot = b.autopilot \/ (a.autopilot = "none" /\ b.autopilot = "profiles")
      BY <2>2, <3>1, TwoSteps DEF Discovery
    <3>4. QED
      BY <3>2, <3>3, Rise DEF autoDiscovery, PassElse
  <2>3. Lawful(r)
    BY <2>1, <2>2, QuietRows, OrderedIsLawful DEF Discovery
  <2>4. ASSUME NEW a \in DOMAIN DiscoveryTold, NEW row \in autoDiscovery(a),
               row[2] \in {"Pass", "Fail"}, NEW b \in DiscoveryTold[a]
        PROVE  row \in autoDiscovery(b)
    <3>1. a.autopilot = "failed" /\ b.enrolled = a.enrolled
      BY <2>4 DEF DiscoveryTold
    <3>2. a.enrolled
      BY <2>4, <3>1 DEF autoDiscovery, PassElse, Row
    <3>3. autoDiscovery(a) = autoDiscovery(b)
      BY <3>1, <3>2 DEF autoDiscovery, PassElse
    <3>4. QED
      BY <2>4, <3>3
  <2>5. r.checks = checks
    BY DEF Ordered, Request
  <2>6. JudgesTold(DiscoveryTold, checks)
    <3>1. \A a \in DOMAIN DiscoveryTold : DiscoveryTold[a] \subseteq Discovery
      BY DEF DiscoveryTold
    <3>2. \A a \in Discovery : Len(checks[a]) = 1 /\ checks[a][1] = autoDiscovery(a)
      OBVIOUS
    <3>3. DOMAIN checks = Discovery
      OBVIOUS
    <3> HIDE DEF checks
    <3> SUFFICES ASSUME NEW a \in DOMAIN DiscoveryTold \cap DOMAIN checks,
                        NEW k \in 1..Len(checks[a]), NEW row \in Judged(checks[a][k]),
                        row[2] \in {"Pass", "Fail"}, NEW b \in DiscoveryTold[a]
                 PROVE  row \in checks[b][k]
      BY DEF JudgesTold
    <3>4. k = 1 /\ a \in Discovery
      BY <3>2, <3>3
    <3>5. row \in autoDiscovery(a)
      BY <3>2, <3>4 DEF Judged
    <3>6. row \in autoDiscovery(b)
      BY <2>4, <3>5
    <3>7. QED
      BY <3>1, <3>2, <3>4, <3>6
  <2> HIDE DEF r, checks
  <2>7. Lawful(Untold(DiscoveryTold, r))
    BY <2>3, <2>5, <2>6, TellingIsLawful
  <2>8. QED
    BY <2>7 DEF runIntuneFipsConfig, r, checks
<1>7. Lawful(runIntuneFipsConfig[7])
  <2> DEFINE checks == [a \in [profiles : SUBSET Profiles] |-> <<remoteVpn(a)>>]
  <2>1. \A a \in [profiles : SUBSET Profiles] : Plain(remoteVpn(a))
    BY PlainRow, DemandingIds DEF remoteVpn, PassIf
  <2>2. \A a, b \in [profiles : SUBSET Profiles] :
          "compliant" \notin a.profiles => NoBetter(remoteVpn(a), remoteVpn(b))
    BY Rise DEF remoteVpn, PassIf
  <2>3. Lawful(Ordered([profiles |-> <<{"other"}, {"unassigned"}, {"compliant"}>>],
                       Request(checks, Row("INTUNE-REMOTEVPN-001", "Skipped"), NoRows)))
    BY <2>1, <2>2, QuietRows, ProfilesAreLawful
  <2>4. QED
    BY <2>3 DEF runIntuneFipsConfig
<1>8. Lawful(runIntuneFipsConfig[8])
  <2> DEFINE kinds  == {"blocked", "open"}
             checks == [a \in [profiles : SUBSET kinds] |-> <<removableMedia(a)>>]
  <2>1. \A a \in [profiles : SUBSET kinds] : Plain(removableMedia(a))
    BY EachProfileIsPlain, DemandingIds DEF removableMedia
  <2>2. \A a, b \in [profiles : SUBSET kinds] :
          "open" \in a.profiles => NoBetter(removableMedia(a), removableMedia(b))
    BY EachProfileRises DEF removableMedia
  <2>3. Lawful(Ordered([profiles |-> <<{"open"}, {"open", "blocked"}, {"blocked"}>>],
                       Request(checks, Row("INTUNE-REMOVABLEMEDIA-001", "Skipped"), NoRows)))
    BY <2>1, <2>2, QuietRows, ProfilesAreLawful
  <2>4. QED
    BY <2>3 DEF runIntuneFipsConfig, Cleared
<1>9. Lawful(runIntuneFipsConfig[9])
  <2> DEFINE kinds  == {"fullTunnel", "splitTunnel"}
             checks == [a \in [profiles : SUBSET kinds] |-> <<vpnConfig(a)>>]
  <2>1. \A a \in [profiles : SUBSET kinds] : Plain(vpnConfig(a))
    BY PlainRow, DemandingIds DEF vpnConfig, PassIf
  <2>2. \A a, b \in [profiles : SUBSET kinds] :
          "fullTunnel" \in b.profiles => NoBetter(vpnConfig(a), vpnConfig(b))
    BY Rise DEF vpnConfig, PassIf
  <2>3. Lawful(Ordered(
          [profiles |-> <<{"splitTunnel"}, {"splitTunnel", "fullTunnel"}, {"fullTunnel"}>>],
          Request(checks, Row("INTUNE-VPNCONFIG-001", "Skipped"), NoRows)))
    BY <2>1, <2>2, QuietRows, ProfilesAreLawful
  <2>4. QED
    BY <2>3 DEF runIntuneFipsConfig, Cleared
<1>10. Lawful(runIntuneFipsConfig[10])
  BY QuietRows, StaticIsLawful DEF runIntuneFipsConfig
<1>11. Len(runIntuneFipsConfig) = 10
  BY DEF runIntuneFipsConfig
<1>12. QED
  BY <1>1, <1>2, <1>3, <1>4, <1>5, <1>6, <1>7, <1>8, <1>9, <1>10, <1>11 DEF AllLawful

-----------------------------------------------------------------------------
(* DirectorySettings *)

\* The checks of the shared policy know its fields.
LEMMA FromPolicyIsLawful ==
  ASSUME NEW fields \in SUBSET PolicyFields, NEW checks, DOMAIN checks = Part(fields),
         \A a \in Part(fields) : Len(checks[a]) = 1 /\ Plain(checks[a][1]),
         \A a, b \in Part(fields) :
           Stricter(PolicyScale, a, b) => NoBetter(checks[a][1], checks[b][1])
  PROVE  Lawful(FromPolicy(fields, checks))
<1>1. \A a \in Part(fields) : "policies" \notin DOMAIN a /\ "principals" \notin DOMAIN a
  BY DEF Part, PolicyFields
<1>2. Lawful(Ordered(PolicyScale, Request(checks, NoRows, NoRows)))
  BY <1>1, QuietRows, OrderedIsLawful
<1>3. QED
  BY <1>2, StillLawful DEF FromPolicy

\* Fields that only one value of is safe.
LEMMA PolicySteps ==
  ASSUME NEW fields \in SUBSET PolicyFields, NEW a \in Part(fields), NEW b \in Part(fields),
         Stricter(PolicyScale, a, b)
  PROVE  /\ \A f \in fields \cap {"apps", "groups", "tenants"} :
              a[f] = b[f] \/ (a[f] = "yes" /\ b[f] = "no")
         /\ "consent" \in fields =>
              \/ a.consent = b.consent
              \/ a.consent = "legacy" /\ b.consent \in {"low", "nothing"}
              \/ a.consent = "low" /\ b.consent = "nothing"
         /\ "guestRole" \in fields =>
              a.guestRole = b.guestRole \/ (a.guestRole = "member" /\ b.guestRole = "restricted")
<1>1. DOMAIN a = fields
  BY DEF Part
<1>2. ASSUME NEW f \in fields \cap {"apps", "groups", "tenants"}
      PROVE  a[f] = b[f] \/ (a[f] = "yes" /\ b[f] = "no")
  <2>1. PolicyScale[f] = <<"yes", "no">>
    BY DEF PolicyScale
  <2>2. QED
    BY <1>1, <2>1, TwoSteps
<1>3. ASSUME "consent" \in fields
      PROVE  \/ a.consent = b.consent
             \/ a.consent = "legacy" /\ b.consent \in {"low", "nothing"}
             \/ a.consent = "low" /\ b.consent = "nothing"
  <2>1. PolicyScale["consent"] = <<"legacy", "low", "nothing">>
    BY DEF PolicyScale
  <2>2. QED
    BY <1>1, <1>3, <2>1, ThreeSteps
<1>4. ASSUME "guestRole" \in fields
      PROVE  a.guestRole = b.guestRole \/ (a.guestRole = "member" /\ b.guestRole = "restricted")
  <2>1. PolicyScale["guestRole"] = <<"member", "restricted">>
    BY DEF PolicyScale
  <2>2. QED
    BY <1>1, <1>4, <2>1, TwoSteps
<1>5. QED
  BY <1>2, <1>3, <1>4

LEMMA InviteSteps ==
  ASSUME NEW scales, NEW a, NEW b, Stricter(scales, a, b), "invites" \in DOMAIN a,
         scales["invites"] = InviteScale
  PROVE  \/ a.invites = b.invites
         \/ /\ a.invites = "everyone"
            /\ b.invites \in {"adminsGuestInvitersAndAllMembers", "adminsAndGuestInviters", "none"}
         \/ /\ a.invites = "adminsGuestInvitersAndAllMembers"
            /\ b.invites \in {"adminsAndGuestInviters", "none"}
         \/ a.invites = "adminsAndGuestInviters" /\ b.invites = "none"
BY FourSteps DEF InviteScale

LEMMA RunUserGroupChecksIsLawful == AllLawful(runUserGroupChecks)
<1>1. Lawful(runUserGroupChecks[1])
  <2>1. \A a : Plain(userConsent(a))
    BY PlainRow, PlainRows, DemandingIds DEF userConsent, PassIf, PassElse
  <2> DEFINE fields == {"consent", "apps", "groups", "tenants"}
             checks == [a \in Part(fields) |-> <<userConsent(a)>>]
  <2>2. ASSUME NEW a \in Part(fields), NEW b \in Part(fields), Stricter(PolicyScale, a, b)
        PROVE  NoBetter(userConsent(a), userConsent(b))
    <3>1. /\ a.apps = b.apps \/ (a.apps = "yes" /\ b.apps = "no")
          /\ a.groups = b.groups \/ (a.groups = "yes" /\ b.groups = "no")
          /\ a.tenants = b.tenants \/ (a.tenants = "yes" /\ b.tenants = "no")
      BY <2>2, PolicySteps DEF PolicyFields
    <3>2. \/ a.consent = b.consent
          \/ a.consent = "legacy" /\ b.consent \in {"low", "nothing"}
          \/ a.consent = "low" /\ b.consent = "nothing"
      BY <2>2, PolicySteps DEF PolicyFields
    <3>3. CASE a.consent = Unread
      <4>1. userConsent(a) = NoRows
        BY <3>3 DEF userConsent
      <4>2. QED
        BY <4>1, NoneRises
    <3>4. CASE a.consent # Unread
      <4>1. b.consent # Unread
        BY <3>2, <3>4 DEF Unread
      <4>2. Below(PassIf("ENTRA-CONSENT-001", a.consent = "nothing"),
                  PassIf("ENTRA-CONSENT-001", b.consent = "nothing"))
        BY <3>2, BelowRow DEF PassIf
      <4>3. Below(PassIf("ENTRA-APPREG-001", a.apps = "no"),
                  PassIf("ENTRA-APPREG-001", b.apps = "no"))
        BY <3>1, BelowRow DEF PassIf
      <4>4. Below(PassElse("ENTRA-GROUP-001", a.groups = "no", "Warning"),
                  PassElse("ENTRA-GROUP-001", b.groups = "no", "Warning"))
        BY <3>1, BelowRow DEF PassElse
      <4>5. Below(PassElse("ENTRA-TENANT-001", a.tenants = "no", "Warning"),
                  PassElse("ENTRA-TENANT-001", b.tenants = "no", "Warning"))
        BY <3>1, BelowRow DEF PassElse
      <4>6. Below(userConsent(a), userConsent(b))
        <5>1. \A c : c.consent # Unread =>
                userConsent(c) = ((PassIf("ENTRA-CONSENT-001", c.consent = "nothing")
                                     \cup PassIf("ENTRA-APPREG-001", c.apps = "no"))
                                     \cup PassElse("ENTRA-GROUP-001", c.groups = "no", "Warning"))
                                   \cup PassElse("ENTRA-TENANT-001", c.tenants = "no", "Warning")
          BY DEF userConsent
        <5>2. Below(PassIf("ENTRA-CONSENT-001", a.consent = "nothing")
                      \cup PassIf("ENTRA-APPREG-001", a.apps = "no"),
                    PassIf("ENTRA-CONSENT-001", b.consent = "nothing")
                      \cup PassIf("ENTRA-APPREG-001", b.apps = "no"))
          BY <4>2, <4>3, BelowUnion
        <5>3. Below((PassIf("ENTRA-CONSENT-001", a.consent = "nothing")
                       \cup PassIf("ENTRA-APPREG-001", a.apps = "no"))
                       \cup PassElse("ENTRA-GROUP-001", a.groups = "no", "Warning"),
                    (PassIf("ENTRA-CONSENT-001", b.consent = "nothing")
                       \cup PassIf("ENTRA-APPREG-001", b.apps = "no"))
                       \cup PassElse("ENTRA-GROUP-001", b.groups = "no", "Warning"))
          BY <4>4, <5>2, BelowUnion
        <5>4. QED
          BY <3>4, <4>1, <4>5, <5>1, <5>3, BelowUnion
      <4>7. QED
        BY <4>6, BelowRises
    <3>5. QED
      BY <3>3, <3>4
  <2>3. Lawful(FromPolicy(fields, checks))
    BY <2>1, <2>2, FromPolicyIsLawful DEF PolicyFields
  <2>4. QED
    BY <2>3 DEF runUserGroupChecks
<1>2. Lawful(runUserGroupChecks[2])
  <2> DEFINE checks == [a \in [enabled : BOOLEAN] |-> <<adminConsent(a)>>]
  <2>1. \A a \in [enabled : BOOLEAN] :
          Plain(adminConsent(a)) /\ ~(Stops \subseteq adminConsent(a))
    BY PlainRow, DemandingIds DEF adminConsent, PassElse, Row, Stops
  <2>2. \A a, b \in [enabled : BOOLEAN] : Stricter([enabled |-> YesIsSafe], a, b) =>
          NoBetter(adminConsent(a), adminConsent(b))
    BY YesRises, Rise DEF adminConsent, PassElse
  <2>3. PlainChecks(checks) /\ Stopless(checks)
    <3>1. \A a \in [enabled : BOOLEAN] :
            "policies" \notin DOMAIN a /\ "principals" \notin DOMAIN a
      OBVIOUS
    <3>2. QED
      BY <2>1, <3>1 DEF PlainChecks, Stopless
  <2>4. Rises([enabled |-> YesIsSafe], checks)
    BY <2>2 DEF Rises
  <2>5. QED
    BY <2>3, <2>4, QuietRows, OrderedRequest DEF runUserGroupChecks, Skipped
<1>3. Lawful(runUserGroupChecks[3])
  <2> DEFINE scales == [consent |-> <<"legacy", "low", "lowUnprefixed", "nothing">>]
             checks == [a \in Answers(scales) |-> <<verifiedPublishers(a)>>]
  <2>1. \A a \in Answers(scales) : DOMAIN a = {"consent"}
    BY AnswersAreOnScales
  <2>2. \A a : Plain(verifiedPublishers(a))
    BY PlainRow, DemandingIds DEF verifiedPublishers, PassElse
  <2>3. \A a, b \in Answers(scales) : Stricter(scales, a, b) =>
          NoBetter(verifiedPublishers(a), verifiedPublishers(b))
    BY <2>1, FourSteps, Rise DEF verifiedPublishers, PassElse
  <2>4. PlainChecks(checks) /\ Rises(scales, checks)
    BY <2>1, <2>2, <2>3 DEF PlainChecks, Rises
  <2>5. \A a \in Answers(scales) : ~(Stops \subseteq verifiedPublishers(a))
    BY DEF verifiedPublishers, PassElse, Row, Stops
  <2>6. Stopless(checks)
    BY <2>5 DEF Stopless
  <2>7. Lawful(Ordered(scales,
          Request(checks, Row("ENTRA-CONSENT-003", "Skipped"),
                  Row("ENTRA-CONSENT-003", "Skipped"))))
    BY <2>4, <2>6, QuietRows, OrderedRequest
  <2>8. QED
    BY <2>7 DEF runUserGroupChecks, Skipped
<1>4. Lawful(runUserGroupChecks[4])
  <2> DEFINE Counts == [grants : {0, 5, 6, 15, 16}]
             scales == [grants |-> <<16, 15, 6, 5, 0>>]
             checks == [a \in Counts |-> <<tenantWideGrants(a)>>]
  <2>1. \A a \in Counts : "policies" \notin DOMAIN a /\ "principals" \notin DOMAIN a
    OBVIOUS
  <2>2. \A a \in Counts : Plain(tenantWideGrants(a)) /\ ~(Stops \subseteq tenantWideGrants(a))
    BY PlainRow, DemandingIds DEF tenantWideGrants, Row, Stops
  <2>3. \A a, b \in Counts :
          Stricter(scales, a, b) => NoBetter(tenantWideGrants(a), tenantWideGrants(b))
    BY FiveSteps, Rise DEF tenantWideGrants
  <2> HIDE DEF Counts, scales
  <2>4. PlainChecks(checks) /\ Rises(scales, checks) /\ Stopless(checks)
    BY <2>1, <2>2, <2>3 DEF PlainChecks, Rises, Stopless
  <2>5. Lawful(Ordered(scales, Request(checks, Row("ENTRA-CONSENT-004", "Skipped"),
                                       Row("ENTRA-CONSENT-004", "Skipped"))))
    BY <2>4, QuietRows, OrderedRequest
  <2>6. QED
    BY <2>5 DEF runUserGroupChecks, Skipped, Counts, scales
<1>5. Lawful(runUserGroupChecks[5])
  <2>1. \A a : Plain(guestInvites(a))
    BY PlainRow, PlainRows, DemandingIds DEF guestInvites, PassElse, InviteStatus
  <2> DEFINE fields == {"invites", "guestRole"}
             checks == [a \in Part(fields) |-> <<guestInvites(a)>>]
             status(v) == IF v \in DOMAIN InviteStatus THEN InviteStatus[v] ELSE "Review"
  <2>2. ASSUME NEW a \in Part(fields), NEW b \in Part(fields), Stricter(PolicyScale, a, b)
        PROVE  NoBetter(guestInvites(a), guestInvites(b))
    <3>1. a.guestRole = b.guestRole \/ (a.guestRole = "member" /\ b.guestRole = "restricted")
      BY <2>2, PolicySteps DEF PolicyFields
    <3>2. PolicyScale["invites"] = InviteScale /\ "invites" \in DOMAIN a
      BY DEF PolicyScale, Part
    <3>3. \/ a.invites = b.invites
          \/ /\ a.invites = "everyone"
             /\ b.invites \in {"adminsGuestInvitersAndAllMembers", "adminsAndGuestInviters",
                              "none"}
          \/ /\ a.invites = "adminsGuestInvitersAndAllMembers"
             /\ b.invites \in {"adminsAndGuestInviters", "none"}
          \/ a.invites = "adminsAndGuestInviters" /\ b.invites = "none"
      BY <2>2, <3>2, InviteSteps
    <3>4. CASE a.invites = Unread
      <4>1. guestInvites(a) = NoRows
        BY <3>4 DEF guestInvites
      <4>2. QED
        BY <4>1, NoneRises
    <3>5. CASE a.invites # Unread
      <4>1. b.invites # Unread
        BY <3>3, <3>5 DEF Unread
      <4>2. /\ status("everyone") = "Warning"
            /\ status("adminsGuestInvitersAndAllMembers") = "Review"
            /\ status("adminsAndGuestInviters") = "Pass" /\ status("none") = "Pass"
        BY DEF InviteStatus
      <4>3. \A v : status(v) \in {"Warning", "Review", "Pass"}
        BY DEF InviteStatus
      <4> HIDE DEF status
      <4>4. Worth[status(a.invites)] <= Worth[status(b.invites)]
        BY <3>3, <4>2, <4>3 DEF Worth
      <4>5. Below(Row("ENTRA-GUEST-002", status(a.invites)),
                  Row("ENTRA-GUEST-002", status(b.invites)))
        BY <4>3, <4>4 DEF Below, Row, Marks, Stops, Returns, Leaves
      <4>6. Below(PassElse("ENTRA-GUEST-001", a.guestRole = "restricted", "Warning"),
                  PassElse("ENTRA-GUEST-001", b.guestRole = "restricted", "Warning"))
        BY <3>1, BelowRow DEF PassElse
      <4>7. Below(guestInvites(a), guestInvites(b))
        BY <3>5, <4>1, <4>5, <4>6, BelowUnion DEF guestInvites, status
      <4>8. QED
        BY <4>7, BelowRises
    <3>6. QED
      BY <3>4, <3>5
  <2>3. Lawful(FromPolicy(fields, checks))
    BY <2>1, <2>2, FromPolicyIsLawful DEF PolicyFields
  <2>4. QED
    BY <2>3 DEF runUserGroupChecks
<1>6. Lawful(runUserGroupChecks[6])
  <2>1. \A a : Plain(guestCount(a))
    BY PlainRow, DemandingIds DEF guestCount
  <2>2. QED
    BY <2>1, QuietRows, RequestIsLawful DEF runUserGroupChecks, Skipped
<1>7. Lawful(runUserGroupChecks[7])
  <2> DEFINE Settings == [disabled : BOOLEAN, orgSettings : {"cloud", "synced"}]
             checks   == [a \in Settings |-> <<linkedIn(a)>>]
             skipped  == Row("ENTRA-LINKEDIN-001", "Skipped")
  <2>1. \A a \in Settings : Plain(linkedIn(a)) /\ ~(Stops \subseteq linkedIn(a))
    BY PlainRow, DemandingIds DEF linkedIn, PassIf, Row, Stops
  <2>2. \A a, b \in Settings : Stricter([disabled |-> YesIsSafe], a, b) =>
          NoBetter(linkedIn(a), linkedIn(b))
    BY YesRises, Rise DEF linkedIn, PassIf
  <2>3. \A a \in Settings : "policies" \notin DOMAIN a /\ "principals" \notin DOMAIN a
    OBVIOUS
  <2> DEFINE scales == [disabled |-> YesIsSafe]
  <2> HIDE DEF Settings, scales
  <2>4. PlainChecks(checks) /\ Stopless(checks) /\ Rises(scales, checks)
    BY <2>1, <2>2, <2>3 DEF PlainChecks, Stopless, Rises, scales
  <2>5. Lawful(Ordered(scales, Request(checks, skipped, skipped)))
    BY <2>4, QuietRows, OrderedRequest
  <2>6. QED
    BY <2>5, StillLawful DEF runUserGroupChecks, Skipped, Settings, scales
<1>8. Lawful(runUserGroupChecks[8])
  <2>1. Quiet(perUserMfa)
    BY QuietRows DEF perUserMfa
  <2>2. PlainChecks(Always(<<perUserMfa>>))
    BY <2>1, QuietIsPlain DEF PlainChecks, Always
  <2>3. QED
    BY <2>1, <2>2, PlainRequest DEF runUserGroupChecks
<1>9. Lawful(runUserGroupChecks[9])
  <2>1. \A a : Plain(appsByUsers(a))
    BY PlainRow, PlainRows, DemandingIds DEF appsByUsers, PassIf
  <2> DEFINE checks == [a \in Part({"apps"}) |-> <<appsByUsers(a)>>]
  <2>2. ASSUME NEW a \in Part({"apps"}), NEW b \in Part({"apps"}), Stricter(PolicyScale, a, b)
        PROVE  NoBetter(appsByUsers(a), appsByUsers(b))
    <3>1. a.apps = b.apps \/ (a.apps = "yes" /\ b.apps = "no")
      BY <2>2, PolicySteps DEF PolicyFields
    <3>2. QED
      BY <3>1, Rise, NoneRises DEF appsByUsers, PassIf, Unread
  <2>3. Lawful(FromPolicy({"apps"}, checks))
    BY <2>1, <2>2, FromPolicyIsLawful DEF PolicyFields
  <2>4. QED
    BY <2>3 DEF runUserGroupChecks
<1>10. Lawful(runUserGroupChecks[10])
  <2> DEFINE Domains == [invites : {a.invites : a \in AuthPolicies \cup {UnreadPolicy}},
                         restrictedInbound : BOOLEAN]
             scales  == [invites |-> InviteScale, restrictedInbound |-> YesIsSafe]
             checks  == [a \in Domains |-> <<guestDomains(a)>>]
             skipped == Row("ENTRA-GUEST-004", "Skipped")
  <2>1. \A a : Plain(guestDomains(a)) /\ ~(Stops \subseteq guestDomains(a))
    BY PlainRow, DemandingIds DEF guestDomains, Row, Stops
  <2>2. /\ scales["invites"] = InviteScale /\ scales["restrictedInbound"] = YesIsSafe
    OBVIOUS
  <2> HIDE DEF scales
  <2>3. ASSUME NEW a \in Domains, NEW b \in Domains, Stricter(scales, a, b)
        PROVE  NoBetter(guestDomains(a), guestDomains(b))
    <3>1. a.restrictedInbound => b.restrictedInbound
      BY <2>2, <2>3, YesRises
    <3>2. \/ a.invites = b.invites
          \/ /\ a.invites = "everyone"
             /\ b.invites \in {"adminsGuestInvitersAndAllMembers", "adminsAndGuestInviters",
                              "none"}
          \/ /\ a.invites = "adminsGuestInvitersAndAllMembers"
             /\ b.invites \in {"adminsAndGuestInviters", "none"}
          \/ a.invites = "adminsAndGuestInviters" /\ b.invites = "none"
      BY <2>2, <2>3, InviteSteps
    <3>3. QED
      BY <3>1, <3>2, Rise DEF guestDomains
  <2>4. \A a \in Domains : "policies" \notin DOMAIN a /\ "principals" \notin DOMAIN a
    OBVIOUS
  <2> HIDE DEF Domains
  <2>5. PlainChecks(checks) /\ Stopless(checks) /\ Rises(scales, checks)
    BY <2>1, <2>3, <2>4 DEF PlainChecks, Stopless, Rises
  <2>6. Lawful(Ordered(scales, Request(checks, skipped, skipped)))
    BY <2>5, QuietRows, OrderedRequest
  <2>7. QED
    BY <2>6, StillLawful DEF runUserGroupChecks, Skipped, scales, Domains
<1>11. Lawful(runUserGroupChecks[11])
  <2> DEFINE checks == [a \in [found : BOOLEAN] |-> <<dynamicGuestGroup(a)>>]
  <2>1. \A a \in [found : BOOLEAN] :
          Plain(dynamicGuestGroup(a)) /\ ~(Stops \subseteq dynamicGuestGroup(a))
    BY PlainRow, DemandingIds DEF dynamicGuestGroup, PassIf, Row, Stops
  <2>2. \A a, b \in [found : BOOLEAN] : Stricter([found |-> YesIsSafe], a, b) =>
          NoBetter(dynamicGuestGroup(a), dynamicGuestGroup(b))
    BY YesRises, Rise DEF dynamicGuestGroup, PassIf
  <2>3. PlainChecks(checks) /\ Stopless(checks)
    <3>1. \A a \in [found : BOOLEAN] : "policies" \notin DOMAIN a /\ "principals" \notin DOMAIN a
      OBVIOUS
    <3>2. QED
      BY <2>1, <3>1 DEF PlainChecks, Stopless
  <2>4. Rises([found |-> YesIsSafe], checks)
    BY <2>2 DEF Rises
  <2>5. QED
    BY <2>3, <2>4, QuietRows, OrderedRequest DEF runUserGroupChecks, Skipped
<1>12. Lawful(runUserGroupChecks[12])
  <2>1. \A a : Plain(ownedGroups(a))
    BY PlainRow, DemandingIds DEF ownedGroups, PassIf
  <2>2. QED
    BY <2>1, QuietRows, RequestIsLawful DEF runUserGroupChecks, Skipped
<1>13. Lawful(runUserGroupChecks[13])
  <2> DEFINE scales == [consent |-> <<"legacy", "low", "lowUnprefixed", "nothing">>]
             checks == [a \in Answers(scales) |-> <<orgConsent(a)>>]
  <2>1. \A a \in Answers(scales) : DOMAIN a = {"consent"}
    BY AnswersAreOnScales
  <2>2. \A a : Plain(orgConsent(a))
    BY PlainRow, DemandingIds DEF orgConsent, PassIf
  <2>3. \A a, b \in Answers(scales) : Stricter(scales, a, b) =>
          NoBetter(orgConsent(a), orgConsent(b))
    BY <2>1, FourSteps, Rise DEF orgConsent, PassIf
  <2>4. PlainChecks(checks) /\ Rises(scales, checks)
    BY <2>1, <2>2, <2>3 DEF PlainChecks, Rises
  <2>5. \A a \in Answers(scales) : ~(Stops \subseteq orgConsent(a))
    BY DEF orgConsent, PassIf, Row, Stops
  <2>6. Stopless(checks)
    BY <2>5 DEF Stopless
  <2>7. Lawful(Ordered(scales,
          Request(checks, Row("ENTRA-ORGSETTING-001", "Skipped"),
                  Row("ENTRA-ORGSETTING-001", "Skipped"))))
    BY <2>4, <2>6, QuietRows, OrderedRequest
  <2>8. QED
    BY <2>7 DEF runUserGroupChecks, Skipped
<1>14. Lawful(runUserGroupChecks[14])
  BY QuietRows, StaticIsLawful DEF runUserGroupChecks
<1>15. Lawful(runUserGroupChecks[15])
  <2>1. \A a : Plain(disabledAccounts(a))
    BY PlainRow, DemandingIds, PlainRows DEF disabledAccounts
  <2>2. QED
    BY <2>1, QuietRows, RequestIsLawful DEF runUserGroupChecks, Skipped
<1>16. Len(runUserGroupChecks) = 15
  BY DEF runUserGroupChecks
<1>17. QED
  BY <1>1, <1>2, <1>3, <1>4, <1>5, <1>6, <1>7, <1>8, <1>9, <1>10, <1>11, <1>12, <1>13, <1>14,
     <1>15, <1>16
  DEF AllLawful

LEMMA EntraGroupAdditionalIsLawful == AllLawful(entraGroupAdditional)
<1>1. Lawful(entraGroupAdditional[1])
  <2>1. \A a \in [selfControlled : BOOLEAN] : Plain(dynamicMembership(a))
    BY PlainRow, DemandingIds DEF dynamicMembership, PassIf
  <2>2. \A a, b \in [selfControlled : BOOLEAN] :
          Stricter([selfControlled |-> NoIsSafe], a, b) =>
            NoBetter(dynamicMembership(a), dynamicMembership(b))
    BY NoRises, Rise DEF dynamicMembership, PassIf
  <2>3. QED
    BY <2>1, <2>2, OrderedIsLawful, QuietRows DEF entraGroupAdditional
<1>2. Lawful(entraGroupAdditional[2])
  <2>1. \A a \in [unprotected : BOOLEAN] : Plain(sensitiveGroups(a))
    BY PlainRow, DemandingIds DEF sensitiveGroups, PassIf
  <2>2. \A a, b \in [unprotected : BOOLEAN] :
          Stricter([unprotected |-> NoIsSafe], a, b) =>
            NoBetter(sensitiveGroups(a), sensitiveGroups(b))
    BY NoRises, Rise DEF sensitiveGroups, PassIf
  <2>3. QED
    BY <2>1, <2>2, OrderedIsLawful, QuietRows DEF entraGroupAdditional
<1>3. Lawful(entraGroupAdditional[3])
  <2>1. \A a \in [public : {0, 1, 5, 6}] : Plain(publicGroups(a))
    BY PlainRow, DemandingIds DEF publicGroups
  <2>2. \A a, b \in [public : {0, 1, 5, 6}] :
          Stricter([public |-> <<6, 5, 1, 0>>], a, b) =>
            NoBetter(publicGroups(a), publicGroups(b))
    BY FourSteps, Rise DEF publicGroups
  <2>3. QED
    BY <2>1, <2>2, OrderedIsLawful, QuietRows DEF entraGroupAdditional
<1>4. Lawful(entraGroupAdditional[4])
  <2>1. \A a \in [synced : BOOLEAN] : Plain(syncedGlobalAdmins(a))
    BY PlainRow, DemandingIds DEF syncedGlobalAdmins, PassIf
  <2>2. \A a, b \in [synced : BOOLEAN] :
          Stricter([synced |-> NoIsSafe], a, b) =>
            NoBetter(syncedGlobalAdmins(a), syncedGlobalAdmins(b))
    BY NoRises, Rise DEF syncedGlobalAdmins, PassIf
  <2>3. QED
    BY <2>1, <2>2, OrderedIsLawful, QuietRows DEF entraGroupAdditional
<1>5. Len(entraGroupAdditional) = 4
  BY DEF entraGroupAdditional
<1>6. QED
  BY <1>1, <1>2, <1>3, <1>4, <1>5 DEF AllLawful

LEMMA EntraTouConfigIsLawful == AllLawful(entraTouConfig)
<1>1. Lawful(entraTouConfig[1])
  <2>1. \A a \in [agreements : {"none", "others", "acceptedBeforeViewing"}] : Plain(termsOfUse(a))
    BY PlainRow, DemandingIds DEF termsOfUse
  <2>2. \A a, b \in [agreements : {"none", "others", "acceptedBeforeViewing"}] :
          Stricter([agreements |-> <<"none", "others", "acceptedBeforeViewing">>], a, b) =>
            NoBetter(termsOfUse(a), termsOfUse(b))
    BY ThreeSteps, Rise DEF termsOfUse
  <2>3. QED
    BY <2>1, <2>2, OrderedIsLawful, QuietRows DEF entraTouConfig
<1>2. Len(entraTouConfig) = 1
  BY DEF entraTouConfig
<1>3. QED
  BY <1>1, <1>2 DEF AllLawful

LEMMA EntraFinalBatchIsLawful == AllLawful(entraFinalBatch)
<1>1. Len(FinalIds) = 10
  BY DEF FinalIds
<1>2. Len(entraFinalBatch) = 10
  BY <1>1 DEF entraFinalBatch
<1>3. ASSUME NEW i \in 1..10 PROVE Lawful(entraFinalBatch[i])
  <2> DEFINE rows == Row(FinalIds[i], "Review")
  <2>1. Quiet(rows)
    BY QuietRows
  <2>2. PlainChecks(Always(<<rows>>))
    BY <2>1, QuietIsPlain DEF PlainChecks, Always
  <2>3. Lawful(Request(Always(<<rows>>), rows, rows))
    BY <2>1, <2>2, PlainRequest
  <2>4. entraFinalBatch[i] = Request(Always(<<rows>>), rows, rows)
    BY <1>1 DEF entraFinalBatch
  <2>5. QED
    BY <2>3, <2>4
<1>4. QED
  BY <1>2, <1>3 DEF AllLawful

LEMMA UserSummaryIsLawful == AllLawful(userSummary)
<1>1. Lawful(userSummary[1])
  <2>1. \A a \in [signIns : BOOLEAN] : Plain(usersCounted(a))
    BY PlainRow, DemandingIds DEF usersCounted
  <2>2. QED
    BY <2>1, RequestIsLawful, QuietRows DEF userSummary
<1>2. Len(userSummary) = 1
  BY DEF userSummary
<1>3. QED
  BY <1>1, <1>2 DEF AllLawful

-----------------------------------------------------------------------------
(* The other collectors of EnterpriseApps *)

LEMMA AppRegistrationReportIsLawful == AllLawful(appRegistrationReport)
<1>1. Lawful(appRegistrationReport[1])
  <2>1. \A a \in [registrations : RegistrationSets] : Plain(registered(a))
    BY PlainRow, DemandingIds, PlainRows DEF registered
  <2>2. QED
    BY <2>1, RequestIsLawful, QuietRows DEF appRegistrationReport
<1>2. Len(appRegistrationReport) = 1
  BY DEF appRegistrationReport
<1>3. QED
  BY <1>1, <1>2 DEF AllLawful

LEMMA EntraMfaConsentAdditionalIsLawful == AllLawful(entraMfaConsentAdditional)
<1>1. Lawful(entraMfaConsentAdditional[1])
  <2> DEFINE Shares == Answers(MfaScales) \cup [withoutMfa : {NoUsers}]
  <2>1. \A a \in Shares : DOMAIN a = {"withoutMfa"}
    BY AnswersAreOnScales DEF MfaScales, NoUsers
  <2>2. \A a : Plain(mfaShare(a))
    BY PlainRow, DemandingIds DEF mfaShare
  <2>3. ASSUME NEW a \in Shares, NEW b \in Shares, Stricter(MfaScales, a, b)
        PROVE  NoBetter(mfaShare(a), mfaShare(b))
    <3>1. \/ a.withoutMfa = b.withoutMfa
          \/ a.withoutMfa = 21 /\ b.withoutMfa \in {20, 6, 5, 0}
          \/ a.withoutMfa = 20 /\ b.withoutMfa \in {6, 5, 0}
          \/ a.withoutMfa = 6 /\ b.withoutMfa \in {5, 0}
          \/ a.withoutMfa = 5 /\ b.withoutMfa = 0
      BY <2>1, <2>3, FiveSteps DEF MfaScales
    <3>2. QED
      BY <3>1, Rise DEF mfaShare, NoUsers
  <2>4. Lawful(Ordered(MfaScales, Request([a \in Shares |-> <<mfaShare(a)>>],
                                          Row("ENTRA-MFA-002", "Review"), NoRows)))
    BY <2>1, <2>2, <2>3, QuietRows, OrderedIsLawful
  <2>5. QED
    BY <2>4 DEF entraMfaConsentAdditional
<1>2. Lawful(entraMfaConsentAdditional[2])
  <2>1. \A a \in Answers(ConsentScales) : DOMAIN a = {"reviewers", "enabled"}
    BY AnswersAreOnScales DEF ConsentScales
  <2>2. \A a : Plain(consentReviewers(a))
    BY PlainRow, DemandingIds DEF consentReviewers, PassIf
  <2>3. ASSUME NEW a \in Answers(ConsentScales), NEW b \in Answers(ConsentScales),
               Stricter(ConsentScales, a, b)
        PROVE  NoBetter(consentReviewers(a), consentReviewers(b))
    <3>1. (a.reviewers => b.reviewers) /\ (a.enabled => b.enabled)
      BY <2>1, <2>3, YesRises DEF ConsentScales
    <3>2. QED
      BY <3>1, Rise DEF consentReviewers, PassIf
  <2> DEFINE checks == [a \in Answers(ConsentScales) |-> <<consentReviewers(a)>>]
  <2>4. PlainChecks(checks) /\ Rises(ConsentScales, checks)
    BY <2>1, <2>2, <2>3 DEF PlainChecks, Rises
  <2>5. Lawful(Ordered(ConsentScales,
          Request(checks, Row("ENTRA-CONSENT-005", "Review"), NoRows)))
    BY <2>4, QuietRows, OrderedRequest
  <2>6. QED
    BY <2>5 DEF entraMfaConsentAdditional
<1>3. Lawful(entraMfaConsentAdditional[3])
  <2> DEFINE Notify == Answers(NotifyScales) \cup [enabled : BOOLEAN, notify : {"absent"}]
             checks == [a \in Notify |-> <<consentNotifies(a)>>]
  <2>1. \A a \in Notify : DOMAIN a = {"enabled", "notify"}
    BY AnswersAreOnScales DEF NotifyScales
  <2>2. \A a : Plain(consentNotifies(a))
    BY PlainRow, DemandingIds DEF consentNotifies, PassElse
  <2>3. NotifyScales["enabled"] = YesIsSafe /\ NotifyScales["notify"] = <<"off", "on">>
    BY DEF NotifyScales
  <2>4. ASSUME NEW a \in Notify, NEW b \in Notify, Stricter(NotifyScales, a, b)
        PROVE  NoBetter(consentNotifies(a), consentNotifies(b))
    <3>1. a.enabled => b.enabled
      BY <2>1, <2>3, <2>4, YesRises
    <3>2. a.notify = b.notify \/ (a.notify = "off" /\ b.notify = "on")
      BY <2>1, <2>3, <2>4, TwoSteps
    <3>3. QED
      BY <3>1, <3>2, Rise DEF consentNotifies, PassElse
  <2> HIDE DEF Notify
  <2>5. PlainChecks(checks) /\ Rises(NotifyScales, checks)
    BY <2>1, <2>2, <2>4 DEF PlainChecks, Rises
  <2>6. Lawful(Ordered(NotifyScales,
          Request(checks, Row("ENTRA-CONSENT-006", "Review"), NoRows)))
    BY <2>5, QuietRows, OrderedRequest
  <2>7. QED
    BY <2>6 DEF entraMfaConsentAdditional, Notify
<1>4. Lawful(entraMfaConsentAdditional[4])
  <2>1. \A a \in Emergency : Plain(emergencyAdmins(a))
    BY PlainRow, DemandingIds DEF emergencyAdmins, PassIf, Emergency
  <2> DEFINE checks == [a \in Emergency |-> <<emergencyAdmins(a)>>]
  <2>2. /\ EmergencyScales["activated"] = YesIsSafe
        /\ EmergencyScales["emergency"] = <<0, 1, 2>>
        /\ EmergencyScales["cloudOnly"] = <<0, 1, 2>>
    BY DEF EmergencyScales
  <2>3. ASSUME NEW a \in Emergency, NEW b \in Emergency, Stricter(EmergencyScales, a, b),
               ~FirstNamed(a, b)
        PROVE  NoBetter(emergencyAdmins(a), emergencyAdmins(b))
    <3>1. a.activated => b.activated
      BY <2>2, <2>3, YesRises DEF Emergency
    <3>2. /\ a.emergency \in 0..2 /\ b.emergency \in 0..2
          /\ a.cloudOnly \in 0..2 /\ b.cloudOnly \in 0..2
      BY DEF Emergency
    <3>3. a.emergency <= b.emergency
      BY <2>2, <2>3, <3>2, ThreeSteps DEF Emergency
    <3>4. a.cloudOnly <= b.cloudOnly
      BY <2>2, <2>3, <3>2, ThreeSteps DEF Emergency
    <3>5. a.emergency = 0 => b.emergency = 0
      BY <2>3, <3>2 DEF FirstNamed, Emergency
    <3>6. QED
      BY <3>1, <3>2, <3>3, <3>4, <3>5, Rise DEF emergencyAdmins, PassIf
  <2>4. \A a \in Emergency : "policies" \notin DOMAIN a /\ "principals" \notin DOMAIN a
    BY DEF Emergency
  <2>5. PlainChecks(checks) /\ Rises(EmergencyScales, checks)
    BY <2>1, <2>3, <2>4 DEF PlainChecks, Rises
  <2>6. Lawful(Ordered(EmergencyScales,
          Request(checks, Row("ENTRA-ADMIN-003", "Review"), NoRows)))
    BY <2>5, QuietRows, OrderedRequest
  <2>7. QED
    BY <2>6 DEF entraMfaConsentAdditional
<1>5. Lawful(entraMfaConsentAdditional[5])
  <2>1. \A a \in [mentionsIntuneWrite : BOOLEAN] : Plain(intuneWrite(a))
    BY PlainRow, DemandingIds DEF intuneWrite, PassIf
  <2>2. \A a, b \in [mentionsIntuneWrite : BOOLEAN] :
          Stricter([mentionsIntuneWrite |-> NoIsSafe], a, b) =>
            NoBetter(intuneWrite(a), intuneWrite(b))
    BY NoRises, Rise DEF intuneWrite, PassIf
  <2>3. QED
    BY <2>1, <2>2, OrderedIsLawful, QuietRows DEF entraMfaConsentAdditional
<1>6. Len(entraMfaConsentAdditional) = 5
  BY DEF entraMfaConsentAdditional
<1>7. QED
  BY <1>1, <1>2, <1>3, <1>4, <1>5, <1>6 DEF AllLawful

-----------------------------------------------------------------------------
(* Workloads *)

LEMMA RunTenantInfoIsLawful == AllLawful(runTenantInfo)
<1>1. Lawful(runTenantInfo[1])
  BY QuietRows, CallIsLawful DEF runTenantInfo
<1>2. Lawful(runTenantInfo[2])
  BY QuietRows, CallIsLawful DEF runTenantInfo
<1>3. Lawful(runTenantInfo[3])
  BY QuietRows, CallIsLawful, StillLawful DEF runTenantInfo
<1>4. Lawful(runTenantInfo[4])
  <2>1. \A a \in Reported : Plain(organization(a))
    BY PlainRow, DemandingIds, PlainRows DEF organization, reported, Reported
  <2>2. QED
    BY <2>1, RequestIsLawful, QuietRows, StillLawful DEF runTenantInfo, Reported
<1>5. Len(runTenantInfo) = 4
  BY DEF runTenantInfo
<1>6. QED
  BY <1>1, <1>2, <1>3, <1>4, <1>5 DEF AllLawful

LEMMA RunLicenseReportIsLawful == AllLawful(runLicenseReport)
<1>1. Lawful(runLicenseReport[1])
  <2>1. \A a \in Reported : Plain(licences(a))
    BY PlainRow, DemandingIds, PlainRows DEF licences, reported, Reported
  <2>2. QED
    BY <2>1, RequestIsLawful, QuietRows DEF runLicenseReport, Reported
<1>2. Len(runLicenseReport) = 1
  BY DEF runLicenseReport
<1>3. QED
  BY <1>1, <1>2 DEF AllLawful

LEMMA RunSecureScoreReportIsLawful == AllLawful(runSecureScoreReport)
<1>1. Lawful(runSecureScoreReport[1])
  <2>1. \A a \in Reported : Plain(secureScores(a))
    BY PlainRow, DemandingIds, PlainRows DEF secureScores, Reported
  <2>2. QED
    BY <2>1, RequestIsLawful, QuietRows DEF runSecureScoreReport, Reported
<1>2. Lawful(runSecureScoreReport[2])
  <2>1. \A a : Plain(scoreReported(a))
    BY PlainRow DEF scoreReported
  <2>2. PlainChecks([a \in {<<>>} |-> <<scoreReported(a)>>])
    BY <2>1 DEF PlainChecks
  <2>3. QED
    BY <2>2, QuietRows, PlainRequest DEF runSecureScoreReport
<1>3. Len(runSecureScoreReport) = 2
  BY DEF runSecureScoreReport
<1>4. QED
  BY <1>1, <1>2, <1>3 DEF AllLawful

LEMMA StatusSteps ==
  ASSUME NEW a \in ControlProfiles, NEW b \in ControlProfiles,
         Stricter([control |-> Statuses], a, b)
  PROVE  a.control = b.control \/ (a.control = "NotImplemented" /\ b.control = "Implemented")
<1>1. "control" \in DOMAIN a
  BY DEF ControlProfiles
<1>2. QED
  BY <1>1, TwoSteps DEF Statuses

LEMMA RunDefenderSecurityConfigIsLawful == AllLawful(runDefenderSecurityConfig)
<1>1. Lawful(runDefenderSecurityConfig[1])
  <2>1. \A a \in Reported : Plain(controlProfiles(a))
    BY PlainRow, DemandingIds, PlainRows DEF controlProfiles, Reported
  <2>2. QED
    BY <2>1, RequestIsLawful, QuietRows DEF runDefenderSecurityConfig, Reported
<1>2. Lawful(runDefenderSecurityConfig[2])
  <2>1. \A a \in ControlProfiles : Plain(antiPhishing(a))
    BY PlainRow, DemandingIds DEF antiPhishing, control, matchesImplemented
  <2>2. \A a, b \in ControlProfiles :
          Stricter([control |-> Statuses], a, b) => NoBetter(antiPhishing(a), antiPhishing(b))
    BY StatusSteps, Rise DEF antiPhishing, control, matchesImplemented
  <2>3. QED
    BY <2>1, <2>2, QuietRows, OrderedIsLawful, StillLawful
    DEF runDefenderSecurityConfig, ControlProfiles
<1>3. Lawful(runDefenderSecurityConfig[3])
  <2>1. \A a \in ControlProfiles : Plain(antiSpam(a))
    BY PlainRow, DemandingIds DEF antiSpam, control, matchesImplemented
  <2>2. \A a, b \in ControlProfiles :
          Stricter([control |-> Statuses], a, b) => NoBetter(antiSpam(a), antiSpam(b))
    BY StatusSteps, Rise DEF antiSpam, control, matchesImplemented
  <2>3. QED
    BY <2>1, <2>2, QuietRows, OrderedIsLawful, StillLawful
    DEF runDefenderSecurityConfig, ControlProfiles
<1>4. Lawful(runDefenderSecurityConfig[4])
  <2>1. \A a \in ControlProfiles : Plain(safeLinks(a))
    BY PlainRow, DemandingIds DEF safeLinks, control, matchesImplemented
  <2>2. \A a, b \in ControlProfiles :
          Stricter([control |-> Statuses], a, b) => NoBetter(safeLinks(a), safeLinks(b))
    BY StatusSteps, Rise DEF safeLinks, control, matchesImplemented
  <2>3. QED
    BY <2>1, <2>2, QuietRows, OrderedIsLawful, StillLawful
    DEF runDefenderSecurityConfig, ControlProfiles
<1>5. Lawful(runDefenderSecurityConfig[5])
  <2>1. \A a \in ControlProfiles : Plain(safeAttachments(a))
    BY PlainRow, DemandingIds DEF safeAttachments, control, matchesImplemented
  <2>2. \A a, b \in ControlProfiles :
          Stricter([control |-> Statuses], a, b) =>
            NoBetter(safeAttachments(a), safeAttachments(b))
    BY StatusSteps, Rise DEF safeAttachments, control, matchesImplemented
  <2>3. QED
    BY <2>1, <2>2, QuietRows, OrderedIsLawful, StillLawful
    DEF runDefenderSecurityConfig, ControlProfiles
<1>6. Len(runDefenderSecurityConfig) = 5
  BY DEF runDefenderSecurityConfig
<1>7. QED
  BY <1>1, <1>2, <1>3, <1>4, <1>5, <1>6 DEF AllLawful

LEMMA RunDefenderDropBatchIsLawful == AllLawful(runDefenderDropBatch)
<1>1. Lawful(runDefenderDropBatch[1])
  BY QuietRows, StaticIsLawful DEF runDefenderDropBatch
<1>2. Len(runDefenderDropBatch) = 1
  BY DEF runDefenderDropBatch
<1>3. QED
  BY <1>1, <1>2 DEF AllLawful

LEMMA RunComplianceSecurityConfigIsLawful == AllLawful(runComplianceSecurityConfig)
<1>1. Lawful(runComplianceSecurityConfig[1])
  <2>1. \A a \in Reported : Plain(unifiedAudit(a))
    BY PlainRow, DemandingIds DEF unifiedAudit, Reported
  <2>2. QED
    BY <2>1, RequestIsLawful, QuietRows DEF runComplianceSecurityConfig, Reported
<1>2. Lawful(runComplianceSecurityConfig[2])
  <2>1. \A a : Plain(dlpPolicies(a)) /\ Plain(dlpTeams(a)) /\ Plain(dlpWorkloads(a))
    BY PlainRow DEF dlpPolicies, dlpTeams, dlpWorkloads
  <2>2. PlainChecks([a \in {<<>>} |-> <<dlpPolicies(a), dlpTeams(a), dlpWorkloads(a)>>])
    BY <2>1 DEF PlainChecks
  <2>3. QED
    BY <2>2, QuietRows, PlainRequest DEF runComplianceSecurityConfig
<1>3. Lawful(runComplianceSecurityConfig[3])
  <2>1. \A a \in Reported : Plain(labels(a))
    BY PlainRow, DemandingIds DEF labels, PassIf, Reported
  <2>2. \A a, b \in Reported :
          Stricter([listed |-> YesIsSafe], a, b) => NoBetter(labels(a), labels(b))
    BY YesRises, Rise DEF labels, PassIf, Reported
  <2>3. QED
    BY <2>1, <2>2, OrderedIsLawful, QuietRows DEF runComplianceSecurityConfig, Reported
<1>4. Lawful(runComplianceSecurityConfig[4])
  <2>1. \A a \in [alerts : SUBSET {"active", "closed"}] : Plain(activeAlerts(a))
    BY PlainRow, DemandingIds DEF activeAlerts, PassIf
  <2>2. QED
    BY <2>1, RequestIsLawful, QuietRows DEF runComplianceSecurityConfig
<1>5. Lawful(runComplianceSecurityConfig[5])
  BY QuietRows, StaticIsLawful DEF runComplianceSecurityConfig
<1>6. Len(runComplianceSecurityConfig) = 5
  BY DEF runComplianceSecurityConfig
<1>7. QED
  BY <1>1, <1>2, <1>3, <1>4, <1>5, <1>6 DEF AllLawful

LEMMA RunExchangeSecurityConfigIsLawful == AllLawful(runExchangeSecurityConfig)
<1>1. Lawful(runExchangeSecurityConfig[1])
  <2> DEFINE scales == [modernAuth |-> <<"off", "unset", "on">>,
                        audit |-> <<"off", "unset", "on">>]
             checks == [a \in OrgSettings |-> <<modernAuth(a), orgAudit(a)>>]
  <2>1. PlainChecks(checks)
    <3>1. \A a \in OrgSettings : Plain(modernAuth(a)) /\ Plain(orgAudit(a))
      BY PlainRow, DemandingIds DEF modernAuth, orgAudit, onOff
    <3>2. QED
      BY <3>1 DEF PlainChecks, OrgSettings
  <2>2. Rises(scales, checks)
    <3>1. \A a, b \in OrgSettings : Stricter(scales, a, b) =>
            NoBetter(modernAuth(a), modernAuth(b)) /\ NoBetter(orgAudit(a), orgAudit(b))
      BY ThreeSteps, Rise DEF modernAuth, orgAudit, onOff, OrgSettings
    <3>2. QED
      BY <3>1 DEF Rises
  <2>3. /\ Quiet(AllRows({"EXO-AUTH-001", "EXO-AUDIT-001"}, "Skipped"))
        /\ Unjudging(AllRows({"EXO-AUTH-001", "EXO-AUDIT-001"}, "Warning"))
    BY QuietRows, QuietIsPlain
  <2>4. QED
    BY <2>1, <2>2, <2>3, QuietRows, OrderedRequest, DecliningIsLawful
    DEF runExchangeSecurityConfig
<1>2. Lawful(runExchangeSecurityConfig[2])
  <2>1. \A a \in Reported : Plain(lockbox(a))
    BY PlainRow, DemandingIds DEF lockbox, Reported
  <2>2. QED
    BY <2>1, RequestIsLawful, QuietRows DEF runExchangeSecurityConfig, Reported
<1>3. Lawful(runExchangeSecurityConfig[3])
  BY QuietRows, StaticIsLawful DEF runExchangeSecurityConfig
<1>4. Lawful(runExchangeSecurityConfig[4])
  <2>1. \A a \in Users :
          Plain(sharedMailboxes(a)) /\ Plain(mailboxAudit(a)) /\ Plain(hiddenMailboxes(a))
    BY PlainRow, DemandingIds DEF sharedMailboxes, mailboxAudit, hiddenMailboxes, PassElse
  <2> DEFINE scales  == [enabled |-> NoIsSafe]
             UserIds == {"EXO-SHAREDMBX-001", "EXO-AUDIT-003", "EXO-HIDDEN-001"}
             checks  == [a \in Users |->
                           <<sharedMailboxes(a), mailboxAudit(a), hiddenMailboxes(a)>>]
  <2>2. PlainChecks(checks)
    BY <2>1 DEF PlainChecks, Users
  <2>3. Stopless(checks)
    <3>1. \A a \in Users : /\ ~(Stops \subseteq sharedMailboxes(a))
                          /\ ~(Stops \subseteq mailboxAudit(a))
                          /\ ~(Stops \subseteq hiddenMailboxes(a))
      BY DEF sharedMailboxes, mailboxAudit, hiddenMailboxes, PassElse, Row, Stops
    <3>2. QED
      BY <3>1 DEF Stopless
  <2>4. scales["enabled"] = NoIsSafe /\ DOMAIN scales = {"enabled"}
    OBVIOUS
  <2> HIDE DEF scales
  <2>5. Rises(scales, checks)
    <3>1. ASSUME NEW a \in Users, NEW b \in Users, Stricter(scales, a, b)
          PROVE  NoBetter(sharedMailboxes(a), sharedMailboxes(b))
      <4>1. b.enabled => a.enabled
        BY <2>4, <3>1, NoRises DEF Users
      <4>2. a.users = b.users
        BY <2>4, <3>1, OffScale DEF Users
      <4>3. QED
        BY <4>1, <4>2, Rise DEF sharedMailboxes, PassElse
    <3>2. \A a, b : /\ NoBetter(mailboxAudit(a), mailboxAudit(b))
                    /\ NoBetter(hiddenMailboxes(a), hiddenMailboxes(b))
      BY SameRises DEF mailboxAudit, hiddenMailboxes
    <3>3. QED
      BY <3>1, <3>2 DEF Rises
  <2>6. Lawful(Ordered(scales,
          Request(checks, AllRows(UserIds, "Skipped"), AllRows(UserIds, "Review"))))
    BY <2>2, <2>3, <2>5, QuietRows, OrderedRequest
  <2>7. QED
    BY <2>6 DEF runExchangeSecurityConfig, scales
<1>5. Len(runExchangeSecurityConfig) = 4
  BY DEF runExchangeSecurityConfig
<1>6. QED
  BY <1>1, <1>2, <1>3, <1>4, <1>5 DEF AllLawful

LEMMA RunExchangeDropBatchIsLawful == AllLawful(runExchangeDropBatch)
<1>1. Lawful(runExchangeDropBatch[1])
  BY QuietRows, StaticIsLawful DEF runExchangeDropBatch
<1>2. Len(runExchangeDropBatch) = 1
  BY DEF runExchangeDropBatch
<1>3. QED
  BY <1>1, <1>2 DEF AllLawful

LEMMA InventoriesAreLawful ==
  /\ AllLawful(runMailboxInventory) /\ AllLawful(runOneDriveInventory)
  /\ AllLawful(runSharePointInventory) /\ AllLawful(runTeamsInventory)
  /\ AllLawful(runGroupInventory)
<1>1. \A a \in Reported : Plain(inventoried(a))
  BY PlainRow DEF inventoried
<1>2. Lawful(Inventory)
  BY <1>1, QuietRows, RequestIsLawful DEF Inventory, Reported
<1>3. /\ Lawful(runMailboxInventory[1]) /\ Lawful(runMailboxInventory[2])
      /\ Len(runMailboxInventory) = 2
  BY <1>1, QuietRows, CallIsLawful, RequestIsLawful DEF runMailboxInventory, Reported
<1>4. QED
  BY <1>2, <1>3, OneRequestIsLawful
  DEF AllLawful, runOneDriveInventory, runSharePointInventory, runTeamsInventory,
      runGroupInventory

LEMMA RunRemainingDropBatchIsLawful == AllLawful(runRemainingDropBatch)
<1>1. Lawful(runRemainingDropBatch[1])
  BY QuietRows, StaticIsLawful DEF runRemainingDropBatch
<1>2. Len(runRemainingDropBatch) = 1
  BY DEF runRemainingDropBatch
<1>3. QED
  BY <1>1, <1>2 DEF AllLawful

\* What is wanted of a setting is one of the two.
LEMMA TenantSettingIsLawful ==
  ASSUME NEW id, id \notin Demanding, wanted[id] \in {"on", "off"}
  PROVE  Lawful(judgedSetting(id))
<1> DEFINE scale == IF wanted[id] = "on" THEN <<"off", "on">> ELSE <<"on", "off">>
<1>1. \A a \in [setting : getTenantSetting] : Plain(tenantSetting(id, a))
  BY PlainRow DEF tenantSetting
<1>2. \A a, b \in [setting : getTenantSetting] :
        Stricter([setting |-> scale], a, b) =>
          NoBetter(tenantSetting(id, a), tenantSetting(id, b))
  BY TwoSteps, Rise DEF tenantSetting, getTenantSetting
<1>3. QED
  BY <1>1, <1>2, QuietRows, OrderedIsLawful, StillLawful DEF judgedSetting

LEMMA RunPowerBISecurityConfigIsLawful == AllLawful(runPowerBISecurityConfig)
<1>0. \A id \in DOMAIN wanted : id \notin Demanding /\ wanted[id] \in {"on", "off"}
  BY DemandingIds DEF wanted
<1>1. Lawful(runPowerBISecurityConfig[1])
  BY QuietRows, CallIsLawful DEF emitNotLicensed, emitSkippedGeneric,
      runPowerBISecurityConfig
<1>2. Lawful(runPowerBISecurityConfig[2])
  BY <1>0, TenantSettingIsLawful DEF runPowerBISecurityConfig, wanted
<1>3. Lawful(runPowerBISecurityConfig[3])
  BY <1>0, TenantSettingIsLawful DEF runPowerBISecurityConfig, wanted
<1>4. Lawful(runPowerBISecurityConfig[4])
  BY <1>0, TenantSettingIsLawful DEF runPowerBISecurityConfig, wanted
<1>5. Lawful(runPowerBISecurityConfig[5])
  BY <1>0, TenantSettingIsLawful DEF runPowerBISecurityConfig, wanted
<1>6. Lawful(runPowerBISecurityConfig[6])
  BY <1>0, TenantSettingIsLawful DEF runPowerBISecurityConfig, wanted
<1>7. Lawful(runPowerBISecurityConfig[7])
  BY <1>0, TenantSettingIsLawful DEF runPowerBISecurityConfig, wanted
<1>8. Lawful(runPowerBISecurityConfig[8])
  BY <1>0, TenantSettingIsLawful DEF runPowerBISecurityConfig, wanted
<1>9. Lawful(runPowerBISecurityConfig[9])
  BY <1>0, TenantSettingIsLawful DEF runPowerBISecurityConfig, wanted
<1>10. Lawful(runPowerBISecurityConfig[10])
  BY <1>0, TenantSettingIsLawful DEF runPowerBISecurityConfig, wanted
<1>11. Lawful(runPowerBISecurityConfig[11])
  BY <1>0, TenantSettingIsLawful DEF runPowerBISecurityConfig, wanted
<1>12. Lawful(runPowerBISecurityConfig[12])
  BY <1>0, TenantSettingIsLawful DEF runPowerBISecurityConfig, wanted
<1>13. Len(runPowerBISecurityConfig) = 12
  BY DEF runPowerBISecurityConfig
<1>14. QED
  BY <1>1, <1>2, <1>3, <1>4, <1>5, <1>6, <1>7, <1>8, <1>9, <1>10, <1>11, <1>12, <1>13
  DEF AllLawful

-----------------------------------------------------------------------------
(* entra-security-config, which is five collectors in one *)

LEMMA JoinedAreLawful ==
  ASSUME NEW T, NEW s \in Seq(T), NEW t \in Seq(T), AllLawful(s), AllLawful(t)
  PROVE  s \o t \in Seq(T) /\ AllLawful(s \o t)
<1>1. s \o t \in Seq(T) /\ Len(s \o t) = Len(s) + Len(t)
  OBVIOUS
<1>2. Len(s) \in Nat \ {0} /\ Len(t) \in Nat \ {0}
  BY DEF AllLawful
<1>3. ASSUME NEW i \in 1..Len(s \o t) PROVE Lawful((s \o t)[i])
  <2>1. CASE i <= Len(s)
    <3>1. (s \o t)[i] = s[i] /\ i \in 1..Len(s)
      BY <1>1, <1>2, <1>3, <2>1
    <3>2. QED
      BY <3>1 DEF AllLawful
  <2>2. CASE i > Len(s)
    <3>1. (s \o t)[i] = t[i - Len(s)] /\ i - Len(s) \in 1..Len(t)
      BY <1>1, <1>2, <1>3, <2>2
    <3>2. QED
      BY <3>1 DEF AllLawful
  <2>3. QED
    BY <1>1, <1>2, <1>3, <2>1, <2>2
<1>4. QED
  BY <1>1, <1>2, <1>3 DEF AllLawful

\* The authorization policy is only stored; no check judges its answer.
LEMMA AuthPolicyIsLawful == AllLawful(<<authPolicy>>)
<1>1. PlainChecks([a \in AuthPolicies |-> <<>>])
  BY DEF PlainChecks
<1>2. Lawful(authPolicy)
  BY <1>1, QuietRows, PlainRequest, StillLawful DEF authPolicy
<1>3. QED
  BY <1>2, OneRequestIsLawful

LEMMA EntraSecurityConfigIsLawful == AllLawful(entraSecurityConfig)
<1> DEFINE T == {authPolicy} \cup {runPasswordAuthChecks[i] : i \in 1..9}
                \cup {runAdminRoleChecks[i] : i \in 1..9}
                \cup {conditionalAccessChecks[i] : i \in 1..3}
                \cup {runUserGroupChecks[i] : i \in 1..15}
<1>1. /\ authPolicy \in T
      /\ \A i \in 1..9 : runPasswordAuthChecks[i] \in T
      /\ \A i \in 1..9 : runAdminRoleChecks[i] \in T
      /\ \A i \in 1..3 : conditionalAccessChecks[i] \in T
      /\ \A i \in 1..15 : runUserGroupChecks[i] \in T
  OBVIOUS
<1> HIDE DEF T
<1>2. <<authPolicy>> \in Seq(T)
  BY <1>1
<1>3. runPasswordAuthChecks \in Seq(T)
  BY <1>1 DEF runPasswordAuthChecks
<1>4. runAdminRoleChecks \in Seq(T)
  BY <1>1 DEF runAdminRoleChecks
<1>5. conditionalAccessChecks \in Seq(T)
  BY <1>1 DEF conditionalAccessChecks
<1>6. runUserGroupChecks \in Seq(T)
  BY <1>1 DEF runUserGroupChecks
<1> DEFINE s1 == <<authPolicy>> \o runPasswordAuthChecks
           s2 == s1 \o runAdminRoleChecks
           s3 == s2 \o conditionalAccessChecks
<1>7. s1 \in Seq(T) /\ AllLawful(s1)
  BY <1>2, <1>3, JoinedAreLawful, AuthPolicyIsLawful, RunPasswordAuthChecksIsLawful
<1> HIDE DEF s1
<1>8. s2 \in Seq(T) /\ AllLawful(s2)
  BY <1>4, <1>7, JoinedAreLawful, RunAdminRoleChecksIsLawful
<1> HIDE DEF s2
<1>9. s3 \in Seq(T) /\ AllLawful(s3)
  BY <1>5, <1>8, JoinedAreLawful, ConditionalAccessChecksIsLawful
<1> HIDE DEF s3
<1>10. AllLawful(s3 \o runUserGroupChecks)
  BY <1>6, <1>9, JoinedAreLawful, RunUserGroupChecksIsLawful
<1>11. QED
  BY <1>10 DEF entraSecurityConfig, s1, s2, s3

-----------------------------------------------------------------------------
(* All collectors of all sections *)

LEMMA CollectorsAreLawful ==
  ASSUME NEW s \in DOMAIN Collectors
  PROVE  /\ Len(Collectors[s]) \in Nat \ {0}
         /\ \A c \in 1..Len(Collectors[s]) : AllLawful(Collectors[s][c])
<1>1. CASE s = "tenant"
  <2>1. /\ Len(Collectors[s]) = 1
        /\ Collectors[s][1] = runTenantInfo
    BY <1>1 DEF Collectors
  <2>2. QED
    BY <2>1, RunTenantInfoIsLawful
<1>2. CASE s = "identity"
  <2>1. /\ Len(Collectors[s]) = 20
        /\ Collectors[s][1] = userSummary
        /\ Collectors[s][2] = mfaReport
        /\ Collectors[s][3] = adminRoleReport
        /\ Collectors[s][4] = conditionalAccessReport
        /\ Collectors[s][5] = appRegistrationReport
        /\ Collectors[s][6] = passwordPolicyReport
        /\ Collectors[s][7] = entraSecurityConfig
        /\ Collectors[s][8] = caSecurityConfig
        /\ Collectors[s][9] = entAppSecurityConfig
        /\ Collectors[s][10] = entraSodConfig
        /\ Collectors[s][11] = entraTouConfig
        /\ Collectors[s][12] = entraPrivRemote
        /\ Collectors[s][13] = entraAdminRoleSeparation
        /\ Collectors[s][14] = entraCaRemoteDevice
        /\ Collectors[s][15] = entraBreakglassConfig
        /\ Collectors[s][16] = entraPimAdditionalConfig
        /\ Collectors[s][17] = entraAuthMethodAdditional
        /\ Collectors[s][18] = entraGroupAdditional
        /\ Collectors[s][19] = entraMfaConsentAdditional
        /\ Collectors[s][20] = entraFinalBatch
    BY <1>2 DEF Collectors
  <2>2. \A c \in 1..20 : c \in {1, 2, 3, 4, 5, 6, 7, 8, 9, 10, 11, 12, 13, 14, 15, 16, 17, 18,
                              19, 20}
    OBVIOUS
  <2>3. QED
    BY <2>1, <2>2,
       UserSummaryIsLawful, MfaReportIsLawful, AdminRoleReportIsLawful,
       ConditionalAccessReportIsLawful, AppRegistrationReportIsLawful,
       PasswordPolicyReportIsLawful, EntraSecurityConfigIsLawful, CaSecurityConfigIsLawful,
       EntAppSecurityConfigIsLawful, EntraSodConfigIsLawful, EntraTouConfigIsLawful,
       EntraPrivRemoteIsLawful, EntraAdminRoleSeparationIsLawful,
       EntraCaRemoteDeviceIsLawful, EntraBreakglassConfigIsLawful,
       EntraPimAdditionalConfigIsLawful, EntraAuthMethodAdditionalIsLawful,
       EntraGroupAdditionalIsLawful, EntraMfaConsentAdditionalIsLawful,
       EntraFinalBatchIsLawful
<1>3. CASE s = "licensing"
  <2>1. /\ Len(Collectors[s]) = 1
        /\ Collectors[s][1] = runLicenseReport
    BY <1>3 DEF Collectors
  <2>2. QED
    BY <2>1, RunLicenseReportIsLawful
<1>4. CASE s = "security"
  <2>1. /\ Len(Collectors[s]) = 4
        /\ Collectors[s][1] = runSecureScoreReport
        /\ Collectors[s][2] = runDefenderSecurityConfig
        /\ Collectors[s][3] = runComplianceSecurityConfig
        /\ Collectors[s][4] = runDefenderDropBatch
    BY <1>4 DEF Collectors
  <2>2. \A c \in 1..4 : c \in {1, 2, 3, 4}
    OBVIOUS
  <2>3. QED
    BY <2>1, <2>2,
       RunSecureScoreReportIsLawful, RunDefenderSecurityConfigIsLawful,
       RunComplianceSecurityConfigIsLawful, RunDefenderDropBatchIsLawful
<1>5. CASE s = "intune"
  <2>1. /\ Len(Collectors[s]) = 4
        /\ Collectors[s][1] = deviceComplianceReport
        /\ Collectors[s][2] = configProfileReport
        /\ Collectors[s][3] = runIntuneSecurityConfig
        /\ Collectors[s][4] = runIntuneFipsConfig
    BY <1>5 DEF Collectors
  <2>2. \A c \in 1..4 : c \in {1, 2, 3, 4}
    OBVIOUS
  <2>3. QED
    BY <2>1, <2>2,
       DeviceComplianceReportIsLawful, ConfigProfileReportIsLawful,
       RunIntuneSecurityConfigIsLawful, RunIntuneFipsConfigIsLawful
<1>6. CASE s = "exchange"
  <2>1. /\ Len(Collectors[s]) = 2
        /\ Collectors[s][1] = runExchangeSecurityConfig
        /\ Collectors[s][2] = runExchangeDropBatch
    BY <1>6 DEF Collectors
  <2>2. \A c \in 1..2 : c \in {1, 2}
    OBVIOUS
  <2>3. QED
    BY <2>1, <2>2,
       RunExchangeSecurityConfigIsLawful, RunExchangeDropBatchIsLawful
<1>7. CASE s = "collaboration"
  <2>1. /\ Len(Collectors[s]) = 3
        /\ Collectors[s][1] = runSharePointSecurityConfig
        /\ Collectors[s][2] = runTeamsSecurityConfig
        /\ Collectors[s][3] = runFormsSecurityConfig
    BY <1>7 DEF Collectors
  <2>2. \A c \in 1..3 : c \in {1, 2, 3}
    OBVIOUS
  <2>3. QED
    BY <2>1, <2>2,
       RunSharePointSecurityConfigIsLawful, TeamsIsLawful, FormsIsLawful
<1>8. CASE s = "purview"
  <2>1. /\ Len(Collectors[s]) = 1
        /\ Collectors[s][1] = runPurviewRetentionConfig
    BY <1>8 DEF Collectors
  <2>2. QED
    BY <2>1, RunPurviewRetentionConfigIsLawful
<1>9. CASE s = "inventory"
  <2>1. /\ Len(Collectors[s]) = 6
        /\ Collectors[s][1] = runMailboxInventory
        /\ Collectors[s][2] = runOneDriveInventory
        /\ Collectors[s][3] = runSharePointInventory
        /\ Collectors[s][4] = runTeamsInventory
        /\ Collectors[s][5] = runGroupInventory
        /\ Collectors[s][6] = runRemainingDropBatch
    BY <1>9 DEF Collectors
  <2>2. \A c \in 1..6 : c \in {1, 2, 3, 4, 5, 6}
    OBVIOUS
  <2>3. QED
    BY <2>1, <2>2,
       InventoriesAreLawful, RunRemainingDropBatchIsLawful
<1>10. CASE s = "powerbi"
  <2>1. /\ Len(Collectors[s]) = 1
        /\ Collectors[s][1] = runPowerBISecurityConfig
    BY <1>10 DEF Collectors
  <2>2. QED
    BY <2>1, RunPowerBISecurityConfigIsLawful
<1>11. QED
  BY <1>1, <1>2, <1>3, <1>4, <1>5, <1>6, <1>7, <1>8, <1>9, <1>10 DEF Collectors

-----------------------------------------------------------------------------
(***************************************************************************)
(* The invariant.  The place in the section is that of a request, what has *)
(* been added came from the check before, or from the call that failed.    *)
(***************************************************************************)

PlaceOK ==
  /\ section \in Sections
  /\ collector \in 1..Len(Collectors[section])
  /\ turn \in 1..Len(Collectors[section][collector])
  /\ how \in {"asking", "answered", "left", "ended"} \cup Failures

JudgingOK ==
  how = "answered" =>
    /\ answer \in DOMAIN now.checks
    /\ checked \in 0..Len(now.checks[answer])
    /\ checked > 0 => verdicts = AddedBy(now.checks, now.failed, answer, checked)

FailureOK == how \in Failures => verdicts \in {now.refused, now.failed, now.declined}

IInv == PlaceOK /\ JudgingOK /\ FailureOK

LEMMA SectionRequests ==
  ASSUME NEW s \in Sections
  PROVE  /\ Len(Collectors[s]) \in Nat \ {0}
         /\ \A c \in 1..Len(Collectors[s]) : AllLawful(Collectors[s][c])
BY CollectorsAssumption, CollectorsAreLawful

LEMMA NowIsLawful ==
  ASSUME PlaceOK
  PROVE  Lawful(now)
BY SectionRequests DEF PlaceOK, AllLawful, now

LEMMA InitOK == Init => IInv
<1> SUFFICES ASSUME Init PROVE IInv
  OBVIOUS
<1>1. 1 \in 1..Len(Collectors[section]) /\ 1 \in 1..Len(Collectors[section][1])
  <2>1. 1 \in 1..Len(Collectors[section])
    BY SectionRequests DEF Init
  <2>2. AllLawful(Collectors[section][1])
    BY <2>1, SectionRequests DEF Init
  <2>3. QED
    BY <2>1, <2>2 DEF AllLawful
<1>2. QED
  BY <1>1 DEF Init, IInv, PlaceOK, JudgingOK, FailureOK, Failures

LEMMA BeginOK ==
  ASSUME PlaceOK, NEW c \in 1..Len(Collectors[section]), NEW r \in 1..Len(Collectors[section][c]),
         Begin(c, r)
  PROVE  IInv'
BY DEF Begin, IInv, PlaceOK, JudgingOK, FailureOK, Failures

LEMMA StepOK == IInv /\ [Next]_vars => IInv'
<1> SUFFICES ASSUME IInv, [Next]_vars PROVE IInv'
  OBVIOUS
<1>1. PlaceOK /\ Lawful(now)
  BY NowIsLawful DEF IInv
<1>2. ASSUME NEW a \in DOMAIN now.checks, Answer(a) PROVE IInv'
  <2>1. now' = now /\ PlaceOK'
    BY <1>1, <1>2 DEF Answer, now, PlaceOK
  <2>2. Len(now.checks[a]) \in Nat
    BY <1>1 DEF Lawful, AreRated
  <2>3. QED
    BY <1>2, <2>1, <2>2 DEF Answer, IInv, JudgingOK, FailureOK, Failures
<1>3. CASE Judge
  <2>1. now' = now /\ PlaceOK'
    BY <1>1, <1>3 DEF Judge, now, PlaceOK
  <2>2. Len(now.checks[answer]) \in Nat /\ checked \in 0..Len(now.checks[answer])
    BY <1>1, <1>3 DEF Judge, IInv, JudgingOK, Lawful, AreRated
  <2>3. verdicts' = AddedBy(now.checks, now.failed, answer, checked + 1)
    BY <1>3 DEF Judge, AddedBy
  <2>4. /\ how = "answered" /\ how' = how /\ answer' = answer
        /\ checked' = checked + 1 /\ checked < Len(now.checks[answer])
    BY <1>3 DEF Judge
  <2>5. checked + 1 \in 1..Len(now.checks[answer])
    BY <2>2, <2>4
  <2>6. JudgingOK'
    BY <1>3, <2>1, <2>3, <2>4, <2>5 DEF IInv, JudgingOK
  <2>7. QED
    BY <2>1, <2>4, <2>6 DEF IInv, FailureOK, Failures
<1>4. ASSUME NEW kind \in Failures, Fail(kind) PROVE IInv'
  <2>1. now' = now /\ PlaceOK'
    BY <1>1, <1>4 DEF Fail, now, PlaceOK
  <2>2. verdicts' \in {now.refused, now.failed, now.declined}
    BY <1>4 DEF Fail, Failures
  <2>3. how' \in Failures
    BY <1>4 DEF Fail
  <2>4. QED
    BY <2>1, <2>2, <2>3 DEF IInv, JudgingOK, FailureOK, Failures
<1>5. CASE Fatal
  BY <1>1, <1>5 DEF Fatal, IInv, PlaceOK, JudgingOK, FailureOK, Failures
<1>6. CASE NextRequest
  <2>1. turn + 1 \in 1..Len(Collectors[section][collector])
    BY <1>1, <1>6, SectionRequests DEF NextRequest, Returned, LastRequest, PlaceOK, AllLawful
  <2>2. QED
    BY <1>1, <1>6, <2>1, BeginOK DEF NextRequest, PlaceOK
<1>7. CASE NextCollector
  <2>1. collector + 1 \in 1..Len(Collectors[section])
    BY <1>1, <1>7, SectionRequests DEF NextCollector, PlaceOK
  <2>2. 1 \in 1..Len(Collectors[section][collector + 1])
    BY <1>1, <2>1, SectionRequests DEF PlaceOK, AllLawful
  <2>3. QED
    BY <1>1, <1>7, <2>1, <2>2, BeginOK DEF NextCollector
<1>8. CASE EndSection
  BY <1>1, <1>8 DEF EndSection, IInv, PlaceOK, JudgingOK, FailureOK, Failures
<1>9. CASE UNCHANGED vars
  BY <1>9 DEF vars, IInv, PlaceOK, JudgingOK, FailureOK, now
<1>10. QED
  BY <1>2, <1>3, <1>4, <1>5, <1>6, <1>7, <1>8, <1>9 DEF Next

\* The place is always that of a request, and what was added came from the last check
\* or from the failed call.
THEOREM Inductive == Spec => []IInv
<1>1. QED
  BY InitOK, StepOK, PTL DEF Spec

\* A call that Graph refuses or that fails adds no verdict on the tenant, and where a
\* collector goes on without a read that failed, every check but those that are named for
\* that read passes or fails only if it would whatever the read had told: whichever
\* collector it is, and whatever policies, apps and registrations there are.
THEOREM UnreadStaysUnjudged == Spec => []UnreadIsNotJudged
<1>1. ASSUME IInv PROVE UnreadIsNotJudged
  <2>1. Lawful(now)
    BY <1>1, NowIsLawful DEF IInv
  <2>2. how \in Failures => \A row \in Judged(verdicts) : row[2] \notin {"Pass", "Fail"}
    BY <1>1, <2>1 DEF IInv, FailureOK, Lawful, Unjudging
  <2>3. ASSUME how = "answered", checked > 0, answer \in DOMAIN now.untold,
               NEW row \in Judged(verdicts), row[2] \in {"Pass", "Fail"},
               row[1] \notin JudgedUnread[unreadOf(answer)], NEW b \in now.untold[answer]
        PROVE  row \in Verdict(b)
    <3>1. /\ answer \in DOMAIN now.checks /\ checked \in 1..Len(now.checks[answer])
          /\ verdicts = AddedBy(now.checks, now.failed, answer, checked)
      BY <1>1, <2>3 DEF IInv, JudgingOK
    <3>2. row \notin Judged(now.failed)
      BY <2>1, <2>3 DEF Lawful, Unjudging
    <3>3. row \in Judged(now.checks[answer][checked])
      BY <2>3, <3>1, <3>2 DEF AddedBy, Judged
    <3>4. JudgesTold(now.untold, now.checks)
      BY <2>1 DEF Lawful
    <3>5. row \in now.checks[b][checked]
      BY <2>3, <3>1, <3>3, <3>4 DEF JudgesTold
    <3>6. QED
      BY <3>5 DEF Verdict
  <2>4. QED
    BY <2>2, <2>3 DEF UnreadIsNotJudged
<1>2. QED
  BY <1>1, Inductive, PTL

\* Whatever lists of policies Graph answers: every check that passes does so as well
\* with any other list of which the same policies are enforced.
THEOREM OnlyEnforcedCount == Spec => []OnlyEnforcedPoliciesCount
<1>1. IInv => OnlyEnforcedPoliciesCount
  <2> SUFFICES ASSUME IInv, HasJudged("policies"), NEW list \in PolicyLists,
                      enabledPolicies([answer EXCEPT !.policies = list])
                        = enabledPolicies(answer),
                      [answer EXCEPT !.policies = list] \in DOMAIN now.checks
               PROVE  StillPasses(answer, verdicts, Verdict([answer EXCEPT !.policies = list]))
    BY DEF OnlyEnforcedPoliciesCount, StillPasses
  <2> DEFINE other == [answer EXCEPT !.policies = list]
  <2>1. CountEnforced(now.checks, now.failed)
    BY NowIsLawful DEF IInv, Lawful
  <2>2. /\ answer \in DOMAIN now.checks /\ checked \in 1..Len(now.checks[answer])
        /\ verdicts = AddedBy(now.checks, now.failed, answer, checked)
        /\ "policies" \in DOMAIN answer
    BY DEF HasJudged, IInv, JudgingOK
  <2>3. other.policies = list /\ other = [answer EXCEPT !.policies = other.policies]
    BY <2>2
  <2>4. QED
    BY <2>1, <2>2, <2>3 DEF CountEnforced, Verdict
<1>2. QED
  BY <1>1, Inductive, PTL

\* However the answer reads: where a check that demands more of it passes, the check
\* that demands less passes too.
THEOREM DemandsStayNested == Spec => []DemandsAreNested
<1>1. IInv => DemandsAreNested
  <2> SUFFICES ASSUME IInv, how = "answered", checked > 0, NEW demand \in Demands,
                      demand[1] \in Ids(verdicts), Worst(verdicts, demand[1]) = 3,
                      NEW k \in 1..Len(now.checks[answer]),
                      demand[2] \in Ids(now.checks[answer][k])
               PROVE  Worst(now.checks[answer][k], demand[2]) = 3
    BY DEF DemandsAreNested
  <2>1. AreNested(now.checks, now.failed)
    BY NowIsLawful DEF IInv, Lawful
  <2>2. /\ answer \in DOMAIN now.checks /\ checked \in 1..Len(now.checks[answer])
        /\ verdicts = AddedBy(now.checks, now.failed, answer, checked)
    BY DEF IInv, JudgingOK
  <2>3. QED
    BY <2>1, <2>2 DEF AreNested
<1>2. QED
  BY <1>1, Inductive, PTL

\* Whatever apps there are and whatever the settings: a safer setting of those that have a
\* scale, or fewer apps, is never judged worse, but for the first emergency account with a
\* telling name.
THEOREM SaferStaysNoWorse == Spec => []SaferNeverWorse
<1>1. IInv => SaferNeverWorse
  <2> SUFFICES ASSUME IInv, how = "answered", checked > 0, NEW b \in DOMAIN now.checks,
                      Safer(b), ~FirstNamed(answer, b)
               PROVE  NeverWorse(verdicts, Verdict(b))
    BY DEF SaferNeverWorse, NeverWorse
  <2>1. AreMonotone(now.scales, now.checks, now.failed)
    BY NowIsLawful DEF IInv, Lawful
  <2>2. /\ answer \in DOMAIN now.checks /\ checked \in 1..Len(now.checks[answer])
        /\ verdicts = AddedBy(now.checks, now.failed, answer, checked)
    BY DEF IInv, JudgingOK
  <2>3. Improves(now.scales, answer, b)
    BY DEF Safer, Improves
  <2>4. QED
    BY <2>1, <2>2, <2>3 DEF AreMonotone, Verdict
<1>2. QED
  BY <1>1, Inductive, PTL
=============================================================================
