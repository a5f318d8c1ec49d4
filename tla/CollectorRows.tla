---------------------------- MODULE CollectorRows ----------------------------
(***************************************************************************)
(* What the section collectors have in common: a collector asks Graph for  *)
(* one thing after another, and every answer is judged by one or more      *)
(* checks, each of which adds at most a few rows.                          *)
(*                                                                         *)
(* A row is its check id and status.  A request is a record:               *)
(*   checks            for each answer that Graph may give, the rows of the *)
(*                     checks that judge it, in their order                 *)
(*   scales            for settings of the answer their values, from the    *)
(*                     least to the most secure                             *)
(*   untold            for each answer in which some read has failed what   *)
(*                     Graph would have answered without the failure        *)
(*   refused, failed   the rows added when the call fails in the way the    *)
(*                     collector tells apart (mostly a 403), or in another; *)
(*   declined          some collectors tell a third apart (a 400)           *)
(*   keeps, shares     the fields of the answer that are stored, and those  *)
(*                     that are read from the store instead of from Graph   *)
(*   forgets           stored fields that nothing reads any more            *)
(*   calls             whether Graph is asked at all                        *)
(*   fails             whether a failed call is not among the answers       *)
(*   swallows          whether a fatal transport error is taken for a       *)
(*                     failed call                                          *)
(***************************************************************************)
EXTENDS Integers, Sequences, FiniteSets

\* Rows that belong to no check have no id.
NoId == ""

Row(id, status) == {<<id, status>>}
NoRows == {}

\* Not rows: what a check or a failed request does beside adding some.
Stops   == {<<NoId, "stops">>}    \* an exception that the catch of the request takes
Returns == {<<NoId, "returns">>}  \* the collector returns early
Leaves  == {<<NoId, "leaves">>}   \* an exception that leaves the collector
Judged(rows) == rows \ (Stops \cup Returns \cup Leaves)

PassIf(id, good)         == Row(id, IF good THEN "Pass" ELSE "Fail")
PassElse(id, good, else) == Row(id, IF good THEN "Pass" ELSE else)
AllRows(ids, status)     == {<<id, status>> : id \in ids}

\* The scales of what is safe when it is so, and of what is safe when it is not.
YesIsSafe == <<FALSE, TRUE>>
NoIsSafe  == <<TRUE, FALSE>>

\* The answers that the scales of a request span.
Answers(scales) ==
  LET fields    == DOMAIN scales
      longest   == CHOOSE n \in {Len(scales[f]) : f \in fields} :
                     \A f \in fields : Len(scales[f]) <= n
      positions == {i \in [fields -> 1..longest] : \A f \in fields : i[f] <= Len(scales[f])}
  IN  {[f \in fields |-> scales[f][i[f]]] : i \in positions}

\* b is at least as secure as a in every setting; values off the scale have no order.
Stricter(scales, a, b) ==
  \A f \in DOMAIN a :
    \/ a[f] = b[f]
    \/ /\ f \in DOMAIN scales
       /\ \E i, j \in 1..Len(scales[f]) : i < j /\ scales[f][i] = a[f] /\ scales[f][j] = b[f]

\* A field of the store that nothing was stored in.
Unread == "unread"

Request(checks, refused, failed) ==
  [checks |-> checks, scales |-> <<>>, untold |-> <<>>, refused |-> refused,
   failed |-> failed, declined |-> failed, keeps |-> {}, shares |-> {}, forgets |-> {},
   calls |-> TRUE, fails |-> TRUE, swallows |-> FALSE]

Ordered(scales, request)    == [request EXCEPT !.scales = scales]
Keeping(fields, request)    == [request EXCEPT !.keeps = fields]
Sharing(fields, request)    == [request EXCEPT !.shares = fields]
Forgetting(fields, request) == [request EXCEPT !.forgets = fields]
Declining(rows, request)    == [request EXCEPT !.declined = rows]
Local(request)              == [request EXCEPT !.calls = FALSE]
Untold(answers, request)    == [request EXCEPT !.untold = answers]
Telling(answers, request)   == [Untold(answers, request) EXCEPT !.fails = FALSE]
Swallowing(request)         == [request EXCEPT !.swallows = TRUE]

\* The checks of a request whose answer does not matter: the only answer is <<>>.
Always(checks) == [a \in {<<>>} |-> checks]

\* Rows that are added whatever the tenant looks like.
Static(rows) == Local(Request(Always(<<rows>>), NoRows, NoRows))
=============================================================================
