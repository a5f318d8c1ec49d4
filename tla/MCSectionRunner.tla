--------------------------- MODULE MCSectionRunner ---------------------------
(* Constants for model checking SectionRunner: a first section long enough *)
(* for its breaker to trip and stay tripped, a second one whose collector  *)
(* uses every status, and one that is not implemented.                     *)
EXTENDS SectionRunner

ThreeSections == <<"identity", "licensing", "unported">>
TwoPorted     == {"identity", "licensing"}
Ids           == {"A", ""}
OverlaidIds   == {"A"}

Some == <<[base : Ids, ps : {"Pass", "Error"}],
          [base : {"A"}, ps : PsStatus],
          {}>>
Few  == <<4, 1, 0>>
=============================================================================
