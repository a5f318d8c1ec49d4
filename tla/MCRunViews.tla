------------------------------ MODULE MCRunViews ------------------------------
(* Two sections that share a check, and a registry of two frameworks.       *)
EXTENDS RunViews

Input(base, status) == [base |-> base, status |-> status]

MCInputs ==
  <<{Input("CA", "Fail"), Input("ENTRA", "Fail"), Input("ENTRA", "Warning")},
    {Input("EXO", "Warning"), Input("CA", "Pass")}>>

MCMaxRows == <<2, 2>>

\* EXO has no severity.
MCBases    == <<"CA", "ENTRA", "EXO", "POWERBI">>
MCSeverity == [CA |-> 1, ENTRA |-> 1, POWERBI |-> 0]

Mapping(base, alias, framework, ids) ==
  [base |-> base, alias |-> alias, framework |-> framework, controls |-> ids]

MCRegistry ==
  {Mapping("CA", FALSE, "cis", {"1", "2"}), Mapping("ENTRA", FALSE, "cis", {"2"}),
   Mapping("EXO", FALSE, "cis", {}), Mapping("EXO", FALSE, "nist", {"a"}),
   Mapping("POWERBI", FALSE, "nist", {"b"}), Mapping("PBI", TRUE, "nist", {"c"})}
=============================================================================
