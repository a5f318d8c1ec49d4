------------------------------ MODULE MCDnsChecks ------------------------------
(* Two domains, each with one of a few telling zones. *)
EXTENDS DnsChecks

Zone(txt, dkim, dmarc, mx) == [txt |-> txt, dkim |-> dkim, dmarc |-> dmarc, mx |-> mx]

MCZones ==
  {Zone(<<"spf">>, {1}, <<"reject">>, "exchange"),
   Zone(<<"other", "spf">>, {2}, <<"other", "quarantine">>, "other"),
   Zone(<<"null">>, {}, <<"reject">>, "null"),
   Zone(<<"other">>, {}, <<"none">>, "missing"),
   Zone(<<>>, {1, 2}, <<>>, "exchange")}
=============================================================================
