------------------------------ MODULE DnsChecks ------------------------------
(***************************************************************************)
(* The DNS collector, runDnsSecurityConfig: the verified domains of the    *)
(* tenant are read from Graph, and five loops over them look up names, one *)
(* after another, each with one retry and a cache that all loops share.    *)
(* Any lookup may fail: by SERVFAIL, by a timeout or by another error.     *)
(*                                                                         *)
(* A lookup of TXT records yields the kind of the first record that is     *)
(* looked for, "missing" or "servfail".                                    *)
(***************************************************************************)
EXTENDS Integers, Sequences, FiniteSets

CONSTANTS
  MaxDomains,  \* domains of the tenant
  Zones,       \* what a domain may publish
  MaxFaults    \* lookups that fail

\* A zone has the kinds of its TXT records and of those of _dmarc, in their order, the
\* selectors of DKIM that have a record, and the kind of its mail exchanger.
ASSUME DnsAssumption ==
  /\ {MaxDomains, MaxFaults} \subseteq Nat
  /\ \A z \in Zones :
       /\ z.txt \in Seq({"other", "spf", "null"})
       /\ z.dmarc \in Seq({"other", "none", "quarantine", "reject"})
       /\ z.dkim \subseteq {1, 2}
       /\ z.mx \in {"missing", "null", "exchange", "other"}

VARIABLES
  domains,     \* how many verified domains were read
  zone,        \* what each of them publishes
  phase,       \* the loop that runs
  domain,      \* the domain it is at
  name,        \* which of the names that it looks up for the domain
  attempt,     \* at which attempt
  cache,       \* dnsCache
  servfail,    \* servfailDomains
  sawServFail, \* dkimEnabled met a SERVFAIL
  found,       \* what a loop made of a domain
  rows,        \* rows added
  faults,      \* lookups that have failed
  asked,       \* how often a name was looked up
  lost         \* names whose last lookup ended in a timeout or an error

vars == <<domains, zone, phase, domain, name, attempt, cache, servfail, sawServFail,
          found, rows, faults, asked, lost>>

Domains == 1..MaxDomains
Judging == {"spf", "dkim", "dmarc", "mx"}
Names   == ({"txt", "dmarc", "mx"} \X Domains) \cup ({"dkim"} \X Domains \X {1, 2})
Ids     == {"DNS-SPF-001", "DNS-DKIM-001", "DNS-DMARC-001", "DNS-MX-001"}

Marked(p, mark) == {d \in Domains : found[p][d] = mark}

-----------------------------------------------------------------------------
(* A lookup *)

Looked ==
  CASE phase = "zone"            -> <<IF name = 1 THEN "txt" ELSE "mx", domain>>
    [] phase = "spf"             -> <<"txt", domain>>
    [] phase = "dkim"            -> <<"dkim", domain, name>>
    [] phase \in {"dmarc", "mx"} -> <<phase, domain>>

\* The kinds that are looked for: the first loop takes any record.
Wanted ==
  CASE phase = "spf"   -> {"spf", "null"}
    [] phase = "dmarc" -> {"none", "quarantine", "reject"}
    [] OTHER           -> {"other", "spf", "null"}

FirstOf(records, wanted) ==
  LET hits == {i \in DOMAIN records : records[i] \in wanted}
  IN  IF hits = {} THEN "missing" ELSE records[CHOOSE i \in hits : \A j \in hits : i <= j]

\* What an answer to the lookup says.
Published ==
  LET z == zone[domain]
  IN CASE Looked[1] = "txt"   -> FirstOf(z.txt, Wanted)
       [] Looked[1] = "dmarc" -> FirstOf(z.dmarc, Wanted)
       [] Looked[1] = "mx"    -> z.mx
       [] Looked[1] = "dkim"  -> IF name \in z.dkim THEN "txt" ELSE "missing"

\* Seeded fault: mail exchangers are not remembered.
RemembersFault(result) == Looked[1] \in {"txt", "dmarc"}

\* A SERVFAIL of a mail exchanger is thrown instead, and what dkimEnabled did not find
\* it never looks up again.
Remembers(result) ==
  CASE Looked[1] \in {"txt", "dmarc"} -> TRUE
    [] Looked[1] = "mx"               -> result # "servfail"
    [] Looked[1] = "dkim"             -> result = "txt"

-----------------------------------------------------------------------------
Init ==
  /\ domains = 0
  /\ zone \in [Domains -> Zones]
  /\ phase = "domains"
  /\ domain = 1
  /\ name = 1
  /\ attempt = 1
  /\ cache = <<>>
  /\ servfail = {}
  /\ sawServFail = FALSE
  /\ found = [p \in Judging |-> [d \in Domains |-> "none yet"]]
  /\ rows = {}
  /\ faults = 0
  /\ asked = [n \in Names |-> 0]
  /\ lost = {}

\* The domains of the organization, and those that only the list of domains has
\* unless that could not be read.
ReadDomains ==
  /\ phase = "domains"
  /\ domains' \in Domains
  /\ phase' = "zone"
  /\ UNCHANGED <<zone, domain, name, attempt, cache, servfail, sawServFail, found, rows,
                 faults, asked, lost>>

\* No domain, or no permission to read them, is a Review; another failure, or a fatal
\* transport error, adds no row.
NoDomains ==
  /\ phase = "domains"
  /\ phase' = "ended"
  /\ \/ rows' = {<<id, "Review">> : id \in Ids}
     \/ rows' = {}
  /\ UNCHANGED <<domains, zone, domain, name, attempt, cache, servfail, sawServFail, found,
                 faults, asked, lost>>

NextDomain == domain' = domain + 1 /\ name' = 1 /\ sawServFail' = FALSE

\* Later loops leave out domains whose zone failed, and DKIM those that send no mail.
Excluded ==
  \/ phase # "zone" /\ domain \in servfail
  \/ phase = "dkim" /\ domain \in Marked("spf", "null")

Skip ==
  /\ phase \in Judging
  /\ domain <= domains
  /\ Excluded
  /\ NextDomain
  /\ UNCHANGED <<domains, zone, phase, attempt, cache, servfail, found, rows, faults, asked, lost>>

\* Seeded fault: a selector that could not be looked up counts as missing.
dkimNotFoundFault(saw) == "missing"

dkimNotFound(saw) == IF saw THEN "servfail" ELSE "missing"

\* What the loop does with the result of a lookup.
Conclude(result, saw) ==
  /\ attempt' = 1
  /\ \/ /\ phase = "zone"
        /\ servfail' = IF result = "servfail" THEN servfail \cup {domain} ELSE servfail
        /\ IF name = 1 /\ result # "servfail"
             THEN name' = 2 /\ UNCHANGED <<domain, sawServFail>>
             ELSE NextDomain
        /\ UNCHANGED found
     \/ /\ phase = "dkim"
        /\ result # "txt"
        /\ name = 1
        /\ name' = 2
        /\ sawServFail' = saw
        /\ UNCHANGED <<domain, servfail, found>>
     \/ /\ phase \in Judging
        /\ phase = "dkim" => result = "txt" \/ name = 2
        /\ found' = [found EXCEPT ![phase][domain] =
                       IF phase = "dkim" /\ result # "txt" THEN dkimNotFound(saw) ELSE result]
        /\ NextDomain
        /\ UNCHANGED servfail

Looking == phase \in Judging \cup {"zone"} /\ domain <= domains /\ ~Excluded

Cached ==
  /\ Looking
  /\ Looked \in DOMAIN cache
  /\ Conclude(cache[Looked], sawServFail)
  /\ UNCHANGED <<domains, zone, phase, cache, rows, faults, asked, lost>>

Remember(result) ==
  cache' = IF Remembers(result)
             THEN [n \in DOMAIN cache \cup {Looked} |-> IF n = Looked THEN result ELSE cache[n]]
             ELSE cache

Asks ==
  /\ Looking
  /\ Looked \notin DOMAIN cache
  /\ asked' = [asked EXCEPT ![Looked] = @ + 1]

Answered ==
  /\ Asks
  /\ Remember(Published)
  /\ Conclude(Published, sawServFail)
  /\ lost' = lost \ {Looked}
  /\ UNCHANGED <<domains, zone, phase, rows, faults>>

\* A SERVFAIL or a timeout is retried once.
Retry(fault) ==
  /\ Asks
  /\ faults < MaxFaults
  /\ attempt = 1
  /\ attempt' = 2
  /\ sawServFail' = (sawServFail \/ (phase = "dkim" /\ fault = "servfail"))
  /\ faults' = faults + 1
  /\ UNCHANGED <<domains, zone, phase, domain, name, cache, servfail, found, rows, lost>>

\* Whatever else fails, or fails again, is as good as no record unless it is a SERVFAIL.
GiveUp(fault) ==
  /\ Asks
  /\ faults < MaxFaults
  /\ attempt = 2 \/ fault = "error"
  /\ LET result == IF fault = "servfail" THEN "servfail" ELSE "missing"
     IN  /\ Remember(result)
         /\ Conclude(result, sawServFail \/ fault = "servfail")
  /\ lost' = IF fault = "servfail" THEN lost ELSE lost \cup {Looked}
  /\ faults' = faults + 1
  /\ UNCHANGED <<domains, zone, phase, rows>>

-----------------------------------------------------------------------------
(* The rows of a loop *)

Verdict(id, status) == {<<id, status>>}

ZoneRows == IF servfail = {} THEN {} ELSE Verdict("DNS-ZONE-001", "Fail")

SpfRows ==
  Verdict("DNS-SPF-001", IF Marked("spf", "missing") = {} THEN "Pass" ELSE "Fail")

DkimRows ==
  Verdict("DNS-DKIM-001",
    IF Marked("dkim", "missing") # {} THEN "Fail"
    ELSE IF Marked("dkim", "txt") = {} /\ Marked("dkim", "servfail") # {} THEN "Review"
    ELSE "Pass")

DmarcRows ==
  Verdict("DNS-DMARC-001",
    IF Marked("dmarc", "missing") \cup Marked("dmarc", "none") # {} THEN "Fail"
    ELSE IF Marked("dmarc", "quarantine") # {} THEN "Warning" ELSE "Pass")

MxRows ==
  Verdict("DNS-MX-001",
    IF Marked("mx", "missing") # {} THEN "Fail"
    ELSE IF Marked("mx", "other") # {} THEN "Warning" ELSE "Pass")

LockdownRows ==
  LET enforcing == Marked("dmarc", "reject") \cup Marked("dmarc", "quarantine")
  IN  IF Marked("spf", "null") \cap Marked("mx", "null") \cap enforcing = {} THEN {}
      ELSE Verdict("DNS-LOCKDOWN-001", "Pass")

EndLoop(p, q, added) ==
  /\ phase = p
  /\ domain > domains
  /\ phase' = q
  /\ rows' = rows \cup added
  /\ domain' = 1
  /\ UNCHANGED <<domains, zone, name, attempt, cache, servfail, sawServFail, found, faults,
                 asked, lost>>

Next ==
  \/ ReadDomains \/ NoDomains
  \/ Skip \/ Cached \/ Answered
  \/ \E fault \in {"servfail", "timeout"} : Retry(fault)
  \/ \E fault \in {"servfail", "timeout", "error"} : GiveUp(fault)
  \/ EndLoop("zone", "spf", ZoneRows)
  \/ EndLoop("spf", "dkim", SpfRows)
  \/ EndLoop("dkim", "dmarc", DkimRows)
  \/ EndLoop("dmarc", "mx", DmarcRows)
  \/ EndLoop("mx", "ended", MxRows \cup LockdownRows)

Spec == Init /\ [][Next]_vars

-----------------------------------------------------------------------------
(* Properties *)

\* What a domain really has, and the names that tell.
Has(p, d) ==
  CASE p = "dkim"  -> IF zone[d].dkim = {} THEN "missing" ELSE "txt"
    [] p = "dmarc" -> FirstOf(zone[d].dmarc, {"none", "quarantine", "reject"})
    [] p = "mx"    -> zone[d].mx
NamesOf(p, d) == {n \in Names : n[1] = p /\ n[2] = d}

\* A domain whose zone fails is judged by no loop; of the others DKIM, DMARC and MX are
\* what the zone publishes, whatever was looked up, cached or retried before: a record
\* is never made up, and is missed only for a timeout or an error, never for a SERVFAIL.
VerdictsFollowZones ==
  \A d \in Domains :
    /\ d \in servfail /\ phase # "zone" => \A p \in Judging : found[p][d] = "none yet"
    /\ \A p \in Judging \ {"spf"} :
         /\ found[p][d] \notin {"none yet", "missing", "servfail"} => found[p][d] = Has(p, d)
         /\ found[p][d] = "missing" =>
              Has(p, d) = "missing" \/ NamesOf(p, d) \cap lost # {}

\* No name is looked up more than twice in a run, however many loops want it.
AskedAtMostTwice == \A n \in Names : asked[n] <= 2

\* Stated by the header of dns-security-config and the row's text: SPF passes when the
\* domains that could be looked up have SPF.  The code remembers what the first loop,
\* which takes any record, has found.
SpfPassMeansSpf ==
  <<"DNS-SPF-001", "Pass">> \in rows =>
    \A d \in 1..domains : d \notin servfail => FirstOf(zone[d].txt, {"spf", "null"}) # "missing"
=============================================================================
