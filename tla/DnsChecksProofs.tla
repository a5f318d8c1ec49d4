--------------------------- MODULE DnsChecksProofs ---------------------------
(***************************************************************************)
(* Theorems about DnsChecks for any number of domains, any zones and any   *)
(* number of lookups that fail.                                            *)
(***************************************************************************)
EXTENDS DnsChecks, SequenceTheorems, TLAPS

-----------------------------------------------------------------------------
(* The inductive invariant.  A name is looked up by the first loop that    *)
(* wants it; what keeps a later loop from asking again is that its answer  *)
(* is cached or that its domain is left out.                               *)

LoopTypeOK ==
  /\ zone \in [Domains -> Zones]
  /\ domains \in 0..MaxDomains
  /\ domain \in 1..(MaxDomains + 1)
  /\ name \in {1, 2}
  /\ attempt \in {1, 2}
  /\ sawServFail \in BOOLEAN
  /\ phase \in {"domains", "zone", "spf", "dkim", "dmarc", "mx", "ended"}
  /\ asked \in [Names -> Nat]
  /\ DOMAIN found = Judging /\ \A p \in Judging : DOMAIN found[p] = Domains

\* A second name, and a second attempt, only within a domain that a loop is at.
LoopOK ==
  /\ phase = "domains" => domains = 0 /\ domain = 1
  /\ name = 2 => phase \in {"zone", "dkim"} /\ domain <= domains
  /\ attempt = 2 => Looking

Later ==
  [zone |-> {"spf", "dkim", "dmarc", "mx", "ended"}, spf |-> {"dkim", "dmarc", "mx", "ended"},
   dkim |-> {"dmarc", "mx", "ended"}, dmarc |-> {"mx", "ended"}, mx |-> {"ended"}]

\* The loop p is past the domain d.
Beyond(p, d) == phase \in Later[p] \/ (phase = p /\ d < domain)

\* The first loop that looks a name up is past it.
Passed(n) ==
  \/ n[1] = "txt" /\ (Beyond("zone", n[2]) \/ (phase = "zone" /\ n[2] = domain /\ name = 2))
  \/ n[1] = "mx" /\ Beyond("zone", n[2])
  \/ n[1] = "dkim" /\ (Beyond("dkim", n[2]) \/ (phase = "dkim" /\ n[2] = domain /\ n[3] < name))
  \/ n[1] = "dmarc" /\ Beyond("dmarc", n[2])

AskedOK ==
  \A n \in Names :
    /\ asked[n] <= 2
    /\ ~Passed(n) => asked[n] = IF Looking /\ n = Looked THEN attempt - 1 ELSE 0
    /\ Passed(n) /\ n[1] \in {"txt", "mx"} /\ n[2] <= domains =>
         n \in DOMAIN cache \/ n[2] \in servfail

\* What the result of a lookup of the name says, given the names that were lost.
Truthful(n, result, gone) ==
  /\ n[1] \in {"dmarc", "mx"} =>
       \/ result \in {"servfail", Has(n[1], n[2])}
       \/ result = "missing" /\ n \in gone
  /\ n[1] = "dkim" =>
       \/ result = "servfail"
       \/ result = "txt" /\ n[3] \in zone[n[2]].dkim
       \/ result = "missing" /\ (n[3] \notin zone[n[2]].dkim \/ n \in gone)

CacheOK ==
  \A n \in DOMAIN cache :
    n \in Names /\ Truthful(n, cache[n], lost) /\ (n[1] = "dkim" => cache[n] = "txt")

\* What a loop has made of a domain it is past, and what of a domain it is not.
Follows(p, d) ==
  /\ found[p][d] \notin {"none yet", "missing", "servfail"} => found[p][d] = Has(p, d)
  /\ found[p][d] = "missing" => Has(p, d) = "missing" \/ NamesOf(p, d) \cap lost # {}

FoundOK ==
  \A d \in Domains :
    /\ \A p \in Judging : found[p][d] # "none yet" => Beyond(p, d)
    /\ phase # "zone" /\ d \in servfail => \A p \in Judging : found[p][d] = "none yet"
    /\ \A p \in Judging \ {"spf"} : Follows(p, d)

\* The first selector of a domain was not found for a reason.
SelectorOK ==
  phase = "dkim" /\ name = 2 =>
    sawServFail \/ 1 \notin zone[domain].dkim \/ <<"dkim", domain, 1>> \in lost

IInv == LoopTypeOK /\ LoopOK /\ AskedOK /\ CacheOK /\ FoundOK /\ SelectorOK

-----------------------------------------------------------------------------
(* Names and loops.                                                        *)

LEMMA NameShape ==
  ASSUME NEW n \in Names
  PROVE  /\ n[1] \in {"txt", "dmarc", "mx", "dkim"} /\ n[2] \in Domains
         /\ n[1] # "dkim" => n = <<n[1], n[2]>>
         /\ n[1] = "dkim" => n = <<n[1], n[2], n[3]>> /\ n[3] \in {1, 2}
BY DEF Names

LEMMA LookedIs ==
  ASSUME LoopTypeOK
  PROVE  /\ phase = "zone" /\ name = 1 => Looked = <<"txt", domain>>
         /\ phase = "zone" /\ name = 2 => Looked = <<"mx", domain>>
         /\ phase = "spf" => Looked = <<"txt", domain>>
         /\ phase = "dkim" => Looked = <<"dkim", domain, name>>
         /\ phase = "dmarc" => Looked = <<"dmarc", domain>>
         /\ phase = "mx" => Looked = <<"mx", domain>>
BY DEF Looked, LoopTypeOK

LEMMA LookedType ==
  ASSUME LoopTypeOK, Looking
  PROVE  /\ domain \in Domains /\ domain \in Nat /\ domains \in Nat /\ domain <= domains
         /\ phase \in Judging \cup {"zone"}
         /\ Looked \in Names /\ Looked[2] = domain
<1>1. /\ domain \in Nat /\ domains \in Nat /\ domain <= domains /\ domain \in Domains
      /\ phase \in Judging \cup {"zone"}
  BY DnsAssumption DEF LoopTypeOK, Looking, Domains
<1>2. Looked \in Names /\ Looked[2] = domain
  BY <1>1, LookedIs DEF LoopTypeOK, Names, Judging
<1>3. QED
  BY <1>1, <1>2

\* A name that has to be asked for has not been passed by the loop that first wants it.
LEMMA AsksFresh ==
  ASSUME IInv, Asks
  PROVE  /\ ~Passed(Looked) /\ asked[Looked] = attempt - 1
         /\ phase \in {"zone", "dkim", "dmarc"}
<1>1. LoopTypeOK /\ Looking /\ Looked \notin DOMAIN cache
  BY DEF IInv, Asks
<1>2. Looked \in Names /\ Looked[2] = domain /\ domain \in Nat /\ domain <= domains
  BY <1>1, LookedType
<1>3. phase # "zone" => domain \notin servfail
  BY <1>1 DEF Looking, Excluded
<1>4. phase \in {"spf", "mx"} => Passed(Looked) /\ Looked[1] \in {"txt", "mx"}
  BY <1>1, <1>2, LookedIs DEF Passed, Beyond, Later
<1>5. phase \in {"zone", "dkim", "dmarc"}
  BY <1>1, <1>2, <1>3, <1>4, LookedType DEF IInv, AskedOK, Judging
<1>6. ~Passed(Looked)
  BY <1>1, <1>2, <1>5, LookedIs DEF Passed, Beyond, Later, LoopTypeOK
<1>7. QED
  BY <1>1, <1>2, <1>5, <1>6 DEF IInv, AskedOK

-----------------------------------------------------------------------------
(* A result and what the loop does with it.                                *)

\* What a step that ends a lookup leaves to the loop: a result that is truthful, and
\* remembered unless it is one that no later loop asks for.
Concluded(result, saw) ==
  /\ Looking /\ Conclude(result, saw) /\ saw \in BOOLEAN
  /\ UNCHANGED <<domains, zone, phase>>
  /\ Truthful(Looked, result, lost')
  /\ \A n \in Names \ {Looked} : n \in lost' <=> n \in lost
  /\ sawServFail => saw
  /\ phase = "dkim" /\ result = "servfail" => saw
  /\ asked' \in [Names -> Nat]
  /\ \A n \in Names \ {Looked} : asked'[n] = asked[n]
  /\ asked'[Looked] <= 2
  /\ CacheOK'
  /\ DOMAIN cache \subseteq DOMAIN cache'
  /\ Looked[1] = "txt" => Looked \in DOMAIN cache'
  /\ Looked[1] = "mx" => Looked \in DOMAIN cache' \/ result = "servfail"

LEMMA CachedConcludes ==
  ASSUME IInv, Cached
  PROVE  Concluded(cache[Looked], sawServFail)
<1>1. /\ LoopTypeOK /\ Looking /\ Looked \in DOMAIN cache /\ Conclude(cache[Looked], sawServFail)
      /\ UNCHANGED <<domains, zone, phase, cache, asked, lost>>
  BY DEF IInv, Cached
<1>2. Looked \in Names
  BY <1>1, LookedType
<1>3. Truthful(Looked, cache[Looked], lost)
  BY <1>1 DEF IInv, CacheOK
<1>4. phase = "dkim" => cache[Looked] = "txt"
  BY <1>1, LookedIs DEF IInv, CacheOK
<1>5. CacheOK'
  BY <1>1 DEF IInv, CacheOK, Truthful, Has
<1>6. asked[Looked] <= 2 /\ asked \in [Names -> Nat] /\ sawServFail \in BOOLEAN
  BY <1>2 DEF IInv, AskedOK, LoopTypeOK
<1>7. QED
  BY <1>1, <1>3, <1>4, <1>5, <1>6 DEF Concluded

\* A truthful result is kept in the cache and spoils no other answer there.
LEMMA RememberStep ==
  ASSUME IInv, Asks, NEW result, Remember(result), UNCHANGED zone,
         Truthful(Looked, result, lost'),
         \A n \in Names \ {Looked} : n \in lost' <=> n \in lost
  PROVE  /\ CacheOK'
         /\ DOMAIN cache \subseteq DOMAIN cache'
         /\ Looked[1] = "txt" => Looked \in DOMAIN cache'
         /\ Looked[1] = "mx" => Looked \in DOMAIN cache' \/ result = "servfail"
<1>1. LoopTypeOK /\ Looking /\ Looked \notin DOMAIN cache
  BY DEF IInv, Asks
<1>2. Looked \in Names /\ Looked[1] \in {"txt", "dmarc", "mx", "dkim"}
  BY <1>1, LookedType, NameShape
<1>3. ASSUME NEW n \in DOMAIN cache
      PROVE  n \in Names /\ Truthful(n, cache[n], lost') /\ (n[1] = "dkim" => cache[n] = "txt")
  BY <1>1 DEF IInv, CacheOK, Truthful
<1>4. /\ Looked[1] \in {"txt", "dmarc"} => Remembers(result)
      /\ Looked[1] = "mx" => (Remembers(result) <=> result # "servfail")
      /\ Looked[1] = "dkim" => (Remembers(result) <=> result = "txt")
  BY DEF Remembers
<1>5. CASE Remembers(result)
  <2>1. /\ DOMAIN cache' = DOMAIN cache \cup {Looked}
        /\ cache'[Looked] = result
        /\ \A n \in DOMAIN cache : cache'[n] = cache[n]
    BY <1>1, <1>5 DEF Remember
  <2>2. ASSUME NEW n \in DOMAIN cache'
        PROVE  /\ n \in Names /\ Truthful(n, cache'[n], lost')
               /\ n[1] = "dkim" => cache'[n] = "txt"
    BY <1>2, <1>3, <1>4, <1>5, <2>1
  <2>3. CacheOK'
    BY <2>2 DEF CacheOK, Truthful, Has
  <2>4. QED
    BY <2>1, <2>3
<1>6. CASE ~Remembers(result)
  <2>1. cache' = cache
    BY <1>6 DEF Remember
  <2>2. CacheOK'
    BY <1>3, <2>1 DEF CacheOK, Truthful, Has
  <2>3. QED
    BY <1>4, <1>6, <2>1, <2>2
<1>7. QED
  BY <1>5, <1>6

LEMMA AskStep ==
  ASSUME IInv, Asks
  PROVE  /\ asked' \in [Names -> Nat]
         /\ \A n \in Names \ {Looked} : asked'[n] = asked[n]
         /\ asked'[Looked] = attempt /\ attempt <= 2
<1>1. Looked \in Names /\ asked[Looked] = attempt - 1
  BY AsksFresh, LookedType DEF IInv, Asks
<1>2. asked' = [asked EXCEPT ![Looked] = @ + 1] /\ asked \in [Names -> Nat] /\ attempt \in {1, 2}
  BY DEF Asks, IInv, LoopTypeOK
<1>3. QED
  BY <1>1, <1>2

\* What the zone publishes is the truth about the name.
LEMMA PublishedIsTruthful ==
  ASSUME IInv, Looking, NEW gone
  PROVE  Truthful(Looked, Published, gone)
<1>1. LoopTypeOK /\ phase \in Judging \cup {"zone"}
  BY LookedType DEF IInv
<1>2. CASE (phase = "zone" /\ name = 1) \/ phase = "spf"
  BY <1>1, <1>2, LookedIs DEF Truthful
<1>3. CASE (phase = "zone" /\ name = 2) \/ phase = "mx"
  BY <1>1, <1>3, LookedIs DEF Truthful, Published, Has
<1>4. CASE phase = "dkim"
  BY <1>1, <1>4, LookedIs DEF Truthful, Published
<1>5. CASE phase = "dmarc"
  BY <1>1, <1>5, LookedIs DEF Truthful, Published, Has, Wanted
<1>6. QED
  BY <1>1, <1>2, <1>3, <1>4, <1>5 DEF LoopTypeOK, Judging

LEMMA AnsweredConcludes ==
  ASSUME IInv, Answered
  PROVE  Concluded(Published, sawServFail)
<1>1. /\ Asks /\ Looking /\ LoopTypeOK /\ Remember(Published) /\ Conclude(Published, sawServFail)
      /\ lost' = lost \ {Looked} /\ UNCHANGED <<domains, zone, phase>>
      /\ sawServFail \in BOOLEAN
  BY DEF Answered, Asks, IInv, LoopTypeOK
<1>2. Truthful(Looked, Published, lost')
  BY <1>1, PublishedIsTruthful
<1>3. \A n \in Names \ {Looked} : n \in lost' <=> n \in lost
  BY <1>1
<1>4. phase = "dkim" => Published # "servfail"
  BY <1>1, LookedIs DEF Published
<1>5. QED
  BY <1>1, <1>2, <1>3, <1>4, AskStep, RememberStep DEF Concluded

LEMMA GiveUpConcludes ==
  ASSUME IInv, NEW fault \in {"servfail", "timeout", "error"}, GiveUp(fault)
  PROVE  Concluded(IF fault = "servfail" THEN "servfail" ELSE "missing",
                   sawServFail \/ fault = "servfail")
<1> DEFINE result == IF fault = "servfail" THEN "servfail" ELSE "missing"
           saw == sawServFail \/ fault = "servfail"
<1>1. /\ Asks /\ Looking /\ LoopTypeOK /\ Remember(result) /\ Conclude(result, saw)
      /\ lost' = IF fault = "servfail" THEN lost ELSE lost \cup {Looked}
      /\ UNCHANGED <<domains, zone, phase>> /\ sawServFail \in BOOLEAN
  BY DEF GiveUp, Asks, IInv, LoopTypeOK
<1>2. Truthful(Looked, result, lost')
  BY <1>1 DEF Truthful
<1>3. \A n \in Names \ {Looked} : n \in lost' <=> n \in lost
  BY <1>1
<1>4. saw \in BOOLEAN /\ (sawServFail => saw) /\ (result = "servfail" => saw)
  BY <1>1
<1> HIDE DEF result, saw
<1>5. Concluded(result, saw)
  BY <1>1, <1>2, <1>3, <1>4, AskStep, RememberStep DEF Concluded
<1>6. QED
  BY <1>5 DEF result, saw

-----------------------------------------------------------------------------
(* The end of a lookup.                                                    *)

\* Where the loop goes.
LEMMA ConcludeMoves ==
  ASSUME IInv, NEW result, NEW saw \in BOOLEAN, Looking, Conclude(result, saw),
         UNCHANGED <<domains, zone, phase>>
  PROVE  /\ attempt' = 1
         /\ \/ domain' = domain + 1 /\ name' = 1 /\ sawServFail' = FALSE
            \/ domain' = domain /\ name' = 2 /\ name = 1 /\ phase \in {"zone", "dkim"}
         /\ phase = "zone" /\ name' = 1 => name = 2 \/ result = "servfail"
         /\ phase = "zone" => found' = found
         /\ phase = "zone" => servfail' = servfail \cup (IF result = "servfail" THEN {domain}
                                                         ELSE {})
         /\ phase # "zone" => servfail' = servfail
         /\ phase = "dkim" /\ name' = 2 => sawServFail' = saw /\ result # "txt"
<1>1. LoopTypeOK /\ phase \in Judging \cup {"zone"} /\ name \in {1, 2}
      /\ domain \in Nat
  BY LookedType DEF IInv, LoopTypeOK
<1>2. CASE phase = "zone"
  BY <1>1, <1>2 DEF Conclude, NextDomain, Judging
<1>3. CASE phase # "zone"
  BY <1>1, <1>3 DEF Conclude, NextDomain, Judging
<1>4. QED
  BY <1>2, <1>3

\* What the loop makes of the domain.
LEMMA ConcludeFound ==
  ASSUME IInv, NEW result, NEW saw \in BOOLEAN, Looking, Conclude(result, saw),
         UNCHANGED <<domains, zone, phase>>
  PROVE  \/ found' = found
         \/ /\ phase \in Judging /\ domain' = domain + 1
            /\ phase = "dkim" => result = "txt" \/ name = 2
            /\ DOMAIN found' = Judging
            /\ \A p \in Judging : DOMAIN found'[p] = Domains
            /\ \A p \in Judging, d \in Domains :
                 ~(p = phase /\ d = domain) => found'[p][d] = found[p][d]
            /\ found'[phase][domain] =
                 IF phase = "dkim" /\ result # "txt" THEN dkimNotFound(saw) ELSE result
<1>1. LoopTypeOK /\ domain \in Domains
  BY LookedType DEF IInv
<1> DEFINE new == IF phase = "dkim" /\ result # "txt" THEN dkimNotFound(saw) ELSE result
<1>2. CASE found' = found
  BY <1>2
<1>3. CASE found' # found
  <2>1. /\ phase \in Judging /\ domain' = domain + 1
        /\ phase = "dkim" => result = "txt" \/ name = 2
        /\ found' = [found EXCEPT ![phase][domain] = new]
    BY <1>3 DEF Conclude, NextDomain
  <2> HIDE DEF new
  <2>2. /\ DOMAIN found' = Judging
        /\ \A p \in Judging : DOMAIN found'[p] = Domains
        /\ \A p \in Judging, d \in Domains :
             ~(p = phase /\ d = domain) => found'[p][d] = found[p][d]
        /\ found'[phase][domain] = new
    BY <1>1, <2>1 DEF LoopTypeOK
  <2>3. QED
    BY <2>1, <2>2 DEF new
<1>4. QED
  BY <1>2, <1>3

\* A loop does not go back.
LEMMA BeyondStays ==
  ASSUME LoopTypeOK, UNCHANGED phase, domain' \in {domain, domain + 1}, NEW d \in Domains,
         NEW p \in Judging \cup {"zone"}, Beyond(p, d)
  PROVE  Beyond(p, d)'
BY DEF Beyond, LoopTypeOK, Domains

LEMMA ConcludedTypes ==
  ASSUME IInv, NEW result, NEW saw, Concluded(result, saw)
  PROVE  LoopTypeOK' /\ LoopOK'
<1>1. /\ attempt' = 1
      /\ \/ domain' = domain + 1 /\ name' = 1 /\ sawServFail' = FALSE
         \/ domain' = domain /\ name' = 2 /\ name = 1 /\ phase \in {"zone", "dkim"}
      /\ UNCHANGED <<domains, zone, phase>>
  BY ConcludeMoves DEF Concluded
<1>2. /\ LoopTypeOK /\ LoopOK /\ domain \in Nat /\ domains \in Nat /\ domain <= domains
      /\ phase \in Judging \cup {"zone"} /\ Looking
  BY LookedType DEF IInv, Concluded
<1>3. DOMAIN found' = Judging /\ \A p \in Judging : DOMAIN found'[p] = Domains
  BY <1>2, ConcludeFound DEF Concluded, LoopTypeOK
<1>4. sawServFail' \in BOOLEAN
  <2>1. saw \in BOOLEAN /\ sawServFail \in BOOLEAN /\ Conclude(result, saw)
    BY <1>2 DEF Concluded, LoopTypeOK
  <2>2. sawServFail' = saw \/ sawServFail' = sawServFail \/ sawServFail' = FALSE
    BY <2>1 DEF Conclude, NextDomain
  <2>3. QED
    BY <2>1, <2>2
<1>5. LoopTypeOK'
  BY <1>1, <1>2, <1>3, <1>4, DnsAssumption DEF LoopTypeOK, Concluded
<1>6. LoopOK'
  BY <1>1, <1>2 DEF LoopOK, Judging
<1>7. QED
  BY <1>5, <1>6

\* The name is passed, and no name is looked up by the loop for a second time.
LEMMA ConcludedAsked ==
  ASSUME IInv, NEW result, NEW saw, Concluded(result, saw)
  PROVE  AskedOK'
<1>1. /\ attempt' = 1
      /\ \/ domain' = domain + 1 /\ name' = 1
         \/ domain' = domain /\ name' = 2 /\ name = 1 /\ phase \in {"zone", "dkim"}
      /\ phase = "zone" /\ name' = 1 => name = 2 \/ result = "servfail"
      /\ phase = "zone" => servfail' = servfail \cup (IF result = "servfail" THEN {domain}
                                                      ELSE {})
      /\ phase # "zone" => servfail' = servfail
      /\ UNCHANGED <<domains, phase>>
  BY ConcludeMoves DEF Concluded
<1>2. /\ LoopTypeOK /\ LoopOK /\ domain \in Nat /\ domain \in Domains
      /\ phase \in Judging \cup {"zone"} /\ Looking /\ Looked \in Names /\ Looked[2] = domain
  BY LookedType DEF IInv, Concluded
<1>3. ASSUME NEW n \in Names, Passed(n) PROVE Passed(n)'
  <2>1. n[2] \in Domains /\ domain' \in {domain, domain + 1}
    BY <1>1, <1>3, NameShape
  <2>2. \A p \in Judging \cup {"zone"} : Beyond(p, n[2]) => Beyond(p, n[2])'
    BY <1>1, <1>2, <2>1, BeyondStays
  <2>3. CASE n[1] = "txt"
    BY <1>1, <1>2, <1>3, <2>1, <2>2, <2>3 DEF Passed, Beyond, Judging
  <2>4. CASE n[1] = "dkim"
    <3>1. CASE Beyond("dkim", n[2])
      BY <2>2, <2>4, <3>1 DEF Passed, Judging
    <3>2. CASE phase = "dkim" /\ n[2] = domain /\ n[3] < name
      <4>1. name # 1
        BY <1>2, <2>4, <3>2, NameShape DEF LoopTypeOK
      <4>2. domain' = domain + 1
        BY <1>1, <4>1
      <4>3. Beyond("dkim", n[2])'
        BY <1>1, <1>2, <3>2, <4>2 DEF Beyond
      <4>4. QED
        BY <2>4, <4>3 DEF Passed
    <3>3. QED
      BY <1>3, <2>4, <3>1, <3>2 DEF Passed
  <2>5. CASE n[1] \in {"mx", "dmarc"}
    BY <1>3, <2>2, <2>5 DEF Passed, Judging
  <2>6. QED
    BY <1>3, <2>3, <2>4, <2>5 DEF Passed
<1>4. ASSUME NEW n \in Names, n = Looked PROVE Passed(n)'
  <2>1. CASE phase = "zone"
    BY <1>1, <1>2, <1>4, <2>1, LookedIs DEF Passed, Beyond, LoopTypeOK
  <2>2. CASE phase \in {"spf", "mx"}
    BY <1>1, <1>2, <1>4, <2>2, LookedIs DEF Passed, Beyond, Later
  <2>3. CASE phase = "dkim"
    BY <1>1, <1>2, <1>4, <2>3, LookedIs DEF Passed, Beyond, LoopTypeOK
  <2>4. CASE phase = "dmarc"
    BY <1>1, <1>2, <1>4, <2>4, LookedIs DEF Passed, Beyond
  <2>5. QED
    BY <1>2, <2>1, <2>2, <2>3, <2>4 DEF Judging
<1>5. ASSUME NEW n \in Names, Passed(n)', n[1] \in {"txt", "mx"}, n[2] <= domains
      PROVE  n \in DOMAIN cache' \/ n[2] \in servfail'
  <2>1. DOMAIN cache \subseteq DOMAIN cache' /\ servfail \subseteq servfail'
    BY <1>1 DEF Concluded
  <2>2. CASE Passed(n)
    BY <1>5, <2>1, <2>2 DEF IInv, AskedOK
  <2>3. CASE ~Passed(n)
    <3>1. phase = "zone" /\ n[2] = domain /\ n[2] \in Nat
      BY <1>1, <1>2, <1>5, <2>3, NameShape DEF Passed, Beyond, Later, Domains, Judging
    <3>2. CASE n[1] = "txt"
      <4>1. name = 1
        BY <1>2, <2>3, <3>1, <3>2 DEF Passed, LoopTypeOK
      <4>2. n = Looked
        BY <1>2, <3>1, <3>2, <4>1, LookedIs, NameShape
      <4>3. QED
        BY <3>2, <4>2 DEF Concluded
    <3>3. CASE n[1] = "mx"
      <4>1. name' = 1 /\ domain' = domain + 1
        BY <1>1, <1>2, <1>5, <3>1, <3>3 DEF Passed, Beyond, Later
      <4>2. CASE result = "servfail"
        BY <1>1, <3>1, <4>2
      <4>3. CASE result # "servfail"
        <5>1. n = Looked
          BY <1>1, <1>2, <3>1, <3>3, <4>1, <4>3, LookedIs, NameShape
        <5>2. QED
          BY <3>3, <4>3, <5>1 DEF Concluded
      <4>4. QED
        BY <4>2, <4>3
    <3>4. QED
      BY <1>5, <3>2, <3>3
  <2>4. QED
    BY <2>2, <2>3
<1>6. ASSUME NEW n \in Names, ~Passed(n)' PROVE asked'[n] = 0
  <2>1. ~Passed(n) /\ n # Looked
    BY <1>3, <1>4, <1>6
  <2>2. asked[n] = 0
    BY <2>1 DEF IInv, AskedOK
  <2>3. QED
    BY <2>1, <2>2 DEF Concluded
<1>7. \A n \in Names : asked'[n] <= 2
  BY DEF Concluded, IInv, AskedOK
<1>8. QED
  BY <1>1, <1>5, <1>6, <1>7 DEF AskedOK

LEMMA ZoneType == LoopTypeOK => \A d \in Domains : zone[d].dkim \subseteq {1, 2}
BY DnsAssumption DEF LoopTypeOK

\* A verdict that stands is not of a name that is looked up now.
LEMMA FollowsStays ==
  ASSUME IInv, NEW result, NEW saw, Concluded(result, saw),
         NEW p \in Judging \ {"spf"}, NEW d \in Domains, found'[p][d] = found[p][d]
  PROVE  Follows(p, d)'
<1>1. /\ LoopTypeOK /\ domain \in Nat /\ Looked \in Names /\ Looked[2] = domain
      /\ phase \in Judging \cup {"zone"}
      /\ zone' = zone
  BY LookedType DEF IInv, Concluded
<1>2. Has(p, d)' = Has(p, d)
  BY <1>1 DEF Has
<1>3. Follows(p, d)
  BY DEF IInv, FoundOK
<1>4. ASSUME found[p][d] = "missing" PROVE Looked \notin NamesOf(p, d)
  <2>1. Beyond(p, d)
    BY <1>4 DEF IInv, FoundOK
  <2>2. ASSUME Looked[1] = p, d = domain PROVE FALSE
    <3>1. phase = p \/ (phase = "zone" /\ p = "mx")
      BY <1>1, <2>2, LookedIs DEF Judging, LoopTypeOK
    <3>2. QED
      BY <1>1, <2>1, <2>2, <3>1 DEF Beyond, Later, Judging
  <2>3. QED
    BY <1>1, <2>2 DEF NamesOf
<1>5. ASSUME found[p][d] = "missing", Has(p, d) # "missing"
      PROVE  NamesOf(p, d) \cap lost' # {}
  <2>1. PICK n : n \in NamesOf(p, d) /\ n \in lost
    BY <1>3, <1>5 DEF Follows
  <2>2. n \in Names \ {Looked}
    BY <1>4, <1>5, <2>1 DEF NamesOf
  <2>3. n \in lost'
    BY <2>1, <2>2 DEF Concluded
  <2>4. QED
    BY <2>1, <2>3
<1>6. NamesOf(p, d)' = NamesOf(p, d)
  BY DEF NamesOf
<1>7. QED
  BY <1>2, <1>3, <1>5, <1>6 DEF Follows

\* The verdict on the domain whose lookups have ended.
LEMMA FollowsNew ==
  ASSUME IInv, NEW result, NEW saw, Concluded(result, saw),
         phase \in Judging \ {"spf"}, phase = "dkim" => result = "txt" \/ name = 2,
         found'[phase][domain] =
           IF phase = "dkim" /\ result # "txt" THEN dkimNotFound(saw) ELSE result,
         NEW p, p = phase, NEW d, d = domain
  PROVE  Follows(p, d)'
<1>1. /\ LoopTypeOK /\ Looking /\ domain \in Domains /\ Looked \in Names /\ Looked[2] = domain
      /\ Truthful(Looked, result, lost') /\ zone' = zone /\ phase' = phase
      /\ phase \in {"dkim", "dmarc", "mx"}
  BY LookedType DEF IInv, Concluded, Judging
<1>2. Has(p, d)' = Has(p, d) /\ NamesOf(p, d)' = NamesOf(p, d)
  BY <1>1 DEF Has, NamesOf
<1>3. CASE phase \in {"dmarc", "mx"}
  <2>1. Looked[1] = p /\ Looked \in NamesOf(p, d)
    BY <1>1, <1>3, LookedIs DEF NamesOf
  <2>2. result \in {"servfail", Has(p, d)} \/ (result = "missing" /\ Looked \in lost')
    BY <1>1, <1>3, <2>1 DEF Truthful
  <2>3. found'[p][d] = result
    BY <1>3
  <2>4. found'[p][d] = "missing" => Has(p, d) = "missing" \/ NamesOf(p, d) \cap lost' # {}
    BY <2>1, <2>2, <2>3
  <2>5. QED
    BY <1>2, <2>2, <2>3, <2>4 DEF Follows
<1>4. CASE phase = "dkim"
  <2>1. Looked = <<"dkim", domain, name>> /\ Looked \in NamesOf(p, d)
    BY <1>1, <1>4, LookedIs DEF NamesOf
  <2>2. Has(p, d) = IF zone[domain].dkim = {} THEN "missing" ELSE "txt"
    BY <1>4 DEF Has
  <2>3. \/ result = "servfail"
        \/ result = "txt" /\ name \in zone[domain].dkim
        \/ result = "missing" /\ (name \notin zone[domain].dkim \/ Looked \in lost')
    BY <1>1, <2>1 DEF Truthful
  <2>4. CASE result = "txt"
    <3>1. found'[p][d] = "txt" /\ Has(p, d) = "txt"
      BY <1>4, <2>2, <2>3, <2>4
    <3>2. QED
      BY <1>2, <3>1 DEF Follows
  <2>5. CASE result # "txt" /\ saw
    <3>1. found'[p][d] = "servfail"
      BY <1>4, <2>5 DEF dkimNotFound
    <3>2. QED
      BY <3>1 DEF Follows
  <2>6. CASE result # "txt" /\ ~saw
    <3>1. found'[p][d] = "missing" /\ name = 2 /\ result = "missing" /\ ~sawServFail
      BY <1>4, <2>3, <2>6 DEF dkimNotFound, Concluded
    <3>2. 2 \notin zone[domain].dkim \/ Looked \in lost'
      BY <2>3, <3>1
    <3>3. 1 \notin zone[domain].dkim \/ <<"dkim", domain, 1>> \in lost'
      <4>1. 1 \notin zone[domain].dkim \/ <<"dkim", domain, 1>> \in lost
        BY <1>4, <3>1 DEF IInv, SelectorOK
      <4>2. <<"dkim", domain, 1>> \in Names \ {Looked}
        BY <1>1, <2>1, <3>1 DEF Names
      <4>3. QED
        BY <4>1, <4>2 DEF Concluded
    <3>4. <<"dkim", domain, 1>> \in NamesOf(p, d)
      BY <1>1, <1>4 DEF NamesOf, Names
    <3>5. Has(p, d) = "missing" \/ NamesOf(p, d) \cap lost' # {}
      <4>1. CASE 1 \notin zone[domain].dkim /\ 2 \notin zone[domain].dkim
        <5>1. zone[domain].dkim = {}
          BY <1>1, <4>1, ZoneType
        <5>2. QED
          BY <2>2, <5>1
      <4>2. QED
        BY <2>1, <3>2, <3>3, <3>4, <4>1
    <3>6. QED
      BY <1>2, <3>1, <3>5 DEF Follows
  <2>7. QED
    BY <2>4, <2>5, <2>6 DEF Concluded
<1>5. QED
  BY <1>1, <1>3, <1>4

LEMMA ConcludedFound ==
  ASSUME IInv, NEW result, NEW saw, Concluded(result, saw)
  PROVE  FoundOK'
<1>1. /\ LoopTypeOK /\ Looking /\ domain \in Domains /\ domain \in Nat
      /\ phase \in Judging \cup {"zone"} /\ phase' = phase /\ domain' \in {domain, domain + 1}
      /\ phase # "zone" => servfail' = servfail /\ domain \notin servfail
  BY LookedType, ConcludeMoves DEF IInv, Concluded, Looking, Excluded
<1>2. \A p \in Judging, d \in Domains : Beyond(p, d) => Beyond(p, d)'
  BY <1>1, BeyondStays
<1>3. CASE found' = found
  <2>1. ASSUME NEW d \in Domains
        PROVE  /\ \A p \in Judging : found'[p][d] # "none yet" => Beyond(p, d)'
               /\ phase' # "zone" /\ d \in servfail' =>
                    \A p \in Judging : found'[p][d] = "none yet"
    BY <1>1, <1>2, <1>3 DEF IInv, FoundOK
  <2>2. ASSUME NEW d \in Domains, NEW p \in Judging \ {"spf"} PROVE Follows(p, d)'
    BY <1>3, <2>2, FollowsStays
  <2>3. QED
    BY <2>1, <2>2 DEF FoundOK
<1>4. CASE found' # found
  <2>1. /\ phase \in Judging /\ domain' = domain + 1
        /\ phase = "dkim" => result = "txt" \/ name = 2
        /\ \A p \in Judging, d \in Domains :
             ~(p = phase /\ d = domain) => found'[p][d] = found[p][d]
        /\ found'[phase][domain] =
             IF phase = "dkim" /\ result # "txt" THEN dkimNotFound(saw) ELSE result
    BY <1>4, ConcludeFound DEF Concluded
  <2>2. ASSUME NEW d \in Domains
        PROVE  /\ \A p \in Judging : found'[p][d] # "none yet" => Beyond(p, d)'
               /\ phase' # "zone" /\ d \in servfail' =>
                    \A p \in Judging : found'[p][d] = "none yet"
    <3>1. ASSUME NEW p \in Judging, found'[p][d] # "none yet" PROVE Beyond(p, d)'
      <4>1. CASE p = phase /\ d = domain
        BY <1>1, <2>1, <4>1 DEF Beyond
      <4>2. CASE ~(p = phase /\ d = domain)
        BY <1>2, <2>1, <3>1, <4>2 DEF IInv, FoundOK
      <4>3. QED
        BY <4>1, <4>2
    <3>2. phase # "zone"
      BY <2>1 DEF Judging
    <3>3. QED
      BY <1>1, <2>1, <3>1, <3>2 DEF IInv, FoundOK
  <2>3. ASSUME NEW d \in Domains, NEW p \in Judging \ {"spf"} PROVE Follows(p, d)'
    <3>1. CASE p = phase /\ d = domain
      BY <2>1, <2>3, <3>1, FollowsNew
    <3>2. CASE ~(p = phase /\ d = domain)
      BY <2>1, <2>3, <3>2, FollowsStays
    <3>3. QED
      BY <3>1, <3>2
  <2>4. QED
    BY <2>2, <2>3 DEF FoundOK
<1>5. QED
  BY <1>3, <1>4

LEMMA ConcludedSelector ==
  ASSUME IInv, NEW result, NEW saw, Concluded(result, saw)
  PROVE  SelectorOK'
<1> SUFFICES ASSUME phase' = "dkim", name' = 2
             PROVE  sawServFail' \/ 1 \notin zone'[domain'].dkim
                    \/ <<"dkim", domain', 1>> \in lost'
  BY DEF SelectorOK
<1>1. /\ phase = "dkim" /\ domain' = domain /\ name = 1 /\ zone' = zone
      /\ sawServFail' = saw /\ result # "txt" /\ LoopTypeOK
  BY ConcludeMoves DEF Concluded, IInv
<1>2. Looked = <<"dkim", domain, 1>>
  BY <1>1, LookedIs
<1>3. \/ result = "servfail"
      \/ result = "missing" /\ (1 \notin zone[domain].dkim \/ Looked \in lost')
  BY <1>1, <1>2 DEF Concluded, Truthful
<1>4. QED
  BY <1>1, <1>2, <1>3 DEF Concluded

LEMMA ConcludedStep ==
  ASSUME IInv, NEW result, NEW saw, Concluded(result, saw)
  PROVE  IInv'
<1>1. CacheOK'
  BY DEF Concluded
<1>2. QED
  BY <1>1, ConcludedTypes, ConcludedAsked, ConcludedFound, ConcludedSelector DEF IInv

-----------------------------------------------------------------------------
(* The other steps.                                                        *)

LEMMA HasStays ==
  ASSUME UNCHANGED zone, NEW p, NEW d
  PROVE  Has(p, d)' = Has(p, d) /\ NamesOf(p, d)' = NamesOf(p, d)
BY DEF Has, NamesOf

LEMMA FollowsKept ==
  ASSUME UNCHANGED <<zone, found, lost>>, NEW p, NEW d, Follows(p, d)
  PROVE  Follows(p, d)'
BY HasStays DEF Follows

LEMMA CacheKept ==
  ASSUME UNCHANGED <<zone, cache, lost>>, CacheOK
  PROVE  CacheOK'
<1>1. \A p, d : Has(p, d)' = Has(p, d)
  BY HasStays
<1>2. ASSUME NEW n \in DOMAIN cache
      PROVE  Truthful(n, cache[n], lost) => Truthful(n, cache[n], lost)'
  BY <1>1 DEF Truthful
<1>3. QED
  BY <1>2 DEF CacheOK

LEMMA InductiveInit == Init => IInv
<1> SUFFICES ASSUME Init PROVE IInv
  OBVIOUS
<1>1. LoopTypeOK
  <2>1. 1 \in 1..(MaxDomains + 1) /\ 0 \in 0..MaxDomains
    BY DnsAssumption
  <2>2. asked \in [Names -> Nat] /\ DOMAIN found = Judging
        /\ \A p \in Judging : DOMAIN found[p] = Domains
    BY DEF Init
  <2>3. QED
    BY <2>1, <2>2 DEF Init, LoopTypeOK
<1>2. LoopOK /\ CacheOK /\ SelectorOK
  <2>1. DOMAIN cache = {}
    <3>1. cache \in Seq(Nat) /\ Len(cache) = 0
      BY EmptySeq DEF Init
    <3>2. QED
      BY <3>1
  <2>2. CacheOK
    BY <2>1 DEF CacheOK
  <2>3. phase = "domains" /\ domains = 0 /\ domain = 1 /\ name = 1 /\ attempt = 1
    BY DEF Init
  <2>4. QED
    BY <2>2, <2>3 DEF LoopOK, SelectorOK
<1>3. FoundOK
  <2>1. \A p \in Judging, d \in Domains : found[p][d] = "none yet"
    BY DEF Init
  <2>2. \A p \in Judging, d \in Domains : Follows(p, d)
    BY <2>1 DEF Follows
  <2>3. QED
    BY <2>1, <2>2 DEF FoundOK
<1>4. AskedOK
  <2>1. phase = "domains" /\ domain = 1 /\ name = 1
    BY DEF Init
  <2>2. ASSUME NEW n \in Names PROVE ~Passed(n)
    <3>1. ~Beyond("zone", n[2]) /\ ~Beyond("dkim", n[2]) /\ ~Beyond("dmarc", n[2])
      BY <2>1 DEF Beyond, Later
    <3>2. QED
      BY <2>1, <3>1 DEF Passed
  <2>3. ~Looking
    BY <2>1 DEF Looking, Judging
  <2>4. \A n \in Names : asked[n] = 0
    BY DEF Init
  <2>5. QED
    BY <2>2, <2>3, <2>4 DEF AskedOK
<1>5. QED
  BY <1>1, <1>2, <1>3, <1>4 DEF IInv

\* Before the first loop no name has been looked up and no domain judged.
LEMMA BeforeLoops ==
  ASSUME IInv, phase = "domains"
  PROVE  /\ name = 1 /\ attempt = 1 /\ domain = 1 /\ domains = 0
         /\ \A n \in Names : ~Passed(n) /\ asked[n] = 0
         /\ \A p \in Judging, d \in Domains : found[p][d] = "none yet"
<1>1. name = 1 /\ attempt = 1 /\ domain = 1 /\ domains = 0 /\ ~Looking
  BY DEF IInv, LoopTypeOK, LoopOK, Looking, Judging
<1>2. \A p \in Judging \cup {"zone"}, d \in Domains : ~Beyond(p, d)
  BY DEF Beyond, Later, Judging
<1>3. ASSUME NEW n \in Names PROVE ~Passed(n)
  <2>1. n[2] \in Domains
    BY NameShape
  <2>2. ~Beyond("zone", n[2]) /\ ~Beyond("dkim", n[2]) /\ ~Beyond("dmarc", n[2])
    BY <1>2, <2>1 DEF Judging
  <2>3. QED
    BY <1>1, <2>2 DEF Passed
<1>4. \A n \in Names : asked[n] = 0
  BY <1>1, <1>3 DEF IInv, AskedOK
<1>5. \A p \in Judging, d \in Domains : found[p][d] = "none yet"
  BY <1>2 DEF IInv, FoundOK
<1>6. QED
  BY <1>1, <1>3, <1>4, <1>5

\* As long as no domain has been judged, the verdicts follow the zones.
LEMMA NoneFound ==
  ASSUME \A p \in Judging, d \in Domains : found[p][d] = "none yet", UNCHANGED found
  PROVE  FoundOK'
<1>1. \A p \in Judging, d \in Domains : Follows(p, d)'
  BY DEF Follows
<1>2. QED
  BY <1>1 DEF FoundOK

LEMMA ReadDomainsStep ==
  ASSUME IInv, ReadDomains
  PROVE  IInv'
<1>1. /\ name = 1 /\ attempt = 1 /\ domain = 1
      /\ \A n \in Names : ~Passed(n) /\ asked[n] = 0
      /\ \A p \in Judging, d \in Domains : found[p][d] = "none yet"
  BY BeforeLoops DEF ReadDomains
<1>2. LoopTypeOK' /\ LoopOK'
  <2>1. domains' \in 0..MaxDomains
    BY DnsAssumption DEF ReadDomains, Domains
  <2>2. LoopTypeOK'
    BY <2>1 DEF IInv, LoopTypeOK, ReadDomains
  <2>3. phase' = "zone" /\ name' = 1 /\ attempt' = 1
    BY <1>1 DEF ReadDomains
  <2>4. QED
    BY <2>2, <2>3 DEF LoopOK
<1>3. phase' = "zone" /\ domain' = 1 /\ name' = 1 /\ attempt' = 1 /\ UNCHANGED asked
  BY <1>1 DEF ReadDomains
<1>4. ASSUME NEW n \in Names PROVE ~Passed(n)'
  <2>1. n[2] \in Nat /\ n[2] >= 1
    BY NameShape DEF Domains
  <2>2. ~Beyond("zone", n[2])' /\ ~Beyond("dkim", n[2])' /\ ~Beyond("dmarc", n[2])'
    BY <1>3, <2>1 DEF Beyond, Later
  <2>3. QED
    BY <1>3, <2>2 DEF Passed
<1>5. AskedOK'
  <2>1. \A n \in Names : asked'[n] = 0
    BY <1>1, <1>3
  <2>2. attempt' - 1 = 0
    BY <1>3
  <2>3. QED
    BY <1>4, <2>1, <2>2 DEF AskedOK
<1>6. CacheOK' /\ SelectorOK'
  BY <1>3, CacheKept DEF IInv, SelectorOK, ReadDomains
<1>7. FoundOK'
  BY <1>1, NoneFound DEF ReadDomains
<1>8. QED
  BY <1>2, <1>5, <1>6, <1>7 DEF IInv

LEMMA NoDomainsStep ==
  ASSUME IInv, NoDomains
  PROVE  IInv'
<1>1. /\ name = 1 /\ attempt = 1 /\ domain = 1 /\ domains = 0
      /\ \A n \in Names : ~Passed(n) /\ asked[n] = 0
      /\ \A p \in Judging, d \in Domains : found[p][d] = "none yet"
  BY BeforeLoops DEF NoDomains
<1>2. phase' = "ended" /\ UNCHANGED <<domains, zone, domain, name, attempt, cache, found, asked, lost>>
  BY DEF NoDomains
<1>3. LoopTypeOK' /\ LoopOK'
  BY <1>1, <1>2 DEF IInv, LoopTypeOK, LoopOK, NoDomains
<1>4. AskedOK'
  <2>1. ~Looking'
    BY <1>2 DEF Looking, Judging
  <2>2. ASSUME NEW n \in Names PROVE ~(n[2] <= domains')
    <3>1. n[2] \in Domains /\ domains' = 0
      BY <1>1, <1>2, NameShape
    <3>2. QED
      BY <3>1 DEF Domains
  <2>3. \A n \in Names : asked'[n] = 0
    BY <1>1, <1>2
  <2>4. QED
    BY <2>1, <2>2, <2>3 DEF AskedOK
<1>5. CacheOK' /\ SelectorOK'
  BY <1>2, CacheKept DEF IInv, SelectorOK
<1>6. FoundOK'
  BY <1>1, <1>2, NoneFound
<1>7. QED
  BY <1>3, <1>4, <1>5, <1>6 DEF IInv

\* Where a loop goes without looking anything up, no name is newly passed that a later
\* loop wants, and what has been passed stays so.
LEMMA QuietMove ==
  ASSUME IInv, LoopTypeOK', LoopOK', attempt = 1, attempt' = 1, ~Looking, name' = 1,
         UNCHANGED <<domains, zone, cache, servfail, found, asked, lost>>,
         \A p \in Judging, d \in Domains : Beyond(p, d) => Beyond(p, d)',
         \A n \in Names : Passed(n) => Passed(n)',
         \A n \in Names : Passed(n)' /\ n[1] \in {"txt", "mx"} /\ n[2] <= domains => Passed(n)
  PROVE  IInv'
<1>1. AskedOK'
  <2>1. \A n \in Names : ~Passed(n) => asked[n] = 0
    BY DEF IInv, AskedOK
  <2>2. \A n \in Names : ~Passed(n)' => asked'[n] = 0
    BY <2>1
  <2>3. \A n \in Names : asked'[n] <= 2
    BY DEF IInv, AskedOK
  <2>4. \A n \in Names : Passed(n)' /\ n[1] \in {"txt", "mx"} /\ n[2] <= domains' =>
          n \in DOMAIN cache' \/ n[2] \in servfail'
    BY DEF IInv, AskedOK
  <2>5. QED
    BY <2>2, <2>3, <2>4 DEF AskedOK
<1>2. CacheOK' /\ SelectorOK'
  BY CacheKept DEF IInv, SelectorOK
<1>3. FoundOK'
  <2>1. \A d \in Domains : \A p \in Judging \ {"spf"} : Follows(p, d)'
    BY FollowsKept DEF IInv, FoundOK
  <2>2. ASSUME NEW d \in Domains, d \in servfail, NEW p \in Judging
        PROVE  found[p][d] = "none yet"
    <3>1. CASE phase = "zone"
      BY <3>1 DEF IInv, FoundOK, Beyond, Later, Judging
    <3>2. CASE phase # "zone"
      BY <2>2, <3>2 DEF IInv, FoundOK
    <3>3. QED
      BY <3>1, <3>2
  <2>3. \A d \in Domains, p \in Judging : found'[p][d] # "none yet" => Beyond(p, d)'
    BY DEF IInv, FoundOK
  <2>4. QED
    BY <2>1, <2>2, <2>3 DEF FoundOK
<1>4. QED
  BY <1>1, <1>2, <1>3 DEF IInv

LEMMA SkipStep ==
  ASSUME IInv, Skip
  PROVE  IInv'
<1>1. /\ LoopTypeOK /\ LoopOK /\ phase \in Judging /\ domain <= domains /\ ~Looking
      /\ domain' = domain + 1 /\ name' = 1 /\ sawServFail' = FALSE
      /\ UNCHANGED <<domains, zone, phase, attempt, cache, servfail, found, asked, lost>>
  BY DEF IInv, Skip, NextDomain, Looking
<1>2. attempt = 1 /\ attempt' = 1
  BY <1>1 DEF LoopTypeOK, LoopOK
<1>3. LoopTypeOK' /\ LoopOK'
  <2>1. domain' \in 1..(MaxDomains + 1)
    BY <1>1, DnsAssumption DEF LoopTypeOK
  <2>2. LoopTypeOK'
    BY <1>1, <2>1 DEF LoopTypeOK
  <2>3. LoopOK'
    BY <1>1, <1>2 DEF LoopOK, Judging
  <2>4. QED
    BY <2>2, <2>3
<1>4. \A p \in Judging \cup {"zone"}, d \in Domains : Beyond(p, d) => Beyond(p, d)'
  BY <1>1, BeyondStays
<1>5. ASSUME NEW n \in Names, Passed(n) PROVE Passed(n)'
  <2>1. n[2] \in Domains
    BY NameShape
  <2>2. CASE phase = "dkim" /\ n[2] = domain
    BY <1>1, <1>4, <1>5, <2>1, <2>2 DEF Passed, Beyond, Judging, Domains
  <2>3. CASE ~(phase = "dkim" /\ n[2] = domain)
    BY <1>1, <1>4, <1>5, <2>1, <2>3 DEF Passed, Judging
  <2>4. QED
    BY <2>2, <2>3
<1>6. ASSUME NEW n \in Names, Passed(n)', n[1] \in {"txt", "mx"} PROVE Passed(n)
  BY <1>1, <1>6 DEF Passed, Beyond, Judging
<1>7. QED
  BY <1>1, <1>2, <1>3, <1>4, <1>5, <1>6, QuietMove

\* What comes later than a loop that is later comes later.
LEMMA LaterOn ==
  ASSUME NEW r \in Judging \cup {"zone"}, NEW p \in Later[r],
         NEW q, p \in Judging \cup {"zone"} /\ q \in Later[p]
  PROVE  q \in Later[r]
BY DEF Later, Judging

\* A loop that has gone through the domains has passed every name it could pass.
LEMMA EndLoopStep ==
  ASSUME IInv, NEW p \in Judging \cup {"zone"}, NEW q \in Later[p], NEW added, EndLoop(p, q, added)
  PROVE  IInv'
<1>1. /\ LoopTypeOK /\ LoopOK /\ phase = p /\ phase' = q /\ domain > domains /\ domain' = 1
      /\ UNCHANGED <<domains, zone, name, attempt, cache, servfail, sawServFail, found, asked, lost>>
      /\ domain \in Nat /\ domains \in Nat
  BY DEF IInv, EndLoop, LoopTypeOK
<1>2. attempt = 1 /\ attempt' = 1 /\ name = 1 /\ name' = 1 /\ ~Looking
  BY <1>1 DEF LoopTypeOK, LoopOK, Looking
<1>3. q \in {"spf", "dkim", "dmarc", "mx", "ended"}
  BY DEF Later, Judging
<1>4. LoopTypeOK' /\ LoopOK'
  <2>1. domain' \in 1..(MaxDomains + 1)
    BY <1>1, DnsAssumption
  <2>2. LoopTypeOK'
    BY <1>1, <1>3, <2>1 DEF LoopTypeOK
  <2>3. LoopOK'
    BY <1>1, <1>2, <1>3 DEF LoopOK
  <2>4. QED
    BY <2>2, <2>3
<1>5. \A r \in Judging \cup {"zone"}, d \in Domains : Beyond(r, d) => Beyond(r, d)'
  BY <1>1, LaterOn DEF Beyond
<1>6. ASSUME NEW n \in Names, Passed(n) PROVE Passed(n)'
  <2>1. n[2] \in Domains /\ (n[1] = "dkim" => n[3] \in {1, 2})
    BY NameShape
  <2>2. ~(n[3] < name /\ n[1] = "dkim") /\ name # 2
    BY <1>2, <2>1
  <2>3. QED
    BY <1>5, <1>6, <2>1, <2>2 DEF Passed, Judging
<1>7. ASSUME NEW n \in Names, Passed(n)', n[1] \in {"txt", "mx"}, n[2] <= domains
      PROVE  Passed(n)
  <2>1. n[2] \in Nat
    BY NameShape DEF Domains
  <2>2. Beyond("zone", n[2])
    <3>1. CASE phase = "zone"
      BY <1>1, <1>7, <2>1, <3>1 DEF Beyond
    <3>2. CASE phase # "zone"
      BY <1>1, <3>2 DEF Beyond, Later, Judging
    <3>3. QED
      BY <3>1, <3>2
  <2>3. QED
    BY <1>7, <2>2 DEF Passed
<1>8. QED
  BY <1>1, <1>2, <1>4, <1>5, <1>6, <1>7, QuietMove

\* A first attempt that fails is asked again at once.
LEMMA RetryStep ==
  ASSUME IInv, NEW fault, Retry(fault)
  PROVE  IInv'
<1>1. /\ LoopTypeOK /\ LoopOK /\ Looking /\ attempt = 1 /\ attempt' = 2
      /\ UNCHANGED <<domains, zone, phase, domain, name, cache, servfail, found, lost>>
      /\ sawServFail \in BOOLEAN /\ sawServFail' \in BOOLEAN /\ (sawServFail => sawServFail')
  BY DEF IInv, Retry, Asks, LoopTypeOK
<1>2. /\ asked' \in [Names -> Nat] /\ \A n \in Names \ {Looked} : asked'[n] = asked[n]
      /\ asked'[Looked] = 1 /\ ~Passed(Looked) /\ Looked \in Names
  BY <1>1, AskStep, AsksFresh, LookedType DEF Retry
<1>3. Looking' /\ Looked' = Looked
  BY <1>1 DEF Looking, Looked, Excluded, Marked
<1>4. LoopTypeOK' /\ LoopOK'
  BY <1>1, <1>2, <1>3 DEF LoopTypeOK, LoopOK
<1>5. \A n : Passed(n)' <=> Passed(n)
  BY <1>1 DEF Passed, Beyond
<1>6. AskedOK'
  <2>1. ASSUME NEW n \in Names, n # Looked
        PROVE  /\ asked'[n] <= 2 /\ (~Passed(n) => asked'[n] = 0)
               /\ Passed(n) /\ n[1] \in {"txt", "mx"} /\ n[2] <= domains =>
                    n \in DOMAIN cache \/ n[2] \in servfail
    BY <1>2, <2>1 DEF IInv, AskedOK
  <2>2. attempt' - 1 = 1
    BY <1>1
  <2>3. QED
    BY <1>1, <1>2, <1>3, <1>5, <2>1, <2>2 DEF AskedOK
<1>7. CacheOK' /\ SelectorOK'
  BY <1>1, CacheKept DEF IInv, SelectorOK
<1>8. FoundOK'
  <2>1. \A d \in Domains : \A p \in Judging \ {"spf"} : Follows(p, d)'
    BY <1>1, FollowsKept DEF IInv, FoundOK
  <2>2. \A p, d : Beyond(p, d)' <=> Beyond(p, d)
    BY <1>1 DEF Beyond
  <2>3. QED
    BY <1>1, <2>1, <2>2 DEF IInv, FoundOK
<1>9. QED
  BY <1>4, <1>6, <1>7, <1>8 DEF IInv

LEMMA ConcludesStep ==
  ASSUME IInv,
         Cached \/ Answered \/ \E fault \in {"servfail", "timeout", "error"} : GiveUp(fault)
  PROVE  IInv'
<1>1. CASE Cached
  BY <1>1, CachedConcludes, ConcludedStep
<1>2. CASE Answered
  BY <1>2, AnsweredConcludes, ConcludedStep
<1>3. CASE \E fault \in {"servfail", "timeout", "error"} : GiveUp(fault)
  <2>1. PICK fault \in {"servfail", "timeout", "error"} : GiveUp(fault)
    BY <1>3
  <2>2. QED
    BY <2>1, GiveUpConcludes, ConcludedStep
<1>4. QED
  BY <1>1, <1>2, <1>3

LEMMA LoopsStep ==
  ASSUME IInv,
         \/ EndLoop("zone", "spf", ZoneRows)
         \/ EndLoop("spf", "dkim", SpfRows)
         \/ EndLoop("dkim", "dmarc", DkimRows)
         \/ EndLoop("dmarc", "mx", DmarcRows)
         \/ EndLoop("mx", "ended", MxRows \cup LockdownRows)
  PROVE  IInv'
<1>1. /\ "spf" \in Later["zone"] /\ "dkim" \in Later["spf"] /\ "dmarc" \in Later["dkim"]
      /\ "mx" \in Later["dmarc"] /\ "ended" \in Later["mx"]
      /\ {"zone", "spf", "dkim", "dmarc", "mx"} \subseteq Judging \cup {"zone"}
  BY DEF Later, Judging
<1>2. QED
  BY <1>1, EndLoopStep

LEMMA StutterStep ==
  ASSUME IInv, UNCHANGED vars
  PROVE  IInv'
<1>1. /\ UNCHANGED <<domains, zone, phase, domain, name, attempt>>
      /\ UNCHANGED <<cache, servfail, sawServFail, found, asked, lost>>
  BY DEF vars
<1>2. Looking' = Looking /\ Looked' = Looked
  BY <1>1 DEF Looking, Looked, Excluded, Marked
<1>3. \A n : Passed(n)' <=> Passed(n)
  BY <1>1 DEF Passed, Beyond
<1>4. LoopTypeOK' /\ LoopOK' /\ SelectorOK'
  BY <1>1, <1>2 DEF IInv, LoopTypeOK, LoopOK, SelectorOK
<1>5. AskedOK'
  BY <1>1, <1>2, <1>3 DEF IInv, AskedOK
<1>6. CacheOK'
  BY <1>1, CacheKept DEF IInv
<1>7. FoundOK'
  <2>1. \A d \in Domains : \A p \in Judging \ {"spf"} : Follows(p, d)'
    BY <1>1, FollowsKept DEF IInv, FoundOK
  <2>2. \A p, d : Beyond(p, d)' <=> Beyond(p, d)
    BY <1>1 DEF Beyond
  <2>3. QED
    BY <1>1, <2>1, <2>2 DEF IInv, FoundOK
<1>8. QED
  BY <1>4, <1>5, <1>6, <1>7 DEF IInv

LEMMA InductiveStep == IInv /\ [Next]_vars => IInv'
<1> SUFFICES ASSUME IInv, [Next]_vars PROVE IInv'
  OBVIOUS
<1>1. CASE ReadDomains
  BY <1>1, ReadDomainsStep
<1>2. CASE NoDomains
  BY <1>2, NoDomainsStep
<1>3. CASE Skip
  BY <1>3, SkipStep
<1>4. CASE Cached \/ Answered \/ \E fault \in {"servfail", "timeout", "error"} : GiveUp(fault)
  BY <1>4, ConcludesStep
<1>5. CASE \E fault \in {"servfail", "timeout"} : Retry(fault)
  BY <1>5, RetryStep
<1>6. CASE \/ EndLoop("zone", "spf", ZoneRows)
           \/ EndLoop("spf", "dkim", SpfRows)
           \/ EndLoop("dkim", "dmarc", DkimRows)
           \/ EndLoop("dmarc", "mx", DmarcRows)
           \/ EndLoop("mx", "ended", MxRows \cup LockdownRows)
  BY <1>6, LoopsStep
<1>7. CASE UNCHANGED vars
  BY <1>7, StutterStep
<1>8. QED
  BY <1>1, <1>2, <1>3, <1>4, <1>5, <1>6, <1>7 DEF Next

-----------------------------------------------------------------------------
(* The theorems.                                                           *)

\* What is cached is true of its name, and a name is asked for again only while no loop
\* has passed it, wherever the collector is and whatever has failed.
THEOREM Inductive == Spec => []IInv
<1>1. QED
  BY InductiveInit, InductiveStep, PTL DEF Spec

\* AskedAtMostTwice, of the cache and the one retry of resolveTxt, resolveMx and
\* dkimEnabled: no name is looked up more than twice in a run, however many of the five
\* loops want it.
THEOREM AtMostTwice == Spec => []AskedAtMostTwice
<1>1. IInv => AskedAtMostTwice
  BY DEF IInv, AskedOK, AskedAtMostTwice
<1>2. QED
  BY <1>1, Inductive, PTL

\* VerdictsFollowZones: a domain whose zone failed is judged by no loop, and of the
\* others DKIM, DMARC and MX are judged by what the zone has; a record is missed only
\* when the lookup of one of its names ended in a timeout or an error.
THEOREM VerdictsFollow == Spec => []VerdictsFollowZones
<1>1. IInv => VerdictsFollowZones
  BY DEF IInv, FoundOK, Follows, VerdictsFollowZones
<1>2. QED
  BY <1>1, Inductive, PTL
=============================================================================
