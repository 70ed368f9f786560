------------------------------ MODULE MCRollup ------------------------------
(***************************************************************************)
(* A pool of two, each member seen from two regions, a router and a search *)
(* provider; days of two instants.  The older versions left a row of every *)
(* kind that is repaired.                                                  *)
(***************************************************************************)
EXTENDS Rollup

MCName == {"cirisproxy", "observation", "service", "monitor", "network", "global", "us", "eu"}
            \union Display \union {IdOf[name] : name \in Display}

It(service, provider, region, status) ==
  [service |-> service, provider |-> provider, region |-> region, status |-> status]
Old(service, provider, region, ts, status) ==
  [poll |-> 0, as |-> <<service, provider, region>>, ts |-> ts,
   service |-> service, provider |-> provider, region |-> region, status |-> status]

\* groq as the proxies of us and eu see it; the other member and search where somebody
\* reports them.
Groq(us, eu) ==
  {It("cirisproxy", "groq", "global", IF "outage" \in {us, eu} THEN "outage" ELSE "operational"),
   It("observation", "groq", "us", us), It("observation", "groq", "eu", eu)}
MCOutcomes ==
  {Groq("operational", "operational") \union {It("cirisproxy", "openrouter", "global", "outage")},
   Groq("outage", "operational") \union {It("cirisproxy", "brave", "us", "outage")},
   Groq("outage", "outage"),
   {It("cirisproxy", p, "global", "operational") : p \in {"groq", "openrouter"}}}
MCLegacy == {Old("cirisproxy", "Groq", "us", 3, "outage"), Old("cirisproxy", "Brave Search", "us", 3, "outage"),
             Old("cirisproxy", "service", "us", 3, "outage")}
MCCapabilities == {[members |-> {"groq", "openrouter"}, min |-> 2]}
=============================================================================
