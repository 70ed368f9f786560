------------------------------ MODULE MCSweep ------------------------------
(***************************************************************************)
(* Two deployments: two regions whose proxies report a pool of two and a   *)
(* search provider, one of them behind a gateway that answers for billing  *)
(* too; and the node as it starts, with nothing configured.                *)
(***************************************************************************)
EXTENDS Sweep

Job(class, at, key) == [class |-> class, at |-> at, key |-> key]

MCRegion == {"us", "eu"}
MCId == {"openrouter", "groq", "brave", "google_oauth", "postgresql"}
MCKind == [p \in MCId |-> CASE p = "openrouter" -> "llm" [] p = "brave" -> "search" [] OTHER -> "none"]
MCKnownLlm == {"openrouter", "groq"}
MCKnownSearch == {"brave"}
MCMember == {"openrouter", "groq"}
MCIdentity == {"google_oauth"}
MCNone == {}

\* One gateway answers for the billing and the proxy of us.
MCJobs == <<Job("billing", "us", "us.gateway"), Job("proxy", "us", "us.gateway"),
            Job("proxy", "eu", "eu.proxy"), Job("infra", "github", "ghcr"),
            Job("auth", "google_oauth", "google")>>
MCReports ==
  [k \in {"us.gateway", "eu.proxy", "ghcr", "google"} |->
     CASE k = "us.gateway" -> {"openrouter", "groq"}
       [] k = "eu.proxy" -> {"openrouter", "brave"}
       [] OTHER -> {}]
\* `maintenance' is a word the code has no rank for.
MCVocabulary ==
  [k \in {"us.gateway", "eu.proxy", "ghcr", "google"} |->
     CASE k = "us.gateway" -> {"degraded", "maintenance"}
       [] k = "eu.proxy" -> {"outage", "unknown"}
       [] OTHER -> {}]

\* The baked targets alone: two identity providers and the registry.
DefaultJobs == <<Job("infra", "github", "ghcr"), Job("auth", "google_oauth", "google"),
                 Job("auth", "google_play", "play")>>
DefaultVocabulary == [k \in {"ghcr", "google", "play"} |-> {}]
DefaultReports == [k \in {"ghcr", "google", "play"} |-> {}]
=============================================================================
