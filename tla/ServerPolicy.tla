------------------------------ MODULE ServerPolicy ------------------------------
(* What a server lets whom do (server/mod.rs): the settings it starts with, the  *)
(* routes it has, who comes through to them, and the limits read from the       *)
(* environment (processor/api.rs, exporter/elasticsearch.rs).                    *)
EXTENDS Integers, Sequences, FiniteSets

(* --------------------------------- settings -------------------------------- *)
\* A setting is given on the command line, else in the environment, else by default.
Setting(option, variable, default) == IF option # "none" THEN option ELSE IF variable # "none" THEN variable ELSE default

Modes == {"user", "service"}
Providers == {"google-iap", "none"}
RequiresIdentity(provider) == provider = "google-iap"
DefaultAuthProvider(mode) == IF mode = "service" THEN "google-iap" ELSE "none"

\* The text of a feature list: the set of its words, or "none" if it is not given.
Features == {"advanced", "job-builder"}
ParseFeatures(words) == IF words \subseteq Features THEN [ok |-> TRUE, features |-> words] ELSE [ok |-> FALSE, features |-> {}]
DefaultFeatures(mode) == IF mode = "user" THEN {"advanced"} ELSE {}

\* A variable that holds a number: Absent, Garbage (no number of its type), or it.
Absent == -1
Garbage == -2
ReadCap(v, default) == IF v = Absent THEN [ok |-> TRUE, n |-> default] ELSE [ok |-> v > 0, n |-> v]
DefaultCaps == [global |-> 8, owner |-> 2]
CapsFromEnv(global, owner) ==
  LET g == ReadCap(global, DefaultCaps.global)
      o == ReadCap(owner, DefaultCaps.owner)
  IN [ok |-> g.ok /\ o.ok, caps |-> [global |-> g.n, owner |-> o.n]]

ValidateIdentityHeader(header) == header \notin {"blank", "malformed"}

Refused == [ok |-> FALSE]
NewPolicy(mode, o, env) ==
  LET words == IF o.features # {"none"} THEN o.features ELSE env.features
      features == IF words = {"none"} THEN [ok |-> TRUE, features |-> DefaultFeatures(mode)] ELSE ParseFeatures(words)
      provider == Setting(o.provider, env.provider, DefaultAuthProvider(mode))
      header == Setting(o.header, env.header, "x-goog-authenticated-user-email")
      caps == IF mode = "service" THEN CapsFromEnv(env.global, env.owner) ELSE [ok |-> TRUE, caps |-> DefaultCaps]
  IN IF ~features.ok \/ provider \notin Providers \/ ~caps.ok THEN Refused
     ELSE IF RequiresIdentity(provider) /\ ~ValidateIdentityHeader(header) THEN Refused
     ELSE [ok |-> TRUE, mode |-> mode, provider |-> provider, features |-> features.features, caps |-> caps.caps,
           header |-> IF RequiresIdentity(provider) THEN header ELSE "none"]

AllowsLocal(policy) == policy.mode = "user"
AllowsAdvanced(policy) == AllowsLocal(policy) /\ "advanced" \in policy.features
AllowsJobBuilder(policy) == AllowsLocal(policy) /\ "job-builder" \in policy.features

(* ---------------------------------- routes --------------------------------- *)
\* Routes by what they reach: static files, the pages and jobs everyone has, and
\* the handlers that touch the files of the user who runs the server.
Assets == {"datastar.js", "style.css", "esdiag.svg"}
Common ==
  {"index", "service_link", "known_host", "theme", "download", "docs", "upload", "events", "jobs/draft", "settings/modal",
   "api/settings/update"}
LocalOnly ==
  {"api_key", "advanced", "jobs", "jobs/saved", "welcome/identity", "welcome/output", "settings/host", "settings/secret",
   "keystore/unlock", "keystore/lock"}

Routes(policy) ==
  Assets \cup Common \cup {"welcome"}
  \cup (IF AllowsLocal(policy) THEN {"api_key"} ELSE {})
  \cup (IF AllowsAdvanced(policy) THEN {"advanced"} ELSE {})
  \cup (IF AllowsJobBuilder(policy) THEN {"jobs", "jobs/saved"} ELSE {})
  \cup (IF AllowsLocal(policy) THEN {"welcome/identity", "welcome/output"} ELSE {})
  \cup (IF AllowsLocal(policy) THEN {"settings/host", "settings/secret", "keystore/unlock", "keystore/lock"} ELSE {})

\* What a handler changes: in a shared server the settings form changes only the
\* link that is shown.
Touches(policy, path) ==
  CASE path \in LocalOnly -> {"files"}
    [] path = "api/settings/update" -> IF AllowsLocal(policy) THEN {"configuration", "exporter", "link"} ELSE {"link"}
    [] path \in {"known_host", "service_link", "upload"} -> {"job"}
    [] OTHER -> {}

(* --------------------------------- identity -------------------------------- *)
\* The value of the identity header: its parts between colons, "" for a blank one.
ParseIapIdentity(parts) ==
  IF Len(parts) = 1 THEN [account |-> "", user |-> parts[1]]
  ELSE [account |-> IF Len(parts) > 2 THEN "joined" ELSE parts[1], user |-> parts[Len(parts)]]

\* Without a provider: the user of the environment, and of the configuration only
\* in user mode. config is a name, "" or "unreadable".
ResolveOptionalIdentity(mode, user, config) ==
  IF user # "" THEN [ok |-> TRUE, locked |-> TRUE, user |-> user]
  ELSE IF mode = "user" /\ config = "unreadable" THEN [ok |-> FALSE, fault |-> 500]
  ELSE IF mode = "user" /\ config # "" THEN [ok |-> TRUE, locked |-> TRUE, user |-> config]
  ELSE [ok |-> TRUE, locked |-> FALSE, user |-> "Anonymous"]

\* header is <<>> when it is missing or not a text.
ResolveIdentity(policy, header, user, config) ==
  IF ~RequiresIdentity(policy.provider) THEN ResolveOptionalIdentity(policy.mode, user, config)
  ELSE IF header = <<>> THEN [ok |-> FALSE, fault |-> 401]
  ELSE LET id == ParseIapIdentity(header)
       IN IF id.user = "" THEN [ok |-> FALSE, fault |-> 401] ELSE [ok |-> TRUE, locked |-> TRUE, user |-> id.user]

\* The layer in front of all routes, there only if the provider needs an identity.
RequireAuthenticatedUser(policy, method, path, header) ==
  \/ ~RequiresIdentity(policy.provider)
  \/ method = "OPTIONS" \/ path \in Assets
  \/ ResolveIdentity(policy, header, "", "").ok

Serves(policy, method, path, header) ==
  RequireAuthenticatedUser(policy, method, path, header) /\ path \in Routes(policy) /\ method # "OPTIONS"

\* A shared server keeps the files of the user who runs it to itself, whatever it
\* is started with; behind a provider nothing but the static files is served to a
\* request that says not who sends it, and no two names are one owner unless they
\* are equal; a fault of the server is not an intruder's; and every cap admits a job.
SharedServerIsShut(mode, o, env, method, path, header, user, config) ==
  LET policy == NewPolicy(mode, o, env)
  IN policy.ok =>
       /\ mode = "service" => \A p \in Routes(policy) : Touches(policy, p) \cap {"files", "configuration", "exporter"} = {}
       /\ Serves(policy, method, path, header) /\ RequiresIdentity(policy.provider) /\ path \notin Assets =>
            LET id == ResolveIdentity(policy, header, user, config)
            IN id.ok /\ id.locked /\ id.user = header[Len(header)]
       /\ mode = "service" /\ o.provider = "none" /\ env.provider = "none" => RequiresIdentity(policy.provider)
       /\ policy.header = "none" <=> ~RequiresIdentity(policy.provider)
       /\ mode = "service" => ResolveIdentity(policy, <<"a">>, user, config).ok
       /\ LET id == ResolveIdentity(policy, header, user, config)
          IN ~id.ok /\ id.fault = 500 => mode = "user" /\ config = "unreadable"
       /\ policy.caps.global > 0 /\ policy.caps.owner > 0

(* ---------------------------------- limits --------------------------------- *)
MinWeight == 1
MaxWeight == 5
Clamp(n) == IF n < MinWeight THEN MinWeight ELSE IF n > MaxWeight THEN MaxWeight ELSE n
\* A weight or a threshold is a u8: what does not fit is no number.
U8(v) == IF v > 255 THEN Garbage ELSE v
Threshold(v, default) == IF U8(v) < 0 THEN default ELSE Clamp(U8(v))

CollectPolicy(pool, threshold) == [pool |-> IF pool > 0 THEN pool ELSE 5, threshold |-> Threshold(threshold, 3)]
ProcessingThreshold(threshold) == Threshold(threshold, 5)
\* A source's weight, where the registry has none (Absent).
SourceWeight(weight, light) == IF weight # Absent THEN weight ELSE IF light THEN 1 ELSE 3
ProcessingWeight(weight) == IF weight # Absent THEN weight ELSE 1
IsSequential(policy, weight) == weight >= policy.threshold
IsConcurrent(threshold, weight) == weight >= threshold

OutputTaskLimit(v) == IF v < 0 THEN 10 ELSE v
BulkSize(v) == IF v < 0 THEN 10000 ELSE IF v < 1 THEN 1 ELSE v
RetryMax(v) == IF v < 0 THEN 5 ELSE v

\* Whatever the environment says, work gets through and the heaviest sources are
\* spared: the pool has room, the heaviest source is fetched alone, a source is
\* never both too heavy to fetch beside others and lighter than one that is not,
\* and a batch has documents. The number of output tasks alone may be zero, which
\* stops the export (exporter/elasticsearch.rs): the README says so.
LimitsLetWorkThrough(v, w, weight, other) ==
  LET p == CollectPolicy(v, w)
  IN /\ p.pool > 0 /\ IsSequential(p, MaxWeight) /\ IsConcurrent(ProcessingThreshold(w), MaxWeight)
     /\ SourceWeight(weight, TRUE) <= SourceWeight(weight, FALSE)
     /\ IsSequential(p, SourceWeight(weight, FALSE)) /\ other >= SourceWeight(weight, FALSE) => IsSequential(p, other)
     /\ v \in {Absent, Garbage} /\ w \in {Absent, Garbage} =>
          /\ ~IsSequential(p, SourceWeight(Absent, TRUE)) /\ IsSequential(p, SourceWeight(Absent, FALSE))
          /\ ~IsConcurrent(ProcessingThreshold(w), ProcessingWeight(Absent))
     /\ BulkSize(v) > 0 /\ (OutputTaskLimit(v) > 0 \/ v = 0)
===============================================================================
