------------------------------ MODULE HostRecords ------------------------------
(* Known hosts as values (src/data/known_host.rs, credential.rs, auth.rs): how    *)
(* they are built, written to hosts.yml and read again, what the command line     *)
(* updates, what may be saved and what a host resolves to at run time.            *)
(*                                                                                *)
(* A URL is its domain ("plain", or one of Elastic Cloud) and the part of its     *)
(* path that matters; the empty domain is no URL. A template is the sequence of   *)
(* its braces and words, with the URL it renders to.                              *)
EXTENDS Naturals, Sequences, FiniteSets, SequencesExt

None == "none"
Collectable == {"elasticsearch", "kibana", "logstash"}
Roles == <<"collect", "send", "view">>
NoUrl == [domain |-> "", path |-> ""]
NoTemplate == [tokens |-> <<>>, url |-> NoUrl]

(* -------------------------------- credentials -------------------------------- *)
NoCredential == [kind |-> None, secret |-> "", auth |-> None]
KeystoreRef(secret) == [kind |-> "keystore", secret |-> secret, auth |-> None]

\* Auth::from_parts, and the same table for ESDIAG_OUTPUT_* and ELASTIC_*_*.
AuthFromParts(apikey, username, password) ==
  CASE apikey /\ ~username /\ ~password -> "apikey"
    [] ~apikey /\ username /\ password -> "basic"
    [] ~apikey /\ ~username /\ ~password -> None
    [] OTHER -> "error"

\* Credential::runtime, Credential::from_hosts_yml
Runtime(auth) == IF auth = None THEN NoCredential ELSE [kind |-> "runtime", secret |-> "", auth |-> auth]
FromHostsYml(secret, auth) ==
  IF auth # None THEN [kind |-> "legacy", secret |-> secret, auth |-> auth]
  ELSE IF secret # "" THEN KeystoreRef(secret) ELSE NoCredential

\* Credential::secret_reference, Credential::persisted
SecretReference(c) == IF c.kind \in {"keystore", "legacy"} THEN c.secret ELSE ""
Persistable(c) == c.kind \in {None, "keystore"} \/ (c.kind = "legacy" /\ c.secret # "")
Persisted(c) == IF c.kind = "legacy" THEN KeystoreRef(c.secret) ELSE c

\* Credential::resolve, resolve_keystore_secret; `store` maps secrets to what
\* they hold and is empty while the keystore is locked.
ResolveCredential(c, store) ==
  IF SecretReference(c) = "" THEN c.auth
  ELSE IF c.secret \in DOMAIN store THEN store[c.secret] ELSE "error"

(* ------------------------------------ URLs ----------------------------------- *)
\* ElasticCloud::try_from(&Url)
ElasticCloudOf(url) == IF url.domain \in {"cloud", "admin", "gov"} THEN url.domain ELSE None

\* elastic_cloud_proxy_url: a deployment's page, API or proxy becomes the proxy.
ProxyUrl(url, app) ==
  IF app = "elasticsearch" /\ ElasticCloudOf(url) # None /\ url.path \in {"deployment", "proxy", "proxy/"}
  THEN [url EXCEPT !.path = "proxy/"] ELSE url

\* normalize_elastic_cloud_proxy_url
NormalizeProxy(url, cloud) == IF cloud # None /\ url.path = "proxy" THEN [url EXCEPT !.path = "proxy/"] ELSE url

\* validate_url_template: one brace at a time; what is open is one word at most.
Scan(st, token) ==
  IF st.bad THEN st
  ELSE IF token = "{" THEN [st EXCEPT !.bad = st.open, !.open = TRUE, !.word = ""]
  ELSE IF token = "}" THEN [st EXCEPT !.bad = ~st.open, !.open = FALSE, !.found = @ \cup {st.word}]
  ELSE IF st.open THEN [st EXCEPT !.word = token] ELSE st
ValidTemplate(template) ==
  LET st == FoldLeft(Scan, [bad |-> FALSE, open |-> FALSE, word |-> "", found |-> {}], template.tokens)
  IN ~st.bad /\ ~st.open /\ "id" \in st.found /\ st.found \subseteq {"id", "product"} /\ template.url # NoUrl

(* --------------------------------- known hosts ------------------------------- *)
IsTemplate(h) == h.template # NoTemplate

\* KnownHost::from_parts
ValidParts(h) == IF h.url = NoUrl THEN IsTemplate(h) /\ ValidTemplate(h.template) ELSE ~IsTemplate(h)
FromParts(h) ==
  LET cloud == IF h.url = NoUrl THEN None ELSE IF h.cloud # None THEN h.cloud ELSE ElasticCloudOf(h.url)
  IN [h EXCEPT !.cloud = cloud, !.url = NormalizeProxy(h.url, cloud)]

\* KnownHostBuilder::build; `auth` and `secret` are what the builder was given.
ValidBuild(h, secret, auth) == ValidParts(h) /\ (secret = "" \/ auth = None)
Build(h, secret, auth) ==
  LET cloud == ElasticCloudOf(h.url)
  IN FromParts([h EXCEPT !.cloud = cloud, !.url = ProxyUrl(h.url, h.app),
                         !.cred = IF secret # "" THEN KeystoreRef(secret) ELSE Runtime(auth)])

\* normalize_and_validate_roles: sorted, each once, and fit for the application.
NormalRoles(h) == IF h.roles = <<>> THEN <<"collect">> ELSE SelectSeq(Roles, LAMBDA r : Contains(h.roles, r))
Normal(h) == [h EXCEPT !.roles = NormalRoles(h)]
ValidRoles(h) ==
  LET dynamic == h.app = None /\ IsTemplate(h)
  IN /\ Contains(h.roles, "send") => h.app = "elasticsearch" \/ dynamic
     /\ Contains(h.roles, "view") => h.app = "kibana" \/ dynamic

\* KnownHost::resolve, collect_application
Resolvable(h) == ~IsTemplate(h) /\ h.app \in Collectable /\ h.url # NoUrl /\ ValidRoles(h)

\* render_template_reference: the product names the application.
Renders(h, product) == IsTemplate(h) /\ product \in Collectable \cup {"agent"}
Render(h, product) ==
  [Build([h EXCEPT !.app = product, !.url = h.template.url, !.template = NoTemplate,
                   !.roles = IF @ = <<>> THEN <<"collect">> ELSE @], "", None) EXCEPT !.cred = h.cred]

\* TryFrom<ResolvedKnownHost> for Uri and TryFrom<Uri> for Receiver.
HostUri(h) == IF h.cloud \in {"admin", "gov"} THEN h.cloud ELSE "known_host"
HostReceiver(h) == IF HostUri(h) # "known_host" THEN "ElasticCloudAdmin" ELSE h.app

(* ---------------------------------- hosts.yml -------------------------------- *)
\* Serialize: fields with their default value are left out ("absent").
Wire(h) ==
  [certs |-> IF h.certs THEN "true" ELSE "absent",
   app |-> IF h.app = None THEN "absent" ELSE h.app,
   cloud |-> IF h.cloud = None THEN "absent" ELSE h.cloud,
   roles |-> IF h.roles = <<"collect">> THEN <<"absent">> ELSE h.roles,
   secret |-> SecretReference(h.cred), viewer |-> h.viewer, url |-> h.url, template |-> h.template,
   auth |-> "absent", apikey |-> FALSE, username |-> FALSE, password |-> FALSE]

ReadRoles(w) == IF w.roles = <<"absent">> THEN <<"collect">> ELSE w.roles

\* deserialize_host_app: old names of platforms are read as no application.
ReadApp(w) == IF w.app \in {"absent", "unknown", "ece", "eck"} THEN None ELSE w.app

\* from_flat_wire, from_legacy_wire (tagged by `auth`), hosts_yml_credential.
\* The fields one form does not have make the other unreadable.
ReadableWire(w) ==
  /\ AuthFromParts(w.apikey, w.username, w.password) # "error"
  /\ w.auth # "absent" => /\ w.template = NoTemplate /\ w.url # NoUrl
                          /\ w.apikey => w.auth = "ApiKey"
                          /\ w.username \/ w.password => w.auth = "Basic"
                          /\ w.auth = "NoAuth" => w.secret = ""
                          /\ w.cloud # "absent" => w.auth = "ApiKey"
  /\ ValidParts(w)
Read(w) ==
  FromParts([certs |-> w.certs = "true", app |-> ReadApp(w), cloud |-> IF w.cloud = "absent" THEN None ELSE w.cloud,
             roles |-> ReadRoles(w), viewer |-> w.viewer, url |-> w.url, template |-> w.template,
             cred |-> FromHostsYml(w.secret, AuthFromParts(w.apikey, w.username, w.password))])

\* reject_new_reserved_names, validate_viewer_links, validate_template_host_name
ViewersLinked(hosts) ==
  \A n \in DOMAIN hosts : hosts[n].viewer # "" =>
    /\ Contains(hosts[n].roles, "send")
    /\ hosts[n].viewer \in DOMAIN hosts /\ Contains(hosts[hosts[n].viewer].roles, "view")
Writable(hosts, reserved, scheme, before) ==
  /\ DOMAIN hosts \cap reserved \subseteq before
  /\ \A n \in DOMAIN hosts : /\ ValidRoles(Normal(hosts[n])) /\ Persistable(hosts[n].cred)
                             /\ IsTemplate(hosts[n]) => n \in scheme
  /\ ViewersLinked([n \in DOMAIN hosts |-> Normal(hosts[n])])

\* KnownHost::save and write_hosts_yml: the whole file is written again.
Store(hosts) == [n \in DOMAIN hosts |-> Wire([Normal(hosts[n]) EXCEPT !.cred = Persisted(@)])]

\* parse_hosts_yml: one unreadable host makes the file unreadable.
ReadableFile(file) ==
  /\ \A n \in DOMAIN file : ReadableWire(file[n]) /\ ValidRoles(Normal(Read(file[n])))
  /\ ViewersLinked([n \in DOMAIN file |-> Normal(Read(file[n]))])
ReadFile(file) == [n \in DOMAIN file |-> Normal(Read(file[n]))]

\* merge_cli_update; a part of the update that is absent keeps what there was.
\* `known` says whether the secret named by the update was found.
ValidMerge(u, known) ==
  IF u.secret # "" THEN known ELSE u.apikey \/ u.username = u.password
Merge(h, u) ==
  LET cred == IF u.secret # "" THEN KeystoreRef(u.secret)
              ELSE IF u.apikey THEN Runtime("apikey") ELSE IF u.username THEN Runtime("basic") ELSE h.cred
      given == u.secret # "" \/ u.apikey \/ u.username
      merged == [h EXCEPT !.certs = IF u.certs = None THEN @ ELSE u.certs = "true",
                          !.roles = IF u.roles = <<>> THEN @ ELSE u.roles]
  IN IF given THEN FromParts([merged EXCEPT !.cred = cred, !.cloud = ElasticCloudOf(h.url)]) ELSE merged

(* ---------------------------------- properties ------------------------------- *)
\* What is saved is what is read: a host that may be written is read back as
\* itself, still writable, without plaintext; the other hosts of the file are
\* not changed by the rewrite, and the file stays readable.
SavedIsRead(file, name, h, reserved, scheme) ==
  LET before == ReadFile(file)
      hosts == [n \in DOMAIN file \cup {name} |-> IF n = name THEN Normal(h) ELSE before[n]]
      stored == Store(hosts)
  IN ReadableFile(file) /\ Writable(hosts, reserved, scheme, DOMAIN file) =>
       /\ ReadableFile(stored)
       /\ ReadFile(stored)[name] = [Normal(h) EXCEPT !.cred = Persisted(@)]
       /\ \A n \in DOMAIN file \ {name} : [ReadFile(stored)[n] EXCEPT !.cred = NoCredential]
                                            = [before[n] EXCEPT !.cred = NoCredential]
       /\ Store(ReadFile(stored)) = stored
       /\ \A n \in DOMAIN stored : AuthFromParts(stored[n].apikey, stored[n].username, stored[n].password) = None

\* An update of a host leaves what it does not name: with it or without, the
\* host keeps its address and application, has at most one kind of credential,
\* and an update without credentials keeps the one there was.
UpdateIsLocal(h, u, known) ==
  LET m == Merge(h, u)
  IN ValidMerge(u, known) =>
       /\ m.app = h.app /\ m.viewer = h.viewer /\ m.template = h.template /\ m.url.domain = h.url.domain
       /\ u.secret = "" /\ ~u.apikey /\ ~u.username => m.cred = h.cred /\ m.cloud = h.cloud
       /\ m.cred.kind = "legacy" => m.cred = h.cred
       /\ HostReceiver(m) = HostReceiver(h) \/ h.cloud # ElasticCloudOf(h.url)

\* A host used at run time has an address, an application with a receiver and
\* only roles fit for it, whether it was saved as such or made from a template;
\* a deployment of Elastic Cloud is reached by its proxy; its credential is the
\* one of the keystore wherever a secret is named.
ResolvedIsUsable(h, product, store) ==
  LET r == IF IsTemplate(h) THEN Render(h, product) ELSE h
      used == Normal(r)
  IN (IsTemplate(h) => Renders(h, product)) /\ Resolvable(used) =>
       /\ used.url # NoUrl /\ HostReceiver(used) \in Collectable \cup {"ElasticCloudAdmin"}
       /\ Contains(used.roles, "send") => used.app = "elasticsearch"
       /\ Contains(used.roles, "view") => used.app = "kibana"
       /\ IsTemplate(h) => used.cred = h.cred /\ (used.cloud = None <=> used.url.domain = "plain")
       /\ IsTemplate(h) /\ used.app = "elasticsearch" /\ used.cloud # None => used.url.path \in {"proxy/", "page"}
       /\ SecretReference(used.cred) # "" => ResolveCredential(used.cred, store) \in {"error"} \cup Range(store)
================================================================================
