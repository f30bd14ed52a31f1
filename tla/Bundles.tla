-------------------------------- MODULE Bundles --------------------------------
(* What a bundle is: the manifests (processor/diagnostic/manifest.rs and         *)
(* diagnostic_manifest.rs), the platform decided for it and the processor it is  *)
(* given to (processor/mod.rs), read through src/receiver/mod.rs.                *)
(*                                                                               *)
(* A manifest keeps the legacy `product` and the newer pair of platform and      *)
(* application, each None when its field is absent.                              *)
EXTENDS Naturals, Sequences, FiniteSets

None == "none"
Unknown == "unknown"
Applications == {"elasticsearch", "kibana", "logstash", "agent"}
Platforms == {"self-managed", "elastic-cloud-hosted", "ece", "eck", "kubernetes-platform", Unknown}

\* The enum ManifestProduct: the applications, the platforms but the
\* self-managed one, and Unknown.
Products == Applications \cup (Platforms \ {"self-managed"})

\* ManifestProduct::split, ManifestProduct::application
SplitPlatform(product) == IF product \in Platforms THEN product ELSE Unknown
SplitApplication(product) == IF product \in Applications THEN product ELSE None

\* ManifestProduct::from_classification
FromClassification(platform, application) ==
  IF application # None THEN application ELSE IF platform = "self-managed" THEN Unknown ELSE platform

\* Serialize and FromStr of ManifestProduct (names without hyphens) and of
\* Platform (its key); FromStr accepts every name that is written.
WrittenProduct(p) == IF p = "elastic-cloud-hosted" THEN "elasticcloudhosted"
                     ELSE IF p = "kubernetes-platform" THEN "kubernetesplatform" ELSE p
ParsedProduct(s) ==
  IF s \in {"hosted", "elastic-cloud-hosted", "elasticcloudhosted"} THEN "elastic-cloud-hosted"
  ELSE IF s \in {"mki", "kubernetesplatform"} THEN "kubernetes-platform"
  ELSE IF s \in Applications \cup {"ece", "eck", Unknown} THEN s ELSE "error"
WrittenPlatform(p) == IF p = "ece" THEN "elastic-cloud-enterprise"
                      ELSE IF p = "eck" THEN "elastic-cloud-kubernetes" ELSE p
ParsedPlatform(s) ==
  IF s \in {"ece", "elastic-cloud-enterprise"} THEN "ece"
  ELSE IF s \in {"eck", "elastic-cloud-kubernetes"} THEN "eck"
  ELSE IF s \in Platforms THEN s ELSE "error"

\* platform_collector_type
CollectorType(type) == IF type = "eck-diagnostics" THEN "eck"
                       ELSE IF type = "k8s-platform-diagnostics" THEN "kubernetes-platform" ELSE None

\* DiagnosticManifest::application, detect_platform_from_indicators, platform
Application(m) == IF m.application # None THEN m.application ELSE SplitApplication(m.product)
DetectPlatform(m) == IF m.runner \in {"ece", "eck"} THEN m.runner
                     ELSE IF CollectorType(m.type) # None THEN CollectorType(m.type) ELSE SplitPlatform(m.product)
Platform(m) == IF m.platform # None THEN m.platform ELSE DetectPlatform(m)

\* DiagnosticManifest::set_platform
SetPlatform(m, p) ==
  [m EXCEPT !.platform = p,
            !.product = IF @ = Unknown /\ m.application = None THEN FromClassification(p, None) ELSE @]

\* DiagnosticManifest::new
NewManifest(application, type, runner, included) ==
  [product |-> FromClassification(Unknown, application), platform |-> None, application |-> application,
   type |-> type, runner |-> runner, included |-> included]

\* From<Manifest>: an old manifest without a product is one of Elasticsearch,
\* unless a platform collector wrote it.
FromManifest(old) ==
  LET collector == CollectorType(old.type)
      product == IF old.product = None THEN "elasticsearch" ELSE old.product
      platform == IF collector # None THEN collector ELSE SplitPlatform(product)
      application == IF collector # None THEN None ELSE SplitApplication(product)
      new == NewManifest(application, old.type, old.runner, old.included)
  IN IF platform # Unknown THEN SetPlatform(new, platform) ELSE new

\* try_get_manifest_from_files: a new manifest that cannot be read, for whatever
\* reason, gives way to the old one. Each is the set of the manifests there are,
\* and no manifest at all is an error.
TryGetManifest(new, old) == IF new # {} THEN new ELSE {FromManifest(m) : m \in old}

\* bundle_origin, child_diagnostics, type_key
BundleOrigin(m) ==
  IF CollectorType(m.type) # None THEN <<"platform", CollectorType(m.type)>>
  ELSE IF Application(m) # None THEN <<"application", Application(m)>>
  ELSE IF Platform(m) = Unknown THEN <<Unknown, None>> ELSE <<"platform", Platform(m)>>
ChildDiagnostics(m) == IF BundleOrigin(m)[1] = "platform" THEN m.included ELSE {}
TypeKey(m) == IF Application(m) # None THEN Application(m) ELSE Platform(m)

\* resolve_platform. `seen` is what the bundle shows: the hint of a cloud
\* receiver, a syscalls directory, a license issued to Elastic Cloud (asked only
\* of bundles).
ResolvePlatform(m, identified, seen) ==
  IF identified # None THEN identified
  ELSE IF m.platform # None THEN m.platform
  ELSE IF seen = "cloud_admin" THEN "elastic-cloud-hosted"
  ELSE IF DetectPlatform(m) # Unknown THEN DetectPlatform(m)
  ELSE IF seen = "syscalls" THEN "self-managed"
  ELSE IF seen = "cloud_license" THEN "elastic-cloud-hosted" ELSE Unknown

\* Processor::try_new_with_options
Ready(m, identified, seen) == SetPlatform(m, ResolvePlatform(m, identified, seen))

\* skip_kind_for: why an included diagnostic without a processor is skipped.
SkipKind(origin) == IF origin[1] = "application" THEN "skipped: not implemented" ELSE "skipped: by design"

\* Diagnostic::try_new; `selection` is the product a processing selection is for.
Dispatch(m, selection) ==
  LET origin == BundleOrigin(m)
  IN IF selection # None /\ selection # TypeKey(m) THEN "failed"
     ELSE IF origin \in {<<"platform", "eck">>, <<"platform", "kubernetes-platform">>,
                         <<"application", "elasticsearch">>, <<"application", "logstash">>} THEN origin[2]
     ELSE SkipKind(origin)

\* A manifest written to a bundle and read again.
Written(m) == [m EXCEPT !.product = WrittenProduct(@), !.platform = IF @ = None THEN None ELSE WrittenPlatform(@)]
ReadBack(w) == [w EXCEPT !.product = ParsedProduct(@), !.platform = IF @ = None THEN None ELSE ParsedPlatform(@)]

(* ---------------------------------- properties ------------------------------ *)
\* Deciding the platform never changes which application a bundle belongs to, and
\* what was decided survives being written: a later run, which may see none of
\* the indicators, treats the bundle alike and an older reader that knows only
\* `product` sees the same application.
OnceClassified(m, identified, seen) ==
  LET ready == Ready(m, identified, seen)
      again == ReadBack(Written(ready))
  IN /\ Application(ready) = Application(m)
     /\ BundleOrigin(m)[1] = "application" => BundleOrigin(ready) = BundleOrigin(m)
     /\ again = ready
     /\ \A later \in {"none", "cloud_admin", "syscalls"} : Ready(again, None, later) = ready
     /\ m.application \in {None, SplitApplication(m.product)} =>
          SplitApplication(ready.product) = Application(ready)
     /\ Dispatch(ready, TypeKey(ready)) = Dispatch(ready, None)

\* An included diagnostic has its parent's platform and, when it names an
\* application, the processor it would have on its own; only a platform bundle
\* has included diagnostics, and none is collected from.
ChildLikeParent(m, parent, seen) ==
  LET up == Ready(parent, None, seen)
      child == Ready(m, Platform(up), seen)
  IN /\ ChildDiagnostics(parent) \subseteq ChildDiagnostics(up)
     /\ BundleOrigin(up)[1] = "application" => ChildDiagnostics(up) = {}
     /\ Platform(child) = Platform(up)
     /\ Application(m) # None => Dispatch(child, None) = Dispatch(Ready(m, None, seen), None)

\* Every old manifest is classified as its product or collector says.
OldManifestsKeepMeaning(old) ==
  LET product == IF old.product = None THEN "elasticsearch" ELSE old.product
      collector == CollectorType(old.type)
  IN \E m \in TryGetManifest({}, {old}) :
       /\ collector # None => BundleOrigin(m) = <<"platform", collector>> /\ Application(m) = None
       /\ collector = None /\ product \in Applications => BundleOrigin(m) = <<"application", product>>
       /\ collector = None /\ product \in Platforms \ {Unknown} => BundleOrigin(m) = <<"platform", product>>
       /\ collector = None /\ product = Unknown => BundleOrigin(m)[1] # "application"
================================================================================
