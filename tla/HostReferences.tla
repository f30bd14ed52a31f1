---------------------------- MODULE HostReferences ----------------------------
(* How a text the user gives is read: as a host reference (host_reference.rs,    *)
(* elastic_context.rs, the template references of known_host.rs), a URL or a     *)
(* path (uri.rs), and which receiver that opens (receiver/mod.rs).               *)
(*                                                                               *)
(* A text has the structure the parsers look at. "dot": what follows a leading   *)
(* dot, cut at slashes and then at dots. "url": what Url::parse accepts, host    *)
(* "" when it has none ("prod:9200" has the scheme prod and no host). "plain":   *)
(* anything else; "-" is standard output.                                        *)
EXTENDS Naturals, Sequences, FiniteSets, SequencesExt

CONSTANTS Backslashed,   \* the components of a text with a backslash
          Extended       \* the plain texts with a file extension

Blank == [kind |-> "plain", id |-> "", segs |-> <<>>, scheme |-> "", host |-> "", path |-> <<>>, pass |-> FALSE]
Plain(id) == [Blank EXCEPT !.id = id]
Dot(segs) == [Blank EXCEPT !.kind = "dot", !.segs = segs]
Url(scheme, host, path, pass) ==
  [Blank EXCEPT !.kind = "url", !.scheme = scheme, !.host = host, !.path = path, !.pass = pass]

(* ------------------------------ Elastic CLI contexts ------------------------- *)
NoTarget == [is |-> "none", context |-> <<>>, app |-> "", deployment |-> <<>>]
BadTarget == [NoTarget EXCEPT !.is = "error"]
Target(context, app, deployment) == [is |-> "target", context |-> context, app |-> app, deployment |-> deployment]

\* split_context_service: everything before the last dot is the context.
EmptyPart(seg) == Len(seg) > 1 /\ (Front(seg) = <<"">> \/ Last(seg) = "")
ContextOf(seg) == Front(seg)

\* parse_cloud_segments
ParseCloud(segs) ==
  IF EmptyPart(segs[1]) THEN BadTarget
  ELSE IF Last(segs[1]) # "cloud" THEN NoTarget
  ELSE IF Len(segs) # 3 \/ segs[2] = <<"">> \/ segs[3] \notin {<<"es">>, <<"elasticsearch">>} THEN BadTarget
  ELSE Target(ContextOf(segs[1]), "elasticsearch", segs[2])

\* ElasticContextTarget::parse
ParseTarget(text) ==
  LET seg == text.segs[1]
      service == Last(seg)
  IN IF text.kind # "dot" THEN NoTarget
     ELSE IF seg[1] = "" \/ \E s \in Range(text.segs) : Range(s) \cap Backslashed # {} THEN NoTarget
     ELSE IF Len(text.segs) > 1 THEN ParseCloud(text.segs)
     ELSE IF EmptyPart(seg) \/ service = "cloud" THEN BadTarget
     ELSE IF service \in {"es", "elasticsearch"} THEN Target(ContextOf(seg), "elasticsearch", <<>>)
     ELSE IF service \in {"kb", "kibana"} THEN Target(ContextOf(seg), "kibana", <<>>)
     ELSE NoTarget

\* ElasticOutputContext::host_reference: the name, cut like a dot text, becomes
\* a reference only if that selects it; otherwise it is refused (Blank).
HostReferenceOf(name) ==
  LET reference == Dot([name EXCEPT ![Len(name)] = Append(@, "es")])
  IN IF ParseTarget(reference) = Target(Last(name), "elasticsearch", <<>>) /\ Len(name) = 1 THEN reference ELSE Blank

\* ElasticContextTarget::to_string
DisplayTarget(t) ==
  IF t.deployment # <<>> THEN Dot(<<Append(t.context, "cloud"), t.deployment, <<t.app>>>>)
  ELSE Dot(<<Append(t.context, t.app)>>)

(* ------------------------------- host references ----------------------------- *)
\* parse_template_reference
Schemes == {"http", "https", "file", "stdin", "stdio"}
ParseTemplate(text) ==
  LET segments == SelectSeq(text.path, LAMBDA s : s # "")
  IN IF text.kind # "url" \/ text.scheme \in Schemes THEN "none"
     ELSE IF text.host = "" \/ Len(segments) > 1 THEN "error" ELSE "template"

TemplateProduct(text) ==
  LET segments == SelectSeq(text.path, LAMBDA s : s # "") IN IF segments = <<>> THEN "elasticsearch" ELSE segments[1]

\* HostReference::parse; `hosts` are the names in hosts.yml.
Parse(text, hosts) ==
  IF ParseTarget(text).is = "error" THEN "error"
  ELSE IF ParseTarget(text).is = "target" THEN "context"
  ELSE IF ParseTemplate(text) # "none" THEN ParseTemplate(text)
  ELSE IF text \in hosts THEN "saved" ELSE "none"

\* HostReference::is_reserved_name
Reserved(name) == ParseTarget(name).is # "none"

(* ------------------------------------ URIs ----------------------------------- *)
\* Uri::try_from(&str) where no host is referenced. `fs` is what is found at the
\* path: "dir", "file" or "absent".
FileUri(text, fs) ==
  IF text.path # <<>> /\ Last(text.path) = "" THEN "directory" ELSE IF fs = "dir" THEN "directory" ELSE "file"
UrlUri(text) ==
  IF text.host = "" THEN "error"
  ELSE IF text.host # "upload" THEN "url"
  ELSE IF text.pass THEN "service_link" ELSE "service_link_no_auth"
\* Path::extension: nothing before the last dot of the name is no extension.
HasExtension(text) ==
  LET name == Last(text.segs)
  IN IF text.kind = "plain" THEN text.id \in Extended
     ELSE Len(name) > 1 /\ IF Len(text.segs) = 1 THEN name # <<"", "">> ELSE name[1] # ""
PathUri(text, fs) ==
  IF fs = "dir" THEN "directory"
  ELSE IF fs = "file" \/ HasExtension(text) THEN "file" ELSE "directory"

\* Uri::try_from(&str); a resolved host is read by HostRecords!HostUri.
UriOf(text, hosts, fs) ==
  LET as == Parse(text, hosts)
  IN IF text = Plain("-") \/ text = Url("stdio", "stdout", <<>>, FALSE) THEN "stream"
     ELSE IF as = "error" THEN "error"
     ELSE IF as # "none" THEN "host"
     ELSE IF text.kind = "url" THEN IF text.scheme = "file" THEN FileUri(text, fs) ELSE UrlUri(text)
     ELSE PathUri(text, fs)

\* Serialize for Uri: credentials are dropped, a resolved host is refused.
Written(text, uri) ==
  IF uri = "stream" THEN Plain("-") ELSE IF text.kind = "url" THEN [text EXCEPT !.pass = FALSE] ELSE text

\* TryFrom<Uri> for Receiver, for what is not a host.
ReceiverFor(uri) ==
  IF uri = "directory" THEN "Directory" ELSE IF uri = "file" THEN "ArchiveFile"
  ELSE IF uri = "service_link" THEN "ArchiveBytes" ELSE "error"

(* ---------------------------------- properties ------------------------------- *)
\* A context that may be stored as the output is selected by its reference, as
\* the whole name and nothing else, and no saved host can take its place. What a
\* target is printed as selects the target again.
ReferenceSelectsContext(name, hosts) ==
  LET reference == HostReferenceOf(name)
      target == ParseTarget(reference)
  IN reference # Blank => /\ target = Target(name[1], "elasticsearch", <<>>)
                          /\ Parse(reference, hosts) = "context"
                          /\ ParseTarget(DisplayTarget(target)) = target

\* A saved host answers to its name, unless the name is reserved or has the shape
\* of a URL; whatever is refused as a new name never means a saved host; a text
\* that names no host is never an error of the host lookup unless it looks like a
\* reference; and a URI that is stored is read back as the same kind of target.
TextMeansOneThing(text, hosts, fs) ==
  LET uri == UriOf(text, hosts, fs)
      as == Parse(text, hosts)
  IN /\ text \in hosts /\ ~Reserved(text) /\ text.kind # "url" => as = "saved"
     /\ Reserved(text) => as \in {"context", "error"}
     /\ as = "error" => text.kind \in {"dot", "url"}
     /\ uri \notin {"host", "error"} /\ ~(text.kind = "url" /\ text.scheme = "file") =>
          LET again == UriOf(Written(text, uri), hosts, fs)
          IN again = uri \/ (uri = "service_link" /\ again = "service_link_no_auth")
     /\ uri \in {"stream", "url", "service_link_no_auth", "error"} => ReceiverFor(uri) = "error"
===============================================================================
