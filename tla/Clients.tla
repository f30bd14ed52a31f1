--------------------------------- MODULE Clients ---------------------------------
(* The clients of the products (client/): what they send with a request, what    *)
(* they take a product for, and which client a host is asked with. An answer is  *)
(* a status and what the body says; a status of 0 is no answer.                  *)
EXTENDS Naturals, Sequences, FiniteSets

Err == [ok |-> FALSE]
Ok(v) == [ok |-> TRUE, v |-> v]
Success(status) == status \in 200 .. 299

\* A header for every credential, and none without one.
AuthHeader(auth) ==
  CASE auth.type = "apikey" -> <<[name |-> "authorization", scheme |-> "ApiKey", value |-> auth.key]>>
    [] auth.type = "basic" -> <<[name |-> "authorization", scheme |-> "Basic", value |-> <<auth.user, auth.key>>]>>
    [] OTHER -> <<>>
\* The administration API takes an API key only.
AdminHeaders(auth) == IF auth.type = "apikey" THEN Ok(<<[name |-> "management"]>> \o AuthHeader(auth)) ELSE Err

\* A path is a sequence of its parts; one that ends in a slash ends in "", the only
\* part that may be empty.
TrimEnd(parts) == SelectSeq(parts, LAMBDA p : p # "")
ProxyUrl(base, path) == TrimEnd(base) \o (IF TrimEnd(path) = <<>> THEN <<"">> ELSE path)

\* The parameters of a query: with a value or without. Empty ones are dropped.
QueryPairs(query) ==
  LET held == SelectSeq(query, LAMBDA p : p # <<>>)
  IN [i \in 1 .. Len(held) |-> IF Len(held[i]) = 1 THEN <<held[i][1], "">> ELSE held[i]]

\* Serverless says so, or is known by the interface it has given up.
IsServerless(product, root, usage) ==
  CASE product = "logstash" -> Ok(FALSE)
    [] product # "logstash" /\ root.status \in {401, 403, 404} ->
         IF product = "elasticsearch" THEN IF usage.status = 0 THEN Err ELSE Ok(usage.status = 410) ELSE Ok(FALSE)
    [] OTHER -> IF Success(root.status) /\ root.json THEN Ok(root.flavor = "serverless") ELSE Err
HasSecurityEnabled(product, usage) ==
  CASE product # "elasticsearch" -> Ok(TRUE)
    [] product = "elasticsearch" /\ Success(usage.status) -> IF usage.json THEN Ok(usage.enabled # "no") ELSE Err
    [] OTHER -> IF usage.status \in {401, 403, 410} THEN Ok(TRUE) ELSE IF usage.status = 404 THEN Ok(FALSE) ELSE Err

\* What a product answers to a request for a path. external
Fields(server, path) ==
  CASE server = "elasticsearch" /\ path = "/" -> {"tagline", "name", "version object"}
    [] server = "kibana" /\ path = "/api/status" -> {"name", "version object"}
    [] server = "logstash" /\ path = "/" -> {"name", "version text"}
    [] OTHER -> {}
ProbePath(client) == IF client = "kibana" THEN "/api/status" ELSE "/"
TestConnection(client, answer) ==
  IF ~Success(answer.status) \/ ~answer.json THEN Err
  ELSE LET needed == [elasticsearch |-> "tagline", kibana |-> "name", logstash |-> "version text"]
       IN IF needed[client] \in answer.fields THEN Ok(client) ELSE Err
\* The whole chain of causes is read, and none of its text is shown.
ConnectionFailure(causes) ==
  IF "dns" \in causes THEN "DNS lookup failed"
  ELSE IF causes \cap {"certificate", "tls", "ssl"} # {} THEN "TLS verification failed"
  ELSE IF "timeout" \in causes THEN "connection timed out" ELSE "connection failed"

\* Which receiver an input has.
ReceiverFor(uri) ==
  CASE uri.kind = "directory" -> Ok("directory")
    [] uri.kind = "file" -> Ok("archive")
    [] uri.kind = "service link" -> Ok("archive")
    [] uri.kind \in {"cloud admin", "gov admin"} -> Ok("admin")
    [] uri.kind = "host" -> Ok(uri.app)
    [] OTHER -> Err
\* Raw responses are of products that run only.
GetRawResponse(receiver) == IF receiver \in {"directory", "archive"} THEN Err ELSE Ok(receiver)
IsBundle(receiver) == receiver \in {"directory", "archive"}
SetWorkDir(receiver) == IF IsBundle(receiver) THEN Ok(receiver) ELSE Err
PlatformHint(receiver) == IF receiver = "admin" THEN {"ech"} ELSE {}

(* --------------------------------- properties ------------------------------ *)
\* A credential is sent once or not at all; what is asked
\* of the administration stays below the cluster it is asked of, and no parameter
\* is lost on the way (client/, elastic_cloud_admin.rs).
RequestsWhole(auth, base, path, query) ==
  /\ Len(AuthHeader(auth)) = (IF auth.type = "none" THEN 0 ELSE 1)
  /\ AdminHeaders(auth).ok => \E i \in 1 .. Len(AdminHeaders(auth).v) : AdminHeaders(auth).v[i].name = "authorization"
  /\ SubSeq(ProxyUrl(base, path), 1, Len(TrimEnd(base))) = TrimEnd(base)
  /\ TrimEnd(ProxyUrl(base, path)) = TrimEnd(base \o path)
  /\ {QueryPairs(query)[i][1] : i \in 1 .. Len(QueryPairs(query))} = {query[i][1] : i \in {j \in 1 .. Len(query) : query[j] # <<>>}}

\* Only what runs gives raw responses, only a bundle has files, and only what the
\* receiver itself knows of its platform is a hint (receiver/mod.rs).
ReceiverFits(uri) ==
  LET r == ReceiverFor(uri)
  IN r.ok => /\ GetRawResponse(r.v).ok <=> uri.kind \in {"host", "cloud admin", "gov admin"}
             /\ IsBundle(r.v) <=> ~GetRawResponse(r.v).ok
             /\ PlatformHint(r.v) # {} => uri.kind \in {"cloud admin", "gov admin"}
             /\ SetWorkDir(r.v).ok <=> IsBundle(r.v)

\* A product is taken for what it is: no client takes another for its own; a
\* cluster that is known as Serverless by what it refuses has security; and a
\* cluster that fails is taken for nothing (client/mod.rs).
ProductsKnown(client, server, answer, root, usage) ==
  /\ TestConnection(client, answer).ok => Success(answer.status)
  /\ TestConnection(client, [answer EXCEPT !.fields = Fields(server, ProbePath(client))]).ok => client = server
  /\ LET serverless == IsServerless(client, root, usage)
         security == HasSecurityEnabled(client, usage)
     IN /\ serverless.ok /\ serverless.v /\ ~Success(root.status) => security = Ok(TRUE)
        /\ client = "elasticsearch" /\ root.status >= 500 => ~serverless.ok
        /\ client = "elasticsearch" /\ usage.status >= 500 => ~security.ok
        /\ security.ok /\ ~security.v => client = "elasticsearch" /\ usage.status \notin {401, 403, 410}
===============================================================================
