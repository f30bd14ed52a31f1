------------------------------- MODULE ElasticRc -------------------------------
(* The configuration of the Elastic CLI as a source of hosts: crates/elasticrc    *)
(* (the file, its contexts, the expressions in its values) and the services that  *)
(* src/data/elastic_context.rs takes from it or from the environment.             *)
(*                                                                                *)
(* A configuration is [current, contexts]; a context maps the services it has to  *)
(* [url, scheme, auth], where auth is the set of fields that are given. A text    *)
(* with expressions is a sequence of "$(", ")" and words; a command line is a     *)
(* sequence of characters, of which only the class matters.                       *)
EXTENDS Naturals, Sequences, FiniteSets, SequencesExt

None == "none"
Absent == {}
AuthFields == {"api_key", "username", "password"}

(* ------------------------------------ files ---------------------------------- *)
\* discover_config_path; `files` are the readable ones in the home directory.
ConfigNames == <<".elasticrc", ".elasticrc.json", ".elasticrc.yaml", ".elasticrc.yml">>
DiscoverConfigPath(files) ==
  LET found == SelectSeq(ConfigNames, LAMBDA n : n \in files) IN IF found = <<>> THEN None ELSE found[1]

\* ConfigFile::load_with_options: an argument, a variable, or discovery.
SelectPath(explicit, variable, files) ==
  IF explicit # None THEN explicit ELSE IF variable # None THEN variable ELSE DiscoverConfigPath(files)

\* validate_shape
ValidShape(config) == config.current # "" /\ DOMAIN config.contexts # {}

\* load_config_file: `parses` says whether the content suits its format.
Loads(path, config, parses) == path \notin {"x.js", "x.ts", "x.mjs", "x.cjs"} /\ parses /\ ValidShape(config)

\* `home` maps the files there are to their configuration and whether it parses.
LoadWithOptions(explicit, variable, home) ==
  LET path == SelectPath(explicit, variable, DOMAIN home)
  IN IF path = None THEN None
     ELSE IF path \in DOMAIN home /\ Loads(path, home[path].config, home[path].parses) THEN path ELSE "error"

\* AuthConfig::validate, AuthConfig::resolve
AuthOf(fields) ==
  CASE fields = {"api_key"} -> "api_key" [] fields = {} -> None
    [] fields = {"username", "password"} -> "basic" [] OTHER -> "error"

\* ServiceConfig::validate checks the text before its expressions are resolved,
\* ServiceConfig::resolve what it becomes.
ValidService(s) == s.scheme \in {"http", "https"} /\ AuthOf(s.auth) # "error"

\* ConfigFile::context, resolve_config_service
HasContext(config, context) == (IF context = None THEN config.current ELSE context) \in DOMAIN config.contexts
ServicesOf(config, context) == config.contexts[IF context = None THEN config.current ELSE context]
ResolveConfigService(config, context, kind) ==
  IF ~HasContext(config, context) THEN "error"
  ELSE IF kind \notin DOMAIN ServicesOf(config, context) THEN "missing"
  ELSE IF ~ValidService(ServicesOf(config, context)[kind]) THEN "error"
  ELSE ServicesOf(config, context)[kind].url

\* service_from_active_environment: a variable that holds only blanks is unset.
EnvironmentService(env, kind) ==
  IF env[kind].url = "" THEN "missing"
  ELSE IF AuthOf(env[kind].auth) = "error" \/ env[kind].url = "no url" THEN "error" ELSE env[kind].url

(* --------------------------------- output hosts ------------------------------ *)
\* resolve_service: without a context, and started by the Elastic CLI, the
\* environment comes first.
FromEnvironment(context, invoked, env) == context = None /\ invoked /\ env["elasticsearch"].url # ""
ResolveService(config, env, context, invoked, kind) ==
  IF context = None /\ invoked /\ EnvironmentService(env, kind) # "missing" THEN EnvironmentService(env, kind)
  ELSE IF config = Absent THEN "error"
  ELSE LET got == ResolveConfigService(CHOOSE c \in config : TRUE, context, kind)
       IN IF got = "missing" THEN "error" ELSE got

\* resolve_viewer and the Kibana half of resolve_output_hosts.
ResolveKibana(config, env, context, invoked) ==
  IF FromEnvironment(context, invoked, env) THEN EnvironmentService(env, "kibana")
  ELSE IF config = Absent THEN "missing" ELSE ResolveConfigService(CHOOSE c \in config : TRUE, context, "kibana")

\* resolve_output_hosts
ResolveOutputHosts(config, env, context, invoked, requireKibana) ==
  LET es == ResolveService(config, env, context, invoked, "elasticsearch")
      kb == ResolveKibana(config, env, context, invoked)
  IN IF es = "error" \/ kb = "error" \/ (requireKibana /\ kb = "missing") THEN [es |-> "error", kb |-> "error"]
     ELSE [es |-> es, kb |-> kb]

\* ElasticContextTarget::resolve_host: a viewer that cannot be had is left out.
ResolveHost(config, env, context, invoked) ==
  LET kb == ResolveKibana(config, env, context, invoked)
  IN [es |-> ResolveService(config, env, context, invoked, "elasticsearch"), kb |-> IF kb = "error" THEN "missing" ELSE kb]

(* --------------------------------- expressions ------------------------------- *)
\* resolve_file_expression: the size is checked before the file is read and
\* again while it is.
MaxBytes == 2
ResolveFile(file) ==
  IF ~file.regular \/ file.size > MaxBytes \/ ~file.opens \/ file.read > MaxBytes \/ ~file.utf8 THEN "error" ELSE "value"

\* parse_keyring_params, resolve_platform_keyring_secret (on Linux).
ResolveKeyring(resolver, service, account, held) ==
  IF service = "" \/ account = "" \/ resolver # "secret_service" \/ ~held THEN "error" ELSE "value"

\* resolve_expression: what each resolver finds in the world around.
ResolveExpression(expr, world) ==
  IF expr = <<"file">> THEN ResolveFile(world.file)
  ELSE IF expr = <<"keyring">> THEN ResolveKeyring(world.resolver, "svc", world.account, world.held)
  ELSE IF expr = <<"env">> /\ world.held THEN "value" ELSE "error"
Values(world) ==
  [e \in {x \in {<<"file">>, <<"keyring">>, <<"env">>} : ResolveExpression(x, world) = "value"} |-> "value"]

\* resolve_string_expressions: up to the first closing bracket everything belongs
\* to the expression; `values` maps those that resolve (resolve_expression).
Expand(st, token, values) ==
  IF st.bad THEN st
  ELSE IF ~st.open THEN IF token = "$(" THEN [st EXCEPT !.open = TRUE, !.expr = <<>>] ELSE [st EXCEPT !.out = Append(@, token)]
  ELSE IF token # ")" THEN [st EXCEPT !.expr = Append(@, token)]
  ELSE IF st.expr \in DOMAIN values THEN [st EXCEPT !.open = FALSE, !.out = Append(@, values[st.expr])]
  ELSE [st EXCEPT !.bad = TRUE]
ResolveExpressions(text, values) ==
  LET st == FoldLeft(LAMBDA s, t : Expand(s, t, values), [bad |-> FALSE, open |-> FALSE, expr |-> <<>>, out |-> <<>>], text)
  IN IF st.bad \/ st.open THEN <<"error">> ELSE st.out

\* parse_command_argv, one character at a time; a backslash waits for the next.
Quotes == {"single", "double"}
Shell == {"pipe", "semicolon", "bracket", "newline"}
White == {"space", "newline"}
PushChar(st, ch) == [st EXCEPT !.current = Append(@, ch), !.started = TRUE]
TakeChar(st, ch) ==
  IF ch = "backslash" THEN [st EXCEPT !.waiting = TRUE, !.started = TRUE]
  ELSE IF st.quote # "" THEN IF ch = st.quote THEN [st EXCEPT !.quote = ""] ELSE PushChar(st, ch)
  ELSE IF ch \in Quotes THEN [st EXCEPT !.quote = ch, !.started = TRUE]
  ELSE IF ch \in Shell THEN [st EXCEPT !.bad = TRUE]
  ELSE IF ch \in White
  THEN IF st.started THEN [st EXCEPT !.argv = Append(@, st.current), !.current = <<>>, !.started = FALSE] ELSE st
  ELSE PushChar(st, ch)
StepChar(st, ch) ==
  IF st.bad THEN st
  ELSE IF ~st.waiting THEN TakeChar(st, ch)
  ELSE IF ch \in White \cup Quotes \cup {"backslash"} THEN [PushChar(st, ch) EXCEPT !.waiting = FALSE]
  ELSE TakeChar([PushChar(st, "backslash") EXCEPT !.waiting = FALSE], ch)
ParseCommandArgv(chars) ==
  LET read == FoldLeft(StepChar, [argv |-> <<>>, current |-> <<>>, quote |-> "", started |-> FALSE, waiting |-> FALSE, bad |-> FALSE], chars)
      st == IF read.waiting THEN PushChar(read, "backslash") ELSE read
  IN IF st.bad \/ st.quote # "" THEN <<<<"error">>>>
     ELSE IF st.started THEN Append(st.argv, st.current) ELSE st.argv

(* ---------------------------------- properties ------------------------------- *)
\* Elasticsearch and Kibana of an output come from one source: both from the
\* environment or both from the same context. The viewer of a host is the Kibana
\* the output would have, and asking for Kibana never yields an output without.
OneSource(config, env, context, invoked, requireKibana) ==
  LET out == ResolveOutputHosts(config, env, context, invoked, requireKibana)
      host == ResolveHost(config, env, context, invoked)
      places == {[es |-> EnvironmentService(env, "elasticsearch"), kb |-> EnvironmentService(env, "kibana")]}
                \cup {[es |-> ResolveConfigService(c, context, "elasticsearch"),
                       kb |-> ResolveConfigService(c, context, "kibana")] : c \in config}
  IN /\ out.es # "error" => out \in places /\ host = out
     /\ out.es # "error" /\ requireKibana => out.kb # "missing"
     /\ context # None /\ config = Absent => out.es = "error"

\* Words a command line quotes arrive as they are, whatever characters they have;
\* outside quotes nothing that a shell would act on is accepted.
Quoted(word) ==
  <<"double">> \o FoldLeft(LAMBDA acc, ch : acc \o (IF ch \in {"double", "backslash"} THEN <<"backslash", ch>> ELSE <<ch>>), <<>>, word) \o <<"double">>
ArgumentsArrive(words) ==
  LET line == FoldLeft(LAMBDA acc, w : acc \o <<"space">> \o Quoted(w), <<>>, words)
  IN ParseCommandArgv(line) = words

NoShellPassed(chars) ==
  LET argv == ParseCommandArgv(chars)
  IN argv # <<<<"error">>>> /\ Range(chars) \cap (Quotes \cup {"backslash"}) = {} =>
       /\ Range(chars) \cap Shell = {}
       /\ FlattenSeq(argv) = SelectSeq(chars, LAMBDA ch : ch \notin White)
       /\ \A i \in DOMAIN argv : argv[i] # <<>>

\* The file that is named is the one that is loaded, and a file that cannot be is
\* never passed over for the next.
NamedOrFails(explicit, variable, home) ==
  LET got == LoadWithOptions(explicit, variable, home)
      asked == IF explicit # None THEN explicit ELSE variable
  IN /\ asked # None => got \in {asked, "error"}
     /\ asked = None /\ got # "error" => got = DiscoverConfigPath(DOMAIN home)
     /\ got \notin {None, "error"} => ValidShape(home[got].config)

\* Every value is taken from where its expression points and what stands between
\* expressions is kept, in order; a bracket left open or a resolver that fails is
\* an error of the whole.
ExpressionsInPlace(text, world) ==
  LET values == Values(world)
      out == ResolveExpressions(text, values)
  IN /\ out # <<"error">> => "$(" \notin Range(out) \ Range(values)
     /\ ~Contains(text, "$(") => out = text
     /\ out # <<"error">> => Len(out) <= Len(text) /\ (Contains(text, "$(") => Contains(out, "value"))
================================================================================
