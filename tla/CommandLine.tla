------------------------------ MODULE CommandLine ------------------------------
(* The command line (main.rs): which commands run under the `elastic diag`      *)
(* profile, who may write to stdout, and what a command that fails reports. The *)
(* work of a command is in other modules; here `at` says how far it came.       *)
EXTENDS Naturals, Sequences, FiniteSets

(* ------------------------------- the two profiles -------------------------- *)
\* Arguments are tokens: an option, the value of "--format", a command, the rest.
Options == {"--format", "--format=json", "--debug", "--agent", "--help"}
Globals == {"--format", "--format=json", "--debug"}
AvailableCommands ==
  {"collect", "serve", "host", "init", "local", "keystore", "secret", "process", "send", "setup", "agent", "job", "output", "version"}

\* Whether argument i is the value of a "--format" before it.
IsValue(args) ==
  LET value[i \in 0 .. Len(args)] == i > 1 /\ args[i - 1] = "--format" /\ ~value[i - 1] IN value
Positional(args) == {i \in DOMAIN args : ~IsValue(args)[i] /\ args[i] \notin Options}
First(args) == CHOOSE i \in Positional(args) : \A j \in Positional(args) : i <= j

HiddenCommands == {"agent", "host", "init", "keystore", "local", "secret", "serve"}
UnsupportedExtensionCommand(args) ==
  /\ Positional(args) # {}
  /\ LET i == First(args)
         later == Positional(args) \ {i}
     IN IF args[i] = "help" THEN later # {} /\ args[CHOOSE j \in later : \A k \in later : j <= k] \in HiddenCommands
        ELSE args[i] \in HiddenCommands

MissingExtensionProcessInput(args) ==
  Positional(args) # {} /\ args[First(args)] = "process" /\ First(args) = Len(args)

\* clap, for the options and the one required argument the two checks look at.
Clap(args) ==
  LET badFormat == \E i \in DOMAIN args : args[i] = "--format" /\ ~IsValue(args)[i] /\ (i = Len(args) \/ args[i + 1] # "json")
      i == First(args)
      agent == \E j \in DOMAIN args : args[j] = "--agent" /\ ~IsValue(args)[j]
      late == \E j \in DOMAIN args : args[j] = "--agent" /\ ~IsValue(args)[j] /\ j > i
      rest == Positional(args) \ {i}
  IN IF badFormat THEN [kind |-> "error"]
     ELSE IF \E j \in DOMAIN args : args[j] = "--help" THEN [kind |-> "help"]
     ELSE IF Positional(args) = {} THEN [kind |-> "cli", command |-> "none", agent |-> agent]
     ELSE IF args[i] = "help" THEN [kind |-> "help"]
     ELSE IF args[i] \notin AvailableCommands \/ late \/ (args[i] = "process" /\ rest = {}) THEN [kind |-> "error"]
     ELSE [kind |-> "cli", command |-> args[i], agent |-> agent]

SupportedCommands == {"none", "collect", "process", "send", "output", "version", "setup", "job"}
ValidateExtensionProfile(cli, extension) == ~extension \/ (~cli.agent /\ cli.command \in SupportedCommands)

\* What the process does with its arguments: "run", "help" (exit 0) or "error" (exit 2).
ParseCli(args, extension) ==
  LET cli == Clap(args)
  IN IF extension /\ (UnsupportedExtensionCommand(args) \/ MissingExtensionProcessInput(args)) THEN "error"
     ELSE IF cli.kind # "cli" THEN cli.kind
     ELSE IF ~ValidateExtensionProfile(cli, extension) THEN "error"
     ELSE IF extension /\ cli.command = "none" THEN "help"
     ELSE "run"

\* The two checks that come before the parser refuse nothing the profile supports
\* and that could be read, and no command outside the profile comes through.
ProfileIsExact(args) ==
  LET cli == Clap(args)
      known == cli.kind = "cli" /\ cli.command \in SupportedCommands /\ ~cli.agent
  IN /\ ParseCli(args, TRUE) = "run" <=> known /\ cli.command # "none"
     /\ known /\ cli.command = "none" => ParseCli(args, TRUE) = "help"
     /\ ParseCli(args, FALSE) = (IF cli.kind = "cli" THEN "run" ELSE cli.kind)

(* ---------------------------------- logging -------------------------------- *)
Verbosity(level) == CASE level = "warn" -> 1 [] level = "info" -> 2 [] OTHER -> 3
LogsToTerminal(c) == c.command = "serve"
TracingFilter(c, variable) ==
  IF c.debug THEN "debug" ELSE IF c.agent THEN "warn" ELSE IF variable # "none" THEN variable
  ELSE IF LogsToTerminal(c) THEN "info" ELSE "warn"
LogFileFilter(c, variable) ==
  IF LogsToTerminal(c) THEN "none" ELSE IF c.debug THEN "debug" ELSE IF variable # "none" THEN variable ELSE "info"

\* A run is recorded at the level that was asked for, in the file or, for a
\* service, on the terminal; the terminal of a command shows no more than its file.
RunIsRecorded(c, variable) ==
  LET level == IF c.debug THEN "debug" ELSE IF variable # "none" THEN variable ELSE "info"
  IN /\ IF LogsToTerminal(c) THEN c.agent \/ TracingFilter(c, variable) = level ELSE LogFileFilter(c, variable) = level
     /\ ~LogsToTerminal(c) => Verbosity(TracingFilter(c, variable)) <= Verbosity(LogFileFilter(c, variable))

(* ---------------------------------- stdout --------------------------------- *)
\* A command: its name, the texts that say where its documents go, what the saved
\* job exports to each time it is read (`reads`: by command_owns_stdout, by the
\* handler and by its execution), and how far it came: "refused" before any work,
\* "failed" after it wrote documents, or "done".
RawLocal == {"none", "help", "--help", "-h", "version", "--version", "secrets"}
IsStream(text) == text \in {"-", "stdio://stdout"}

\* Mutant: the documents of a saved job are forgotten.
OwnsDirectStdout(c) ==
  \/ c.name = "process" /\ c.output = "-" /\ ~c.ask
  \/ c.name = "local" /\ c.arg \in RawLocal
  \/ c.name = "setup completions" /\ c.print
  \/ c.name = "version"

CommandOwnsStdout(c) ==
  \/ c.name = "process" /\ c.output = "-" /\ ~c.ask
  \/ c.name = "job run" /\ c.reads[1] = "stdout"
  \/ c.name = "local" /\ c.arg \in RawLocal
  \/ c.name = "setup completions" /\ c.print
  \/ c.name = "version"

\* What a handler leaves: what it wrote to stdout, the outcome it returns, its error.
Leaves(written, outcome) == [written |-> written, outcome |-> outcome, error |-> FALSE]
Fails(written) == [written |-> written, outcome |-> "none", error |-> TRUE]
Documents(c, stream) == IF stream /\ c.at # "refused" THEN <<"documents">> ELSE <<>>

RunProcess(c) ==
  LET stream == IsStream(c.output)
  IN IF c.ask /\ stream THEN Fails(<<>>)
     ELSE IF c.at # "done" THEN Fails(Documents(c, stream))
     ELSE Leaves(Documents(c, stream), IF stream THEN "none" ELSE IF c.ask THEN "agent_response" ELSE "diagnostic_processed")

RunJob(c) ==
  LET written == Documents(c, c.reads[3] = "stdout")
  IN IF c.at # "done" THEN Fails(written)
     ELSE Leaves(written, IF c.reads[2] = "stdout" THEN "none" ELSE "job_completed")

RunLocalLifecycle(c) ==
  IF c.at # "done" THEN Fails(IF c.at = "failed" /\ c.arg \in RawLocal THEN <<"raw">> ELSE <<>>)
  ELSE IF c.arg \in RawLocal THEN Leaves(<<"raw">>, "none") ELSE Leaves(<<>>, "local_stack")

\* A server writes that it is ready as soon as it listens, unless its documents
\* go to stdout, and nothing when it is shut down.
RunServe(c) ==
  IF c.at = "refused" THEN Fails(<<>>)
  ELSE LET written == IF IsStream(c.output) THEN <<"documents">> ELSE <<"server_ready">>
       IN IF c.at = "failed" THEN Fails(written) ELSE Leaves(written, "none")

RunCompletions(c) ==
  IF c.at # "done" THEN Fails(IF c.at = "failed" /\ c.print THEN <<"raw">> ELSE <<>>)
  ELSE IF c.print THEN Leaves(<<"raw">>, "none") ELSE Leaves(<<>>, "completion_installed")

FiniteOutcomes ==
  [collect |-> "archive_collected", send |-> "diagnostic_sent", init |-> "initialization_completed", agent |-> "agent_response",
   host_add |-> "host_added", host_update |-> "host_updated", host_remove |-> "host_removed", host_list |-> "hosts_listed",
   host_auth |-> "host_authenticated", keystore_add |-> "keystore_changed", keystore_status |-> "keystore_status",
   output |-> "output_context", job_list |-> "jobs_listed", job_delete |-> "job_deleted", setup |-> "setup_completed",
   skills |-> "agent_skills"]
RunFinite(c) == IF c.at # "done" THEN Fails(<<>>) ELSE Leaves(<<>>, FiniteOutcomes[c.name])

Run(c) ==
  CASE c.name = "process" -> RunProcess(c)
    [] c.name = "job run" -> RunJob(c)
    [] c.name = "local" -> RunLocalLifecycle(c)
    [] c.name = "serve" -> RunServe(c)
    [] c.name = "setup completions" -> RunCompletions(c)
    [] c.name = "version" -> Leaves(<<"raw">>, "none")
    [] OTHER -> RunFinite(c)

\* async_main: the outcome, or the failure, is the last thing on stdout. `clears`
\* says whether the files of the last run could be removed.
AsyncMain(c, clears) ==
  IF ~clears THEN [stdout |-> <<>>, exit |-> 1]
  ELSE LET r == Run(c)
       IN IF r.error THEN [stdout |-> IF CommandOwnsStdout(c) THEN r.written ELSE Append(r.written, "failure"), exit |-> 1]
          ELSE [stdout |-> IF r.outcome = "none" THEN r.written ELSE Append(r.written, r.outcome), exit |-> 0]

\* One voice on stdout: the documents or the raw output of a command and nothing
\* after them, or exactly one outcome; it is a failure when the exit code says so.
\* Left out, as the README says: documents sent to "stdio://stdout", a saved job
\* that is changed while it starts, and a server that cannot wait for its signal.
OneVoice(c) ==
  c.output # "stdio://stdout" /\ (\A i \in 1 .. 3 : c.reads[i] = c.reads[1]) /\ ~(c.name = "serve" /\ c.at = "failed") =>
    LET r == AsyncMain(c, TRUE)
        streams == \E i \in DOMAIN r.stdout : r.stdout[i] \in {"documents", "raw"}
    IN /\ Len(r.stdout) <= 1
       /\ r.stdout = <<>> => CommandOwnsStdout(c) /\ r.exit = 1
       /\ streams \/ r.stdout = <<>> \/ (r.stdout[1] = "failure" <=> r.exit = 1)
       /\ r.exit = 0 <=> c.at = "done" /\ ~(c.name = "process" /\ c.ask /\ c.output = "-")

(* --------------------------------- failures -------------------------------- *)
\* An error: its type ("plain" for most), the status of the HTTP response in its
\* chain (0 for none) and the words its message has, lower-cased.
HttpCategory(status) ==
  CASE status \in {401, 403} -> "authentication_failed"
    [] status = 409 -> "conflict"
    [] status = 404 -> "not_found"
    [] status \in 500 .. 599 -> "internal"
    [] OTHER -> "invalid_input"

WordCategories ==
  <<<<{"not found"}, "not_found">>, <<{"auth", "credential"}, "authentication_failed">>, <<{"collect"}, "collection_failed">>,
    <<{"process"}, "processing_failed">>, <<{"Elastic Upload Service", "send"}, "send_failed">>,
    <<{"keystore", "secret"}, "keystore_failed">>, <<{""}, "invalid_input">>>>

ClassifyFailure(e) ==
  IF e.type = "secret exists" THEN "conflict"
  ELSE IF e.status # 0 THEN HttpCategory(e.status)
  ELSE LET hits == {i \in 1 .. Len(WordCategories) : WordCategories[i][1] \cap (e.words \cup {""}) # {}}
       IN WordCategories[CHOOSE i \in hits : \A j \in hits : i <= j][2]

\* The message is one of a fixed list: of an HTTP status, or of a category.
SafeFailureMessage(e) == IF e.status # 0 THEN <<"status", e.status>> ELSE <<"category", ClassifyFailure(e)>>

AgentCategory(a) ==
  CASE a.kind = "http" -> HttpCategory(a.status)
    [] a.kind \in {"remote", "protocol"} -> "internal"
    [] OTHER -> "invalid_input"
RetrySafe(a) == ~(a.kind = "interrupted" /\ a.conversation)

\* What the child of a bundle is reported as.
IncludedResult(child) ==
  IF child.report /\ child.failure THEN "failed"
  ELSE IF child.skipped THEN "skipped"
  ELSE IF child.report THEN "completed" ELSE "failed"
ExecutionProcessResult(outcome) ==
  IF ~outcome.report THEN {} ELSE {[included |-> [i \in DOMAIN outcome.children |-> IncludedResult(outcome.children[i])]]}

\* The stages of a job that was cut short that were completed before.
SavedBundle(o) == o.bundle /\ o.retained /\ o.created
Completed(o) ==
  (IF SavedBundle(o) THEN {"save"} ELSE {}) \cup (IF ExecutionProcessResult(o) # {} THEN {"process"} ELSE {})
  \cup (IF o.slug THEN {"send"} ELSE {})

StageCategory(stage) ==
  CASE stage = "collect" -> "collection_failed" [] stage = "process" -> "processing_failed" [] OTHER -> "send_failed"

Failure(category, message) ==
  [category |-> category, message |-> message, status |-> 0, stage |-> "none", completed |-> {}, retry |-> "none"]

StructuredFailure(e) ==
  CASE e.type = "ask conflict" -> Failure("invalid_input", <<"own">>)
    [] e.type = "saved job missing" -> Failure("not_found", <<"own">>)
    [] e.type = "agent" ->
         [Failure(AgentCategory(e.agent), <<"own">>) EXCEPT
            !.status = IF e.agent.kind = "http" THEN e.agent.status ELSE 0,
            !.retry = IF e.agent.kind # "interrupted" THEN "none" ELSE IF RetrySafe(e.agent) THEN "safe" ELSE "unsafe"]
    [] e.type = "skills" -> Failure("internal", <<"own">>)
    [] e.type = "job" ->
         [Failure(StageCategory(e.stage), SafeFailureMessage(e)) EXCEPT
            !.stage = e.stage, !.retry = "unsafe", !.completed = Completed(e.outcome)]
    [] OTHER -> [Failure(ClassifyFailure(e), SafeFailureMessage(e)) EXCEPT !.status = e.status]

CommandFailure(e, setup) ==
  IF setup /\ e.type # "skills" /\ e.status = 0 THEN Failure("setup_failed", <<"own">>) ELSE StructuredFailure(e)

\* A failure says what is known and no more: the same status is the same category
\* from whichever service it came; the words of an error reach nobody; a retry is
\* called safe only when no turn was taken and no stage completed; a bundle is
\* listed only if this run created it and kept it.
FailureIsHonest(e, setup) ==
  LET f == CommandFailure(e, setup)
  IN /\ f.message[1] \in {"own", "status", "category"}
     /\ e.type \in {"plain", "agent"} /\ f.status # 0 => f.category = HttpCategory(f.status)
     /\ e.type \in {"plain"} /\ e.status # 0 => f.status = e.status
     /\ f.retry = "safe" => e.type = "agent" /\ ~e.agent.conversation /\ f.completed = {}
     /\ f.completed # {} => f.stage # "none" /\ f.retry = "unsafe"
     /\ "save" \in f.completed => e.outcome.bundle /\ e.outcome.created /\ e.outcome.retained
     /\ e.type = "job" /\ ~setup /\ e.outcome.slug => "send" \in f.completed
     /\ e.type = "job" => \A r \in ExecutionProcessResult(e.outcome) :
          \A i \in DOMAIN e.outcome.children :
            r.included[i] = "completed" => e.outcome.children[i].report /\ ~e.outcome.children[i].failure

(* ------------------------------- added hosts ------------------------------- *)
\* A URL: its port (0 for none known) and the segments of its path.
InferProduct(url) ==
  CASE url.port = 9200 -> "elasticsearch"
    [] url.port = 5601 -> "kibana"
    [] url.port = 9600 -> "logstash"
    [] OTHER ->
         LET s == SelectSeq(url.path, LAMBDA x : x # "")
         IN IF Len(s) >= 5 /\ SubSeq(s, 1, 3) = <<"api", "v1", "deployments">> /\ s[5] \in {"elasticsearch", "kibana", "logstash", "agent"}
            THEN s[5] ELSE "none"

\* Where the new host's definition comes from: a template, a materialised one, a URL.
BuildHost(app, target, template, materialised) ==
  IF template THEN [kind |-> "template", app |-> app]
  ELSE IF materialised # "none" THEN [kind |-> "host", app |-> materialised]
  ELSE LET known == IF app # "none" THEN app ELSE InferProduct(target)
       IN IF known = "none" THEN [kind |-> "error", app |-> "none"] ELSE [kind |-> "host", app |-> known]

\* A host that is added has an application, the one that was named if one was and
\* the target was a URL; only a template may leave it open.
AddedHostHasApp(app, target, template, materialised) ==
  LET h == BuildHost(app, target, template, materialised)
  IN /\ h.kind = "host" => h.app # "none"
     /\ app # "none" /\ materialised = "none" => h.app = app
===============================================================================
