# esdiag in TLA+

esdiag collects diagnostic bundles from Elasticsearch, Kibana and Logstash, turns bundles into documents,
exports those to an Elasticsearch output, and forwards bundles to a service. The same binary is a command
line tool and a web server, for one user or, as a service, for many.

This directory holds specifications of the parts of esdiag whose correctness depends on an order of events
that no test fixes: futures that are joined, tasks that share a semaphore, retries, failures in the middle,
handlers of a web server, and commands that share files. Each module is a translation of Rust code; every
definition that stands for code is listed with its lines in `PROJECT.json`, a helper that belongs to the code of another
definition with that definition. Paths below are relative to the repository's `src/`.

1. [The system](#1-the-system)
2. [Modules and code](#2-modules-and-code)
3. [What the runs check](#3-what-the-runs-check)
4. [What is proved](#4-what-is-proved)
5. [Where the code and its documents disagree](#5-where-the-code-and-its-documents-disagree)
6. [What is not modelled](#6-what-is-not-modelled)
7. [Plan](#7-plan)
8. [Running](#8-running)

## 1. The system

Everything esdiag does is a **job** of up to six stages: Collect or Load an input, optionally Save it,
Process it and Export the documents, Send the raw bundle (`docs/adr/0002`, `0003`). One executor runs jobs for
the command line, the web forms, the saved jobs and the HTTP API.

| Component | State | Operations | Talks to |
|---|---|---|---|
| Job model, `job/model.rs` | none; a validated value | `try_new` | everybody who builds a job |
| Executor, `job/executor.rs`, `job/outcome.rs` | recorded stages, drop guards of directories, children | resolve, collect, join of Process and Send, included diagnostics, verdict | resolver, collector, processor, upload service |
| Input resolver, `receiver/resolver.rs` | a downloaded directory and its guard | open a file, a host, a binding or a link | executor |
| Collectors, `processor/*/collector.rs`, `exporter/archive.rs` | requests in flight, archive, manifest, counters | request, retry, store, finalize | the host; the archive |
| Diagnostic processor, `processor/mod.rs`, `processor/diagnostic/report.rs` | a report with events, counts and verdict; a channel of summaries | start, process, drain, save | document pipeline, executor |
| Document pipeline, `exporter/*.rs` | accumulator and batches of each stream, permits, responses | receive, send, retry, merge | the output cluster |
| Web jobs, `server/job_runner.rs`, `server/mod.rs`, forms | stored requests, slots per owner, statistics, staged uploads | submit, claim, abandon, admit, finish | executor; browsers |
| Keystore and hosts, `data/keystore.rs`, `data/known_host.rs`, `data/credential.rs` | `secrets.yml`, `keystore.unlock`, `hosts.yml` and its copy | add, update, remove, rotate, unlock, lock, migrate, save | command line, web handlers |
| Retained bundles, `server/bundle_download.rs` | table of tokens, files, cleanup tasks | accept, publish, reject, download, expire | web jobs |
| Web session, `server/keystore.rs`, event bus in `server/mod.rs` | rate limit, lease, lock signals, ring of events, cards | unlock, publish, subscribe, submit | browsers |
| Workspace, `data/application_config.rs`, `data/saved_jobs.rs`, `server/settings.rs`, `server/hosts.rs`, `onboarding.rs`, `init` in `main.rs` | `hosts.yml`, `jobs.yml`, `esdiag.yml`, legacy `settings.yml`, the server's exporter and Kibana link | save, select, migrate, rename, delete, wizard | keystore, hosts |
| Asset setup, `setup/*.rs`; agent commands, `agent/*.rs` | templates and streams of a cluster, spaces of Kibana; skill directories; a turn | install, roll over, bridge; install, remove; ask | the output cluster, the file system |
| Local stack, `local.rs` | `.env`, compose file, volumes, identity of a child process | up, upgrade, setup, restart, down, reset | containers |
| Sources, `processor/api.rs`, `processor/diagnostic/` | registry of sources, manifests | select, classify | collectors, processor |
| Receivers, `receiver/*.rs`, and clients, `client/*.rs` | directory or archive; the version a running product answered | get, stream, probe | processor, collectors |
| Document builders, `processor/*/*/` | lookup tables | read a response, enrich, send | document pipeline |
| References, hosts and Elastic CLI configuration, `data/*.rs`, `crates/elasticrc` | host records; a cache of the parsed file; a child process and two readers | parse, store, merge, resolve, expand | everybody who names a host |
| Command line, `main.rs` | who owns stdout; the outcome written | parse, run, report | all of it |
| Server policy, `server/mod.rs` | mode, identity, limits | admit a request | web handlers |

What makes each of them hard, and what makes it correct:

* **Executor.** Process and Send share one bundle on disk and are polled in turn; children read nested parts
  of it; guards remove directories on return, error and drop. *Correct*: no directory goes while it is read,
  nothing temporary stays, every selected stage has a truthful record, the two outputs do not affect each
  other.
* **Document pipeline.** Batches of all streams compete for permits; bulk requests are split, time out, are
  rejected in part and repeated. *Correct*: documents are stored at most once, the counts are the truth,
  permits come back.
* **Diagnostic processor.** Concurrent sources send summaries through a bounded channel while the main future
  waits for them; the report is saved in two places, either of which can fail. *Correct*: the verdict always
  follows from the events, what is saved is complete.
* **Web jobs.** Every `.await` on a lock lets other handlers in; clients disconnect; timers race with claims.
  *Correct*: caps are kept, statistics are exact, an upload is used at most once and then deleted.
* **Collectors.** Requests end in any order, sleep and come again; pages of an earlier attempt are already
  stored; writes fail. *Correct*: the load on the host is bounded, manifest and counts agree with the
  archive, the collection ends.
* **Workspace.** Handlers and shell commands each read a file, think, and write back their copy; only `jobs.yml` has a
  mutex, and only inside one process. *Correct*: what is on disk can be read back, a failed command leaves no trace, a
  switched output is switched everywhere, onboarding says complete only of something usable.
* **Web session.** A page that asked for a bundle may lag, hide or leave; timers look at a table under one lock
  and act under another; failed passwords are counted after they were tried. *Correct*: a bundle stays as long as
  it was promised and goes afterwards, a waiting page is told, guessing is slowed down.
* **Setup and local stack.** Long commands over remote or external state, without a transaction, repeated by other releases after a
  failure anywhere. *Correct*: complete means complete, what users wrote stays, recorded passwords and versions fit the
  volumes, no foreign process is signalled.
* **Sources, receivers, builders, references, command line, policy.** Mostly pure decisions, hard because of the
  number of combinations: old manifests, aliases, versions, precedence of options over files over the environment.
  *Correct*: the two forms of a bundle are read alike, nothing is dropped or counted twice, what is stored means the same when
  read back. Three of them keep state that threads share: the cache of the Elastic CLI's file, its commands, and the
  version a live receiver remembers.
* **Keystore.** Commands of several processes access the same files with no lock between two accesses, and
  can be cut off. *Correct*: no credential is lost by moving it, references resolve, a lease opens the store
  and only unlocking grants one.

The list of hazards, each at its line and with the properties that watch it, is in `PROJECT.json`.

## 2. Modules and code

Each component has one module; an `MC*` module gives constants that a configuration file cannot write. A `*Proofs` module extends
the module it is named for and holds its theorems; `WebProofs` covers WebJobs and WebSession, `LocalStackProofs` also SetupCommands, which fills what `esdiag local` starts,
and `CollectorProofs` also the three small machines among the inputs.

### JobModel, JobExecutor and JobPromise

`JobModel` has the shapes of a job and `Job::try_new` with its checks in order; `Jobs` is the set of shapes that
pass. `JobExecutor` extends it. It runs one submitted job (`Root`) and the included diagnostics its bundle may
declare (`Children`), each as an execution of its own with a point of control, a Process future and a Send future;
a step of any of them is one action, so that the join and the concurrent children interleave at every await.
`fs` is the set of bundle directories on disk, `guards` the armed drop guards; `Return` and `Drop` release the
guards, as leaving `execute_with_context` does. `stage` and `started` are the recorded results and events,
`OutcomeFailed` is `ExecutionOutcome::failed`. Names of files, the content of reports and of events are left out.

`JobPromise` is the abstract specification: what callers rely on when they read an `ExecutionOutcome`. It knows the
stages that were asked for, their status, and whether the execution is open, has returned or was dropped. A status is
decided once, an output succeeds only over an input that did, and what is returned leaves no requested output undecided.
`KeepsPromise`, at the end of `JobExecutor`, maps the executor to it, with `stage[Root]` as the status and the root's point of control as the phase; the
mapping hides children, guards, directories and events.

### BulkExport

The data streams of one diagnostic, each with `document_channel`: it collects `BatchSize` documents and hands
them to a spawned task, then awaits the responses and merges them. A task acquires a permit of the shared
semaphore, splits its batch into bulk requests of `EsBulkSize`, and each request has any answer that
`parse_response` tells apart: accepted in whole or in part, 429, another failure, a timeout whose effect on the cluster is
unknown, or a status the code does not list. `MergeStatus`, `AddBatch` and the constructors are the functions
of `report.rs`. Two variables are history: what the cluster really stored, and how often a request was really
repeated. The exporters to files and streams are the alternative values of `exporter`.

### DiagnosticProcess

`Processor::start`, `process` and what follows it: report and lookups, heavy sources in tasks of
their own, light ones in sequence, the bounded summary channel, the drain, the remote save and the local copy.
`RecordEvent`, `AddSummary` and `DeriveOutcome` are the report's methods. `kind` says which
diagnostic runs, because an Elasticsearch source that fails leaves the others alone and a Logstash source does
not. What a source exports is a pair of counts, which is what BulkExport promises of it.

### WebJobs

The server in service mode. A *task* is a handler: the future spawned for a form, a claim of a stored request or
a synchronous API call, whose future is the connection's and is dropped with it (`Disconnect`). A *request*
is an entry of `job_requests`, in the case of an upload with its staged file and its abandonment timer. What
a handler does under one lock is one action; between two locks others run. `TakenSlots` has one element for each slot that
is taken, of whichever owner; its size is the sum over the owners. `MayStart` is the check and
increment of `record_job_started`; `RecordFinished`, `RecordRejected` and `ReleaseSlot` are the accounting calls.
An execution is a step with any result; JobExecutor has the inside.

### Collector

The three collectors differ in their retry loop and in what one API stores: a file for Elasticsearch and
Logstash, a file for each space and page (a *part*) for Kibana. `BeginLight` and `BeginHeavy` are the pool and
the sequential phase, `Answer`, `AnswerPart`, `Retry`, `GiveUp` and `Skip` the ends of a request, each with the
possible failure to store (a zip may keep a partial file of it); `SaveManifest` and `Finalize` close the archive, which is a zip or a directory: a zip refuses a
name it already has, a directory overwrites. `TimeUp` is the end of the five minutes in which failures are
repeated; the code looks at it only after a failure. `AwaitsVersion` and `AwaitsAnswer` are the points at which it waits for the host.

### Keystore

A command (add, update, upsert, remove, rename, rotate, unlock, lock, bootstrap, save or remove a host, migrate) is a
`Program`: the sequence of its file accesses, one action each, in the order of the code. `Interrupt` ends one
between any two of them, whether the process died or a write failed. `hosts.yml` is truncated and then
written, so `Truncate` and `WriteHosts` are two steps; the other files are replaced by renaming, so their writes are
one. The clock only moves forward and leases expire by it. A secret's value is known by where it came from:
typed by the user or moved from plaintext. Encryption is a comparison of passwords, and the search for the password
(environment, lease, prompt) is one step. `plain`, `overlapped` and `interrupted` are history.

### Readiness and Workspace

`Readiness` has the pure part: which `hosts.yml` may be written, where an output is taken from, and how far onboarding has
come. `Workspace` runs commands over the four files. As in Keystore a command is a program of file accesses, one step
each: the onboarding pages, the settings page, the host manager, the saved jobs, the shell's `host`, `output`, `job` and `init`,
and a restart of the server with its migration of `settings.yml`. Handlers of one server share the mutex of `jobs.yml`; a shell
does not. `exporter` and `kibanaLink` are the server's copies of the selected output. `page` is what a browser shows of the
hosts, because deleting names a row. `init` plans its steps from what it finds and what the user answers (`Plan`); `Ask`, `CollectJob` and `ProcessJob` are its later
questions, where the user may add steps or decline. Keystore has the moment in which `hosts.yml` is truncated; here its write is one step.

### EventBus, RetainedBundles, UnlockSession, WebSession

Each extends the one before. `EventBus` is the broadcast channel: a ring that every tab reads at its own pace,
with visibility by owner, snapshots and the publisher of the counters. `RetainedBundles` is the table of downloads with
its cleanup tasks, which sleep, look and then discard as separate steps. `UnlockSession` is the keystore session of user
mode: check of the limit, trial of the password, count of the failure. `WebSession` puts jobs and pages on top: each form
that a page can send, the stages `run_job` makes of it, its card, its token and its end. Times are what is left of
them and `Tick` moves them all.

### LocalStack

The commands of `esdiag local`, step by step over `.env`, `compose.yml`, the files of the native service, volumes, containers and
processes. A command of either of two binaries works on the copy of `.env` it read. Any step may fail, and any command be cut off.
Docker, the cluster and process ids (which are reused) are external. `stop_native_service` is two steps: `Kill` compares what `ps` says of the
recorded process, `Signal` is the `kill -TERM` that follows, and in between processes end and ids are used again.

### AssetSetup, AgentSkills, SetupCommands

`AssetSetup` installs versioned templates, rolls over the streams behind raised ones, bridges renamed fields, and loads Kibana's
assets into one space; a request fails before or after its effect. `AgentSkills` has the skill directories, staged and
renamed into place while users go on editing them, and a turn with Agent Builder. `SetupCommands` composes the two: one command at a time, no shared variable.

### The inputs: fifteen small modules

| Module | Code | What it is about |
|---|---|---|
| `ApiSelection` | `processor/api.rs` | type, inclusions, exclusions and dependencies to the sources collected and processed |
| `BundleFiles` | `receiver/directory.rs`, `archive.rs`, `processor/diagnostic/data_source.rs` | which file of a bundle a source is read from |
| `Bundles` | `processor/diagnostic/`, `processor/mod.rs` | manifests of any age, product, platform, selected processor |
| `Lookups`, `Documents` | `processor/elasticsearch/`, `processor/logstash/` | lookup tables, documents enriched from them, the arithmetic on them |
| `LiveReceiver` | `receiver/elasticsearch.rs`, `kibana.rs`, `logstash.rs`, ... | the version that clones of a receiver share, and the requests that need it |
| `Clients` | `client/*.rs` | credentials and queries sent, connection tests, what a product is taken for |
| `HostReferences`, `HostRecords` | `data/host_reference.rs`, `uri.rs`, `known_host.rs` | what a text refers to; how a host is built, merged, written, read, resolved |
| `ElasticRc` | `crates/elasticrc`, `data/elastic_context.rs` | files, contexts, services, expressions, arguments of commands |
| `ConfigCache` | `data/elastic_context.rs` | the cached configuration while its file is edited |
| `CommandResolver` | `crates/elasticrc` | a command, its two readers, its limit and the processes it leaves |
| `CommandLine` | `main.rs` | profiles, arguments, stdout, the structured outcome |
| `JobDrafts` | `data/saved_jobs.rs`, `job/mod.rs`, `main.rs` | drafts, jobs derived from a command, files of older releases |
| `ServerPolicy` | `server/mod.rs` and limits elsewhere | settings, routes, identity, limits |

`ConfigCache`, `CommandResolver` and `LiveReceiver` are state machines. The others are operators; the reference definition
an operator is compared with is stated beside it (`CollectedIsClosure` next to the worklist of `ApiSelection`, for instance).
`MCInputs` gives both one specification: in the part *decisions* the variable `call` goes through every small input of every
decision, in the other parts one of the machines runs.

## 3. What the runs check

| Run | Instance | Properties |
|---|---|---|
| `job_executor` | every accepted job shape, two children, under fairness | `TypeOK`, `BundleLifetime`, `StagesHonest`, `NothingOutlivesTheFuture`, `KeepsPromise`, `Termination` |
| `bulk_export` | 2 streams, 2 documents each, batches of 2 in bulk requests of 1, 1 permit, 1 retry, status 406 possible | `PermitsConserved`, `BatchSound`, `ExportHonest`, `Termination` |
| `diagnostic_process` | 3 sources (streamed and heavy, heavy, light), 1 lookup, channel of 1 | `OutcomeDerived`, `ReportPersisted`, `ProcessSound`, `VerdictNeverImproves`, `Termination` |
| `web_jobs` | 3 handlers of 2 owners, 1 stored request, caps of 2 in all and 1 per owner | `WebJobsSound`, `Settled` |
| `collector` | 2 light and 2 heavy APIs, one unsupported, pool of 2, 2 parts, files of failed attempts up to 1 before another | `CollectionSound`, `Termination` |
| `keystore` | 1 host, 2 ids, 2 passwords, 2 processes, 3 commands in sequence or 2 overlapping, 3 points in time | `KeystoreSound`, `OnlyUnlockGrants`, `SecretsSurvive` |
| `workspace` | 2 handlers and a shell, 4 names, 9 workspaces to start from, 2 commands, 1 cut off | `WorkspaceSound`, `AllOrNothing`, `OutputSwitched`, `JobsSerial`, `WizardCompletes` |
| `web_session` | 1 job, 2 tabs, 2 requests to unlock, ring of 2, 5 scenarios | `SessionSound`, `NeverLostEarly`, `BundlesRemoved`, `TokenAnswered`, `StatsReach` |
| `local_stack` | 2 binaries, 2 process ids, 2 secrets and 3 start times at a time, 1 cut | `LocalStackSound`, `OthersSpared` |
| `setup` | 3 releases, 1 component, 2 index templates, 2 streams, 2 spaces, 2 skill targets, 1 fault of the setup, 2 of the skills, 2 events | `SetupSound`, `SkillsSound`, `SetupHonest` |
| `inputs` | every small input of every decision; 2 callers and 2 edits, 3 tasks and 1 fault | `SourcesSound`, `ReferencesSound`, `RequestsSound` |
| `deletes_named_host` | the server's page alone, no shell, 2 commands, from the workspace that collects | `DeletesNamedHost`, violated (section 5) |

Every property of a passing run has a mutant in `PROJECT.json`, a mapped definition changed the way a plausible bug would change it, that
the property catches; where a property is a conjunction the important parts have one each.

**What the properties say.** `BundleLifetime`: a directory is never removed under a reader, staging never
outlives its execution, and the path an outcome names exists. `StagesHonest`: every selected output
has a record on every error path, a success did all that was selected, nothing starts from a failed input, Process and Send do
not affect each other and children are settled (`SendIndependent`, `ChildrenSettled`). `KeepsPromise`: JobExecutor implements JobPromise.
`BatchSound`: the cluster never stores more than a batch holds, the created count is never better than the truth, and every
document is created or an error. `ExportHonest`: the same for all a stream received, rejections attributed (`ChannelAccounted`),
and the scalar status, histogram and retries of merged answers are those the requests had (`ResponseHonest`).
`OutcomeDerived`: the stored verdict is always the derived one. `ReportPersisted`: a saved report has all summaries, a completed processor returns what
it saved, the recovery copy is definitive. `ProcessSound`: a report says complete only when nothing that the
code records went wrong. `WebJobsSound`: slots are exact and caps kept, each job is counted once and active exactly while it runs, a stored
request goes to one task, of its owner, with its file, and a staged file always has somebody who will delete it. `Settled`: handlers end and
uploads go. `CollectionSound`: the load on the host is bounded, count and manifest agree with the archive, the result is honest.
`KeystoreSound`: moving plaintext into the keystore cannot lose it, references resolve, a lease opens the store.

`WorkspaceSound`: `hosts.yml` can be read back whatever commands interleave (`HostsReadable`), a source is not put off while
there is one (`DeferralHonest`), and complete means an output that resolves and a default job with a source (`CompleteIsUsable`).
`AllOrNothing`, `OutputSwitched`, `WizardCompletes`: of commands that share their time with nobody. The wizard may stop at its questions and where an endpoint does
not answer; the two steps of its own that can still refuse are named in the property, each with its cause. `JobsSerial`: a save or a
deletion of a job under one hold of the mutex changes that job only, whatever other handlers do; the default job, the wizard and the commands, which load and save under separate
holds, when they are alone. That the default job can lose another page's job is section 5. `SessionSound`: an unexpired bundle has its file and a cleanup task, unless the task looked before it was renewed; a card ends with
its job; no more passwords are tried during a block than were let in with the one that began it. `NeverLostEarly`, `BundlesRemoved`, `TokenAnswered`:
a bundle stays, goes, and is announced. `StatsReach`: the counters of an attached tab catch up. `LocalStackSound`: `.env` opens the cluster of the volumes
and is never older, a running service is recorded, `down` stops everything; each excepts commands cut off at the one step where the code
cannot keep it, and that step is a history variable. `OthersSpared`: when a signal goes to a
process that is not the service, this same command saw the recorded service alive under that id, and the service ended and its id was given away before the signal: a record that
was stale when the command looked has nobody signalled. The window itself is in the code (section 5). `SetupSound`:
as long as every run was reported complete and none lowered a template no stream is behind its templates, and the dashboards are in one space. `SkillsSound`: what a user wrote
into a skill directory is never deleted without `--force`, edits between its inspection and its replacement excepted (section 5). `SetupHonest`: no template is lowered by a run that could read its version.
`SourcesSound`, `ReferencesSound`, `RequestsSound` conjoin one property for each decision and machine of the inputs; their comments list them.

**Why the bounds are enough.** Two streams and one permit make every wait and every hand-over of a permit
happen; a batch of two with requests of one has a failure before, between and after sub-batches, and one retry
has both a repeated and an exhausted request. Two concurrent sources and a channel of one make a sender block on a
full channel while the other drains; the third is the sequential one. Of three handlers, two of one owner
meet the owner's cap and all three the global one, and two tabs, another user and the timer race for one
request. Two children are needed for one to end, fail or be skipped while the other runs. Two parts
are the first and a later page. Two processes are needed for a lost update, and three commands in sequence for store, migrate and use. In the workspace two commands make every pair of accesses overlap, and the
starting points are those the third and later commands would start from; three of them exist for the wizard: an output in the environment without its Kibana, one without
a keystore beside a default job that is not needed, and a Kibana with the name of a cluster. A ring of two is overrun by three events; the blocking time has
grown to its limit after six failures, three of them free. Three releases run in any order, and runs repeat without bound; a fault may strike
in any of them. (With two, a template that was lowered cannot be raised to a version between.) With two process ids one can be given to somebody else. In the inputs each set holds the values the code tells apart, and
lists have up to two or three members, enough for order and repetition. The bounds `Documents`, `MaxDocs`, `MaxParts`, `MaxRetried`,
`MaxCommands`, `MaxOverlapped`, `MaxNow`, `MaxLosses`, `MaxCuts`, `MaxFaults`, `MaxSkillFaults`, `MaxEvents`, `MaxSecrets`, `MaxStarts`, `MaxEdits` and
`Scenarios` do not stand for anything in the code; for the modules with proofs they are arbitrary numbers. Three constraints cut the state space further:
`Separate` explores the three parts of SetupCommands one at a time, which loses nothing because they share no variable, and
lets one release set up Kibana, where the release makes no difference; `WizardCompany`
lets only the switch of an output overlap with the wizard; `Bounded` cuts a command off only while no other runs, and opens the host manager only in the
workspace that collects. What the last two leave out is not checked.

**Fairness.** Weak fairness is assumed of the steps of each execution, task, channel, source, handler and API,
one by one: tokio polls every ready future, and a sleep ends. It is not assumed that a host which is collected from, or a live source, ever answers:
no client of a collected host sets a timeout (`client/elasticsearch.rs:71`, `client/kibana.rs:29`, `client/logstash.rs:47`), and `execute_with_context` awaits the collection
without one (`job/executor.rs:302`). The steps that wait for such a peer (`AwaitsVersion` and `AwaitsAnswer` in Collector, `AwaitsPeer` in JobExecutor, `AwaitsManifest` and
`AwaitsSource` in DiagnosticProcess) are under no fairness, and each `Termination` says: if no peer stays silent for ever, then it ends. What silence does is in section 5.
Requests to the output cluster do end, by the timeout around `send` (`exporter/elasticsearch.rs:161`), and so do those of the upload service and of Elastic Cloud's
administration, whose clients have one; the body of a bulk answer is read after that timeout, and is assumed to arrive or to break off.
`Settled` is conditional, too: it is about handlers whose executions end. A batch holds its permit for finitely many requests and there are finitely many batches, so no stronger
fairness is needed for the semaphore. `Settled` further assumes that a browser reads its event stream or closes it:
the channel of 64 events suspends a job whose browser does neither. `web_session` assumes it of the work of each job, of each cleanup
task, of the publisher of the counters, of time, and of tabs that stay: that they subscribe, read and finish a download. Nothing is assumed of the arrival of
requests, of disconnections, of attempts to unlock, or of commands, whose runs have no liveness property. Runs of modules that may stop (no
more requests, collection done, no more commands) do not check deadlock.

Symmetry is used where no liveness is checked: the processes and passwords of `keystore`, the process ids of `local_stack`. A component
without an `MC` module has its instance at the end of its own module.

## 4. What is proved

TLAPS checks the theorems of eight modules for every value of the constants allowed by their assumptions: the bounds of the runs do not
bound the theorems.

| Theorem | Property | Assumptions |
|---|---|---|
| `JobExecutorProofs!TypeCorrect`, `BundlesKept` | `TypeOK`, `BundleLifetime` | the submitted job is not one of its children |
| `JobExecutorProofs!StagesKept` | `StagesHonest` | the same |
| `JobExecutorProofs!FutureEndsAll`, `PromiseKept` | `NothingOutlivesTheFuture`, `KeepsPromise` | the same |
| `BulkExportProofs!BatchesSound` (from `StoredOnce`, `CreatedSound`, `AccountsForBatch`) | `BatchSound` | finitely many streams, positive batch size, statuses that are not among the known ones |
| `BulkExportProofs!LimitKept` | `PermitsConserved` | a positive task limit |
| `BulkExportProofs!HonestExport` | `ExportHonest` | those of `BatchesSound` |
| `DiagnosticProcessProofs!VerdictDerived` | `OutcomeDerived` | finitely many sources, sources and lookups named differently, a channel with room |
| `DiagnosticProcessProofs!ReportsPersisted` (from `SavedAfterDrain`, `CompletedPersisted`, `RecoveryDefinitive`) | `ReportPersisted` | the same |
| `DiagnosticProcessProofs!VerdictKept`, `CleanIsEarned` | `VerdictNeverImproves`, `ProcessSound` | the same |
| `WebProofs!JobsSound` | `WebJobsSound` | finitely many handlers, requests and owners, positive caps |
| `WebProofs!SessionHolds`, `DownloadsKept` | `SessionSound`, `NeverLostEarly` | finitely many requests to unlock, a ring with room, positive times (what is left after a download is at most `KeepTime`) |
| `CollectorProofs!CollectionHolds` | `CollectionSound` | finitely many APIs, a pool with room, positive bounds on parts |
| `CollectorProofs!CacheServes`, `CommandEnds` | `ServedIsCurrent`, `CommandLeavesNothing`, parts of `ReferencesSound` | none |
| `CollectorProofs!VersionAskedOnce` | `OneVersionAsked`, a part of `SourcesSound` | no source has an address that is the model's marker of none |
| `KeystoreProofs!KeystoreHolds` | `KeystoreSound` | hosts' names are secret ids |
| `KeystoreProofs!UnlocksOnly`, `SecretsKept` | `OnlyUnlockGrants`, `SecretsSurvive` | the same |
| `LocalStackProofs!LocalStackHolds`, `SparesOthers` | `LocalStackSound`, `OthersSpared` | at least one version and one process id; the name of no process is not one of the ids |
| `LocalStackProofs!SkillsHold` | `SkillsSound` | releases are positive numbers |
| `LocalStackProofs!SetupHolds`, `HonestSetup` | `SetupSound`, `SetupHonest` | finitely many templates, a newer release bundles no older version of one, index templates are composed of components, streams resolve to index templates |
| `WorkspaceProofs!WorkspaceHolds`, `JobsSerialized` | `WorkspaceSound`, `JobsSerial` | a viewer is named differently from its cluster, a form gives a host some role, the files a run starts from were written by the program |
| `WorkspaceProofs!FailuresKeepFiles`, `OutputsSwitch` | `AllOrNothing`, `OutputSwitched` | the same |
| `WorkspaceProofs!WizardFinishes` | `WizardCompletes` | the same |

**Bundles.** `BundleLifetime` speaks of the ends of an execution. The inductive `BundleInv` adds who owns each directory on the
way: `PathOnDisk` (the resolved path is on disk at each point), `StagingOwned` (staging exists only
under its guard), `RetainedUnguarded` (a retained path has none) and `ChildrenOnlyLoad` (a child neither downloads nor
collects, so it arms no guard). One lemma covers a child's step, which touches no directory; three the root's.

**Stages.** `StagesHonest` looks at outcomes; `StageInv` says what the record is at each point of control on the way there
(`RecordedAt`): which stages have a status, and which that is. From it follow the invariant and the refinement: a step of the root sets a status that
JobPromise lets it set in that phase, and a child's step changes nothing the mapping shows. `NothingOutlivesTheFuture` needs no invariant: no
step is enabled by an execution that is not live.

**Batches.** `BatchSound` says nothing of a batch that is half sent. `TaskInv` does: while a task is sending, what its
response knows and what is still open add up to the batch, and what the cluster stored
leaves room for what is open. `ChannelInv` bounds the batches by the documents received, so that
tasks beyond them are untouched. The merge of two responses adds their counts (`MergeFacts`), and one lemma for
each answer re-establishes the sums. `LimitKept` adds that a task is in the set in flight exactly while it
holds a permit; `Acquire` and every answer change the set by one element. For `HonestExport` a function `p` stands for the sum over the batches of a stream: `p[i]` documents are in its first `i`
batches, `p` of all that were sent, with those held, is what was received, and `p` of those awaited is what the summary has counted (`InOrder`). `ResponseInv` says what makes a
response honest, and merging keeps it.

**Reports.** `Derived` holds of each call that builds a report (`Refresh`, `RecordEventFacts`, `AddSummaryFacts`).
`Progress` ties the report's sources to the processors that sent and the channel's content, and says that the
channel is empty once it is closed; `Persisted` says, phase by phase, what was saved. `VerdictKept` follows
because events and counts only grow, and a failure signal in them keeps the verdict from being complete. `CleanIsEarned` needs the converse, that each thing that went wrong
has left its event or its count in the report, in the channel or with a processor that is about to send it.

**Web jobs.** The invariant counts handlers instead of bounding numbers: the slots of an owner are as many as the owner's handlers between admission
and release, the elements of `TakenSlots` as many as all of them, the figures as many as there are handlers at the points after which each is counted.
A step moves one handler over one of those points (`CountChange`). The caps follow, because who executes holds a slot. `StoredInv` says how far the
submission of a request has come, so that an entry that can be claimed has its file and its timer.

**Session.** A page never has more to read than the ring holds (`BusInv`). `DiskInv` ties the table to the disk and to the tasks that sweep it: an offered bundle is on disk,
no task that found it expired is about to delete it, and a task sleeps on it that wakes no earlier than its time is up, or has just found it so. Only a
job that has published has anything there, so a publication meets no earlier bundle of its own. `LockInv` counts the tries under way against the requests let in
(`TriesLimited`), since a block covers only requests that come after it. `JobsInv` says what a form and an outcome are until they are told (`CardsEnd`). `NeverLostEarly` needs of it
only that whatever a step writes to the table is an entry, and what the tasks and the downloads know of the times.

**Collection.** The files of the archive are divided among the APIs they belong to. Those of the APIs that have ended are behind the reported number (`CountInv`), those of one
under way behind what its retry loop has counted so far (`ApiInv`). Both speak of a zip where a repetition of Kibana's loop counts a file that a directory
overwrites. `PhaseInv` says which APIs may be under way in each phase, and so why a heavy one has the host to itself.

**The machines of the inputs.** What the cache stores under a hash was loaded at the edit of that hash or later, and a call began with the edit of its hash (`CallInv`): so an entry is
never older than a call it serves. The caller of a command joins the readers only of a child that has ended (`CommandInv`). The one clone that fills the cell is the one that asks
(`CellInv`), so each earlier question failed; a request knows a fault only when it has ended with it (`AtPoint`), and its address is of the version in the cell, which is never replaced (`FromCell`).

**Keystore.** `OnLine` says that what is left of a command's program is one of the finitely many rests of the programs in `Program` and `MoveSecrets`; the steps
are then told apart by point. `Alone` is the invariant of commands that do not overlap: `Knows` says what the one running command has read and still relies on, since nobody
else can have changed it, and what it has decided but not yet written. A command cut off leaves files about which nothing needs to be known but
`ReferencesResolve` and where each credential is: in `hosts.yml` (`Unmoved`), or, once that was truncated, in the keystore, with no command about to take it out (`Safe`).
`LeaseOpensStore` has to let a rotation be between its two writes. `Pair` is the invariant of two commands that overlap and are not cut off. There the credential
may also be in the copy (`InBackup`: no other migration is about to replace it) or with the bootstrap that will store it next (`InBootstrap`).
Most steps leave both files alone (`Quiet`), and one lemma covers them; the first write of a keystore, the truncation and the second write of `hosts.yml` have
their own. A third command would break `Pair`: section 5.

**Local stack.** A command works on the copy of `.env` that it read when it began, and commands do not overlap: `CopyInv` says what the copy still knows, and
what the command has already written or will write. `Fits` says that the secrets of `.env` open the volumes there are, `Good` that the copy about to be written has a password as well. `ModeInv` and `EsdiagInv` tie
the container of the web interface to a full stack that is recorded or to a start that is changing the mode; `down` relies on it to leave nothing running.
`ServiceInv` does the same for the native service: after a signal nothing serves that was not told to stop. `OthersSpared` follows from what the command has seen of the process id
when it compared the start time, and keeps until it signals.

**Setup.** The skill directories need one fact about each point of an installation (`SkillPoint`): what it found is what it moves out, unless it was edited meanwhile, and without
`--force` what it found is never a user's; an edit after the move stays at the destination or keeps the new directory from being put there. For the templates, `Level` tells two kinds of runs apart. In one the cluster is at a newer release (`Ahead`) and nothing is raised; in the other it is at
an older one (`CatchingUp`): what was dealt with is at this release, every index template is recorded, and a stream is behind only a template
that was raised. So all that are behind are rolled over, and in between runs the cluster is at one release as a whole (`Uniform`). `SoFar` says which part of what
"complete" promises has been kept at each point by a run that was not warned. The order in which the assets are sent plays no part; that all of them are does (`AssetsFacts`).

**Workspace.** `OnCourse` says of what is left of a program which step may follow which (`Succ`), what a load or a parse is for (`After`) and where a program ends
(`Ending`); it holds of every program and of every plan the answers of the wizard lead to (`WizardCourse`), and is what tells the steps of a command apart without
listing its rests. `Knows` says which copy a command has at which step, and so that what it writes back has the form of the file. `Readable` follows: a file is written only when it is
`Writable`, whatever copy it was made from. `CompanyInv` says who has noticed whom, so that a command is `Alone` exactly as long as no other ran at the same time; `MutexInv`
that the holder of the mutex of `jobs.yml` is at its write, and has the file as it is, unless a shell interfered. `AloneInv` is what a command alone can rely on: the
copy it is about to write back is the file (`FreshConfig`), nothing has been changed before its last question (`Early`, `Untouched`), and a switched output is selected, saved and linked in that order
(`Switches`). `DeferralInv` says between which steps of which command a deferral may stand beside a source: the command that saved the source is about to clear it. A command that has changed a
file no longer fails (`LateNeverFails`), and one that switched the output ends well only at the end of its program (`SwitchEnds`).

**The wizard.** That it reaches a complete workspace is not a fact about one of its steps: its plan is made from what it finds, each answer may add steps, and the last
inspection reads files that some thirty steps have written. `WizardPath` therefore relates the files to the steps that are still `Owed`. Every answer
is in the files, or the step that will save it is owed (`AnswersMet`). A default job is not needed, or still asked for, or saved and about to become the default,
or the default; and the last job asked for fits the workflow (`JobMet`). `hosts.yml` stays such that it would be
written again, and no output is selected that it does not have, if that was so at the start (`FilesMet`). The invariant holds of a wizard that is alone: `OwnPath` has one lemma for each of its steps, over records and files (`PathKept`,
`PathWritten`, ..., `PathPlanned`) and then over the state, and whatever another command does ends that it is alone (`NoticedOnes`). At the
last inspection only `final` is owed, so every answer is in the files (`FinalComplete`); a refused write needs a viewer of the name of the new output (`WriteRefused`), and the references of a
new default job always fit (`DefaultFits`).

**Only model-checked**: all liveness properties (fairness is outside the prover), and the three invariants of the run `inputs` as a whole, since
beside the machines they conjoin tables of decisions over the inputs listed there. `ApiSelection` and
`Lookups` contain recursive operators and stay with TLC.

## 5. Where the code and its documents disagree

**With a run.** `deletes_named_host`: the delete button of the host manager asks whether to delete the host it names
(`templates/hosts/host_row.html:81`), but sends the number of the row, and the handler (`server/hosts.rs:1564`) numbers the saved hosts anew. In the trace
one page deletes two of the rows it opened: the answer to the first deletion takes its row out of the page and leaves the other numbers as they are, so the second deletion
removes the host after the one it names. A host added or removed by another page or a shell does the same.

**Stated and refuted.** These are definitions of the modules, marked there; TLC finds a counterexample when one is added to the module's
configuration.

| Definition | What the code does | What a document says |
|---|---|---|
| `ChildFailureSparesParent` | a failed included diagnostic fails the verdict of a parent whose stages all succeeded (`job/outcome.rs:164`) | the aggregate status remains successful (`openspec/specs/included-diagnostic-jobs/spec.md:112`) |
| `DownloadNotLeaked` | a downloaded link that does not open as an archive stays on disk: the error at `receiver/resolver.rs:141` returns before the guard exists | `receiver/resolver.rs:237` |
| `NoErrorMeansStored` | documents answered with a status outside the list of `parse_response` are neither created nor errors (`exporter/elasticsearch.rs:538`) | `openspec/specs/diagnostic-reporting/spec.md:92` |
| `CollectionFailureRecorded` | Elasticsearch and Logstash reports take no events from the manifest's failed requests (`processor/elasticsearch/mod.rs:448`) | the same specification |
| `SourceFailureRecorded` | a Logstash source, or a streamed Elasticsearch source, that cannot be read is only logged (`processor/logstash/mod.rs:150`) | the same specification |
| `PagesKeepJobs` | `save_default_job` loads the jobs under one hold of the mutex and saves them under another (`onboarding.rs:366`): a job that another page of the same server saves in between is overwritten | the draft is compiled into a job under that name, and appears in the list (`openspec/specs/saved-jobs/spec.md:97`, `:99`) |
| `EditsNeverLost` | a skill directory is inspected (`setup/skills.rs:249`) before the new one is staged; what a user writes there before the old one is moved aside (`:281`) is deleted with it (`:296`) | "locally modified directories are never touched without `force`" (`setup/skills.rs:245`) |
| `SignalsOnlyItsService` | `ps` and `kill` are two programs: the service may end between them, and its id be given to another process, which is then told to stop (`local.rs:896`, `901`) | `down` and `reset` stop the service "without stopping an unrelated process" (`openspec/specs/embedded-local-stack-launcher/spec.md:89`) |
| `ModeStable` | the mode of `local up` changes after a first start that failed (`local.rs:343`, `492`) | the mode is stable until the user selects another |
| `ResetRemovesVolumes` | after a change from full to core, `reset` leaves the volume `esdiag-data` (`local.rs:531`, `1013`) | reset removes the stack's volumes |
| `RerunRepairs` | streams are rolled over only for templates that the same run raised; after a failed rollover a rerun finds equal versions and does nothing (`setup/elasticsearch.rs:717`) | the warning asks for a rerun |
| `RetryNeverDuplicates` | a turn that failed before its conversation was named is reported as safe to retry, although the server may have received it | the name `retry_safe` |

**Observed while modelling**, without a definition of their own.

*Jobs and export.* Retries of a batch that ends in a request without an answer are not reported (`openspec/specs/es-exporter-retries/spec.md:49`);
`RetriesReported` excepts that case. Some early returns of the executor leave Collect or Save without a recorded result
(`collection-execution/spec.md:268`); `OutputsAccounted` is about output stages. A Kibana collection into a directory counts the files of failed
attempts again when it gives an API up. A file that cannot be written leaves its API marked with its HTTP status in the manifest.
`ESDIAG_OUTPUT_TASK_LIMIT=0` stops the export, while other limits reject or ignore 0.
A host that accepts a connection and stays silent holds its collection for ever, and with it the job and the job's slot: the five minutes of an API are looked at only after
a failed attempt (`processor/elasticsearch/collector.rs:161`), and nothing else has a limit.

*Web jobs and session.* A synchronous API call whose client disconnects keeps its slot for ever (`server/api.rs:185`); `SlotsExact` counts dropped tasks in. A partial
upload of a disconnected browser stays on disk. Links and keys left by the API have no abandonment timer. A rejected download never gets a cleanup task, and a token
used again replaces its entry without removing the old file; retained files survive the process, and a failed copy leaves its directory. A cleanup task
reads the expiry under one lock and discards under another (`server/mod.rs:1149`). The subscription reads its snapshot first (`server/mod.rs:1893`), so counters that
change in between are missed until the next change. "Ready" is published once: a page that was hidden then does not learn of it.
A job refused by validation or a cap patches a card that was never inserted; an upload refused because the output is locked does not reject its token; a loaded bundle
that is forwarded to no target and not saved succeeds without a terminal card. The unlock of the welcome form is outside the rate limit, and lock signals may be published
in the opposite order of their events. In service mode the settings form changes the Kibana link of everybody.

*Keystore.* Overlapping commands overwrite each other's changes; only commands that do not overlap keep `ReferencesResolve`, `LeaseOpensStore` and
`SecretsSurvive`. Plaintext can be lost in two ways: a migration that overlaps with another command and is cut off, and three commands, of which two
migrate, the second replacing the copy of `hosts.yml` by one without plaintext, and one writes the keystore back as it was before the first. A rotation cut off before it writes the lease
(`data/keystore.rs:945`) leaves a lease that no longer opens the store; the web interface shows it as unlocked. An unlock whose lease cannot be written answers 204.
`touch_keystore_session` does nothing (`server/keystore.rs:105`). Migration stores a host's plaintext in the secret of the host's name; if that secret exists with an API
key the host goes on with the API key, and plaintext that a reference had overridden comes into use (`host-secret-store/spec.md:72`).

*Workspace.* Onboarding does not look at the selected context. Selecting the host that is the default already does not clear a context.
`update_settings` writes back the configuration and the exporter it read before its awaits, and two overlapping switches can leave the exporter of one and
the Kibana link of the other. `save_default_job` leaves the job saved when its references do not fit. The default job, the
wizard and the `job` commands lose jobs that others save between their two holds of the mutex (`PagesKeepJobs` above). A job can be saved for a host without the role `collect`. Renaming a host updates neither the default output nor the jobs; a host
update revives a host that was removed during its connection test. A restarted server takes its Kibana link from the environment, not from the viewer, and resolves
the exporter before it migrates `settings.yml`. The wizard, with an output reused and no keystore, with an environment that names an output without its Kibana, or with an output of the environment only and both workflows,
ends incomplete; a new output with the name of another's Kibana is only refused when `hosts.yml` is written, after its endpoints have answered. The question for the collection
host of the default job is repeated until it is answered with one of the saved ones.

*Saved jobs.* A draft that processes or sends, with save on and a blank directory, compiles to a temporary save, which the form cannot show again; the output of the
environment does not survive the form either, and a path that now names a host or a directory changes its kind. The job saved by `collect --save-job --send` has a temporary save
although the command keeps the archive; it has no inclusions and exclusions, and its output is the configured default where the command would have used
`ESDIAG_OUTPUT_URL`. It is saved before the command's input and output are validated.

*Setup and local stack.* A template that is newer in the cluster is kept, but not recorded with its components; a version that could not be read lets an older release overwrite
a newer template, without a warning; when the index template above it is newer still, a third release raises it again and rolls no stream over (`setup/elasticsearch.rs:642`), and all three report
that they are complete. Overlapping setups race. `restart --log-level` in a directory without a stack creates a `.env` that names no mode (`local.rs:76`), so that the
next automatic `up` takes the stack for a full one. A write of `.env` that is cut off truncates it (`local.rs:1483`), and nothing locks the state directory.

*Bundles and receivers.* `get_stream` reads only the registry's file, without aliases, and takes an empty file for an error, where `get` tries all
candidates. An archive takes an entry that cannot be opened for missing and a directory for an error (`receiver/mod.rs:51`); an included path with `./` is found in a
directory only; a first entry that is a directory with a dot in its name makes the working directory wrong. The old `product` of a manifest stays on the old platform when
identifiers override it; a child of unknown origin in an ECK bundle is processed as one. Logstash and Elastic Cloud receivers drop the error of a failed version request,
so that its HTTP status is lost. Kibana's manifest asks for the version anew and may differ from the one its requests used. Elasticsearch and
Logstash accept only 200, the others any 2xx. Logstash drops a path prefix of its host. Kibana's client ignores `accept_invalid_certs`.

*Documents.* An index without shards divides by zero and stops the whole source (`indices_stats/processor.rs:288`), as do nodes without disk or processors
(`nodes_stats/data.rs:195`); `since_rollover` and free space above the total wrap around. Kibana stream names with an unexpected number of words
index out of bounds, and a stream without indices underflows (`data_stream/lookup.rs`). An index with several aliases gets an arbitrary one. The Logstash node's pipeline
count is always 0. A malformed entry of nodes, indices or mapping statistics ends the stream, one of snapshots does not.

*References and the Elastic CLI.* Saved host names with a colon and Windows paths are read as malformed template references; template hosts named `http`, `file`, `stdin` and the like
can be saved but not referenced. A `file://` URI without an extension, and a `stdio://` URI with a password, read back as something else. `merge_cli_update` recomputes `cloud_id` only
with a credential. The configuration cache is keyed by content, so a content that recurs is served from before; on Windows with `HOME` and `USERPROFILE` apart the
fingerprint is of another file than the one loaded (`elastic_context.rs:555`). `$(cmd:...)` ends at the first parenthesis, even in quotes, and its timeout does not bound
the readers when a grandchild keeps the pipe.

*Command line.* The output `stdio://stdout` streams, but a failure is appended to it, since `command_owns_stdout` knows only `-`. A saved job is read three times and may change in between.
A failed `clear_last_run_files` gives no structured failure; a server whose signal handler fails writes a second outcome. `collect --send` that fails in sending loses the facts about the archive it kept, and
a job failure with an HTTP cause has no status (`openspec/specs/cli-structured-output/spec.md:81`).

## 6. What is not modelled

* Pages, documentation, theme and shell completions: rendering and generated text, with no state but a cookie. The desktop shell: windows and launchers through an external
  toolkit. Repository tools: build-time checks.
* Sources whose entries are copied to documents as they are (settings, licenses, policies and similar): there is nothing to decide. `validate_processable_registry`, a test of the
  compiled-in registry.
* Formatting, wording and logging; HTTP, compression and encryption, which are choices among the results the code tells apart; timing beyond the expiries, delays and limits named above.
* Chunks of an upload and the parsing of upload links; connection checks of the exporter before a run; drafts of the host manager's pages.
* A bulk answer of 200 with fewer items than operations (`exporter/elasticsearch.rs:541`): Elasticsearch answers each operation with an item. The documents of missing items
  would be counted neither as created nor as errors.
* User mode of WebJobs, in which there are no caps (WebSession has both modes); commands of one state directory that overlap in LocalStack; setups that overlap.

`PROJECT.json` lists every component with its status and reason. Liveness under fairness, recursion and induction over data cannot be proved with the provers used; the modules
with theorems and those planned for them therefore use no recursive operators.

## 7. Plan

What a run checks and no theorem states yet, in the order in which it is worth proving:

1. The decisions of the inputs that need no recursion, such as `SharedServerIsShut` and `TextMeansOneThing`, for any arguments instead of those listed.
2. Workspace: what a wizard keeps that shares its time with other commands, for which `WizardPath` would have to say what each of them may change between two questions.

## 8. Running

    tlc -workers 2 -config WebJobs.cfg WebJobs
    tlc -workers 2 -config Keystore.cfg Keystore
    tlc -workers 2 -config SetupCommands.cfg SetupCommands
    tlc -workers 2 -config JobExecutor.cfg JobExecutor
    tlapm BulkExportProofs.tla

Runs take from seconds to about four minutes, the proofs of a module up to a quarter of an hour. A module without an `MC` module is run with the configuration of its own name.
