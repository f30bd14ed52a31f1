----------------------------- MODULE AssetSetup -----------------------------
(* `esdiag setup`: src/setup installs the versioned templates, the ingest     *)
(* pipeline and the role in Elasticsearch, rolls over the data streams behind *)
(* a raised template, bridges renamed fields on old indices, checks the       *)
(* license and loads the Kibana assets into one space.                        *)
(*                                                                            *)
(* Releases of the program follow each other on one deployment, newer and     *)
(* older ones in any order. A request may fail before or after it took        *)
(* effect, and a run may be cut off; the next run starts from what is left.   *)
(* Runs do not overlap.                                                       *)
EXTENDS Integers, Sequences, FiniteSets

CONSTANTS
  Releases,      \* releases of the program, numbered
  Components, IndexTemplates,
  ComposedOf,    \* component templates of an index template
  Bundled,       \* version of a template in a release; 0: it has none
  RenamedIn,     \* first version of a component that maps the current names
  StreamTemplate,\* data streams and the index template they resolve to
  Spaces,        \* Kibana spaces, "default" among them
  MaxFaults      \* bound: requests that fail and runs that are cut off

Templates == Components \cup IndexTemplates
Streams == DOMAIN StreamTemplate
Kinds == <<"saved_objects", "workflows", "tools", "skills", "agents">>

ASSUME BundledAssumption ==
  /\ Releases \subseteq Nat /\ MaxFaults \in Nat
  /\ Bundled \in [Releases -> [Templates -> Nat]]
  /\ \A r, q \in Releases : r < q => \A t \in Templates : Bundled[r][t] <= Bundled[q][t]

ASSUME CompositionAssumption ==
  /\ IsFiniteSet(Components) /\ IsFiniteSet(IndexTemplates)
  /\ {"pipeline", "role"} \cap Templates = {}
  /\ ComposedOf \in [IndexTemplates -> SUBSET Components]
  /\ StreamTemplate \in [Streams -> IndexTemplates]
  /\ RenamedIn \in Nat /\ "default" \in Spaces

VARIABLES
  cluster,    \* [serverless, security]: what the deployment is; never changes
  license,    \* "active" or "inactive"
  pipeline, role,  \* whether the ingest pipeline and the role exist
  installed,  \* version of each template; 0: not installed
  built,      \* per stream, the versions its write index was created from
  unbridged,  \* streams with an index that has only the legacy names
  kibana,     \* per space, the kinds of assets in it; "dashboards" apart
  attached,   \* spaces whose default agent has the skill
  run,        \* the run that is under way
  result,     \* how the last run ended
  impaired,   \* history: a run ended otherwise than complete, or lowered a template
  faults

deployment == <<cluster, license, pipeline, role, installed, built, unbridged, kibana, attached>>
setupVars == <<deployment, run, result, impaired, faults>>

----------------------------------------------------------------------------
(* Pure parts                                                                 *)

Deps(i) == ComposedOf[i] \cup {i}
Fresh(i) == [t \in Templates |-> IF t \in Deps(i) THEN installed[t] ELSE 0]
Exists(s) == built[s] # <<>>

\* Mutant: an older release writes its templates over newer ones.
DowngradeNever(old, new) == FALSE

\* template_version_bumped and template_version_downgrade; a template that was
\* not found, or could not be read, has version 0.
Bumped(old, new) == new # 0 /\ old < new
Downgrade(old, new) == old # 0 /\ (new = 0 \/ old > new)

\* Mutant: components are forgotten.
UpdatedDirectly(raised, recorded) == raised \cap IndexTemplates

\* TemplateChanges::updated_index_templates: raised themselves or through a
\* component they were recorded with.
Updated(raised, recorded) ==
  (raised \cap IndexTemplates) \cup {i \in recorded : ComposedOf[i] \cap raised # {}}

RollOver(updated) == {s \in Streams : Exists(s) /\ StreamTemplate[s] \in updated}

\* assets.yml: pipelines, component templates, index templates, roles.
Assets ==
  LET sorted(S) == CHOOSE q \in [1 .. Cardinality(S) -> S] : \A a, b \in DOMAIN q : a # b => q[a] # q[b]
  IN <<"pipeline">> \o sorted(Components) \o sorted(IndexTemplates) \o <<"role">>

NoRun == [pc |-> "idle", release |-> 0, es |-> FALSE, kibana |-> FALSE, space |-> "default", trial |-> FALSE,
          at |-> 0, read |-> 0, blind |-> FALSE, raised |-> {}, recorded |-> {}, todo |-> {},
          warned |-> FALSE, incomplete |-> FALSE]

SetupInit ==
  /\ cluster \in [serverless : BOOLEAN, security : BOOLEAN]
  /\ cluster.serverless => cluster.security
  /\ license \in {"active", "inactive"}
  /\ pipeline = FALSE /\ role = FALSE
  /\ installed = [t \in Templates |-> 0]
  /\ built = [s \in Streams |-> <<>>]
  /\ unbridged = {}
  /\ kibana = [sp \in Spaces |-> {}]
  /\ attached = {}
  /\ run = NoRun /\ result = "none" /\ impaired = FALSE /\ faults = 0

----------------------------------------------------------------------------
(* A run                                                                      *)

RunAt(pc) == run.pc = pc
Fault == faults < MaxFaults /\ faults' = faults + 1
NoFault == UNCHANGED faults
Report(outcome) ==
  /\ run' = NoRun
  /\ result' = outcome
  /\ impaired' = (impaired \/ outcome # "complete")
Going == UNCHANGED <<result, impaired>>

\* The setup commands name the services: an output and its viewer, a context of
\* the Elastic CLI, or the environment. Without one there is nothing to do.
StartSetup(release, es, kib, space, trial) ==
  /\ RunAt("idle") /\ (es \/ kib)
  /\ run' = [NoRun EXCEPT !.pc = IF es THEN "assets" ELSE "spaces", !.release = release, !.es = es,
                          !.kibana = kib, !.space = space, !.trial = trial, !.at = 1]
  /\ UNCHANGED <<deployment, result, impaired, faults>>

\* A request whose failure ends the run, or the run is cut off.
AbortSetup ==
  /\ ~RunAt("idle")
  /\ Fault
  /\ Report("error")
  /\ UNCHANGED deployment

Asset == Assets[run.at]
NextAsset(r) == [r EXCEPT !.at = @ + 1, !.pc = IF run.at = Len(Assets) THEN "roll" ELSE "assets", !.blind = FALSE, !.read = 0]

\* installed_template_version: an error reads as "not installed".
ReadVersion ==
  /\ RunAt("assets") /\ Asset \in Templates
  /\ \/ /\ NoFault
        /\ run' = [run EXCEPT !.pc = "decide", !.read = installed[Asset]]
     \/ /\ Fault
        /\ run' = [run EXCEPT !.pc = "decide", !.read = 0, !.blind = TRUE]
  /\ Going /\ UNCHANGED deployment

\* A newer template is kept, and not recorded either.
KeepNewer ==
  /\ RunAt("decide") /\ Downgrade(run.read, Bundled[run.release][Asset])
  /\ run' = NextAsset(run)
  /\ Going /\ NoFault /\ UNCHANGED deployment

\* An index template is rejected while a component of it is missing.
Accepted == Asset \in IndexTemplates => \A c \in ComposedOf[Asset] : installed[c] # 0

Recorded ==
  NextAsset([run EXCEPT
    !.raised = IF Bumped(run.read, Bundled[run.release][Asset]) THEN @ \cup {Asset} ELSE @,
    !.recorded = IF Asset \in IndexTemplates THEN @ \cup {Asset} ELSE @])
\* Mutant: a failed asset is only logged.
WarnedNot == NextAsset(run)
Warned == NextAsset([run EXCEPT !.warned = TRUE])

\* send_asset: recorded when the answer says so; a rejected or lost request is a
\* warning, whether or not it took effect.
SendTemplate ==
  LET v == Bundled[run.release][Asset] IN
  /\ RunAt("decide") /\ ~Downgrade(run.read, v)
  /\ \/ /\ Accepted /\ NoFault
        /\ installed' = [installed EXCEPT ![Asset] = v]
        /\ run' = Recorded
     \/ /\ ~Accepted /\ NoFault
        /\ run' = Warned /\ UNCHANGED installed
     \/ /\ Fault
        /\ installed' \in {installed} \cup (IF Accepted THEN {[installed EXCEPT ![Asset] = v]} ELSE {})
        /\ run' = Warned
  /\ impaired' = (impaired \/ installed'[Asset] < installed[Asset])
  /\ UNCHANGED <<result, cluster, license, pipeline, role, built, unbridged, kibana, attached>>

SendPipeline ==
  /\ RunAt("assets") /\ Asset = "pipeline"
  /\ \/ NoFault /\ pipeline' = TRUE /\ run' = NextAsset(run)
     \/ Fault /\ pipeline' \in {pipeline, TRUE} /\ run' = Warned
  /\ Going /\ UNCHANGED <<cluster, license, role, installed, built, unbridged, kibana, attached>>

\* Roles need security; on Serverless a key without manage_security is told so
\* in the log only.
SendRole ==
  /\ RunAt("assets") /\ Asset = "role"
  /\ \/ ~cluster.security /\ NoFault /\ run' = NextAsset(run) /\ UNCHANGED role
     \/ cluster.security /\ NoFault /\ role' = TRUE /\ run' = NextAsset(run)
     \/ cluster.serverless /\ NoFault /\ run' = NextAsset(run) /\ UNCHANGED role
     \/ cluster.security /\ Fault /\ role' \in {role, TRUE} /\ run' = Warned
  /\ Going /\ UNCHANGED <<cluster, license, pipeline, installed, built, unbridged, kibana, attached>>

\* rollover_updated_data_streams: nothing to do, the streams of updated
\* templates, or a listing that fails.
ListStreams ==
  LET updated == Updated(run.raised, run.recorded) IN
  /\ RunAt("roll")
  /\ \/ /\ NoFault
        /\ run' = [run EXCEPT !.pc = "rolling", !.todo = RollOver(updated)]
     \/ /\ updated # {} /\ Fault
        /\ run' = [run EXCEPT !.pc = "rolling", !.warned = TRUE]
  /\ Going /\ UNCHANGED deployment

\* A new write index takes the templates as they are now.
Rolled(s) ==
  /\ built' = [built EXCEPT ![s] = Fresh(StreamTemplate[s])]
  /\ unbridged' = unbridged \cup {u \in {s} : \E c \in ComposedOf[StreamTemplate[s]] : installed[c] < RenamedIn}
Roll(s) ==
  /\ RunAt("rolling") /\ s \in run.todo
  /\ \/ NoFault /\ Rolled(s) /\ run' = [run EXCEPT !.todo = @ \ {s}]
     \/ /\ Fault
        /\ Rolled(s) \/ UNCHANGED <<built, unbridged>>
        /\ run' = [run EXCEPT !.todo = @ \ {s}, !.warned = TRUE]
  /\ Going /\ UNCHANGED <<cluster, license, pipeline, role, installed, kibana, attached>>

\* install_provenance_aliases: the indices to patch are read once.
ReadMappings ==
  /\ RunAt("rolling") /\ run.todo = {}
  /\ \/ NoFault /\ run' = [run EXCEPT !.pc = "patching", !.todo = unbridged]
     \/ Fault /\ run' = [run EXCEPT !.pc = "license", !.warned = TRUE]
  /\ Going /\ UNCHANGED deployment

Patch(s) ==
  /\ RunAt("patching") /\ s \in run.todo
  /\ \/ NoFault /\ unbridged' = unbridged \ {s} /\ run' = [run EXCEPT !.todo = @ \ {s}]
     \/ /\ Fault
        /\ unbridged' \in {unbridged, unbridged \ {s}}
        /\ run' = [run EXCEPT !.todo = @ \ {s}, !.warned = TRUE]
  /\ Going /\ UNCHANGED <<cluster, license, pipeline, role, installed, built, kibana, attached>>

Patched ==
  /\ RunAt("patching") /\ run.todo = {}
  /\ run' = [run EXCEPT !.pc = "license"]
  /\ Going /\ NoFault /\ UNCHANGED deployment

Finish(r) == Report(IF r.warned THEN "partial" ELSE "complete")

\* stack: the license is read only when Kibana follows. Without a license that
\* includes Agent Builder the run ends there, or a trial is started.
CheckLicense ==
  /\ RunAt("license")
  /\ \/ ~run.kibana /\ Finish(run)
     \/ /\ run.kibana /\ (license = "active" \/ cluster.serverless)
        /\ run' = [run EXCEPT !.pc = "spaces"] /\ Going
     \/ /\ run.kibana /\ license = "inactive" /\ ~cluster.serverless
        /\ IF run.trial THEN run' = [run EXCEPT !.pc = "trial"] /\ Going
           ELSE Report("partial")
  /\ NoFault /\ UNCHANGED deployment

StartTrial ==
  /\ RunAt("trial")
  /\ license' = "active"
  /\ run' = [run EXCEPT !.pc = "spaces"]
  /\ Going /\ NoFault
  /\ UNCHANGED <<cluster, pipeline, role, installed, built, unbridged, kibana, attached>>

\* The trial was used before: the license stays and the run ends with an error.
TrialRefused ==
  /\ RunAt("trial")
  /\ Report("error")
  /\ NoFault /\ UNCHANGED deployment

\* Mutant: no look into the other spaces.
NowhereElse(space) == FALSE

\* ensure_single_kibana_space: the dashboards of the bundle, or copies of them,
\* in any other space.
Elsewhere(space) == \E sp \in Spaces \ {space} : "dashboards" \in kibana[sp]

CheckSpaces ==
  /\ RunAt("spaces")
  /\ IF Elsewhere(run.space) THEN Report("error")
     ELSE run' = [run EXCEPT !.pc = "sync", !.at = 1] /\ Going
  /\ NoFault /\ UNCHANGED deployment

Applied(kind) == IF kind = "saved_objects" THEN {"dashboards", kind} ELSE {kind}
Partly(kind) == IF kind = "saved_objects" THEN {{}, {"dashboards"}} ELSE {{}}

\* sync_kibana_bundle: one push per kind, in order. A push applies everything,
\* less than it should (found out by ensure_sync_completed), or fails: midway, or
\* with nothing but its answer lost.
Push ==
  LET kind == Kinds[run.at]
      on == [run EXCEPT !.at = @ + 1, !.pc = IF run.at = Len(Kinds) THEN "synced" ELSE "sync"]
  IN
  /\ RunAt("sync")
  /\ \/ NoFault /\ kibana' = [kibana EXCEPT ![run.space] = @ \cup Applied(kind)] /\ run' = on /\ Going
     \/ /\ Fault
        /\ \E some \in Partly(kind) : kibana' = [kibana EXCEPT ![run.space] = @ \cup some]
        /\ run' = [on EXCEPT !.incomplete = TRUE] /\ Going
     \/ /\ Fault
        /\ \E some \in Partly(kind) \cup {Applied(kind)} : kibana' = [kibana EXCEPT ![run.space] = @ \cup some]
        /\ Report("error")
  /\ UNCHANGED <<cluster, license, pipeline, role, installed, built, unbridged, attached>>

EnsureSyncCompleted ==
  /\ RunAt("synced")
  /\ IF run.incomplete THEN Report("error") ELSE run' = [run EXCEPT !.pc = "attach"] /\ Going
  /\ NoFault /\ UNCHANGED deployment

\* attach_skills_to_default_agent: the agent's skills and ours.
Attach ==
  /\ RunAt("attach")
  /\ attached' = attached \cup {run.space}
  /\ Finish(run)
  /\ NoFault
  /\ UNCHANGED <<cluster, license, pipeline, role, installed, built, unbridged, kibana>>

----------------------------------------------------------------------------
(* The deployment in between                                                  *)

\* The first document of a kind creates its stream.
CreateStream(s) ==
  /\ ~Exists(s) /\ installed[StreamTemplate[s]] # 0
  /\ built' = [built EXCEPT ![s] = Fresh(StreamTemplate[s])]
  /\ unbridged' = unbridged \cup {u \in {s} : \E c \in ComposedOf[StreamTemplate[s]] : installed[c] < RenamedIn}
  /\ UNCHANGED <<cluster, license, pipeline, role, installed, kibana, attached, run, result, impaired, faults>>

\* An administrator removes the assets from a space.
ClearSpace(sp) ==
  /\ RunAt("idle") /\ kibana[sp] # {}
  /\ kibana' = [kibana EXCEPT ![sp] = {}]
  /\ attached' = attached \ {sp}
  /\ UNCHANGED <<cluster, license, pipeline, role, installed, built, unbridged, run, result, impaired, faults>>

SetupSteps ==
  \/ AbortSetup \/ ReadVersion \/ KeepNewer \/ SendTemplate \/ SendPipeline \/ SendRole
  \/ ListStreams \/ ReadMappings \/ Patched \/ CheckLicense \/ StartTrial \/ TrialRefused
  \/ CheckSpaces \/ Push \/ EnsureSyncCompleted \/ Attach
  \/ \E s \in Streams : Roll(s) \/ Patch(s)

SetupStarts ==
  \E release \in Releases, es, kib, trial \in BOOLEAN, space \in Spaces : StartSetup(release, es, kib, space, trial)

DeploymentSteps ==
  \/ \E s \in Streams : CreateStream(s)
  \/ \E sp \in Spaces : ClearSpace(sp)

----------------------------------------------------------------------------
(* Properties                                                                 *)

SetupTypeOK ==
  /\ license \in {"active", "inactive"} /\ pipeline \in BOOLEAN /\ role \in BOOLEAN
  /\ installed \in [Templates -> Nat]
  /\ \A s \in Streams : Exists(s) => built[s] \in [Templates -> Nat]
  /\ unbridged \subseteq Streams /\ attached \subseteq Spaces
  /\ result \in {"none", "complete", "partial", "error"}
  /\ faults \in 0 .. MaxFaults

Behind(s) == Exists(s) /\ \E t \in Deps(StreamTemplate[s]) : built[s][t] < installed[t]

\* No stream is left behind in silence: as long as every run was reported
\* complete and none lowered a template, every stream's write index has the
\* installed templates, components included, whatever releases ran in which
\* order. (Streams are rolled over only by the run that raises a version. A
\* component that was lowered under a newer index template can be raised again
\* without a rollover: no release in between records the index template.)
NobodyBehind == RunAt("idle") /\ ~impaired => \A s \in Streams : ~Behind(s)

\* The dashboards are in one space at most: ids are global, so a second copy
\* would break the first.
SingleSpace == Cardinality({sp \in Spaces : "dashboards" \in kibana[sp]}) <= 1

\* An installed template is lowered only by a run that could not read its
\* version; otherwise an older release leaves what a newer one installed.
NeverLowered ==
  [][\A t \in Templates : installed'[t] < installed[t] => run.blind]_setupVars

\* What "complete" promises: everything this release bundles is there at its
\* version or a newer one, streams behind a template this run raised were rolled
\* over (unless their index template was newer), old indices answer to the
\* current names, and the declared space has every kind of asset and the skill.
CompletePromises ==
  /\ run.es =>
       /\ pipeline
       /\ cluster.security /\ ~cluster.serverless => role
       /\ \A t \in Templates : installed[t] >= Bundled[run.release][t]
       /\ \A s \in Streams : Exists(s) /\ StreamTemplate[s] \in run.recorded =>
            \A t \in run.raised \cap Deps(StreamTemplate[s]) : built[s][t] >= installed[t]
       /\ (\A c \in Components : installed[c] >= RenamedIn) => unbridged = {}
  /\ run.kibana => {Kinds[k] : k \in DOMAIN Kinds} \subseteq kibana[run.space] /\ run.space \in attached'

\* A run that ends as complete keeps that promise.
CompleteKept ==
  [][RunAt("idle")' /\ ~RunAt("idle") /\ result' = "complete" => CompletePromises]_setupVars

\* Templates are never lowered and a run reported complete is complete.
SetupHonest == NeverLowered /\ CompleteKept

\* Refuted by TLC, see the README. What the warnings advise: after a failed run a complete one leaves no stream
\* behind.
RerunRepairs == RunAt("idle") /\ result = "complete" => \A s \in Streams : ~Behind(s)
=============================================================================
