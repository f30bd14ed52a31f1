------------------------------- MODULE Readiness -------------------------------
(* What the files of a workspace mean: which hosts.yml may be written, where   *)
(* diagnostics are sent, whether the references of esdiag.yml resolve, and how *)
(* far onboarding has come. Translated from data/known_host.rs,                *)
(* data/application_config.rs, data/output_deployment.rs and onboarding.rs.    *)
(*                                                                             *)
(* hosts and jobs are functions from the names in the file. A host is          *)
(* [app, roles, viewer, url], a job [host, export]: export is "none" for a     *)
(* collection, "env" for the output of the environment, else a host's name.    *)
EXTENDS Naturals, Sequences, FiniteSets

CONSTANTS
  NameOrder,   \* the names a host can have, in the order of a BTreeMap
  KibanaOf,    \* <name>-kb for the names a cluster can have
  None

Names == {NameOrder[i] : i \in DOMAIN NameOrder}
Clusters == DOMAIN KibanaOf
Workflows == {"collect", "process", "both"}

ASSUME NamesAssumption ==
  /\ \A i, j \in DOMAIN NameOrder : NameOrder[i] = NameOrder[j] => i = j
  /\ \A c \in Clusters : {c, KibanaOf[c]} \subseteq Names
  /\ None \notin Names \cup Workflows
  /\ NameOrder \in Seq(Names)
  /\ \A c \in Clusters : KibanaOf[c] # c

Collects(wf) == wf \in {"collect", "both"}
Processes(wf) == wf \in {"process", "both"}

Has(hs, n, role) == n \in DOMAIN hs /\ role \in hs[n].roles
Is(hs, n, app) == n \in DOMAIN hs /\ hs[n].app = app
FirstName(S) == NameOrder[CHOOSE i \in DOMAIN NameOrder :
                            NameOrder[i] \in S /\ \A j \in 1..(i - 1) : NameOrder[j] \notin S]
FirstOrNone(S) == IF S = {} THEN None ELSE FirstName(S)
CollectHosts(hs) == {n \in DOMAIN hs : Has(hs, n, "collect")}

(* ------------------------------- hosts.yml -------------------------------- *)
\* normalize_and_validate_roles: a host without a role collects.
Normalized(h) == IF h.roles = {} THEN [h EXCEPT !.roles = {"collect"}] ELSE h
RolesFit(h) == /\ "send" \in h.roles => h.app = "es"
               /\ "view" \in h.roles => h.app = "kb"

\* Mutant: a viewer may be missing.
LinksFitDangling(hs) == \A n \in DOMAIN hs : hs[n].viewer # None => "send" \in hs[n].roles
\* validate_viewer_links
LinksFit(hs) == \A n \in DOMAIN hs : hs[n].viewer # None =>
                   "send" \in hs[n].roles /\ Has(hs, hs[n].viewer, "view")

\* What write_hosts_yml accepts, and what it writes.
Writable(hs) == (\A n \in DOMAIN hs : RolesFit(Normalized(hs[n]))) /\ LinksFit(hs)
Written(hs) == [n \in DOMAIN hs |-> Normalized(hs[n])]

Put(hs, n, h) == [m \in DOMAIN hs \cup {n} |-> IF m = n THEN h ELSE hs[m]]
Drop(hs, S) == [m \in DOMAIN hs \ S |-> hs[m]]

(* -------------------------------- outputs --------------------------------- *)
\* valid_output_host
ValidOutput(hs, o) ==
  /\ Is(hs, o, "es") /\ Has(hs, o, "send")
  /\ hs[o].viewer # None /\ Is(hs, hs[o].viewer, "kb") /\ Has(hs, hs[o].viewer, "view")

\* What is declared outside hosts.yml resolves when it names a Kibana, or none
\* is needed: the Elastic CLI context, ESDIAG_OUTPUT_URL.
ContextResolves(w, kib) == w.rc = "full" \/ (w.rc = "es" /\ ~kib)
EnvironmentResolves(w, kib) == w.env = "full" \/ (w.env = "es" /\ ~kib)
\* resolve_saved
SavedResolves(hs, n, kib) ==
  /\ Is(hs, n, "es") /\ Has(hs, n, "send")
  /\ kib => hs[n].viewer # None /\ Has(hs, hs[n].viewer, "view")

\* OutputDeployment::resolve without an explicit target: the context of
\* esdiag.yml, then the environment, then the saved default.
Resolves(hs, c, w, kib) ==
  IF c.context THEN ContextResolves(w, kib)
  ELSE IF w.env # "none" THEN EnvironmentResolves(w, kib)
  ELSE SavedResolves(hs, c.output, kib)

\* ApplicationConfig::validate_references
ReferencesFit(hs, js, c) ==
  /\ ~c.context /\ c.output # None => ValidOutput(hs, c.output)
  /\ c.job # None => c.job \in DOMAIN js

(* ------------------------------- onboarding ------------------------------- *)
\* Mutant: the job of the default may collect from a host that is gone.
FitsWorkflowNoHost(j, hs, c, w) ==
  CASE c.workflow = "collect" -> j.export = "none"
    [] c.workflow = "both" -> \/ j.export = "env" /\ w.env # "none" /\ Resolves(hs, c, w, TRUE)
                              \/ j.export = c.output /\ c.output # None
    [] OTHER -> FALSE
\* workflow_job_is_valid
FitsWorkflow(j, hs, c, w) ==
  /\ Has(hs, j.host, "collect")
  /\ CASE c.workflow = "collect" -> j.export = "none"
       [] c.workflow = "both" -> \/ j.export = "env" /\ w.env # "none" /\ Resolves(hs, c, w, TRUE)
                                 \/ j.export = c.output /\ c.output # None
       [] OTHER -> FALSE

\* onboarding::inspect; store says that secrets.yml exists.
InspectOnboarding(hs, js, c, w, store) ==
  LET env == w.env # "none" /\ Resolves(hs, c, w, TRUE)
  IN [user |-> c.user, workflow |-> c.workflow, store |-> store, env |-> env,
      output |-> IF w.env # "none" THEN env ELSE ValidOutput(hs, c.output),
      secret |-> w.env = "none" /\ c.output \in DOMAIN hs /\ hs[c.output].secret,
      host |-> CollectHosts(hs) # {},
      job |-> c.job \in DOMAIN js /\ FitsWorkflow(js[c.job], hs, c, w),
      deferred |-> c.deferred]

\* OnboardingReadiness::is_complete
IsComplete(r) ==
  /\ r.user
  /\ CASE r.workflow = "collect" -> r.host /\ r.job
       [] r.workflow = "process" -> r.output /\ (r.env \/ r.store)
       [] r.workflow = "both" -> r.store /\ r.output /\ r.host /\ r.job
       [] OTHER -> FALSE

\* OnboardingReadiness::can_enter_application
OutputReady(r) == r.output /\ (r.env \/ ~r.secret \/ r.store)
CanEnter(r) ==
  \/ IsComplete(r)
  \/ /\ r.deferred /\ r.user /\ ~r.host
     /\ r.workflow = "collect" \/ (r.workflow = "both" /\ OutputReady(r))

\* defer_collection: what must hold before the source may be put off.
MayDefer(r) ==
  /\ r.user /\ ~r.host
  /\ r.workflow = "collect" \/ (r.workflow = "both" /\ OutputReady(r))

\* journey_model: the stage the onboarding page shows.
Stage(r) ==
  IF ~r.user \/ r.workflow = None THEN "identity"
  ELSE IF Processes(r.workflow) /\ ~r.output THEN "output"
  ELSE IF Collects(r.workflow) /\ ~r.host /\ ~r.deferred THEN "collection"
  ELSE IF Collects(r.workflow) /\ r.host /\ ~r.job THEN "job"
  ELSE "complete"

(* ------------------------------ host manager ------------------------------ *)
\* diagnostic_cluster_row: a pair of hosts shown as one cluster.
IsCluster(hs, n) ==
  /\ Is(hs, n, "es") /\ Has(hs, n, "send") /\ n \in Clusters
  /\ hs[n].viewer = KibanaOf[n] /\ Is(hs, KibanaOf[n], "kb") /\ Has(hs, KibanaOf[n], "view")
  /\ hs[n].secret = hs[KibanaOf[n]].secret

\* read_host_and_cluster_rows: the names of the rows, in order.
InOrder(S) == SelectSeq(NameOrder, LAMBDA n : n \in S)
ClusterRows(hs) == InOrder({n \in DOMAIN hs : IsCluster(hs, n)})
HostRows(hs) == InOrder({n \in DOMAIN hs : ~IsCluster(hs, n)
                           /\ ~\E c \in Clusters : c \in DOMAIN hs /\ IsCluster(hs, c) /\ KibanaOf[c] = n})
=============================================================================
