------------------------------ MODULE MCWorkspace ------------------------------
\* Two clusters, "a" and "b", each with the name its Kibana would have.
EXTENDS Workspace

MCNames == <<"a", "a-kb", "b", "b-kb">>
MCKibanaOf == [c \in {"a", "b"} |-> IF c = "a" THEN "a-kb" ELSE "b-kb"]

H(app, roles, viewer) == [app |-> app, roles |-> roles, viewer |-> viewer, url |-> "u1", secret |-> FALSE]
MCForms == {H("es", {"collect"}, None), H("es", {"send"}, "a-kb")}

Config(wf, o, ctx, defer, job) ==
  [user |-> wf # None, workflow |-> wf, output |-> o, context |-> ctx, deferred |-> defer, job |-> job]
W(hs, js, c, act, st, env, rc) ==
  [hosts |-> hs, jobs |-> js, config |-> c, active |-> act, store |-> st, world |-> [env |-> env, rc |-> rc]]

Nothing == <<>>
ClusterA == [n \in {"a", "a-kb"} |-> IF n = "a" THEN H("es", {"send"}, "a-kb") ELSE H("kb", {"view"}, None)]
Source == Put(ClusterA, "b", H("es", {"collect"}, None))
Two == Put(Put(Nothing, "a", H("es", {"collect"}, None)), "b", H("es", {"collect"}, None))

\* A fresh machine; a finished onboarding; two sources; a deferred source
\* next to an Elastic CLI context; an output in the environment, with its
\* Kibana and without; an output without a keystore, and a job that is not
\* needed; a Kibana with the name of a cluster; a workspace of the release
\* before esdiag.yml.
MCSeeds ==
  {W(Nothing, Nothing, Config(None, None, FALSE, FALSE, None), None, FALSE, "none", "none"),
   W(Source, [j \in {<<"b", "a">>} |-> [host |-> "b", export |-> "a"]],
     Config("both", "a", FALSE, FALSE, <<"b", "a">>), None, TRUE, "none", "none"),
   W(Two, [j \in {<<"a">>} |-> [host |-> "a", export |-> "none"]],
     Config("collect", None, FALSE, FALSE, <<"a">>), None, FALSE, "none", "none"),
   W(ClusterA, Nothing, Config("both", "a", TRUE, TRUE, None), None, TRUE, "none", "es"),
   W(Nothing, Nothing, Config("process", None, FALSE, FALSE, None), None, FALSE, "full", "none"),
   W(ClusterA, Nothing, Config("both", "a", FALSE, FALSE, None), None, FALSE, "es", "none"),
   W(ClusterA, [j \in {<<"a">>} |-> [host |-> "a", export |-> "none"]],
     Config("process", "a", FALSE, FALSE, <<"a">>), None, FALSE, "none", "none"),
   W([n \in {"a", "b"} |-> IF n = "b" THEN H("es", {"send"}, "a") ELSE H("kb", {"view"}, None)], Nothing,
     Config("process", "b", FALSE, FALSE, None), None, TRUE, "none", "none"),
   W(ClusterA, Nothing, Config(None, None, FALSE, FALSE, None), "a", FALSE, "none", "none")}

\* Three sources with a row each, one of them called like the Kibana of "a".
Three == [n \in {"a", "a-kb", "b"} |-> H("es", {"collect"}, None)]
MCThree == {W(Three, Nothing, Config("collect", None, FALSE, FALSE, None), None, FALSE, "none", "none")}

\* The wizard has some twenty-five steps and dozens of answers: its output is
\* called "a", and of the handlers that may overlap it only the switch of the
\* output is taken.
WizardCompany ==
  \A c \in Cli : Running(c) /\ proc[c].op = "init" =>
    proc[c].name \in {None, "a"} /\ \A w \in Web : Running(w) => proc[w].op = "settings"

\* A command is cut off while no other runs; another may follow. The second
\* browser is used while the first one waits for an answer. The host manager
\* is open in the workspace that only collects, where both hosts have a row.
Bounded ==
  /\ losses' = losses \/ Cardinality({a \in Actors : Running(a)}) = 1
  /\ "w2" \in Web /\ ~Running("w2") /\ (proc'["w2"].op # "idle" \/ page'["w2"] # page["w2"]) => Running("w1")
  /\ \A w \in Web : page[w] = <<>> /\ page'[w] # <<>> => config.workflow = "collect"
=============================================================================
