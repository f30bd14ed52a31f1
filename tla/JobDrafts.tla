------------------------------- MODULE JobDrafts -------------------------------
(* Saved jobs as they are authored (data/saved_jobs.rs, job/mod.rs): the draft   *)
(* of the web form and the job it compiles to and is drawn from, the jobs the   *)
(* command line derives with --save-job (main.rs), and the file, whose first    *)
(* format is rewritten when it is read. Texts are names; " " is a blank one.    *)
(* `world` has the names of the saved hosts and of the existing directories.    *)
EXTENDS Naturals, Sequences, FiniteSets
\* The sources a selection resolves to, or Unresolved (ApiResolver).
CONSTANT ResolveProcessing(_, _, _)
Model == INSTANCE JobModel

Unresolved == <<"error">>
Blank(text) == text \in {"", " "}
Err == [error |-> TRUE]
IsErr(x) == "error" \in DOMAIN x

(* ---------------------------------- the job -------------------------------- *)
NoProcess == [on |-> FALSE]
NoSelection == [explicit |-> FALSE]
Export(kind, at) == [kind |-> kind, at |-> at]
Process(export, selection) == [on |-> TRUE, export |-> export, selection |-> selection]

\* save is "none", "temporary" or <<directory>>; send is "" or an upload id.
Job(host, type, save, process, send) == [host |-> host, type |-> type, save |-> save, process |-> process, send |-> send]
Retained(dir) == <<dir>>
Temporary == <<>>
NoSave == <<"none", "none">>

\* Job::try_new of a collecting job.
Shape(j) ==
  [input |-> IF Blank(j.host) THEN "CollectNoHost" ELSE "Collect",
   save |-> IF j.save = NoSave THEN "None" ELSE IF j.save = Temporary THEN "Temporary" ELSE "Retained",
   process |-> IF j.process.on THEN "Stable" ELSE "None", send |-> j.send # ""]
Build(j) == IF Model!TryNew(Shape(j)) = "Ok" THEN j ELSE Err

ReferencedHosts(j) ==
  {j.host} \cup (IF j.process.on THEN IF j.process.export.kind = "host" THEN {j.process.export.at} ELSE {} ELSE {})

(* --------------------------------- the builder ----------------------------- *)
\* HostReference::parse: a saved name, or nothing.
CollectFrom(host, world) == host \in world.hosts
CollectTo(host, type, saveDir, dir) ==
  IF dir = "" \/ saveDir # "" THEN Err ELSE Build(Job(host, type, Retained(dir), NoProcess, ""))
SendTo(host, type, saveDir, id) ==
  IF Blank(id) THEN Err
  ELSE Build(Job(host, type, IF saveDir # "" THEN Retained(saveDir) ELSE Temporary, NoProcess, id))
ProcessTo(host, type, saveDir, export, selection) ==
  Build(Job(host, type, IF saveDir # "" THEN Retained(saveDir) ELSE NoSave, Process(export, selection), ""))
ProcessAndSendTo(host, type, saveDir, export, selection, id) ==
  IF Blank(id) THEN Err
  ELSE Build(Job(host, type, IF saveDir # "" THEN Retained(saveDir) ELSE Temporary, Process(export, selection), id))

FromCliTarget(text, world) ==
  IF text \in world.hosts THEN Export("host", text)
  ELSE IF text = "-" THEN Export("stdout", "-")
  ELSE IF text \in world.dirs THEN Export("directory", text)
  ELSE IF text \in world.urls THEN Err
  ELSE Export("file", text)

(* ---------------------------------- the draft ------------------------------ *)
DefaultDraft ==
  [mode |-> "collect", source |-> "known-host", host |-> "", type |-> "standard", save |-> FALSE, dir |-> "",
   process |-> "process", enabled |-> TRUE, product |-> "elasticsearch", ptype |-> "standard", selected |-> <<>>,
   send |-> "remote", remote |-> "", local |-> "", localDir |-> "", raw |-> "", rawLocal |-> FALSE]

TargetAvailability(d) ==
  [processed |-> d.enabled /\ d.process = "process", raw |-> d.mode = "upload" \/ d.save]

NormalizeTargets(d) ==
  LET raw == IF Blank(d.raw) THEN "" ELSE d.raw
      moved == IF ~d.enabled /\ d.process = "forward" /\ d.send = "remote" /\ raw = ""
               THEN IF Blank(d.remote) THEN "" ELSE d.remote ELSE raw
      kept == [d EXCEPT !.raw = moved, !.save = @ \/ (d.rawLocal /\ d.mode = "collect")]
      a == TargetAvailability(kept)
      shown == IF a.processed THEN kept ELSE [kept EXCEPT !.remote = "", !.local = "", !.localDir = ""]
  IN IF a.raw THEN shown ELSE [shown EXCEPT !.raw = "", !.rawLocal = FALSE]

FromSignalsSend(d, world) ==
  IF d.send = "remote"
  THEN IF d.remote \in world.hosts THEN Export("host", d.remote) ELSE Err
  ELSE IF d.local = "directory"
  THEN IF Blank(d.localDir) THEN Err ELSE Export("directory", d.localDir)
  ELSE IF Blank(d.local) THEN Err ELSE FromCliTarget(d.local, world)

IntermediateDownloadDir(d) == IF d.save /\ ~Blank(d.dir) THEN d.dir ELSE ""

ExplicitProcessSelection(d) ==
  IF d.selected = <<>> /\ d.product = "elasticsearch" /\ d.ptype = "standard" THEN NoSelection
  ELSE LET resolved == ResolveProcessing(d.product, d.ptype, d.selected)
       IN IF resolved = Unresolved THEN Err
          ELSE [explicit |-> TRUE, product |-> d.product, type |-> d.ptype, selected |-> resolved]

CompileProcess(d, world) ==
  LET export == FromSignalsSend(d, world)
      selection == ExplicitProcessSelection(d)
      dir == IntermediateDownloadDir(d)
  IN IF IsErr(export) \/ IsErr(selection) THEN Err
     ELSE IF d.raw # "" THEN ProcessAndSendTo(d.host, d.type, dir, export, selection, d.raw)
     ELSE ProcessTo(d.host, d.type, dir, export, selection)

CompileSend(d) == SendTo(d.host, d.type, IntermediateDownloadDir(d), IF d.raw # "" THEN d.raw ELSE d.remote)

CompileCollect(d) ==
  LET dir == IF d.save /\ ~Blank(d.dir) THEN d.dir
             ELSE IF d.local = "directory" /\ ~Blank(d.localDir) THEN d.localDir ELSE ""
  IN IF dir = "" THEN Err ELSE CollectTo(d.host, d.type, "", dir)

FromSignals(draft, world) ==
  LET d == NormalizeTargets(draft)
  IN IF d.mode # "collect" \/ d.source # "known-host" \/ ~CollectFrom(d.host, world) THEN Err
     ELSE IF d.enabled /\ d.process = "process" THEN CompileProcess(d, world)
     ELSE IF d.process = "forward" /\ d.send = "remote" THEN CompileSend(d)
     ELSE CompileCollect(d)

ApplyToSignals(export, d) ==
  CASE export.kind = "host" -> [d EXCEPT !.send = "remote", !.remote = export.at]
    [] export.kind = "environment" -> [d EXCEPT !.send = "remote", !.remote = ""]
    [] export.kind = "directory" -> [d EXCEPT !.send = "local", !.local = "directory", !.localDir = export.at]
    [] OTHER -> [d EXCEPT !.send = "local", !.local = export.at]

ToSignals(j) ==
  LET dir == IF j.save \in {NoSave, Temporary} THEN "" ELSE j.save[1]
      base == [DefaultDraft EXCEPT !.host = j.host, !.type = j.type, !.save = dir # "", !.dir = dir, !.raw = j.send]
      forward == [base EXCEPT !.enabled = FALSE, !.process = "forward"]
      s == j.process.selection
  IN IF j.process.on
     THEN ApplyToSignals(j.process.export,
            IF s.explicit THEN [base EXCEPT !.product = s.product, !.ptype = s.type, !.selected = s.selected] ELSE base)
     ELSE IF j.send # "" THEN [forward EXCEPT !.remote = j.send]
     ELSE [forward EXCEPT !.send = "local", !.local = "directory", !.localDir = dir]

\* The targets of a draft agree with each other, and once they do they stay; what
\* is compiled processes or sends only what the form showed as available; and the
\* job, drawn in the form again and compiled, is the same job. Left out, as the
\* README says: a temporary bundle, which the form cannot show, and a path that
\* now names a host or a directory.
DraftMeansJob(draft, world) ==
  LET d == NormalizeTargets(draft)
      j == FromSignals(draft, world)
      a == TargetAvailability(d)
  IN /\ NormalizeTargets(d) = d /\ FromSignals(d, world) = j
     /\ d.raw # "" \/ d.rawLocal => a.raw
     /\ d.remote # "" \/ d.local # "" => a.processed
     /\ ~IsErr(j) =>
          /\ j.process.on <=> a.processed
          /\ j.send # "" => a.raw /\ j.send \in {draft.raw, draft.remote}
          /\ draft.rawLocal /\ ~Blank(draft.dir) => j.save = Retained(draft.dir)
          /\ j.save # Temporary => FromSignals(ToSignals(j), world) = j

(* ------------------------------ jobs of the command line -------------------- *)
DeriveCollectJob(host, output, type, sendId, world) ==
  IF ~CollectFrom(host, world) THEN Err
  ELSE IF sendId # "none" THEN SendTo(host, type, "", sendId) ELSE CollectTo(host, type, "", output)

\* Without an output: the context of the configuration, or its default.
DeriveProcessJob(input, output, config, world) ==
  LET export == IF output # "none" THEN FromCliTarget(output, world)
                ELSE IF config.context # "" THEN Export("host", config.context)
                ELSE IF config.default # "" THEN Export("host", config.default) ELSE Err
  IN IF IsErr(export) \/ ~CollectFrom(input, world) THEN Err ELSE ProcessTo(input, "standard", "", export, NoSelection)

\* What `process` itself writes to; the environment is looked at in between.
ProcessTarget(output, config, env, world) ==
  IF output # "none" THEN FromCliTarget(output, world)
  ELSE IF config.context # "" THEN Export("host", config.context)
  ELSE IF env # "" THEN Export("environment", env)
  ELSE IF config.default # "" THEN Export("host", config.default) ELSE Err

\* A job saved by a command does what the command does: the same host, and the
\* same bundle or the same documents. Left out, as the README says: the directory
\* of a collection that is also sent, and an output taken from the environment.
SavedLikeTheRun(host, output, sendId, config, env, world) ==
  LET c == DeriveCollectJob(host, output, "light", sendId, world)
      p == DeriveProcessJob(host, output, config, world)
      t == ProcessTarget(output, config, env, world)
  IN /\ ~IsErr(c) => /\ c.host = host /\ c.type = "light" /\ ~c.process.on
                     /\ IF sendId = "none" THEN c.save = Retained(output) ELSE c.send = sendId
     /\ ~IsErr(p) => /\ ~IsErr(t) /\ p.host = host /\ p.send = "" /\ p.save = NoSave
                     /\ p.process.export = t \/ (output = "none" /\ t.kind = "environment")

(* ----------------------------------- the file ------------------------------ *)
\* A file: absent, blank, or a mapping. version is "absent", "mapping" (a job of
\* the first format that has this name), "bad", or a number; hasJobs says that it
\* has the key `jobs`; entries has the jobs, in the format of the version.
SchemaVersion(file) ==
  CASE file.version = "absent" -> "legacy"
    [] file.version = "mapping" -> IF file.hasJobs THEN "error" ELSE "legacy"
    [] file.version = "bad" -> "error"
    [] OTHER -> file.version

CanonicalizeLegacySelection(s) ==
  IF ~s.explicit THEN s
  ELSE LET resolved == ResolveProcessing(s.product, s.type, s.selected)
       IN [s EXCEPT !.selected = IF resolved = Unresolved THEN s.selected ELSE resolved]

\* A job of the first format: one action, with a directory for its bundle.
MigrateJob(old) ==
  LET kept(otherwise) == IF old.dir # "" THEN Retained(old.dir) ELSE otherwise
  IN Build(CASE old.action = "collect" -> Job(old.host, old.type, Retained(old.at), NoProcess, "")
             [] old.action = "upload" -> Job(old.host, old.type, kept(Temporary), NoProcess, old.at)
             [] OTHER -> Job(old.host, old.type, kept(NoSave),
                             Process(Export("host", old.at), CanonicalizeLegacySelection(old.selection)), ""))

\* What is read, and the file as it is left.
LoadSavedJobs(file) ==
  LET version == SchemaVersion(file)
      jobs == [n \in DOMAIN file.entries |-> MigrateJob(file.entries[n])]
  IN IF file.kind \in {"absent", "blank"} THEN [jobs |-> <<>>, file |-> file, ok |-> TRUE]
     ELSE IF version = "legacy"
     THEN IF \E n \in DOMAIN jobs : IsErr(jobs[n]) THEN [jobs |-> <<>>, file |-> file, ok |-> FALSE]
          ELSE [jobs |-> jobs, ok |-> TRUE,
                file |-> IF DOMAIN jobs = {} THEN file ELSE [kind |-> "mapping", version |-> "2", hasJobs |-> TRUE, entries |-> jobs]]
     ELSE IF version = "2" THEN [jobs |-> file.entries, file |-> file, ok |-> TRUE]
     ELSE [jobs |-> <<>>, file |-> file, ok |-> FALSE]

\* Job names become parts of a path.
ValidateSavedJobName(name) == ~Blank(name) /\ name # "a/b"

\* save_job of a checked job; the name is trimmed when it is stored.
SaveJob(file, name, stored, job) ==
  LET loaded == LoadSavedJobs(file)
      jobs == [n \in DOMAIN loaded.jobs \cup {stored} |-> IF n = stored THEN job ELSE loaded.jobs[n]]
  IN IF ~ValidateSavedJobName(name) \/ ~Model!Persistable(Shape(job)) \/ ~loaded.ok THEN [ok |-> FALSE, file |-> loaded.file]
     ELSE [ok |-> TRUE, file |-> [kind |-> "mapping", version |-> "2", hasJobs |-> TRUE, entries |-> jobs]]

HandleJobDelete(file, name) ==
  LET loaded == LoadSavedJobs(file)
  IN IF ~loaded.ok \/ name \notin DOMAIN loaded.jobs THEN [ok |-> FALSE, file |-> loaded.file]
     ELSE [ok |-> TRUE, file |-> [kind |-> "mapping", version |-> "2", hasJobs |-> TRUE,
                                  entries |-> [n \in DOMAIN loaded.jobs \ {name} |-> loaded.jobs[n]]]]

\* Reading the first format loses no job that could run, keeps what each does, and
\* leaves a file that reads the same again; a file that is not understood is left
\* as it is by every operation; saving and deleting touch one job.
FileKeepsJobs(file, name, job) ==
  LET loaded == LoadSavedJobs(file)
      again == LoadSavedJobs(loaded.file)
      saved == SaveJob(file, name, name, job)
      deleted == HandleJobDelete(saved.file, name)
  IN /\ again.ok = loaded.ok /\ again.jobs = loaded.jobs /\ again.file = loaded.file
     /\ ~loaded.ok => saved.file = file /\ HandleJobDelete(file, name).file = file
     /\ file.kind = "mapping" /\ SchemaVersion(file) = "legacy" /\ (\A n \in DOMAIN file.entries : ~Blank(file.entries[n].host)) =>
          /\ loaded.ok /\ DOMAIN loaded.jobs = DOMAIN file.entries
          /\ \A n \in DOMAIN file.entries :
               LET old == file.entries[n]
                   new == loaded.jobs[n]
               IN /\ new.host = old.host /\ new.process.on = (old.action = "process")
                  /\ new.send = IF old.action = "upload" THEN old.at ELSE ""
                  /\ old.action = "process" =>
                       /\ old.at \in ReferencedHosts(new) /\ new.process.selection.explicit = old.selection.explicit
                       /\ old.selection.explicit => new.process.selection.selected # Unresolved
                  /\ old.action # "collect" /\ old.dir # "" => new.save = Retained(old.dir)
     /\ saved.ok => /\ LoadSavedJobs(saved.file).jobs[name] = job
                    /\ \A n \in DOMAIN loaded.jobs \ {name} : LoadSavedJobs(saved.file).jobs[n] = loaded.jobs[n]
                    /\ deleted.ok /\ DOMAIN LoadSavedJobs(deleted.file).jobs = DOMAIN loaded.jobs \ {name}
===============================================================================
