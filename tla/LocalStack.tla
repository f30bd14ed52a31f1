----------------------------- MODULE LocalStack -----------------------------
(* `esdiag local`: the commands of src/local.rs that create, upgrade, stop    *)
(* and reset the local Elasticsearch, Kibana and ESDiag stack.                *)
(*                                                                            *)
(* The stack's state is spread over files of the state directory (.env,       *)
(* compose.yml and the three .native-serve files), the volumes and containers *)
(* of the runtime, and the native web service, a detached process. A command  *)
(* reads .env once, works on the copy and touches the rest step by step. Any  *)
(* step can fail, and the user can cut a command off between two of them; the *)
(* next command, perhaps of another binary, starts from what is left.         *)
(* Commands of one state directory run one after the other.                   *)
EXTENDS Integers, FiniteSets, TLC

CONSTANTS
  MaxVersion,  \* Elastic versions that binaries pin are 1 .. MaxVersion
  Pids,        \* process ids of the machine
  MaxSecrets,  \* bound: passwords and API keys in existence at a time
  MaxStarts,   \* bound: start times in existence at a time
  MaxCuts      \* bound: commands that fail or are cut off

ASSUME BoundsAssumption ==
  /\ MaxVersion \in Nat \ {0} /\ MaxSecrets \in Nat /\ MaxStarts \in Nat /\ MaxCuts \in Nat
ASSUME PidsAssumption == Pids # {} /\ "none" \notin Pids

\* Process ids are alike.
Symmetry == Permutations(Pids)

VARIABLES
  env,       \* .env: whether it exists and its values
  compose,   \* compose.yml: the mode it was written for, or "none"
  files,     \* .native-serve.pid and .binary/.started; "none" and 0 without
  volumes,   \* the data of Elasticsearch and Kibana, and the volume esdiag-data
  running,   \* containers: the Elastic version (0: down) and the esdiag service
  keys,      \* API keys the cluster knows
  procs,     \* processes of the machine
  cmd,       \* the command that runs, or how the last one ended
  cut,       \* history: where commands ended early, "env" in a write of .env,
             \* "record" before the native service was recorded, "reset" between
             \* the volumes and the directory, "switch" on the way to a new mode
  cuts       \* commands that failed or were cut off

disk == <<env, compose, files>>
world == <<volumes, running, keys>>
history == <<cut, cuts>>
vars == <<env, compose, files, volumes, running, keys, procs, cmd, cut, cuts>>

----------------------------------------------------------------------------
(* State                                                                      *)

Versions == 1 .. MaxVersion
Modes == {"core", "full"}
Pending == 1       \* ESDIAG_OUTPUT_APIKEY=pending; 0 is no key, 2 and up are keys

\* The values of .env that commands decide by; ports, images and log level
\* come and go with the versions.
Blank == [mode |-> "none", password |-> 0, apikey |-> 0, elastic |-> 0]
Values == [mode : Modes \cup {"none"}, password : 0 .. MaxSecrets,
           apikey : 0 .. MaxSecrets + 1, elastic : 0 .. MaxVersion]

NoVolumes == [elastic |-> 0, password |-> 0, esdiag |-> FALSE]
NoContainers == [elastic |-> 0, esdiag |-> FALSE]
NoFiles == [pid |-> "none", started |-> 0]
NoProcess == [kind |-> "none", started |-> 0, term |-> FALSE]

Idle == [pc |-> "idle", name |-> "none", val |-> Blank, has |-> FALSE,
         bin |-> 1, auto |-> FALSE, mode |-> "none", native |-> FALSE, prev |-> Blank, child |-> "none", since |-> 0,
         then |-> "none"]

Alive(p) == procs[p].kind # "none"

\* StackMode::Auto keeps the recorded mode; state without a record is full.
ResolveMode(requested, val, has) ==
  IF requested # "auto" THEN requested
  ELSE IF val.mode # "none" THEN val.mode
  ELSE IF has THEN "full" ELSE "core"
ActiveMode(val, has) == ResolveMode("auto", val, has)

\* validate_state_coupling: no volumes without .env, no key without volumes.
Coupled(val, has) ==
  IF has THEN val.apikey > Pending => volumes.elastic > 0
  ELSE volumes = NoVolumes

\* Mutant: the id is enough.
MatchesPid == files.pid # "none" /\ Alive(files.pid)

\* native_service_state: a process with the recorded id runs our binary's
\* `serve` and started at the recorded time. Another service of the same binary
\* looks the same in every respect but the last.
Matches ==
  /\ files.pid # "none" /\ files.started # 0
  /\ Alive(files.pid)
  /\ procs[files.pid].started = files.started

\* Passwords and start times that nothing holds any more are used again.
FreshPassword == (1 .. MaxSecrets) \ {env.val.password, volumes.password, cmd.val.password, cmd.prev.password}
FreshStart == (1 .. MaxStarts) \ ({procs[p].started : p \in Pids} \cup {files.started, cmd.since})

ComposeWorks == env.on /\ compose # "none"

----------------------------------------------------------------------------
(* Commands: where they start, go on and end                                  *)

At(pc) == cmd.pc = pc
Goto(pc) == cmd' = [cmd EXCEPT !.pc = pc]
\* How a command that takes things away ended is kept for the properties.
End(result) ==
  cmd' = IF result = "ok" /\ cmd.name \in {"down", "reset"} THEN [Idle EXCEPT !.name = cmd.name] ELSE Idle

\* run and LocalState::load: the options are parsed and .env is read.
Begin(name, bin, first) ==
  /\ At("idle")
  /\ cmd' = [Idle EXCEPT !.pc = first, !.name = name, !.val = env.val, !.has = env.on, !.bin = bin]
  /\ UNCHANGED <<disk, world, procs, history>>

Marks ==
  {m \in {"record", "reset", "switch"} :
     CASE m = "record" -> cmd.pc \in {"write_pid", "write_started"}
       [] m = "reset" -> cmd.pc = "remove_dir"
       [] m = "switch" -> cmd.name = "up" /\ ~At("prepare") /\ cmd.val.mode # cmd.mode}

\* A step fails (no runtime, compose, HTTP, a write or a wait that times out),
\* or the command is cut off. What it did so far stays.
Abort ==
  /\ ~At("idle") /\ cuts < MaxCuts
  /\ cuts' = cuts + 1
  /\ End("err")
  /\ cut' = cut \cup Marks
  /\ UNCHANGED <<disk, world, procs>>

\* write_private truncates the file before it writes: a cut leaves it empty.
TearEnv ==
  /\ cmd.pc \in {"write", "write_key", "write_mode", "write_level", "record_versions", "restore_versions"}
  /\ env' = [on |-> TRUE, val |-> Blank]
  /\ cut' = cut \cup {"env"} \cup Marks
  /\ End("err")
  /\ cuts < MaxCuts /\ cuts' = cuts + 1
  /\ UNCHANGED <<compose, files, world, procs>>

\* What a command refuses before it changes anything.
Refuse ==
  /\ \/ At("prepare") /\ ~Coupled(cmd.val, cmd.has)
     \/ At("setup_prepare") /\ ~Coupled(cmd.val, cmd.has)
     \/ At("check_upgrade") /\ (~cmd.has \/ cmd.val.elastic > cmd.bin)
     \/ At("approved") /\ ~Coupled(cmd.val, cmd.has)
     \/ cmd.pc \in {"start", "setup", "start_esdiag", "compose_down", "reset_down", "recreate"} /\ ~ComposeWorks
     \/ cmd.pc \in {"start_esdiag", "recreate"} /\ cmd.then = "esdiag" /\ compose = "core"
     \/ cmd.pc \in {"security", "setup"} /\ running.elastic = 0
     \/ At("wait_elasticsearch") /\ (running.elastic = 0 \/ volumes.password # cmd.val.password)
     \/ At("wait_esdiag") /\ cmd.mode = "core" /\ procs[cmd.child].kind # "native"
     \/ At("recreate") /\ env.val.elastic = 0
     \/ At("signal") /\ procs[files.pid].kind # "native"
  /\ End("err")
  /\ cut' = cut \cup Marks
  /\ UNCHANGED <<disk, world, procs, cuts>>

----------------------------------------------------------------------------
(* up: from the files to Elasticsearch and its credentials                    *)

\* Mutant: initialize pins the versions of the running binary.
InitializedAnew(val, bin, fresh) ==
  [val EXCEPT !.password = IF @ = 0 THEN fresh ELSE @,
              !.apikey = IF @ = 0 THEN Pending ELSE @,
              !.elastic = bin]

\* initialize fills in what is missing and keeps every recorded value.
Initialized(val, bin, fresh) ==
  [val EXCEPT !.password = IF @ = 0 THEN fresh ELSE @,
              !.apikey = IF @ = 0 THEN Pending ELSE @,
              !.elastic = IF @ = 0 THEN bin ELSE @]

\* up: the mode and the options. native: --start-native-service.
Up(bin, stack, native) ==
  /\ At("idle")
  /\ cmd' = [Idle EXCEPT !.pc = "prepare", !.name = "up", !.val = env.val, !.has = env.on, !.bin = bin,
                         !.mode = ResolveMode(stack, env.val, env.on), !.auto = stack = "auto", !.native = native]
  /\ UNCHANGED <<disk, world, procs, history>>

\* up_inner up to initialize, which writes compose.yml; .env comes later.
Prepare ==
  /\ At("prepare") /\ Coupled(cmd.val, cmd.has)
  /\ compose' = cmd.mode
  /\ cmd.val.password = 0 => FreshPassword # {}
  /\ LET fresh == CHOOSE p \in FreshPassword : TRUE IN
     cmd' = [cmd EXCEPT !.pc = "write", !.val = Initialized(@, cmd.bin, fresh)]
  /\ UNCHANGED <<env, files, world, procs, history>>

\* write, then the previous full-mode stack is stopped before a core one.
WriteEnv ==
  /\ At("write")
  /\ env' = [on |-> TRUE, val |-> cmd.val]
  /\ Goto(IF cmd.has /\ ActiveMode(cmd.val, cmd.has) = "full" /\ cmd.mode = "core"
          THEN "stop_full" ELSE "start")
  /\ UNCHANGED <<compose, files, world, procs, history>>

\* Mutant: down without --remove-orphans.
StopFullDefined ==
  /\ At("stop_full")
  /\ running' = [NoContainers EXCEPT !.esdiag = running.esdiag]
  /\ Goto("start")
  /\ UNCHANGED <<disk, volumes, keys, procs, history>>

\* down --remove-orphans: the esdiag container goes although compose.yml has
\* no such service any more.
StopFull ==
  /\ At("stop_full")
  /\ running' = NoContainers
  /\ Goto("start")
  /\ UNCHANGED <<disk, volumes, keys, procs, history>>

\* Compose reads the images and the password from .env. The first start sets
\* the volume up with them; data of a newer version does not start.
StartElastic ==
  /\ LET v == env.val.elastic IN
     IF volumes.elastic = 0
     THEN /\ volumes' = [volumes EXCEPT !.elastic = v, !.password = env.val.password]
          /\ running' = [running EXCEPT !.elastic = v]
     ELSE /\ volumes' = [volumes EXCEPT !.elastic = IF v >= @ THEN v ELSE @]
          /\ running' = [running EXCEPT !.elastic = IF v >= volumes.elastic THEN v ELSE 0]
  /\ UNCHANGED keys

\* pull, then up -d elasticsearch kibana.
Start ==
  /\ At("start") /\ ComposeWorks
  /\ StartElastic
  /\ Goto("wait_elasticsearch")
  /\ UNCHANGED <<disk, procs, history>>

\* wait_url_for_startup retries a rejected password until it times out.
WaitElasticsearch ==
  /\ At("wait_elasticsearch")
  /\ running.elastic > 0 /\ volumes.password = cmd.val.password
  /\ Goto("security")
  /\ UNCHANGED <<disk, world, procs, history>>

\* configure_security mints a key when none is recorded, in memory first.
ConfigureSecurity ==
  /\ At("security") /\ running.elastic > 0
  /\ IF cmd.val.apikey = Pending
     THEN LET k == Cardinality(keys) + Pending + 1 IN
          /\ Cardinality(keys) < MaxSecrets
          /\ keys' = keys \cup {k}
          /\ cmd' = [cmd EXCEPT !.pc = "write_key", !.val.apikey = k]
     ELSE keys' = keys /\ Goto("write_key")
  /\ UNCHANGED <<disk, volumes, running, procs, history>>

WriteKey ==
  /\ At("write_key")
  /\ env' = [on |-> TRUE, val |-> cmd.val]
  /\ Goto("setup")
  /\ UNCHANGED <<compose, files, world, procs, history>>

\* wait_kibana and setup_mode; then the web service of the mode. Without
\* --start-native-service a core stack is done.
SetupMode ==
  /\ At("setup") /\ ComposeWorks /\ running.elastic > 0
  /\ cmd.mode = "full" => compose = "full"
  /\ IF cmd.name = "setup" THEN End("ok")
     ELSE IF cmd.mode = "full"
     THEN cmd' = [cmd EXCEPT !.pc = "kill", !.then = "start_esdiag"]
     ELSE IF cmd.native THEN cmd' = [cmd EXCEPT !.pc = "kill", !.then = "spawn"]
     ELSE Goto("write_mode")
  /\ UNCHANGED <<disk, world, procs, history>>

StartEsdiag ==
  /\ At("start_esdiag") /\ ComposeWorks /\ compose = "full"
  /\ running' = [running EXCEPT !.esdiag = TRUE]
  /\ volumes' = [volumes EXCEPT !.esdiag = TRUE]
  /\ Goto("wait_esdiag")
  /\ UNCHANGED <<disk, keys, procs, history>>

\* Ready when the port answers and, in core mode, the child still runs. Who
\* answers is not asked: it may be a service that was told to stop.
WaitEsdiag ==
  /\ At("wait_esdiag")
  /\ IF cmd.mode = "full" THEN running.esdiag
     ELSE procs[cmd.child].kind = "native"
  /\ Goto("write_mode")
  /\ UNCHANGED <<disk, world, procs, history>>

\* Only now is the mode recorded.
WriteMode ==
  /\ At("write_mode")
  /\ env' = [on |-> TRUE, val |-> [cmd.val EXCEPT !.mode = cmd.mode]]
  /\ End("ok")
  /\ UNCHANGED <<compose, files, world, procs, history>>

----------------------------------------------------------------------------
(* The native web service                                                     *)

\* stop_native_service looks whether the recorded process is there, with `ps`.
\* What it saw, the process of files.pid and its start time, stays in cmd.
Kill ==
  /\ At("kill")
  /\ IF Matches
     THEN cmd' = [cmd EXCEPT !.pc = "signal", !.since = procs[files.pid].started]
     ELSE Goto(IF files.pid = "none" THEN cmd.then ELSE "unlink")
  /\ UNCHANGED <<disk, world, procs, history>>

\* `kill -TERM` comes later and goes by the id: whoever has it by now is told to
\* stop, and nobody waits for it. Without a process of the id, or with another
\* user's, the command ends (Refuse).
Signal ==
  /\ At("signal") /\ Alive(files.pid)
  /\ procs' = [procs EXCEPT ![files.pid].term = TRUE]
  /\ cmd' = [cmd EXCEPT !.pc = "unlink", !.since = 0]
  /\ UNCHANGED <<disk, world, history>>

\* The pid file goes; a failure to remove the other two is ignored.
Unlink ==
  /\ At("unlink")
  /\ \E left \in {0, files.started} : files' = [pid |-> "none", started |-> left]
  /\ Goto(cmd.then)
  /\ UNCHANGED <<env, compose, world, procs, history>>

\* start_native_service after the old one was told to stop.
Spawn ==
  /\ At("spawn") /\ FreshStart # {}
  /\ \E p \in Pids :
       /\ ~Alive(p)
       /\ procs' = [procs EXCEPT ![p] = [NoProcess EXCEPT !.kind = "native",
                                                          !.started = CHOOSE t \in FreshStart : TRUE]]
       /\ cmd' = [cmd EXCEPT !.pc = "write_pid", !.child = p, !.since = CHOOSE t \in FreshStart : TRUE]
  /\ UNCHANGED <<disk, world, history>>

\* check_native_child and process_start_time: a child that is gone is an error.
ChildGone ==
  /\ At("write_pid") /\ procs[cmd.child].kind # "native"
  /\ End("err")
  /\ cut' = cut \cup (Marks \ {"record"})
  /\ UNCHANGED <<disk, world, procs, cuts>>

WritePid ==
  /\ At("write_pid") /\ procs[cmd.child].kind = "native"
  /\ files' = [files EXCEPT !.pid = cmd.child]
  /\ Goto("write_started")
  /\ UNCHANGED <<env, compose, world, procs, history>>

\* .binary and .started; the start time was read before the pid was written.
WriteStarted ==
  /\ At("write_started")
  /\ files' = [files EXCEPT !.started = cmd.since]
  /\ IF cmd.name = "restart" THEN End("ok") ELSE Goto("wait_esdiag")
  /\ UNCHANGED <<env, compose, world, procs, history>>

----------------------------------------------------------------------------
(* upgrade                                                                    *)

Upgrade(bin) == Begin("upgrade", bin, "check_upgrade")

\* Existing state, no newer data, something to do, and the user agrees. In full
\* mode another ESDiag image is something to do as well; the binaries of one
\* Elastic version differ in it.
CheckUpgrade ==
  /\ At("check_upgrade") /\ cmd.has /\ cmd.val.elastic <= cmd.bin
  /\ \/ cmd.val.elastic \in {0, cmd.bin} /\ End("ok")
     \/ /\ cmd.val.elastic > 0
        /\ cmd.val.elastic # cmd.bin \/ ActiveMode(cmd.val, cmd.has) = "full"
        /\ Goto("approved")
  /\ UNCHANGED <<disk, world, procs, history>>

\* The versions are recorded before anything is pulled.
Approved ==
  /\ At("approved") /\ Coupled(cmd.val, cmd.has)
  /\ cmd' = [cmd EXCEPT !.pc = "record_versions", !.prev = cmd.val, !.val.elastic = cmd.bin,
                        !.mode = ActiveMode(cmd.val, cmd.has), !.native = running.elastic > 0]
  /\ UNCHANGED <<disk, world, procs, history>>

RecordVersions ==
  /\ At("record_versions")
  /\ env' = [on |-> TRUE, val |-> cmd.val]
  /\ Goto("write_compose")
  /\ UNCHANGED <<compose, files, world, procs, history>>

WriteCompose ==
  /\ At("write_compose")
  /\ compose' = cmd.mode
  /\ Goto("pull")
  /\ UNCHANGED <<env, files, world, procs, history>>

\* A running stack goes on as `up` with the values it has; a stopped one stays.
Pulled ==
  /\ At("pull")
  /\ IF cmd.native
     THEN cmd' = [cmd EXCEPT !.pc = "prepare", !.native = cmd.mode = "core" /\ Matches]
     ELSE End("ok")
  /\ UNCHANGED <<disk, world, procs, history>>

PullFails ==
  /\ At("pull")
  /\ Goto("restore_versions")
  /\ UNCHANGED <<disk, world, procs, history>>

RestoreVersions ==
  /\ At("restore_versions")
  /\ env' = [on |-> TRUE, val |-> cmd.prev]
  /\ End("err")
  /\ UNCHANGED <<compose, files, world, procs, history>>

----------------------------------------------------------------------------
(* down, reset, setup, restart                                                *)

Down ==
  /\ At("idle")
  /\ cmd' = [Idle EXCEPT !.pc = "kill", !.name = "down", !.then = "compose_down"]
  /\ UNCHANGED <<disk, world, procs, history>>

\* down stops the services that compose.yml has.
ComposeDown ==
  /\ At("compose_down") /\ ComposeWorks
  /\ running' = [elastic |-> 0, esdiag |-> running.esdiag /\ compose # "full"]
  /\ End("ok")
  /\ UNCHANGED <<disk, volumes, keys, procs, history>>

Reset ==
  /\ At("idle")
  /\ cmd' = [Idle EXCEPT !.pc = "kill", !.name = "reset", !.then = "reset_down"]
  /\ UNCHANGED <<disk, world, procs, history>>

\* down --volumes --remove-orphans removes the volumes that compose.yml has.
ResetDown ==
  /\ At("reset_down") /\ ComposeWorks
  /\ running' = NoContainers
  /\ volumes' = [NoVolumes EXCEPT !.esdiag = volumes.esdiag /\ compose # "full"]
  /\ keys' = {}
  /\ Goto("remove_dir")
  /\ UNCHANGED <<disk, procs, history>>

RemoveDir ==
  /\ At("remove_dir")
  /\ env' = [on |-> FALSE, val |-> Blank]
  /\ compose' = "none"
  /\ files' = NoFiles
  /\ End("ok")
  /\ UNCHANGED <<world, procs, history>>

Setup == Begin("setup", 1, "setup_prepare")

\* refresh_compose writes compose.yml for the active mode.
SetupPrepare ==
  /\ At("setup_prepare") /\ Coupled(cmd.val, cmd.has)
  /\ LET mode == ActiveMode(cmd.val, cmd.has) IN
     /\ compose' = IF cmd.has THEN mode ELSE compose
     /\ cmd' = [cmd EXCEPT !.pc = "setup", !.mode = mode]
  /\ UNCHANGED <<env, files, world, procs, history>>

\* restart <service>: the native one only where the mode is recorded as core.
\* level: --log-level, which is written first.
Restart(service, level) ==
  /\ At("idle")
  /\ LET native == service = "esdiag" /\ env.val.mode = "core" IN
     cmd' = [Idle EXCEPT !.pc = CASE level -> "write_level" [] native -> "kill" [] OTHER -> "recreate",
                         !.name = "restart", !.then = IF native THEN "spawn" ELSE service, !.mode = "core"]
  /\ UNCHANGED <<disk, world, procs, history>>

\* .env comes back as it was read, with the level, also where there was none.
WriteLevel ==
  /\ At("write_level")
  /\ env' = [env EXCEPT !.on = TRUE]
  /\ Goto(IF cmd.then = "spawn" THEN "kill" ELSE "recreate")
  /\ UNCHANGED <<compose, files, world, procs, history>>

\* up -d --no-deps --force-recreate; services need an image in .env.
Recreate ==
  /\ At("recreate") /\ ComposeWorks /\ env.val.elastic > 0
  /\ IF cmd.then = "esdiag"
     THEN /\ compose = "full"
          /\ running' = [running EXCEPT !.esdiag = TRUE]
          /\ volumes' = [volumes EXCEPT !.esdiag = TRUE]
          /\ keys' = keys
     ELSE StartElastic
  /\ End("ok")
  /\ UNCHANGED <<disk, procs, history>>

----------------------------------------------------------------------------
(* The machine                                                                *)

\* A process ends: it was told to stop, it is done, or it is a service that
\* found its port taken.
Exit(p) ==
  /\ Alive(p)
  /\ procs' = [procs EXCEPT ![p] = NoProcess]
  /\ UNCHANGED <<disk, world, cmd, history>>

\* Another program gets a process id that was free: any program, or an
\* `esdiag serve` that the user started by hand. Its start time, 0, is no
\* managed service's.
OtherStarts(p) ==
  /\ ~Alive(p)
  /\ procs' = [procs EXCEPT ![p] = [NoProcess EXCEPT !.kind = "other"]]
  /\ UNCHANGED <<disk, world, cmd, history>>

----------------------------------------------------------------------------

Init ==
  /\ env = [on |-> FALSE, val |-> Blank]
  /\ compose = "none"
  /\ files = NoFiles
  /\ volumes = NoVolumes
  /\ running = NoContainers
  /\ keys = {}
  /\ procs = [p \in Pids |-> NoProcess]
  /\ cmd = Idle
  /\ cut = {} /\ cuts = 0

Steps ==
  \/ Refuse \/ Prepare \/ WriteEnv \/ StopFull \/ Start \/ WaitElasticsearch
  \/ ConfigureSecurity \/ WriteKey \/ SetupMode \/ StartEsdiag \/ WaitEsdiag \/ WriteMode
  \/ Kill \/ Signal \/ Unlink \/ Spawn \/ ChildGone \/ WritePid \/ WriteStarted
  \/ CheckUpgrade \/ Approved \/ RecordVersions \/ WriteCompose \/ Pulled \/ PullFails \/ RestoreVersions
  \/ ComposeDown \/ ResetDown \/ RemoveDir \/ SetupPrepare \/ WriteLevel \/ Recreate

Commands ==
  \/ Down \/ Reset \/ Setup
  \/ \E service \in {"elasticsearch", "esdiag"}, level \in BOOLEAN : Restart(service, level)
  \/ \E bin \in Versions :
    \/ \E stack \in Modes \cup {"auto"}, native \in BOOLEAN : Up(bin, stack, native)
    \/ Upgrade(bin)

Machine == \E p \in Pids : Exit(p) \/ OtherStarts(p)

Next == Commands \/ Steps \/ Abort \/ TearEnv \/ Machine

Spec == Init /\ [][Next]_vars

----------------------------------------------------------------------------
(* Properties                                                                 *)

TypeOK ==
  /\ env \in [on : BOOLEAN, val : Values]
  /\ compose \in Modes \cup {"none"}
  /\ files \in [pid : Pids \cup {"none"}, started : 0 .. MaxStarts]
  /\ volumes \in [elastic : 0 .. MaxVersion, password : 0 .. MaxSecrets, esdiag : BOOLEAN]
  /\ running \in [elastic : 0 .. MaxVersion, esdiag : BOOLEAN]
  /\ keys \subseteq 2 .. MaxSecrets + 1
  /\ procs \in [Pids -> [kind : {"none", "native", "other"}, started : 0 .. MaxStarts, term : BOOLEAN]]

\* As long as no write of .env was cut off, .env opens the cluster whose data
\* the volumes hold and never records a version older than that data: whichever
\* commands of whichever binaries ran, failed or were cut off in whatever order
\* (LocalState::initialize, upgrade). The recorded key is one the cluster knows,
\* unless a reset was cut off after the volumes and `restart`, which checks
\* nothing, set up new ones.
StateFitsVolumes ==
  "env" \notin cut /\ volumes.elastic > 0 =>
    /\ env.on
    /\ env.val.password = volumes.password
    /\ env.val.apikey > Pending => env.val.apikey \in keys \/ "reset" \in cut
    /\ env.val.elastic >= volumes.elastic
    /\ running.elastic \in {0, volumes.elastic}

\* A native service that was not told to stop is the recorded one, or is being
\* recorded, unless a start was cut off between the two (start_native_service).
ServiceRecorded ==
  "record" \notin cut =>
    \A p \in Pids : procs[p].kind = "native" /\ ~procs[p].term =>
      \/ files = [pid |-> p, started |-> procs[p].started]
      \/ cmd.pc \in {"write_pid", "write_started"} /\ cmd.child = p

\* After `down` nothing of the stack runs, unless a start in another mode than
\* the recorded one ended early: what that start left behind may be a container
\* that compose.yml no longer has.
DownStops ==
  cmd.pc = "idle" /\ cmd.name = "down" =>
    /\ running.elastic = 0
    /\ running.esdiag => "switch" \in cut

LocalStackSound == TypeOK /\ StateFitsVolumes /\ ServiceRecorded /\ DownStops

\* A command signals a process that is not its service only in one way: it saw
\* the recorded service alive under that id, by its start time, and the service
\* ended and its id went to somebody else before the signal (stop_native_service).
\* A record that was stale when the command looked, of a service long gone or
\* one that was only half recorded, has nobody signalled.
OthersSpared ==
  [][\A p \in Pids :
       procs[p].kind = "other" /\ ~procs[p].term /\ procs'[p].term =>
         /\ At("signal") /\ files.pid = p
         /\ cmd.since # 0 /\ cmd.since = files.started]_vars

\* Refuted by TLC, see the README, as are the next two: nobody else is signalled.
\* The check and the signal are two programs, `ps` and `kill`.
SignalsOnlyItsService ==
  [][\A p \in Pids : procs[p].kind = "other" /\ ~procs[p].term => ~procs'[p].term]_vars

\* The mode that a start resolved to, as compose.yml has it, is stable on later
\* automatic starts until the user selects another one.
ModeStable ==
  cmd.pc = "prepare" /\ cmd.auto /\ cmd.has /\ "env" \notin cut => cmd.mode = compose

\* A confirmed reset removes the volume of the full mode with the others.
ResetRemovesVolumes ==
  cmd.pc = "idle" /\ cmd.name = "reset" => volumes = NoVolumes

=============================================================================
