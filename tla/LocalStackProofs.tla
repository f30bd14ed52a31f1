-------------------------- MODULE LocalStackProofs --------------------------
(* What the commands of `esdiag local` keep for any versions, processes,      *)
(* secrets and interruptions: a command that runs knows what .env had when it *)
(* began, and whatever it has put on disk so far fits the volumes, so that it *)
(* can end, fail or be cut off at any point. Then what the commands keep that *)
(* set up Elasticsearch, Kibana and the skills of agents, for any releases,   *)
(* templates, streams, spaces and targets, and any number of failures.        *)
EXTENDS LocalStack, SetupCommands, FiniteSetTheorems, TLAPS

-----------------------------------------------------------------------------
(* Types                                                                      *)

Points ==
  {"idle", "prepare", "write", "stop_full", "start", "wait_elasticsearch", "security", "write_key",
   "setup", "kill", "signal", "unlink", "start_esdiag", "spawn", "write_pid", "write_started", "wait_esdiag",
   "write_mode", "check_upgrade", "approved", "record_versions", "write_compose", "pull", "restore_versions",
   "compose_down", "reset_down", "remove_dir", "setup_prepare", "write_level", "recreate"}

Names == {"none", "up", "upgrade", "down", "reset", "setup", "restart"}
Nexts == {"none", "start_esdiag", "spawn", "compose_down", "reset_down", "elasticsearch", "esdiag"}

CommandRecords ==
  [pc : Points, name : Names, val : Values, has : BOOLEAN, bin : Versions, auto : BOOLEAN,
   mode : Modes \cup {"none"}, native : BOOLEAN, prev : Values, child : Pids \cup {"none"},
   since : 0 .. MaxStarts, then : Nexts]

Processes == [kind : {"none", "native", "other"}, started : 0 .. MaxStarts, term : BOOLEAN]

\* A native service has a start time, another program has none of a service.
Timed ==
  \A p \in Pids : /\ procs[p].kind = "native" => procs[p].started # 0
                  /\ procs[p].kind = "other" => procs[p].started = 0

TypeInv == TypeOK /\ cmd \in CommandRecords /\ Timed

-----------------------------------------------------------------------------
(* Where a command can be                                                     *)

StartsStack(name) == name \in {"up", "upgrade"}

\* Points of a start from the time .env has the values of the command.
NotedDown == {"stop_full", "start", "wait_elasticsearch", "security", "setup", "kill", "signal", "unlink",
             "start_esdiag", "spawn", "write_pid", "write_started", "wait_esdiag", "write_mode"}

OnLine ==
  /\ At("idle") => cmd.name \in {"none", "down", "reset"}
  /\ cmd.pc \in {"prepare", "write", "stop_full", "start", "wait_elasticsearch", "security", "write_key",
                 "start_esdiag", "wait_esdiag", "write_mode"} => StartsStack(cmd.name)
  /\ cmd.pc \in {"check_upgrade", "approved", "record_versions", "write_compose", "pull", "restore_versions"} =>
       cmd.name = "upgrade"
  /\ At("setup_prepare") => cmd.name = "setup"
  /\ At("setup") => cmd.name = "setup" \/ StartsStack(cmd.name)
  /\ cmd.pc \in {"kill", "signal", "unlink"} =>
       \/ StartsStack(cmd.name) /\ (cmd.then = "spawn" \/ (cmd.then = "start_esdiag" /\ cmd.mode = "full"))
       \/ cmd.name = "down" /\ cmd.then = "compose_down"
       \/ cmd.name = "reset" /\ cmd.then = "reset_down"
       \/ cmd.name = "restart" /\ cmd.then = "spawn"
  /\ cmd.pc \in {"spawn", "write_pid", "write_started"} => cmd.name = "restart" \/ StartsStack(cmd.name)
  /\ At("start_esdiag") => cmd.mode = "full"
  /\ At("compose_down") => cmd.name = "down"
  /\ cmd.pc \in {"reset_down", "remove_dir"} => cmd.name = "reset"
  /\ cmd.pc \in {"write_level", "recreate"} => cmd.name = "restart"
  /\ StartsStack(cmd.name) /\ cmd.pc \in NotedDown \cup {"prepare", "write", "write_key"} => cmd.mode # "none"

-----------------------------------------------------------------------------
(* .env and the volumes                                                       *)

\* The values open the data of the volumes and do not precede it.
Fits(v) ==
  /\ volumes.elastic > 0 =>
       /\ v.password = volumes.password
       /\ v.elastic >= volumes.elastic
       /\ v.apikey > Pending => v.apikey \in keys \/ "reset" \in cut
  /\ volumes.elastic = 0 => v.apikey <= Pending \/ "reset" \in cut

Good(v) == Fits(v) /\ v.password # 0

EnvInv ==
  /\ ~env.on => env.val = Blank
  /\ running.elastic \in {0, volumes.elastic}
  /\ At("remove_dir") => volumes.elastic = 0 /\ running = NoContainers
  /\ "env" \notin cut =>
       /\ env.val.elastic > 0 => env.val.password # 0
       /\ volumes.elastic > 0 => env.on
       /\ ~At("remove_dir") => Fits(env.val)

\* What a command knows of .env, and what it is about to write there.
CopyInv ==
  /\ cmd.pc \in {"prepare", "check_upgrade", "approved", "setup_prepare"} => cmd.val = env.val /\ cmd.has = env.on
  /\ At("approved") => cmd.has /\ 0 < cmd.val.elastic /\ cmd.val.elastic <= cmd.bin
  /\ cmd.pc \in {"record_versions", "write_compose", "pull", "restore_versions"} =>
       /\ env.on /\ cmd.has
       /\ cmd.val.mode = env.val.mode /\ cmd.prev.mode = env.val.mode
       /\ "env" \notin cut => Good(cmd.val) /\ Good(cmd.prev)
  /\ cmd.pc \in {"write_compose", "pull"} => env.val = cmd.val
  /\ cmd.pc \in {"write", "write_key"} =>
       /\ cmd.val.mode = env.val.mode
       /\ "env" \notin cut => Good(cmd.val)
  /\ StartsStack(cmd.name) /\ cmd.pc \in NotedDown => env.on /\ cmd.val = env.val
  /\ At("write_key") => env.on
  /\ At("write") => cmd.has = env.on

-----------------------------------------------------------------------------
(* compose.yml and the containers                                             *)

ModeInv ==
  /\ StartsStack(cmd.name) /\ cmd.pc \in NotedDown \cup {"write", "write_key", "pull"} => compose = cmd.mode
  /\ /\ cmd.name = "upgrade"
     /\ cmd.pc \in NotedDown \cup {"prepare", "write", "write_key", "record_versions", "write_compose", "pull", "restore_versions"}
     => cmd.has /\ cmd.mode = ActiveMode(cmd.val, TRUE)
  /\ cmd.pc \in {"write_level", "recreate"} /\ cmd.then = "esdiag" => env.val.mode # "core"

\* The service's container: compose.yml has it and the recorded mode is full,
\* or a start that changes the mode is at work on it.
InFullStack == compose = "full" /\ env.on /\ env.val.mode # "core"
ToFull ==
  /\ cmd.name = "up" /\ cmd.pc \in {"wait_esdiag", "write_mode"}
  /\ cmd.mode = "full" /\ cmd.val.mode = "core" /\ compose = "full"
ToCore ==
  /\ cmd.name = "up" /\ cmd.pc \in {"write", "stop_full"}
  /\ cmd.mode = "core" /\ cmd.val.mode # "core" /\ cmd.has /\ env.on

EsdiagInv == running.esdiag /\ "switch" \notin cut => InFullStack \/ ToFull \/ ToCore

-----------------------------------------------------------------------------
(* The native service                                                         *)

Serves(p) == procs[p].kind = "native" /\ ~procs[p].term

ServiceInv ==
  /\ "record" \notin cut =>
       \A p \in Pids : Serves(p) =>
         /\ cmd.pc \notin {"unlink", "spawn", "compose_down", "reset_down", "remove_dir", "start_esdiag"}
         /\ cmd.pc \in {"write_pid", "write_started"} => cmd.child = p
  /\ At("signal") => files.pid \in Pids /\ cmd.since # 0 /\ cmd.since = files.started
  /\ At("write_started") => files.pid = cmd.child
  /\ cmd.pc \in {"write_pid", "write_started"} =>
       cmd.child \in Pids /\ (procs[cmd.child].kind = "native" => procs[cmd.child].started = cmd.since)

LocalInv ==
  TypeInv /\ OnLine /\ EnvInv /\ CopyInv /\ ModeInv /\ EsdiagInv /\ ServiceInv /\ ServiceRecorded /\ DownStops

-----------------------------------------------------------------------------
(* What the steps do to the command                                           *)

\* Everything a command knows but where it is and what it knows of the service.
Kept ==
  /\ cmd'.name = cmd.name /\ cmd'.val = cmd.val /\ cmd'.has = cmd.has /\ cmd'.bin = cmd.bin
  /\ cmd'.mode = cmd.mode /\ cmd'.native = cmd.native /\ cmd'.prev = cmd.prev
  /\ cmd'.child = cmd.child /\ cmd'.then = cmd.then

LEMMA Blanks == Blank \in Values /\ Idle \in CommandRecords
<1>1. 0 \in 0 .. MaxSecrets /\ 0 \in 0 .. MaxSecrets + 1 /\ 0 \in 0 .. MaxVersion /\ 0 \in 0 .. MaxStarts /\ 1 \in 1 .. MaxVersion
  BY BoundsAssumption
<1>2. Blank \in Values
  BY <1>1 DEF Blank, Values
<1> QED
  BY <1>1, <1>2 DEF Idle, CommandRecords, Points, Names, Nexts, Versions

LEMMA KeepsOn ==
    ASSUME cmd \in CommandRecords, NEW x \in Points, Goto(x)
    PROVE  cmd' \in CommandRecords /\ cmd'.pc = x /\ Kept /\ cmd'.since = cmd.since
BY DEF Goto, CommandRecords, Kept

LEMMA Ending ==
    ASSUME NEW r \in {"ok", "err"}, End(r), cmd \in CommandRecords
    PROVE  /\ cmd' \in CommandRecords /\ cmd'.pc = "idle"
           /\ IF r = "ok" /\ cmd.name \in {"down", "reset"} THEN cmd'.name = cmd.name ELSE cmd'.name = "none"
<1>1. CASE r = "ok" /\ cmd.name \in {"down", "reset"}
  <2>1. cmd' = [Idle EXCEPT !.name = cmd.name]
    BY <1>1 DEF End
  <2>2. Idle.pc = "idle"
    BY DEF Idle
  <2> QED
    BY <2>1, <2>2, <1>1, Blanks DEF CommandRecords, Names
<1>2. CASE ~(r = "ok" /\ cmd.name \in {"down", "reset"})
  <2>1. cmd' = Idle
    BY <1>2 DEF End
  <2>2. Idle.pc = "idle" /\ Idle.name = "none"
    BY DEF Idle
  <2> QED
    BY <2>1, <2>2, <1>2, Blanks
<1> QED
  BY <1>1, <1>2

LEMMA Beginning ==
    ASSUME TypeOK, NEW name \in Names, NEW bin \in Versions, NEW first \in Points, Begin(name, bin, first)
    PROVE  /\ cmd' \in CommandRecords /\ cmd'.pc = first /\ cmd'.name = name
           /\ cmd'.val = env.val /\ cmd'.has = env.on
<1>1. cmd' = [pc |-> first, name |-> name, val |-> env.val, has |-> env.on,
              bin |-> bin, auto |-> FALSE, mode |-> "none", native |-> FALSE, prev |-> Blank, child |-> "none",
              since |-> 0, then |-> "none"]
  BY DEF Begin, Idle
<1>2. env.val \in Values /\ env.on \in BOOLEAN
  BY DEF TypeOK
<1>3. 0 \in 0 .. MaxStarts
  BY BoundsAssumption
<1> QED
  BY <1>1, <1>2, <1>3, Blanks DEF CommandRecords, Nexts

LEMMA UpEffect ==
    ASSUME TypeOK, NEW bin \in Versions, NEW stack \in Modes \cup {"auto"}, NEW native \in BOOLEAN, Up(bin, stack, native)
    PROVE  /\ cmd' \in CommandRecords /\ cmd'.pc = "prepare" /\ cmd'.name = "up"
           /\ cmd'.val = env.val /\ cmd'.has = env.on /\ cmd'.mode \in Modes
<1> DEFINE mode == ResolveMode(stack, env.val, env.on)
<1>1. cmd' = [pc |-> "prepare", name |-> "up", val |-> env.val, has |-> env.on,
              bin |-> bin, auto |-> stack = "auto", mode |-> mode, native |-> native, prev |-> Blank, child |-> "none",
              since |-> 0, then |-> "none"]
  BY DEF Up, Idle
<1>2. env.val \in Values /\ env.on \in BOOLEAN
  BY DEF TypeOK
<1>3. mode \in Modes
  BY <1>2 DEF ResolveMode, Modes, Values
<1>4. 0 \in 0 .. MaxStarts
  BY BoundsAssumption
<1> HIDE DEF mode
<1> QED
  BY <1>1, <1>2, <1>3, <1>4, Blanks DEF CommandRecords, Nexts, Points, Names

\* Commands that do not read .env first.
LEMMA StopEffect ==
    ASSUME Down \/ Reset
    PROVE  /\ cmd' \in CommandRecords /\ cmd'.pc = "kill"
           /\ \/ cmd'.name = "down" /\ cmd'.then = "compose_down"
              \/ cmd'.name = "reset" /\ cmd'.then = "reset_down"
<1>1. 0 \in 0 .. MaxStarts /\ 1 \in 1 .. MaxVersion
  BY BoundsAssumption
<1>2. CASE Down
  <2>1. cmd' = [pc |-> "kill", name |-> "down", val |-> Blank, has |-> FALSE,
                bin |-> 1, auto |-> FALSE, mode |-> "none", native |-> FALSE, prev |-> Blank, child |-> "none",
                since |-> 0, then |-> "compose_down"]
    BY <1>2 DEF Down, Idle
  <2> QED
    BY <2>1, <1>1, Blanks DEF CommandRecords, Nexts, Points, Names, Versions
<1>3. CASE Reset
  <2>1. cmd' = [pc |-> "kill", name |-> "reset", val |-> Blank, has |-> FALSE,
                bin |-> 1, auto |-> FALSE, mode |-> "none", native |-> FALSE, prev |-> Blank, child |-> "none",
                since |-> 0, then |-> "reset_down"]
    BY <1>3 DEF Reset, Idle
  <2> QED
    BY <2>1, <1>1, Blanks DEF CommandRecords, Nexts, Points, Names, Versions
<1> QED
  BY <1>2, <1>3

LEMMA RestartEffect ==
    ASSUME NEW service \in {"elasticsearch", "esdiag"}, NEW level \in BOOLEAN, Restart(service, level)
    PROVE  /\ cmd' \in CommandRecords /\ cmd'.name = "restart" /\ cmd'.pc \in {"write_level", "kill", "recreate"}
           /\ cmd'.then = "spawn" \/ (cmd'.then = service /\ (service = "esdiag" => env.val.mode # "core"))
           /\ cmd'.pc = "kill" => cmd'.then = "spawn"
<1> DEFINE native == service = "esdiag" /\ env.val.mode = "core"
           first == CASE level -> "write_level" [] native -> "kill" [] OTHER -> "recreate"
           then == IF native THEN "spawn" ELSE service
<1>1. cmd' = [pc |-> first, name |-> "restart", val |-> Blank, has |-> FALSE,
              bin |-> 1, auto |-> FALSE, mode |-> "core", native |-> FALSE, prev |-> Blank, child |-> "none",
              since |-> 0, then |-> then]
  BY DEF Restart, Idle
<1>2. then \in Nexts /\ (then = "spawn" \/ (then = service /\ (service = "esdiag" => env.val.mode # "core")))
  BY DEF Nexts
<1>3. first \in {"write_level", "kill", "recreate"} /\ (first = "kill" => then = "spawn")
  <2>1. CASE level
    <3>1. first \in {"write_level", "kill"}
      BY <2>1
    <3>2. CASE native
      BY <3>1, <3>2
    <3>3. CASE ~native
      <4>1. first = "write_level"
        BY <2>1, <3>3
      <4> QED
        BY <4>1
    <3> QED
      BY <3>2, <3>3
  <2>2. CASE ~level /\ native
    BY <2>2
  <2>3. CASE ~level /\ ~native
    <3>1. first = "recreate"
      BY <2>3
    <3> QED
      BY <3>1
  <2> QED
    BY <2>1, <2>2, <2>3
<1>4. 0 \in 0 .. MaxStarts /\ 1 \in 1 .. MaxVersion
  BY BoundsAssumption
<1> HIDE DEF native, first, then
<1> QED
  BY <1>1, <1>2, <1>3, <1>4, Blanks DEF CommandRecords, Names, Versions, Modes, Points

\* stop_native_service looks, and finds the recorded process or not.
LEMMA KillEffect ==
    ASSUME TypeOK, cmd \in CommandRecords, OnLine, Kill
    PROVE  /\ cmd' \in CommandRecords /\ At("kill") /\ Kept
           /\ cmd.then \in {"spawn", "start_esdiag", "compose_down", "reset_down"}
           /\ \/ Matches /\ cmd'.pc = "signal" /\ cmd'.since = procs[files.pid].started
              \/ ~Matches /\ cmd'.pc \in {"unlink", cmd.then}
<1>1. At("kill") /\ cmd.then \in {"spawn", "start_esdiag", "compose_down", "reset_down"}
  BY DEF Kill, OnLine, At
<1>2. CASE Matches
  <2>1. cmd' = [cmd EXCEPT !.pc = "signal", !.since = procs[files.pid].started]
    BY <1>2 DEF Kill
  <2>2. procs[files.pid].started \in 0 .. MaxStarts
    BY <1>2 DEF Matches, TypeOK
  <2> QED
    BY <1>1, <1>2, <2>1, <2>2 DEF CommandRecords, Points, Kept
<1>3. CASE ~Matches
  <2>1. Goto("unlink") \/ Goto(cmd.then)
    BY <1>3 DEF Kill
  <2> QED
    BY <1>1, <1>3, <2>1, KeepsOn DEF Points
<1> QED
  BY <1>2, <1>3

LEMMA SignalEffect ==
    ASSUME cmd \in CommandRecords, Signal
    PROVE  cmd' \in CommandRecords /\ At("signal") /\ Kept /\ cmd'.pc = "unlink"
<1>1. cmd' = [cmd EXCEPT !.pc = "unlink", !.since = 0] /\ At("signal")
  BY DEF Signal
<1>2. 0 \in 0 .. MaxStarts
  BY BoundsAssumption
<1> QED
  BY <1>1, <1>2 DEF CommandRecords, Points, Kept

\* A command that begins changes nothing but itself.
LEMMA CommandsKeep ==
    ASSUME Commands
    PROVE  At("idle") /\ UNCHANGED <<env, compose, files, volumes, running, keys, procs, cut, cuts>>
<1>1. CASE Down \/ Reset \/ Setup
  BY <1>1 DEF Down, Reset, Setup, Begin, disk, world, history
<1>2. ASSUME NEW service \in {"elasticsearch", "esdiag"}, NEW level \in BOOLEAN, Restart(service, level)
      PROVE  At("idle") /\ UNCHANGED <<env, compose, files, volumes, running, keys, procs, cut, cuts>>
  BY <1>2 DEF Restart, disk, world, history
<1>3. ASSUME NEW bin \in Versions, NEW stack \in Modes \cup {"auto"}, NEW native \in BOOLEAN, Up(bin, stack, native)
      PROVE  At("idle") /\ UNCHANGED <<env, compose, files, volumes, running, keys, procs, cut, cuts>>
  BY <1>3 DEF Up, disk, world, history
<1>4. ASSUME NEW bin \in Versions, Upgrade(bin)
      PROVE  At("idle") /\ UNCHANGED <<env, compose, files, volumes, running, keys, procs, cut, cuts>>
  BY <1>4 DEF Upgrade, Begin, disk, world, history
<1> QED
  BY <1>1, <1>2, <1>3, <1>4 DEF Commands

LEMMA CommandsBegin ==
    ASSUME TypeOK, Commands
    PROVE  cmd'.pc \in {"kill", "setup_prepare", "write_level", "recreate", "prepare", "check_upgrade"}
<1>1. CASE Down \/ Reset
  BY <1>1, StopEffect
<1>2. CASE Setup
  BY <1>2, Beginning, BoundsAssumption DEF Setup, Names, Points, Versions
<1>3. CASE \E service \in {"elasticsearch", "esdiag"}, level \in BOOLEAN : Restart(service, level)
  BY <1>3, RestartEffect
<1>4. CASE \E bin \in Versions : \E stack \in Modes \cup {"auto"}, native \in BOOLEAN : Up(bin, stack, native)
  BY <1>4, UpEffect
<1>5. CASE \E bin \in Versions : Upgrade(bin)
  BY <1>5, Beginning DEF Upgrade, Names, Points
<1> QED
  BY <1>1, <1>2, <1>3, <1>4, <1>5 DEF Commands

\* Where a command has two or more things to remember.
LEMMA InitializedFields ==
    ASSUME NEW v \in Values, NEW bin \in Versions, NEW fresh, v.password = 0 => fresh \in 1 .. MaxSecrets
    PROVE  LET w == Initialized(v, bin, fresh)
           IN  /\ w \in Values /\ w.mode = v.mode
               /\ w.password = (IF v.password = 0 THEN fresh ELSE v.password)
               /\ w.apikey = (IF v.apikey = 0 THEN Pending ELSE v.apikey)
               /\ w.elastic = (IF v.elastic = 0 THEN bin ELSE v.elastic)
<1> DEFINE password == IF v.password = 0 THEN fresh ELSE v.password
           apikey == IF v.apikey = 0 THEN Pending ELSE v.apikey
           elastic == IF v.elastic = 0 THEN bin ELSE v.elastic
           w1 == [v EXCEPT !.password = password]
           w2 == [w1 EXCEPT !.apikey = apikey]
           w3 == [w2 EXCEPT !.elastic = elastic]
<1>1. Initialized(v, bin, fresh) = w3
  BY DEF Initialized, Values
<1>2. password \in 0 .. MaxSecrets
  BY BoundsAssumption DEF Values
<1>3. apikey \in 0 .. MaxSecrets + 1
  BY BoundsAssumption DEF Values, Pending
<1>4. elastic \in 0 .. MaxVersion
  BY BoundsAssumption DEF Values, Versions
<1>5. w1 \in Values /\ w1.mode = v.mode /\ w1.password = password /\ w1.apikey = v.apikey /\ w1.elastic = v.elastic
  <2> HIDE DEF password
  <2> QED
    BY <1>2 DEF Values
<1>6. w2 \in Values /\ w2.mode = v.mode /\ w2.password = password /\ w2.apikey = apikey /\ w2.elastic = v.elastic
  <2> HIDE DEF w1, password, apikey
  <2> QED
    BY <1>3, <1>5 DEF Values
<1>7. w3 \in Values /\ w3.mode = v.mode /\ w3.password = password /\ w3.apikey = apikey /\ w3.elastic = elastic
  <2> HIDE DEF w2, password, apikey, elastic
  <2> QED
    BY <1>4, <1>6 DEF Values
<1> HIDE DEF w3
<1> QED
  BY <1>1, <1>7

LEMMA PrepareEffect ==
    ASSUME TypeOK, cmd \in CommandRecords, Prepare
    PROVE  /\ cmd' \in CommandRecords /\ cmd'.pc = "write" /\ cmd'.name = cmd.name /\ cmd'.has = cmd.has
           /\ cmd'.mode = cmd.mode
           /\ \E fresh : /\ cmd.val.password = 0 => fresh \in 1 .. MaxSecrets
                         /\ cmd'.val = Initialized(cmd.val, cmd.bin, fresh)
<1> DEFINE fresh == CHOOSE p \in FreshPassword : TRUE
           w == Initialized(cmd.val, cmd.bin, fresh)
<1>1. cmd' = [cmd EXCEPT !.pc = "write", !.val = w]
  BY DEF Prepare
<1>2. cmd.val.password = 0 => fresh \in 1 .. MaxSecrets
  BY DEF Prepare, FreshPassword
<1>3. cmd.val \in Values /\ cmd.bin \in Versions
  BY DEF CommandRecords
<1>4. w \in Values
  <2> HIDE DEF fresh
  <2> QED
    BY <1>2, <1>3, InitializedFields
<1>5. cmd.pc = "prepare"
  BY DEF Prepare, At
<1> HIDE DEF fresh
<1>6. \E f : /\ cmd.val.password = 0 => f \in 1 .. MaxSecrets
             /\ w = Initialized(cmd.val, cmd.bin, f)
  BY <1>2
<1> HIDE DEF w
<1>7. /\ cmd' \in CommandRecords /\ cmd'.pc = "write" /\ cmd'.name = cmd.name /\ cmd'.has = cmd.has
      /\ cmd'.mode = cmd.mode /\ cmd'.val = w
  BY <1>1, <1>4, <1>5 DEF CommandRecords, Points
<1> QED
  BY <1>6, <1>7

LEMMA KeyEffect ==
    ASSUME TypeOK, cmd \in CommandRecords, ConfigureSecurity
    PROVE  /\ cmd' \in CommandRecords /\ cmd'.pc = "write_key" /\ cmd'.name = cmd.name /\ cmd'.has = cmd.has
           /\ cmd'.mode = cmd.mode /\ keys' \subseteq 2 .. MaxSecrets + 1 /\ keys \subseteq keys'
           /\ cmd'.val \in Values /\ cmd'.val.mode = cmd.val.mode /\ cmd'.val.password = cmd.val.password
           /\ cmd'.val.elastic = cmd.val.elastic
           /\ cmd'.val.apikey = cmd.val.apikey \/ cmd'.val.apikey \in keys'
<1>1. IsFiniteSet(keys) /\ Cardinality(keys) \in Nat
  <2>1. IsFiniteSet(2 .. MaxSecrets + 1)
    BY BoundsAssumption, FS_Interval
  <2>2. keys \subseteq 2 .. MaxSecrets + 1
    BY DEF TypeOK
  <2> QED
    BY <2>1, <2>2, FS_Subset, FS_CardinalityType
<1>2. CASE cmd.val.apikey = Pending
  <2> DEFINE k == Cardinality(keys) + Pending + 1
             w == [cmd.val EXCEPT !.apikey = k]
  <2>1. Cardinality(keys) < MaxSecrets /\ keys' = keys \cup {k}
    BY <1>2 DEF ConfigureSecurity
  <2>2. cmd' = [cmd EXCEPT !.pc = "write_key", !.val = w]
    BY <1>2 DEF ConfigureSecurity
  <2>3. k \in 2 .. MaxSecrets + 1 /\ k \in 0 .. MaxSecrets + 1
    <3>1. Pending = 1
      BY DEF Pending
    <3> QED
      BY <1>1, <2>1, <3>1, BoundsAssumption
  <2>4. cmd.val \in Values
    BY DEF CommandRecords
  <2> HIDE DEF k
  <2>5. /\ w \in Values /\ w.mode = cmd.val.mode /\ w.password = cmd.val.password
        /\ w.elastic = cmd.val.elastic /\ w.apikey = k
    BY <2>3, <2>4 DEF Values
  <2> HIDE DEF w
  <2>6. /\ cmd' \in CommandRecords /\ cmd'.pc = "write_key" /\ cmd'.name = cmd.name /\ cmd'.has = cmd.has
        /\ cmd'.mode = cmd.mode /\ cmd'.val = w
    BY <2>2, <2>5 DEF CommandRecords, Points
  <2> QED
    BY <2>1, <2>3, <2>5, <2>6 DEF TypeOK
<1>3. CASE cmd.val.apikey # Pending
  <2>1. keys' = keys /\ Goto("write_key")
    BY <1>3 DEF ConfigureSecurity
  <2>2. cmd' \in CommandRecords /\ cmd'.pc = "write_key" /\ Kept
    BY <2>1, KeepsOn DEF Points
  <2> QED
    BY <2>1, <2>2 DEF Kept, CommandRecords, TypeOK
<1> QED
  BY <1>2, <1>3

\* SetupMode ends, goes on to the web service, or is done but for the record.
LEMMA SetupEffect ==
    ASSUME cmd \in CommandRecords, SetupMode
    PROVE  \/ cmd.name = "setup" /\ End("ok")
           \/ cmd.name # "setup" /\ cmd.mode # "full" /\ Goto("write_mode")
           \/ /\ cmd.name # "setup" /\ cmd' \in CommandRecords /\ cmd'.pc = "kill" /\ cmd'.name = cmd.name
              /\ cmd'.val = cmd.val /\ cmd'.has = cmd.has /\ cmd'.mode = cmd.mode
              /\ cmd'.then = "spawn" \/ (cmd'.then = "start_esdiag" /\ cmd.mode = "full")
<1>1. \/ cmd.name = "setup" /\ End("ok")
      \/ cmd.name # "setup" /\ cmd.mode # "full" /\ Goto("write_mode")
      \/ cmd.name # "setup" /\ cmd.mode = "full" /\ cmd' = [cmd EXCEPT !.pc = "kill", !.then = "start_esdiag"]
      \/ cmd.name # "setup" /\ cmd' = [cmd EXCEPT !.pc = "kill", !.then = "spawn"]
  BY DEF SetupMode
<1>2. ASSUME NEW next \in {"start_esdiag", "spawn"}, cmd' = [cmd EXCEPT !.pc = "kill", !.then = next]
      PROVE  /\ cmd' \in CommandRecords /\ cmd'.pc = "kill" /\ cmd'.name = cmd.name
             /\ cmd'.val = cmd.val /\ cmd'.has = cmd.has /\ cmd'.mode = cmd.mode /\ cmd'.then = next
  BY <1>2 DEF CommandRecords, Points, Nexts
<1> QED
  BY <1>1, <1>2

LEMMA SpawnEffect ==
    ASSUME TypeOK, cmd \in CommandRecords, Spawn
    PROVE  /\ cmd' \in CommandRecords /\ cmd'.pc = "write_pid" /\ cmd'.name = cmd.name
           /\ cmd'.val = cmd.val /\ cmd'.has = cmd.has /\ cmd'.mode = cmd.mode
           /\ cmd'.child \in Pids /\ cmd'.since \in 1 .. MaxStarts
           /\ \E q \in Processes : /\ q.kind = "native" /\ q.started = cmd'.since /\ ~q.term
                                 /\ procs' = [procs EXCEPT ![cmd'.child] = q]
<1> DEFINE t == CHOOSE t \in FreshStart : TRUE
<1>1. t \in 1 .. MaxStarts /\ t \in 0 .. MaxStarts
  BY BoundsAssumption DEF Spawn, FreshStart
<1>2. PICK p \in Pids : /\ procs' = [procs EXCEPT ![p] = [NoProcess EXCEPT !.kind = "native", !.started = t]]
                        /\ cmd' = [cmd EXCEPT !.pc = "write_pid", !.child = p, !.since = t]
  BY DEF Spawn
<1> HIDE DEF t
<1> DEFINE n1 == [NoProcess EXCEPT !.kind = "native"]
           n2 == [n1 EXCEPT !.started = t]
<1>0. procs' = [procs EXCEPT ![p] = n2]
  BY <1>2
<1>3. n2 \in Processes /\ n2.kind = "native" /\ n2.started = t /\ ~n2.term
  <2>1. NoProcess \in Processes /\ ~NoProcess.term
    BY BoundsAssumption DEF NoProcess, Processes
  <2>2. n1 \in Processes /\ n1.kind = "native" /\ ~n1.term
    BY <2>1 DEF Processes
  <2> HIDE DEF n1
  <2> QED
    BY <1>1, <2>2 DEF Processes
<1> HIDE DEF n2
<1> DEFINE c1 == [cmd EXCEPT !.pc = "write_pid"]
           c2 == [c1 EXCEPT !.child = p]
           c3 == [c2 EXCEPT !.since = t]
<1>4. cmd' = c3
  BY <1>2
<1>5. /\ c1 \in CommandRecords /\ c1.pc = "write_pid" /\ c1.name = cmd.name
      /\ c1.val = cmd.val /\ c1.has = cmd.has /\ c1.mode = cmd.mode
  BY DEF CommandRecords, Points
<1> HIDE DEF c1
<1>6. /\ c2 \in CommandRecords /\ c2.pc = "write_pid" /\ c2.name = cmd.name
      /\ c2.val = cmd.val /\ c2.has = cmd.has /\ c2.mode = cmd.mode /\ c2.child = p
  BY <1>5 DEF CommandRecords
<1> HIDE DEF c2
<1>7. /\ c3 \in CommandRecords /\ c3.pc = "write_pid" /\ c3.name = cmd.name
      /\ c3.val = cmd.val /\ c3.has = cmd.has /\ c3.mode = cmd.mode /\ c3.child = p /\ c3.since = t
  BY <1>1, <1>6 DEF CommandRecords
<1> HIDE DEF c3
<1> QED
  BY <1>0, <1>1, <1>3, <1>4, <1>7

LEMMA ApprovedEffect ==
    ASSUME cmd \in CommandRecords, Approved
    PROVE  /\ cmd' \in CommandRecords /\ cmd'.pc = "record_versions" /\ cmd'.name = cmd.name /\ cmd'.has = cmd.has
           /\ cmd'.prev = cmd.val /\ cmd'.mode = ActiveMode(cmd.val, cmd.has)
           /\ cmd'.val.mode = cmd.val.mode /\ cmd'.val.password = cmd.val.password
           /\ cmd'.val.apikey = cmd.val.apikey /\ cmd'.val.elastic = cmd.bin
<1> DEFINE w == [cmd.val EXCEPT !.elastic = cmd.bin]
           mode == ActiveMode(cmd.val, cmd.has)
           native == running.elastic > 0
           c1 == [cmd EXCEPT !.pc = "record_versions"]
           c2 == [c1 EXCEPT !.prev = cmd.val]
           c3 == [c2 EXCEPT !.val = w]
           c4 == [c3 EXCEPT !.mode = mode]
           c5 == [c4 EXCEPT !.native = native]
<1>1. cmd' = c5
  <2>1. cmd' = [cmd EXCEPT !.pc = "record_versions", !.prev = cmd.val, !.val.elastic = cmd.bin,
                           !.mode = mode, !.native = native]
    BY DEF Approved
  <2> HIDE DEF mode, native
  <2> QED
    BY <2>1 DEF CommandRecords
<1>2. cmd.val \in Values /\ cmd.bin \in 0 .. MaxVersion
  BY BoundsAssumption DEF CommandRecords, Versions
<1>3. /\ w \in Values /\ w.mode = cmd.val.mode /\ w.password = cmd.val.password
      /\ w.apikey = cmd.val.apikey /\ w.elastic = cmd.bin
  BY <1>2 DEF Values
<1>4. mode \in Modes \cup {"none"}
  BY <1>2 DEF ActiveMode, ResolveMode, Values, Modes
<1> HIDE DEF w, mode
<1>5. /\ c1 \in CommandRecords /\ c1.pc = "record_versions" /\ c1.name = cmd.name /\ c1.has = cmd.has
  BY DEF CommandRecords, Points
<1> HIDE DEF c1
<1>6. /\ c2 \in CommandRecords /\ c2.pc = "record_versions" /\ c2.name = cmd.name /\ c2.has = cmd.has
      /\ c2.prev = cmd.val
  BY <1>2, <1>5 DEF CommandRecords
<1> HIDE DEF c2
<1>7. /\ c3 \in CommandRecords /\ c3.pc = "record_versions" /\ c3.name = cmd.name /\ c3.has = cmd.has
      /\ c3.prev = cmd.val /\ c3.val = w
  BY <1>3, <1>6 DEF CommandRecords
<1> HIDE DEF c3
<1>8. /\ c4 \in CommandRecords /\ c4.pc = "record_versions" /\ c4.name = cmd.name /\ c4.has = cmd.has
      /\ c4.prev = cmd.val /\ c4.val = w /\ c4.mode = mode
  BY <1>4, <1>7 DEF CommandRecords
<1> HIDE DEF c4
<1>9. /\ c5 \in CommandRecords /\ c5.pc = "record_versions" /\ c5.name = cmd.name /\ c5.has = cmd.has
      /\ c5.prev = cmd.val /\ c5.val = w /\ c5.mode = mode
  <2>1. native \in BOOLEAN
    OBVIOUS
  <2> HIDE DEF native
  <2> QED
    BY <2>1, <1>8 DEF CommandRecords
<1> HIDE DEF c5
<1> QED
  BY <1>1, <1>3, <1>9 DEF mode

LEMMA PulledEffect ==
    ASSUME cmd \in CommandRecords, Pulled
    PROVE  \/ End("ok")
           \/ /\ cmd' \in CommandRecords /\ cmd'.pc = "prepare" /\ cmd'.name = cmd.name /\ cmd'.has = cmd.has
              /\ cmd'.val = cmd.val /\ cmd'.mode = cmd.mode
<1> DEFINE native == cmd.mode = "core" /\ Matches
<1>1. End("ok") \/ cmd' = [cmd EXCEPT !.pc = "prepare", !.native = native]
  BY DEF Pulled
<1>2. native \in BOOLEAN
  OBVIOUS
<1> HIDE DEF native
<1> DEFINE c1 == [cmd EXCEPT !.pc = "prepare"]
           c2 == [c1 EXCEPT !.native = native]
<1>3. /\ c1 \in CommandRecords /\ c1.pc = "prepare" /\ c1.name = cmd.name /\ c1.has = cmd.has
      /\ c1.val = cmd.val /\ c1.mode = cmd.mode
  BY DEF CommandRecords, Points
<1>4. c2 = [cmd EXCEPT !.pc = "prepare", !.native = native]
  OBVIOUS
<1> HIDE DEF c1
<1>5. /\ c2 \in CommandRecords /\ c2.pc = "prepare" /\ c2.name = cmd.name /\ c2.has = cmd.has
      /\ c2.val = cmd.val /\ c2.mode = cmd.mode
  BY <1>2, <1>3 DEF CommandRecords
<1> HIDE DEF c2
<1> QED
  BY <1>1, <1>4, <1>5

LEMMA SetupPrepareEffect ==
    ASSUME cmd \in CommandRecords, SetupPrepare
    PROVE  /\ cmd' \in CommandRecords /\ cmd'.pc = "setup" /\ cmd'.name = cmd.name
           /\ ActiveMode(cmd.val, cmd.has) \in Modes
<1> DEFINE mode == ActiveMode(cmd.val, cmd.has)
<1>1. cmd' = [cmd EXCEPT !.pc = "setup", !.mode = mode]
  BY DEF SetupPrepare
<1>2. mode \in Modes
  BY DEF ActiveMode, ResolveMode, CommandRecords, Values, Modes
<1> HIDE DEF mode
<1>3. cmd' \in CommandRecords /\ cmd'.pc = "setup" /\ cmd'.name = cmd.name
  BY <1>1, <1>2 DEF CommandRecords, Points
<1> QED
  BY <1>2, <1>3 DEF mode

-----------------------------------------------------------------------------
(* Type correctness                                                           *)

LEMMA CommandTyped ==
    ASSUME TypeInv, OnLine, Next
    PROVE  cmd' \in CommandRecords
<1>0. TypeOK /\ cmd \in CommandRecords
  BY DEF TypeInv
<1>1. CASE Down \/ Reset
  BY <1>1, StopEffect
<1>2. CASE Setup
  BY <1>0, <1>2, Beginning, BoundsAssumption DEF Setup, Names, Points, Versions
<1>3. CASE \E service \in {"elasticsearch", "esdiag"}, level \in BOOLEAN : Restart(service, level)
  BY <1>3, RestartEffect
<1>4. CASE \E bin \in Versions : \E stack \in Modes \cup {"auto"}, native \in BOOLEAN : Up(bin, stack, native)
  BY <1>0, <1>4, UpEffect
<1>5. CASE \E bin \in Versions : Upgrade(bin)
  BY <1>0, <1>5, Beginning DEF Upgrade, Names, Points
<1>6. ASSUME NEW r \in {"ok", "err"}, End(r) PROVE cmd' \in CommandRecords
  BY <1>0, <1>6, Ending
<1>7. ASSUME NEW x \in Points, Goto(x) PROVE cmd' \in CommandRecords
  BY <1>0, <1>7, KeepsOn
<1>8. CASE Refuse \/ WriteMode \/ ChildGone \/ RestoreVersions \/ ComposeDown \/ RemoveDir \/ Recreate \/ Abort \/ TearEnv
  BY <1>6, <1>8 DEF Refuse, WriteMode, ChildGone, RestoreVersions, ComposeDown, RemoveDir, Recreate, Abort, TearEnv
<1>9. CASE \/ StopFull \/ Start \/ WaitElasticsearch \/ WriteKey \/ StartEsdiag \/ WaitEsdiag
           \/ WritePid \/ RecordVersions \/ WriteCompose \/ PullFails \/ ResetDown
  BY <1>7, <1>9 DEF StopFull, Start, WaitElasticsearch, WriteKey, StartEsdiag, WaitEsdiag,
                    WritePid, RecordVersions, WriteCompose, PullFails, ResetDown, Points
<1>10. CASE WriteEnv \/ WriteLevel
  BY <1>7, <1>10 DEF WriteEnv, WriteLevel, Points
<1>11. CASE WriteStarted \/ CheckUpgrade
  BY <1>6, <1>7, <1>11 DEF WriteStarted, CheckUpgrade, Points
<1>12. CASE Unlink
  BY <1>0, <1>7, <1>12 DEF Unlink, Points, OnLine, At
<1>16. CASE Kill \/ Signal
  BY <1>0, <1>16, KillEffect, SignalEffect
<1>13. CASE Prepare \/ ConfigureSecurity \/ Spawn \/ Approved \/ SetupPrepare
  BY <1>0, <1>13, PrepareEffect, KeyEffect, SpawnEffect, ApprovedEffect, SetupPrepareEffect
<1>14. CASE SetupMode \/ Pulled
  BY <1>0, <1>6, <1>7, <1>14, SetupEffect, PulledEffect DEF Points
<1>15. CASE Machine
  BY <1>0, <1>15 DEF Machine, Exit, OtherStarts
<1> QED
  BY <1>1, <1>2, <1>3, <1>4, <1>5, <1>8, <1>9, <1>10, <1>11, <1>12, <1>13, <1>14, <1>15, <1>16
     DEF Next, Commands, Steps

\* What an Elasticsearch that starts does to the volumes.
LEMMA Started ==
    ASSUME TypeOK, StartElastic, running.elastic \in {0, volumes.elastic}
    PROVE  /\ volumes' \in [elastic : 0 .. MaxVersion, password : 0 .. MaxSecrets, esdiag : BOOLEAN]
           /\ running' \in [elastic : 0 .. MaxVersion, esdiag : BOOLEAN]
           /\ running'.elastic \in {0, volumes'.elastic} /\ running'.esdiag = running.esdiag /\ keys' = keys
           /\ volumes.elastic = 0 =>
                volumes'.elastic = env.val.elastic /\ volumes'.password = env.val.password
           /\ volumes.elastic > 0 =>
                /\ volumes'.password = volumes.password
                /\ volumes'.elastic = (IF env.val.elastic >= volumes.elastic THEN env.val.elastic ELSE volumes.elastic)
<1> DEFINE v == env.val.elastic
<1>1. /\ v \in 0 .. MaxVersion /\ env.val.password \in 0 .. MaxSecrets
      /\ volumes \in [elastic : 0 .. MaxVersion, password : 0 .. MaxSecrets, esdiag : BOOLEAN]
      /\ running \in [elastic : 0 .. MaxVersion, esdiag : BOOLEAN]
  BY DEF TypeOK, Values
<1>2. v \in Int /\ volumes.elastic \in Int /\ volumes.elastic >= 0
  BY <1>1, BoundsAssumption
<1>3. CASE volumes.elastic = 0
  <2> DEFINE w1 == [volumes EXCEPT !.elastic = v]
             w2 == [w1 EXCEPT !.password = env.val.password]
  <2>1. volumes' = w2 /\ running' = [running EXCEPT !.elastic = v] /\ keys' = keys
    BY <1>3 DEF StartElastic
  <2>2. /\ w1 \in [elastic : 0 .. MaxVersion, password : 0 .. MaxSecrets, esdiag : BOOLEAN] /\ w1.elastic = v
    BY <1>1
  <2> HIDE DEF w1
  <2>3. /\ w2 \in [elastic : 0 .. MaxVersion, password : 0 .. MaxSecrets, esdiag : BOOLEAN]
        /\ w2.elastic = v /\ w2.password = env.val.password
    BY <1>1, <2>2
  <2> HIDE DEF w2
  <2> QED
    BY <1>1, <1>3, <2>1, <2>3
<1>4. CASE volumes.elastic > 0
  <2>1. /\ volumes' = [volumes EXCEPT !.elastic = IF v >= volumes.elastic THEN v ELSE volumes.elastic]
        /\ running' = [running EXCEPT !.elastic = IF v >= volumes.elastic THEN v ELSE 0] /\ keys' = keys
    BY <1>2, <1>4 DEF StartElastic
  <2>2. CASE v >= volumes.elastic
    BY <2>1, <2>2, <1>1, <1>4
  <2>3. CASE ~(v >= volumes.elastic)
    BY <2>1, <2>3, <1>1, <1>4, BoundsAssumption
  <2> QED
    BY <2>2, <2>3
<1> QED
  BY <1>2, <1>3, <1>4

LEMMA DataTyped ==
    ASSUME TypeInv, OnLine, running.elastic \in {0, volumes.elastic}, Next
    PROVE  TypeOK' /\ Timed'
<1>0. TypeOK /\ cmd \in CommandRecords /\ Timed
  BY DEF TypeInv
<1>1. CASE UNCHANGED <<env, compose, files, volumes, running, keys, procs>>
  BY <1>0, <1>1 DEF TypeOK, Timed
<1>2. CASE Commands
  BY <1>1, <1>2, CommandsKeep
<1>3. CASE \/ Refuse \/ WaitElasticsearch \/ SetupMode \/ WaitEsdiag \/ ChildGone \/ CheckUpgrade
           \/ Approved \/ Pulled \/ PullFails \/ Abort \/ Kill
  BY <1>1, <1>3 DEF Refuse, WaitElasticsearch, SetupMode, WaitEsdiag, ChildGone, CheckUpgrade,
                    Approved, Pulled, PullFails, Abort, Kill, disk, world
<1>4. ASSUME NEW v \in Values, env' = [on |-> TRUE, val |-> v], compose' \in Modes \cup {"none"},
             UNCHANGED <<files, volumes, running, keys, procs>>
      PROVE  TypeOK' /\ Timed'
  BY <1>0, <1>4 DEF TypeOK, Timed
<1>5. CASE WriteEnv \/ WriteKey \/ RestoreVersions \/ TearEnv
  <2>1. cmd.val \in Values /\ cmd.prev \in Values /\ Blank \in Values
    BY <1>0, Blanks DEF CommandRecords
  <2>2. compose' = compose /\ compose \in Modes \cup {"none"}
    BY <1>0, <1>5 DEF WriteEnv, WriteKey, RestoreVersions, TearEnv, TypeOK
  <2> QED
    BY <1>4, <1>5, <2>1, <2>2 DEF WriteEnv, WriteKey, RestoreVersions, TearEnv, world
<1>6. CASE WriteMode
  <2> DEFINE w == [cmd.val EXCEPT !.mode = cmd.mode]
  <2>1. w \in Values /\ compose \in Modes \cup {"none"}
    BY <1>0 DEF CommandRecords, Values, TypeOK
  <2>2. env' = [on |-> TRUE, val |-> w] /\ compose' = compose /\ UNCHANGED <<files, volumes, running, keys, procs>>
    BY <1>6 DEF WriteMode, world
  <2> HIDE DEF w
  <2> QED
    BY <1>4, <2>1, <2>2
<1>7. CASE RecordVersions \/ WriteCompose
  <2>1. /\ cmd.val \in Values /\ cmd.mode \in Modes \cup {"none"} /\ compose \in Modes \cup {"none"}
        /\ env \in [on : BOOLEAN, val : Values]
    BY <1>0 DEF CommandRecords, TypeOK
  <2>2. CASE RecordVersions
    BY <1>4, <2>1, <2>2 DEF RecordVersions, world
  <2>3. CASE WriteCompose
    BY <1>0, <2>1, <2>3 DEF WriteCompose, world, TypeOK, Timed
  <2> QED
    BY <1>7, <2>2, <2>3
<1>24. CASE WriteLevel
  BY <1>0, <1>24 DEF WriteLevel, world, TypeOK, Timed
<1>8. CASE Prepare
  BY <1>0, <1>8 DEF Prepare, TypeOK, Timed, CommandRecords, world
<1>9. CASE SetupPrepare
  BY <1>0, <1>9, SetupPrepareEffect DEF SetupPrepare, TypeOK, Timed, world
<1>10. CASE StopFull
  BY <1>0, <1>10, BoundsAssumption DEF StopFull, TypeOK, Timed, disk, NoContainers
<1>11. CASE Start
  <2>1. StartElastic /\ UNCHANGED <<env, compose, files, procs>>
    BY <1>11 DEF Start, disk
  <2> QED
    BY <1>0, <2>1, Started DEF TypeOK, Timed
<1>12. CASE ConfigureSecurity
  BY <1>0, <1>12, KeyEffect DEF ConfigureSecurity, TypeOK, Timed, disk
<1>13. CASE StartEsdiag
  BY <1>0, <1>13 DEF StartEsdiag, TypeOK, Timed, disk
<1>14. CASE Signal
  <2>1. UNCHANGED <<env, compose, files, volumes, running, keys>> /\ procs' = [procs EXCEPT ![files.pid].term = TRUE]
    BY <1>14 DEF Signal, disk, world
  <2>2. CASE files.pid \in Pids
    <3>2. /\ procs' \in [Pids -> Processes]
          /\ \A p \in Pids : procs'[p].kind = procs[p].kind /\ procs'[p].started = procs[p].started
      <4> DEFINE q == [procs[files.pid] EXCEPT !.term = TRUE]
      <4>1. procs \in [Pids -> Processes]
        BY <1>0 DEF TypeOK, Processes
      <4>2. q \in Processes /\ q.kind = procs[files.pid].kind /\ q.started = procs[files.pid].started
        BY <4>1, <2>2 DEF Processes
      <4>3. procs' = [procs EXCEPT ![files.pid] = q]
        BY <2>1
      <4> HIDE DEF q
      <4> QED
        BY <4>1, <4>2, <4>3, <2>2
    <3> QED
      BY <1>0, <2>1, <3>2 DEF TypeOK, Timed, Processes
  <2>3. CASE files.pid \notin Pids
    <3>1. procs' = procs
      BY <1>0, <2>1, <2>3 DEF TypeOK
    <3> QED
      BY <1>0, <2>1, <3>1 DEF TypeOK, Timed
  <2> QED
    BY <2>2, <2>3
<1>15. CASE Unlink
  BY <1>0, <1>15, BoundsAssumption DEF Unlink, TypeOK, Timed, world
<1>16. CASE Spawn
  <2>1. PICK q \in Processes : /\ q.kind = "native" /\ q.started = cmd'.since /\ ~q.term
                               /\ procs' = [procs EXCEPT ![cmd'.child] = q]
    BY <1>0, <1>16, SpawnEffect
  <2>2. cmd'.child \in Pids /\ cmd'.since \in 1 .. MaxStarts
    BY <1>0, <1>16, SpawnEffect
  <2>3. UNCHANGED <<env, compose, files, volumes, running, keys>>
    BY <1>16 DEF Spawn, disk, world
  <2>4. cmd'.since # 0
    BY <2>2
  <2> QED
    BY <1>0, <2>1, <2>2, <2>3, <2>4 DEF TypeOK, Timed, Processes
<1>17. CASE WritePid
  BY <1>0, <1>17 DEF WritePid, TypeOK, Timed, CommandRecords, world
<1>18. CASE WriteStarted
  BY <1>0, <1>18 DEF WriteStarted, TypeOK, Timed, CommandRecords, world
<1>19. CASE ComposeDown
  BY <1>0, <1>19, BoundsAssumption DEF ComposeDown, TypeOK, Timed, disk
<1>20. CASE ResetDown
  <2>1. [NoVolumes EXCEPT !.esdiag = volumes.esdiag /\ compose # "full"]
          \in [elastic : 0 .. MaxVersion, password : 0 .. MaxSecrets, esdiag : BOOLEAN]
    <3> DEFINE b == volumes.esdiag /\ compose # "full"
    <3>1. NoVolumes \in [elastic : 0 .. MaxVersion, password : 0 .. MaxSecrets, esdiag : BOOLEAN]
      BY BoundsAssumption DEF NoVolumes
    <3>2. b \in BOOLEAN
      BY <1>0 DEF TypeOK
    <3> HIDE DEF b
    <3> QED
      BY <3>1, <3>2
  <2> QED
    BY <1>0, <1>20, <2>1, BoundsAssumption DEF ResetDown, TypeOK, Timed, disk, NoContainers
<1>21. CASE RemoveDir
  BY <1>0, <1>21, Blanks, BoundsAssumption DEF RemoveDir, TypeOK, Timed, world, NoFiles
<1>22. CASE Recreate
  <2>1. CASE cmd.then = "esdiag"
    BY <1>0, <1>22, <2>1 DEF Recreate, TypeOK, Timed, disk
  <2>2. CASE StartElastic
    <3>1. UNCHANGED <<env, compose, files, procs>>
      BY <1>22 DEF Recreate, disk
    <3> QED
      BY <1>0, <2>2, <3>1, Started DEF TypeOK, Timed
  <2> QED
    BY <1>22, <2>1, <2>2 DEF Recreate
<1>23. CASE Machine
  <2>1. PICK p \in Pids : Exit(p) \/ OtherStarts(p)
    BY <1>23 DEF Machine
  <2>2. PICK q \in Processes : /\ procs' = [procs EXCEPT ![p] = q] /\ q.kind \in {"none", "other"} /\ q.started = 0
    <3>1. NoProcess \in Processes /\ NoProcess.kind = "none" /\ NoProcess.started = 0
      BY BoundsAssumption DEF NoProcess, Processes
    <3>2. LET o == [NoProcess EXCEPT !.kind = "other"] IN o \in Processes /\ o.kind = "other" /\ o.started = 0
      BY <3>1 DEF Processes
    <3> QED
      BY <2>1, <3>1, <3>2 DEF Exit, OtherStarts
  <2>3. UNCHANGED <<env, compose, files, volumes, running, keys>>
    BY <2>1 DEF Exit, OtherStarts, disk, world
  <2> QED
    BY <1>0, <2>2, <2>3 DEF TypeOK, Timed, Processes
<1> QED
  BY <1>2, <1>3, <1>5, <1>6, <1>7, <1>8, <1>9, <1>10, <1>11, <1>12, <1>13, <1>14, <1>15, <1>16, <1>17,
     <1>18, <1>19, <1>20, <1>21, <1>22, <1>23, <1>24 DEF Next, Steps

-----------------------------------------------------------------------------
(* Where a command can be                                                     *)

\* The steps that only move a command on.
LEMMA Moves ==
    ASSUME cmd \in CommandRecords, OnLine
    PROVE  /\ WriteEnv => At("write") /\ cmd'.pc \in {"stop_full", "start"} /\ Kept
           /\ StopFull => At("stop_full") /\ cmd'.pc = "start" /\ Kept
           /\ Start => At("start") /\ cmd'.pc = "wait_elasticsearch" /\ Kept
           /\ WaitElasticsearch => At("wait_elasticsearch") /\ cmd'.pc = "security" /\ Kept
           /\ WriteKey => At("write_key") /\ cmd'.pc = "setup" /\ Kept
           /\ StartEsdiag => At("start_esdiag") /\ cmd'.pc = "wait_esdiag" /\ Kept
           /\ WaitEsdiag => At("wait_esdiag") /\ cmd'.pc = "write_mode" /\ Kept
           /\ Unlink =>
                /\ At("unlink") /\ cmd'.pc = cmd.then /\ Kept
                /\ cmd.then \in {"spawn", "start_esdiag", "compose_down", "reset_down"}
           /\ WritePid => At("write_pid") /\ cmd'.pc = "write_started" /\ Kept /\ cmd'.since = cmd.since
           /\ RecordVersions => At("record_versions") /\ cmd'.pc = "write_compose" /\ Kept
           /\ WriteCompose => At("write_compose") /\ cmd'.pc = "pull" /\ Kept
           /\ WriteLevel =>
                /\ At("write_level") /\ cmd'.pc \in {"kill", "recreate"} /\ Kept
                /\ cmd'.pc = "kill" => cmd.then = "spawn"
           /\ PullFails => At("pull") /\ cmd'.pc = "restore_versions" /\ Kept
           /\ ResetDown => At("reset_down") /\ cmd'.pc = "remove_dir" /\ Kept
<1>1. ASSUME NEW x \in Points, Goto(x) PROVE cmd'.pc = x /\ Kept /\ cmd'.since = cmd.since
  BY <1>1, KeepsOn
<1>2. WriteEnv => At("write") /\ cmd'.pc \in {"stop_full", "start"} /\ Kept
  BY <1>1 DEF WriteEnv, Points
<1>3. /\ StopFull => At("stop_full") /\ cmd'.pc = "start" /\ Kept
      /\ Start => At("start") /\ cmd'.pc = "wait_elasticsearch" /\ Kept
      /\ WaitElasticsearch => At("wait_elasticsearch") /\ cmd'.pc = "security" /\ Kept
      /\ WriteKey => At("write_key") /\ cmd'.pc = "setup" /\ Kept
  BY <1>1 DEF StopFull, Start, WaitElasticsearch, WriteKey, Points
<1>4. /\ StartEsdiag => At("start_esdiag") /\ cmd'.pc = "wait_esdiag" /\ Kept
      /\ WaitEsdiag => At("wait_esdiag") /\ cmd'.pc = "write_mode" /\ Kept
      /\ WritePid => At("write_pid") /\ cmd'.pc = "write_started" /\ Kept /\ cmd'.since = cmd.since
  BY <1>1 DEF StartEsdiag, WaitEsdiag, WritePid, Points
<1>5. ASSUME Unlink
      PROVE  /\ At("unlink") /\ cmd'.pc = cmd.then /\ Kept
             /\ cmd.then \in {"spawn", "start_esdiag", "compose_down", "reset_down"}
  <2>1. At("unlink") /\ Goto(cmd.then)
    BY <1>5 DEF Unlink
  <2>2. cmd.then \in {"spawn", "start_esdiag", "compose_down", "reset_down"}
    BY <2>1 DEF OnLine, At
  <2> QED
    BY <1>1, <2>1, <2>2 DEF Points
<1>7. ASSUME WriteLevel
      PROVE  /\ At("write_level") /\ cmd'.pc \in {"kill", "recreate"} /\ Kept
             /\ cmd'.pc = "kill" => cmd.then = "spawn"
  <2>1. CASE cmd.then = "spawn" /\ Goto("kill")
    BY <1>1, <1>7, <2>1 DEF WriteLevel, Points
  <2>2. CASE Goto("recreate")
    BY <1>1, <1>7, <2>2 DEF WriteLevel, Points
  <2> QED
    BY <1>7, <2>1, <2>2 DEF WriteLevel
<1>6. /\ RecordVersions => At("record_versions") /\ cmd'.pc = "write_compose" /\ Kept
      /\ WriteCompose => At("write_compose") /\ cmd'.pc = "pull" /\ Kept
      /\ PullFails => At("pull") /\ cmd'.pc = "restore_versions" /\ Kept
      /\ ResetDown => At("reset_down") /\ cmd'.pc = "remove_dir" /\ Kept
  BY <1>1 DEF RecordVersions, WriteCompose, PullFails, ResetDown, Points
<1> QED
  BY <1>2, <1>3, <1>4, <1>5, <1>6, <1>7

\* The steps that end a command without a result, and those with one.
LEMMA Ends ==
    ASSUME cmd \in CommandRecords
    PROVE  /\ Refuse \/ ChildGone \/ RestoreVersions \/ Abort \/ TearEnv => cmd'.pc = "idle" /\ cmd'.name = "none"
           /\ WriteMode \/ ComposeDown \/ RemoveDir \/ Recreate =>
                cmd'.pc = "idle" /\ cmd'.name = (IF cmd.name \in {"down", "reset"} THEN cmd.name ELSE "none")
<1>1. End("err") => cmd'.pc = "idle" /\ cmd'.name = "none"
  BY Ending
<1>2. End("ok") => cmd'.pc = "idle" /\ cmd'.name = (IF cmd.name \in {"down", "reset"} THEN cmd.name ELSE "none")
  BY Ending
<1> QED
  BY <1>1, <1>2 DEF Refuse, ChildGone, RestoreVersions, Abort, TearEnv, WriteMode, ComposeDown, RemoveDir, Recreate

LEMMA StaysOnLine ==
    ASSUME TypeInv, OnLine, ModeInv, Next
    PROVE  OnLine'
<1>0. TypeOK /\ cmd \in CommandRecords
  BY DEF TypeInv
<1>1. ASSUME NEW r \in {"ok", "err"}, End(r) PROVE OnLine'
  <2>1. cmd'.pc = "idle" /\ cmd'.name \in {"none", "down", "reset"}
    BY <1>0, <1>1, Ending
  <2> QED
    BY <2>1 DEF OnLine, At, StartsStack, NotedDown
<1>2. ASSUME NEW x \in Points, Goto(x) PROVE cmd'.pc = x /\ cmd'.name = cmd.name /\ cmd'.mode = cmd.mode /\ cmd'.then = cmd.then
  BY <1>0, <1>2, KeepsOn DEF Kept
<1>3. CASE Refuse \/ WriteMode \/ ChildGone \/ RestoreVersions \/ ComposeDown \/ RemoveDir \/ Recreate \/ Abort \/ TearEnv
  BY <1>1, <1>3 DEF Refuse, WriteMode, ChildGone, RestoreVersions, ComposeDown, RemoveDir, Recreate, Abort, TearEnv
<1>4. CASE Down \/ Reset
  BY <1>4, StopEffect DEF OnLine, At, StartsStack, NotedDown
<1>5. CASE Setup
  <2>1. cmd'.pc = "setup_prepare" /\ cmd'.name = "setup"
    BY <1>0, <1>5, Beginning, BoundsAssumption DEF Setup, Names, Points, Versions
  <2> QED
    BY <2>1 DEF OnLine, At, StartsStack, NotedDown
<1>6. CASE \E service \in {"elasticsearch", "esdiag"}, level \in BOOLEAN : Restart(service, level)
  <2>1. cmd'.name = "restart" /\ ((cmd'.pc = "kill" /\ cmd'.then = "spawn") \/ cmd'.pc \in {"write_level", "recreate"})
    BY <1>6, RestartEffect
  <2> QED
    BY <2>1 DEF OnLine, At, StartsStack, NotedDown
<1>7. CASE \E bin \in Versions : \E stack \in Modes \cup {"auto"}, native \in BOOLEAN : Up(bin, stack, native)
  <2>1. cmd'.pc = "prepare" /\ cmd'.name = "up" /\ cmd'.mode \in Modes
    BY <1>0, <1>7, UpEffect
  <2> QED
    BY <2>1 DEF OnLine, At, StartsStack, NotedDown, Modes
<1>8. CASE \E bin \in Versions : Upgrade(bin)
  <2>1. cmd'.pc = "check_upgrade" /\ cmd'.name = "upgrade"
    BY <1>0, <1>8, Beginning DEF Upgrade, Names, Points
  <2> QED
    BY <2>1 DEF OnLine, At, StartsStack, NotedDown
<1>9. CASE Prepare
  <2>1. cmd'.pc = "write" /\ cmd'.name = cmd.name /\ cmd'.mode = cmd.mode /\ cmd.pc = "prepare"
    BY <1>0, <1>9, PrepareEffect DEF Prepare, At
  <2> QED
    BY <2>1 DEF OnLine, At, StartsStack, NotedDown
<1>10. CASE WriteEnv
  BY <1>0, <1>10, Moves DEF Kept, OnLine, At, StartsStack, NotedDown
<1>11. CASE StopFull
  BY <1>0, <1>11, Moves DEF Kept, OnLine, At, StartsStack, NotedDown
<1>12. CASE Start
  BY <1>0, <1>12, Moves DEF Kept, OnLine, At, StartsStack, NotedDown
<1>13. CASE WaitElasticsearch
  BY <1>0, <1>13, Moves DEF Kept, OnLine, At, StartsStack, NotedDown
<1>14. CASE ConfigureSecurity
  <2>1. cmd.pc = "security" /\ cmd'.pc = "write_key" /\ cmd'.name = cmd.name /\ cmd'.mode = cmd.mode
    BY <1>0, <1>14, KeyEffect DEF ConfigureSecurity, At
  <2> QED
    BY <2>1 DEF OnLine, At, StartsStack, NotedDown
<1>15. CASE WriteKey
  BY <1>0, <1>15, Moves DEF Kept, OnLine, At, StartsStack, NotedDown
<1>16. CASE SetupMode
  <2>1. cmd.pc = "setup"
    BY <1>16 DEF SetupMode, At
  <2>2. CASE End("ok")
    BY <1>1, <2>2
  <2>3. CASE cmd.name # "setup" /\ Goto("write_mode")
    <3>1. cmd'.pc = "write_mode" /\ cmd'.name = cmd.name /\ cmd'.mode = cmd.mode
      BY <1>2, <2>3 DEF Points
    <3> QED
      BY <2>1, <2>3, <3>1 DEF OnLine, At, StartsStack, NotedDown
  <2>4. CASE /\ cmd.name # "setup" /\ cmd'.pc = "kill" /\ cmd'.name = cmd.name /\ cmd'.mode = cmd.mode
             /\ cmd'.then = "spawn" \/ (cmd'.then = "start_esdiag" /\ cmd.mode = "full")
    BY <2>1, <2>4 DEF OnLine, At, StartsStack, NotedDown
  <2> QED
    BY <1>0, <1>16, <2>2, <2>3, <2>4, SetupEffect
<1>17. CASE StartEsdiag
  BY <1>0, <1>17, Moves DEF Kept, OnLine, At, StartsStack, NotedDown
<1>18. CASE WaitEsdiag
  BY <1>0, <1>18, Moves DEF Kept, OnLine, At, StartsStack, NotedDown
<1>19. CASE Kill \/ Signal \/ Unlink
  <2>1. /\ cmd.pc \in {"kill", "signal", "unlink"} /\ cmd'.pc \in {"signal", "unlink", cmd.then} /\ Kept
    BY <1>0, <1>19, Moves, KillEffect, SignalEffect DEF At
  <2> QED
    BY <1>0, <2>1 DEF Kept, OnLine, At, StartsStack, NotedDown
<1>31. CASE WriteCompose
  BY <1>0, <1>31, Moves DEF Kept, OnLine, At, StartsStack, NotedDown
<1>32. CASE WriteLevel
  <2>1. /\ At("write_level") /\ cmd.name = "restart" /\ cmd'.name = "restart" /\ cmd'.pc \in {"kill", "recreate"}
        /\ cmd'.pc = "kill" => cmd'.then = "spawn"
    BY <1>0, <1>32, Moves DEF Kept, OnLine, At
  <2> QED
    BY <2>1 DEF OnLine, At, StartsStack, NotedDown
<1>20. CASE Spawn
  <2>1. cmd.pc = "spawn" /\ cmd'.pc = "write_pid" /\ cmd'.name = cmd.name /\ cmd'.mode = cmd.mode
    BY <1>0, <1>20, SpawnEffect DEF Spawn, At
  <2> QED
    BY <2>1 DEF OnLine, At, StartsStack, NotedDown
<1>21. CASE WritePid
  BY <1>0, <1>21, Moves DEF Kept, OnLine, At, StartsStack, NotedDown
<1>22. CASE WriteStarted
  <2>1. CASE End("ok")
    BY <1>1, <2>1
  <2>2. CASE cmd.name # "restart" /\ Goto("wait_esdiag")
    <3>1. cmd.pc = "write_started" /\ cmd'.pc = "wait_esdiag" /\ cmd'.name = cmd.name /\ cmd'.mode = cmd.mode
      BY <1>2, <1>22, <2>2 DEF WriteStarted, At, Points
    <3> QED
      BY <2>2, <3>1 DEF OnLine, At, StartsStack, NotedDown
  <2> QED
    BY <1>22, <2>1, <2>2 DEF WriteStarted
<1>23. CASE CheckUpgrade
  <2>1. CASE End("ok")
    BY <1>1, <2>1
  <2>2. CASE Goto("approved")
    <3>1. cmd.pc = "check_upgrade" /\ cmd'.pc = "approved" /\ cmd'.name = cmd.name
      BY <1>2, <1>23, <2>2 DEF CheckUpgrade, At, Points
    <3> QED
      BY <3>1 DEF OnLine, At, StartsStack, NotedDown
  <2> QED
    BY <1>23, <2>1, <2>2 DEF CheckUpgrade
<1>24. CASE Approved
  <2>1. cmd.pc = "approved" /\ cmd'.pc = "record_versions" /\ cmd'.name = cmd.name
    BY <1>0, <1>24, ApprovedEffect DEF Approved, At
  <2> QED
    BY <2>1 DEF OnLine, At, StartsStack, NotedDown
<1>25. CASE RecordVersions
  BY <1>0, <1>25, Moves DEF Kept, OnLine, At, StartsStack, NotedDown
<1>26. CASE Pulled
  <2>1. CASE End("ok")
    BY <1>1, <2>1
  <2>2. CASE cmd'.pc = "prepare" /\ cmd'.name = cmd.name /\ cmd'.mode = cmd.mode
    <3>1. cmd.pc = "pull" /\ cmd.name = "upgrade"
      BY <1>26 DEF Pulled, At, OnLine
    <3>2. cmd.mode \in Modes
      BY <1>0, <3>1 DEF ModeInv, ActiveMode, ResolveMode, CommandRecords, Values, Modes
    <3> QED
      BY <2>2, <3>1, <3>2 DEF OnLine, At, StartsStack, NotedDown, Modes
  <2> QED
    BY <1>0, <1>26, <2>1, <2>2, PulledEffect
<1>27. CASE PullFails
  BY <1>0, <1>27, Moves DEF Kept, OnLine, At, StartsStack, NotedDown
<1>28. CASE ResetDown
  BY <1>0, <1>28, Moves DEF Kept, OnLine, At, StartsStack, NotedDown
<1>29. CASE SetupPrepare
  <2>1. cmd.pc = "setup_prepare" /\ cmd'.pc = "setup" /\ cmd'.name = cmd.name
    BY <1>0, <1>29, SetupPrepareEffect DEF SetupPrepare, At
  <2> QED
    BY <2>1 DEF OnLine, At, StartsStack, NotedDown
<1>30. CASE Machine
  <2>1. cmd' = cmd
    BY <1>30 DEF Machine, Exit, OtherStarts
  <2> QED
    BY <2>1 DEF OnLine, At, StartsStack, NotedDown
<1> QED
  BY <1>3, <1>4, <1>5, <1>6, <1>7, <1>8, <1>9, <1>10, <1>11, <1>12, <1>13, <1>14, <1>15, <1>16, <1>17, <1>18,
     <1>19, <1>20, <1>21, <1>22, <1>23, <1>24, <1>25, <1>26, <1>27, <1>28, <1>29, <1>30, <1>31, <1>32
     DEF Next, Commands, Steps

-----------------------------------------------------------------------------
(* .env and the volumes                                                       *)

LEMMA EnvKept ==
    ASSUME TypeInv, OnLine, EnvInv, CopyInv, Next
    PROVE  EnvInv' /\ CopyInv'
<1>0. TypeOK /\ cmd \in CommandRecords
  BY DEF TypeInv
<1>t. /\ volumes.elastic \in Nat /\ env.val \in Values /\ env.val.elastic \in Nat
      /\ env.val.apikey \in Nat /\ cmd.val \in Values /\ cmd.val.elastic \in Nat /\ cmd.val.apikey \in Nat
      /\ cmd.prev.elastic \in Nat /\ cmd.prev.apikey \in Nat /\ cmd.bin \in Nat \ {0}
  BY <1>0, BoundsAssumption DEF TypeOK, Values, CommandRecords, Versions
\* A command that ends or is taken no further.
<1>1. ASSUME cmd'.pc = "idle", cmd'.name \in {"none", "down", "reset"} PROVE CopyInv'
  BY <1>1 DEF CopyInv, At, StartsStack, NotedDown
<1>2. ASSUME cmd'.pc # "remove_dir", UNCHANGED <<env, volumes, running, keys>>, cut \subseteq cut',
             At("remove_dir") => "reset" \in cut'
      PROVE  EnvInv'
  BY <1>2, <1>t DEF EnvInv, Fits, At, Blank
<1>3. CASE Refuse \/ ChildGone \/ Abort
  <2>1. UNCHANGED <<env, volumes, running, keys>> /\ cut \subseteq cut'
    BY <1>3 DEF Refuse, ChildGone, Abort, disk, world
  <2>2. At("remove_dir") => "reset" \in cut'
    BY <1>3 DEF Refuse, ChildGone, Abort, Marks, At
  <2>3. cmd'.pc = "idle" /\ cmd'.name = "none"
    BY <1>0, <1>3, Ends
  <2> QED
    BY <1>1, <1>2, <2>1, <2>2, <2>3
<1>4. CASE TearEnv
  <2>1. env'.on = TRUE /\ env'.val = Blank /\ UNCHANGED <<volumes, running, keys>> /\ "env" \in cut'
    BY <1>4 DEF TearEnv, world
  <2>2. cmd'.pc = "idle" /\ cmd'.name = "none"
    BY <1>0, <1>4, Ends
  <2>3. EnvInv'
    BY <2>1, <2>2 DEF EnvInv, At
  <2> QED
    BY <1>1, <2>2, <2>3
<1>5. CASE Commands
  <2>1. UNCHANGED <<env, volumes, running, keys, cut>> /\ At("idle")
    BY <1>5, CommandsKeep
  <2>2. CASE Down \/ Reset
    <3>1. cmd'.pc = "kill" /\ cmd'.name \in {"down", "reset"}
      BY <2>2, StopEffect
    <3>2. EnvInv'
      BY <1>2, <2>1, <3>1 DEF At
    <3> QED
      BY <3>1, <3>2 DEF CopyInv, At, StartsStack, NotedDown
  <2>3. CASE Setup
    <3>1. cmd'.pc = "setup_prepare" /\ cmd'.name = "setup" /\ cmd'.val = env.val /\ cmd'.has = env.on
      BY <1>0, <2>3, Beginning, BoundsAssumption DEF Setup, Names, Points, Versions
    <3>2. EnvInv'
      BY <1>2, <2>1, <3>1 DEF At
    <3> QED
      BY <2>1, <3>1, <3>2 DEF CopyInv, At, StartsStack, NotedDown
  <2>4. CASE \E service \in {"elasticsearch", "esdiag"}, level \in BOOLEAN : Restart(service, level)
    <3>1. cmd'.name = "restart" /\ cmd'.pc \in {"write_level", "kill", "recreate"}
      BY <2>4, RestartEffect
    <3>2. EnvInv'
      BY <1>2, <2>1, <3>1 DEF At
    <3> QED
      BY <3>1, <3>2 DEF CopyInv, At, StartsStack, NotedDown
  <2>5. CASE \E bin \in Versions : \E stack \in Modes \cup {"auto"}, native \in BOOLEAN : Up(bin, stack, native)
    <3>1. cmd'.pc = "prepare" /\ cmd'.name = "up" /\ cmd'.val = env.val /\ cmd'.has = env.on
      BY <1>0, <2>5, UpEffect
    <3>2. EnvInv'
      BY <1>2, <2>1, <3>1 DEF At
    <3> QED
      BY <2>1, <3>1, <3>2 DEF CopyInv, At, StartsStack, NotedDown
  <2>6. CASE \E bin \in Versions : Upgrade(bin)
    <3>1. cmd'.pc = "check_upgrade" /\ cmd'.name = "upgrade" /\ cmd'.val = env.val /\ cmd'.has = env.on
      BY <1>0, <2>6, Beginning DEF Upgrade, Names, Points
    <3>2. EnvInv'
      BY <1>2, <2>1, <3>1 DEF At
    <3> QED
      BY <2>1, <3>1, <3>2 DEF CopyInv, At, StartsStack, NotedDown
  <2> QED
    BY <1>5, <2>2, <2>3, <2>4, <2>5, <2>6 DEF Commands
\* initialize keeps what fits, and fills in what nothing depends on.
<1>6. CASE Prepare
  <2>1. UNCHANGED <<env, volumes, running, keys, cut>> /\ At("prepare") /\ Coupled(cmd.val, cmd.has)
    BY <1>6 DEF Prepare, world, history
  <2>2. PICK fresh : /\ cmd.val.password = 0 => fresh \in 1 .. MaxSecrets
                     /\ cmd'.val = Initialized(cmd.val, cmd.bin, fresh)
    BY <1>0, <1>6, PrepareEffect
  <2>3. /\ cmd'.pc = "write" /\ cmd'.name = cmd.name /\ cmd'.has = cmd.has
    BY <1>0, <1>6, PrepareEffect
  <2>4. /\ cmd'.val \in Values /\ cmd'.val.mode = cmd.val.mode
        /\ cmd'.val.password = (IF cmd.val.password = 0 THEN fresh ELSE cmd.val.password)
        /\ cmd'.val.apikey = (IF cmd.val.apikey = 0 THEN Pending ELSE cmd.val.apikey)
        /\ cmd'.val.elastic = (IF cmd.val.elastic = 0 THEN cmd.bin ELSE cmd.val.elastic)
    <3>1. cmd.val \in Values /\ cmd.bin \in Versions
      BY <1>0 DEF CommandRecords
    <3> QED
      BY <2>2, <3>1, InitializedFields
  <2>5. cmd.val = env.val /\ cmd.has = env.on
    BY <2>1 DEF CopyInv, At
  <2>6. EnvInv'
    BY <1>2, <2>1, <2>3 DEF At
  <2>7. ASSUME "env" \notin cut PROVE Good(cmd.val)'
    <3>1. cmd'.val.password # 0
      BY <2>2, <2>4
    <3>2. Fits(env.val) /\ (env.val.elastic > 0 => env.val.password # 0) /\ (volumes.elastic > 0 => env.on) /\ (~env.on => env.val = Blank)
      BY <2>1, <2>7 DEF EnvInv, At
    <3>3. Pending = 1 /\ Blank.apikey = 0
      BY DEF Pending, Blank
    <3>4. CASE volumes.elastic > 0
      BY <1>t, <2>1, <2>4, <2>5, <3>1, <3>2, <3>3, <3>4 DEF Good, Fits
    <3>5. CASE volumes.elastic = 0
      BY <1>t, <2>1, <2>4, <2>5, <3>1, <3>2, <3>3, <3>5 DEF Good, Fits
    <3> QED
      BY <1>t, <3>4, <3>5
  <2> QED
    BY <2>1, <2>3, <2>4, <2>5, <2>6, <2>7 DEF CopyInv, At, StartsStack, NotedDown
<1>7. CASE WriteEnv \/ WriteKey
  <2>1. /\ UNCHANGED <<volumes, running, keys, cut>> /\ env'.on = TRUE /\ env'.val = cmd.val
    BY <1>7 DEF WriteEnv, WriteKey, world, history
  <2>2. /\ cmd.pc \in {"write", "write_key"} /\ cmd'.pc \in {"stop_full", "start", "setup"} /\ Kept
    BY <1>0, <1>7, Moves DEF At
  <2>3. EnvInv'
    BY <2>1, <2>2 DEF EnvInv, CopyInv, At, Good, Fits
  <2>4. CopyInv'
    BY <2>1, <2>2 DEF CopyInv, At, Kept, StartsStack, NotedDown
  <2> QED
    BY <2>3, <2>4
<1>8. CASE StopFull
  <2>1. /\ UNCHANGED <<env, volumes, keys, cut>> /\ running'.elastic = 0
    BY <1>8 DEF StopFull, disk, history, NoContainers
  <2>2. At("stop_full") /\ cmd'.pc = "start" /\ Kept
    BY <1>0, <1>8, Moves
  <2>3. EnvInv'
    BY <2>1, <2>2 DEF EnvInv, At, Fits
  <2> QED
    BY <2>1, <2>2, <2>3 DEF CopyInv, At, Kept, StartsStack, NotedDown
\* The first start gives the volumes the values of .env, a later one keeps them.
<1>9. ASSUME StartElastic, env.on, ~At("remove_dir"), cmd'.pc # "remove_dir", UNCHANGED <<env, cut>>
      PROVE  EnvInv'
  <2>1. /\ running'.elastic \in {0, volumes'.elastic} /\ keys' = keys /\ volumes'.elastic \in Nat
        /\ volumes.elastic = 0 =>
             volumes'.elastic = env.val.elastic /\ volumes'.password = env.val.password
        /\ volumes.elastic > 0 =>
             /\ volumes'.password = volumes.password
             /\ volumes'.elastic = (IF env.val.elastic >= volumes.elastic THEN env.val.elastic ELSE volumes.elastic)
    <3>1. running.elastic \in {0, volumes.elastic}
      BY DEF EnvInv
    <3>2. volumes'.elastic \in 0 .. MaxVersion
      BY <1>0, <1>9, <3>1, Started
    <3> QED
      BY <1>0, <1>9, <3>1, <3>2, Started, BoundsAssumption
  <2>2. CASE volumes.elastic = 0
    BY <1>9, <1>t, <2>1, <2>2 DEF EnvInv, Fits, At, Pending
  <2>3. CASE volumes.elastic > 0
    BY <1>9, <1>t, <2>1, <2>3 DEF EnvInv, Fits, At
  <2> QED
    BY <1>t, <2>2, <2>3
<1>10. CASE Start
  <2>1. StartElastic /\ env.on /\ UNCHANGED <<env, cut>>
    BY <1>10 DEF Start, ComposeWorks, disk, history
  <2>2. At("start") /\ cmd'.pc = "wait_elasticsearch" /\ Kept
    BY <1>0, <1>10, Moves
  <2>3. EnvInv'
    BY <1>9, <2>1, <2>2 DEF At
  <2> QED
    BY <2>1, <2>2, <2>3 DEF CopyInv, At, Kept, StartsStack, NotedDown
<1>11. CASE WaitElasticsearch \/ WaitEsdiag \/ WritePid \/ Kill \/ Signal \/ Unlink
  <2>1. UNCHANGED <<env, volumes, running, keys, cut>>
    BY <1>11 DEF WaitElasticsearch, WaitEsdiag, WritePid, Kill, Signal, Unlink, disk, world, history
  <2>2. /\ cmd.pc \in {"wait_elasticsearch", "wait_esdiag", "write_pid", "kill", "signal", "unlink"}
        /\ cmd'.pc \in {"security", "write_mode", "write_started", "signal", "unlink", "spawn", "start_esdiag",
                         "compose_down", "reset_down"}
        /\ Kept
    BY <1>0, <1>11, Moves, KillEffect, SignalEffect DEF At
  <2>3. EnvInv'
    BY <1>2, <2>1, <2>2 DEF At
  <2> QED
    BY <2>1, <2>2, <2>3 DEF CopyInv, At, Kept, StartsStack, NotedDown
\* The key that the command is about to write is one the cluster knows.
<1>12. CASE ConfigureSecurity
  <2>1. UNCHANGED <<env, volumes, running, cut>> /\ At("security") /\ running.elastic > 0
    BY <1>12 DEF ConfigureSecurity, disk, history
  <2>2. /\ cmd'.pc = "write_key" /\ cmd'.name = cmd.name /\ keys \subseteq keys'
        /\ cmd'.val.mode = cmd.val.mode /\ cmd'.val.password = cmd.val.password /\ cmd'.val.elastic = cmd.val.elastic
        /\ cmd'.val.apikey = cmd.val.apikey \/ cmd'.val.apikey \in keys'
    BY <1>0, <1>12, KeyEffect
  <2>3. volumes.elastic > 0
    BY <1>t, <2>1 DEF EnvInv
  <2>4. StartsStack(cmd.name) /\ env.on /\ cmd.val = env.val
    BY <2>1 DEF OnLine, CopyInv, At, NotedDown
  <2>5. EnvInv'
    BY <1>t, <2>1, <2>2, <2>3 DEF EnvInv, Fits, At
  <2>6. ASSUME "env" \notin cut PROVE Good(cmd.val)'
    BY <1>t, <2>1, <2>2, <2>3, <2>4, <2>6 DEF EnvInv, Good, Fits, At
  <2> QED
    BY <2>1, <2>2, <2>4, <2>5, <2>6 DEF CopyInv, At, StartsStack, NotedDown
<1>13. CASE SetupMode
  <2>1. UNCHANGED <<env, volumes, running, keys, cut>> /\ At("setup")
    BY <1>13 DEF SetupMode, disk, world, history
  <2>2. CASE cmd.name = "setup" /\ End("ok")
    <3>1. cmd'.pc = "idle" /\ cmd'.name = "none"
      BY <1>0, <2>2, Ending
    <3> QED
      BY <1>1, <1>2, <2>1, <3>1 DEF At
  <2>3. CASE Goto("write_mode")
    <3>1. cmd'.pc = "write_mode" /\ Kept
      BY <1>0, <2>3, KeepsOn DEF Points
    <3>2. EnvInv'
      BY <1>2, <2>1, <3>1 DEF At
    <3> QED
      BY <2>1, <3>1, <3>2 DEF CopyInv, At, Kept, StartsStack, NotedDown
  <2>4. CASE cmd'.pc = "kill" /\ cmd'.name = cmd.name /\ cmd'.val = cmd.val /\ cmd'.has = cmd.has
    <3>1. EnvInv'
      BY <1>2, <2>1, <2>4 DEF At
    <3> QED
      BY <2>1, <2>4, <3>1 DEF CopyInv, At, StartsStack, NotedDown
  <2> QED
    BY <1>0, <1>13, <2>2, <2>3, <2>4, SetupEffect
<1>14. CASE StartEsdiag
  <2>1. /\ UNCHANGED <<env, keys, cut>> /\ volumes'.elastic = volumes.elastic /\ volumes'.password = volumes.password
        /\ running'.elastic = running.elastic
    BY <1>0, <1>14 DEF StartEsdiag, disk, history, TypeOK
  <2>2. At("start_esdiag") /\ cmd'.pc = "wait_esdiag" /\ Kept
    BY <1>0, <1>14, Moves
  <2>3. EnvInv'
    BY <2>1, <2>2 DEF EnvInv, At, Fits
  <2> QED
    BY <2>1, <2>2, <2>3 DEF CopyInv, At, Kept, StartsStack, NotedDown
<1>15. CASE WriteMode
  <2>1. /\ UNCHANGED <<volumes, running, keys, cut>> /\ At("write_mode") /\ env'.on = TRUE
        /\ env'.val.apikey = cmd.val.apikey /\ env'.val.password = cmd.val.password /\ env'.val.elastic = cmd.val.elastic
    BY <1>0, <1>t, <1>15 DEF WriteMode, world, history, Values
  <2>2. env.on /\ cmd.val = env.val
    BY <2>1 DEF OnLine, CopyInv, At, NotedDown
  <2>3. cmd'.pc = "idle" /\ cmd'.name \in {"none", "down", "reset"}
    BY <1>0, <1>15, Ends
  <2>4. EnvInv'
    BY <2>1, <2>2, <2>3 DEF EnvInv, At, Fits
  <2> QED
    BY <1>1, <2>3, <2>4
<1>16. CASE Spawn
  <2>1. UNCHANGED <<env, volumes, running, keys, cut>> /\ At("spawn")
    BY <1>16 DEF Spawn, disk, world, history
  <2>2. cmd'.pc = "write_pid" /\ cmd'.name = cmd.name /\ cmd'.val = cmd.val /\ cmd'.has = cmd.has
    BY <1>0, <1>16, SpawnEffect
  <2>3. EnvInv'
    BY <1>2, <2>1, <2>2 DEF At
  <2> QED
    BY <2>1, <2>2, <2>3 DEF CopyInv, At, StartsStack, NotedDown
<1>17. CASE WriteStarted
  <2>1. UNCHANGED <<env, volumes, running, keys, cut>> /\ At("write_started")
    BY <1>17 DEF WriteStarted, world, history
  <2>2. CASE End("ok")
    <3>1. cmd'.pc = "idle" /\ cmd'.name \in {"none", "down", "reset"}
      BY <1>0, <2>2, Ending
    <3> QED
      BY <1>1, <1>2, <2>1, <3>1 DEF At
  <2>3. CASE Goto("wait_esdiag")
    <3>1. cmd'.pc = "wait_esdiag" /\ Kept
      BY <1>0, <2>3, KeepsOn DEF Points
    <3>2. EnvInv'
      BY <1>2, <2>1, <3>1 DEF At
    <3> QED
      BY <2>1, <3>1, <3>2 DEF CopyInv, At, Kept, StartsStack, NotedDown
  <2> QED
    BY <1>17, <2>2, <2>3 DEF WriteStarted
<1>18. CASE CheckUpgrade
  <2>1. UNCHANGED <<env, volumes, running, keys, cut>> /\ At("check_upgrade") /\ cmd.has /\ cmd.val.elastic <= cmd.bin
    BY <1>18 DEF CheckUpgrade, disk, world, history
  <2>2. CASE End("ok")
    <3>1. cmd'.pc = "idle" /\ cmd'.name \in {"none", "down", "reset"}
      BY <1>0, <2>2, Ending
    <3> QED
      BY <1>1, <1>2, <2>1, <3>1 DEF At
  <2>3. CASE Goto("approved") /\ cmd.val.elastic > 0
    <3>1. cmd'.pc = "approved" /\ Kept
      BY <1>0, <2>3, KeepsOn DEF Points
    <3>2. EnvInv'
      BY <1>2, <2>1, <3>1 DEF At
    <3> QED
      BY <2>1, <2>3, <3>1, <3>2 DEF CopyInv, At, Kept, StartsStack, NotedDown
  <2> QED
    BY <1>18, <2>2, <2>3 DEF CheckUpgrade
\* The versions go up, and back when the pull fails, from what fits the volumes.
<1>19. CASE Approved
  <2>1. UNCHANGED <<env, volumes, running, keys, cut>> /\ At("approved")
    BY <1>19 DEF Approved, disk, world, history
  <2>2. /\ cmd'.pc = "record_versions" /\ cmd'.name = cmd.name /\ cmd'.has = cmd.has /\ cmd'.prev = cmd.val
        /\ cmd'.val.mode = cmd.val.mode /\ cmd'.val.password = cmd.val.password
        /\ cmd'.val.apikey = cmd.val.apikey /\ cmd'.val.elastic = cmd.bin
    BY <1>0, <1>19, ApprovedEffect
  <2>3. cmd.val = env.val /\ cmd.has = env.on /\ env.on /\ 0 < cmd.val.elastic /\ cmd.val.elastic <= cmd.bin
    BY <2>1 DEF CopyInv, At
  <2>4. EnvInv'
    BY <1>2, <2>1, <2>2 DEF At
  <2>5. ASSUME "env" \notin cut PROVE Good(cmd.val)' /\ Good(cmd.prev)'
    <3>1. Fits(env.val) /\ env.val.password # 0
      BY <2>1, <2>3, <2>5 DEF EnvInv, At
    <3>2. cmd'.val.elastic >= env.val.elastic
      BY <1>t, <2>2, <2>3
    <3> QED
      BY <1>t, <2>1, <2>2, <2>3, <3>1, <3>2 DEF Good, Fits
  <2> QED
    BY <2>1, <2>2, <2>3, <2>4, <2>5 DEF CopyInv, At, StartsStack, NotedDown
<1>20. CASE RecordVersions
  <2>1. UNCHANGED <<volumes, running, keys, cut>> /\ env'.on = TRUE /\ env'.val = cmd.val
    BY <1>20 DEF RecordVersions, world, history
  <2>2. At("record_versions") /\ cmd'.pc = "write_compose" /\ Kept
    BY <1>0, <1>20, Moves
  <2>3. EnvInv'
    BY <2>1, <2>2 DEF EnvInv, CopyInv, At, Good, Fits
  <2> QED
    BY <2>1, <2>2, <2>3 DEF CopyInv, At, Kept, StartsStack, NotedDown, Good, Fits
<1>30. CASE WriteCompose
  <2>1. UNCHANGED <<env, volumes, running, keys, cut>>
    BY <1>30 DEF WriteCompose, world, history
  <2>2. At("write_compose") /\ cmd'.pc = "pull" /\ Kept
    BY <1>0, <1>30, Moves
  <2>3. EnvInv'
    BY <1>2, <2>1, <2>2 DEF At
  <2> QED
    BY <2>1, <2>2, <2>3 DEF CopyInv, At, Kept, StartsStack, NotedDown, Good, Fits
<1>31. CASE WriteLevel
  <2>1. UNCHANGED <<volumes, running, keys, cut>> /\ env'.on = TRUE /\ env'.val = env.val
    BY <1>0, <1>31 DEF WriteLevel, world, history, TypeOK
  <2>2. At("write_level") /\ cmd'.pc \in {"kill", "recreate"} /\ Kept /\ cmd.name = "restart"
    BY <1>0, <1>31, Moves DEF OnLine, At
  <2>3. EnvInv'
    BY <2>1, <2>2 DEF EnvInv, At, Fits
  <2> QED
    BY <2>1, <2>2, <2>3 DEF CopyInv, At, Kept, StartsStack, NotedDown
<1>21. CASE Pulled
  <2>1. UNCHANGED <<env, volumes, running, keys, cut>> /\ At("pull")
    BY <1>21 DEF Pulled, disk, world, history
  <2>2. CASE End("ok")
    <3>1. cmd'.pc = "idle" /\ cmd'.name \in {"none", "down", "reset"}
      BY <1>0, <2>2, Ending
    <3> QED
      BY <1>1, <1>2, <2>1, <3>1 DEF At
  <2>3. CASE cmd'.pc = "prepare" /\ cmd'.name = cmd.name /\ cmd'.has = cmd.has /\ cmd'.val = cmd.val
    <3>1. EnvInv'
      BY <1>2, <2>1, <2>3 DEF At
    <3>2. env.on \in BOOLEAN /\ cmd.has \in BOOLEAN
      BY <1>0 DEF TypeOK, CommandRecords
    <3> QED
      BY <2>1, <2>3, <3>1, <3>2 DEF CopyInv, At, StartsStack, NotedDown
  <2> QED
    BY <1>0, <1>21, <2>2, <2>3, PulledEffect
<1>22. CASE PullFails
  <2>1. UNCHANGED <<env, volumes, running, keys, cut>>
    BY <1>22 DEF PullFails, disk, world, history
  <2>2. At("pull") /\ cmd'.pc = "restore_versions" /\ Kept
    BY <1>0, <1>22, Moves
  <2>3. EnvInv'
    BY <1>2, <2>1, <2>2 DEF At
  <2> QED
    BY <2>1, <2>2, <2>3 DEF CopyInv, At, Kept, StartsStack, NotedDown, Good, Fits
<1>23. CASE RestoreVersions
  <2>1. UNCHANGED <<volumes, running, keys, cut>> /\ env'.on = TRUE /\ env'.val = cmd.prev /\ At("restore_versions")
    BY <1>23 DEF RestoreVersions, world, history
  <2>2. cmd'.pc = "idle" /\ cmd'.name = "none"
    BY <1>0, <1>23, Ends
  <2>3. EnvInv'
    BY <2>1, <2>2 DEF EnvInv, CopyInv, At, Good, Fits
  <2> QED
    BY <1>1, <2>2, <2>3
<1>24. CASE ComposeDown
  <2>1. UNCHANGED <<env, volumes, keys, cut>> /\ running'.elastic = 0 /\ At("compose_down")
    BY <1>24 DEF ComposeDown, disk, history
  <2>2. cmd'.pc = "idle" /\ cmd'.name \in {"none", "down", "reset"}
    BY <1>0, <1>24, Ends
  <2>3. EnvInv'
    BY <2>1, <2>2 DEF EnvInv, At, Fits
  <2> QED
    BY <1>1, <2>2, <2>3
<1>25. CASE ResetDown
  <2>1. UNCHANGED <<env, cut>> /\ running' = NoContainers /\ volumes'.elastic = 0
    BY <1>25 DEF ResetDown, disk, history, NoVolumes
  <2>2. At("reset_down") /\ cmd'.pc = "remove_dir" /\ Kept /\ cmd.name = "reset"
    BY <1>0, <1>25, Moves DEF OnLine, At
  <2>3. EnvInv'
    BY <2>1, <2>2 DEF EnvInv, At, NoContainers
  <2> QED
    BY <2>1, <2>2, <2>3 DEF CopyInv, At, Kept, StartsStack, NotedDown
<1>26. CASE RemoveDir
  <2>1. UNCHANGED <<volumes, running, keys, cut>> /\ env'.on = FALSE /\ env'.val = Blank /\ At("remove_dir")
    BY <1>26 DEF RemoveDir, world, history
  <2>2. cmd'.pc = "idle" /\ cmd'.name \in {"none", "down", "reset"}
    BY <1>0, <1>26, Ends
  <2>3. EnvInv'
    BY <2>1, <2>2 DEF EnvInv, At, Fits, Blank, Pending
  <2> QED
    BY <1>1, <2>2, <2>3
<1>27. CASE SetupPrepare
  <2>1. UNCHANGED <<env, volumes, running, keys, cut>> /\ At("setup_prepare")
    BY <1>27 DEF SetupPrepare, world, history
  <2>2. cmd'.pc = "setup" /\ cmd'.name = "setup"
    BY <1>0, <1>27, <2>1, SetupPrepareEffect DEF OnLine, At
  <2>3. EnvInv'
    BY <1>2, <2>1, <2>2 DEF At
  <2> QED
    BY <2>2, <2>3 DEF CopyInv, At, StartsStack, NotedDown
<1>28. CASE Recreate
  <2>1. UNCHANGED <<env, cut>> /\ env.on /\ At("recreate")
    BY <1>28 DEF Recreate, ComposeWorks, disk, history
  <2>2. cmd'.pc = "idle" /\ cmd'.name \in {"none", "down", "reset"}
    BY <1>0, <1>28, Ends
  <2>3. CASE StartElastic
    BY <1>1, <1>9, <2>1, <2>2, <2>3 DEF At
  <2>4. CASE cmd.then = "esdiag"
    <3>1. /\ keys' = keys /\ volumes'.elastic = volumes.elastic /\ volumes'.password = volumes.password
          /\ running'.elastic = running.elastic
      BY <1>0, <1>28, <2>4 DEF Recreate, TypeOK
    <3>2. EnvInv'
      BY <2>1, <2>2, <3>1 DEF EnvInv, At, Fits
    <3> QED
      BY <1>1, <2>2, <3>2
  <2> QED
    BY <1>28, <2>3, <2>4 DEF Recreate
<1>29. CASE Machine
  <2>1. UNCHANGED <<env, volumes, running, keys, cut, cmd>>
    BY <1>29 DEF Machine, Exit, OtherStarts, disk, world, history
  <2> QED
    BY <2>1 DEF EnvInv, CopyInv, At, Fits, Good
<1> QED
  BY <1>3, <1>4, <1>5, <1>6, <1>7, <1>8, <1>10, <1>11, <1>12, <1>13, <1>14, <1>15, <1>16, <1>17, <1>18,
     <1>19, <1>20, <1>21, <1>22, <1>23, <1>24, <1>25, <1>26, <1>27, <1>28, <1>29, <1>30, <1>31 DEF Next, Steps

-----------------------------------------------------------------------------
(* compose.yml and the containers                                             *)

\* The mode that an existing stack is found in.
LEMMA FoundMode ==
    ASSUME NEW v \in Values
    PROVE  /\ ActiveMode(v, TRUE) \in Modes
           /\ ActiveMode(v, TRUE) = "core" <=> v.mode = "core"
           /\ \A has : has = TRUE => ActiveMode(v, has) = ActiveMode(v, TRUE)
           /\ \A w \in Values : w.mode = v.mode => ActiveMode(w, TRUE) = ActiveMode(v, TRUE)
BY DEF ActiveMode, ResolveMode, Values, Modes

LEMMA ModeKept ==
    ASSUME TypeInv, OnLine, EnvInv, CopyInv, ModeInv, EsdiagInv, Next
    PROVE  ModeInv' /\ EsdiagInv'
<1>0. TypeOK /\ cmd \in CommandRecords
  BY DEF TypeInv
<1>t. /\ env.val \in Values /\ cmd.val \in Values /\ running.esdiag \in BOOLEAN /\ cmd.mode \in Modes \cup {"none"}
      /\ cmd' \in CommandRecords /\ cmd'.val \in Values
  BY <1>0, CommandTyped DEF TypeOK, CommandRecords
<1>m. \A v, w \in Values :
        /\ ActiveMode(v, TRUE) \in Modes /\ (ActiveMode(v, TRUE) = "core" <=> v.mode = "core")
        /\ w.mode = v.mode => ActiveMode(w, TRUE) = ActiveMode(v, TRUE)
  BY FoundMode
\* A command that ends or begins leaves containers to the recorded stack.
<1>1. ASSUME cmd'.pc = "idle", cmd'.name \in {"none", "down", "reset"} PROVE ModeInv'
  BY <1>1 DEF ModeInv, At, StartsStack, NotedDown
<1>2. ASSUME UNCHANGED <<env, compose, running>>, cut \subseteq cut', (ToFull \/ ToCore => "switch" \in cut')
      PROVE  EsdiagInv'
  BY <1>2 DEF EsdiagInv, InFullStack
<1>3. CASE Refuse \/ ChildGone \/ Abort
  <2>1. UNCHANGED <<env, compose, running>> /\ cut \subseteq cut'
    BY <1>3 DEF Refuse, ChildGone, Abort, disk, world
  <2>2. ToFull \/ ToCore => "switch" \in cut'
    BY <1>3 DEF Refuse, ChildGone, Abort, Marks, At, ToFull, ToCore
  <2>3. cmd'.pc = "idle" /\ cmd'.name = "none"
    BY <1>0, <1>3, Ends
  <2> QED
    BY <1>1, <1>2, <2>1, <2>2, <2>3
<1>4. CASE TearEnv
  <2>1. /\ env'.on = TRUE /\ env'.val = Blank /\ UNCHANGED <<compose, running>> /\ cut' = cut \cup {"env"} \cup Marks
        /\ cmd.pc \in {"write", "write_key", "write_mode", "write_level", "record_versions", "restore_versions"}
    BY <1>4 DEF TearEnv, world
  <2>2. ToFull \/ ToCore => "switch" \in cut'
    BY <2>1 DEF Marks, At, ToFull, ToCore
  <2>3. cmd'.pc = "idle" /\ cmd'.name = "none"
    BY <1>0, <1>4, Ends
  <2>4. EsdiagInv'
    BY <2>1, <2>2 DEF EsdiagInv, InFullStack, Blank
  <2> QED
    BY <1>1, <2>3, <2>4
<1>5. CASE Commands
  <2>1. UNCHANGED <<env, compose, running, cut>> /\ At("idle")
    BY <1>5, CommandsKeep
  <2>2. EsdiagInv'
    BY <1>2, <2>1 DEF At, ToFull, ToCore
  <2>3. CASE Down \/ Reset
    <3>1. cmd'.pc = "kill" /\ cmd'.name \in {"down", "reset"}
      BY <2>3, StopEffect
    <3> QED
      BY <2>2, <3>1 DEF ModeInv, At, StartsStack, NotedDown
  <2>4. CASE Setup
    <3>1. cmd'.pc = "setup_prepare" /\ cmd'.name = "setup"
      BY <1>0, <2>4, Beginning, BoundsAssumption DEF Setup, Names, Points, Versions
    <3> QED
      BY <2>2, <3>1 DEF ModeInv, At, StartsStack, NotedDown
  <2>5. CASE \E service \in {"elasticsearch", "esdiag"}, level \in BOOLEAN : Restart(service, level)
    <3>1. /\ cmd'.name = "restart" /\ cmd'.pc \in {"write_level", "kill", "recreate"}
          /\ cmd'.then = "esdiag" => env.val.mode # "core"
      BY <2>5, RestartEffect
    <3> QED
      BY <2>1, <2>2, <3>1 DEF ModeInv, At, StartsStack, NotedDown
  <2>6. CASE \E bin \in Versions : \E stack \in Modes \cup {"auto"}, native \in BOOLEAN : Up(bin, stack, native)
    <3>1. cmd'.pc = "prepare" /\ cmd'.name = "up"
      BY <1>0, <2>6, UpEffect
    <3> QED
      BY <2>2, <3>1 DEF ModeInv, At, StartsStack, NotedDown
  <2>7. CASE \E bin \in Versions : Upgrade(bin)
    <3>1. cmd'.pc = "check_upgrade" /\ cmd'.name = "upgrade"
      BY <1>0, <2>7, Beginning DEF Upgrade, Names, Points
    <3> QED
      BY <2>2, <3>1 DEF ModeInv, At, StartsStack, NotedDown
  <2> QED
    BY <1>5, <2>3, <2>4, <2>5, <2>6, <2>7 DEF Commands
\* A start that leaves the full mode rewrites compose.yml first.
<1>6. CASE Prepare
  <2>1. UNCHANGED <<env, running, cut>> /\ compose' = cmd.mode /\ At("prepare")
    BY <1>6 DEF Prepare, world, history
  <2>2. cmd'.pc = "write" /\ cmd'.name = cmd.name /\ cmd'.has = cmd.has /\ cmd'.mode = cmd.mode /\ cmd'.val.mode = cmd.val.mode
    <3>1. cmd.val \in Values /\ cmd.bin \in Versions
      BY <1>0 DEF CommandRecords
    <3> QED
      BY <1>0, <1>6, <3>1, PrepareEffect, InitializedFields
  <2>3. cmd.val = env.val /\ cmd.has = env.on /\ StartsStack(cmd.name) /\ cmd.mode \in Modes
    BY <1>t, <2>1 DEF CopyInv, OnLine, At, NotedDown
  <2>4. ModeInv'
    BY <1>t, <1>m, <2>1, <2>2, <2>3 DEF ModeInv, At, StartsStack, NotedDown
  <2>5. EsdiagInv'
    <3>1. SUFFICES ASSUME running.esdiag, "switch" \notin cut PROVE (InFullStack \/ ToCore)'
      BY <2>1 DEF EsdiagInv
    <3>2. InFullStack
      BY <2>1, <3>1 DEF EsdiagInv, ToFull, ToCore, At
    <3>3. CASE cmd.mode = "full"
      BY <2>1, <3>2, <3>3 DEF InFullStack
    <3>4. CASE cmd.mode = "core"
      <4>1. cmd.name = "up"
        <5> SUFFICES ASSUME cmd.name = "upgrade" PROVE FALSE
          BY <2>3 DEF StartsStack
        <5>1. cmd.mode = ActiveMode(cmd.val, TRUE)
          BY <2>1 DEF ModeInv, At
        <5> QED
          BY <1>t, <1>m, <2>3, <3>2, <3>4, <5>1 DEF InFullStack
      <4> QED
        BY <2>1, <2>2, <2>3, <3>2, <3>4, <4>1 DEF InFullStack, ToCore
    <3> QED
      BY <2>3, <3>3, <3>4 DEF Modes
  <2> QED
    BY <2>4, <2>5
<1>7. CASE WriteEnv
  <2>1. UNCHANGED <<compose, running, cut>> /\ env'.on = TRUE /\ env'.val = cmd.val
    BY <1>7 DEF WriteEnv, world, history
  <2>2. At("write") /\ cmd'.pc \in {"stop_full", "start"} /\ Kept
    BY <1>0, <1>7, Moves
  <2>3. cmd.has /\ ActiveMode(cmd.val, cmd.has) = "full" /\ cmd.mode = "core" => cmd'.pc = "stop_full"
    BY <1>7, <1>0, KeepsOn DEF WriteEnv, Points
  <2>4. ModeInv'
    BY <1>t, <2>1, <2>2 DEF ModeInv, At, Kept, StartsStack, NotedDown
  <2>5. ToCore => ToCore'
    <3> SUFFICES ASSUME ToCore PROVE ToCore'
      OBVIOUS
    <3>1. cmd.has = TRUE
      BY <1>0 DEF ToCore, CommandRecords
    <3>2. ActiveMode(cmd.val, cmd.has) = "full"
      BY <1>t, <1>m, <3>1 DEF ToCore, Modes
    <3> QED
      BY <2>1, <2>2, <2>3, <3>1, <3>2 DEF ToCore, Kept
  <2>6. EsdiagInv'
    BY <2>1, <2>2, <2>5 DEF EsdiagInv, InFullStack, ToFull, ToCore, At, Kept, CopyInv
  <2> QED
    BY <2>4, <2>6
<1>8. CASE StopFull
  <2>1. running'.esdiag = FALSE /\ UNCHANGED <<env, compose>>
    BY <1>8 DEF StopFull, disk, NoContainers
  <2>2. At("stop_full") /\ cmd'.pc = "start" /\ Kept
    BY <1>0, <1>8, Moves
  <2> QED
    BY <2>1, <2>2 DEF ModeInv, EsdiagInv, At, Kept, StartsStack, NotedDown
<1>9. ASSUME StartElastic PROVE running'.esdiag = running.esdiag
  BY <1>0, <1>9, Started DEF EnvInv
<1>10. CASE Start
  <2>1. running'.esdiag = running.esdiag /\ UNCHANGED <<env, compose, cut>>
    BY <1>9, <1>10 DEF Start, disk, history
  <2>2. At("start") /\ cmd'.pc = "wait_elasticsearch" /\ Kept
    BY <1>0, <1>10, Moves
  <2>3. EsdiagInv'
    BY <2>1, <2>2 DEF EsdiagInv, InFullStack, ToFull, ToCore, At
  <2> QED
    BY <2>1, <2>2, <2>3 DEF ModeInv, At, Kept, StartsStack, NotedDown
<1>11. CASE WaitElasticsearch \/ WritePid \/ Kill \/ Signal \/ Unlink \/ PullFails
  <2>1. UNCHANGED <<env, compose, running, cut>>
    BY <1>11 DEF WaitElasticsearch, WritePid, Kill, Signal, Unlink, PullFails, disk, world, history
  <2>2. /\ cmd.pc \in {"wait_elasticsearch", "write_pid", "kill", "signal", "unlink", "pull"}
        /\ cmd.pc = "pull" => cmd'.pc = "restore_versions"
        /\ cmd.pc # "pull" =>
             cmd'.pc \in {"security", "write_started", "signal", "unlink", "spawn", "start_esdiag", "compose_down",
                          "reset_down"}
        /\ Kept
    BY <1>0, <1>11, Moves, KillEffect, SignalEffect DEF At
  <2>3. EsdiagInv'
    BY <1>2, <2>1, <2>2 DEF ToFull, ToCore
  <2> QED
    BY <2>1, <2>2, <2>3 DEF ModeInv, At, Kept, StartsStack, NotedDown
<1>12. CASE WaitEsdiag
  <2>1. UNCHANGED <<env, compose, running, cut>>
    BY <1>12 DEF WaitEsdiag, disk, world, history
  <2>2. At("wait_esdiag") /\ cmd'.pc = "write_mode" /\ Kept
    BY <1>0, <1>12, Moves
  <2>3. EsdiagInv'
    BY <2>1, <2>2 DEF EsdiagInv, InFullStack, ToFull, ToCore, At, Kept
  <2> QED
    BY <2>1, <2>2, <2>3 DEF ModeInv, At, Kept, StartsStack, NotedDown
<1>13. CASE ConfigureSecurity
  <2>1. UNCHANGED <<env, compose, running, cut>> /\ At("security")
    BY <1>13 DEF ConfigureSecurity, disk, history
  <2>2. cmd'.pc = "write_key" /\ cmd'.name = cmd.name /\ cmd'.has = cmd.has /\ cmd'.mode = cmd.mode /\ cmd'.val.mode = cmd.val.mode
    BY <1>0, <1>13, KeyEffect
  <2>3. EsdiagInv'
    BY <1>2, <2>1 DEF At, ToFull, ToCore
  <2>4. ActiveMode(cmd'.val, TRUE) = ActiveMode(cmd.val, TRUE)
    BY <1>t, <1>m, <2>2
  <2>5. ModeInv'
    BY <2>1, <2>2, <2>4 DEF ModeInv, At, StartsStack, NotedDown
  <2> QED
    BY <2>3, <2>5
<1>14. CASE WriteKey
  <2>1. UNCHANGED <<compose, running, cut>> /\ env'.on = TRUE /\ env'.val = cmd.val
    BY <1>14 DEF WriteKey, world, history
  <2>2. At("write_key") /\ cmd'.pc = "setup" /\ Kept
    BY <1>0, <1>14, Moves
  <2>3. cmd.val.mode = env.val.mode
    BY <2>2 DEF CopyInv, At
  <2>4. EsdiagInv'
    BY <2>1, <2>2, <2>3 DEF EsdiagInv, InFullStack, ToFull, ToCore, At
  <2> QED
    BY <2>1, <2>2, <2>4 DEF ModeInv, At, Kept, StartsStack, NotedDown
<1>15. CASE SetupMode
  <2>1. UNCHANGED <<env, compose, running, cut>> /\ At("setup")
    BY <1>15 DEF SetupMode, disk, world, history
  <2>2. EsdiagInv'
    BY <1>2, <2>1 DEF At, ToFull, ToCore
  <2>3. CASE End("ok")
    <3>1. cmd'.pc = "idle" /\ cmd'.name \in {"none", "down", "reset"}
      BY <1>0, <2>3, Ending
    <3> QED
      BY <1>1, <2>2, <3>1
  <2>4. CASE Goto("write_mode")
    <3>1. cmd'.pc = "write_mode" /\ Kept
      BY <1>0, <2>4, KeepsOn DEF Points
    <3> QED
      BY <2>1, <2>2, <3>1 DEF ModeInv, At, Kept, StartsStack, NotedDown
  <2>5. CASE /\ cmd'.pc = "kill" /\ cmd'.name = cmd.name /\ cmd'.val = cmd.val /\ cmd'.has = cmd.has
             /\ cmd'.mode = cmd.mode
    BY <2>1, <2>2, <2>5 DEF ModeInv, At, StartsStack, NotedDown
  <2> QED
    BY <1>0, <1>15, <2>3, <2>4, <2>5, SetupEffect
\* Only a start that was asked for the full mode brings the service into a core stack.
<1>16. CASE StartEsdiag
  <2>1. UNCHANGED <<env, compose, cut>> /\ compose = "full" /\ At("start_esdiag")
    BY <1>16 DEF StartEsdiag, disk, history
  <2>2. cmd'.pc = "wait_esdiag" /\ Kept
    BY <1>0, <1>16, Moves
  <2>3. env.on /\ cmd.val = env.val /\ cmd.mode = "full" /\ StartsStack(cmd.name)
    BY <2>1 DEF OnLine, CopyInv, At, NotedDown
  <2>4. ModeInv'
    BY <2>1, <2>2 DEF ModeInv, At, Kept, StartsStack, NotedDown
  <2>5. CASE env.val.mode # "core"
    BY <2>1, <2>3, <2>4, <2>5 DEF EsdiagInv, InFullStack
  <2>6. CASE env.val.mode = "core"
    <3>1. cmd.name = "up"
      BY <1>t, <1>m, <2>1, <2>3, <2>6 DEF ModeInv, At, StartsStack, NotedDown
    <3> QED
      BY <2>1, <2>2, <2>3, <2>4, <2>6, <3>1 DEF EsdiagInv, ToFull, Kept
  <2> QED
    BY <2>5, <2>6
<1>17. CASE WriteMode
  <2>1. UNCHANGED <<compose, running, cut>> /\ At("write_mode") /\ env'.on = TRUE /\ env'.val.mode = cmd.mode
    BY <1>0, <1>t, <1>17 DEF WriteMode, world, history, Values
  <2>2. cmd'.pc = "idle" /\ cmd'.name \in {"none", "down", "reset"}
    BY <1>0, <1>17, Ends
  <2>3. compose = cmd.mode
    BY <2>1 DEF ModeInv, OnLine, At, StartsStack, NotedDown
  <2>4. EsdiagInv'
    BY <2>1, <2>3 DEF EsdiagInv, InFullStack, ToFull, ToCore, At
  <2> QED
    BY <1>1, <2>2, <2>4
<1>18. CASE Spawn
  <2>1. UNCHANGED <<env, compose, running, cut>> /\ At("spawn")
    BY <1>18 DEF Spawn, disk, world, history
  <2>2. cmd'.pc = "write_pid" /\ cmd'.name = cmd.name /\ cmd'.val = cmd.val /\ cmd'.has = cmd.has /\ cmd'.mode = cmd.mode
    BY <1>0, <1>18, SpawnEffect
  <2>3. EsdiagInv'
    BY <1>2, <2>1 DEF At, ToFull, ToCore
  <2> QED
    BY <2>1, <2>2, <2>3 DEF ModeInv, At, StartsStack, NotedDown
<1>19. CASE WriteStarted
  <2>1. UNCHANGED <<env, compose, running, cut>> /\ At("write_started")
    BY <1>19 DEF WriteStarted, world, history
  <2>2. EsdiagInv'
    BY <1>2, <2>1 DEF At, ToFull, ToCore
  <2>3. CASE End("ok")
    <3>1. cmd'.pc = "idle" /\ cmd'.name \in {"none", "down", "reset"}
      BY <1>0, <2>3, Ending
    <3> QED
      BY <1>1, <2>2, <3>1
  <2>4. CASE Goto("wait_esdiag")
    <3>1. cmd'.pc = "wait_esdiag" /\ Kept
      BY <1>0, <2>4, KeepsOn DEF Points
    <3> QED
      BY <2>1, <2>2, <3>1 DEF ModeInv, At, Kept, StartsStack, NotedDown
  <2> QED
    BY <1>19, <2>3, <2>4 DEF WriteStarted
<1>20. CASE CheckUpgrade
  <2>1. UNCHANGED <<env, compose, running, cut>> /\ At("check_upgrade")
    BY <1>20 DEF CheckUpgrade, disk, world, history
  <2>2. EsdiagInv'
    BY <1>2, <2>1 DEF At, ToFull, ToCore
  <2>3. CASE End("ok")
    <3>1. cmd'.pc = "idle" /\ cmd'.name \in {"none", "down", "reset"}
      BY <1>0, <2>3, Ending
    <3> QED
      BY <1>1, <2>2, <3>1
  <2>4. CASE Goto("approved")
    <3>1. cmd'.pc = "approved" /\ Kept
      BY <1>0, <2>4, KeepsOn DEF Points
    <3> QED
      BY <2>2, <3>1 DEF ModeInv, At, Kept, StartsStack, NotedDown
  <2> QED
    BY <1>20, <2>3, <2>4 DEF CheckUpgrade
<1>21. CASE Approved
  <2>1. UNCHANGED <<env, compose, running, cut>> /\ At("approved")
    BY <1>21 DEF Approved, disk, world, history
  <2>2. /\ cmd'.pc = "record_versions" /\ cmd'.name = cmd.name /\ cmd'.has = cmd.has
        /\ cmd'.mode = ActiveMode(cmd.val, cmd.has) /\ cmd'.val.mode = cmd.val.mode
    BY <1>0, <1>21, ApprovedEffect
  <2>3. cmd.has = TRUE
    BY <1>0, <2>1 DEF CopyInv, At, CommandRecords
  <2>4. cmd'.mode = ActiveMode(cmd'.val, TRUE)
    BY <1>t, <1>m, <2>2, <2>3
  <2>5. EsdiagInv'
    BY <1>2, <2>1 DEF At, ToFull, ToCore
  <2> QED
    BY <2>2, <2>3, <2>4, <2>5 DEF ModeInv, At, StartsStack, NotedDown
<1>22. CASE RecordVersions
  <2>1. UNCHANGED <<compose, running, cut>> /\ env'.on = TRUE /\ env'.val = cmd.val
    BY <1>22 DEF RecordVersions, world, history
  <2>2. At("record_versions") /\ cmd'.pc = "write_compose" /\ Kept
    BY <1>0, <1>22, Moves
  <2>3. cmd.name = "upgrade" /\ cmd.mode = ActiveMode(cmd.val, TRUE) /\ cmd.val.mode = env.val.mode
    BY <2>2 DEF ModeInv, OnLine, CopyInv, At
  <2>4. InFullStack => InFullStack'
    BY <1>t, <1>m, <2>1, <2>3 DEF InFullStack, Modes
  <2>5. EsdiagInv'
    BY <2>1, <2>2, <2>4 DEF EsdiagInv, ToFull, ToCore, At
  <2> QED
    BY <2>1, <2>2, <2>5 DEF ModeInv, At, Kept, StartsStack, NotedDown
<1>31. CASE WriteCompose
  <2>1. UNCHANGED <<env, running, cut>> /\ compose' = cmd.mode
    BY <1>31 DEF WriteCompose, world, history
  <2>2. At("write_compose") /\ cmd'.pc = "pull" /\ Kept
    BY <1>0, <1>31, Moves
  <2>3. cmd.name = "upgrade" /\ cmd.mode = ActiveMode(cmd.val, TRUE) /\ cmd.val.mode = env.val.mode
    BY <2>2 DEF ModeInv, OnLine, CopyInv, At
  <2>4. InFullStack => InFullStack'
    BY <1>t, <1>m, <2>1, <2>3 DEF InFullStack, Modes
  <2>5. EsdiagInv'
    BY <2>1, <2>2, <2>4 DEF EsdiagInv, ToFull, ToCore, At
  <2> QED
    BY <2>1, <2>2, <2>5 DEF ModeInv, At, Kept, StartsStack, NotedDown
<1>32. CASE WriteLevel
  <2>1. UNCHANGED <<compose, running, cut>> /\ env'.on = TRUE /\ env'.val = env.val
    BY <1>0, <1>32 DEF WriteLevel, world, history, TypeOK
  <2>2. At("write_level") /\ cmd'.pc \in {"kill", "recreate"} /\ Kept /\ cmd.name = "restart"
    BY <1>0, <1>32, Moves DEF OnLine, At
  <2>3. EsdiagInv'
    BY <2>1, <2>2 DEF EsdiagInv, InFullStack, ToFull, ToCore, At
  <2> QED
    BY <2>1, <2>2, <2>3 DEF ModeInv, At, Kept, StartsStack, NotedDown
<1>23. CASE Pulled
  <2>1. UNCHANGED <<env, compose, running, cut>> /\ At("pull")
    BY <1>23 DEF Pulled, disk, world, history
  <2>2. EsdiagInv'
    BY <1>2, <2>1 DEF At, ToFull, ToCore
  <2>3. CASE End("ok")
    <3>1. cmd'.pc = "idle" /\ cmd'.name \in {"none", "down", "reset"}
      BY <1>0, <2>3, Ending
    <3> QED
      BY <1>1, <2>2, <3>1
  <2>4. CASE cmd'.pc = "prepare" /\ cmd'.name = cmd.name /\ cmd'.has = cmd.has /\ cmd'.val = cmd.val /\ cmd'.mode = cmd.mode
    BY <2>1, <2>2, <2>4 DEF ModeInv, At, StartsStack, NotedDown
  <2> QED
    BY <1>0, <1>23, <2>3, <2>4, PulledEffect
<1>24. CASE RestoreVersions
  <2>1. UNCHANGED <<compose, running, cut>> /\ env'.on = TRUE /\ env'.val = cmd.prev /\ At("restore_versions")
    BY <1>24 DEF RestoreVersions, world, history
  <2>2. cmd'.pc = "idle" /\ cmd'.name = "none"
    BY <1>0, <1>24, Ends
  <2>3. cmd.prev.mode = env.val.mode
    BY <2>1 DEF CopyInv, At
  <2>4. EsdiagInv'
    BY <2>1, <2>3 DEF EsdiagInv, InFullStack, ToFull, ToCore, At
  <2> QED
    BY <1>1, <2>2, <2>4
<1>25. CASE ComposeDown
  <2>1. UNCHANGED <<env, compose, cut>> /\ (running'.esdiag => running.esdiag /\ compose # "full") /\ At("compose_down")
    BY <1>25 DEF ComposeDown, disk, history
  <2>2. cmd'.pc = "idle" /\ cmd'.name \in {"none", "down", "reset"}
    BY <1>0, <1>25, Ends
  <2>3. EsdiagInv'
    BY <2>1 DEF EsdiagInv, InFullStack, ToFull, ToCore, At
  <2> QED
    BY <1>1, <2>2, <2>3
<1>26. CASE ResetDown
  <2>1. running'.esdiag = FALSE
    BY <1>26 DEF ResetDown, NoContainers
  <2>2. At("reset_down") /\ cmd'.pc = "remove_dir" /\ Kept
    BY <1>0, <1>26, Moves
  <2>3. cmd.name = "reset"
    BY <2>2 DEF OnLine, At
  <2> QED
    BY <2>1, <2>2, <2>3 DEF EsdiagInv, ModeInv, At, Kept, StartsStack, NotedDown
<1>27. CASE RemoveDir
  <2>1. UNCHANGED running /\ At("remove_dir")
    BY <1>27 DEF RemoveDir, world
  <2>2. running.esdiag = FALSE
    BY <2>1 DEF EnvInv, NoContainers
  <2>3. cmd'.pc = "idle" /\ cmd'.name \in {"none", "down", "reset"}
    BY <1>0, <1>27, Ends
  <2> QED
    BY <1>1, <2>1, <2>2, <2>3 DEF EsdiagInv
<1>28. CASE SetupPrepare
  <2>1. UNCHANGED <<env, running, cut>> /\ At("setup_prepare") /\ compose' = (IF cmd.has THEN ActiveMode(cmd.val, cmd.has) ELSE compose)
    BY <1>28 DEF SetupPrepare, world, history
  <2>2. cmd'.pc = "setup" /\ cmd'.name = "setup"
    BY <1>0, <1>28, <2>1, SetupPrepareEffect DEF OnLine, At
  <2>3. cmd.val = env.val /\ cmd.has = env.on /\ env.on \in BOOLEAN
    BY <1>0, <2>1 DEF CopyInv, At, TypeOK
  <2>4. InFullStack => InFullStack'
    BY <1>t, <1>m, <2>1, <2>3 DEF InFullStack, Modes
  <2>5. EsdiagInv'
    BY <2>1, <2>4 DEF EsdiagInv, ToFull, ToCore, At
  <2> QED
    BY <2>2, <2>5 DEF ModeInv, At, StartsStack, NotedDown
<1>29. CASE Recreate
  <2>1. UNCHANGED <<env, compose, cut>> /\ env.on /\ At("recreate")
    BY <1>29 DEF Recreate, ComposeWorks, disk, history
  <2>2. cmd'.pc = "idle" /\ cmd'.name \in {"none", "down", "reset"}
    BY <1>0, <1>29, Ends
  <2>3. CASE StartElastic
    BY <1>1, <1>9, <2>1, <2>2, <2>3 DEF EsdiagInv, InFullStack, ToFull, ToCore, At
  <2>4. CASE cmd.then = "esdiag"
    <3>1. compose = "full" /\ env.val.mode # "core"
      BY <1>29, <2>1, <2>4 DEF Recreate, ModeInv, At
    <3> QED
      BY <1>1, <2>1, <2>2, <3>1 DEF EsdiagInv, InFullStack
  <2> QED
    BY <1>29, <2>3, <2>4 DEF Recreate
<1>30. CASE Machine
  <2>1. UNCHANGED <<env, compose, running, cut, cmd>>
    BY <1>30 DEF Machine, Exit, OtherStarts, disk, world, history
  <2> QED
    BY <2>1 DEF ModeInv, EsdiagInv, InFullStack, ToFull, ToCore, At
<1> QED
  BY <1>3, <1>4, <1>5, <1>6, <1>7, <1>8, <1>10, <1>11, <1>12, <1>13, <1>14, <1>15, <1>16, <1>17, <1>18,
     <1>19, <1>20, <1>21, <1>22, <1>23, <1>24, <1>25, <1>26, <1>27, <1>28, <1>29, <1>30, <1>31, <1>32 DEF Next, Steps

-----------------------------------------------------------------------------
(* The native service                                                         *)

\* What is promised of the processes that serve, in the words of the invariant.
Managed ==
  "record" \notin cut =>
    \A p \in Pids : Serves(p) =>
      /\ cmd.pc \notin {"unlink", "spawn", "compose_down", "reset_down", "remove_dir", "start_esdiag"}
      /\ cmd.pc \in {"write_pid", "write_started"} => cmd.child = p
      /\ files = [pid |-> p, started |-> procs[p].started] \/ cmd.pc \in {"write_pid", "write_started"}

LEMMA ManagedIs == ServiceInv /\ ServiceRecorded => Managed
BY DEF Managed, ServiceInv, ServiceRecorded, Serves

\* Steps away from the service leave it as it is.
LEMMA ServiceKept ==
    ASSUME TypeInv, OnLine, ServiceInv, ServiceRecorded, Next
    PROVE  ServiceInv' /\ ServiceRecorded'
<1>0. TypeOK /\ cmd \in CommandRecords /\ Timed
  BY DEF TypeInv
<1>1. Managed
  BY ManagedIs
<1>2. ASSUME UNCHANGED <<files, procs>>, cut \subseteq cut', cmd.pc \notin {"write_pid", "write_started"},
             cmd'.pc \notin {"signal", "unlink", "spawn", "compose_down", "reset_down", "remove_dir", "start_esdiag",
                             "write_pid", "write_started"}
      PROVE  ServiceInv' /\ ServiceRecorded'
  BY <1>1, <1>2 DEF Managed, ServiceInv, ServiceRecorded, Serves, At
<1>3. CASE Commands
  <2>1. UNCHANGED <<files, procs, cut>> /\ At("idle")
    BY <1>3, CommandsKeep
  <2>2. cmd'.pc \in {"kill", "setup_prepare", "write_level", "recreate", "prepare", "check_upgrade"}
    BY <1>0, <1>3, CommandsBegin
  <2> QED
    BY <1>2, <2>1, <2>2 DEF At
<1>4. CASE \/ Refuse \/ Abort \/ TearEnv \/ RestoreVersions \/ WriteMode \/ ComposeDown \/ Recreate
  <2>1. UNCHANGED <<files, procs>> /\ cut \subseteq cut'
    BY <1>4 DEF Refuse, Abort, TearEnv, RestoreVersions, WriteMode, ComposeDown, Recreate, disk, history, world
  <2>2. cmd'.pc = "idle"
    BY <1>0, <1>4, Ends
  <2>3. cmd.pc \in {"write_pid", "write_started"} => "record" \in cut'
    BY <1>4 DEF Refuse, Abort, TearEnv, RestoreVersions, WriteMode, ComposeDown, Recreate, Marks, At
  <2>4. CASE cmd.pc \notin {"write_pid", "write_started"}
    BY <1>2, <2>1, <2>2, <2>4
  <2>5. CASE "record" \in cut'
    BY <2>2, <2>5 DEF ServiceInv, ServiceRecorded, At
  <2> QED
    BY <2>3, <2>4, <2>5
\* A child that is gone does not serve, and no other process does meanwhile.
<1>5. CASE ChildGone
  <2>1. UNCHANGED <<files, procs>> /\ cut \subseteq cut' /\ At("write_pid") /\ procs[cmd.child].kind # "native"
    BY <1>5 DEF ChildGone, disk
  <2>2. cmd'.pc = "idle"
    BY <1>0, <1>5, Ends
  <2>3. "record" \notin cut => \A p \in Pids : ~Serves(p)
    BY <1>1, <2>1 DEF Managed, Serves, At
  <2> QED
    BY <2>1, <2>2, <2>3 DEF ServiceInv, ServiceRecorded, Serves, At
<1>6. CASE \/ WriteEnv \/ StopFull \/ Start \/ WaitElasticsearch \/ WriteKey \/ StartEsdiag \/ WaitEsdiag
           \/ RecordVersions \/ WriteCompose \/ WriteLevel \/ PullFails
  <2>1. UNCHANGED <<files, procs, cut>>
    BY <1>6 DEF WriteEnv, StopFull, Start, WaitElasticsearch, WriteKey, StartEsdiag, WaitEsdiag,
                RecordVersions, WriteCompose, WriteLevel, PullFails, disk, world, history
  <2>2. /\ cmd.pc \notin {"write_pid", "write_started"}
        /\ cmd'.pc \in {"stop_full", "start", "wait_elasticsearch", "security", "setup", "wait_esdiag", "write_mode",
                        "write_compose", "pull", "restore_versions", "kill", "recreate"}
    BY <1>0, <1>6, Moves DEF At
  <2> QED
    BY <1>2, <2>1, <2>2
<1>7. CASE Prepare \/ ConfigureSecurity \/ Approved \/ SetupPrepare
  <2>1. UNCHANGED <<files, procs, cut>> /\ cmd.pc \in {"prepare", "security", "approved", "setup_prepare"}
    BY <1>7 DEF Prepare, ConfigureSecurity, Approved, SetupPrepare, disk, world, history, At
  <2>2. cmd'.pc \in {"write", "write_key", "record_versions", "setup"}
    BY <1>0, <1>7, PrepareEffect, KeyEffect, ApprovedEffect, SetupPrepareEffect
  <2> QED
    BY <1>2, <2>1, <2>2
<1>8. CASE SetupMode \/ CheckUpgrade \/ Pulled
  <2>1. UNCHANGED <<files, procs, cut>> /\ cmd.pc \in {"setup", "check_upgrade", "pull"}
    BY <1>8 DEF SetupMode, CheckUpgrade, Pulled, disk, world, history, At
  <2>2. End("ok") => cmd'.pc = "idle"
    BY <1>0, Ending
  <2>3. ASSUME NEW x \in {"write_mode", "approved"}, Goto(x) PROVE cmd'.pc = x
    BY <1>0, <2>3, KeepsOn DEF Points
  <2>4. cmd'.pc \in {"idle", "write_mode", "kill", "approved", "prepare"}
    BY <1>0, <1>8, <2>2, <2>3, SetupEffect, PulledEffect DEF CheckUpgrade
  <2> QED
    BY <1>2, <2>1, <2>4
\* A process that serves is the recorded one: either it was found, or there is
\* none.
<1>9. CASE Kill
  <2>1. At("kill") /\ UNCHANGED <<files, procs, cut>>
    BY <1>9 DEF Kill, disk, history
  <2>2. CASE ~Matches /\ cmd'.pc \in {"unlink", "spawn", "start_esdiag", "compose_down", "reset_down"}
    <3>1. ASSUME "record" \notin cut, NEW p \in Pids, Serves(p) PROVE FALSE
      <4>1. files.pid = p /\ files.started = procs[p].started
        BY <1>1, <2>1, <3>1 DEF Managed, At
      <4>2. procs[p].started # 0 /\ procs[p].kind = "native"
        BY <1>0, <3>1 DEF Timed, Serves
      <4>3. files.pid # "none"
        BY <4>1, PidsAssumption
      <4> QED
        BY <2>2, <4>1, <4>2, <4>3 DEF Matches, Alive
    <3> QED
      BY <2>1, <2>2, <3>1 DEF ServiceInv, ServiceRecorded, Serves, At
  <2>3. CASE Matches /\ cmd'.pc = "signal" /\ cmd'.since = procs[files.pid].started
    <3>1. files.pid \in Pids /\ cmd'.since # 0 /\ cmd'.since = files.started
      BY <1>0, <2>3 DEF Matches, TypeOK
    <3> QED
      BY <2>1, <2>3, <3>1 DEF ServiceInv, ServiceRecorded, Serves, At
  <2> QED
    BY <1>0, <1>9, <2>2, <2>3, KillEffect
\* After the signal nothing serves that was not told to stop: the process that
\* did, if any, was the recorded one.
<1>15. CASE Signal
  <2>1. At("signal") /\ UNCHANGED <<files, cut>> /\ procs' = [procs EXCEPT ![files.pid].term = TRUE]
    BY <1>15 DEF Signal, disk, history
  <2>2. cmd'.pc = "unlink"
    BY <1>0, <1>15, SignalEffect
  <2>3. ASSUME "record" \notin cut, NEW p \in Pids PROVE ~Serves(p)'
    <3> SUFFICES ASSUME Serves(p)' PROVE FALSE
      OBVIOUS
    <3>1. procs \in [Pids -> Processes]
      BY <1>0 DEF TypeOK, Processes
    <3>2. CASE files.pid = p
      <4> DEFINE q == [procs[p] EXCEPT !.term = TRUE]
      <4>1. q.term
        BY <3>1 DEF Processes
      <4>2. procs' = [procs EXCEPT ![p] = q]
        BY <2>1, <3>2
      <4> HIDE DEF q
      <4>3. procs'[p].term
        BY <3>1, <4>1, <4>2
      <4> QED
        BY <4>3 DEF Serves
    <3>3. CASE files.pid # p
      <4>1. procs'[p] = procs[p]
        BY <2>1, <3>1, <3>3
      <4>2. Serves(p)
        BY <4>1 DEF Serves
      <4>3. files.pid = p
        BY <1>1, <2>1, <2>3, <4>2 DEF Managed, At
      <4> QED
        BY <3>3, <4>3
    <3> QED
      BY <3>2, <3>3
  <2> QED
    BY <2>1, <2>2, <2>3 DEF ServiceInv, ServiceRecorded, Serves, At
<1>10. CASE Unlink \/ ResetDown \/ RemoveDir
  <2>1. UNCHANGED <<procs, cut>> /\ cmd.pc \in {"unlink", "reset_down", "remove_dir"}
    BY <1>10 DEF Unlink, ResetDown, RemoveDir, At, disk, world, history
  <2>2. cmd'.pc \notin {"signal", "write_pid", "write_started"}
    BY <1>0, <1>10, Moves, Ends
  <2>3. "record" \notin cut => \A p \in Pids : ~Serves(p)
    BY <1>1, <2>1 DEF Managed
  <2> QED
    BY <2>1, <2>2, <2>3 DEF ServiceInv, ServiceRecorded, Serves, At
<1>11. CASE Spawn
  <2>1. At("spawn") /\ UNCHANGED <<files, cut>>
    BY <1>11 DEF Spawn, disk, history
  <2>2. PICK q \in Processes : /\ q.kind = "native" /\ q.started = cmd'.since /\ ~q.term
                               /\ procs' = [procs EXCEPT ![cmd'.child] = q]
    BY <1>0, <1>11, SpawnEffect
  <2>3. cmd'.pc = "write_pid" /\ cmd'.child \in Pids
    BY <1>0, <1>11, SpawnEffect
  <2>4. "record" \notin cut => \A p \in Pids : ~Serves(p)
    BY <1>1, <2>1 DEF Managed, At
  <2>5. "record" \notin cut => \A p \in Pids : Serves(p)' => p = cmd'.child
    BY <1>0, <2>2, <2>3, <2>4 DEF Serves, TypeOK
  <2>6. procs'[cmd'.child].started = cmd'.since
    BY <1>0, <2>2, <2>3 DEF TypeOK
  <2> QED
    BY <2>1, <2>3, <2>5, <2>6 DEF ServiceInv, ServiceRecorded, Serves, At
<1>12. CASE WritePid
  <2>1. At("write_pid") /\ UNCHANGED <<procs, cut>> /\ files'.pid = cmd.child
    BY <1>0, <1>12 DEF WritePid, world, history, TypeOK
  <2>2. cmd'.pc = "write_started" /\ cmd'.child = cmd.child /\ cmd'.since = cmd.since
    BY <1>0, <1>12, Moves DEF Kept
  <2> QED
    BY <2>1, <2>2 DEF ServiceInv, ServiceRecorded, Serves, At
<1>13. CASE WriteStarted
  <2>1. At("write_started") /\ UNCHANGED <<procs, cut>> /\ files' = [files EXCEPT !.started = cmd.since]
    BY <1>13 DEF WriteStarted, world, history
  <2>2. cmd'.pc \in {"idle", "wait_esdiag"}
    <3>1. End("ok") => cmd'.pc = "idle"
      BY <1>0, Ending
    <3>2. Goto("wait_esdiag") => cmd'.pc = "wait_esdiag"
      BY <1>0, KeepsOn DEF Points
    <3> QED
      BY <1>13, <3>1, <3>2 DEF WriteStarted
  <2>3. files.pid = cmd.child /\ (procs[cmd.child].kind = "native" => procs[cmd.child].started = cmd.since)
    BY <2>1 DEF ServiceInv, At
  <2>4. files' = [pid |-> cmd.child, started |-> cmd.since]
    BY <1>0, <2>1, <2>3 DEF TypeOK
  <2>5. "record" \notin cut => \A p \in Pids : Serves(p) => p = cmd.child
    BY <1>1, <2>1 DEF Managed, At
  <2> QED
    BY <2>1, <2>2, <2>3, <2>4, <2>5 DEF ServiceInv, ServiceRecorded, Serves, At
\* No other program is a native service, and one that ends serves no more.
<1>14. CASE Machine
  <2>1. PICK p \in Pids : Exit(p) \/ OtherStarts(p)
    BY <1>14 DEF Machine
  <2>2. UNCHANGED <<files, cut, cmd>>
    BY <2>1 DEF Exit, OtherStarts, disk, history
  <2>3. \A o \in Pids : procs'[o].kind = "native" => o # p /\ procs'[o] = procs[o]
    <3>1. NoProcess.kind = "none" /\ [NoProcess EXCEPT !.kind = "other"].kind = "other"
      BY DEF NoProcess
    <3> QED
      BY <1>0, <2>1, <3>1 DEF Exit, OtherStarts, TypeOK
  <2> QED
    BY <2>2, <2>3 DEF ServiceInv, ServiceRecorded, Serves, At
<1> QED
  BY <1>3, <1>4, <1>5, <1>6, <1>7, <1>8, <1>9, <1>10, <1>11, <1>12, <1>13, <1>14, <1>15 DEF Next, Steps

-----------------------------------------------------------------------------
(* down                                                                       *)

LEMMA DownKept ==
    ASSUME TypeInv, OnLine, EsdiagInv, DownStops, Next
    PROVE  DownStops'
<1>0. TypeOK /\ cmd \in CommandRecords
  BY DEF TypeInv
<1>1. SUFFICES ASSUME cmd'.pc = "idle", cmd'.name = "down" PROVE running'.elastic = 0 /\ (running'.esdiag => "switch" \in cut')
  BY DEF DownStops
<1>2. CASE Machine
  BY <1>1, <1>2 DEF Machine, Exit, OtherStarts, world, history, DownStops
<1>3. CASE ComposeDown
  <2>1. /\ running'.elastic = 0 /\ (running'.esdiag => running.esdiag /\ compose # "full") /\ At("compose_down")
        /\ cut' = cut
    BY <1>3 DEF ComposeDown, history
  <2> QED
    BY <2>1 DEF EsdiagInv, InFullStack, ToFull, ToCore, At
\* No other step ends a command `down`.
<1>4. ASSUME End("ok") PROVE cmd.name = "down"
  BY <1>0, <1>1, <1>4, Ending
<1>5. CASE WriteMode \/ RemoveDir \/ Recreate
  <2>1. cmd.name = "down"
    BY <1>4, <1>5 DEF WriteMode, RemoveDir, Recreate
  <2> QED
    BY <1>5, <2>1 DEF WriteMode, RemoveDir, Recreate, OnLine, At, StartsStack
<1>6. CASE SetupMode \/ WriteStarted \/ CheckUpgrade \/ Pulled
  <2>1. ASSUME NEW x \in Points \ {"idle"}, Goto(x) PROVE FALSE
    BY <1>0, <1>1, <2>1, KeepsOn
  <2>2. CASE End("ok")
    <3>1. cmd.name = "down"
      BY <1>4, <2>2
    <3> QED
      BY <1>6, <3>1 DEF SetupMode, WriteStarted, CheckUpgrade, Pulled, OnLine, At, StartsStack
  <2>3. CASE ~End("ok")
    BY <1>0, <1>1, <1>6, <2>1, <2>3, SetupEffect, PulledEffect DEF WriteStarted, CheckUpgrade, Points
  <2> QED
    BY <2>2, <2>3
<1>7. CASE Refuse \/ ChildGone \/ RestoreVersions \/ Abort \/ TearEnv
  BY <1>0, <1>1, <1>7, Ends
<1>8. CASE Commands
  <2>1. cmd'.pc \in {"kill", "setup_prepare", "write_level", "recreate", "prepare", "check_upgrade"}
    BY <1>0, <1>8, CommandsBegin
  <2> QED
    BY <1>1, <2>1
<1>9. CASE Prepare \/ ConfigureSecurity \/ Approved \/ SetupPrepare \/ Spawn
  BY <1>0, <1>1, <1>9, PrepareEffect, KeyEffect, ApprovedEffect, SetupPrepareEffect, SpawnEffect
<1>10. CASE \/ WriteEnv \/ StopFull \/ Start \/ WaitElasticsearch \/ WriteKey \/ StartEsdiag \/ WaitEsdiag
            \/ Unlink \/ WritePid \/ RecordVersions \/ WriteCompose \/ WriteLevel \/ PullFails \/ ResetDown
  BY <1>0, <1>1, <1>10, Moves
<1>11. CASE Kill \/ Signal
  BY <1>0, <1>1, <1>11, KillEffect, SignalEffect
<1> QED
  BY <1>2, <1>3, <1>5, <1>6, <1>7, <1>8, <1>9, <1>10, <1>11 DEF Next, Steps

-----------------------------------------------------------------------------
(* Theorems                                                                   *)

LEMMA Invariant == Spec => []LocalInv
<1>1. ASSUME Init PROVE LocalInv
  <2>1. /\ At("idle") /\ cmd.name = "none" /\ ~env.on /\ env.val = Blank /\ compose = "none" /\ files = NoFiles
        /\ volumes.elastic = 0 /\ running.elastic = 0 /\ ~running.esdiag /\ keys = {} /\ cut = {}
        /\ \A p \in Pids : procs[p].kind = "none"
    BY <1>1 DEF Init, Idle, At, NoVolumes, NoContainers, NoProcess
  <2>2. TypeInv
    <3>1. 0 \in 0 .. MaxSecrets /\ 0 \in 0 .. MaxVersion /\ 0 \in 0 .. MaxStarts
      BY BoundsAssumption
    <3>2. TypeOK
      BY <1>1, <3>1, Blanks DEF Init, TypeOK, NoFiles, NoVolumes, NoContainers, NoProcess
    <3> QED
      BY <1>1, <2>1, <3>2, Blanks DEF Init, TypeInv, Timed
  <2>3. OnLine /\ CopyInv /\ ModeInv
    BY <2>1 DEF OnLine, CopyInv, ModeInv, At, StartsStack, NotedDown
  <2>4. EnvInv
    BY <2>1 DEF EnvInv, Fits, At, Blank, Pending
  <2>5. EsdiagInv /\ ServiceInv /\ ServiceRecorded /\ DownStops
    BY <2>1 DEF EsdiagInv, ServiceInv, Serves, ServiceRecorded, DownStops, At
  <2> QED
    BY <2>2, <2>3, <2>4, <2>5 DEF LocalInv
<1>2. ASSUME LocalInv, [Next]_vars PROVE LocalInv'
  <2>1. CASE Next
    <3>1. TypeInv'
      BY <1>2, <2>1, CommandTyped, DataTyped DEF LocalInv, TypeInv, EnvInv
    <3> QED
      BY <1>2, <2>1, <3>1, StaysOnLine, EnvKept, ModeKept, ServiceKept, DownKept DEF LocalInv
  <2>2. CASE UNCHANGED vars
    <3>0. LocalInv /\ UNCHANGED <<env, compose, files, volumes, running, keys, procs, cmd, cut>>
      BY <1>2, <2>2 DEF vars
    <3>1. TypeInv' /\ DownStops' /\ ServiceRecorded' /\ ServiceInv'
      BY <3>0 DEF LocalInv, TypeInv, TypeOK, Timed, DownStops, ServiceRecorded, ServiceInv, Serves, At
    <3>2. OnLine' /\ ModeInv'
      BY <3>0 DEF LocalInv, OnLine, ModeInv, At, StartsStack, ActiveMode, ResolveMode
    <3>3. EnvInv' /\ CopyInv'
      BY <3>0 DEF LocalInv, EnvInv, CopyInv, At, StartsStack, Fits, Good
    <3>4. EsdiagInv'
      BY <3>0 DEF LocalInv, EsdiagInv, InFullStack, ToFull, ToCore
    <3> QED
      BY <3>1, <3>2, <3>3, <3>4 DEF LocalInv
  <2> QED
    BY <1>2, <2>1, <2>2
<1> QED
  BY <1>1, <1>2, PTL DEF Spec

\* .env keeps opening the volumes, no native service escapes the record and
\* `down` stops what runs, after any commands of any binaries, failures and
\* interruptions (LocalState::up, upgrade, start_native_service and down).
THEOREM LocalStackHolds == Spec => []LocalStackSound
<1>1. LocalInv => LocalStackSound
  <2> SUFFICES ASSUME LocalInv PROVE LocalStackSound
    OBVIOUS
  <2>1. TypeOK /\ ServiceRecorded /\ DownStops
    BY DEF LocalInv, TypeInv
  <2>2. StateFitsVolumes
    BY DEF LocalInv, EnvInv, Fits, StateFitsVolumes
  <2> QED
    BY <2>1, <2>2 DEF LocalStackSound
<1> QED
  BY <1>1, Invariant, PTL

\* stop_native_service signals a process that is not the service only when it
\* had found the recorded service under that id a moment before, by its start
\* time: the check and the signal are two steps, and the id can change hands
\* between them. A record that does not fit a process at the check has none
\* signalled, whoever got the id of a service that ended.
THEOREM SparesOthers == Spec => OthersSpared
<1> DEFINE Spared ==
      \A p \in Pids :
        procs[p].kind = "other" /\ ~procs[p].term /\ procs'[p].term =>
          /\ At("signal") /\ files.pid = p
          /\ cmd.since # 0 /\ cmd.since = files.started
<1>1. ASSUME LocalInv, [Next]_vars PROVE [Spared]_vars
  <2>0. TypeOK /\ cmd \in CommandRecords
    BY <1>1 DEF LocalInv, TypeInv
  <2>1. SUFFICES ASSUME Next, NEW p \in Pids, procs[p].kind = "other", ~procs[p].term, procs'[p].term
                 PROVE  At("signal") /\ files.pid = p /\ cmd.since # 0 /\ cmd.since = files.started
    BY <1>1
  <2>2. CASE procs' = procs
    BY <2>1, <2>2
  <2>3. CASE Signal
    <3>1. At("signal") /\ procs' = [procs EXCEPT ![files.pid].term = TRUE]
      BY <2>3 DEF Signal
    <3>2. files.pid = p
      BY <2>0, <2>1, <3>1 DEF TypeOK
    <3> QED
      BY <1>1, <3>1, <3>2 DEF LocalInv, ServiceInv
  <2>4. CASE Spawn
    BY <2>0, <2>1, <2>4, SpawnEffect DEF TypeOK
  <2>5. CASE Machine
    <3>1. ~NoProcess.term /\ ~[NoProcess EXCEPT !.kind = "other"].term
      BY DEF NoProcess
    <3> QED
      BY <2>0, <2>1, <2>5, <3>1 DEF Machine, Exit, OtherStarts, TypeOK
  <2>6. Signal \/ Spawn \/ Machine \/ procs' = procs
    BY <2>1, CommandsKeep
            DEF Next, Steps, Refuse, Prepare, WriteEnv, StopFull, Start, WaitElasticsearch, ConfigureSecurity, WriteKey, SetupMode, StartEsdiag, WaitEsdiag,
                WriteMode, Kill, Unlink, ChildGone, WritePid, WriteStarted, CheckUpgrade, Approved, RecordVersions,
                WriteCompose, Pulled, PullFails, RestoreVersions, ComposeDown, ResetDown, RemoveDir, SetupPrepare,
                WriteLevel, Recreate, Abort, TearEnv, disk, world
  <2> QED
    BY <2>2, <2>3, <2>4, <2>5, <2>6
<1> QED
  BY <1>1, Invariant, PTL DEF Spec, OthersSpared

----------------------------------------------------------------------------
(* Skill directories                                                          *)

SkillRuns ==
  [pc : {"idle", "next", "stage", "activate", "clean"}, release : SkillReleases \cup {0}, force : BOOLEAN,
   selected : SUBSET Targets, target : Targets \cup {"none"}, failed : BOOLEAN, moved : Dirs]

SkillShape ==
  /\ skill \in SkillRuns
  /\ dest \in [Targets -> Dirs]
  /\ backups \in [Targets -> SUBSET (Dirs \ {NoDir})]
  /\ written \subseteq Targets
  /\ skillFaults \in 0 .. MaxSkillFaults

\* What an installation has done at each point. Without --force it moves out a
\* directory of the user only when that is an edit nobody promised to keep.
Backed(t) == \E d \in backups[t] : d.files = User
Spared(t) == t \notin written \/ Backed(t)
SkillPoint ==
  /\ skill.pc # "idle" => skill.release \in SkillReleases
  /\ skill.pc \in {"idle", "next", "stage"} => skill.moved = NoDir
  /\ skill.pc \in {"stage", "activate", "clean"} => skill.target \in Targets
  /\ skill.pc = "stage" /\ ~skill.force /\ dest[skill.target].files = User => Spared(skill.target)
  /\ ~skill.force /\ skill.moved.files = User => dest[skill.target].files = User \/ Spared(skill.target)

Whole(d) == d.files \in SkillReleases => d.marker = d.files
Wholes == (\A t \in Targets : Whole(dest[t])) /\ Whole(skill.moved)

SkillInv == SkillShape /\ SkillPoint /\ UserFilesKept /\ Wholes

Turns == [pc : {"idle", "post", "stream"}, conversation : 0 .. 2, message : 0 .. 2, events : Nat, sent : BOOLEAN,
          announced : 0 .. 2, said : 0 .. 2,
          outcome : {"none", "transport", "http", "protocol", "remote", "completed", "interrupted"}]

\* A turn knows what the stream named last.
TurnInv ==
  /\ ask \in Turns
  /\ ask.message = ask.said /\ ask.conversation = ask.announced
  /\ ask.outcome = "completed" => ask.message # 0

LEMMA DirFacts ==
  /\ NoDir \in Dirs /\ Whole(NoDir) /\ NoDir.files # User
  /\ \A m \in SkillReleases \cup {0} : UserDir(m) \in Dirs /\ Whole(UserDir(m)) /\ UserDir(m).files = User
  /\ \A r \in SkillReleases : Release(r) \in Dirs /\ Whole(Release(r)) /\ Release(r).files # User
                              /\ Release(r) # NoDir
  /\ \A d \in Dirs : d.marker \in SkillReleases \cup {0} /\ (d.files = User => d # NoDir)
<1>1. NoDir \in Dirs /\ Whole(NoDir) /\ NoDir.files # User
  BY SkillBounds DEF Dirs, NoDir, Whole, User
<1>2. ASSUME NEW m \in SkillReleases \cup {0}
      PROVE  UserDir(m) \in Dirs /\ Whole(UserDir(m)) /\ UserDir(m).files = User
  BY SkillBounds DEF Dirs, UserDir, Whole, User
<1>3. ASSUME NEW r \in SkillReleases
      PROVE  Release(r) \in Dirs /\ Whole(Release(r)) /\ Release(r).files # User /\ Release(r) # NoDir
  <2>1. Release(r) \in {[files |-> q, marker |-> m] : q \in SkillReleases, m \in SkillReleases \cup {0}}
    BY DEF Release
  <2>2. Release(r).files = r /\ Release(r).marker = r /\ NoDir.files = 0
    BY DEF Release, NoDir
  <2>3. QED BY <2>1, <2>2, SkillBounds DEF Dirs, Whole, User
<1>4. ASSUME NEW d \in Dirs
      PROVE  d.marker \in SkillReleases \cup {0} /\ (d.files = User => d # NoDir)
  BY <1>1 DEF Dirs, NoDir, UserDir
<1>5. QED BY <1>1, <1>2, <1>3, <1>4

LEMMA SkillInitFacts == SkillInit /\ ask = NoAsk => SkillInv /\ TurnInv
<1> SUFFICES ASSUME SkillInit, ask = NoAsk PROVE SkillInv /\ TurnInv OBVIOUS
<1> USE DEF SkillInit
<1>1. skill \in SkillRuns
  BY DirFacts DEF NoSkill, SkillRuns
<1>2. \A t \in Targets : dest[t] \in Dirs /\ Whole(dest[t])
  BY DirFacts, SkillBounds
<1>3. SkillShape
  BY <1>1, <1>2, SkillBounds DEF SkillShape
<1>4. SkillPoint /\ UserFilesKept /\ Wholes
  BY <1>2, DirFacts DEF SkillPoint, Spared, Backed, UserFilesKept, Holds, Wholes, NoSkill
<1>5. TurnInv
  BY DEF TurnInv, Turns, NoAsk
<1>6. QED BY <1>3, <1>4, <1>5 DEF SkillInv

\* One step of an installation, or an edit between two of them.
LEMMA StartSkillsKeeps ==
  ASSUME SkillInv, SkillStarts PROVE SkillInv'
<1>1. PICK r \in SkillReleases, force \in BOOLEAN, sel \in SUBSET Targets : StartSkills(r, force, sel)
  BY DEF SkillStarts
<1>2. /\ skill' \in SkillRuns /\ skill'.pc = "next" /\ skill'.release = r /\ skill'.moved = NoDir
      /\ UNCHANGED <<dest, backups, skillFaults, written>>
  BY <1>1, DirFacts DEF StartSkills, NoSkill, SkillRuns
<1>3. SkillShape'
  BY <1>2 DEF SkillInv, SkillShape
<1>4. skill.moved.files # User
  BY <1>1, DirFacts DEF SkillInv, SkillPoint, Spared, Backed, StartSkills
<1>5. SkillPoint' /\ UserFilesKept' /\ Wholes'
  BY <1>2, <1>4, DirFacts DEF SkillInv, SkillPoint, Spared, Backed, UserFilesKept, Holds, Wholes
<1>6. QED BY <1>3, <1>5 DEF SkillInv

LEMMA InspectKeeps ==
  ASSUME SkillInv, NEW t \in Targets, InspectTarget(t) PROVE SkillInv'
<1> DEFINE state == Inspect(dest[t], skill.release)
<1>1. /\ skill \in SkillRuns /\ skill.pc = "next" /\ skill.moved = NoDir /\ skill.release \in SkillReleases
      /\ dest[t] \in Dirs /\ UNCHANGED <<dest, backups, skillFaults, written>>
  BY DEF SkillInv, SkillShape, SkillPoint, Spared, Backed, InspectTarget
<1>2. \/ skill' = [skill EXCEPT !.selected = @ \ {t}]
      \/ skill' = [skill EXCEPT !.selected = @ \ {t}, !.failed = TRUE]
      \/ skill' = [skill EXCEPT !.pc = "stage", !.target = t] /\ (state \in {"modified", "unrecognized"} => skill.force)
  BY DEF InspectTarget
<1>3. dest[t].files = User => state \in {"modified", "unrecognized"}
  BY <1>1, SkillBounds DEF Inspect, Dirs, NoDir, UserDir, User
<1> HIDE DEF state
<1>4. /\ skill' \in SkillRuns /\ skill'.moved = NoDir /\ skill'.release = skill.release /\ skill'.force = skill.force
      /\ skill'.pc = "next" \/ (skill'.pc = "stage" /\ skill'.target = t /\ (state \in {"modified", "unrecognized"} => skill.force))
  BY <1>1, <1>2 DEF SkillRuns
<1>5. SkillShape'
  BY <1>1, <1>4 DEF SkillInv, SkillShape
<1>6. SkillPoint'
  BY <1>1, <1>3, <1>4, DirFacts DEF SkillInv, SkillPoint, Spared, Backed
<1>7. UserFilesKept' /\ Wholes'
  BY <1>1, <1>4, DirFacts DEF SkillInv, UserFilesKept, Holds, Wholes
<1>8. QED BY <1>5, <1>6, <1>7 DEF SkillInv

\* The target is through; what was moved out must be elsewhere by then.
LEMMA TargetDoneFacts ==
  ASSUME SkillInv, skill.pc # "idle", NEW ok \in BOOLEAN, TargetDone(ok)
  PROVE  /\ skill' \in SkillRuns /\ skill'.pc = "next" /\ skill'.moved = NoDir /\ skill'.target = "none"
         /\ skill'.release \in SkillReleases
BY DirFacts DEF TargetDone, SkillRuns, SkillInv, SkillShape, SkillPoint, Spared, Backed

LEMMA SkillFaultCounted ==
  ASSUME SkillInv, SkillFault PROVE skillFaults' \in 0 .. MaxSkillFaults
<1>1. skillFaults \in 0 .. MaxSkillFaults
  BY DEF SkillInv, SkillShape
<1>2. QED BY <1>1, SkillBounds DEF SkillFault

LEMMA StageFailsKeeps ==
  ASSUME SkillInv, StageFails PROVE SkillInv'
<1>1. /\ skill.pc = "stage" /\ TargetDone(FALSE) /\ skillFaults' \in 0 .. MaxSkillFaults
      /\ UNCHANGED <<dest, backups, written>>
  BY SkillFaultCounted DEF StageFails
<1>2. skill' \in SkillRuns /\ skill'.pc = "next" /\ skill'.moved = NoDir /\ skill'.release \in SkillReleases
  BY <1>1, TargetDoneFacts
<1>3. skill.moved.files # User
  BY <1>1, DirFacts DEF SkillInv, SkillPoint, Spared, Backed
<1>4. SkillShape'
  BY <1>1, <1>2 DEF SkillInv, SkillShape
<1>5. SkillPoint' /\ UserFilesKept' /\ Wholes'
  BY <1>1, <1>2, <1>3, DirFacts DEF SkillInv, SkillPoint, Spared, Backed, UserFilesKept, Holds, Wholes
<1>6. QED BY <1>4, <1>5 DEF SkillInv

LEMMA MoveOutKeeps ==
  ASSUME SkillInv, MoveOut PROVE SkillInv'
<1> DEFINE x == skill.target
<1>1. /\ skill \in SkillRuns /\ skill.pc = "stage" /\ x \in Targets /\ dest[x] \in Dirs /\ Whole(dest[x])
      /\ skill.moved = NoDir /\ skill.release \in SkillReleases /\ (~skill.force /\ dest[x].files = User => Spared(x))
      /\ dest' = [dest EXCEPT ![x] = NoDir] /\ UNCHANGED <<backups, skillFaults, written>>
  BY DEF SkillInv, SkillShape, SkillPoint, Wholes, MoveOut
<1>2. /\ skill' \in SkillRuns /\ skill'.pc = "activate" /\ skill'.moved = dest[x] /\ skill'.target = x
      /\ skill'.release = skill.release /\ skill'.force = skill.force
  BY <1>1 DEF MoveOut, SkillRuns
<1> HIDE DEF x
<1>3. dest' \in [Targets -> Dirs] /\ dest'[x] = NoDir /\ \A t \in Targets \ {x} : dest'[t] = dest[t]
  BY <1>1, DirFacts DEF SkillInv, SkillShape
<1>4. SkillShape' /\ SkillPoint'
  BY <1>1, <1>2, <1>3 DEF SkillInv, SkillShape, SkillPoint, Spared, Backed
<1>5. UserFilesKept'
  <2> SUFFICES ASSUME NEW t \in written
               PROVE  \/ dest'[t].files = User
                      \/ skill'.target = t /\ skill'.moved.files = User
                      \/ \E d \in backups[t] : d.files = User
    BY <1>1 DEF UserFilesKept, Holds
  <2>1. t \in Targets /\ (dest[t].files = User \/ \E d \in backups[t] : d.files = User)
    BY <1>1, DirFacts DEF SkillInv, SkillShape, UserFilesKept, Holds
  <2>2. QED BY <1>2, <1>3, <2>1
<1>6. Wholes'
  BY <1>1, <1>2, <1>3, DirFacts DEF SkillInv, Wholes
<1>7. QED BY <1>4, <1>5, <1>6 DEF SkillInv

LEMMA ActivateKeeps ==
  ASSUME SkillInv, Activate PROVE SkillInv'
<1> DEFINE x == skill.target
<1>1. /\ skill \in SkillRuns /\ skill.pc = "activate" /\ x \in Targets /\ dest[x] = NoDir
      /\ skill.release \in SkillReleases
      /\ dest' = [dest EXCEPT ![x] = Release(skill.release)] /\ UNCHANGED <<backups, skillFaults, written>>
  BY DEF SkillInv, SkillShape, SkillPoint, Spared, Backed, Activate
<1>2. /\ skill' \in SkillRuns /\ skill'.pc = "clean" /\ skill'.moved = skill.moved /\ skill'.target = x
      /\ skill'.release = skill.release /\ skill'.force = skill.force
  BY <1>1 DEF Activate, SkillRuns
<1>9. x = skill.target
  OBVIOUS
<1> HIDE DEF x
<1>3. dest' \in [Targets -> Dirs] /\ dest'[x] = Release(skill.release) /\ \A t \in Targets \ {x} : dest'[t] = dest[t]
  BY <1>1, DirFacts DEF SkillInv, SkillShape
<1>4. SkillShape'
  BY <1>1, <1>2, <1>3 DEF SkillInv, SkillShape
<1>8. ~skill.force /\ skill.moved.files = User => Spared(x)
  BY <1>1, <1>9, DirFacts DEF SkillInv, SkillPoint
<1>10. \A v \in Targets : Spared(v)' = Spared(v)
  BY <1>1 DEF Spared, Backed
<1>11. SkillPoint'
  BY <1>1, <1>2, <1>3, <1>8, <1>9, <1>10 DEF SkillPoint
<1>5. UserFilesKept'
  <2> SUFFICES ASSUME NEW t \in written
               PROVE  \/ dest'[t].files = User
                      \/ skill'.target = t /\ skill'.moved.files = User
                      \/ \E d \in backups[t] : d.files = User
    BY <1>1 DEF UserFilesKept, Holds
  <2>1. t \in Targets
    BY DEF SkillInv, SkillShape
  <2>2. \/ dest[t].files = User
        \/ skill.target = t /\ skill.moved.files = User
        \/ \E d \in backups[t] : d.files = User
    BY DEF SkillInv, UserFilesKept, Holds
  <2>3. QED BY <1>1, <1>2, <1>3, <2>1, <2>2, DirFacts DEF x
<1>6. Wholes'
  BY <1>1, <1>2, <1>3, DirFacts DEF SkillInv, Wholes
<1>7. QED BY <1>4, <1>5, <1>6, <1>11 DEF SkillInv

\* What was moved out is put back or kept as a backup.
LEMMA ActivateFailsKeeps ==
  ASSUME SkillInv, ActivateFails PROVE SkillInv'
<1> DEFINE x == skill.target
<1>1. /\ skill \in SkillRuns /\ skill.pc = "activate" /\ x \in Targets
      /\ skill.moved \in Dirs /\ Whole(skill.moved) /\ written' = written
  BY DEF SkillInv, SkillShape, SkillPoint, Spared, Backed, Wholes, ActivateFails, SkillRuns
<1>2. /\ skill' \in SkillRuns /\ skill'.pc = "next" /\ skill'.moved = NoDir
      /\ skill'.release \in SkillReleases
  BY <1>1, TargetDoneFacts DEF ActivateFails
<1>3. \/ dest[x] = NoDir /\ dest' = [dest EXCEPT ![x] = skill.moved] /\ backups' = backups
      \/ skill.moved = NoDir /\ backups' = backups /\ dest' = dest
      \/ skill.moved # NoDir /\ backups' = [backups EXCEPT ![x] = @ \cup {skill.moved}] /\ dest' = dest
  BY DEF ActivateFails, LeftBehind
<1>4. skillFaults' \in 0 .. MaxSkillFaults
  BY SkillFaultCounted DEF ActivateFails, SkillInv, SkillShape
<1>5. x = skill.target
  OBVIOUS
<1> HIDE DEF x
<1>6. /\ dest' \in [Targets -> Dirs] /\ backups' \in [Targets -> SUBSET (Dirs \ {NoDir})]
      /\ \A t \in Targets : (t # x => dest'[t] = dest[t]) /\ backups[t] \subseteq backups'[t]
      /\ \/ dest[x] = NoDir /\ dest'[x] = skill.moved
         \/ dest'[x] = dest[x] /\ (skill.moved = NoDir \/ skill.moved \in backups'[x])
  <2>1. dest \in [Targets -> Dirs] /\ backups \in [Targets -> SUBSET (Dirs \ {NoDir})]
    BY DEF SkillInv, SkillShape
  <2>2. CASE dest[x] = NoDir /\ dest' = [dest EXCEPT ![x] = skill.moved] /\ backups' = backups
    BY <1>1, <2>1, <2>2
  <2>0. CASE skill.moved = NoDir /\ backups' = backups /\ dest' = dest
    BY <1>1, <2>0, <2>1
  <2>3. CASE skill.moved # NoDir /\ backups' = [backups EXCEPT ![x] = @ \cup {skill.moved}] /\ dest' = dest
    BY <1>1, <2>1, <2>3
  <2>4. QED BY <1>3, <2>0, <2>2, <2>3
<1>7. SkillShape' /\ SkillPoint'
  BY <1>1, <1>2, <1>4, <1>6, DirFacts DEF SkillInv, SkillShape, SkillPoint, Spared, Backed
<1>8. UserFilesKept'
  <2> SUFFICES ASSUME NEW t \in written
               PROVE  dest'[t].files = User \/ \E d \in backups'[t] : d.files = User
    BY <1>1 DEF UserFilesKept, Holds
  <2>1. t \in Targets
    BY DEF SkillInv, SkillShape
  <2>2. \/ dest[t].files = User
        \/ skill.target = t /\ skill.moved.files = User
        \/ \E d \in backups[t] : d.files = User
    BY DEF SkillInv, UserFilesKept, Holds
  <2>3. CASE t # x
    BY <1>5, <1>6, <2>1, <2>2, <2>3
  <2>4. CASE t = x
    BY <1>1, <1>6, <2>1, <2>2, <2>4, DirFacts
  <2>5. QED BY <2>3, <2>4
<1>9. Wholes'
  BY <1>1, <1>2, <1>6, DirFacts DEF SkillInv, Wholes
<1>10. QED BY <1>7, <1>8, <1>9 DEF SkillInv

LEMMA RemoveBackupKeeps ==
  ASSUME SkillInv, RemoveBackup PROVE SkillInv'
<1> DEFINE x == skill.target
<1>1. /\ skill \in SkillRuns /\ skill.pc = "clean" /\ x \in Targets /\ dest[x] \in Dirs
      /\ skill.release \in SkillReleases /\ skill.moved \in Dirs /\ dest' = dest
      /\ (~skill.force /\ skill.moved.files = User => dest[x].files = User \/ Spared(x))
  BY DEF SkillInv, SkillShape, SkillPoint, RemoveBackup, SkillRuns
<1>2. /\ skill' \in SkillRuns /\ skill'.pc = "next" /\ skill'.moved = NoDir
      /\ skill'.release \in SkillReleases
  BY <1>1, TargetDoneFacts DEF RemoveBackup
<1>3. \/ backups' = backups /\ skillFaults' = skillFaults
         /\ written' = IF skill.force /\ dest[x].files # User THEN written \ {x} ELSE written
      \/ /\ skill.moved # NoDir /\ backups' = [backups EXCEPT ![x] = @ \cup {skill.moved}] /\ written' = written
         /\ skillFaults' \in 0 .. MaxSkillFaults
  BY SkillFaultCounted DEF RemoveBackup, LeftBehind
<1>4. x = skill.target
  OBVIOUS
<1> HIDE DEF x
<1>5. /\ backups' \in [Targets -> SUBSET (Dirs \ {NoDir})]
      /\ \A t \in Targets : backups[t] \subseteq backups'[t]
      /\ written' \subseteq written
      /\ \/ x \notin written' \/ dest[x].files = User \/ skill.moved.files # User \/ skill.moved \in backups'[x]
         \/ \E d \in backups'[x] : d.files = User
  BY <1>1, <1>3 DEF SkillInv, SkillShape, Spared, Backed
<1>6. SkillShape' /\ SkillPoint'
  BY <1>1, <1>2, <1>3, <1>5, DirFacts DEF SkillInv, SkillShape, SkillPoint, Spared, Backed
<1>7. UserFilesKept'
  <2> SUFFICES ASSUME NEW t \in written'
               PROVE  dest[t].files = User \/ \E d \in backups'[t] : d.files = User
    BY <1>1 DEF UserFilesKept, Holds
  <2>1. t \in Targets /\ t \in written
    BY <1>5 DEF SkillInv, SkillShape
  <2>2. \/ dest[t].files = User
        \/ skill.target = t /\ skill.moved.files = User
        \/ \E d \in backups[t] : d.files = User
    BY <2>1 DEF SkillInv, UserFilesKept, Holds
  <2>3. CASE t # x
    BY <1>4, <1>5, <2>1, <2>2, <2>3
  <2>4. CASE t = x
    BY <1>4, <1>5, <2>1, <2>2, <2>4, DirFacts
  <2>5. QED BY <2>3, <2>4
<1>8. Wholes'
  BY <1>1, <1>2, DirFacts DEF SkillInv, Wholes
<1>9. QED BY <1>6, <1>7, <1>8 DEF SkillInv

\* The command ends or is cut off; a directory that was moved out stays as a
\* backup.
LEMMA SkillsEndKeeps ==
  ASSUME SkillInv, SkillsDone \/ SkillsCut PROVE SkillInv'
<1> DEFINE x == skill.target
<1>1. /\ skill' \in SkillRuns /\ skill'.pc = "idle" /\ skill'.moved = NoDir /\ dest' = dest /\ written' = written
  <2>1. skill' = NoSkill /\ dest' = dest /\ written' = written
    BY DEF SkillsDone, SkillsCut
  <2>2. NoSkill \in SkillRuns /\ NoSkill.pc = "idle" /\ NoSkill.moved = NoDir
    BY DirFacts DEF NoSkill, SkillRuns
  <2>3. QED BY <2>1, <2>2
<1>2. skill.moved # NoDir => x \in Targets
  BY DEF SkillInv, SkillShape, SkillPoint, Spared, Backed, SkillRuns
<1>3. \/ skill.moved = NoDir /\ backups' = backups
      \/ skill.moved # NoDir /\ backups' = [backups EXCEPT ![x] = @ \cup {skill.moved}]
  BY DEF SkillsDone, SkillsCut, LeftBehind, SkillInv, SkillPoint
<1>4. skillFaults' \in 0 .. MaxSkillFaults
  BY SkillFaultCounted DEF SkillsDone, SkillsCut, SkillInv, SkillShape
<1>5. x = skill.target /\ skill.moved \in Dirs
  BY DEF SkillInv, SkillShape, SkillRuns
<1> HIDE DEF x
<1>6. /\ backups' \in [Targets -> SUBSET (Dirs \ {NoDir})]
      /\ \A t \in Targets : backups[t] \subseteq backups'[t]
      /\ skill.moved # NoDir => skill.moved \in backups'[x]
  BY <1>2, <1>3, <1>5 DEF SkillInv, SkillShape
<1>7. SkillShape'
  BY <1>1, <1>4, <1>6 DEF SkillInv, SkillShape
<1>8. SkillPoint' /\ Wholes'
  BY <1>1, DirFacts DEF SkillInv, SkillPoint, Spared, Backed, Wholes
<1>9. UserFilesKept'
  <2> SUFFICES ASSUME NEW t \in written
               PROVE  dest[t].files = User \/ \E d \in backups'[t] : d.files = User
    BY <1>1 DEF UserFilesKept, Holds
  <2>1. t \in Targets
    BY DEF SkillInv, SkillShape
  <2>2. \/ dest[t].files = User
        \/ skill.target = t /\ skill.moved.files = User
        \/ \E d \in backups[t] : d.files = User
    BY DEF SkillInv, UserFilesKept, Holds
  <2>3. QED BY <1>5, <1>6, <2>1, <2>2, DirFacts
<1>10. QED BY <1>7, <1>8, <1>9 DEF SkillInv

LEMMA EditKeeps ==
  ASSUME SkillInv, NEW t \in Targets, UserWrites(t) PROVE SkillInv'
<1>1. /\ dest[t] \in Dirs /\ dest[t].marker \in SkillReleases \cup {0}
      /\ dest' = [dest EXCEPT ![t] = UserDir(dest[t].marker)]
      /\ written \subseteq written' /\ written' \subseteq written \cup {t} /\ UNCHANGED <<backups, skill>>
      /\ skill.pc = "stage" /\ t = skill.target => written' = written /\ (dest[t].files # User \/ t \notin written)
  BY DirFacts DEF UserWrites, SkillInv, SkillShape
<1>0. skillFaults' \in 0 .. MaxSkillFaults
  BY SkillFaultCounted DEF UserWrites, SkillInv, SkillShape
<1> DEFINE u == UserDir(dest[t].marker)
<1>2. u \in Dirs /\ Whole(u) /\ u.files = User
  BY <1>1, DirFacts
<1>3. dest' = [dest EXCEPT ![t] = u]
  BY <1>1
<1> HIDE DEF u
<1>4. dest' \in [Targets -> Dirs] /\ dest'[t] = u /\ \A v \in Targets \ {t} : dest'[v] = dest[v]
  BY <1>2, <1>3 DEF SkillInv, SkillShape
<1>5. SkillShape'
  BY <1>0, <1>1, <1>4 DEF SkillInv, SkillShape
<1>9. \A v \in Targets \ {t} : Spared(v) => Spared(v)'
  BY <1>1 DEF Spared, Backed
<1>10. skill.pc = "stage" /\ t = skill.target => Spared(t)'
  <2> SUFFICES ASSUME skill.pc = "stage", t = skill.target, t \in written PROVE Backed(t)
    BY <1>1 DEF Spared, Backed
  <2>1. dest[t].files # User /\ skill.moved.files # User
    BY <1>1, DirFacts DEF SkillInv, SkillPoint
  <2>2. QED BY <2>1 DEF SkillInv, UserFilesKept, Holds, Backed
<1>11. skill.moved.files = User => skill.target \in Targets
  BY DirFacts DEF SkillInv, SkillShape, SkillPoint, SkillRuns
<1>12. SkillPoint'
  BY <1>1, <1>2, <1>4, <1>9, <1>10, <1>11 DEF SkillInv, SkillPoint
<1>6. UserFilesKept'
  BY <1>1, <1>2, <1>4 DEF SkillInv, SkillShape, UserFilesKept, Holds
<1>7. Wholes'
  BY <1>1, <1>2, <1>4 DEF SkillInv, Wholes
<1>8. QED BY <1>5, <1>6, <1>7, <1>12 DEF SkillInv

LEMMA TurnKeeps ==
  ASSUME TurnInv, AskStarts \/ AskSteps PROVE TurnInv'
<1>1. /\ ask \in Turns /\ ask.message = ask.said /\ ask.conversation = ask.announced
      /\ (ask.outcome = "completed" => ask.message # 0)
  BY DEF TurnInv, Turns
<1>2. CASE AskStarts
  <2>1. PICK c \in 0 .. 1 : ask' = [NoAsk EXCEPT !.pc = "post", !.conversation = c, !.announced = c]
    BY <1>2 DEF AskStarts, StartAsk
  <2> DEFINE n1 == [NoAsk EXCEPT !.pc = "post"]
             n2 == [n1 EXCEPT !.conversation = c]
             n3 == [n2 EXCEPT !.announced = c]
  <2>2. ask' = n3 /\ c \in 0 .. 2
    BY <2>1
  <2>3. NoAsk \in Turns /\ NoAsk.message = 0 /\ NoAsk.said = 0 /\ NoAsk.outcome = "none"
    BY DEF NoAsk, Turns
  <2>4. n1 \in Turns /\ n1.message = 0 /\ n1.said = 0 /\ n1.outcome = "none"
    BY <2>3 DEF Turns
  <2> HIDE DEF n1
  <2>5. n2 \in Turns /\ n2.message = 0 /\ n2.said = 0 /\ n2.outcome = "none" /\ n2.conversation = c
    BY <2>2, <2>4 DEF Turns
  <2> HIDE DEF n2
  <2>6. n3 \in Turns /\ n3.message = 0 /\ n3.said = 0 /\ n3.outcome = "none" /\ n3.conversation = c /\ n3.announced = c
    BY <2>2, <2>5 DEF Turns
  <2> HIDE DEF n3
  <2>7. QED BY <2>2, <2>6 DEF TurnInv
<1>3. CASE PostFails
  BY <1>1, <1>3 DEF PostFails, TurnInv, Turns
<1>4. CASE PostRefused \/ BadEvent \/ ErrorEvent \/ StreamBreaks
  BY <1>1, <1>4 DEF PostRefused, BadEvent, ErrorEvent, StreamBreaks, EndTurn, TurnInv, Turns
<1>5. CASE StreamEnds
  <2>1. PICK o \in {"completed", "interrupted"} : EndTurn(o) /\ (o = "completed" => ask.message # 0)
    BY <1>5 DEF StreamEnds
  <2>2. QED BY <1>1, <2>1 DEF EndTurn, TurnInv, Turns
<1>6. CASE Posted
  BY <1>1, <1>6 DEF Posted, TurnInv, Turns
<1>7. CASE OtherEvent
  BY <1>1, <1>7 DEF OtherEvent, TurnInv, Turns
<1>8. ASSUME NEW x \in 0 .. 2, ConversationIdSet(x) PROVE TurnInv'
  <2> DEFINE c == IF x = 0 THEN ask.conversation ELSE x
             n1 == [ask EXCEPT !.events = @ + 1]
             n2 == [n1 EXCEPT !.conversation = c]
             n3 == [n2 EXCEPT !.announced = c]
  <2>1. ask' = n3
    BY <1>1, <1>8 DEF ConversationIdSet, Turns
  <2>2. c \in 0 .. 2
    BY <1>1 DEF Turns
  <2> HIDE DEF c
  <2>3. n1 \in Turns /\ n1.message = ask.message /\ n1.said = ask.said /\ n1.outcome = ask.outcome
        /\ n1.conversation = ask.conversation /\ n1.announced = ask.announced
    BY <1>1 DEF Turns
  <2> HIDE DEF n1
  <2>4. n2 \in Turns /\ n2.message = ask.message /\ n2.said = ask.said /\ n2.outcome = ask.outcome /\ n2.conversation = c
    BY <2>2, <2>3 DEF Turns
  <2> HIDE DEF n2
  <2>5. n3 \in Turns /\ n3.message = ask.message /\ n3.said = ask.said /\ n3.outcome = ask.outcome
        /\ n3.conversation = c /\ n3.announced = c
    BY <2>2, <2>4 DEF Turns
  <2> HIDE DEF n3
  <2>6. QED BY <1>1, <2>1, <2>5 DEF TurnInv
<1>9. ASSUME NEW x \in 0 .. 2, MessageComplete(x) PROVE TurnInv'
  <2> DEFINE c == IF x = 0 THEN ask.message ELSE x
             n1 == [ask EXCEPT !.events = @ + 1]
             n2 == [n1 EXCEPT !.message = c]
             n3 == [n2 EXCEPT !.said = c]
  <2>1. ask' = n3
    BY <1>1, <1>9 DEF MessageComplete, Turns
  <2>2. c \in 0 .. 2 /\ (ask.message # 0 => c # 0)
    BY <1>1 DEF Turns
  <2> HIDE DEF c
  <2>3. n1 \in Turns /\ n1.message = ask.message /\ n1.said = ask.said /\ n1.outcome = ask.outcome
        /\ n1.conversation = ask.conversation /\ n1.announced = ask.announced
    BY <1>1 DEF Turns
  <2> HIDE DEF n1
  <2>4. n2 \in Turns /\ n2.message = c /\ n2.outcome = ask.outcome
        /\ n2.conversation = ask.conversation /\ n2.announced = ask.announced
    BY <2>2, <2>3 DEF Turns
  <2> HIDE DEF n2
  <2>5. n3 \in Turns /\ n3.message = c /\ n3.said = c /\ n3.outcome = ask.outcome
        /\ n3.conversation = ask.conversation /\ n3.announced = ask.announced
    BY <2>2, <2>4 DEF Turns
  <2> HIDE DEF n3
  <2>6. QED BY <1>1, <2>1, <2>2, <2>5 DEF TurnInv
<1>10. QED BY <1>2, <1>3, <1>4, <1>5, <1>6, <1>7, <1>8, <1>9 DEF AskSteps

LEMMA SkillsUntouchedKeep ==
  ASSUME SkillInv, UNCHANGED skillVars PROVE SkillInv'
BY DEF skillVars, SkillInv, SkillShape, SkillPoint, Spared, Backed, UserFilesKept, Holds, Wholes

LEMMA TurnUntouchedKeep ==
  ASSUME TurnInv, UNCHANGED ask PROVE TurnInv'
BY DEF TurnInv

LEMMA SkillStep ==
  ASSUME SkillInv, TurnInv, [CommandsNext]_commandVars PROVE SkillInv' /\ TurnInv'
<1>1. CASE UNCHANGED commandVars \/ RunSetup \/ Deployment
  BY <1>1, SkillsUntouchedKeep, TurnUntouchedKeep DEF commandVars, agentVars, skillVars, RunSetup, Deployment
<1>2. CASE RunSkills
  <2>1. TurnInv'
    BY <1>2, TurnUntouchedKeep DEF RunSkills
  <2>2. CASE SkillStarts
    BY <2>1, <2>2, StartSkillsKeeps
  <2>3. CASE SkillSteps
    BY <2>1, <2>3, InspectKeeps, StageFailsKeeps, MoveOutKeeps, ActivateKeeps, ActivateFailsKeeps, RemoveBackupKeeps,
       SkillsEndKeeps DEF SkillSteps
  <2>4. QED BY <1>2, <2>2, <2>3 DEF RunSkills
<1>3. CASE Edit
  BY <1>3, EditKeeps, TurnUntouchedKeep DEF Edit
<1>4. CASE RunAsk
  BY <1>4, TurnKeeps, SkillsUntouchedKeep DEF RunAsk
<1>5. QED BY <1>1, <1>2, <1>3, <1>4 DEF CommandsNext

\* Whatever fails or is cut off while the skill is installed, what a user wrote
\* into its directory is not deleted without --force, and a directory is never a
\* mixture (install in setup/skills.rs); a turn of the agent reports the message
\* and the conversation that its stream named last (agent/builder.rs).
THEOREM SkillsHold == CommandsSpec => []SkillsSound
<1>1. CommandsInit => SkillInv /\ TurnInv
  BY SkillInitFacts DEF CommandsInit
<1>2. SkillInv /\ TurnInv /\ [CommandsNext]_commandVars => (SkillInv /\ TurnInv)'
  BY SkillStep
<1>3. SkillInv /\ TurnInv => SkillsSound
  <2> SUFFICES ASSUME SkillInv, TurnInv PROVE SkillsSound OBVIOUS
  <2>1. SkillTypeOK
    BY DEF SkillInv, SkillShape, SkillTypeOK, SkillRuns
  <2>2. UserFilesKept /\ WholeDirectories
    BY DEF SkillInv, Wholes, Whole, WholeDirectories
  <2>3. TurnHonest
    BY DEF TurnInv, TurnHonest
  <2>4. QED BY <2>1, <2>2, <2>3 DEF SkillsSound
<1>4. QED BY <1>1, <1>2, <1>3, PTL DEF CommandsSpec

----------------------------------------------------------------------------
(* A run of the setup                                                         *)

SetupPoints == {"idle", "assets", "decide", "roll", "rolling", "patching", "license", "trial", "spaces", "sync", "synced", "attach"}
SendsAssets == {"assets", "decide"}
BeforeRolled == {"assets", "decide", "roll", "rolling"}
InSpace == {"sync", "synced", "attach"}

SetupRuns ==
  [pc : SetupPoints, release : Releases \cup {0}, es : BOOLEAN, kibana : BOOLEAN, space : Spaces, trial : BOOLEAN,
   at : Nat, read : Nat, blind : BOOLEAN, raised : SUBSET Templates, recorded : SUBSET IndexTemplates,
   todo : SUBSET Streams, warned : BOOLEAN, incomplete : BOOLEAN]

KindNames == {"dashboards"} \cup {Kinds[k] : k \in DOMAIN Kinds}

SetupShape ==
  /\ SetupTypeOK
  /\ run \in SetupRuns
  /\ built \in [Streams -> [Templates -> Nat] \cup {<<>>}]
  /\ kibana \in [Spaces -> SUBSET KindNames]

SetupPoint ==
  /\ RunAt("idle") => run = NoRun
  /\ ~RunAt("idle") => run.release \in Releases
  /\ run.pc \in SendsAssets => run.at \in 1 .. Len(Assets)
  /\ RunAt("assets") => ~run.blind
  /\ RunAt("decide") => Asset \in Templates /\ run.read = IF run.blind THEN 0 ELSE installed[Asset]
  /\ RunAt("sync") => run.at \in 1 .. Len(Kinds)
  /\ RunAt("attach") => ~run.incomplete

\* The assets that the run has dealt with.
Handled == {Assets[k] : k \in IF run.pc \in SendsAssets THEN 1 .. run.at - 1 ELSE DOMAIN Assets}

\* Nothing has gone wrong so far.
Unimpaired == ~impaired /\ ~run.warned
NoneBehind == \A s \in Streams : ~Behind(s)
IsRelease(q) == \A t \in Templates : installed[t] = Bundled[q][t]
Uniform == (\A t \in Templates : installed[t] = 0) \/ \E q \in Releases : IsRelease(q)

\* The cluster is at a newer release: nothing is raised.
Ahead ==
  /\ \E q \in Releases : IsRelease(q)
  /\ \A t \in Templates : Bundled[run.release][t] <= installed[t]
  /\ NoneBehind

\* The cluster is at an older one: what was dealt with is at this release, and a
\* stream is behind only a template that was raised.
CatchingUp ==
  /\ \A t \in Templates : installed[t] <= Bundled[run.release][t]
  /\ \A t \in Handled \cap Templates : installed[t] = Bundled[run.release][t]
  /\ Handled \cap IndexTemplates \subseteq run.recorded
  /\ \A s \in Streams : Exists(s) =>
       \A t \in Deps(StreamTemplate[s]) : built[s][t] < installed[t] => t \in run.raised

Level ==
  /\ Unimpaired /\ run.pc \in {"assets", "decide", "roll"} => Ahead \/ CatchingUp
  /\ Unimpaired /\ RunAt("rolling") => Uniform /\ \A s \in Streams : Behind(s) => s \in run.todo
  /\ Unimpaired /\ run.pc \notin BeforeRolled => Uniform /\ NoneBehind

\* What a run that sets up Elasticsearch and was not warned has done of what
\* "complete" promises.
AssetsDone ==
  /\ "pipeline" \in Handled => pipeline
  /\ "role" \in Handled /\ cluster.security /\ ~cluster.serverless => role
  /\ \A t \in Handled \cap Templates : installed[t] >= Bundled[run.release][t]
RolledOver(s) ==
  Exists(s) /\ StreamTemplate[s] \in run.recorded =>
    \A t \in run.raised \cap Deps(StreamTemplate[s]) : built[s][t] >= installed[t]
Renamed == \A c \in Components : installed[c] >= RenamedIn
SoFar ==
  ~RunAt("idle") /\ run.es /\ ~run.warned =>
    /\ AssetsDone
    /\ run.pc \notin {"assets", "decide", "roll"} => \A s \in Streams : RolledOver(s) \/ (RunAt("rolling") /\ s \in run.todo)
    /\ run.pc \notin BeforeRolled /\ Renamed => unbridged \subseteq IF RunAt("patching") THEN run.todo ELSE {}

\* The kinds of assets that were pushed, and the one space that has dashboards.
Pushed ==
  run.pc \in InSpace /\ ~run.incomplete =>
    \A k \in 1 .. Len(Kinds) : (RunAt("sync") => k < run.at) => Kinds[k] \in kibana[run.space]
OneSpace ==
  /\ \A x, y \in Spaces : "dashboards" \in kibana[x] /\ "dashboards" \in kibana[y] => x = y
  /\ run.pc \in InSpace => \A x \in Spaces : "dashboards" \in kibana[x] => x = run.space

SetupInv == SetupShape /\ SetupPoint /\ Level /\ SoFar /\ Pushed /\ OneSpace

----------------------------------------------------------------------------
(* The assets and their order                                                 *)

Enumeration(S) == CHOOSE q \in [1 .. Cardinality(S) -> S] : \A a, b \in DOMAIN q : a # b => q[a] # q[b]

LEMMA EnumerationFacts ==
  ASSUME NEW S, IsFiniteSet(S)
  PROVE  Enumeration(S) \in Seq(S) /\ \A x \in S : \E k \in 1 .. Len(Enumeration(S)) : Enumeration(S)[k] = x
<1> DEFINE n == Cardinality(S)
           q == Enumeration(S)
<1>1. n \in Nat /\ ExistsBijection(1 .. n, S)
  BY FS_CardinalityType
<1>2. PICK p \in [1 .. n -> S] : \A a, b \in 1 .. n : a # b => p[a] # p[b]
  BY <1>1 DEF ExistsBijection, Bijection, Injection, IsInjective
<1>3. \E r \in [1 .. n -> S] : \A a, b \in DOMAIN r : a # b => r[a] # r[b]
  BY <1>2
<1>4. q \in [1 .. n -> S] /\ \A a, b \in DOMAIN q : a # b => q[a] # q[b]
  BY <1>3 DEF Enumeration
<1> HIDE DEF q
<1>5. q \in Injection(1 .. n, S)
  BY <1>4 DEF Injection, IsInjective
<1>6. IsFiniteSet(1 .. n) /\ Cardinality(1 .. n) = n
  BY <1>1, FS_Interval
<1>7. q \in Surjection(1 .. n, S)
  BY <1>5, <1>6, FS_Injection
<1>8. q \in Seq(S) /\ Len(q) = n
  BY <1>1, <1>4
<1>9. \A x \in S : \E k \in 1 .. n : q[k] = x
  BY <1>7 DEF Surjection
<1>10. QED BY <1>8, <1>9 DEF q

AllAssets == {"pipeline", "role"} \cup Templates

LEMMA AssetsFacts ==
  /\ Len(Assets) \in Nat /\ Len(Assets) >= 2 /\ DOMAIN Assets = 1 .. Len(Assets)
  /\ AllAssets \subseteq {Assets[k] : k \in DOMAIN Assets}
  /\ \A k \in DOMAIN Assets : Assets[k] \in AllAssets
<1> DEFINE c == Enumeration(Components)
           i == Enumeration(IndexTemplates)
           s1 == <<"pipeline">> \o c
           s2 == s1 \o i
           s3 == s2 \o <<"role">>
<1>1. Assets = s3
  BY DEF Assets, Enumeration
<1>2. c \in Seq(AllAssets) /\ i \in Seq(AllAssets) /\ <<"pipeline">> \in Seq(AllAssets) /\ <<"role">> \in Seq(AllAssets)
  <2>1. c \in Seq(Components) /\ i \in Seq(IndexTemplates)
    BY EnumerationFacts, CompositionAssumption
  <2> HIDE DEF c, i
  <2>2. QED BY <2>1 DEF AllAssets, Templates
<1>3. /\ \A x \in Components : \E k \in 1 .. Len(c) : c[k] = x
      /\ \A x \in IndexTemplates : \E k \in 1 .. Len(i) : i[k] = x
  BY EnumerationFacts, CompositionAssumption
<1> HIDE DEF c, i
<1>4. /\ s1 \in Seq(AllAssets) /\ Len(s1) = 1 + Len(c)
      /\ s1[1] = "pipeline" /\ \A k \in 1 .. Len(c) : s1[k + 1] = c[k]
  BY <1>2
<1> HIDE DEF s1
<1>5. /\ s2 \in Seq(AllAssets) /\ Len(s2) = Len(s1) + Len(i)
      /\ \A k \in 1 .. Len(s1) : s2[k] = s1[k]
      /\ \A k \in 1 .. Len(i) : s2[k + Len(s1)] = i[k]
  BY <1>2, <1>4
<1> HIDE DEF s2
<1>6. /\ s3 \in Seq(AllAssets) /\ Len(s3) = Len(s2) + 1
      /\ \A k \in 1 .. Len(s2) : s3[k] = s2[k]
      /\ s3[Len(s2) + 1] = "role"
  BY <1>2, <1>5
<1> HIDE DEF s3
<1>7. Len(c) \in Nat /\ Len(i) \in Nat /\ Len(s1) \in Nat /\ Len(s2) \in Nat
  BY <1>2, <1>4, <1>5
<1>8. Len(s3) >= 2 /\ DOMAIN s3 = 1 .. Len(s3) /\ \A k \in DOMAIN s3 : s3[k] \in AllAssets
  BY <1>4, <1>5, <1>6, <1>7
<1>9. ASSUME NEW x \in AllAssets PROVE \E k \in DOMAIN s3 : s3[k] = x
  <2>1. CASE x = "pipeline"
    <3>1. 1 \in DOMAIN s3 /\ s3[1] = "pipeline"
      BY <1>4, <1>5, <1>6, <1>7, <1>8
    <3>2. QED BY <2>1, <3>1
  <2>2. CASE x = "role"
    BY <1>6, <1>7, <1>8, <2>2
  <2>3. CASE x \in Components
    <3>1. PICK k \in 1 .. Len(c) : c[k] = x
      BY <1>3, <2>3
    <3>2. k + 1 \in 1 .. Len(s1) /\ s1[k + 1] = x
      BY <1>4, <1>7, <3>1
    <3>3. k + 1 \in 1 .. Len(s2) /\ s2[k + 1] = x
      BY <1>5, <1>7, <3>2
    <3>4. k + 1 \in DOMAIN s3 /\ s3[k + 1] = x
      BY <1>6, <1>7, <1>8, <3>3
    <3>5. QED BY <3>4
  <2>4. CASE x \in IndexTemplates
    <3>1. PICK k \in 1 .. Len(i) : i[k] = x
      BY <1>3, <2>4
    <3>2. k + Len(s1) \in DOMAIN s3 /\ s3[k + Len(s1)] = x
      BY <1>4, <1>5, <1>6, <1>7, <1>8, <3>1
    <3>3. QED BY <3>2
  <2>5. QED BY <2>1, <2>2, <2>3, <2>4 DEF AllAssets, Templates
<1>10. QED BY <1>1, <1>6, <1>8, <1>9

\* RunAt the end all of them were dealt with; dealing with one adds that one.
LEMMA HandledAll ==
  ASSUME run.pc \notin SendsAssets PROVE Handled = AllAssets
BY AssetsFacts DEF Handled

LEMMA HandledNone ==
  ASSUME run.pc = "assets", run.at = 1 PROVE Handled = {}
BY DEF Handled, SendsAssets

LEMMA HandledSame ==
  ASSUME \/ run.pc \in SendsAssets /\ run'.pc \in SendsAssets /\ run'.at = run.at
         \/ run.pc \notin SendsAssets /\ run'.pc \notin SendsAssets
  PROVE  Handled' = Handled
BY DEF Handled

LEMMA HandledNext ==
  ASSUME run.pc \in SendsAssets, run.at \in 1 .. Len(Assets), run'.at = run.at + 1,
         run'.pc = IF run.at = Len(Assets) THEN "roll" ELSE "assets"
  PROVE  Handled' = Handled \cup {Asset}
<1>1. Len(Assets) \in Nat /\ DOMAIN Assets = 1 .. Len(Assets)
  BY AssetsFacts
<1>2. Handled = {Assets[k] : k \in 1 .. run.at - 1}
  BY DEF Handled
<1>3. Handled' = {Assets[k] : k \in 1 .. run.at}
  <2>1. CASE run.at = Len(Assets)
    BY <1>1, <2>1 DEF Handled, SendsAssets
  <2>2. CASE run.at # Len(Assets)
    BY <1>1, <2>2 DEF Handled, SendsAssets
  <2>3. QED BY <2>1, <2>2
<1>4. 1 .. run.at = (1 .. run.at - 1) \cup {run.at}
  BY <1>1
<1>5. QED BY <1>2, <1>3, <1>4 DEF Asset

----------------------------------------------------------------------------
(* What each assignment to `run` leaves alone                                 *)

SameRequest(r, q) ==
  /\ r.release = q.release /\ r.es = q.es /\ r.kibana = q.kibana /\ r.space = q.space /\ r.trial = q.trial
SameChanges(r, q) == r.raised = q.raised /\ r.recorded = q.recorded

LEMMA PcFacts ==
  ASSUME NEW r \in SetupRuns, NEW p \in SetupPoints
  PROVE  LET x == [r EXCEPT !.pc = p] IN
         /\ x \in SetupRuns /\ x.pc = p /\ SameRequest(x, r) /\ SameChanges(x, r)
         /\ x.at = r.at /\ x.read = r.read /\ x.blind = r.blind /\ x.todo = r.todo
         /\ x.warned = r.warned /\ x.incomplete = r.incomplete
BY DEF SetupRuns, SameRequest, SameChanges

LEMMA AtFacts ==
  ASSUME NEW r \in SetupRuns, NEW n \in Nat
  PROVE  LET x == [r EXCEPT !.at = n] IN
         /\ x \in SetupRuns /\ x.at = n /\ SameRequest(x, r) /\ SameChanges(x, r)
         /\ x.pc = r.pc /\ x.read = r.read /\ x.blind = r.blind /\ x.todo = r.todo
         /\ x.warned = r.warned /\ x.incomplete = r.incomplete
BY DEF SetupRuns, SameRequest, SameChanges

LEMMA ReadFacts ==
  ASSUME NEW r \in SetupRuns, NEW n \in Nat, NEW b \in BOOLEAN
  PROVE  LET x == [r EXCEPT !.read = n, !.blind = b] IN
         /\ x \in SetupRuns /\ x.read = n /\ x.blind = b /\ SameRequest(x, r) /\ SameChanges(x, r)
         /\ x.pc = r.pc /\ x.at = r.at /\ x.todo = r.todo
         /\ x.warned = r.warned /\ x.incomplete = r.incomplete
BY DEF SetupRuns, SameRequest, SameChanges

LEMMA ChangesFacts ==
  ASSUME NEW r \in SetupRuns, NEW R \in SUBSET Templates, NEW C \in SUBSET IndexTemplates
  PROVE  LET x == [r EXCEPT !.raised = R, !.recorded = C] IN
         /\ x \in SetupRuns /\ x.raised = R /\ x.recorded = C /\ SameRequest(x, r)
         /\ x.pc = r.pc /\ x.at = r.at /\ x.read = r.read /\ x.blind = r.blind /\ x.todo = r.todo
         /\ x.warned = r.warned /\ x.incomplete = r.incomplete
BY DEF SetupRuns, SameRequest

LEMMA TodoFacts ==
  ASSUME NEW r \in SetupRuns, NEW S \in SUBSET Streams, NEW b \in BOOLEAN
  PROVE  LET x == [r EXCEPT !.todo = S, !.warned = b] IN
         /\ x \in SetupRuns /\ x.todo = S /\ x.warned = b /\ SameRequest(x, r) /\ SameChanges(x, r)
         /\ x.pc = r.pc /\ x.at = r.at /\ x.read = r.read /\ x.blind = r.blind
         /\ x.incomplete = r.incomplete
BY DEF SetupRuns, SameRequest, SameChanges

LEMMA NoRunFacts ==
  /\ NoRun \in SetupRuns /\ NoRun.pc = "idle" /\ ~NoRun.warned /\ ~NoRun.incomplete /\ ~NoRun.blind /\ NoRun.raised = {} /\ NoRun.todo = {}
BY CompositionAssumption DEF NoRun, SetupRuns, SetupPoints

LEMMA NextAssetFacts ==
  ASSUME NEW r \in SetupRuns, r.at = run.at, run.at \in 1 .. Len(Assets)
  PROVE  LET x == NextAsset(r) IN
         /\ x \in SetupRuns /\ x.pc = (IF run.at = Len(Assets) THEN "roll" ELSE "assets") /\ x.at = run.at + 1
         /\ SameRequest(x, r) /\ SameChanges(x, r) /\ x.todo = r.todo /\ ~x.blind
         /\ x.warned = r.warned /\ x.incomplete = r.incomplete
<1> DEFINE p == IF run.at = Len(Assets) THEN "roll" ELSE "assets"
           x1 == [r EXCEPT !.at = @ + 1]
           x2 == [x1 EXCEPT !.pc = p]
           x3 == [x2 EXCEPT !.read = 0, !.blind = FALSE]
<1>1. NextAsset(r) = x3
  BY DEF NextAsset, SetupRuns
<1>2. r.at \in Nat /\ p \in SetupPoints
  BY DEF SetupRuns, SetupPoints
<1>3. x1 = [r EXCEPT !.at = r.at + 1]
  BY DEF SetupRuns
<1> HIDE DEF x1, p
<1>4. /\ x1 \in SetupRuns /\ x1.at = r.at + 1 /\ SameRequest(x1, r) /\ SameChanges(x1, r) /\ x1.todo = r.todo
      /\ x1.warned = r.warned /\ x1.incomplete = r.incomplete
  BY <1>2, <1>3, AtFacts
<1>5. /\ x2 \in SetupRuns /\ x2.pc = p /\ x2.at = r.at + 1 /\ SameRequest(x2, x1) /\ SameChanges(x2, x1) /\ x2.todo = r.todo
      /\ x2.warned = r.warned /\ x2.incomplete = r.incomplete
  BY <1>2, <1>4, PcFacts
<1> HIDE DEF x2
<1>6. /\ x3 \in SetupRuns /\ x3.pc = p /\ x3.at = r.at + 1 /\ SameRequest(x3, x2) /\ SameChanges(x3, x2) /\ x3.todo = r.todo /\ ~x3.blind
      /\ x3.warned = r.warned /\ x3.incomplete = r.incomplete
  BY <1>5 DEF SetupRuns, SameRequest, SameChanges
<1> HIDE DEF x3
<1>7. QED BY <1>1, <1>4, <1>5, <1>6 DEF SameRequest, SameChanges, p

LEMMA SetupInitFacts == SetupInit => SetupInv
<1> SUFFICES ASSUME SetupInit PROVE SetupInv OBVIOUS
<1> USE DEF SetupInit
<1>1. run = NoRun /\ RunAt("idle")
  BY NoRunFacts DEF RunAt
<1>2. SetupShape
  <2>1. license \in {"active", "inactive"} /\ pipeline \in BOOLEAN /\ role \in BOOLEAN /\ installed \in [Templates -> Nat]
    OBVIOUS
  <2>2. built \in [Streams -> [Templates -> Nat] \cup {<<>>}] /\ \A s \in Streams : ~Exists(s)
    BY DEF Exists
  <2>3. unbridged \subseteq Streams /\ attached \subseteq Spaces /\ kibana \in [Spaces -> SUBSET KindNames]
    OBVIOUS
  <2>4. result = "none" /\ faults \in 0 .. MaxFaults
    BY BundledAssumption
  <2>5. QED BY <1>1, <2>1, <2>2, <2>3, <2>4, NoRunFacts DEF SetupShape, SetupTypeOK
<1>3. SetupPoint
  BY <1>1, NoRunFacts DEF SetupPoint, RunAt, SendsAssets
<1>4. Level
  BY <1>1, NoRunFacts DEF Level, RunAt, Uniform, NoneBehind, Behind, Exists, BeforeRolled
<1>5. SoFar /\ Pushed /\ OneSpace
  BY <1>1, NoRunFacts DEF SoFar, Pushed, OneSpace, InSpace, RunAt
<1>6. QED BY <1>2, <1>3, <1>4, <1>5 DEF SetupInv

----------------------------------------------------------------------------
(* Steps that leave the templates and the streams alone                       *)

Outcomes == {"none", "complete", "partial", "error"}

LEMMA FaultCounted ==
  ASSUME SetupShape, Fault \/ NoFault PROVE faults' \in 0 .. MaxFaults
<1>1. faults \in 0 .. MaxFaults
  BY DEF SetupShape, SetupTypeOK
<1>2. CASE Fault
  BY <1>1, <1>2, BundledAssumption DEF Fault
<1>3. CASE NoFault
  BY <1>1, <1>3 DEF NoFault
<1>4. QED BY <1>2, <1>3

LEMMA ShapeKept ==
  ASSUME SetupShape, run' \in SetupRuns, result' \in Outcomes, faults' \in 0 .. MaxFaults,
         license' \in {"active", "inactive"}, pipeline' \in BOOLEAN, role' \in BOOLEAN,
         installed' \in [Templates -> Nat], built' \in [Streams -> [Templates -> Nat] \cup {<<>>}],
         unbridged' \subseteq Streams, attached' \subseteq Spaces, kibana' \in [Spaces -> SUBSET KindNames]
  PROVE  SetupShape'
BY DEF SetupShape, SetupTypeOK, Exists, Outcomes

LEMMA ShapeParts ==
  ASSUME SetupShape
  PROVE  /\ run \in SetupRuns /\ result \in Outcomes /\ faults \in 0 .. MaxFaults
         /\ license \in {"active", "inactive"} /\ pipeline \in BOOLEAN /\ role \in BOOLEAN
         /\ installed \in [Templates -> Nat] /\ built \in [Streams -> [Templates -> Nat] \cup {<<>>}]
         /\ unbridged \subseteq Streams /\ attached \subseteq Spaces /\ kibana \in [Spaces -> SUBSET KindNames]
BY DEF SetupShape, SetupTypeOK, Outcomes

LEMMA LevelsSame ==
  ASSUME UNCHANGED <<installed, built>>
  PROVE  Uniform' = Uniform /\ NoneBehind' = NoneBehind /\ (\A s \in Streams : Behind(s)' = Behind(s))
BY DEF Uniform, IsRelease, NoneBehind, Behind, Exists

\* The run ends.
LEMMA EndKeeps ==
  ASSUME SetupInv, ~RunAt("idle"), run' = NoRun, UNCHANGED <<installed, built>>,
         ~impaired' => ~impaired /\ ~run.warned /\ run.pc \notin BeforeRolled
  PROVE  SetupPoint' /\ Level' /\ SoFar' /\ Pushed'
<1>1. run'.pc = "idle" /\ ~run'.warned
  BY NoRunFacts
<1>2. SetupPoint' /\ SoFar' /\ Pushed'
  BY <1>1 DEF SetupPoint, SoFar, Pushed, RunAt, SendsAssets, InSpace
<1>3. Level'
  BY <1>1, LevelsSame DEF SetupInv, Level, RunAt, BeforeRolled, Unimpaired
<1>4. QED BY <1>2, <1>3

\* The run goes on after the streams were rolled over and the indices bridged.
LEMMA LaterKeeps ==
  ASSUME SetupInv, ~RunAt("idle"), run.pc \notin BeforeRolled, RunAt("patching") => run.todo = {},
         run'.pc \in SetupPoints \ (BeforeRolled \cup {"idle", "patching"}), SameRequest(run', run), SameChanges(run', run),
         run'.warned = run.warned, impaired' = impaired,
         UNCHANGED <<cluster, pipeline, role, installed, built, unbridged>>
  PROVE  Level' /\ SoFar'
<1>1. Level'
  BY LevelsSame DEF SetupInv, Level, RunAt, BeforeRolled, Unimpaired
<1>2. Handled' = Handled
  BY HandledSame DEF BeforeRolled, SendsAssets
<1>3. Renamed' = Renamed /\ \A s \in Streams : RolledOver(s)' = RolledOver(s)
  BY DEF Renamed, RolledOver, Exists, SameChanges
<1>4. AssetsDone => AssetsDone'
  BY <1>2 DEF AssetsDone, SameRequest
<1>5. SoFar'
  BY <1>3, <1>4 DEF SetupInv, SoFar, RunAt, BeforeRolled, SameRequest
<1>6. QED BY <1>1, <1>5

LEMMA AbortKeeps ==
  ASSUME SetupInv, AbortSetup PROVE SetupInv'
<1>1. ~RunAt("idle") /\ run' = NoRun /\ result' = "error" /\ impaired' /\ UNCHANGED deployment
  BY DEF AbortSetup, Report
<1>2. SetupShape'
  BY <1>1, ShapeParts, ShapeKept, NoRunFacts, FaultCounted DEF SetupInv, deployment, Outcomes, AbortSetup
<1>3. OneSpace'
  BY <1>1, NoRunFacts DEF SetupInv, OneSpace, deployment, InSpace
<1>4. QED BY <1>1, <1>2, <1>3, EndKeeps DEF SetupInv, deployment

\* A step of this phase changes at most the point.
LEMMA LaterStep ==
  ASSUME SetupInv, ~RunAt("idle"), run.pc \notin BeforeRolled, RunAt("patching") => run.todo = {}, NEW p \in SetupPoints,
         p \in {"license", "trial", "spaces"}, run' = [run EXCEPT !.pc = p],
         UNCHANGED <<cluster, pipeline, role, installed, built, unbridged, kibana, attached, result, impaired, faults>>,
         license' \in {"active", "inactive"}
  PROVE  SetupInv'
<1>1. /\ run' \in SetupRuns /\ run'.pc = p /\ SameRequest(run', run) /\ SameChanges(run', run) /\ run'.warned = run.warned
  BY PcFacts, ShapeParts DEF SetupInv
<1>2. SetupShape'
  BY <1>1, ShapeParts, ShapeKept DEF SetupInv
<1>3. SetupPoint'
  BY <1>1 DEF SetupInv, SetupPoint, RunAt, SendsAssets, SameRequest
<1>4. Level' /\ SoFar'
  BY <1>1, LaterKeeps DEF BeforeRolled
<1>5. Pushed' /\ OneSpace'
  BY <1>1 DEF SetupInv, Pushed, OneSpace, InSpace
<1>6. QED BY <1>2, <1>3, <1>4, <1>5 DEF SetupInv

LEMMA ReportKeeps ==
  ASSUME SetupInv, ~RunAt("idle"), NEW o \in {"complete", "partial", "error"}, Report(o), NoFault,
         o = "complete" => ~run.warned /\ run.pc \notin BeforeRolled,
         UNCHANGED <<license, pipeline, role, installed, built, unbridged, kibana>>, attached' \subseteq Spaces
  PROVE  SetupInv'
<1>1. run' = NoRun /\ result' = o /\ impaired' = (impaired \/ o # "complete")
  BY DEF Report
<1>2. SetupShape'
  BY <1>1, ShapeParts, ShapeKept, NoRunFacts, FaultCounted DEF SetupInv, Outcomes
<1>3. OneSpace'
  BY <1>1, NoRunFacts DEF SetupInv, OneSpace, InSpace
<1>4. ~impaired' => ~impaired /\ ~run.warned /\ run.pc \notin BeforeRolled
  BY <1>1
<1>5. SetupPoint' /\ Level' /\ SoFar' /\ Pushed'
  BY <1>1, <1>4, EndKeeps
<1>6. QED BY <1>2, <1>3, <1>5 DEF SetupInv

LEMMA LicenseKeeps ==
  ASSUME SetupInv, CheckLicense \/ StartTrial \/ TrialRefused \/ Patched PROVE SetupInv'
<1>1. CASE Patched
  BY <1>1, LaterStep DEF Patched, SetupPoints, BeforeRolled, RunAt, Going, NoFault, deployment, SetupInv, SetupShape, SetupTypeOK
<1>2. CASE StartTrial
  BY <1>2, LaterStep DEF StartTrial, SetupPoints, BeforeRolled, RunAt, Going, NoFault
<1>3. CASE TrialRefused
  BY <1>3, ReportKeeps, ShapeParts DEF TrialRefused, RunAt, deployment, SetupInv
<1>4. CASE CheckLicense
  <2>1. RunAt("license") /\ NoFault /\ UNCHANGED deployment /\ ~RunAt("idle") /\ run.pc \notin BeforeRolled /\ ~RunAt("patching")
    BY <1>4 DEF CheckLicense, RunAt, BeforeRolled
  <2>2. \/ Report("partial") \/ (Report("complete") /\ ~run.warned)
        \/ \E p \in {"trial", "spaces"} : run' = [run EXCEPT !.pc = p] /\ Going
    BY <1>4 DEF CheckLicense, Finish
  <2>3. CASE Report("partial")
    BY <2>1, <2>3, ReportKeeps, ShapeParts DEF deployment, SetupInv
  <2>4. CASE Report("complete") /\ ~run.warned
    BY <2>1, <2>4, ReportKeeps, ShapeParts DEF deployment, SetupInv
  <2>5. ASSUME NEW p \in {"trial", "spaces"}, run' = [run EXCEPT !.pc = p], Going PROVE SetupInv'
    BY <2>1, <2>5, LaterStep DEF SetupPoints, Going, NoFault, deployment, SetupInv, SetupShape, SetupTypeOK
  <2>6. QED BY <2>2, <2>3, <2>4, <2>5
<1>5. QED BY <1>1, <1>2, <1>3, <1>4

----------------------------------------------------------------------------
(* Kibana                                                                     *)

LEMMA IncompleteFacts ==
  ASSUME NEW r \in SetupRuns
  PROVE  LET x == [r EXCEPT !.incomplete = TRUE] IN
         /\ x \in SetupRuns /\ x.incomplete /\ SameRequest(x, r) /\ SameChanges(x, r)
         /\ x.pc = r.pc /\ x.at = r.at /\ x.warned = r.warned
BY DEF SetupRuns, SameRequest, SameChanges

LEMMA PcAtFacts ==
  ASSUME NEW r \in SetupRuns, NEW p \in SetupPoints, NEW n \in Nat
  PROVE  LET x == [r EXCEPT !.at = n, !.pc = p] IN
         /\ x \in SetupRuns /\ x.pc = p /\ x.at = n /\ SameRequest(x, r) /\ SameChanges(x, r)
         /\ x.warned = r.warned /\ x.incomplete = r.incomplete
<1> DEFINE x1 == [r EXCEPT !.at = n]
           x2 == [x1 EXCEPT !.pc = p]
<1>1. [r EXCEPT !.at = n, !.pc = p] = x2
  OBVIOUS
<1>2. /\ x1 \in SetupRuns /\ x1.at = n /\ SameRequest(x1, r) /\ SameChanges(x1, r)
      /\ x1.warned = r.warned /\ x1.incomplete = r.incomplete
  BY AtFacts
<1> HIDE DEF x1
<1>3. /\ x2 \in SetupRuns /\ x2.pc = p /\ x2.at = n /\ SameRequest(x2, x1) /\ SameChanges(x2, x1)
      /\ x2.warned = r.warned /\ x2.incomplete = r.incomplete
  BY <1>2, PcFacts
<1> HIDE DEF x2
<1>4. QED BY <1>1, <1>2, <1>3 DEF SameRequest, SameChanges

\* A space is entered only when no other one has dashboards.
LEMMA CheckSpacesKeeps ==
  ASSUME SetupInv, CheckSpaces PROVE SetupInv'
<1>1. /\ RunAt("spaces") /\ ~RunAt("idle") /\ run.pc \notin BeforeRolled /\ ~RunAt("patching") /\ NoFault /\ UNCHANGED deployment
  BY DEF CheckSpaces, RunAt, BeforeRolled
<1>2. CASE Report("error")
  BY <1>1, <1>2, ReportKeeps, ShapeParts DEF deployment, SetupInv
<1>3. CASE ~Elsewhere(run.space) /\ run' = [run EXCEPT !.pc = "sync", !.at = 1] /\ Going
  <2>1. run' = [run EXCEPT !.at = 1, !.pc = "sync"]
    BY <1>3, ShapeParts DEF SetupInv, SetupRuns
  <2>2. "sync" \in SetupPoints /\ 1 \in Nat /\ run \in SetupRuns
    BY ShapeParts DEF SetupPoints, SetupInv
  <2>3. /\ run' \in SetupRuns /\ run'.pc = "sync" /\ run'.at = 1 /\ SameRequest(run', run) /\ SameChanges(run', run)
        /\ run'.warned = run.warned
    BY <2>1, <2>2, PcAtFacts
  <2>4. UNCHANGED deployment /\ result' = result /\ impaired' = impaired /\ faults' \in 0 .. MaxFaults
    BY <1>1, <1>3, FaultCounted DEF Going, SetupInv
  <2>5. SetupShape'
    BY <2>3, <2>4, ShapeParts, ShapeKept DEF SetupInv, deployment
  <2>6. SetupPoint'
    BY <1>1, <2>3 DEF SetupInv, SetupPoint, RunAt, SendsAssets, SameRequest, Kinds
  <2>7. Level' /\ SoFar'
    BY <1>1, <2>3, <2>4, LaterKeeps DEF BeforeRolled, SetupPoints, deployment
  <2>8. Pushed'
    BY <2>3 DEF Pushed, RunAt, Kinds
  <2>9. OneSpace'
    BY <1>3, <2>3, <2>4 DEF SetupInv, OneSpace, Elsewhere, deployment, SameRequest
  <2>10. QED BY <2>5, <2>6, <2>7, <2>8, <2>9 DEF SetupInv
<1>4. QED BY <1>2, <1>3 DEF CheckSpaces

LEMMA PushKeeps ==
  ASSUME SetupInv, Push PROVE SetupInv'
<1> DEFINE p == IF run.at = Len(Kinds) THEN "synced" ELSE "sync"
           on == [run EXCEPT !.at = @ + 1, !.pc = p]
           into(K) == kibana' = [kibana EXCEPT ![run.space] = @ \cup K]
<1>1. /\ RunAt("sync") /\ ~RunAt("idle") /\ run.pc \notin BeforeRolled /\ ~RunAt("patching") /\ run.pc \in InSpace
      /\ run.at \in 1 .. Len(Kinds) /\ run \in SetupRuns /\ run.space \in Spaces /\ p \in SetupPoints
      /\ UNCHANGED <<cluster, license, pipeline, role, installed, built, unbridged, attached>>
  BY ShapeParts DEF Push, RunAt, BeforeRolled, InSpace, SetupInv, SetupPoint, SetupRuns, SetupPoints
<1>2. Len(Kinds) = 5 /\ DOMAIN Kinds = 1 .. 5
  BY DEF Kinds
<1>3. /\ faults' \in 0 .. MaxFaults
      /\ \/ into(Applied(Kinds[run.at])) /\ run' = on /\ Going
         \/ \E K \in {{}, {"dashboards"}} : into(K) /\ run' = [on EXCEPT !.incomplete = TRUE] /\ Going
         \/ \E K \in {{}, {"dashboards"}, Applied(Kinds[run.at])} : into(K) /\ Report("error")
  BY FaultCounted DEF Push, SetupInv, Partly
<1>4. PICK K \in SUBSET KindNames : into(K)
  <2>1. Applied(Kinds[run.at]) \in SUBSET KindNames /\ {} \in SUBSET KindNames /\ {"dashboards"} \in SUBSET KindNames
    BY <1>1, <1>2 DEF Applied, KindNames
  <2> HIDE DEF into, on
  <2>2. QED BY <1>3, <2>1
<1>5. /\ kibana' \in [Spaces -> SUBSET KindNames] /\ kibana'[run.space] = kibana[run.space] \cup K
      /\ \A x \in Spaces \ {run.space} : kibana'[x] = kibana[x]
  BY <1>1, <1>4, ShapeParts DEF SetupInv
<1>6. \A x \in Spaces : "dashboards" \in kibana'[x] => x = run.space
  BY <1>1, <1>5 DEF SetupInv, OneSpace
<1>7. /\ on \in SetupRuns /\ on.pc = p /\ on.at = run.at + 1 /\ SameRequest(on, run) /\ SameChanges(on, run)
      /\ on.warned = run.warned /\ on.incomplete = run.incomplete
  <2> DEFINE x1 == [run EXCEPT !.at = run.at + 1]
             x2 == [x1 EXCEPT !.pc = p]
  <2>1. on = x2 /\ run.at + 1 \in Nat
    BY <1>1, <1>2 DEF SetupRuns
  <2>2. /\ x1 \in SetupRuns /\ x1.at = run.at + 1 /\ SameRequest(x1, run) /\ SameChanges(x1, run)
        /\ x1.warned = run.warned /\ x1.incomplete = run.incomplete
    BY <1>1, <2>1, AtFacts
  <2> HIDE DEF x1, p
  <2>3. /\ x2 \in SetupRuns /\ x2.pc = p /\ x2.at = run.at + 1 /\ SameRequest(x2, x1) /\ SameChanges(x2, x1)
        /\ x2.warned = run.warned /\ x2.incomplete = run.incomplete
    BY <1>1, <2>2, PcFacts
  <2> HIDE DEF x2, on
  <2>4. QED BY <2>1, <2>2, <2>3 DEF SameRequest, SameChanges
<1> HIDE DEF on
<1>8. CASE Report("error")
  <2>1. run' = NoRun /\ result' = "error" /\ impaired'
    BY <1>8 DEF Report
  <2>2. SetupShape'
    BY <1>1, <1>3, <1>5, <2>1, ShapeParts, ShapeKept, NoRunFacts DEF SetupInv, Outcomes
  <2>3. OneSpace'
    BY <1>6, <2>1, NoRunFacts DEF OneSpace, InSpace
  <2>4. QED BY <1>1, <2>1, <2>2, <2>3, EndKeeps DEF SetupInv
<1>9. CASE ((run' = on /\ into(Applied(Kinds[run.at]))) \/ run' = [on EXCEPT !.incomplete = TRUE]) /\ Going
  <2>1. /\ run' \in SetupRuns /\ run'.pc = p /\ run'.at = run.at + 1 /\ SameRequest(run', run) /\ SameChanges(run', run)
        /\ run'.warned = run.warned
        /\ run'.incomplete \/ (run'.incomplete = run.incomplete /\ into(Applied(Kinds[run.at])))
    BY <1>7, <1>9, IncompleteFacts DEF SameRequest, SameChanges
  <2>2. SetupShape'
    BY <1>1, <1>3, <1>5, <1>9, <2>1, ShapeParts, ShapeKept DEF SetupInv, Going
  <2>3. SetupPoint'
    BY <1>1, <1>2, <2>1 DEF SetupInv, SetupPoint, RunAt, SendsAssets, SameRequest
  <2>4. Level' /\ SoFar'
    BY <1>1, <1>9, <2>1, LaterKeeps DEF BeforeRolled, SetupPoints, Going
  <2>5. OneSpace'
    BY <1>6, <2>1 DEF OneSpace, SameRequest
  <2>6. Pushed'
    <3> SUFFICES ASSUME ~run'.incomplete, NEW k \in 1 .. Len(Kinds), p = "sync" => k < run.at + 1
                 PROVE  Kinds[k] \in kibana'[run.space]
      BY <2>1 DEF Pushed, RunAt, SameRequest
    <3>1. kibana'[run.space] = kibana[run.space] \cup Applied(Kinds[run.at])
      BY <1>1, <2>1, ShapeParts DEF SetupInv
    <3>2. CASE k < run.at
      BY <1>1, <2>1, <3>1, <3>2 DEF SetupInv, Pushed
    <3>3. CASE k = run.at
      BY <3>1, <3>3 DEF Applied
    <3>4. QED BY <1>1, <1>2, <3>2, <3>3
  <2>7. QED BY <2>2, <2>3, <2>4, <2>5, <2>6 DEF SetupInv
<1>10. QED BY <1>3, <1>8, <1>9

LEMMA SyncedKeeps ==
  ASSUME SetupInv, EnsureSyncCompleted PROVE SetupInv'
<1>1. /\ RunAt("synced") /\ ~RunAt("idle") /\ run.pc \notin BeforeRolled /\ ~RunAt("patching") /\ NoFault /\ UNCHANGED deployment
  BY DEF EnsureSyncCompleted, RunAt, BeforeRolled
<1>2. CASE Report("error")
  BY <1>1, <1>2, ReportKeeps, ShapeParts DEF deployment, SetupInv
<1>3. CASE ~run.incomplete /\ run' = [run EXCEPT !.pc = "attach"] /\ Going
  <2>1. /\ run' \in SetupRuns /\ run'.pc = "attach" /\ SameRequest(run', run) /\ SameChanges(run', run)
        /\ run'.warned = run.warned /\ ~run'.incomplete
    BY <1>3, PcFacts, ShapeParts DEF SetupInv, SetupPoints
  <2>2. UNCHANGED deployment /\ result' = result /\ impaired' = impaired /\ faults' \in 0 .. MaxFaults
    BY <1>1, <1>3, FaultCounted DEF Going, SetupInv
  <2>3. SetupShape'
    BY <2>1, <2>2, ShapeParts, ShapeKept DEF SetupInv, deployment
  <2>4. SetupPoint'
    BY <1>1, <2>1 DEF SetupInv, SetupPoint, RunAt, SendsAssets, SameRequest
  <2>5. Level' /\ SoFar'
    BY <1>1, <2>1, <2>2, LaterKeeps DEF BeforeRolled, SetupPoints, deployment
  <2>6. Pushed' /\ OneSpace'
    BY <1>1, <1>3, <2>1, <2>2 DEF SetupInv, Pushed, OneSpace, deployment, SameRequest, RunAt, InSpace
  <2>7. QED BY <2>3, <2>4, <2>5, <2>6 DEF SetupInv
<1>4. QED BY <1>2, <1>3 DEF EnsureSyncCompleted

LEMMA AttachKeeps ==
  ASSUME SetupInv, Attach PROVE SetupInv'
<1>1. /\ RunAt("attach") /\ ~RunAt("idle") /\ run.pc \notin BeforeRolled /\ NoFault /\ attached' \subseteq Spaces
      /\ UNCHANGED <<license, pipeline, role, installed, built, unbridged, kibana>>
  BY ShapeParts DEF Attach, RunAt, BeforeRolled, SetupInv, SetupRuns
<1>2. Report("partial") \/ (Report("complete") /\ ~run.warned)
  BY DEF Attach, Finish
<1>3. QED BY <1>1, <1>2, ReportKeeps

----------------------------------------------------------------------------
(* In between                                                                 *)

LEMMA ClearSpaceKeeps ==
  ASSUME SetupInv, NEW sp \in Spaces, ClearSpace(sp) PROVE SetupInv'
<1>1. /\ RunAt("idle") /\ kibana' = [kibana EXCEPT ![sp] = {}] /\ attached' \subseteq Spaces
      /\ UNCHANGED <<cluster, license, pipeline, role, installed, built, unbridged, run, result, impaired, faults>>
  BY ShapeParts DEF ClearSpace, SetupInv
<1>2. kibana' \in [Spaces -> SUBSET KindNames] /\ \A x \in Spaces : kibana'[x] \subseteq kibana[x]
  BY <1>1, ShapeParts DEF SetupInv
<1>3. SetupShape'
  BY <1>1, <1>2, ShapeParts, ShapeKept DEF SetupInv
<1>4. SetupPoint' /\ SoFar' /\ Pushed' /\ OneSpace'
  BY <1>1, <1>2 DEF SetupInv, SetupPoint, SoFar, Pushed, OneSpace, RunAt, SendsAssets, InSpace
<1>5. Level'
  BY <1>1, LevelsSame DEF SetupInv, Level, RunAt, Unimpaired, BeforeRolled
<1>6. QED BY <1>3, <1>4, <1>5 DEF SetupInv

\* A write index that was just made has the installed templates.
LEMMA BuiltFresh ==
  ASSUME SetupInv, NEW s \in Streams, built' = [built EXCEPT ![s] = Fresh(StreamTemplate[s])], installed' = installed
  PROVE  /\ built' \in [Streams -> [Templates -> Nat] \cup {<<>>}]
         /\ \A u \in Streams \ {s} : built'[u] = built[u]
         /\ Deps(StreamTemplate[s]) \subseteq Templates
         /\ \A t \in Deps(StreamTemplate[s]) : built'[s][t] = installed[t]
<1>1. StreamTemplate[s] \in IndexTemplates /\ Deps(StreamTemplate[s]) \subseteq Templates
  BY CompositionAssumption DEF Deps, Templates
<1>2. /\ Fresh(StreamTemplate[s]) \in [Templates -> Nat]
      /\ \A t \in Deps(StreamTemplate[s]) : Fresh(StreamTemplate[s])[t] = installed[t]
  BY <1>1, ShapeParts DEF Fresh, SetupInv
<1>3. built \in [Streams -> [Templates -> Nat] \cup {<<>>}]
  BY ShapeParts DEF SetupInv
<1> DEFINE f == Fresh(StreamTemplate[s])
<1>4. built' = [built EXCEPT ![s] = f]
  OBVIOUS
<1> HIDE DEF f
<1>5. f \in [Templates -> Nat] /\ \A t \in Deps(StreamTemplate[s]) : f[t] = installed[t]
  BY <1>2 DEF f
<1>6. QED BY <1>1, <1>3, <1>4, <1>5

LEMMA RenamedKeeps ==
  ASSUME SetupInv, NEW s \in Streams, Renamed,
         unbridged' = unbridged \cup {u \in {s} : \E c \in ComposedOf[StreamTemplate[s]] : installed[c] < RenamedIn}
  PROVE  unbridged' = unbridged
<1>1. ComposedOf[StreamTemplate[s]] \subseteq Components
  BY CompositionAssumption
<1>2. \A c \in Components : installed[c] \in Nat
  BY ShapeParts DEF SetupInv, Templates
<1>3. \A c \in ComposedOf[StreamTemplate[s]] : ~(installed[c] < RenamedIn)
  BY <1>1, <1>2, CompositionAssumption DEF Renamed
<1>4. QED BY <1>3

LEMMA CreateStreamKeeps ==
  ASSUME SetupInv, NEW s \in Streams, CreateStream(s) PROVE SetupInv'
<1>1. /\ built' = [built EXCEPT ![s] = Fresh(StreamTemplate[s])]
      /\ unbridged' = unbridged \cup {u \in {s} : \E c \in ComposedOf[StreamTemplate[s]] : installed[c] < RenamedIn}
      /\ UNCHANGED <<cluster, license, pipeline, role, installed, kibana, attached, run, result, impaired, faults>>
  BY DEF CreateStream
<1>2. /\ built' \in [Streams -> [Templates -> Nat] \cup {<<>>}]
      /\ \A u \in Streams \ {s} : built'[u] = built[u]
      /\ Deps(StreamTemplate[s]) \subseteq Templates
      /\ \A t \in Deps(StreamTemplate[s]) : built'[s][t] = installed[t]
  BY <1>1, BuiltFresh
<1>3. installed \in [Templates -> Nat]
  BY ShapeParts DEF SetupInv
<1>4. SetupShape'
  BY <1>1, <1>2, ShapeParts, ShapeKept DEF SetupInv
<1>5. ~Behind(s)' /\ RolledOver(s)'
  BY <1>1, <1>2, <1>3 DEF Behind, RolledOver
<1>6. \A u \in Streams \ {s} : Behind(u)' = Behind(u) /\ RolledOver(u)' = RolledOver(u)
  BY <1>1, <1>2 DEF Behind, RolledOver, Exists
<1>7. Uniform' = Uniform /\ Handled' = Handled /\ (NoneBehind => NoneBehind')
  BY <1>1, <1>5, <1>6 DEF Uniform, IsRelease, Handled, NoneBehind
<1>8. Level'
  <2>1. Ahead => Ahead'
    BY <1>1, <1>7 DEF Ahead, IsRelease
  <2>2. CatchingUp => CatchingUp'
    BY <1>1, <1>2, <1>3, <1>7 DEF CatchingUp, Exists
  <2>3. QED BY <1>1, <1>5, <1>6, <1>7, <2>1, <2>2 DEF SetupInv, Level, Unimpaired, RunAt
<1>9. SoFar'
  <2>1. AssetsDone' = AssetsDone /\ Renamed' = Renamed
    BY <1>1, <1>7 DEF AssetsDone, Renamed
  <2>2. Renamed => unbridged' = unbridged
    BY <1>1, RenamedKeeps
  <2>3. QED BY <1>1, <1>5, <1>6, <2>1, <2>2 DEF SetupInv, SoFar, RunAt
<1>10. SetupPoint' /\ Pushed' /\ OneSpace'
  BY <1>1 DEF SetupInv, SetupPoint, Pushed, OneSpace, RunAt, Asset
<1>11. QED BY <1>4, <1>8, <1>9, <1>10 DEF SetupInv

LEMMA StartFacts ==
  ASSUME NEW release \in Releases, NEW es \in BOOLEAN, NEW kib \in BOOLEAN, NEW trial \in BOOLEAN, NEW space \in Spaces,
         StartSetup(release, es, kib, space, trial)
  PROVE  /\ run' \in SetupRuns /\ run'.pc = (IF es THEN "assets" ELSE "spaces") /\ run'.release = release /\ run'.es = es
         /\ run'.at = 1 /\ ~run'.warned /\ ~run'.blind /\ run'.raised = {} /\ run'.recorded = {}
<1>1. run' = [pc |-> IF es THEN "assets" ELSE "spaces", release |-> release, es |-> es, kibana |-> kib, space |-> space,
              trial |-> trial, at |-> 1, read |-> 0, blind |-> FALSE, raised |-> {}, recorded |-> {}, todo |-> {},
              warned |-> FALSE, incomplete |-> FALSE]
  BY DEF StartSetup, NoRun
<1>2. QED BY <1>1 DEF SetupRuns, SetupPoints

LEMMA StartSetupKeeps ==
  ASSUME SetupInv, SetupStarts PROVE SetupInv'
<1>1. PICK release \in Releases, es \in BOOLEAN, kib \in BOOLEAN, trial \in BOOLEAN, space \in Spaces :
        StartSetup(release, es, kib, space, trial)
  BY DEF SetupStarts
<1>2. /\ run' \in SetupRuns /\ run'.pc = (IF es THEN "assets" ELSE "spaces") /\ run'.release = release /\ run'.es = es
      /\ run'.at = 1 /\ ~run'.warned /\ ~run'.blind /\ run'.raised = {} /\ run'.recorded = {}
  BY <1>1, StartFacts
<1>3. RunAt("idle") /\ ~run.warned /\ UNCHANGED <<deployment, result, impaired, faults>>
  BY <1>1, NoRunFacts DEF StartSetup, SetupInv, SetupPoint
<1>4. SetupShape'
  BY <1>2, <1>3, ShapeParts, ShapeKept DEF SetupInv, deployment
<1>5. SetupPoint'
  BY <1>2, AssetsFacts DEF SetupPoint, RunAt, SendsAssets
<1>6. Pushed' /\ OneSpace'
  BY <1>2, <1>3 DEF SetupInv, Pushed, OneSpace, InSpace, deployment
<1>7. Unimpaired' => Uniform /\ NoneBehind
  BY <1>3 DEF SetupInv, Level, Unimpaired, RunAt, BeforeRolled
<1>8. Uniform' = Uniform /\ NoneBehind' = NoneBehind
  BY <1>3, LevelsSame DEF deployment
<1>9. CASE ~es
  <2>1. Level' /\ SoFar'
    BY <1>2, <1>7, <1>8, <1>9 DEF Level, SoFar, BeforeRolled, RunAt
  <2>2. QED BY <1>4, <1>5, <1>6, <2>1 DEF SetupInv
<1>10. CASE es
  <2>1. Handled' = {}
    BY <1>2, <1>10 DEF Handled, SendsAssets
  <2>2. SoFar'
    BY <1>2, <1>10, <2>1 DEF SoFar, AssetsDone, BeforeRolled, RunAt
  <2>3. installed \in [Templates -> Nat] /\ Bundled \in [Releases -> [Templates -> Nat]] /\ Releases \subseteq Nat
        /\ installed' = installed /\ built' = built
    BY <1>3, BundledAssumption, ShapeParts DEF SetupInv, deployment
  <2>4. ASSUME NoneBehind, \A t \in Templates : installed[t] <= Bundled[release][t] PROVE CatchingUp'
    <3>1. \A s \in Streams : Exists(s)' => \A t \in Deps(StreamTemplate[s]) : ~(built'[s][t] < installed'[t])
      BY <1>8, <2>4 DEF NoneBehind, Behind
    <3>2. QED BY <1>2, <2>1, <2>3, <2>4, <3>1 DEF CatchingUp
  <2>5. ASSUME NoneBehind, NEW q \in Releases, IsRelease(q), release < q PROVE Ahead'
    <3>1. \A t \in Templates : Bundled[release][t] <= installed[t]
      BY <2>3, <2>5, BundledAssumption DEF IsRelease
    <3>2. IsRelease(q)'
      BY <2>3, <2>5 DEF IsRelease
    <3>3. QED BY <1>2, <1>8, <2>3, <2>5, <3>1, <3>2 DEF Ahead
  <2>6. ASSUME NEW q \in Releases, IsRelease(q), ~(release < q) PROVE \A t \in Templates : installed[t] <= Bundled[release][t]
    <3>1. q < release \/ q = release
      BY <2>3, <2>6
    <3>2. QED BY <2>3, <2>6, <3>1, BundledAssumption DEF IsRelease
  <2>7. ASSUME \A t \in Templates : installed[t] = 0 PROVE \A t \in Templates : installed[t] <= Bundled[release][t]
    BY <2>3, <2>7
  <2>8. Unimpaired' => Ahead' \/ CatchingUp'
    BY <1>7, <2>4, <2>5, <2>6, <2>7 DEF Uniform
  <2>9. Level'
    BY <1>2, <1>10, <2>8 DEF Level, BeforeRolled, RunAt
  <2>10. QED BY <1>4, <1>5, <1>6, <2>2, <2>9 DEF SetupInv
<1>11. QED BY <1>9, <1>10

----------------------------------------------------------------------------
(* The assets, one after the other                                            *)

LEMMA AdvanceFacts ==
  ASSUME SetupInv, run.pc \in SendsAssets, NEW r \in SetupRuns, r.at = run.at, SameRequest(r, run), run' = NextAsset(r)
  PROVE  /\ run' \in SetupRuns /\ run'.pc \in {"assets", "roll"} /\ SameRequest(run', run) /\ SameChanges(run', r)
         /\ run'.warned = r.warned /\ Handled' = Handled \cup {Asset} /\ SetupPoint'
<1>1. run.at \in 1 .. Len(Assets) /\ Len(Assets) \in Nat /\ ~RunAt("idle")
  BY AssetsFacts DEF SetupInv, SetupPoint, RunAt, SendsAssets
<1>2. /\ run' \in SetupRuns /\ run'.pc = (IF run.at = Len(Assets) THEN "roll" ELSE "assets") /\ run'.at = run.at + 1
      /\ SameRequest(run', r) /\ SameChanges(run', r) /\ ~run'.blind /\ run'.warned = r.warned
  BY <1>1, NextAssetFacts
<1>3. SameRequest(run', run)
  BY <1>2 DEF SameRequest
<1>4. Handled' = Handled \cup {Asset}
  BY <1>1, <1>2, HandledNext
<1>5. run.release \in Releases
  BY <1>1 DEF SetupInv, SetupPoint
<1>6. SetupPoint'
  BY <1>1, <1>2, <1>3, <1>5 DEF SetupPoint, RunAt, SendsAssets, SameRequest
<1>7. QED BY <1>2, <1>3, <1>4, <1>6

LEMMA AdvanceKeeps ==
  ASSUME SetupInv, run'.pc \in {"assets", "roll"}, SameRequest(run', run), SetupPoint', SetupShape', UNCHANGED kibana,
         Unimpaired' => Ahead' \/ CatchingUp',
         run.es /\ ~run'.warned => AssetsDone'
  PROVE  SetupInv'
<1>1. Level'
  BY DEF Level, RunAt, BeforeRolled
<1>2. SoFar'
  BY DEF SoFar, RunAt, BeforeRolled, SameRequest
<1>3. Pushed' /\ OneSpace'
  BY DEF SetupInv, Pushed, OneSpace, InSpace
<1>4. QED BY <1>1, <1>2, <1>3 DEF SetupInv

LEMMA ReadVersionKeeps ==
  ASSUME SetupInv, ReadVersion PROVE SetupInv'
<1>1. /\ RunAt("assets") /\ ~RunAt("idle") /\ run \in SetupRuns /\ ~run.blind /\ Asset \in Templates /\ run.at \in 1 .. Len(Assets)
      /\ installed[Asset] \in Nat /\ UNCHANGED <<deployment, result, impaired>> /\ faults' \in 0 .. MaxFaults
  BY ShapeParts, FaultCounted DEF ReadVersion, Going, RunAt, SetupInv, SetupPoint, SendsAssets
<1> DEFINE v == installed[Asset]
           r1 == [run EXCEPT !.pc = "decide"]
<1>2. r1 \in SetupRuns /\ r1.pc = "decide" /\ SameRequest(r1, run) /\ SameChanges(r1, run) /\ r1.at = run.at
      /\ r1.warned = run.warned /\ ~r1.blind
  BY <1>1, PcFacts DEF SetupPoints
<1>3. \/ run' = [run EXCEPT !.pc = "decide", !.read = v]
      \/ run' = [run EXCEPT !.pc = "decide", !.read = 0, !.blind = TRUE]
  BY DEF ReadVersion
<1>4. run' = [r1 EXCEPT !.read = v] \/ run' = [r1 EXCEPT !.read = 0, !.blind = TRUE]
  BY <1>3
<1> HIDE DEF r1, v
<1>5. /\ run' \in SetupRuns /\ run'.pc = "decide" /\ SameRequest(run', run) /\ SameChanges(run', run) /\ run'.at = run.at
      /\ run'.warned = run.warned /\ run'.read = IF run'.blind THEN 0 ELSE v
  <2>1. CASE run' = [r1 EXCEPT !.read = v]
    BY <1>1, <1>2, <2>1 DEF SetupRuns, SameRequest, SameChanges, v
  <2>2. CASE run' = [r1 EXCEPT !.read = 0, !.blind = TRUE]
    BY <1>2, <2>2 DEF SetupRuns, SameRequest, SameChanges
  <2>3. QED BY <1>4, <2>1, <2>2
<1>6. SetupShape'
  BY <1>1, <1>5, ShapeParts, ShapeKept DEF SetupInv, deployment
<1>7. Asset' = Asset /\ installed' = installed
  BY <1>1, <1>5 DEF Asset, deployment
<1>8. SetupPoint'
  BY <1>1, <1>5, <1>7 DEF SetupInv, SetupPoint, RunAt, SendsAssets, SameRequest, v
<1>9. Handled' = Handled
  BY <1>1, <1>5, HandledSame DEF RunAt, SendsAssets
<1>10. Level'
  <2>1. Uniform' = Uniform /\ NoneBehind' = NoneBehind
    BY <1>1, LevelsSame DEF deployment
  <2>2. Ahead => Ahead'
    BY <1>1, <1>5, <2>1 DEF Ahead, IsRelease, deployment, SameRequest
  <2>3. CatchingUp => CatchingUp'
    BY <1>1, <1>5, <1>9 DEF CatchingUp, Exists, deployment, SameRequest, SameChanges
  <2>4. QED BY <1>1, <1>5, <2>2, <2>3 DEF SetupInv, Level, RunAt, Unimpaired, BeforeRolled
<1>11. SoFar'
  BY <1>1, <1>5, <1>9 DEF SetupInv, SoFar, AssetsDone, RunAt, BeforeRolled, deployment, SameRequest
<1>12. Pushed' /\ OneSpace'
  BY <1>1, <1>5 DEF SetupInv, Pushed, OneSpace, InSpace, deployment
<1>13. QED BY <1>6, <1>8, <1>10, <1>11, <1>12 DEF SetupInv

\* The pipeline and the role have no version.
LEMMA UnversionedKeeps ==
  ASSUME SetupInv, SendPipeline \/ SendRole PROVE SetupInv' /\ ~RunAt("idle")'
<1> DEFINE w == [run EXCEPT !.warned = TRUE]
<1>1. /\ RunAt("assets") /\ run.pc \in SendsAssets /\ run \in SetupRuns /\ Asset \notin Templates
      /\ UNCHANGED <<cluster, license, installed, built, unbridged, kibana, attached, result, impaired>>
      /\ faults' \in 0 .. MaxFaults /\ pipeline' \in BOOLEAN /\ role' \in BOOLEAN
      /\ (pipeline => pipeline') /\ (role => role')
  <2>1. pipeline \in BOOLEAN /\ role \in BOOLEAN /\ run \in SetupRuns
    BY ShapeParts DEF SetupInv
  <2>2. faults' \in 0 .. MaxFaults
    BY FaultCounted DEF SendPipeline, SendRole, SetupInv
  <2>3. CASE SendPipeline
    BY <2>1, <2>2, <2>3, CompositionAssumption DEF SendPipeline, Going, RunAt, SendsAssets
  <2>4. CASE SendRole
    BY <2>1, <2>2, <2>4, CompositionAssumption DEF SendRole, Going, RunAt, SendsAssets
  <2>5. QED BY <2>3, <2>4
<1>2. \/ run' = NextAsset(w)
      \/ /\ run' = NextAsset(run)
         /\ Asset = "pipeline" => pipeline'
         /\ Asset = "role" /\ cluster.security /\ ~cluster.serverless => role'
  BY DEF SendPipeline, SendRole, Warned
<1>3. w \in SetupRuns /\ w.at = run.at /\ SameRequest(w, run) /\ w.warned
  BY <1>1 DEF SetupRuns, SameRequest
<1> HIDE DEF w
<1>4. PICK r \in SetupRuns : /\ r.at = run.at /\ SameRequest(r, run) /\ run' = NextAsset(r)
                             /\ (r = w \/ (r = run /\ (Asset = "pipeline" => pipeline')
                                           /\ (Asset = "role" /\ cluster.security /\ ~cluster.serverless => role')))
  BY <1>1, <1>2, <1>3 DEF SameRequest
<1>5. /\ run' \in SetupRuns /\ run'.pc \in {"assets", "roll"} /\ SameRequest(run', run) /\ SameChanges(run', r)
      /\ run'.warned = r.warned /\ Handled' = Handled \cup {Asset} /\ SetupPoint'
  BY <1>1, <1>4, AdvanceFacts
<1>6. SetupShape'
  BY <1>1, <1>5, ShapeParts, ShapeKept DEF SetupInv
<1>7. Handled' \cap Templates = Handled \cap Templates /\ Handled' \cap IndexTemplates = Handled \cap IndexTemplates
  BY <1>1, <1>5 DEF Templates
<1>8. Unimpaired' => Ahead' \/ CatchingUp'
  <2> SUFFICES ASSUME Unimpaired' PROVE Ahead' \/ CatchingUp' OBVIOUS
  <2>1. r = run /\ Unimpaired
    BY <1>1, <1>3, <1>4, <1>5 DEF Unimpaired
  <2>2. NoneBehind' = NoneBehind
    BY <1>1, LevelsSame
  <2>3. Ahead => Ahead'
    BY <1>1, <1>5, <2>2 DEF Ahead, IsRelease, SameRequest
  <2>4. CatchingUp => CatchingUp'
    BY <1>1, <1>5, <1>7, <2>1 DEF CatchingUp, Exists, SameRequest, SameChanges
  <2>5. QED BY <1>1, <2>1, <2>3, <2>4 DEF SetupInv, Level, RunAt
<1>9. run.es /\ ~run'.warned => AssetsDone'
  <2> SUFFICES ASSUME run.es, ~run'.warned PROVE AssetsDone' OBVIOUS
  <2>1. r = run /\ AssetsDone
    BY <1>1, <1>3, <1>4, <1>5 DEF SetupInv, SoFar, RunAt
  <2>2. QED BY <1>1, <1>4, <1>5, <1>7, <2>1, <1>3 DEF AssetsDone, SameRequest
<1>10. QED BY <1>1, <1>5, <1>6, <1>8, <1>9, AdvanceKeeps DEF RunAt

\* Where a template stands when it is decided what becomes of it.
LEMMA DecideFacts ==
  ASSUME SetupInv, RunAt("decide")
  PROVE  /\ run.pc \in SendsAssets /\ run \in SetupRuns /\ run.release \in Releases /\ Asset \in Templates
         /\ installed \in [Templates -> Nat] /\ Bundled[run.release] \in [Templates -> Nat]
         /\ run.read = IF run.blind THEN 0 ELSE installed[Asset]
BY ShapeParts, BundledAssumption DEF SetupInv, SetupPoint, RunAt, SendsAssets

LEMMA KeepNewerKeeps ==
  ASSUME SetupInv, KeepNewer PROVE SetupInv' /\ ~RunAt("idle")'
<1> DEFINE v == Bundled[run.release][Asset]
<1>1. /\ RunAt("decide") /\ Downgrade(run.read, v) /\ run' = NextAsset(run)
      /\ UNCHANGED <<deployment, result, impaired>> /\ faults' \in 0 .. MaxFaults
  BY FaultCounted DEF KeepNewer, Going, SetupInv
<1>2. /\ run.pc \in SendsAssets /\ run \in SetupRuns /\ run.release \in Releases /\ Asset \in Templates
      /\ installed \in [Templates -> Nat] /\ Bundled[run.release] \in [Templates -> Nat]
      /\ run.read = IF run.blind THEN 0 ELSE installed[Asset]
  BY <1>1, DecideFacts
<1>3. v \in Nat /\ installed[Asset] > v
  BY <1>1, <1>2 DEF Downgrade
<1>4. /\ run' \in SetupRuns /\ run'.pc \in {"assets", "roll"} /\ SameRequest(run', run) /\ SameChanges(run', run)
      /\ run'.warned = run.warned /\ Handled' = Handled \cup {Asset} /\ SetupPoint'
  BY <1>1, <1>2, AdvanceFacts DEF SameRequest
<1>5. SetupShape'
  BY <1>1, <1>4, ShapeParts, ShapeKept DEF SetupInv, deployment
<1>6. Unimpaired' => Ahead' \/ CatchingUp'
  <2> SUFFICES ASSUME Unimpaired' PROVE Ahead' OBVIOUS
  <2>1. ~CatchingUp
    BY <1>2, <1>3 DEF CatchingUp
  <2>2. Ahead
    BY <1>1, <1>4, <2>1 DEF SetupInv, Level, Unimpaired, RunAt
  <2>3. NoneBehind' = NoneBehind
    BY <1>1, LevelsSame DEF deployment
  <2>4. QED BY <1>1, <1>4, <2>2, <2>3 DEF Ahead, IsRelease, SameRequest, deployment
<1>7. run.es /\ ~run'.warned => AssetsDone'
  <2> SUFFICES ASSUME run.es, ~run'.warned PROVE AssetsDone' OBVIOUS
  <2>1. AssetsDone /\ Asset \notin {"pipeline", "role"}
    BY <1>1, <1>2, <1>4, CompositionAssumption DEF SetupInv, SoFar, RunAt
  <2>2. \A t \in Handled' \cap Templates : installed'[t] >= Bundled[run.release][t]
    BY <1>1, <1>2, <1>3, <1>4, <2>1 DEF AssetsDone, deployment
  <2>3. QED BY <1>1, <1>4, <2>1, <2>2 DEF AssetsDone, SameRequest, deployment
<1>8. QED BY <1>1, <1>4, <1>5, <1>6, <1>7, AdvanceKeeps DEF deployment, RunAt

\* A template that was written or, because the request failed, may have been.
LEMMA SendTemplateKeeps ==
  ASSUME SetupInv, SendTemplate PROVE SetupInv' /\ ~RunAt("idle")'
<1> DEFINE v == Bundled[run.release][Asset]
           R == IF Bumped(run.read, v) THEN run.raised \cup {Asset} ELSE run.raised
           C == IF Asset \in IndexTemplates THEN run.recorded \cup {Asset} ELSE run.recorded
           rec == [run EXCEPT !.raised = R, !.recorded = C]
           w == [run EXCEPT !.warned = TRUE]
<1>1. /\ RunAt("decide") /\ ~Downgrade(run.read, v)
      /\ impaired' = (impaired \/ installed'[Asset] < installed[Asset])
      /\ UNCHANGED <<result, cluster, license, pipeline, role, built, unbridged, kibana, attached>>
  BY DEF SendTemplate
<1>2. /\ run.pc \in SendsAssets /\ run \in SetupRuns /\ run.release \in Releases /\ Asset \in Templates
      /\ installed \in [Templates -> Nat] /\ Bundled[run.release] \in [Templates -> Nat]
      /\ run.read = IF run.blind THEN 0 ELSE installed[Asset]
  BY <1>1, DecideFacts
<1>3. \/ run' = NextAsset(rec) /\ installed' = [installed EXCEPT ![Asset] = v]
      \/ run' = NextAsset(w) /\ (installed' = installed \/ installed' = [installed EXCEPT ![Asset] = v])
  <2>1. run \in SetupRuns
    BY <1>2
  <2>2. Recorded = NextAsset(rec)
    BY <2>1 DEF Recorded, SetupRuns
  <2>3. QED BY <2>2 DEF SendTemplate, Warned
<1>4. /\ faults' \in 0 .. MaxFaults /\ v \in Nat /\ installed' \in [Templates -> Nat]
      /\ \A t \in Templates \ {Asset} : installed'[t] = installed[t]
      /\ installed'[Asset] = v \/ installed' = installed
  BY <1>2, <1>3, FaultCounted DEF SendTemplate, SetupInv
<1>5. rec \in SetupRuns /\ rec.at = run.at /\ SameRequest(rec, run) /\ rec.raised = R /\ rec.recorded = C /\ rec.warned = run.warned
  <2>1. R \in SUBSET Templates /\ C \in SUBSET IndexTemplates
    BY <1>2 DEF SetupRuns
  <2> HIDE DEF R, C
  <2>2. QED BY <1>2, <2>1 DEF SetupRuns, SameRequest
<1>6. w \in SetupRuns /\ w.at = run.at /\ SameRequest(w, run) /\ w.warned
  BY <1>2 DEF SetupRuns, SameRequest
<1> HIDE DEF rec, w
<1>7. PICK r \in SetupRuns : /\ r.at = run.at /\ SameRequest(r, run) /\ run' = NextAsset(r)
                             /\ (r.warned \/ (r = rec /\ installed' = [installed EXCEPT ![Asset] = v]))
  BY <1>3, <1>5, <1>6
<1>8. /\ run' \in SetupRuns /\ run'.pc \in {"assets", "roll"} /\ SameRequest(run', run) /\ SameChanges(run', r)
      /\ run'.warned = r.warned /\ Handled' = Handled \cup {Asset} /\ SetupPoint'
  BY <1>2, <1>7, AdvanceFacts
<1>9. SetupShape'
  BY <1>1, <1>4, <1>8, ShapeParts, ShapeKept DEF SetupInv
<1>10. ASSUME ~run'.warned PROVE r = rec /\ ~run.warned /\ installed'[Asset] = v
  BY <1>2, <1>5, <1>7, <1>8, <1>10
<1>11. Unimpaired' => Ahead' \/ CatchingUp'
  <2> SUFFICES ASSUME Unimpaired' PROVE Ahead' \/ CatchingUp' OBVIOUS
  <2>1. r = rec /\ installed'[Asset] = v /\ Unimpaired /\ ~(v < installed[Asset])
    BY <1>1, <1>10 DEF Unimpaired
  <2>2. Ahead \/ CatchingUp
    BY <1>1, <2>1 DEF SetupInv, Level, RunAt
  <2>3. CASE Ahead
    <3>1. installed'[Asset] = installed[Asset]
      BY <1>2, <1>4, <2>1, <2>3 DEF Ahead
    <3>2. installed' = installed
      BY <1>2, <1>4, <3>1
    <3>3. NoneBehind' = NoneBehind
      BY <1>1, <3>2, LevelsSame
    <3>4. QED BY <1>8, <2>3, <3>2, <3>3 DEF Ahead, IsRelease, SameRequest
  <2>4. CASE CatchingUp
    <3>1. /\ \A t \in Templates : installed[t] <= installed'[t] /\ installed'[t] <= Bundled[run.release][t]
          /\ \A t \in Templates : installed[t] < installed'[t] => t = Asset /\ t \in R
      <4>1. installed[Asset] < v => Bumped(run.read, v)
        BY <1>2, <1>4 DEF Bumped
      <4>2. QED BY <1>2, <1>4, <2>1, <2>4, <4>1 DEF CatchingUp
    <3>2. \A t \in Handled' \cap Templates : installed'[t] = Bundled[run.release][t]
      BY <1>4, <1>8, <2>1, <2>4 DEF CatchingUp
    <3>3. run'.raised = R /\ run'.recorded = C /\ run.raised \subseteq R
      BY <1>5, <1>8, <2>1 DEF SameChanges
    <3>4. Handled' \cap IndexTemplates \subseteq C
      BY <1>8, <2>4 DEF CatchingUp
    <3>5. ASSUME NEW s \in Streams, Exists(s), NEW t \in Deps(StreamTemplate[s]), built[s][t] < installed'[t]
          PROVE  t \in R
      <4>1. t \in Templates
        BY CompositionAssumption DEF Deps, Templates
      <4>2. CASE built[s][t] < installed[t]
        BY <2>4, <3>3, <3>5, <4>2 DEF CatchingUp
      <4>3. CASE ~(built[s][t] < installed[t])
        <5>1. built[s] \in [Templates -> Nat]
          BY <3>5, ShapeParts DEF SetupInv, Exists
        <5>2. installed[t] < installed'[t]
          BY <1>2, <1>4, <3>5, <4>1, <4>3, <5>1
        <5>3. QED BY <3>1, <4>1, <5>2
      <4>4. QED BY <4>2, <4>3
    <3> HIDE DEF R, C
    <3>6. CatchingUp'
      BY <1>1, <1>8, <3>1, <3>2, <3>3, <3>4, <3>5 DEF CatchingUp, Exists, SameRequest
    <3>7. QED BY <3>6
  <2>5. QED BY <2>2, <2>3, <2>4
<1>12. run.es /\ ~run'.warned => AssetsDone'
  <2> SUFFICES ASSUME run.es, ~run'.warned PROVE AssetsDone' OBVIOUS
  <2>1. AssetsDone /\ Asset \notin {"pipeline", "role"} /\ installed'[Asset] = v
    BY <1>1, <1>2, <1>10, CompositionAssumption DEF SetupInv, SoFar, RunAt
  <2>2. \A t \in Handled' \cap Templates : installed'[t] >= Bundled[run.release][t]
    BY <1>2, <1>4, <1>8, <2>1 DEF AssetsDone
  <2>3. QED BY <1>1, <1>8, <2>1, <2>2 DEF AssetsDone, SameRequest
<1>13. QED BY <1>1, <1>8, <1>9, <1>11, <1>12, AdvanceKeeps DEF RunAt

----------------------------------------------------------------------------
(* The streams                                                                *)

LEMMA MidKeeps ==
  ASSUME SetupInv, run.pc \in {"roll", "rolling", "patching"}, run'.pc \in {"rolling", "patching", "license"},
         SameRequest(run', run), UNCHANGED kibana
  PROVE  SetupPoint' /\ Pushed' /\ OneSpace' /\ Handled' = Handled
<1>1. Handled' = Handled
  BY HandledSame DEF SendsAssets
<1>2. SetupPoint' /\ Pushed' /\ OneSpace'
  BY DEF SetupInv, SetupPoint, Pushed, OneSpace, InSpace, RunAt, SendsAssets, SameRequest
<1>3. QED BY <1>1, <1>2

\* Every stream that is behind is rolled over: what was raised is an index
\* template, or a component of one, and all index templates were recorded.
LEMMA ListStreamsKeeps ==
  ASSUME SetupInv, ListStreams PROVE SetupInv'
<1> DEFINE updated == Updated(run.raised, run.recorded)
           T == RollOver(updated)
<1>1. /\ RunAt("roll") /\ run \in SetupRuns /\ UNCHANGED <<deployment, result, impaired>> /\ faults' \in 0 .. MaxFaults
      /\ T \in SUBSET Streams
  BY ShapeParts, FaultCounted DEF ListStreams, Going, SetupInv, RollOver
<1>2. run' = [run EXCEPT !.pc = "rolling", !.todo = T] \/ run' = [run EXCEPT !.pc = "rolling", !.warned = TRUE]
  BY DEF ListStreams
<1> HIDE DEF T
<1>3. /\ run' \in SetupRuns /\ run'.pc = "rolling" /\ SameRequest(run', run) /\ SameChanges(run', run)
      /\ run'.warned \/ (run'.todo = T /\ run'.warned = run.warned)
  <2>1. CASE run' = [run EXCEPT !.pc = "rolling", !.todo = T]
    BY <1>1, <2>1 DEF SetupRuns, SetupPoints, SameRequest, SameChanges
  <2>2. CASE run' = [run EXCEPT !.pc = "rolling", !.warned = TRUE]
    BY <1>1, <2>2 DEF SetupRuns, SetupPoints, SameRequest, SameChanges
  <2>3. QED BY <1>2, <2>1, <2>2
<1>4. SetupPoint' /\ Pushed' /\ OneSpace' /\ Handled' = Handled
  BY <1>1, <1>3, MidKeeps DEF RunAt, deployment
<1>5. SetupShape'
  BY <1>1, <1>3, ShapeParts, ShapeKept DEF SetupInv, deployment
<1>6. Handled = AllAssets
  BY <1>1, HandledAll DEF RunAt, SendsAssets
<1>7. \A s \in Streams : StreamTemplate[s] \in IndexTemplates
  BY CompositionAssumption
<1>8. Level'
  <2> SUFFICES ASSUME Unimpaired' PROVE Uniform' /\ \A s \in Streams : Behind(s)' => s \in run'.todo
    BY <1>3 DEF Level, RunAt, BeforeRolled
  <2>1. Unimpaired /\ run'.todo = T
    BY <1>1, <1>3 DEF Unimpaired
  <2>2. Uniform' = Uniform /\ \A s \in Streams : Behind(s)' = Behind(s)
    BY <1>1, LevelsSame DEF deployment
  <2>3. CASE Ahead
    BY <2>2, <2>3 DEF Ahead, Uniform, NoneBehind
  <2>4. CASE CatchingUp
    <3>1. IsRelease(run.release) /\ IndexTemplates \subseteq run.recorded
      BY <1>6, <2>4 DEF CatchingUp, IsRelease, AllAssets, Templates
    <3>2. Uniform
      BY <1>1, <3>1 DEF Uniform, SetupInv, SetupPoint, RunAt
    <3>3. ASSUME NEW s \in Streams, Behind(s) PROVE s \in T
      <4>1. Exists(s) /\ \E t \in Deps(StreamTemplate[s]) : t \in run.raised
        BY <2>4, <3>3 DEF CatchingUp, Behind
      <4>2. StreamTemplate[s] \in updated
        BY <1>7, <3>1, <4>1 DEF Updated, Deps
      <4>3. QED BY <4>1, <4>2 DEF T, RollOver
    <3>4. QED BY <2>1, <2>2, <3>2, <3>3
  <2>5. QED BY <1>1, <2>1, <2>3, <2>4 DEF SetupInv, Level, RunAt
<1>9. SoFar'
  <2> SUFFICES ASSUME run.es, ~run'.warned PROVE AssetsDone' /\ \A s \in Streams : RolledOver(s)' \/ s \in run'.todo
    BY <1>3 DEF SoFar, RunAt, BeforeRolled, SameRequest
  <2>1. AssetsDone /\ run'.todo = T
    BY <1>1, <1>3 DEF SetupInv, SoFar, RunAt
  <2>2. AssetsDone'
    BY <1>1, <1>3, <1>4, <2>1 DEF AssetsDone, SameRequest, deployment
  <2>3. ASSUME NEW s \in Streams, s \notin T, Exists(s), StreamTemplate[s] \in run.recorded
        PROVE  run.raised \cap Deps(StreamTemplate[s]) = {}
    <3>1. StreamTemplate[s] \notin updated
      BY <2>3 DEF T, RollOver
    <3>2. QED BY <1>7, <2>3, <3>1 DEF Updated, Deps
  <2>4. \A s \in Streams : RolledOver(s)' \/ s \in T
    BY <1>1, <1>3, <2>3 DEF RolledOver, Exists, SameChanges, deployment
  <2>5. QED BY <2>1, <2>2, <2>4
<1>10. QED BY <1>4, <1>5, <1>8, <1>9 DEF SetupInv

LEMMA RollKeeps ==
  ASSUME SetupInv, NEW s \in Streams, Roll(s) PROVE SetupInv'
<1> DEFINE T == run.todo \ {s}
<1>1. /\ RunAt("rolling") /\ run \in SetupRuns /\ faults' \in 0 .. MaxFaults /\ T \in SUBSET Streams
      /\ UNCHANGED <<cluster, license, pipeline, role, installed, kibana, attached, result, impaired>>
  BY ShapeParts, FaultCounted DEF Roll, Going, SetupInv, SetupRuns
<1>2. \/ run' = [run EXCEPT !.todo = T] /\ Rolled(s)
      \/ run' = [run EXCEPT !.todo = T, !.warned = TRUE] /\ (Rolled(s) \/ UNCHANGED <<built, unbridged>>)
  BY <1>1 DEF Roll, SetupRuns
<1> HIDE DEF T
<1>3. /\ run' \in SetupRuns /\ run'.pc = "rolling" /\ SameRequest(run', run) /\ SameChanges(run', run) /\ run'.todo = T
      /\ run'.warned \/ (run'.warned = run.warned /\ built' = [built EXCEPT ![s] = Fresh(StreamTemplate[s])])
  <2>1. CASE run' = [run EXCEPT !.todo = T]
    BY <1>1, <1>2, <2>1 DEF Rolled, SetupRuns, SameRequest, SameChanges, RunAt
  <2>2. CASE run' = [run EXCEPT !.todo = T, !.warned = TRUE]
    BY <1>1, <2>2 DEF SetupRuns, SameRequest, SameChanges, RunAt
  <2>3. QED BY <1>2, <2>1, <2>2
<1>4. SetupPoint' /\ Pushed' /\ OneSpace' /\ Handled' = Handled
  BY <1>1, <1>3, MidKeeps DEF RunAt
<1>5. built' \in [Streams -> [Templates -> Nat] \cup {<<>>}] /\ unbridged' \subseteq Streams
  BY <1>1, <1>2, BuiltFresh, ShapeParts DEF Rolled, SetupInv
<1>6. SetupShape'
  BY <1>1, <1>3, <1>5, ShapeParts, ShapeKept DEF SetupInv
<1>7. ASSUME ~run'.warned
      PROVE  /\ ~run.warned /\ ~Behind(s)' /\ RolledOver(s)'
             /\ \A u \in Streams \ {s} : Behind(u)' = Behind(u) /\ RolledOver(u)' = RolledOver(u)
  <2>1. ~run.warned /\ built' = [built EXCEPT ![s] = Fresh(StreamTemplate[s])]
    BY <1>3, <1>7
  <2>2. /\ \A u \in Streams \ {s} : built'[u] = built[u]
        /\ Deps(StreamTemplate[s]) \subseteq Templates
        /\ \A t \in Deps(StreamTemplate[s]) : built'[s][t] = installed[t]
    BY <1>1, <2>1, BuiltFresh
  <2>3. ~Behind(s)' /\ RolledOver(s)'
    BY <1>1, <2>2, ShapeParts DEF Behind, RolledOver, SetupInv
  <2>4. \A u \in Streams \ {s} : Behind(u)' = Behind(u) /\ RolledOver(u)' = RolledOver(u)
    BY <1>1, <1>3, <2>2 DEF Behind, RolledOver, Exists, SameChanges
  <2>5. QED BY <2>1, <2>3, <2>4
<1>8. Level'
  <2>1. Uniform' = Uniform
    BY <1>1 DEF Uniform, IsRelease
  <2>2. QED BY <1>1, <1>3, <1>7, <2>1 DEF SetupInv, Level, RunAt, Unimpaired, BeforeRolled, T
<1>9. SoFar'
  <2>1. AssetsDone => AssetsDone'
    BY <1>1, <1>3, <1>4 DEF AssetsDone, SameRequest
  <2>2. QED BY <1>1, <1>3, <1>7, <2>1 DEF SetupInv, SoFar, RunAt, BeforeRolled, SameRequest, T
<1>10. QED BY <1>4, <1>6, <1>8, <1>9 DEF SetupInv

LEMMA ReadMappingsKeeps ==
  ASSUME SetupInv, ReadMappings PROVE SetupInv'
<1>1. /\ RunAt("rolling") /\ run.todo = {} /\ run \in SetupRuns /\ UNCHANGED <<deployment, result, impaired>>
      /\ faults' \in 0 .. MaxFaults /\ unbridged \in SUBSET Streams
  BY ShapeParts, FaultCounted DEF ReadMappings, Going, SetupInv
<1>2. /\ run' \in SetupRuns /\ SameRequest(run', run) /\ SameChanges(run', run)
      /\ \/ run'.pc = "patching" /\ run'.todo = unbridged /\ run'.warned = run.warned
         \/ run'.pc = "license" /\ run'.warned
  <2>1. CASE run' = [run EXCEPT !.pc = "patching", !.todo = unbridged]
    BY <1>1, <2>1 DEF SetupRuns, SetupPoints, SameRequest, SameChanges
  <2>2. CASE run' = [run EXCEPT !.pc = "license", !.warned = TRUE]
    BY <1>1, <2>2 DEF SetupRuns, SetupPoints, SameRequest, SameChanges
  <2>3. QED BY <2>1, <2>2 DEF ReadMappings
<1>3. SetupPoint' /\ Pushed' /\ OneSpace' /\ Handled' = Handled
  BY <1>1, <1>2, MidKeeps DEF RunAt, deployment
<1>4. SetupShape'
  BY <1>1, <1>2, ShapeParts, ShapeKept DEF SetupInv, deployment
<1>5. Level'
  <2>1. Uniform' = Uniform /\ NoneBehind' = NoneBehind
    BY <1>1, LevelsSame DEF deployment
  <2>2. QED BY <1>1, <1>2, <2>1 DEF SetupInv, Level, RunAt, Unimpaired, BeforeRolled, NoneBehind
<1>6. SoFar'
  <2>1. AssetsDone => AssetsDone'
    BY <1>1, <1>2, <1>3 DEF AssetsDone, SameRequest, deployment
  <2>2. \A s \in Streams : RolledOver(s)' = RolledOver(s)
    BY <1>1, <1>2 DEF RolledOver, Exists, SameChanges, deployment
  <2>3. QED BY <1>1, <1>2, <2>1, <2>2 DEF SetupInv, SoFar, RunAt, BeforeRolled, SameRequest, deployment
<1>7. QED BY <1>3, <1>4, <1>5, <1>6 DEF SetupInv

LEMMA PatchKeeps ==
  ASSUME SetupInv, NEW s \in Streams, Patch(s) PROVE SetupInv'
<1> DEFINE T == run.todo \ {s}
<1>1. /\ RunAt("patching") /\ run \in SetupRuns /\ faults' \in 0 .. MaxFaults /\ T \in SUBSET Streams
      /\ UNCHANGED <<cluster, license, pipeline, role, installed, built, kibana, attached, result, impaired>>
      /\ unbridged' \subseteq unbridged
  BY ShapeParts, FaultCounted DEF Patch, Going, SetupInv, SetupRuns
<1>2. (run' = [run EXCEPT !.todo = T] /\ unbridged' = unbridged \ {s}) \/ run' = [run EXCEPT !.todo = T, !.warned = TRUE]
  BY <1>1 DEF Patch, SetupRuns
<1> HIDE DEF T
<1>3. /\ run' \in SetupRuns /\ run'.pc = "patching" /\ SameRequest(run', run) /\ SameChanges(run', run) /\ run'.todo = T
      /\ run'.warned \/ (run'.warned = run.warned /\ unbridged' = unbridged \ {s})
  <2>1. CASE run' = [run EXCEPT !.todo = T] /\ unbridged' = unbridged \ {s}
    BY <1>1, <2>1 DEF SetupRuns, SameRequest, SameChanges, RunAt
  <2>2. CASE run' = [run EXCEPT !.todo = T, !.warned = TRUE]
    BY <1>1, <2>2 DEF SetupRuns, SameRequest, SameChanges, RunAt
  <2>3. QED BY <1>2, <2>1, <2>2
<1>4. SetupPoint' /\ Pushed' /\ OneSpace' /\ Handled' = Handled
  BY <1>1, <1>3, MidKeeps DEF RunAt
<1>5. SetupShape'
  BY <1>1, <1>3, ShapeParts, ShapeKept DEF SetupInv
<1>6. Level'
  <2>1. Uniform' = Uniform /\ NoneBehind' = NoneBehind
    BY <1>1, LevelsSame
  <2>2. QED BY <1>1, <1>3, <2>1 DEF SetupInv, Level, RunAt, Unimpaired, BeforeRolled
<1>7. SoFar'
  <2>1. AssetsDone => AssetsDone'
    BY <1>1, <1>3, <1>4 DEF AssetsDone, SameRequest
  <2>2. (\A s2 \in Streams : RolledOver(s2)' = RolledOver(s2)) /\ Renamed' = Renamed
    BY <1>1, <1>3 DEF RolledOver, Exists, SameChanges, Renamed
  <2>3. QED BY <1>1, <1>3, <2>1, <2>2 DEF SetupInv, SoFar, RunAt, BeforeRolled, SameRequest, T
<1>8. QED BY <1>4, <1>5, <1>6, <1>7 DEF SetupInv

----------------------------------------------------------------------------
(* The theorems                                                               *)

LEMMA SetupUntouchedKeep ==
  ASSUME SetupInv, UNCHANGED setupVars PROVE SetupInv'
<1>1. UNCHANGED <<cluster, license, pipeline, role, installed, built, unbridged, kibana, attached, run, result, impaired, faults>>
  BY DEF setupVars, deployment
<1>2. SetupShape' /\ SetupPoint' /\ Pushed' /\ OneSpace'
  BY <1>1 DEF SetupInv, SetupShape, SetupTypeOK, SetupPoint, Pushed, OneSpace, Exists, RunAt, Asset
<1>3. Uniform' = Uniform /\ NoneBehind' = NoneBehind /\ Handled' = Handled
      /\ \A s \in Streams : Behind(s)' = Behind(s) /\ RolledOver(s)' = RolledOver(s)
  BY <1>1 DEF Uniform, IsRelease, NoneBehind, Behind, Exists, Handled, RolledOver
<1>4. Ahead' = Ahead /\ CatchingUp' = CatchingUp
  BY <1>1, <1>3 DEF Ahead, CatchingUp, IsRelease, Exists
<1>5. Level'
  BY <1>1, <1>3, <1>4 DEF SetupInv, Level, Unimpaired, RunAt
<1>6. SoFar'
  BY <1>1, <1>3 DEF SetupInv, SoFar, AssetsDone, Renamed, RunAt
<1>7. QED BY <1>2, <1>5, <1>6 DEF SetupInv

LEMMA SetupStepsKeep ==
  ASSUME SetupInv, SetupSteps PROVE SetupInv'
BY AbortKeeps, ReadVersionKeeps, KeepNewerKeeps, SendTemplateKeeps, UnversionedKeeps, ListStreamsKeeps, ReadMappingsKeeps,
   LicenseKeeps, CheckSpacesKeeps, PushKeeps, SyncedKeeps, AttachKeeps, RollKeeps, PatchKeeps
   DEF SetupSteps

LEMMA SetupStep ==
  ASSUME SetupInv, [CommandsNext]_commandVars PROVE SetupInv'
<1>1. CASE RunSetup
  BY <1>1, StartSetupKeeps, SetupStepsKeep DEF RunSetup
<1>2. CASE Deployment
  BY <1>2, CreateStreamKeeps, ClearSpaceKeeps DEF Deployment, DeploymentSteps
<1>3. CASE RunSkills \/ Edit \/ RunAsk \/ UNCHANGED commandVars
  BY <1>3, SetupUntouchedKeep DEF RunSkills, Edit, RunAsk, commandVars
<1>4. QED BY <1>1, <1>2, <1>3 DEF CommandsNext

LEMMA SetupInvariant == CommandsSpec => []SetupInv
<1>1. CommandsInit => SetupInv
  BY SetupInitFacts DEF CommandsInit
<1>2. SetupInv /\ [CommandsNext]_commandVars => SetupInv'
  BY SetupStep
<1>3. QED BY <1>1, <1>2, PTL DEF CommandsSpec

LEMMA AtMostOne ==
  ASSUME NEW S, \A x, y \in S : x = y PROVE Cardinality(S) <= 1
<1>1. CASE S = {}
  BY <1>1, FS_EmptySet
<1>2. CASE S # {}
  <2>1. PICK x \in S : S = {x}
    BY <1>2
  <2>2. QED BY <2>1, FS_Singleton
<1>3. QED BY <1>1, <1>2

\* As long as every run was reported complete and none lowered a template, every
\* stream's write index has the installed templates, whatever releases ran in
\* which order (api_assets and rollover_updated_data_streams in
\* setup/elasticsearch.rs); and the dashboards are in one space at most
\* (ensure_single_kibana_space in setup/kibana.rs).
THEOREM SetupHolds == CommandsSpec => []SetupSound
<1>1. SetupInv => SetupSound
  <2> SUFFICES ASSUME SetupInv PROVE SetupSound OBVIOUS
  <2>1. SetupTypeOK
    BY DEF SetupInv, SetupShape
  <2>2. NobodyBehind
    BY NoRunFacts DEF SetupInv, SetupPoint, Level, NobodyBehind, NoneBehind, Unimpaired, RunAt, BeforeRolled
  <2>3. SingleSpace
    <3> DEFINE S == {sp \in Spaces : "dashboards" \in kibana[sp]}
    <3>1. \A x, y \in S : x = y
      BY DEF SetupInv, OneSpace
    <3> HIDE DEF S
    <3>2. Cardinality(S) <= 1
      BY <3>1, AtMostOne
    <3>3. QED BY <3>2 DEF S, SingleSpace
  <2>4. QED BY <2>1, <2>2, <2>3 DEF SetupSound
<1>2. QED BY <1>1, SetupInvariant, PTL

\* Only sending a template changes a version, and it sends an older one only
\* when the installed one could not be read.
LEMMA Lowers ==
  ASSUME SetupInv, [CommandsNext]_commandVars, NEW t \in Templates, installed'[t] < installed[t] PROVE run.blind
<1>1. installed[t] \in Nat
  BY ShapeParts DEF SetupInv
<1>2. installed' # installed
  BY <1>1
<1>3. CASE RunSetup
  <2>1. ~SetupStarts
    BY <1>2 DEF SetupStarts, StartSetup, deployment
  <2>2. SendTemplate
    BY <1>2, <1>3, <2>1 DEF RunSetup, SetupSteps, AbortSetup, ReadVersion, KeepNewer, SendPipeline, SendRole, ListStreams,
       ReadMappings, Patched, CheckLicense, StartTrial, TrialRefused, CheckSpaces, Push, EnsureSyncCompleted, Attach, Roll, Patch,
       deployment
  <2> DEFINE v == Bundled[run.release][Asset]
  <2>3. /\ RunAt("decide") /\ ~Downgrade(run.read, v)
        /\ installed' = installed \/ installed' = [installed EXCEPT ![Asset] = v]
    BY <2>2 DEF SendTemplate
  <2>4. /\ Asset \in Templates /\ installed \in [Templates -> Nat] /\ v \in Nat
        /\ run.read = IF run.blind THEN 0 ELSE installed[Asset]
    BY <2>3, DecideFacts
  <2>5. t = Asset /\ v < installed[Asset]
    BY <1>1, <1>2, <2>3, <2>4
  <2>6. QED BY <2>3, <2>4, <2>5 DEF Downgrade
<1>4. CASE Deployment
  BY <1>2, <1>4 DEF Deployment, DeploymentSteps, CreateStream, ClearSpace
<1>5. CASE RunSkills \/ Edit \/ RunAsk \/ UNCHANGED commandVars
  BY <1>2, <1>5 DEF RunSkills, Edit, RunAsk, commandVars, setupVars, deployment
<1>6. QED BY <1>3, <1>4, <1>5 DEF CommandsNext

\* The steps that do not end a run.
LEMMA GoesOn ==
  ASSUME SetupInv, ~RunAt("idle"),
         ReadVersion \/ KeepNewer \/ SendTemplate \/ SendPipeline \/ SendRole \/ ListStreams \/ ReadMappings \/ Patched
         \/ StartTrial \/ \E s \in Streams : Roll(s) \/ Patch(s)
  PROVE  ~RunAt("idle")'
<1>1. run \in SetupRuns
  BY ShapeParts DEF SetupInv
<1>2. CASE ReadVersion \/ ListStreams \/ ReadMappings \/ Patched \/ StartTrial
  BY <1>1, <1>2 DEF ReadVersion, ListStreams, ReadMappings, Patched, StartTrial, RunAt, SetupRuns
<1>3. CASE \E s \in Streams : Roll(s) \/ Patch(s)
  BY <1>1, <1>3 DEF Roll, Patch, RunAt, SetupRuns
<1>4. CASE KeepNewer \/ SendTemplate \/ SendPipeline \/ SendRole
  BY <1>4, KeepNewerKeeps, SendTemplateKeeps, UnversionedKeeps
<1>5. QED BY <1>2, <1>3, <1>4

LEMMA Finishes ==
  ASSUME SetupInv, [CommandsNext]_commandVars, ~RunAt("idle"), RunAt("idle")', result' = "complete"
  PROVE  /\ ~run.warned /\ run.pc \notin BeforeRolled /\ ~RunAt("patching")
         /\ \/ ~run.kibana
            \/ RunAt("attach") /\ attached' = attached \cup {run.space}
<1>1. CASE RunSetup
  <2>1. SetupSteps
    BY <1>1 DEF RunSetup, SetupStarts, StartSetup
  <2>2. AbortSetup \/ CheckLicense \/ TrialRefused \/ CheckSpaces \/ Push \/ EnsureSyncCompleted \/ Attach
    BY <2>1, GoesOn DEF SetupSteps
  <2>3. CASE AbortSetup \/ TrialRefused
    BY <2>3 DEF AbortSetup, TrialRefused, Report
  <2>4. run \in SetupRuns
    BY ShapeParts DEF SetupInv
  <2>5. CASE CheckLicense
    <3>1. RunAt("license")
      BY <2>5 DEF CheckLicense
    <3>2. run' = [run EXCEPT !.pc = "spaces"] \/ run' = [run EXCEPT !.pc = "trial"] \/ Report("partial")
          \/ (~run.kibana /\ Finish(run))
      BY <2>5 DEF CheckLicense
    <3>3. ~run.kibana /\ ~run.warned
      BY <2>4, <3>2 DEF RunAt, SetupRuns, Report, Finish
    <3>4. QED BY <3>1, <3>3 DEF RunAt, BeforeRolled
  <2>6. CASE CheckSpaces \/ EnsureSyncCompleted
    BY <2>4, <2>6 DEF CheckSpaces, EnsureSyncCompleted, Report, RunAt, SetupRuns
  <2>7. CASE Push
    <3> DEFINE p == IF run.at = Len(Kinds) THEN "synced" ELSE "sync"
               on == [run EXCEPT !.at = @ + 1, !.pc = p]
    <3>1. run' = on \/ run' = [on EXCEPT !.incomplete = TRUE] \/ result' = "error"
      BY <2>7 DEF Push, Report
    <3>2. p # "idle"
      OBVIOUS
    <3> HIDE DEF p
    <3>3. on.pc # "idle" /\ [on EXCEPT !.incomplete = TRUE].pc # "idle"
      BY <2>4, <3>2 DEF SetupRuns
    <3> HIDE DEF on
    <3>4. QED BY <3>1, <3>3 DEF RunAt
  <2>8. CASE Attach
    BY <2>8 DEF Attach, Finish, Report, RunAt, BeforeRolled
  <2>9. QED BY <2>2, <2>3, <2>5, <2>6, <2>7, <2>8
<1>2. CASE Deployment
  BY <1>2 DEF Deployment, DeploymentSteps, CreateStream, ClearSpace, RunAt
<1>3. CASE RunSkills \/ Edit \/ RunAsk \/ UNCHANGED commandVars
  BY <1>3 DEF RunSkills, Edit, RunAsk, commandVars, setupVars, RunAt
<1>4. QED BY <1>1, <1>2, <1>3 DEF CommandsNext

LEMMA PromiseKept ==
  ASSUME SetupInv, [CommandsNext]_commandVars, ~RunAt("idle"), RunAt("idle")', result' = "complete" PROVE CompletePromises
<1>1. /\ ~run.warned /\ run.pc \notin BeforeRolled /\ ~RunAt("patching")
      /\ ~run.kibana \/ (RunAt("attach") /\ attached' = attached \cup {run.space})
  BY Finishes
<1>2. ASSUME run.es
      PROVE  /\ pipeline
             /\ cluster.security /\ ~cluster.serverless => role
             /\ \A t \in Templates : installed[t] >= Bundled[run.release][t]
             /\ \A s \in Streams : RolledOver(s)
             /\ Renamed => unbridged = {}
  <2>1. /\ AssetsDone /\ \A s \in Streams : RolledOver(s)
        /\ Renamed => unbridged \subseteq {}
    BY <1>1, <1>2 DEF SetupInv, SoFar, RunAt, BeforeRolled
  <2>2. Handled = AllAssets
    BY <1>1, HandledAll DEF BeforeRolled, SendsAssets
  <2>3. QED BY <2>1, <2>2 DEF AssetsDone, AllAssets
<1>3. ASSUME run.kibana
      PROVE  {Kinds[k] : k \in DOMAIN Kinds} \subseteq kibana[run.space] /\ run.space \in attached'
  <2>1. RunAt("attach") /\ ~run.incomplete /\ run.space \in attached'
    BY <1>1, <1>3 DEF SetupInv, SetupPoint
  <2>2. \A k \in 1 .. Len(Kinds) : Kinds[k] \in kibana[run.space]
    BY <2>1 DEF SetupInv, Pushed, InSpace, RunAt
  <2>3. DOMAIN Kinds = 1 .. Len(Kinds)
    BY DEF Kinds
  <2>4. QED BY <2>1, <2>2, <2>3
<1>4. QED BY <1>2, <1>3 DEF CompletePromises, RolledOver, Renamed

\* A template is lowered only by a run that could not read its version
\* (template_version_downgrade in setup/elasticsearch.rs), and a run reported
\* complete (setup_outcome in main.rs) has done what that promises.
THEOREM HonestSetup == CommandsSpec => SetupHonest
<1>1. SetupInv /\ [CommandsNext]_commandVars => [\A t \in Templates : installed'[t] < installed[t] => run.blind]_setupVars
  BY Lowers
<1>2. SetupInv /\ [CommandsNext]_commandVars => [RunAt("idle")' /\ ~RunAt("idle") /\ result' = "complete" => CompletePromises]_setupVars
  BY PromiseKept
<1>3. QED BY <1>1, <1>2, SetupInvariant, PTL DEF CommandsSpec, SetupHonest, NeverLowered, CompleteKept

=============================================================================
