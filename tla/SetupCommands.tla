---------------------------- MODULE SetupCommands ----------------------------
(* The commands that configure other systems, run one after the other on one  *)
(* machine: `setup elasticsearch|kibana|output|env|context`, `setup skills`   *)
(* and `agent ask`. They share nothing but the command line, so overlapping   *)
(* them would add no behaviour.                                               *)
EXTENDS AssetSetup, AgentSkills

commandVars == <<setupVars, agentVars>>

Quiet == RunAt("idle") /\ skill.pc = "idle" /\ ask.pc = "idle"

CommandsInit == SetupInit /\ SkillInit /\ ask = NoAsk

RunSetup ==
  /\ (Quiet /\ SetupStarts) \/ SetupSteps
  /\ UNCHANGED agentVars
Deployment == DeploymentSteps /\ UNCHANGED agentVars
RunSkills ==
  /\ (Quiet /\ SkillStarts) \/ SkillSteps
  /\ UNCHANGED <<setupVars, ask>>
Edit ==
  /\ RunAt("idle") /\ ask.pc = "idle"
  /\ \E t \in Targets : UserWrites(t)
  /\ UNCHANGED <<setupVars, ask>>
RunAsk ==
  /\ (Quiet /\ AskStarts) \/ AskSteps
  /\ UNCHANGED <<setupVars, skillVars>>

CommandsNext == RunSetup \/ Deployment \/ RunSkills \/ Edit \/ RunAsk
CommandsSpec == CommandsInit /\ [][CommandsNext]_commandVars

\* The invariants of the deployment, of the skill directories and of a turn.
SetupSound == SetupTypeOK /\ NobodyBehind /\ SingleSpace

----------------------------------------------------------------------------
(* The instance that is checked: three releases, each with a newer component; *)
(* the index template that is composed of it changed in the second, the other *)
(* one in the third.                                                          *)

Composition == [i \in {"i1", "i2"} |-> IF i = "i1" THEN {"c1"} ELSE {}]
ThreeReleases == [r \in 1 .. 3 |-> [t \in {"c1", "i1", "i2"} |->
                   CASE t = "c1" -> r [] t = "i1" -> IF r = 1 THEN 1 ELSE 2 [] t = "i2" -> IF r = 3 THEN 2 ELSE 1]]
TwoStreams == [s \in {"s1", "s2"} |-> IF s = "s1" THEN "i1" ELSE "i2"]

\* What Kibana gets has no versions: one release sets it up.
OneForKibana == run.kibana => run.release = 1

\* The three parts share no variable: a behaviour of one is explored in the
\* initial state of the others.
SetupUntouched == RunAt("idle") /\ result = "none" /\ ~cluster.serverless /\ ~cluster.security /\ license = "active"
SkillsUntouched == skill = NoSkill /\ skillFaults = 0 /\ dest = [t \in Targets |-> NoDir]
Separate ==
  /\ OneForKibana
  /\ \/ SkillsUntouched /\ ask = NoAsk
     \/ SetupUntouched /\ ask = NoAsk
     \/ SetupUntouched /\ SkillsUntouched
=============================================================================
