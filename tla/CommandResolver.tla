---------------------------- MODULE CommandResolver ----------------------------
(* run_command_with_timeout of crates/elasticrc: the caller polls a child process *)
(* while two threads read its output, up to a limit; a timeout kills the child.   *)
(* A process the child leaves behind keeps the pipes open.                        *)
EXTENDS Naturals, FiniteSets

VARIABLES run,      \* the caller: "idle", "polling", "joining", "done"
          child,    \* "none", "running", "success", "failure", "killed"
          heirs,    \* whether a process of the child still holds the pipes
          readers,  \* per stream: "none", "reading", "whole", "exceeded"
          outcome   \* "none", "value", "error"
commandVars == <<run, child, heirs, readers, outcome>>

Streams == {"stdout", "stderr"}

CommandInit ==
  /\ run = "idle" /\ child = "none" /\ heirs = FALSE
  /\ readers = [s \in Streams |-> "none"] /\ outcome = "none"

Spawn ==
  /\ run = "idle"
  /\ \/ /\ run' = "polling" /\ child' = "running" /\ readers' = [s \in Streams |-> "reading"] /\ UNCHANGED outcome
     \/ run' = "done" /\ outcome' = "error" /\ UNCHANGED <<child, readers>>
  /\ UNCHANGED heirs

\* The child may fork and may end on its own; so may what it left behind.
ChildForks ==
  child = "running" /\ heirs' = TRUE /\ UNCHANGED <<run, child, readers, outcome>>
ChildEnds ==
  /\ child = "running" /\ child' \in {"success", "failure"}
  /\ UNCHANGED <<run, heirs, readers, outcome>>
HeirsEnd ==
  /\ heirs /\ child # "running" /\ heirs' = FALSE
  /\ UNCHANGED <<run, child, readers, outcome>>

\* read_command_output: the end of the stream, or more bytes than allowed.
ReadToEnd(s) ==
  /\ readers[s] = "reading" /\ child # "running" /\ ~heirs
  /\ readers' = [readers EXCEPT ![s] = "whole"] /\ UNCHANGED <<run, child, heirs, outcome>>
ReadTooMuch(s) ==
  /\ readers[s] = "reading"
  /\ readers' = [readers EXCEPT ![s] = "exceeded"] /\ UNCHANGED <<run, child, heirs, outcome>>

\* try_wait: the child has ended, or it cannot be asked (and is killed).
Poll ==
  /\ run = "polling"
  /\ \/ child \in {"success", "failure"} /\ UNCHANGED <<child, outcome>>
     \/ child' = "killed" /\ outcome' = "error"
  /\ run' = "joining" /\ UNCHANGED <<heirs, readers>>

\* The deadline: kill, wait, and join like the others.
TimeOut ==
  /\ run = "polling" /\ child = "running" /\ child' = "killed" /\ outcome' = "error"
  /\ run' = "joining" /\ UNCHANGED <<heirs, readers>>

Joined == run = "joining" /\ \A s \in Streams : readers[s] \in {"whole", "exceeded"}

\* Both readers joined: their failure comes before the exit status, and a value
\* that is not UTF-8 is an error.
Join ==
  /\ Joined /\ run' = "done"
  /\ outcome' \in IF outcome = "error" \/ child # "success" \/ \E s \in Streams : readers[s] = "exceeded"
                  THEN {"error"} ELSE {"value", "error"}
  /\ UNCHANGED <<child, heirs, readers>>

Again ==
  /\ run = "done" /\ ~heirs /\ run' = "idle" /\ child' = "none"
  /\ readers' = [s \in Streams |-> "none"] /\ outcome' = "none" /\ UNCHANGED heirs

CommandNext ==
  \/ Spawn \/ ChildForks \/ ChildEnds \/ HeirsEnd \/ Poll \/ TimeOut \/ Join \/ Again
  \/ \E s \in Streams : ReadToEnd(s) \/ ReadTooMuch(s)
CommandSpec == CommandInit /\ [][CommandNext]_commandVars

\* A call that is over has left neither child nor reader behind, and a value is
\* the whole output of a command that succeeded.
CommandLeavesNothing ==
  /\ run = "done" => child # "running" /\ \A s \in Streams : readers[s] # "reading"
  /\ outcome = "value" => run = "done" /\ child = "success" /\ \A s \in Streams : readers[s] = "whole"
================================================================================
