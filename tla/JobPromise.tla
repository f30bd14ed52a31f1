------------------------------ MODULE JobPromise ------------------------------
(* What the executor promises whoever submits a job (the contract that main.rs,*)
(* server/job_runner.rs and server/api.rs rely on when they read an            *)
(* ExecutionOutcome), with nothing said of how: statuses of stages are decided *)
(* once, an output only succeeds over an input that did, and the outcome that  *)
(* is returned leaves no requested output undecided.                           *)

VARIABLES
  selected,   \* the stages the job asks for
  phase,      \* "open", "returned" or "dropped"
  status      \* the status of each stage, "None" while it is undecided

pvars == <<selected, phase, status>>

Inputs  == {"Collect", "Load"}
Outputs == {"Process", "Export", "Send"}
Every   == Inputs \cup {"Save"} \cup Outputs

PInit ==
  /\ selected \in SUBSET Every
  /\ phase = "open"
  /\ status = [s \in Every |-> "None"]

\* What is decided stays decided.
Keeps(old, new) == \A s \in Every : old[s] # "None" => new[s] = old[s]

\* Nothing is decided that was not asked for, and an output succeeds only
\* over an input.
Sane(st) ==
  /\ \A s \in Every \ selected : st[s] = "None"
  /\ (\E s \in Outputs : st[s] = "Succeeded") => \E i \in Inputs : st[i] = "Succeeded"

Decide ==
  /\ phase = "open"
  /\ status' \in [Every -> {"None", "Succeeded", "Failed", "Blocked"}]
  /\ Keeps(status, status') /\ Sane(status')
  /\ UNCHANGED selected

Settle == Decide /\ phase' = "open"

\* The outcome reaches the caller: complete, and if nothing failed the input
\* was there.
Return ==
  /\ Decide /\ phase' = "returned"
  /\ \A s \in Outputs \cap selected : status'[s] # "None"
  /\ \/ \E s \in Every : status'[s] = "Failed"
     \/ \E i \in Inputs : status'[i] = "Succeeded"

\* The caller went away.
Drop ==
  /\ phase = "open" /\ phase' = "dropped"
  /\ UNCHANGED <<selected, status>>

PNext == Settle \/ Return \/ Drop

PSpec == PInit /\ [][PNext]_pvars
===============================================================================
