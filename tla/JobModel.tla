------------------------------ MODULE JobModel ------------------------------
(***************************************************************************)
(* The Job declaration (src/job/model.rs): one input, an optional Save, an *)
(* optional Process (its Export lives inside it) and an optional Send.     *)
(* A job is a record; strings, paths and credentials are reduced to the    *)
(* distinctions Job::try_new and the executor make.                        *)
(***************************************************************************)
EXTENDS Naturals, FiniteSets, Sequences

\* Input variants, with the values try_new singles out: a blank host, a blank
\* binding key, and the Uri kinds of a Load.
CollectInputs == {"Collect", "CollectNoHost", "CollectBinding", "CollectNoBinding"}
LoadInputs    == {"LoadFile", "LoadServiceLink", "LoadOther", "LoadHostUri",
                  "LoadBinding", "LoadNoBinding"}
Inputs        == CollectInputs \cup LoadInputs

\* "Temporary" is SaveTarget { dir: None }, "Retained" is dir: Some(_).
Saves == {"None", "Temporary", "Retained"}

\* Process by the kind of its export target.
Processes == {"None", "Stable", "Binding", "NoBinding"}

JobShapes == [input : Inputs, save : Saves, process : Processes, send : BOOLEAN]

IsCollect(j)  == j.input \in CollectInputs
Processing(j) == j.process # "None"

\* Load of a local archive, of a service link, or of a runtime binding.
IsSendableBundle(j) ==
    j.input \in {"LoadFile", "LoadServiceLink", "LoadBinding", "LoadNoBinding"}

UsesRuntimeBindings(j) ==
    \/ j.input \in {"CollectBinding", "CollectNoBinding", "LoadBinding", "LoadNoBinding"}
    \/ j.process \in {"Binding", "NoBinding"}

\* The checks of Job::try_new in the order it makes them.
Checks(j) == <<
    [error |-> "SaveRequiresCollect",
     broken |-> j.save # "None" /\ ~IsCollect(j)],
    [error |-> "EmptyCollectHost",
     broken |-> j.input = "CollectNoHost"],
    [error |-> "EmptyRuntimeBinding",
     broken |-> j.input \in {"CollectNoBinding", "LoadNoBinding"}],
    [error |-> "EmptyRuntimeBinding",
     broken |-> j.process = "NoBinding"],
    [error |-> "ResolvedLoadUriNotPersistable",
     broken |-> j.input = "LoadHostUri"],
    [error |-> "SendRequiresBundle",
     broken |-> j.send /\ IsCollect(j) /\ j.save = "None"],
    [error |-> "SendRequiresArchiveFile",
     broken |-> j.send /\ j.save = "None" /\ ~IsSendableBundle(j)],
    [error |-> "NoWork",
     broken |-> IsCollect(j) /\ j.save = "None" /\ ~Processing(j) /\ ~j.send],
    [error |-> "TemporarySaveRequiresConsumer",
     broken |-> j.save = "Temporary" /\ ~Processing(j) /\ ~j.send] >>

\* Job::try_new: the first broken check names the error.
TryNew(j) ==
    LET broken == {i \in DOMAIN Checks(j) : Checks(j)[i].broken}
    IN  IF broken = {} THEN "Ok"
        ELSE Checks(j)[CHOOSE i \in broken : \A k \in broken : i <= k].error

Jobs == {j \in JobShapes : TryNew(j) = "Ok"}

\* Job::execution_mode: Save is the serialization barrier.
ExecutionMode(j) ==
    IF IsCollect(j) /\ j.save = "None" /\ Processing(j) THEN "Streaming" ELSE "Staged"

\* Job::validate_for_persistence, the gate of the saved-jobs file.
Persistable(j) == ~UsesRuntimeBindings(j) /\ j.input \in {"Collect", "CollectNoHost"}
=============================================================================
