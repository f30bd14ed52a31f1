------------------------- MODULE JobExecutorProofs -------------------------
(***************************************************************************)
(* Proofs about JobExecutor for every set of included diagnostics: type    *)
(* correctness, the lifetime of the bundle directories, the honesty of the *)
(* recorded stages, and that the executor keeps the promise of JobPromise. *)
(***************************************************************************)
EXTENDS JobExecutor, TLAPS

StageTable == [Stages -> Statuses \cup {"None"}]

(***************************************************************************)
(* Type correctness                                                        *)
(***************************************************************************)
\* Recording a status keeps the table of stage statuses well typed.
LEMMA RecordType ==
    ASSUME NEW st \in StageTable, NEW S, NEW status \in Statuses
    PROVE  Record(st, S, status) \in StageTable
BY DEF Record, StageTable

LEMMA FailIntoType ==
    ASSUME NEW e, NEW st \in StageTable, NEW S
    PROVE  /\ RecordBlockedOutputs(JobOf(e), st) \in StageTable
           /\ FailInto(e, st, S) \in StageTable
<1> "Failed" \in Statuses /\ "Blocked" \in Statuses
  BY DEF Statuses
<1> QED
  BY RecordType DEF FailInto, RecordBlockedOutputs

\* Applying the two results of the join keeps the table well typed.
LEMMA ApplyType ==
    ASSUME NEW e, NEW st \in StageTable
    PROVE  ApplySend(e, ApplyProcess(e, st)) \in StageTable
<1> "Failed" \in Statuses /\ "Blocked" \in Statuses /\ "Succeeded" \in Statuses
  BY DEF Statuses
<1>1. ApplyProcess(e, st) \in StageTable
  BY RecordType DEF ApplyProcess, ExportStatus
<1> QED
  BY <1>1, RecordType DEF ApplySend

\* Returning changes the control state to Done and can only shrink the disk
\* and the guards it is given.
LEMMA ReturnType ==
    ASSUME TypeOK, NEW e \in Execs,
           NEW disk \in SUBSET Places, NEW armed \in SUBSET TempDirs,
           Return(e, disk, armed)
    PROVE  /\ pc' \in [Execs -> Labels]
           /\ fs' \in SUBSET Places
           /\ guards' \in SUBSET TempDirs
BY DEF Return, TypeOK, Labels

\* The staging guard never covers the user's save directory.
LEMMA StagingGuardType == StagingGuard \in SUBSET TempDirs /\ StagingGuard \in SUBSET Places
BY DEF StagingGuard, Places

LEMMA BundleDirType == BundleDir \in {"Staging", "SaveDir"} /\ BundleDir \in Places
BY DEF BundleDir, Places, TempDirs

LEMMA EnterOutputsType ==
    ASSUME TypeOK, NEW e \in Execs, EnterOutputs(e)
    PROVE  /\ pc' \in [Execs -> Labels]
           /\ proc' \in [Execs -> {"Off", "Ready", "Reading", "Children", "Ok", "Err"}]
           /\ snd' \in [Execs -> {"Off", "Ready", "Sending", "Ok", "Err"}]
BY DEF EnterOutputs, TypeOK, Labels

LEMMA InitType == Init => TypeOK
<1> SUFFICES ASSUME Init PROVE TypeOK
  OBVIOUS
<1>1. bound \in Bindings /\ retain \in BOOLEAN
  BY DEF Init, BindingsOf
<1>2. fs \in SUBSET Places
  BY DEF Init, Places
<1> QED
  BY <1>1, <1>2 DEF Init, TypeOK, Labels

LEMMA InputFailsType ==
    ASSUME TypeOK, NEW e \in Execs, NEW disk \in SUBSET Places, InputFails(e, disk)
    PROVE  TypeOK'
<1>1. stage[e] \in StageTable
  BY DEF TypeOK, StageTable
<1>2. stage' \in [Execs -> StageTable]
  BY <1>1, FailIntoType DEF InputFails, TypeOK, StageTable
<1>3. guards \in SUBSET TempDirs
  BY DEF TypeOK
<1> QED
  BY <1>2, <1>3, ReturnType DEF InputFails, TypeOK, StageTable, resultVars

LEMMA PhaseOneType ==
    ASSUME TypeOK, NEW e \in Execs, PhaseOne(e)
    PROVE  TypeOK'
<1> USE DEF resultVars, fileVars
<1>0. /\ stage[e] \in StageTable
      /\ fs \in SUBSET Places /\ guards \in SUBSET TempDirs
      /\ "Succeeded" \in Statuses /\ "Failed" \in Statuses /\ "Blocked" \in Statuses
  BY DEF TypeOK, StageTable, Statuses
<1>1. CASE Begin(e)
  <2>1. InputStage(JobOf(e)) \in Stages
    BY DEF InputStage, Stages
  <2> QED
    BY <1>1, <2>1 DEF Begin, TypeOK, Labels
<1>2. CASE ResolveFails(e) \/ WriteFails(e) \/ OpenFails(e)
  <2>1. \E disk \in SUBSET Places : InputFails(e, disk)
    BY <1>2, <1>0 DEF ResolveFails, WriteFails, OpenFails
  <2> QED
    BY <2>1, InputFailsType
<1>3. CASE Resolve(e)
  BY <1>3 DEF Resolve, TypeOK, Labels, Places
<1>4. CASE Download(e)
  BY <1>4 DEF Download, TypeOK, Labels, Places, TempDirs
<1>5. CASE OpenDownload(e)
  BY <1>5 DEF OpenDownload, TypeOK, Labels, Places, TempDirs
<1>6. CASE Stream(e)
  <2>1. Record(stage[e], {"Collect"}, "Succeeded") \in StageTable
    BY <1>0, RecordType
  <2> QED
    BY <1>6, <2>1, EnterOutputsType DEF Stream, TypeOK, StageTable
<1>7. CASE StreamBadSelection(e)
  <2>1. Record(Record(Record(stage[e], {"Collect"}, "Succeeded"), {"Process"}, "Failed"), {"Export"}, "Blocked")
          \in StageTable
    BY <1>0, RecordType
  <2> QED
    BY <1>7, <1>0, <2>1, ReturnType DEF StreamBadSelection, TypeOK, StageTable
<1>8. CASE Load(e)
  <2>1. Record(stage[e], {"Load"}, "Succeeded") \in StageTable
    BY <1>0, RecordType
  <2>2. retained' \in Places \cup {"None"} /\ guards' \in SUBSET TempDirs
    BY <1>8 DEF Load, TypeOK
  <2> QED
    BY <1>8, <2>1, <2>2, EnterOutputsType DEF Load, TypeOK, StageTable
<1>9. CASE TempDirFails(e)
  <2>1. FailInto(e, stage[e], {"Save"}) \in StageTable
    BY <1>0, FailIntoType
  <2> QED
    BY <1>9, <1>0, <2>1, ReturnType DEF TempDirFails, TypeOK, StageTable
<1>10. CASE SetupFails(e)
  <2>1. FailInto(e, stage[e], {"Save"}) \in StageTable /\ FailInto(e, stage[e], {"Collect"}) \in StageTable
    BY <1>0, FailIntoType
  <2>2. stage' \in [Execs -> StageTable]
    BY <1>10, <2>1 DEF SetupFails, TypeOK, StageTable
  <2>3. started' \in [Execs -> SUBSET Stages]
    BY <1>10 DEF SetupFails, TypeOK, Stages
  <2>4. fs \cup StagingGuard \in SUBSET Places /\ guards \cup StagingGuard \in SUBSET TempDirs
    BY <1>0, StagingGuardType
  <2>5. /\ pc' \in [Execs -> Labels] /\ fs' \in SUBSET Places /\ guards' \in SUBSET TempDirs
    BY <1>10, <2>4, ReturnType DEF SetupFails
  <2> QED
    BY <1>10, <2>2, <2>3, <2>5 DEF SetupFails, TypeOK, StageTable
<1>11. CASE StartCollect(e)
  <2>1. started' \in [Execs -> SUBSET Stages]
    BY <1>11 DEF StartCollect, TypeOK, Stages
  <2>2. fs' \in SUBSET Places /\ guards' \in SUBSET TempDirs
    BY <1>11, <1>0, StagingGuardType DEF StartCollect
  <2> QED
    BY <1>11, <2>1, <2>2 DEF StartCollect, TypeOK, Labels
<1>12. CASE CollectFails(e)
  <2>1. FailInto(e, stage[e], {"Collect", "Save"}) \in StageTable
    BY <1>0, FailIntoType
  <2> QED
    BY <1>12, <1>0, <2>1, ReturnType DEF CollectFails, TypeOK, StageTable
<1>13. CASE CollectSucceeds(e) \/ ReopenFails(e)
  <2>1. Collected(e) \in StageTable
    BY <1>0, RecordType DEF Collected
  <2>2. RetainSaved \in Places \cup {"None"}
    BY DEF RetainSaved, Places
  <2>3. fs \cup {BundleDir} \in SUBSET Places
    BY <1>0, BundleDirType
  <2>4. CASE CollectSucceeds(e)
    BY <2>4, <2>1, <2>2, <2>3, BundleDirType, EnterOutputsType DEF CollectSucceeds, TypeOK, StageTable
  <2>5. CASE ReopenFails(e)
    <3>1. RecordBlockedOutputs(JobOf(e), Collected(e)) \in StageTable
      BY <2>1, FailIntoType
    <3>2. /\ pc' \in [Execs -> Labels] /\ fs' \in SUBSET Places /\ guards' \in SUBSET TempDirs
      BY <2>5, <1>0, <2>3, ReturnType DEF ReopenFails
    <3> QED
      BY <2>5, <3>1, <3>2, <2>2 DEF ReopenFails, TypeOK, StageTable
  <2> QED
    BY <1>13, <2>4, <2>5
<1> QED
  BY <1>1, <1>2, <1>3, <1>4, <1>5, <1>6, <1>7, <1>8, <1>9, <1>10, <1>11, <1>12, <1>13 DEF PhaseOne

LEMMA OutputsType ==
    ASSUME TypeOK, NEW e \in Execs, Outputs(e)
    PROVE  TypeOK'
<1> USE DEF resultVars, fileVars
<1>1. CASE BadSelection(e)
  BY <1>1 DEF BadSelection, TypeOK
<1>2. CASE StartProcess(e)
  BY <1>2 DEF StartProcess, TypeOK, Stages
<1>3. CASE ProcessFails(e)
  BY <1>3 DEF ProcessFails, TypeOK
<1>4. CASE ProcessReports(e)
  BY <1>4 DEF ProcessReports, TypeOK
<1>5. CASE ChildrenDone(e)
  BY <1>5 DEF ChildrenDone, TypeOK
<1>6. CASE StartSend(e)
  BY <1>6 DEF StartSend, TypeOK, Stages
<1>7. CASE EndSend(e)
  BY <1>7 DEF EndSend, TypeOK
<1>8. CASE Join(e)
  <2>1. stage[e] \in StageTable /\ fs \in SUBSET Places /\ guards \in SUBSET TempDirs
    BY DEF TypeOK, StageTable
  <2>2. ApplySend(e, ApplyProcess(e, stage[e])) \in StageTable
    BY <2>1, ApplyType
  <2> QED
    BY <1>8, <2>1, <2>2, ReturnType DEF Join, TypeOK, StageTable
<1> QED
  BY <1>1, <1>2, <1>3, <1>4, <1>5, <1>6, <1>7, <1>8 DEF Outputs

LEMMA NextType == TypeOK /\ [Next]_vars => TypeOK'
<1> SUFFICES ASSUME TypeOK, [Next]_vars PROVE TypeOK'
  OBVIOUS
<1>1. CASE \E e \in Execs : Step(e)
  BY <1>1, PhaseOneType, OutputsType DEF Step
<1>2. CASE Cancel
  BY <1>2 DEF Cancel, TypeOK, Labels, resultVars
<1>3. CASE UNCHANGED vars
  BY <1>3 DEF vars, TypeOK, resultVars, fileVars
<1> QED
  BY <1>1, <1>2, <1>3 DEF Next

\* Type correctness, for every set of included diagnostics: in particular the
\* drop guards only ever own temporary directories.
THEOREM TypeCorrect == Spec => []TypeOK
BY InitType, NextType, PTL DEF Spec

(***************************************************************************)
(* Bundle lifetime                                                         *)
(***************************************************************************)
\* What holds of the disk and the guards at each point of Root's execution.
\* The properties speak of the ends of the execution; these conjuncts say why
\* they hold: who owns each directory on the way there.
PathOnDisk ==
    /\ "User" \in fs
    /\ pc[Root] \in {"Start", "Resolving", "Writing"} => path = "None"
    /\ pc[Root] = "Writing" => Source(Root) = "ServiceLink" /\ "TempInput" \in fs
    /\ pc[Root] = "Resolved" => path # "Staging" /\ (job.input = "LoadFile" => path \in {"User", "None"})
    /\ pc[Root] \in {"Resolved", "Outputs"} => path \in fs \cup {"None"}

StagingOwned ==
    /\ "Staging" \in fs => "Staging" \in guards
    /\ pc[Root] = "Collecting" /\ job.save = "Temporary" => "Staging" \in guards
    /\ Over => guards = {}

RetainedUnguarded ==
    /\ pc[Root] \in {"Start", "Resolving", "Writing", "Resolved", "Collecting"} => retained = "None"
    /\ retained # "None" => retained \in fs \ guards

\* An included diagnostic is a nested Load: it neither downloads nor collects.
ChildrenOnlyLoad == \A c \in Children : pc[c] \notin {"Writing", "Collecting"}

BundleInv == TypeOK /\ PathOnDisk /\ StagingOwned /\ RetainedUnguarded /\ ChildrenOnlyLoad

LEMMA ExecsType == Root \in Execs /\ Children \subseteq Execs
BY DEF Execs

\* A child owns no directory: its steps leave Root's files and control alone.
LEMMA ChildStep ==
    ASSUME TypeOK, ChildrenOnlyLoad, NEW e \in Children, Step(e)
    PROVE  /\ UNCHANGED <<job, bound, path, retained, fs, guards>>
           /\ pc'[Root] = pc[Root]
           /\ ChildrenOnlyLoad'
<1> USE DEF At, resultVars, fileVars
<1>0. e # Root /\ e \in Execs /\ Root \in Execs /\ pc \in [Execs -> Labels]
  BY RootAssumption, ExecsType DEF TypeOK
<1>1. ~IsCollect(JobOf(e)) /\ ~Streaming(e) /\ ~Downloads(e)
  BY <1>0 DEF JobOf, ChildJob, IsCollect, CollectInputs, Streaming, ExecutionMode, Downloads, Source
<1>2. pc[e] # "Writing" /\ pc[e] # "Collecting"
  BY DEF ChildrenOnlyLoad
<1>3. ASSUME Return(e, fs, guards)
      PROVE  UNCHANGED <<fs, guards>> /\ pc'[Root] = pc[Root] /\ ChildrenOnlyLoad'
  BY <1>0, <1>3, ExecsType DEF Return, ChildrenOnlyLoad
<1>4. ASSUME EnterOutputs(e)
      PROVE  pc'[Root] = pc[Root] /\ ChildrenOnlyLoad'
  BY <1>0, <1>4, ExecsType DEF EnterOutputs, ChildrenOnlyLoad
<1>5. CASE PhaseOne(e)
  <2>1. ~WriteFails(e) /\ ~OpenFails(e) /\ ~OpenDownload(e) /\ ~Download(e)
    BY <1>1, <1>2 DEF WriteFails, OpenFails, OpenDownload, Download
  <2>2. ~Stream(e) /\ ~StreamBadSelection(e) /\ ~TempDirFails(e) /\ ~SetupFails(e) /\ ~StartCollect(e)
    BY <1>1 DEF Stream, StreamBadSelection, TempDirFails, SetupFails, StartCollect, Staged
  <2>3. ~CollectFails(e) /\ ~CollectSucceeds(e) /\ ~ReopenFails(e)
    BY <1>2 DEF CollectFails, CollectSucceeds, ReopenFails
  <2>4. CASE Begin(e)
    BY <2>4, <1>0, ExecsType DEF Begin, ChildrenOnlyLoad
  <2>5. CASE ResolveFails(e)
    BY <2>5, <1>3 DEF ResolveFails, InputFails
  <2>6. CASE Resolve(e)
    BY <2>6, <1>0, ExecsType DEF Resolve, ChildrenOnlyLoad
  <2>7. CASE Load(e)
    BY <2>7, <1>0, <1>4 DEF Load
  <2> QED
    BY <1>5, <2>1, <2>2, <2>3, <2>4, <2>5, <2>6, <2>7 DEF PhaseOne
<1>6. CASE Outputs(e)
  <2>1. CASE Join(e)
    BY <2>1, <1>3 DEF Join
  <2>2. CASE ~Join(e)
    <3>1. UNCHANGED <<job, bound, path, retained, fs, guards, pc>>
      BY <1>6, <2>2 DEF Outputs, BadSelection, StartProcess, ProcessFails, ProcessReports,
                        ChildrenDone, StartSend, EndSend
    <3> QED
      BY <3>1 DEF ChildrenOnlyLoad
  <2> QED
    BY <2>1, <2>2
<1> QED
  BY <1>5, <1>6 DEF Step

\* A child's step keeps every conjunct about Root's files.
LEMMA ChildStepInv ==
    ASSUME BundleInv, NEW e \in Children, Step(e)
    PROVE  (PathOnDisk /\ StagingOwned /\ RetainedUnguarded /\ ChildrenOnlyLoad)'
<1>1. /\ UNCHANGED <<job, bound, path, retained, fs, guards>>
      /\ pc'[Root] = pc[Root] /\ ChildrenOnlyLoad'
  BY ChildStep DEF BundleInv
<1> QED
  BY <1>1 DEF BundleInv, PathOnDisk, StagingOwned, RetainedUnguarded, Over, Source

\* Every return of Root: the guards leave with it and take the staging
\* directory along, and what is retained stays.
LEMMA RootReturn ==
    ASSUME BundleInv, NEW disk, NEW armed \in SUBSET TempDirs,
           Return(Root, disk, armed), UNCHANGED job,
           fs \subseteq disk, "Staging" \in disk => "Staging" \in armed,
           retained' # "None" => retained' \in disk \ armed
    PROVE  (PathOnDisk /\ StagingOwned /\ RetainedUnguarded /\ ChildrenOnlyLoad)'
<1>1. pc'[Root] = "Done" /\ fs' = disk \ armed /\ guards' = {}
  BY ExecsType DEF Return, BundleInv, TypeOK
<1>2. PathOnDisk'
  BY <1>1 DEF PathOnDisk, BundleInv, TempDirs
<1>3. StagingOwned'
  BY <1>1 DEF StagingOwned, BundleInv, Over
<1>4. RetainedUnguarded'
  BY <1>1 DEF RetainedUnguarded
<1>5. ChildrenOnlyLoad'
  BY RootAssumption, ExecsType DEF Return, ChildrenOnlyLoad, BundleInv, TypeOK
<1> QED
  BY <1>2, <1>3, <1>4, <1>5

\* Root's steps up to the join.
LEMMA RootInput ==
    ASSUME BundleInv, PhaseOne(Root), TypeOK'
    PROVE  (PathOnDisk /\ StagingOwned /\ RetainedUnguarded /\ ChildrenOnlyLoad)'
<1> DEFINE Goal == PathOnDisk /\ StagingOwned /\ RetainedUnguarded /\ ChildrenOnlyLoad
<1> USE DEF At, resultVars, fileVars
<1>0. /\ Root \in Execs /\ pc \in [Execs -> Labels]
      /\ fs \in SUBSET Places /\ guards \in SUBSET TempDirs /\ JobOf(Root) = job
      /\ retained \in Places \cup {"None"}
  BY ExecsType DEF BundleInv, TypeOK, JobOf
<1>1. \A c \in Children : c # Root /\ c \in Execs /\ pc[c] \notin {"Writing", "Collecting"}
  BY RootAssumption, ExecsType DEF BundleInv, ChildrenOnlyLoad
<1>2. ASSUME Return(Root, fs, guards), UNCHANGED <<job, retained>>
      PROVE  Goal'
  BY <1>0, <1>2, RootReturn DEF BundleInv, StagingOwned, RetainedUnguarded
<1>3. CASE Begin(Root)
  <2>1. pc'[Root] = "Resolving" /\ pc[Root] = "Start" /\ ChildrenOnlyLoad'
    BY <1>3, <1>0, <1>1 DEF Begin, ChildrenOnlyLoad
  <2> QED
    BY <1>3, <2>1 DEF Begin, BundleInv, PathOnDisk, StagingOwned, RetainedUnguarded, Over
<1>4. CASE ResolveFails(Root) \/ OpenFails(Root)
  BY <1>4, <1>2 DEF ResolveFails, OpenFails, InputFails
<1>5. CASE WriteFails(Root)
  <2>1. pc[Root] = "Writing" /\ retained = "None" /\ retained' = "None" /\ job' = job
    BY <1>5 DEF WriteFails, InputFails, BundleInv, RetainedUnguarded
  <2>2. pc'[Root] = "Done" /\ fs' = (fs \ {"TempInput"}) \ guards /\ guards' = {} /\ ChildrenOnlyLoad'
    BY <1>5, <1>0, <1>1 DEF WriteFails, InputFails, Return, ChildrenOnlyLoad
  <2> QED
    BY <2>1, <2>2, <1>0 DEF BundleInv, PathOnDisk, StagingOwned, RetainedUnguarded, Over, TempDirs
<1>6. CASE Resolve(Root)
  <2>1. pc'[Root] = "Resolved" /\ pc[Root] = "Resolving" /\ ChildrenOnlyLoad'
    BY <1>6, <1>0, <1>1 DEF Resolve, ChildrenOnlyLoad
  <2>2. path = "None" /\ path' \in {"None", "User"} /\ retained = "None"
    BY <1>6, <2>1 DEF Resolve, BundleInv, PathOnDisk, RetainedUnguarded
  <2>3. UNCHANGED <<job, bound, retained, fs, guards>>
    BY <1>6 DEF Resolve
  <2> QED
    BY <2>1, <2>2, <2>3 DEF BundleInv, PathOnDisk, StagingOwned, RetainedUnguarded, Over
<1>7. CASE Download(Root)
  <2>1. pc'[Root] = "Writing" /\ pc[Root] = "Resolving" /\ ChildrenOnlyLoad'
    BY <1>7, <1>0, <1>1 DEF Download, ChildrenOnlyLoad
  <2>2. Source(Root) = "ServiceLink" /\ Source(Root)' = Source(Root)
    BY <1>7 DEF Download, Downloads, Source
  <2>3. UNCHANGED <<job, path, retained, guards>> /\ fs' = fs \cup {"TempInput"}
    BY <1>7 DEF Download
  <2> QED
    BY <2>1, <2>2, <2>3 DEF BundleInv, PathOnDisk, StagingOwned, RetainedUnguarded, Over
<1>8. CASE OpenDownload(Root)
  <2>1. pc'[Root] = "Resolved" /\ pc[Root] = "Writing" /\ ChildrenOnlyLoad'
    BY <1>8, <1>0, <1>1 DEF OpenDownload, ChildrenOnlyLoad
  <2>2. job.input # "LoadFile"
    <3>1. job.input = "LoadFile" => Source(Root) = "File"
      BY DEF Source, StableSource
    <3>2. Source(Root) = "ServiceLink"
      BY <2>1 DEF BundleInv, PathOnDisk
    <3> QED
      BY <3>1, <3>2
  <2>3. UNCHANGED <<job, retained, fs>> /\ path' = "TempInput" /\ guards' = guards \cup {"TempInput"}
    BY <1>8 DEF OpenDownload
  <2> QED
    BY <2>1, <2>2, <2>3 DEF BundleInv, PathOnDisk, StagingOwned, RetainedUnguarded, Over
<1>9. CASE Stream(Root)
  <2>1. pc'[Root] = "Outputs" /\ pc[Root] = "Resolved" /\ ChildrenOnlyLoad'
    BY <1>9, <1>0, <1>1 DEF Stream, EnterOutputs, ChildrenOnlyLoad
  <2>2. UNCHANGED <<job, path, retained, fs, guards>>
    BY <1>9 DEF Stream
  <2> QED
    BY <2>1, <2>2 DEF BundleInv, PathOnDisk, StagingOwned, RetainedUnguarded, Over
<1>10. CASE StreamBadSelection(Root) \/ TempDirFails(Root) \/ CollectFails(Root)
  BY <1>10, <1>2 DEF StreamBadSelection, TempDirFails, CollectFails
<1>11. CASE SetupFails(Root)
  <2>1. pc[Root] = "Resolved" /\ retained = "None" /\ retained' = "None" /\ job' = job
    BY <1>11 DEF SetupFails, Staged, BundleInv, RetainedUnguarded
  <2>2. Return(Root, fs \cup StagingGuard, guards \cup StagingGuard)
    BY <1>11 DEF SetupFails
  <2> QED
    BY <2>1, <2>2, <1>0, StagingGuardType, RootReturn DEF BundleInv, StagingOwned
<1>12. CASE StartCollect(Root)
  <2>1. pc'[Root] = "Collecting" /\ pc[Root] = "Resolved" /\ ChildrenOnlyLoad'
    BY <1>12, <1>0, <1>1 DEF StartCollect, Staged, ChildrenOnlyLoad
  <2>2. /\ UNCHANGED <<job, path, retained>> /\ retained = "None"
        /\ fs' = fs \cup StagingGuard /\ guards' = guards \cup StagingGuard
    BY <1>12, <2>1 DEF StartCollect, BundleInv, RetainedUnguarded
  <2>3. job.save = "Temporary" => "Staging" \in StagingGuard
    BY DEF StagingGuard, BundleDir, TempDirs
  <2> QED
    BY <2>1, <2>2, <2>3 DEF BundleInv, PathOnDisk, StagingOwned, RetainedUnguarded, Over
<1>13. CASE CollectSucceeds(Root)
  <2>1. pc'[Root] = "Outputs" /\ pc[Root] = "Collecting" /\ ChildrenOnlyLoad'
    BY <1>13, <1>0, <1>1 DEF CollectSucceeds, EnterOutputs, ChildrenOnlyLoad
  <2>2. /\ UNCHANGED <<job, guards>> /\ fs' = fs \cup {BundleDir}
        /\ path' = BundleDir /\ retained' = RetainSaved
    BY <1>13 DEF CollectSucceeds
  <2>3. BundleDir = "Staging" => "Staging" \in guards
    BY <2>1 DEF BundleDir, BundleInv, StagingOwned
  <2>4. RetainSaved # "None" => RetainSaved = "SaveDir" /\ BundleDir = "SaveDir"
    BY DEF RetainSaved, BundleDir
  <2>5. "SaveDir" \notin guards
    BY <1>0 DEF TempDirs
  <2> QED
    BY <2>1, <2>2, <2>3, <2>4, <2>5 DEF BundleInv, PathOnDisk, StagingOwned, RetainedUnguarded, Over
<1>14. CASE ReopenFails(Root)
  <2>1. pc[Root] = "Collecting" /\ UNCHANGED job /\ retained' = RetainSaved
    BY <1>14 DEF ReopenFails
  <2>2. Return(Root, fs \cup {BundleDir}, guards)
    BY <1>14 DEF ReopenFails
  <2>3. BundleDir = "Staging" => "Staging" \in guards
    BY <2>1 DEF BundleDir, BundleInv, StagingOwned
  <2>4. RetainSaved # "None" => RetainSaved = "SaveDir" /\ BundleDir = "SaveDir"
    BY DEF RetainSaved, BundleDir
  <2>5. "SaveDir" \notin guards
    BY <1>0 DEF TempDirs
  <2> QED
    BY <2>1, <2>2, <2>3, <2>4, <2>5, <1>0, RootReturn DEF BundleInv, StagingOwned
<1>15. CASE Load(Root)
  <2>1. pc'[Root] = "Outputs" /\ pc[Root] = "Resolved" /\ ChildrenOnlyLoad'
    BY <1>15, <1>0, <1>1 DEF Load, EnterOutputs, ChildrenOnlyLoad
  <2>2. /\ UNCHANGED <<job, path, fs>>
        /\ retained' = IF retain \/ job.input = "LoadFile" THEN path ELSE "None"
        /\ guards' = IF retain THEN guards \ {"TempInput"} ELSE guards
    BY <1>15 DEF Load
  <2>3. path \in fs \cup {"None"} /\ path # "Staging" /\ (job.input = "LoadFile" => path \in {"User", "None"})
    BY <2>1 DEF BundleInv, PathOnDisk
  <2>4. retained' # "None" => retained' \in fs' \ guards'
    BY <2>2, <2>3, <1>0 DEF TempDirs
  <2> QED
    BY <2>1, <2>2, <2>3, <2>4 DEF BundleInv, PathOnDisk, StagingOwned, RetainedUnguarded, Over
<1> QED
  BY <1>3, <1>4, <1>5, <1>6, <1>7, <1>8, <1>9, <1>10, <1>11, <1>12, <1>13, <1>14, <1>15 DEF PhaseOne

LEMMA RootOutputs ==
    ASSUME BundleInv, Outputs(Root)
    PROVE  (PathOnDisk /\ StagingOwned /\ RetainedUnguarded /\ ChildrenOnlyLoad)'
<1> USE DEF resultVars, fileVars
<1>1. CASE Join(Root)
  <2>1. Return(Root, fs, guards) /\ UNCHANGED <<job, retained>> /\ guards \in SUBSET TempDirs
    BY <1>1 DEF Join, BundleInv, TypeOK
  <2> QED
    BY <2>1, RootReturn DEF BundleInv, StagingOwned, RetainedUnguarded
<1>2. CASE ~Join(Root)
  <2>1. UNCHANGED <<job, bound, path, retained, fs, guards, pc>>
    BY <1>2 DEF Outputs, BadSelection, StartProcess, ProcessFails, ProcessReports,
                ChildrenDone, StartSend, EndSend
  <2> QED
    BY <2>1 DEF BundleInv, PathOnDisk, StagingOwned, RetainedUnguarded, ChildrenOnlyLoad, Over, Source
<1> QED
  BY <1>1, <1>2

LEMMA BundleInvInductive == BundleInv /\ [Next]_vars => BundleInv'
<1> SUFFICES ASSUME BundleInv, [Next]_vars PROVE BundleInv'
  OBVIOUS
<1> USE DEF resultVars, fileVars
<1>1. TypeOK'
  BY NextType DEF BundleInv
<1>2. CASE \E e \in Execs : Step(e)
  <2>1. PICK e \in Execs : Step(e)
    BY <1>2
  <2>2. CASE e = Root
    BY <2>1, <2>2, <1>1, RootInput, RootOutputs DEF Step, BundleInv
  <2>3. CASE e \in Children
    BY <2>1, <2>3, <1>1, ChildStepInv DEF BundleInv
  <2> QED
    BY <2>2, <2>3 DEF Execs
<1>3. CASE Cancel
  <2>1. /\ pc'[Root] = "Dropped" /\ fs' = fs \ guards /\ guards' = {}
        /\ UNCHANGED <<job, path, retained>> /\ ChildrenOnlyLoad'
    BY <1>3, ExecsType, RootAssumption DEF Cancel, BundleInv, TypeOK, ChildrenOnlyLoad
  <2> QED
    BY <2>1, <1>1 DEF BundleInv, PathOnDisk, StagingOwned, RetainedUnguarded, Over, TypeOK, TempDirs
<1>4. CASE UNCHANGED vars
  BY <1>4, <1>1 DEF vars, BundleInv, PathOnDisk, StagingOwned, RetainedUnguarded, ChildrenOnlyLoad,
                    Over, Source
<1> QED
  BY <1>2, <1>3, <1>4 DEF Next

LEMMA BundleInvInitially == Init => BundleInv
<1> SUFFICES ASSUME Init PROVE BundleInv
  OBVIOUS
<1>1. TypeOK
  BY InitType
<1> QED
  BY <1>1, ExecsType DEF Init, BundleInv, PathOnDisk, StagingOwned, RetainedUnguarded, ChildrenOnlyLoad, Over

\* The inductive invariant holds throughout every execution.
THEOREM BundleInvariant == Spec => []BundleInv
BY BundleInvInitially, BundleInvInductive, PTL DEF Spec

\* For every set of included diagnostics: no directory is removed under a
\* Process, Send or child that reads it; a temporary Save never outlives its
\* execution; the retained path an outcome names is on disk.
THEOREM BundlesKept == Spec => []BundleLifetime
<1>1. BundleInv => BundleOutlivesReaders
  BY DEF BundleInv, PathOnDisk, BundleOutlivesReaders, Reading
<1>2. BundleInv => StagingRemoved
  BY DEF BundleInv, StagingOwned, StagingRemoved
<1>3. BundleInv => RetainedExists
  BY DEF BundleInv, RetainedUnguarded, RetainedExists
<1>4. BundleInv => BundleLifetime
  BY <1>1, <1>2, <1>3 DEF BundleLifetime
<1> QED
  BY <1>4, BundleInvariant, PTL

(***************************************************************************)
(* Recorded stages                                                         *)
(***************************************************************************)
Early == {"Start", "Resolving", "Writing", "Resolved", "Collecting"}
OutStages == {"Process", "Export", "Send"}

\* The stages that have to succeed before an output may run.
InStages(j) == {InputStage(j)} \cup (IF j.save # "None" THEN {"Save"} ELSE {})

NotRecorded(st) == \A s \in Stages : st[s] = "None"

\* What is recorded of a job j at each point c of its execution, with the futures
\* p and q of Process and Send: nothing before the input is there, the input's
\* stages while the outputs run, and in the end the outputs with whatever failed.
RecordedAt(j, c, st, begun, p, q) ==
    /\ \A s \in Stages \ SelectedStages(j) : st[s] = "None"
    /\ c \in Early => NotRecorded(st) /\ begun \cap OutStages = {}
    /\ c = "Collecting" => IsCollect(j) /\ j.save # "None"
    /\ c = "Outputs" => /\ \A s \in InStages(j) : st[s] = "Succeeded"
                        /\ \A s \in OutStages : st[s] = "None"
                        /\ p = "Off" <=> ~Processing(j)
                        /\ q = "Off" <=> ~j.send
    /\ c = "Done" => /\ \A s \in OutputStages(j) : st[s] # "None"
                     /\ \/ \A s \in InStages(j) : st[s] = "Succeeded"
                        \/ \E s \in Stages : st[s] = "Failed"
                     /\ IsCollect(j) \/ st["Load"] # "None"
                     /\ st["Process"] = "Succeeded" => p = "Ok"
                     /\ (\E s \in OutStages : st[s] = "Succeeded") => st[InputStage(j)] = "Succeeded"
    /\ (\E s \in {"Collect", "Load", "Save"} : st[s] = "Failed") => begun \cap OutStages = {}

RecordedSoFar(e) == RecordedAt(JobOf(e), pc[e], stage[e], started[e], proc[e], snd[e])

\* Where Send and a download stand; both are Root's alone.
SendAttempted ==
    /\ pc[Root] = "Writing" => ~IsCollect(job)
    /\ pc[Root] \in Early /\ IsCollect(job) => path = "None"
    /\ pc[Root] = "Outputs" /\ path # "None" /\ snd[Root] \in {"Sending", "Ok", "Err"} => "Send" \in started[Root]

DownloadTracked ==
    /\ IsCollect(job) => "TempInput" \notin fs
    /\ "TempInput" \in fs => path \in {"None", "TempInput"}
    /\ "TempInput" \in fs /\ path # "None" => "TempInput" \in guards \/ retained = "TempInput"
    /\ pc[Root] \in {"Start", "Resolving", "Collecting"} => "TempInput" \notin fs

\* The Process future has waited for the children it discovered.
ChildrenAwaited == proc[Root] = "Ok" => \A c \in kids : pc[c] = "Done"

StageInv ==
    /\ BundleInv
    /\ \A e \in Execs : RecordedSoFar(e)
    /\ SendAttempted /\ DownloadTracked /\ ChildrenAwaited
    /\ SendIndependent

LEMMA RecordFacts ==
    ASSUME NEW st, NEW S, NEW status, NEW s \in Stages
    PROVE  Record(st, S, status)[s] = IF s \in S /\ st[s] = "None" THEN status ELSE st[s]
BY DEF Record

\* What try_new guarantees and the executor relies on: only a collection is
\* saved, and one that is not saved is processed and not sent.
LEMMA AcceptedJob ==
    ASSUME NEW j \in Jobs
    PROVE  /\ j \in JobShapes
           /\ j.save # "None" => IsCollect(j)
           /\ IsCollect(j) /\ j.save = "None" => Processing(j) /\ ~j.send
<1> DEFINE broken == {i \in DOMAIN Checks(j) : Checks(j)[i].broken}
<1>1. DOMAIN Checks(j) = 1..9
  BY DEF Checks
<1>2. \A i \in 1..9 : Checks(j)[i].error # "Ok"
  BY DEF Checks
<1>3. TryNew(j) = "Ok"
  BY DEF Jobs
<1>4. ASSUME broken # {} PROVE \E i \in broken : \A k \in broken : i <= k
  <2>1. broken \subseteq 1..9
    BY <1>1
  <2> HIDE DEF broken
  <2>2. CASE 1 \in broken
    BY <2>1, <2>2
  <2>3. CASE 1 \notin broken /\ 2 \in broken
    BY <2>1, <2>3
  <2>4. CASE {1, 2} \cap broken = {} /\ 3 \in broken
    BY <2>1, <2>4
  <2>5. CASE {1, 2, 3} \cap broken = {} /\ 4 \in broken
    BY <2>1, <2>5
  <2>6. CASE {1, 2, 3, 4} \cap broken = {} /\ 5 \in broken
    BY <2>1, <2>6
  <2>7. CASE {1, 2, 3, 4, 5} \cap broken = {} /\ 6 \in broken
    BY <2>1, <2>7
  <2>8. CASE {1, 2, 3, 4, 5, 6} \cap broken = {} /\ 7 \in broken
    BY <2>1, <2>8
  <2>9. CASE {1, 2, 3, 4, 5, 6, 7} \cap broken = {}
    <3>1. \A i \in broken : i = 8 \/ i = 9
      BY <2>1, <2>9
    <3>2. CASE 8 \in broken
      BY <3>1, <3>2
    <3>3. CASE 8 \notin broken
      <4>1. PICK i \in broken : i = 9
        BY <3>1, <3>3, <1>4
      <4> QED
        BY <4>1, <3>1, <3>3
    <3> QED
      BY <3>2, <3>3
  <2> QED
    BY <2>2, <2>3, <2>4, <2>5, <2>6, <2>7, <2>8, <2>9
<1>5. broken = {}
  <2> SUFFICES ASSUME broken # {} PROVE FALSE
    OBVIOUS
  <2>1. (CHOOSE i \in broken : \A k \in broken : i <= k) \in broken
    BY <1>4
  <2> QED
    BY <2>1, <1>1, <1>2, <1>3 DEF TryNew
<1>6. ~Checks(j)[1].broken /\ ~Checks(j)[6].broken /\ ~Checks(j)[8].broken
  BY <1>1, <1>5
<1> QED
  BY <1>6 DEF Checks, Jobs, JobShapes

LEMMA SelectedType ==
    ASSUME NEW j \in JobShapes
    PROVE  /\ InputStage(j) \in InStages(j) /\ InStages(j) \subseteq SelectedStages(j)
           /\ OutputStages(j) \subseteq SelectedStages(j) /\ OutputStages(j) \subseteq OutStages
           /\ SelectedStages(j) = InStages(j) \cup OutputStages(j)
           /\ SelectedStages(j) \subseteq Stages /\ InStages(j) \cap OutStages = {}
           /\ InputStage(j) = IF IsCollect(j) THEN "Collect" ELSE "Load"
BY DEF InputStage, InStages, SelectedStages, OutputStages, OutStages, Stages

\* Every early return that records an input stage as failed and blocks the outputs.
LEMMA FailedEarly ==
    ASSUME NEW j \in JobShapes, NEW c \in Early, NEW st, NEW begun, NEW p, NEW q, NEW S, NEW new, NEW after,
           RecordedAt(j, c, st, begun, p, q),
           new = RecordBlockedOutputs(j, Record(st, S, "Failed")),
           S \subseteq InStages(j), S # {}, after \cap OutStages = {},
           IsCollect(j) \/ "Load" \in S
    PROVE  RecordedAt(j, "Done", new, after, p, q)
<1>1. NotRecorded(st)
  BY DEF RecordedAt
<1>2. \A s \in Stages : new[s] = IF s \in S THEN "Failed" ELSE IF s \in OutputStages(j) THEN "Blocked" ELSE "None"
  <2>1. \A s \in Stages : Record(st, S, "Failed")[s] = IF s \in S THEN "Failed" ELSE "None"
    BY <1>1, RecordFacts DEF NotRecorded
  <2> QED
    BY <2>1, RecordFacts DEF RecordBlockedOutputs
<1>3. S \subseteq Stages /\ S \subseteq SelectedStages(j) /\ OutputStages(j) \subseteq Stages /\ OutputStages(j) \subseteq SelectedStages(j)
  BY SelectedType
<1>4. \E s \in Stages : new[s] = "Failed"
  BY <1>2, <1>3
<1>5. "Process" \in OutStages /\ \A s \in OutStages : new[s] # "Succeeded"
  BY <1>2 DEF OutStages, Stages
<1> QED
  BY <1>1, <1>2, <1>3, <1>4, <1>5 DEF RecordedAt, Early, Stages

\* A collection in streaming mode whose selection is invalid.
LEMMA FailedStream ==
    ASSUME NEW j \in JobShapes, NEW st, NEW begun, NEW p, NEW q,
           RecordedAt(j, "Resolved", st, begun, p, q), ExecutionMode(j) = "Streaming", ~j.send
    PROVE  RecordedAt(j, "Done",
             Record(Record(Record(st, {"Collect"}, "Succeeded"), {"Process"}, "Failed"), {"Export"}, "Blocked"), begun, p, q)
<1> DEFINE new == Record(Record(Record(st, {"Collect"}, "Succeeded"), {"Process"}, "Failed"), {"Export"}, "Blocked")
<1>1. NotRecorded(st) /\ begun \cap OutStages = {}
  BY DEF RecordedAt, Early
<1>2. \A s \in Stages : new[s] = IF s = "Collect" THEN "Succeeded" ELSE IF s = "Process" THEN "Failed"
                                 ELSE IF s = "Export" THEN "Blocked" ELSE "None"
  BY <1>1, RecordFacts DEF NotRecorded
<1>3. IsCollect(j) /\ j.save = "None" /\ Processing(j)
  BY DEF ExecutionMode
<1>4. InStages(j) = {"Collect"} /\ OutputStages(j) = {"Process", "Export"}
  BY <1>3 DEF InStages, InputStage, OutputStages
<1>5. SelectedStages(j) = {"Collect", "Process", "Export"}
  BY <1>4, SelectedType
<1>6. \A s \in {"Collect", "Process", "Export", "Load", "Save"} : s \in Stages
  BY DEF Stages
<1>7. \A s \in Stages \ SelectedStages(j) : new[s] = "None"
  BY <1>2, <1>5
<1>8. "Process" \in OutStages /\ \A s \in OutStages : new[s] # "Succeeded"
  BY <1>2 DEF OutStages, Stages
<1> QED
  BY <1>1, <1>2, <1>3, <1>4, <1>6, <1>7, <1>8 DEF RecordedAt, Early

\* The input is there: its stages are recorded and the outputs start.
LEMMA InputRecorded ==
    ASSUME NEW j \in JobShapes, NEW c, NEW st, NEW begun, NEW p, NEW q, NEW r, NEW t, NEW S,
           RecordedAt(j, c, st, begun, p, q), c \in Early, S = InStages(j),
           r = "Off" <=> ~Processing(j), t = "Off" <=> ~j.send
    PROVE  RecordedAt(j, "Outputs", Record(st, S, "Succeeded"), begun, r, t)
<1> DEFINE new == Record(st, S, "Succeeded")
<1>1. NotRecorded(st) /\ begun \cap OutStages = {}
  BY DEF RecordedAt
<1>2. \A s \in Stages : new[s] = IF s \in InStages(j) THEN "Succeeded" ELSE "None"
  BY <1>1, RecordFacts DEF NotRecorded
<1>3. InStages(j) \subseteq SelectedStages(j) /\ InStages(j) \subseteq Stages /\ InStages(j) \cap OutStages = {}
  BY SelectedType
<1>4. OutStages \subseteq Stages
  BY DEF OutStages, Stages
<1> QED
  BY <1>1, <1>2, <1>3, <1>4 DEF RecordedAt, Early, Stages

\* The saved bundle cannot be opened again: the outputs are blocked.
LEMMA ReopenRecorded ==
    ASSUME NEW j \in JobShapes, NEW c, NEW st, NEW begun, NEW p, NEW q,
           RecordedAt(j, c, st, begun, p, q), c \in Early, IsCollect(j)
    PROVE  RecordedAt(j, "Done", RecordBlockedOutputs(j, Record(st, InStages(j), "Succeeded")), begun, p, q)
<1> DEFINE new == RecordBlockedOutputs(j, Record(st, InStages(j), "Succeeded"))
<1>1. NotRecorded(st) /\ begun \cap OutStages = {}
  BY DEF RecordedAt
<1>2. \A s \in Stages : new[s] = IF s \in InStages(j) THEN "Succeeded" ELSE IF s \in OutputStages(j) THEN "Blocked" ELSE "None"
  <2>1. \A s \in Stages : Record(st, InStages(j), "Succeeded")[s] = IF s \in InStages(j) THEN "Succeeded" ELSE "None"
    BY <1>1, RecordFacts DEF NotRecorded
  <2> QED
    BY <2>1, RecordFacts DEF RecordBlockedOutputs
<1>3. InStages(j) \subseteq SelectedStages(j) /\ InStages(j) \subseteq Stages
      /\ OutputStages(j) \subseteq SelectedStages(j) /\ OutputStages(j) \subseteq Stages
  BY SelectedType
<1>4. "Process" \in OutStages /\ \A s \in OutStages : new[s] # "Succeeded"
  <2>1. OutStages \cap InStages(j) = {} /\ OutStages \subseteq Stages /\ "Process" \in OutStages
    BY SelectedType DEF OutStages, Stages
  <2> QED
    BY <1>2, <2>1
<1> QED
  BY <1>1, <1>2, <1>3, <1>4 DEF RecordedAt, Early, Stages

\* What the join records: a result for each output that was selected.
LEMMA JoinFacts ==
    ASSUME NEW e, NEW st, RecordedAt(JobOf(e), "Outputs", st, started[e], proc[e], snd[e]),
           JobOf(e) \in JobShapes,
           NEW new, new = ApplySend(e, ApplyProcess(e, st))
    PROVE  /\ new["Send"] = IF snd[e] = "Off" THEN "None" ELSE IF snd[e] = "Err" THEN "Failed" ELSE "Succeeded"
           /\ new["Process"] = IF proc[e] = "Off" THEN "None" ELSE IF proc[e] = "Err" THEN "Failed" ELSE "Succeeded"
           /\ new["Export"] = IF proc[e] = "Off" THEN "None" ELSE ExportStatus(e)
           /\ \A s \in Stages \ OutStages : new[s] = st[s]
<1>1. st["Send"] = "None" /\ st["Process"] = "None" /\ st["Export"] = "None"
  BY DEF RecordedAt, OutStages
<1>2. "Send" \in Stages /\ "Process" \in Stages /\ "Export" \in Stages
  BY DEF Stages
<1> DEFINE mid == ApplyProcess(e, st)
<1>3. /\ mid["Process"] = IF proc[e] = "Off" THEN "None" ELSE IF proc[e] = "Err" THEN "Failed" ELSE "Succeeded"
      /\ mid["Export"] = IF proc[e] = "Off" THEN "None" ELSE ExportStatus(e)
      /\ mid["Send"] = "None"
      /\ \A s \in Stages \ OutStages : mid[s] = st[s]
  <2>1. CASE proc[e] = "Off"
    BY <2>1, <1>1 DEF ApplyProcess
  <2>2. CASE proc[e] # "Off"
    <3> DEFINE status == IF proc[e] = "Err" THEN "Failed" ELSE "Succeeded"
               first  == Record(st, {"Process"}, status)
    <3>1. mid = Record(first, {"Export"}, ExportStatus(e))
      BY <2>2 DEF ApplyProcess
    <3>2. \A s \in Stages : first[s] = IF s = "Process" THEN status ELSE st[s]
      BY <1>1, RecordFacts
    <3> HIDE DEF first
    <3>3. \A s \in Stages : mid[s] = IF s = "Export" THEN ExportStatus(e) ELSE first[s]
      BY <3>1, <3>2, <1>1, <1>2, RecordFacts
    <3> QED
      BY <3>2, <3>3, <2>2, <1>1, <1>2 DEF OutStages
  <2> QED
    BY <2>1, <2>2
<1> HIDE DEF mid
<1>4. \A s \in Stages : new[s] = IF s = "Send" /\ snd[e] # "Off" THEN IF snd[e] = "Err" THEN "Failed" ELSE "Succeeded" ELSE mid[s]
  <2>1. new = IF snd[e] = "Off" THEN mid ELSE Record(mid, {"Send"}, IF snd[e] = "Err" THEN "Failed" ELSE "Succeeded")
    BY DEF ApplySend, mid
  <2> QED
    BY <2>1, <1>3, RecordFacts
<1> QED
  BY <1>3, <1>4, <1>2 DEF OutStages

LEMMA JoinRecorded ==
    ASSUME NEW e, NEW st, RecordedAt(JobOf(e), "Outputs", st, started[e], proc[e], snd[e]),
           JobOf(e) \in JobShapes, proc[e] \in Settled
    PROVE  RecordedAt(JobOf(e), "Done", ApplySend(e, ApplyProcess(e, st)), started[e], proc[e], snd[e])
<1> DEFINE j == JobOf(e)
           new == ApplySend(e, ApplyProcess(e, st))
<1>0. j \in JobShapes
  OBVIOUS
<1> HIDE DEF new
<1>1. /\ new["Send"] = IF snd[e] = "Off" THEN "None" ELSE IF snd[e] = "Err" THEN "Failed" ELSE "Succeeded"
      /\ new["Process"] = IF proc[e] = "Off" THEN "None" ELSE IF proc[e] = "Err" THEN "Failed" ELSE "Succeeded"
      /\ new["Export"] = IF proc[e] = "Off" THEN "None" ELSE ExportStatus(e)
      /\ \A s \in Stages \ OutStages : new[s] = st[s]
  BY JoinFacts DEF new
<1>2. /\ \A s \in InStages(j) : st[s] = "Succeeded"
      /\ proc[e] = "Off" <=> ~Processing(j)
      /\ snd[e] = "Off" <=> ~j.send
      /\ \A s \in Stages \ SelectedStages(j) : st[s] = "None"
  BY DEF RecordedAt
<1> HIDE DEF j
<1>3. ExportStatus(e) # "None"
  BY DEF ExportStatus
<1>4. /\ InStages(j) \cap OutStages = {} /\ InStages(j) \subseteq Stages /\ InputStage(j) \in InStages(j)
      /\ InputStage(j) = IF IsCollect(j) THEN "Collect" ELSE "Load"
      /\ SelectedStages(j) = InStages(j) \cup OutputStages(j)
  BY <1>0, SelectedType
<1>5. \A s \in InStages(j) : new[s] = "Succeeded"
  BY <1>1, <1>2, <1>4
<1>6. \A s \in OutputStages(j) : new[s] # "None"
  BY <1>1, <1>2, <1>3 DEF OutputStages
<1>7. \A s \in OutStages \ OutputStages(j) : new[s] = "None"
  BY <1>1, <1>2 DEF OutputStages, OutStages
<1>8. \A s \in Stages \ SelectedStages(j) : new[s] = "None"
  BY <1>1, <1>2, <1>4, <1>7
<1>9. \A s \in {"Collect", "Load", "Save"} : new[s] # "Failed"
  <2>1. \A s \in {"Collect", "Load", "Save"} : s \in Stages \ OutStages
    BY DEF Stages, OutStages
  <2> QED
    BY <2>1, <1>4, <1>5, <1>8 DEF OutputStages, OutStages
<1>10. new["Process"] = "Succeeded" => proc[e] = "Ok"
  BY <1>1 DEF Settled
<1> QED
  BY <1>4, <1>5, <1>6, <1>8, <1>9, <1>10 DEF RecordedAt, Early, new, j

LEMMA JobsOf ==
    ASSUME TypeOK, NEW e \in Execs
    PROVE  /\ JobOf(e) \in JobShapes
           /\ JobOf(e).save # "None" => IsCollect(JobOf(e))
           /\ IsCollect(JobOf(e)) /\ JobOf(e).save = "None" => Processing(JobOf(e)) /\ ~JobOf(e).send
           /\ UNCHANGED job => JobOf(e)' = JobOf(e)
<1>1. CASE e = Root
  BY <1>1, AcceptedJob DEF JobOf, TypeOK
<1>2. CASE e # Root
  BY <1>2 DEF JobOf, ChildJob, JobShapes, Inputs, LoadInputs, CollectInputs, Saves, Processes, IsCollect
<1> QED
  BY <1>1, <1>2

\* A step of one execution leaves what the others recorded.
LEMMA OthersKeep ==
    ASSUME TypeOK, NEW e \in Execs, Step(e), NEW f \in Execs, f # e
    PROVE  /\ UNCHANGED job
           /\ pc'[f] = pc[f] /\ stage'[f] = stage[f] /\ started'[f] = started[f]
           /\ proc'[f] = proc[f] /\ snd'[f] = snd[f]
<1> USE DEF resultVars, fileVars, TypeOK
<1>1. CASE Begin(e) \/ Resolve(e) \/ Download(e) \/ OpenDownload(e) \/ StartCollect(e)
  BY <1>1 DEF Begin, Resolve, Download, OpenDownload, StartCollect
<1>2. CASE ResolveFails(e) \/ WriteFails(e) \/ OpenFails(e)
  BY <1>2 DEF ResolveFails, WriteFails, OpenFails, InputFails, Return
<1>3. CASE Stream(e) \/ Load(e) \/ CollectSucceeds(e)
  BY <1>3 DEF Stream, Load, CollectSucceeds, EnterOutputs
<1>4. CASE StreamBadSelection(e) \/ TempDirFails(e)
  BY <1>4 DEF StreamBadSelection, TempDirFails, Return
<1>5. CASE CollectFails(e) \/ ReopenFails(e)
  BY <1>5 DEF CollectFails, ReopenFails, Return
<1>6. CASE SetupFails(e)
  BY <1>6 DEF SetupFails, Return
<1>7. CASE Join(e)
  BY <1>7 DEF Join, Return
<1>8. CASE Outputs(e) /\ ~Join(e)
  BY <1>8 DEF Outputs, BadSelection, StartProcess, ProcessFails, ProcessReports, ChildrenDone, StartSend, EndSend
<1> QED
  BY <1>1, <1>2, <1>3, <1>4, <1>5, <1>6, <1>7, <1>8 DEF Step, PhaseOne, Outputs

\* Input resolution and collection record what RecordedAt says.
LEMMA PhaseOneRecorded ==
    ASSUME TypeOK, NEW e \in Execs, RecordedSoFar(e), PhaseOne(e)
    PROVE  RecordedSoFar(e)'
<1> DEFINE j == JobOf(e)
<1> USE DEF resultVars, fileVars, At
<1>0. /\ j \in JobShapes
      /\ j.save # "None" => IsCollect(j)
      /\ IsCollect(j) /\ j.save = "None" => Processing(j) /\ ~j.send
      /\ UNCHANGED job => j' = j
  BY JobsOf
<1>j. UNCHANGED job
  BY <1>0 DEF PhaseOne, Begin, ResolveFails, Resolve, Download, WriteFails, OpenFails, OpenDownload, InputFails,
              Stream, StreamBadSelection, Load, TempDirFails, SetupFails, StartCollect, CollectFails, CollectSucceeds, ReopenFails
<1>r. RecordedAt(j, pc[e], stage[e], started[e], proc[e], snd[e])
  BY DEF RecordedSoFar
<1>q. SUFFICES RecordedAt(j, pc'[e], stage'[e], started'[e], proc'[e], snd'[e])
  BY <1>0, <1>j DEF RecordedSoFar
<1>s. /\ InputStage(j) \in InStages(j) /\ InStages(j) \cap OutStages = {}
      /\ InputStage(j) = IF IsCollect(j) THEN "Collect" ELSE "Load"
  BY <1>0, SelectedType
<1>t. started[e] \cup {} = started[e]
  OBVIOUS
<1> HIDE DEF j
<1>1. CASE Begin(e)
  <2>1. /\ pc[e] = "Start" /\ pc'[e] = "Resolving" /\ started'[e] = started[e] \cup {InputStage(j)}
        /\ stage' = stage /\ proc' = proc /\ snd' = snd
    BY <1>1 DEF Begin, TypeOK, j
  <2> QED
    BY <2>1, <1>r, <1>s DEF RecordedAt, Early
<1>2. CASE ResolveFails(e) \/ WriteFails(e) \/ OpenFails(e)
  <2>1. pc[e] \in {"Resolving", "Writing"} /\ \E disk : InputFails(e, disk)
    BY <1>2 DEF ResolveFails, WriteFails, OpenFails
  <2>2. /\ pc'[e] = "Done" /\ stage'[e] = RecordBlockedOutputs(j, Record(stage[e], {InputStage(j)}, "Failed"))
        /\ started' = started /\ proc' = proc /\ snd' = snd
    BY <2>1 DEF InputFails, Return, FailInto, TypeOK, j
  <2>3. started'[e] \cap OutStages = {} /\ pc[e] \in Early
    BY <2>1, <2>2, <1>r DEF RecordedAt, Early
  <2> QED
    BY <2>2, <2>3, <1>0, <1>r, <1>s, FailedEarly
<1>3. CASE Resolve(e) \/ Download(e) \/ OpenDownload(e)
  <2>1. /\ pc[e] \in {"Resolving", "Writing"} /\ pc'[e] \in {"Resolved", "Writing"}
        /\ stage' = stage /\ started' = started /\ proc' = proc /\ snd' = snd
    BY <1>3 DEF Resolve, Download, OpenDownload, TypeOK
  <2> QED
    BY <2>1, <1>r DEF RecordedAt, Early
<1>4. CASE Stream(e)
  <2>1. pc[e] = "Resolved" /\ IsCollect(j) /\ j.save = "None"
    BY <1>4 DEF Stream, Streaming, ExecutionMode, j
  <2>2. /\ pc'[e] = "Outputs" /\ stage'[e] = Record(stage[e], {"Collect"}, "Succeeded") /\ started' = started
        /\ proc'[e] = "Off" <=> ~Processing(j)
        /\ snd'[e] = "Off" <=> ~j.send
    BY <1>4 DEF Stream, EnterOutputs, TypeOK, j
  <2>3. InStages(j) = {"Collect"}
    BY <2>1, <1>s DEF InStages
  <2> QED
    BY <2>1, <2>2, <2>3, <1>0, <1>r, InputRecorded DEF Early
<1>5. CASE StreamBadSelection(e)
  <2>1. pc[e] = "Resolved" /\ ExecutionMode(j) = "Streaming"
    BY <1>5 DEF StreamBadSelection, Streaming, j
  <2>2. /\ pc'[e] = "Done" /\ started' = started /\ proc' = proc /\ snd' = snd
        /\ stage'[e] = Record(Record(Record(stage[e], {"Collect"}, "Succeeded"), {"Process"}, "Failed"), {"Export"}, "Blocked")
    BY <1>5 DEF StreamBadSelection, Return, TypeOK
  <2>3. ~j.send
    BY <2>1, <1>0 DEF ExecutionMode
  <2> QED
    BY <2>1, <2>2, <2>3, <1>0, <1>r, FailedStream
<1>6. CASE Load(e)
  <2>1. pc[e] = "Resolved" /\ ~IsCollect(j)
    BY <1>6 DEF Load, j
  <2>2. /\ pc'[e] = "Outputs" /\ stage'[e] = Record(stage[e], {"Load"}, "Succeeded") /\ started' = started
        /\ proc'[e] = "Off" <=> ~Processing(j)
        /\ snd'[e] = "Off" <=> ~j.send
    BY <1>6 DEF Load, EnterOutputs, TypeOK, j
  <2>3. InStages(j) = {"Load"}
    BY <2>1, <1>0, <1>s DEF InStages
  <2> QED
    BY <2>1, <2>2, <2>3, <1>0, <1>r, InputRecorded DEF Early
<1>7. CASE TempDirFails(e) \/ SetupFails(e)
  <2>1. pc[e] = "Resolved" /\ IsCollect(j) /\ ~(j.save = "None" /\ Processing(j))
    BY <1>7 DEF TempDirFails, SetupFails, Staged, Streaming, ExecutionMode, j
  <2>2. j.save # "None"
    BY <2>1, <1>0
  <2>3. PICK S \in {{"Save"}, {"Collect"}} : \E more \in {{}, {"Save"}} :
          /\ stage'[e] = RecordBlockedOutputs(j, Record(stage[e], S, "Failed"))
          /\ pc'[e] = "Done" /\ started'[e] = started[e] \cup more /\ proc' = proc /\ snd' = snd
    <3>1. CASE TempDirFails(e)
      BY <3>1, <1>t DEF TempDirFails, FailInto, Return, TypeOK, j
    <3>2. CASE SetupFails(e)
      BY <3>2 DEF SetupFails, FailInto, Return, TypeOK, j
    <3> QED
      BY <1>7, <3>1, <3>2
  <2>4. S \subseteq InStages(j) /\ S # {}
    BY <2>1, <2>2, <2>3, <1>s DEF InStages
  <2>5. started'[e] \cap OutStages = {} /\ pc[e] \in Early
    BY <2>1, <2>3, <1>r DEF RecordedAt, Early, OutStages
  <2> QED
    BY <2>1, <2>3, <2>4, <2>5, <1>0, <1>r, FailedEarly
<1>8. CASE StartCollect(e)
  <2>1. /\ pc[e] = "Resolved" /\ IsCollect(j) /\ ~(j.save = "None" /\ Processing(j))
        /\ pc'[e] = "Collecting" /\ started'[e] = started[e] \cup {"Save"}
        /\ stage' = stage /\ proc' = proc /\ snd' = snd
    BY <1>8 DEF StartCollect, Staged, Streaming, ExecutionMode, TypeOK, j
  <2> QED
    BY <2>1, <1>0, <1>r DEF RecordedAt, Early, OutStages
<1>9. CASE CollectFails(e) \/ CollectSucceeds(e) \/ ReopenFails(e)
  <2>1. pc[e] = "Collecting" /\ IsCollect(j) /\ j.save # "None" /\ InStages(j) = {"Collect", "Save"}
    <3>1. pc[e] = "Collecting"
      BY <1>9 DEF CollectFails, CollectSucceeds, ReopenFails
    <3> QED
      BY <3>1, <1>r, <1>s DEF RecordedAt, InStages
  <2>2. CASE CollectFails(e)
    <3>1. /\ pc'[e] = "Done" /\ started' = started /\ proc' = proc /\ snd' = snd
          /\ stage'[e] = RecordBlockedOutputs(j, Record(stage[e], InStages(j), "Failed"))
      BY <2>1, <2>2 DEF CollectFails, FailInto, Return, TypeOK, j
    <3>2. started'[e] \cap OutStages = {} /\ pc[e] \in Early
      BY <2>1, <3>1, <1>r DEF RecordedAt, Early
    <3> QED
      BY <2>1, <3>1, <3>2, <1>0, <1>r, FailedEarly
  <2>3. CASE CollectSucceeds(e)
    <3>1. /\ pc'[e] = "Outputs" /\ stage'[e] = Record(stage[e], InStages(j), "Succeeded") /\ started' = started
          /\ proc'[e] = "Off" <=> ~Processing(j)
          /\ snd'[e] = "Off" <=> ~j.send
      BY <2>1, <2>3 DEF CollectSucceeds, Collected, EnterOutputs, TypeOK, j
    <3> QED
      BY <2>1, <3>1, <1>0, <1>r, InputRecorded DEF Early
  <2>4. CASE ReopenFails(e)
    <3>1. /\ pc'[e] = "Done" /\ started' = started /\ proc' = proc /\ snd' = snd
          /\ stage'[e] = RecordBlockedOutputs(j, Record(stage[e], InStages(j), "Succeeded"))
      BY <2>1, <2>4 DEF ReopenFails, Collected, Return, TypeOK, j
    <3> QED
      BY <2>1, <3>1, <1>0, <1>r, ReopenRecorded DEF Early
  <2> QED
    BY <1>9, <2>2, <2>3, <2>4
<1> QED
  BY <1>1, <1>2, <1>3, <1>4, <1>5, <1>6, <1>7, <1>8, <1>9 DEF PhaseOne

\* The outputs run without recording anything; the join records all of them.
LEMMA OutputsRecorded ==
    ASSUME TypeOK, NEW e \in Execs, RecordedSoFar(e), Outputs(e)
    PROVE  RecordedSoFar(e)'
<1> DEFINE j == JobOf(e)
<1> USE DEF resultVars, fileVars, At
<1>0. j \in JobShapes /\ (UNCHANGED job => j' = j)
  BY JobsOf
<1>r. RecordedAt(j, pc[e], stage[e], started[e], proc[e], snd[e]) /\ pc[e] = "Outputs" /\ UNCHANGED job
  BY DEF RecordedSoFar, Outputs, BadSelection, StartProcess, ProcessFails, ProcessReports, ChildrenDone,
         StartSend, EndSend, Join
<1>q. SUFFICES RecordedAt(j, pc'[e], stage'[e], started'[e], proc'[e], snd'[e])
  BY <1>0, <1>r DEF RecordedSoFar
<1>1. CASE Join(e)
  <2>1. /\ pc'[e] = "Done" /\ stage'[e] = ApplySend(e, ApplyProcess(e, stage[e]))
        /\ started' = started /\ proc' = proc /\ snd' = snd /\ proc[e] \in Settled
    BY <1>1 DEF Join, Return, TypeOK
  <2> HIDE DEF j
  <2>2. RecordedAt(j, "Done", ApplySend(e, ApplyProcess(e, stage[e])), started[e], proc[e], snd[e])
    BY <1>0, <1>r, <2>1, JoinRecorded DEF j
  <2> QED
    BY <2>1, <2>2
<1>2. CASE ~Join(e)
  <2>1. /\ pc' = pc /\ stage' = stage
        /\ proc[e] = "Off" <=> proc'[e] = "Off"
        /\ snd[e] = "Off" <=> snd'[e] = "Off"
    BY <1>2 DEF Outputs, BadSelection, StartProcess, ProcessFails, ProcessReports, ChildrenDone, StartSend, EndSend, TypeOK
  <2>2. \A s \in {"Collect", "Load", "Save"} : stage[e][s] # "Failed"
    <3>1. \A s \in {"Collect", "Load", "Save"} : s \in Stages \ OutStages
      BY DEF Stages, OutStages
    <3>2. SelectedStages(j) = InStages(j) \cup OutputStages(j) /\ OutputStages(j) \subseteq OutStages
      BY <1>0, SelectedType
    <3> QED
      BY <1>r, <3>1, <3>2 DEF RecordedAt
  <2> QED
    BY <1>r, <2>1, <2>2 DEF RecordedAt, Early
<1> QED
  BY <1>1, <1>2

LEMMA StepRecorded ==
    ASSUME TypeOK, \A f \in Execs : RecordedSoFar(f), NEW e \in Execs, Step(e)
    PROVE  (\A f \in Execs : RecordedSoFar(f))'
<1> SUFFICES ASSUME NEW f \in Execs PROVE RecordedSoFar(f)'
  BY DEF Execs
<1>1. CASE f = e
  BY <1>1, PhaseOneRecorded, OutputsRecorded DEF Step
<1>2. CASE f # e
  <2>1. JobOf(f)' = JobOf(f) /\ RecordedSoFar(f)
    BY <1>2, OthersKeep, JobsOf
  <2> QED
    BY <1>2, <2>1, OthersKeep DEF RecordedSoFar
<1> QED
  BY <1>1, <1>2


Tracked == SendAttempted /\ DownloadTracked /\ ChildrenAwaited /\ SendIndependent

\* A child's step leaves all that is Root's alone, and while a child can take a
\* step Root's Process future has not completed.
LEMMA ChildTracked ==
    ASSUME StageInv, NEW e \in Children, Step(e)
    PROVE  Tracked'
<1>1. /\ UNCHANGED <<job, bound, path, retained, fs, guards>> /\ pc'[Root] = pc[Root]
      /\ stage'[Root] = stage[Root] /\ started'[Root] = started[Root]
      /\ proc'[Root] = proc[Root] /\ snd'[Root] = snd[Root]
  <2>1. e # Root /\ e \in Execs
    BY RootAssumption, ExecsType
  <2> QED
    BY <2>1, ChildStep, OthersKeep, ExecsType DEF StageInv, BundleInv
<1>2. proc[Root] = "Children"
  <2>1. e # Root
    BY RootAssumption
  <2>2. Live(e)
    BY DEF Step, PhaseOne, Outputs, At, Begin, ResolveFails, Resolve, Download, WriteFails, OpenFails,
           OpenDownload, Stream, StreamBadSelection, Load, TempDirFails, SetupFails, Staged, StartCollect, CollectFails,
           CollectSucceeds, ReopenFails, BadSelection, StartProcess, ProcessFails, ProcessReports, ChildrenDone,
           StartSend, EndSend, Join
  <2> QED
    BY <2>1, <2>2 DEF Live
<1> QED
  BY <1>1, <1>2 DEF StageInv, Tracked, SendAttempted, DownloadTracked, ChildrenAwaited, SendIndependent

\* Root's own steps leave the children where they are.
LEMMA RootAwaits ==
    ASSUME StageInv, Step(Root)
    PROVE  ChildrenAwaited'
<1> USE DEF resultVars, fileVars
<1>1. \A c \in Children : pc'[c] = pc[c]
  <2>1. \A c \in Children : c \in Execs /\ c # Root
    BY RootAssumption, ExecsType
  <2> QED
    BY <2>1, ExecsType, OthersKeep DEF StageInv, BundleInv
<1>2. kids \subseteq Children /\ proc \in [Execs -> {"Off", "Ready", "Reading", "Children", "Ok", "Err"}]
      /\ Root \in Execs
  BY ExecsType DEF StageInv, BundleInv, TypeOK
<1>3. CASE ChildrenDone(Root)
  BY <1>1, <1>2, <1>3 DEF ChildrenDone, ChildrenAwaited
<1>4. CASE ~ChildrenDone(Root)
  <2>1. \/ proc'[Root] \in {"Ready", "Off", "Err", "Reading", "Children"}
        \/ proc'[Root] = proc[Root] /\ kids' = kids
    <3>1. CASE PhaseOne(Root)
      BY <3>1, <1>2 DEF PhaseOne, Begin, ResolveFails, Resolve, Download, WriteFails, OpenFails, OpenDownload, InputFails,
                Stream, StreamBadSelection, Load, TempDirFails, SetupFails, StartCollect, CollectFails, CollectSucceeds,
                ReopenFails, EnterOutputs
    <3>2. CASE Outputs(Root)
      BY <3>2, <1>2, <1>4 DEF Outputs, BadSelection, StartProcess, ProcessFails, ProcessReports, StartSend, EndSend, Join
    <3> QED
      BY <3>1, <3>2 DEF Step
  <2> QED
    BY <2>1, <1>1, <1>2 DEF StageInv, ChildrenAwaited
<1> QED
  BY <1>3, <1>4

\* A return of Root before the outputs ran: no bundle to send is left behind.
LEMMA RootReturnTracked ==
    ASSUME StageInv, NEW disk, NEW armed, Return(Root, disk, armed), UNCHANGED <<job, path, started, snd>>,
           "TempInput" \in disk => "TempInput" \in fs, guards \subseteq armed,
           retained' = retained \/ IsCollect(job), job.send => path = "None"
    PROVE  (SendAttempted /\ DownloadTracked /\ SendIndependent)'
<1>1. pc'[Root] = "Done" /\ fs' = disk \ armed /\ guards' = {}
  BY ExecsType DEF Return, StageInv, BundleInv, TypeOK
<1>2. IsCollect(job)' = IsCollect(job)
  BY DEF IsCollect
<1>3. SendAttempted' /\ SendIndependent'
  BY <1>1, <1>2 DEF SendAttempted, SendIndependent, Early
<1>4. DownloadTracked'
  BY <1>1, <1>2 DEF StageInv, DownloadTracked
<1> QED
  BY <1>3, <1>4


LEMMA RootInputTracked ==
    ASSUME StageInv, PhaseOne(Root)
    PROVE  (SendAttempted /\ DownloadTracked /\ SendIndependent)'
<1> DEFINE Goal == SendAttempted /\ DownloadTracked /\ SendIndependent
<1> USE DEF At, resultVars, fileVars
<1>0. /\ Root \in Execs /\ pc \in [Execs -> Labels] /\ snd \in [Execs -> {"Off", "Ready", "Sending", "Ok", "Err"}]
      /\ guards \in SUBSET TempDirs /\ JobOf(Root) = job
  BY ExecsType DEF StageInv, BundleInv, TypeOK, JobOf
<1>1. /\ PathOnDisk /\ RetainedUnguarded /\ SendAttempted /\ DownloadTracked
      /\ RecordedAt(job, pc[Root], stage[Root], started[Root], proc[Root], snd[Root])
  BY <1>0 DEF StageInv, BundleInv, RecordedSoFar
<1>2. /\ job.save # "None" => IsCollect(job)
      /\ IsCollect(job) /\ job.save = "None" => ~job.send
      /\ UNCHANGED job => IsCollect(job)' = IsCollect(job)
  BY <1>0, JobsOf DEF StageInv, BundleInv, IsCollect
<1>3. "TempInput" \notin StagingGuard /\ BundleDir # "TempInput"
  BY BundleDirType DEF StagingGuard
<1>4. ASSUME pc[Root] \in Early, IsCollect(job) \/ pc[Root] \in {"Resolving", "Writing"}
      PROVE  path = "None"
  BY <1>1, <1>4 DEF PathOnDisk, SendAttempted
<1>5. ASSUME IsCollect(job) PROVE "TempInput" \notin fs
  BY <1>1, <1>5 DEF DownloadTracked
<1>6. CASE Begin(Root)
  <2>1. /\ pc[Root] = "Start" /\ pc'[Root] = "Resolving"
        /\ UNCHANGED <<job, path, retained, fs, guards, snd, stage>>
    BY <1>6, <1>0 DEF Begin
  <2> QED
    BY <2>1, <1>1, <1>2 DEF SendAttempted, DownloadTracked, SendIndependent, Early
<1>7. CASE ResolveFails(Root) \/ WriteFails(Root) \/ OpenFails(Root)
  <2>1. PICK disk \in {fs, fs \ {"TempInput"}} : InputFails(Root, disk) /\ pc[Root] \in {"Resolving", "Writing"}
    BY <1>7 DEF ResolveFails, WriteFails, OpenFails
  <2>2. path = "None"
    BY <2>1, <1>4 DEF Early
  <2> QED
    BY <2>1, <2>2, RootReturnTracked DEF InputFails
<1>8. CASE Resolve(Root)
  <2>1. /\ pc[Root] = "Resolving" /\ pc'[Root] = "Resolved"
        /\ UNCHANGED <<job, retained, fs, guards, snd, stage>>
        /\ path' = IF Source(Root) = "File" THEN "User" ELSE path
    BY <1>8, <1>0 DEF Resolve
  <2>2. "TempInput" \notin fs /\ path = "None"
    BY <2>1, <1>1, <1>4 DEF DownloadTracked, Early
  <2>3. IsCollect(job) => Source(Root) # "File"
    BY <1>0, ExecsType DEF Source, StableSource, IsCollect, CollectInputs, StageInv, BundleInv, TypeOK, Bindings
  <2> QED
    BY <2>1, <2>2, <2>3, <1>2 DEF SendAttempted, DownloadTracked, SendIndependent, Early
<1>9. CASE Download(Root)
  <2>1. /\ pc[Root] = "Resolving" /\ pc'[Root] = "Writing" /\ ~IsCollect(job)
        /\ UNCHANGED <<job, path, retained, guards, snd, stage>> /\ fs' = fs \cup {"TempInput"}
    BY <1>9, <1>0 DEF Download, Downloads, MaterializeRemote
  <2>2. path = "None"
    BY <2>1, <1>4 DEF Early
  <2> QED
    BY <2>1, <2>2, <1>2 DEF SendAttempted, DownloadTracked, SendIndependent
<1>10. CASE OpenDownload(Root)
  <2>1. /\ pc[Root] = "Writing" /\ pc'[Root] = "Resolved"
        /\ UNCHANGED <<job, retained, fs, snd, stage>> /\ path' = "TempInput" /\ guards' = guards \cup {"TempInput"}
    BY <1>10, <1>0 DEF OpenDownload
  <2>2. ~IsCollect(job)
    BY <2>1, <1>1 DEF SendAttempted
  <2> QED
    BY <2>1, <2>2, <1>2 DEF SendAttempted, DownloadTracked, SendIndependent
<1>11. CASE Stream(Root) \/ Load(Root)
  <2>1. /\ pc[Root] = "Resolved" /\ pc'[Root] = "Outputs" /\ UNCHANGED <<job, path, fs>>
        /\ snd'[Root] \in {"Ready", "Off"}
    BY <1>11, <1>0 DEF Stream, Load, EnterOutputs
  <2>2. retained = "None"
    BY <2>1, <1>1 DEF RetainedUnguarded
  <2>3. "TempInput" \in guards /\ path # "None" /\ "TempInput" \in fs
          => "TempInput" \in guards' \/ retained' = "TempInput"
    BY <1>11, <1>1 DEF Stream, Load, DownloadTracked
  <2> QED
    BY <2>1, <2>2, <2>3, <1>1, <1>2 DEF SendAttempted, DownloadTracked, SendIndependent, Early
<1>12. CASE StreamBadSelection(Root) \/ TempDirFails(Root) \/ SetupFails(Root) \/ CollectFails(Root) \/ ReopenFails(Root)
  <2>1. IsCollect(job) /\ pc[Root] \in Early
    BY <1>12, <1>0, <1>1 DEF StreamBadSelection, TempDirFails, SetupFails, CollectFails, ReopenFails, Staged,
            Streaming, ExecutionMode, RecordedAt, Early
  <2>2. path = "None" /\ "TempInput" \notin fs
    BY <2>1, <1>4, <1>5
  <2>3. PICK disk \in SUBSET (fs \cup StagingGuard \cup {BundleDir}), armed \in {guards, guards \cup StagingGuard} :
           Return(Root, disk, armed)
    BY <1>12 DEF StreamBadSelection, TempDirFails, SetupFails, CollectFails, ReopenFails
  <2>4. UNCHANGED <<job, path>> /\ pc'[Root] = "Done" /\ fs' = disk \ armed
    BY <1>12, <2>3, <1>0 DEF Return, StreamBadSelection, TempDirFails, SetupFails, CollectFails, ReopenFails
  <2> QED
    BY <2>1, <2>2, <2>3, <2>4, <1>2, <1>3 DEF SendAttempted, DownloadTracked, SendIndependent, Early
<1>13. CASE StartCollect(Root)
  <2>1. /\ IsCollect(job) /\ pc[Root] = "Resolved" /\ pc'[Root] = "Collecting"
        /\ UNCHANGED <<job, path>> /\ fs' = fs \cup StagingGuard
    BY <1>13, <1>0 DEF StartCollect, Staged
  <2>2. path = "None" /\ "TempInput" \notin fs
    BY <2>1, <1>4, <1>5 DEF Early
  <2> QED
    BY <2>1, <2>2, <1>2, <1>3 DEF SendAttempted, DownloadTracked, SendIndependent, Early
<1>14. CASE CollectSucceeds(Root)
  <2>1. /\ IsCollect(job) /\ pc'[Root] = "Outputs" /\ snd'[Root] \in {"Ready", "Off"}
        /\ UNCHANGED job /\ fs' = fs \cup {BundleDir}
    BY <1>14, <1>0, <1>1 DEF CollectSucceeds, EnterOutputs, RecordedAt
  <2> QED
    BY <2>1, <1>2, <1>3, <1>5 DEF SendAttempted, DownloadTracked, SendIndependent, Early
<1> QED
  BY <1>6, <1>7, <1>8, <1>9, <1>10, <1>11, <1>12, <1>13, <1>14 DEF PhaseOne

LEMMA RootOutputsTracked ==
    ASSUME StageInv, Outputs(Root)
    PROVE  (SendAttempted /\ DownloadTracked /\ SendIndependent)'
<1> USE DEF At, resultVars, fileVars
<1>0. /\ Root \in Execs /\ pc \in [Execs -> Labels] /\ snd \in [Execs -> {"Off", "Ready", "Sending", "Ok", "Err"}]
      /\ started \in [Execs -> SUBSET Stages] /\ stage \in [Execs -> StageTable] /\ JobOf(Root) = job
  BY ExecsType DEF StageInv, BundleInv, TypeOK, JobOf, StageTable
<1>1. /\ SendAttempted /\ DownloadTracked
      /\ RecordedAt(JobOf(Root), pc[Root], stage[Root], started[Root], proc[Root], snd[Root])
  BY <1>0 DEF StageInv, RecordedSoFar
<1>2. /\ JobOf(Root) \in JobShapes /\ UNCHANGED <<job, path, retained>> /\ pc[Root] = "Outputs"
      /\ IsCollect(job)' = IsCollect(job)
  BY <1>0, JobsOf DEF StageInv, BundleInv, IsCollect, Outputs, BadSelection, StartProcess, ProcessFails, ProcessReports,
         ChildrenDone, StartSend, EndSend, Join
<1>3. CASE Join(Root)
  <2>1. /\ pc'[Root] = "Done" /\ fs' = fs \ guards /\ started' = started /\ snd[Root] \in Settled
        /\ stage'[Root] = ApplySend(Root, ApplyProcess(Root, stage[Root]))
    BY <1>3, <1>0 DEF Join, Return
  <2>2. /\ snd[Root] = "Off" <=> ~job.send
        /\ stage'[Root]["Send"] = IF snd[Root] = "Off" THEN "None" ELSE IF snd[Root] = "Err" THEN "Failed" ELSE "Succeeded"
    BY <1>0, <1>1, <1>2, <2>1, JoinFacts DEF RecordedAt
  <2>3. SendIndependent'
    BY <1>1, <1>2, <2>1, <2>2 DEF SendIndependent, SendAttempted, Settled
  <2> QED
    BY <1>1, <1>2, <2>1, <2>3 DEF SendAttempted, DownloadTracked, Early
<1>4. CASE ~Join(Root)
  <2>1. UNCHANGED <<fs, guards, pc>>
    BY <1>4 DEF Outputs, BadSelection, StartProcess, ProcessFails, ProcessReports, ChildrenDone, StartSend, EndSend
  <2>2. path # "None" /\ snd'[Root] \in {"Sending", "Ok", "Err"} => "Send" \in started'[Root]
    <3>1. CASE StartSend(Root)
      BY <3>1, <1>0 DEF StartSend
    <3>2. CASE EndSend(Root)
      BY <3>2, <1>0, <1>1, <1>2 DEF EndSend, SendAttempted
    <3>3. CASE ~StartSend(Root) /\ ~EndSend(Root)
      <4>1. snd' = snd /\ started[Root] \subseteq started'[Root]
        BY <3>3, <1>4, <1>0 DEF Outputs, BadSelection, StartProcess, ProcessFails, ProcessReports, ChildrenDone
      <4> QED
        BY <4>1, <1>1, <1>2 DEF SendAttempted
    <3> QED
      BY <3>1, <3>2, <3>3
  <2> QED
    BY <1>1, <1>2, <2>1, <2>2 DEF SendAttempted, DownloadTracked, SendIndependent, Early
<1> QED
  BY <1>3, <1>4


LEMMA StageInvInductive == StageInv /\ [Next]_vars => StageInv'
<1> SUFFICES ASSUME StageInv, [Next]_vars PROVE StageInv'
  OBVIOUS
<1> USE DEF resultVars, fileVars
<1>1. BundleInv'
  BY BundleInvInductive DEF StageInv
<1>2. CASE \E e \in Execs : Step(e)
  <2>1. PICK e \in Execs : Step(e)
    BY <1>2
  <2>2. (\A f \in Execs : RecordedSoFar(f))'
    BY <2>1, StepRecorded DEF StageInv, BundleInv
  <2>3. Tracked'
    <3>1. CASE e = Root
      BY <2>1, <3>1, RootInputTracked, RootOutputsTracked, RootAwaits DEF Step, Tracked
    <3>2. CASE e \in Children
      BY <2>1, <3>2, ChildTracked
    <3> QED
      BY <3>1, <3>2 DEF Execs
  <2> QED
    BY <1>1, <2>2, <2>3 DEF StageInv, Tracked
<1>3. CASE Cancel
  <2>1. /\ UNCHANGED <<job, path, retained, proc, snd, started, stage, kids>>
        /\ pc'[Root] = "Dropped" /\ fs' = fs \ guards /\ pc[Root] # "Done"
        /\ \A f \in Execs : f # Root => pc'[f] = pc[f]
    BY <1>3, ExecsType DEF Cancel, StageInv, BundleInv, TypeOK
  <2>2. (\A f \in Execs : RecordedSoFar(f))'
    <3> SUFFICES ASSUME NEW f \in Execs PROVE RecordedSoFar(f)'
      BY DEF Execs
    <3>1. RecordedSoFar(f) /\ JobOf(f)' = JobOf(f)
      BY <2>1 DEF StageInv, JobOf
    <3> QED
      BY <2>1, <3>1 DEF RecordedSoFar, RecordedAt, Early
  <2>3. SendAttempted' /\ SendIndependent'
    BY <2>1 DEF SendAttempted, SendIndependent, Early
  <2>4. DownloadTracked'
    <3>1. IsCollect(job)' = IsCollect(job)
      BY <2>1 DEF IsCollect
    <3> QED
      BY <2>1, <3>1 DEF StageInv, DownloadTracked
  <2>5. ChildrenAwaited'
    <3>1. \A c \in kids : c # Root /\ c \in Execs
      BY RootAssumption DEF StageInv, BundleInv, TypeOK, Execs
    <3> QED
      BY <2>1, <3>1 DEF StageInv, ChildrenAwaited
  <2> QED
    BY <1>1, <2>2, <2>3, <2>4, <2>5 DEF StageInv
<1>4. CASE UNCHANGED vars
  <2>1. (\A f \in Execs : RecordedSoFar(f))'
    BY <1>4 DEF vars, StageInv, RecordedSoFar, JobOf, Execs
  <2>2. (SendAttempted /\ DownloadTracked /\ ChildrenAwaited /\ SendIndependent)'
    BY <1>4 DEF vars, StageInv, SendAttempted, DownloadTracked, ChildrenAwaited, SendIndependent, IsCollect
  <2> QED
    BY <1>1, <2>1, <2>2 DEF StageInv
<1> QED
  BY <1>2, <1>3, <1>4 DEF Next

LEMMA StageInvInitially == Init => StageInv
<1> SUFFICES ASSUME Init PROVE StageInv
  OBVIOUS
<1>1. BundleInv
  BY BundleInvInitially
<1>2. \A f \in Execs : RecordedSoFar(f)
  <2> SUFFICES ASSUME NEW f \in Execs PROVE RecordedSoFar(f)
    OBVIOUS
  <2>1. /\ pc[f] = "Start" /\ started[f] = {} /\ \A s \in Stages : stage[f][s] = "None"
    BY DEF Init
  <2>2. \A s \in {"Collect", "Load", "Save"} : s \in Stages
    BY DEF Stages
  <2> QED
    BY <2>1, <2>2 DEF RecordedSoFar, RecordedAt, NotRecorded
<1>3. SendAttempted /\ DownloadTracked /\ ChildrenAwaited /\ SendIndependent
  BY ExecsType DEF Init, SendAttempted, DownloadTracked, ChildrenAwaited, SendIndependent
<1> QED
  BY <1>1, <1>2, <1>3 DEF StageInv

\* What is recorded at each point of an execution, throughout every behaviour.
THEOREM StageInvariant == Spec => []StageInv
BY StageInvInitially, StageInvInductive, PTL DEF Spec

\* For every set of included diagnostics the outcome tells what happened: each
\* selected output has a status, a success left nothing out, a failed input
\* started no output, a Send over a bundle has a result of its own, a parent
\* that reports has waited for its children, and a download has an owner.
THEOREM StagesKept == Spec => []StagesHonest
<1>1. ASSUME StageInv, NEW e \in Execs PROVE JobOf(e) \in JobShapes /\ RecordedSoFar(e)
  BY <1>1, JobsOf DEF StageInv, BundleInv
<1>2. StageInv => OutputsAccounted
  BY <1>1 DEF OutputsAccounted, RecordedSoFar, RecordedAt
<1>3. StageInv => SuccessIsComplete
  <2> SUFFICES ASSUME StageInv, pc[Root] = "Done", ~OutcomeFailed(Root), NEW s \in SelectedStages(job)
               PROVE  stage[Root][s] = "Succeeded"
    BY DEF SuccessIsComplete
  <2>1. /\ JobOf(Root) = job /\ RecordedAt(job, "Done", stage[Root], started[Root], proc[Root], snd[Root])
        /\ job \in JobShapes /\ stage[Root] \in StageTable
    BY <1>1, ExecsType DEF JobOf, RecordedSoFar, StageInv, BundleInv, TypeOK, StageTable
  <2>2. \A t \in Stages : stage[Root][t] \notin Unsuccessful
    BY DEF OutcomeFailed, Succeeded
  <2>3. s \in Stages /\ (s \in InStages(job) \/ s \in OutputStages(job))
    BY <2>1, SelectedType
  <2>4. \A t \in InStages(job) : stage[Root][t] = "Succeeded"
    BY <2>1, <2>2 DEF RecordedAt, Unsuccessful
  <2>5. s \in OutputStages(job) => stage[Root][s] # "None"
    BY <2>1 DEF RecordedAt
  <2>6. stage[Root][s] \in Statuses \cup {"None"}
    BY <2>1, <2>3 DEF StageTable
  <2> QED
    BY <2>2, <2>3, <2>4, <2>5, <2>6 DEF Statuses, Unsuccessful
<1>4. StageInv => FailedInputStartsNothing
  BY <1>1 DEF FailedInputStartsNothing, RecordedSoFar, RecordedAt, OutStages
<1>5. StageInv => SendIndependent
  BY DEF StageInv
<1>6. StageInv => ChildrenSettled
  <2> SUFFICES ASSUME StageInv, pc[Root] = "Done", stage[Root]["Process"] = "Succeeded", NEW c \in kids
               PROVE  pc[c] = "Done" /\ stage[c]["Load"] # "None" /\ stage[c]["Process"] # "None"
    BY DEF ChildrenSettled
  <2>1. c \in Execs /\ c # Root
    BY RootAssumption DEF StageInv, BundleInv, TypeOK, Execs
  <2>2. proc[Root] = "Ok"
    BY <1>1, ExecsType DEF RecordedSoFar, RecordedAt
  <2>3. pc[c] = "Done" /\ RecordedAt(ChildJob, "Done", stage[c], started[c], proc[c], snd[c])
    BY <1>1, <2>1, <2>2 DEF StageInv, ChildrenAwaited, RecordedSoFar, JobOf
  <2>4. ~IsCollect(ChildJob) /\ "Process" \in OutputStages(ChildJob)
    BY DEF ChildJob, IsCollect, CollectInputs, OutputStages, Processing
  <2> QED
    BY <2>3, <2>4 DEF RecordedAt
<1>7. StageInv => DownloadOwned
  BY DEF StageInv, BundleInv, DownloadTracked, StagingOwned, DownloadOwned, Over
<1>8. StageInv => StagesHonest
  BY <1>2, <1>3, <1>4, <1>5, <1>6, <1>7 DEF StagesHonest
<1> QED
  BY <1>8, StageInvariant, PTL


(***************************************************************************)
(* The end of an execution                                                 *)
(***************************************************************************)
\* A step needs an execution that is live and not at its end.
LEMMA StepNeedsLive ==
    ASSUME NEW e \in Execs, Step(e)
    PROVE  Live(e) /\ pc[e] \in Early \cup {"Outputs"}
BY DEF Step, PhaseOne, Outputs, At, Begin, ResolveFails, Resolve, Download, WriteFails, OpenFails,
       OpenDownload, Stream, StreamBadSelection, Load, TempDirFails, SetupFails, Staged, StartCollect, CollectFails,
       CollectSucceeds, ReopenFails, BadSelection, StartProcess, ProcessFails, ProcessReports, ChildrenDone,
       StartSend, EndSend, Join, Early

\* Once Root's future has returned or was dropped no step is possible, neither
\* of Root nor of a child, which only Root's future polls.
THEOREM FutureEndsAll == Spec => NothingOutlivesTheFuture
<1>1. [Next]_vars => [Over => UNCHANGED vars]_vars
  <2> SUFFICES ASSUME Next, Over PROVE UNCHANGED vars
    OBVIOUS
  <2>1. ~Cancel
    BY DEF Cancel, Over
  <2>2. \A e \in Execs : ~Step(e)
    BY StepNeedsLive DEF Live, Over, Early
  <2> QED
    BY <2>1, <2>2 DEF Next
<1> QED
  BY <1>1, PTL DEF Spec, NothingOutlivesTheFuture

(***************************************************************************)
(* The promise to the caller                                               *)
(***************************************************************************)
LEMMA SameStages == P!Every = Stages /\ P!Outputs = OutStages
BY DEF P!Every, P!Inputs, P!Outputs, Stages, OutStages

\* What is recorded is sane in the words of the promise.
LEMMA RecordedIsSane ==
    ASSUME NEW j \in JobShapes, NEW c \in Early \cup {"Outputs", "Done"}, NEW st, NEW begun, NEW p, NEW q,
           RecordedAt(j, c, st, begun, p, q)
    PROVE  /\ \A s \in Stages \ SelectedStages(j) : st[s] = "None"
           /\ (\E s \in OutStages : st[s] = "Succeeded") => \E i \in P!Inputs : st[i] = "Succeeded"
<1>1. \A s \in Stages \ SelectedStages(j) : st[s] = "None"
  BY DEF RecordedAt
<1>2. InputStage(j) \in P!Inputs
  BY DEF InputStage, P!Inputs
<1>3. (\E s \in OutStages : st[s] = "Succeeded") => st[InputStage(j)] = "Succeeded"
  <2>1. OutStages \subseteq Stages
    BY DEF OutStages, Stages
  <2> QED
    BY <2>1 DEF RecordedAt, NotRecorded
<1> QED
  BY <1>1, <1>2, <1>3

\* Whatever is recorded of Root stays: input resolution starts from an empty
\* table, and the join only adds the outputs.
LEMMA RootKeeps ==
    ASSUME StageInv, Step(Root)
    PROVE  P!Keeps(stage[Root], stage'[Root])
<1> USE DEF resultVars, fileVars, At
<1>1. /\ RecordedAt(JobOf(Root), pc[Root], stage[Root], started[Root], proc[Root], snd[Root])
      /\ JobOf(Root) \in JobShapes
  BY ExecsType, JobsOf DEF StageInv, BundleInv, RecordedSoFar
<1>2. CASE pc[Root] \in Early
  BY <1>1, <1>2, SameStages DEF RecordedAt, NotRecorded, P!Keeps
<1>3. CASE Join(Root)
  <2>1. stage'[Root] = ApplySend(Root, ApplyProcess(Root, stage[Root])) /\ pc[Root] = "Outputs"
    BY <1>3, ExecsType DEF Join, StageInv, BundleInv, TypeOK
  <2>2. \A s \in Stages \ OutStages : stage'[Root][s] = stage[Root][s]
    BY <1>1, <2>1, JoinFacts
  <2>3. \A s \in OutStages : stage[Root][s] = "None"
    BY <1>1, <2>1 DEF RecordedAt
  <2> QED
    BY <2>2, <2>3, SameStages DEF P!Keeps
<1>4. CASE pc[Root] = "Outputs" /\ ~Join(Root)
  <2>1. stage' = stage
    BY <1>4, StepNeedsLive DEF Early, Step, PhaseOne, Outputs, Begin, ResolveFails, Resolve, Download, WriteFails,
           OpenFails, OpenDownload, Stream, StreamBadSelection, Load, TempDirFails, SetupFails, Staged, StartCollect,
           CollectFails, CollectSucceeds, ReopenFails, BadSelection, StartProcess, ProcessFails, ProcessReports,
           ChildrenDone, StartSend, EndSend
  <2> QED
    BY <2>1 DEF P!Keeps
<1> QED
  BY <1>2, <1>3, <1>4, StepNeedsLive, ExecsType

\* A step of Root decides some stages, or is the return.
LEMMA RootKeepsPromise ==
    ASSUME StageInv, StageInv', Step(Root)
    PROVE  P!PNext
<1> USE DEF resultVars, fileVars
<1>0. Root \in Execs /\ pc \in [Execs -> Labels]
  BY ExecsType DEF StageInv, BundleInv, TypeOK
<1>1. pc[Root] \in Early \cup {"Outputs"} /\ Phase = "open"
  BY <1>0, StepNeedsLive DEF Phase, Early
<1>2. UNCHANGED job /\ pc'[Root] \in Early \cup {"Outputs", "Done"}
  BY <1>0 DEF Step, PhaseOne, Outputs, Begin, ResolveFails, Resolve, Download, WriteFails, OpenFails, OpenDownload,
        InputFails, Stream, StreamBadSelection, Load, TempDirFails, SetupFails, StartCollect, CollectFails, CollectSucceeds,
        ReopenFails, EnterOutputs, Return, BadSelection, StartProcess, ProcessFails, ProcessReports, ChildrenDone,
        StartSend, EndSend, Join, At, Early
<1>3. SelectedStages(job)' = SelectedStages(job)
  BY <1>2 DEF SelectedStages, InputStage, OutputStages, IsCollect, Processing
<1>4. stage'[Root] \in [P!Every -> {"None", "Succeeded", "Failed", "Blocked"}]
  BY <1>0, SameStages DEF StageInv, BundleInv, TypeOK, Statuses
<1>5. P!Keeps(stage[Root], stage'[Root])
  BY RootKeeps
<1>6. /\ RecordedAt(job', pc'[Root], stage'[Root], started'[Root], proc'[Root], snd'[Root])
      /\ job' \in JobShapes
  <2>1. RecordedSoFar(Root)' /\ job' \in Jobs
    BY <1>0 DEF StageInv, BundleInv, TypeOK, Execs
  <2> QED
    BY <2>1 DEF RecordedSoFar, JobOf, Jobs
<1>7. P!Sane(stage[Root])'
  BY <1>2, <1>6, SameStages, RecordedIsSane DEF P!Sane
<1>8. P!Decide
  BY <1>1, <1>3, <1>4, <1>5, <1>7 DEF P!Decide, P!Sane, P!Keeps
<1>9. CASE pc'[Root] = "Done"
  <2>1. Phase' = "returned"
    BY <1>9 DEF Phase
  <2>2. \A s \in OutputStages(job') : stage'[Root][s] # "None"
    BY <1>6, <1>9 DEF RecordedAt
  <2>3. OutStages \cap SelectedStages(job') \subseteq OutputStages(job')
    BY <1>6, SelectedType
  <2>4. \/ \E s \in Stages : stage'[Root][s] = "Failed"
        \/ \E i \in P!Inputs : stage'[Root][i] = "Succeeded"
    <3>1. InputStage(job') \in P!Inputs /\ InputStage(job') \in InStages(job')
      BY DEF InputStage, P!Inputs, InStages
    <3> QED
      BY <1>6, <1>9, <3>1 DEF RecordedAt
  <2>5. P!Return
    BY <1>2, <1>8, <2>1, <2>2, <2>3, <2>4, SameStages DEF P!Return
  <2> QED
    BY <2>5 DEF P!PNext
<1>10. CASE pc'[Root] # "Done"
  <2>1. Phase' = "open"
    BY <1>2, <1>10 DEF Phase, Early
  <2> QED
    BY <1>8, <2>1 DEF P!PNext, P!Settle
<1> QED
  BY <1>9, <1>10

\* Nothing that a caller can see follows from a child's step.
LEMMA ChildIsUnseen ==
    ASSUME StageInv, NEW e \in Children, Step(e)
    PROVE  UNCHANGED P!pvars
<1>1. UNCHANGED job /\ pc'[Root] = pc[Root] /\ stage'[Root] = stage[Root]
  <2>1. e # Root /\ e \in Execs
    BY RootAssumption, ExecsType
  <2> QED
    BY <2>1, ExecsType, OthersKeep DEF StageInv, BundleInv
<1> QED
  BY <1>1 DEF P!pvars, Phase, SelectedStages, InputStage, OutputStages, IsCollect, Processing

LEMMA StepKeepsPromise == StageInv /\ StageInv' /\ [Next]_vars => [P!PNext]_(P!pvars)
<1> SUFFICES ASSUME StageInv, StageInv', [Next]_vars PROVE P!PNext \/ UNCHANGED P!pvars
  OBVIOUS
<1>1. CASE \E e \in Execs : Step(e)
  BY <1>1, RootKeepsPromise, ChildIsUnseen DEF Execs
<1>2. CASE Cancel
  <2>1. /\ UNCHANGED <<job, stage>> /\ pc'[Root] = "Dropped" /\ pc[Root] \notin {"Done", "Dropped"}
    BY <1>2, ExecsType DEF Cancel, StageInv, BundleInv, TypeOK
  <2>2. P!Drop
    BY <2>1 DEF P!Drop, Phase, SelectedStages, InputStage, OutputStages, IsCollect, Processing
  <2> QED
    BY <2>2 DEF P!PNext
<1>3. CASE UNCHANGED vars
  BY <1>3 DEF vars, P!pvars, Phase, SelectedStages, InputStage, OutputStages, IsCollect, Processing
<1> QED
  BY <1>1, <1>2, <1>3 DEF Next

LEMMA PromiseInitially == Init => P!PInit
<1> SUFFICES ASSUME Init PROVE P!PInit
  OBVIOUS
<1>1. SelectedStages(job) \subseteq P!Every
  BY SelectedType, AcceptedJob, SameStages DEF Init
<1> QED
  BY <1>1, ExecsType, SameStages DEF Init, P!PInit, Phase

\* The executor implements its contract, for every set of included diagnostics:
\* each step of input resolution, collection, Process, Send, the children or a
\* dropped future is a step of JobPromise, or nothing the caller can see.
THEOREM PromiseKept == Spec => KeepsPromise
BY PromiseInitially, StepKeepsPromise, StageInvariant, PTL DEF Spec, KeepsPromise, P!PSpec

=============================================================================
