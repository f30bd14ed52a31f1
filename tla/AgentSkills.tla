----------------------------- MODULE AgentSkills -----------------------------
(* `esdiag setup skills` and `esdiag agent ask`. The first (src/setup/         *)
(* skills.rs) installs the embedded skill into the directories of coding       *)
(* agents: staged beside the destination, moved in by renames, the old         *)
(* directory moved out first. The second (src/agent/builder.rs) sends one turn *)
(* to Agent Builder and follows its event stream.                              *)
(*                                                                             *)
(* A directory is the release whose files it has, or User when somebody wrote  *)
(* or changed them, and the digest in its installer marker; 0 is none.         *)
EXTENDS Integers, FiniteSets, Sequences

CONSTANTS
  SkillReleases,  \* releases, each with its own skill files
  Targets,        \* coding agents: Claude, Codex, OpenCode
  MaxSkillFaults, \* bound: steps that fail, commands that are cut off, edits of a
                  \* directory while it is installed
  MaxEvents       \* bound: events of an answer stream

ASSUME SkillBounds == SkillReleases \subseteq Nat \ {0} /\ MaxSkillFaults \in Nat /\ MaxEvents \in Nat

VARIABLES
  dest,      \* per target, the directory at the destination
  backups,   \* per target, the sibling backups left behind
  skill,     \* the installation that is under way
  skillFaults,
  written,   \* history: targets that hold the user's files, as an inspection
             \* would have found them
  ask        \* the turn that is under way or how it ended

skillVars == <<dest, backups, skill, skillFaults, written>>
agentVars == <<dest, backups, skill, skillFaults, written, ask>>

User == -1   \* files that somebody wrote or changed
NoDir == [files |-> 0, marker |-> 0]
UserDir(m) == [files |-> User, marker |-> m]
Release(r) == [files |-> r, marker |-> r]
Dirs == {NoDir} \cup {UserDir(m) : m \in SkillReleases \cup {0}}
        \cup {[files |-> r, marker |-> m] : r \in SkillReleases, m \in SkillReleases \cup {0}}

NoSkill == [pc |-> "idle", release |-> 0, force |-> FALSE, selected |-> {}, target |-> "none", failed |-> FALSE, moved |-> NoDir]

\* Mutant: the marker alone proves that the directory is ours.
InspectMarker(d, r) ==
  CASE d.files = 0 -> "missing"
    [] d.files = r -> "exact"
    [] d.marker # 0 -> "intact"
    [] OTHER -> "unrecognized"

\* inspect: missing, exact, intact (the marker's digest is that of the files),
\* modified (it is not) or somebody else's.
Inspect(d, r) ==
  CASE d.files = 0 -> "missing"
    [] d.files = r -> "exact"
    [] d.files # 0 /\ d.files # r /\ d.marker # 0 /\ d.marker = d.files -> "intact"
    [] d.files # 0 /\ d.files # r /\ d.marker # 0 /\ d.marker # d.files -> "modified"
    [] OTHER -> "unrecognized"

SkillInit ==
  /\ dest \in [Targets -> {NoDir, UserDir(0)}]
  /\ backups = [t \in Targets |-> {}]
  /\ skill = NoSkill /\ skillFaults = 0
  /\ written = {t \in Targets : dest[t].files = User}

SkillFault == skillFaults < MaxSkillFaults /\ skillFaults' = skillFaults + 1

----------------------------------------------------------------------------
(* Installation                                                               *)

\* The agents named on the command line, or those that were detected.
StartSkills(r, force, selected) ==
  /\ skill.pc = "idle"
  /\ skill' = [NoSkill EXCEPT !.pc = "next", !.release = r, !.force = force, !.selected = selected]
  /\ UNCHANGED <<dest, backups, skillFaults, written>>

\* install_skill_targets: every target is tried, whatever became of the others.
TargetDone(ok) ==
  skill' = [skill EXCEPT !.pc = "next", !.selected = @ \ {skill.target}, !.target = "none",
                         !.failed = @ \/ ~ok, !.moved = NoDir]

\* install: nothing to do, a conflict, or a staged copy that was validated.
InspectTarget(t) ==
  LET state == Inspect(dest[t], skill.release) IN
  /\ skill.pc = "next" /\ t \in skill.selected
  /\ skill' = CASE state = "exact" -> [skill EXCEPT !.selected = @ \ {t}]
                [] state \in {"modified", "unrecognized"} /\ ~skill.force ->
                     [skill EXCEPT !.selected = @ \ {t}, !.failed = TRUE]
                [] OTHER -> [skill EXCEPT !.pc = "stage", !.target = t]
  /\ UNCHANGED <<dest, backups, skillFaults, written>>

\* Writing or validating the stage fails; the stage stays behind, under a name
\* that nothing uses again.
StageFails ==
  /\ skill.pc = "stage" /\ SkillFault
  /\ TargetDone(FALSE)
  /\ UNCHANGED <<dest, backups, written>>

MoveOut ==
  /\ skill.pc = "stage"
  /\ skill' = [skill EXCEPT !.pc = "activate", !.moved = dest[skill.target]]
  /\ dest' = [dest EXCEPT ![skill.target] = NoDir]
  /\ UNCHANGED <<backups, skillFaults, written>>

\* What was moved out stays beside the destination.
LeftBehind == IF skill.moved = NoDir THEN backups ELSE [backups EXCEPT ![skill.target] = @ \cup {skill.moved}]

Activate ==
  /\ skill.pc = "activate" /\ dest[skill.target] = NoDir
  /\ dest' = [dest EXCEPT ![skill.target] = Release(skill.release)]
  /\ skill' = [skill EXCEPT !.pc = "clean"]
  /\ UNCHANGED <<backups, skillFaults, written>>

\* Mutant: a failed activation leaves the way free without putting anything back.
ActivateLoses ==
  /\ skill.pc = "activate" /\ SkillFault
  /\ TargetDone(FALSE)
  /\ UNCHANGED <<dest, backups, written>>

\* The rename into place fails, always when somebody put a directory there: the
\* old one is moved back, and when that fails too nobody is told where it is.
ActivateFails ==
  /\ skill.pc = "activate"
  /\ \/ dest[skill.target] = NoDir /\ SkillFault
     \/ dest[skill.target] # NoDir /\ UNCHANGED skillFaults
  /\ \/ dest[skill.target] = NoDir /\ dest' = [dest EXCEPT ![skill.target] = skill.moved] /\ UNCHANGED backups
     \/ backups' = LeftBehind /\ UNCHANGED dest
  /\ TargetDone(FALSE)
  /\ UNCHANGED written

\* The backup is removed; when that fails the target counts as failed.
RemoveBackup ==
  /\ skill.pc = "clean"
  /\ \/ /\ TargetDone(TRUE) /\ UNCHANGED <<backups, skillFaults>>
        /\ written' = IF skill.force /\ dest[skill.target].files # User THEN written \ {skill.target} ELSE written
     \/ /\ skill.moved # NoDir /\ SkillFault
        /\ TargetDone(FALSE)
        /\ backups' = LeftBehind /\ UNCHANGED written
  /\ UNCHANGED dest

SkillsDone ==
  /\ skill.pc = "next" /\ skill.selected = {}
  /\ skill' = NoSkill
  /\ UNCHANGED <<dest, backups, skillFaults, written>>

\* Cut off: a directory that was moved out is left as a backup.
SkillsCut ==
  /\ skill.pc # "idle" /\ SkillFault
  /\ skill' = NoSkill
  /\ backups' = LeftBehind
  /\ UNCHANGED <<dest, written>>

\* Somebody edits the installed skill, or puts one of his own there. Between
\* the inspection and the rename that moves the directory out, nothing looks
\* at it again: such an edit is not one of those that are kept.
UserWrites(t) ==
  /\ dest[t].files # User \/ t \notin written
  /\ dest' = [dest EXCEPT ![t] = UserDir(dest[t].marker)]
  /\ written' = IF skill.pc = "stage" /\ t = skill.target THEN written ELSE written \cup {t}
  /\ IF t = skill.target THEN SkillFault ELSE UNCHANGED skillFaults
  /\ UNCHANGED <<backups, skill>>

SkillSteps ==
  \/ StageFails \/ MoveOut \/ Activate \/ ActivateFails \/ RemoveBackup \/ SkillsDone \/ SkillsCut
  \/ \E t \in Targets : InspectTarget(t)
SkillStarts == \E r \in SkillReleases, force \in BOOLEAN, sel \in SUBSET Targets : StartSkills(r, force, sel)

----------------------------------------------------------------------------
(* One turn with Agent Builder                                                *)

NoAsk == [pc |-> "idle", conversation |-> 0, message |-> 0, events |-> 0, sent |-> FALSE,
          announced |-> 0, said |-> 0, outcome |-> "none"]
EndTurn(outcome) == ask' = [ask EXCEPT !.pc = "idle", !.outcome = outcome]

\* A turn in a new conversation (0) or one that the user named.
StartAsk(conversation) ==
  /\ ask.pc = "idle"
  /\ ask' = [NoAsk EXCEPT !.pc = "post", !.conversation = conversation, !.announced = conversation]

\* The request fails on its way or on the way back, or is refused.
PostFails ==
  /\ ask.pc = "post"
  /\ \E sent \in BOOLEAN : ask' = [ask EXCEPT !.pc = "idle", !.sent = sent, !.outcome = "transport"]
PostRefused == ask.pc = "post" /\ EndTurn("http")
Posted == ask.pc = "post" /\ ask' = [ask EXCEPT !.pc = "stream", !.sent = TRUE]

More == ask.pc = "stream" /\ ask.events < MaxEvents

\* Mutant: an event without an id clears the one that is known.
ConversationIdReset(id) ==
  /\ More
  /\ ask' = [ask EXCEPT !.events = @ + 1, !.conversation = id, !.announced = IF id = 0 THEN @ ELSE id]

\* consume: an event sets the conversation or the message; an empty field leaves
\* what was known, other events only show progress.
ConversationIdSet(id) ==
  /\ More
  /\ ask' = [ask EXCEPT !.events = @ + 1, !.conversation = IF id = 0 THEN @ ELSE id,
                        !.announced = IF id = 0 THEN @ ELSE id]

MessageComplete(m) ==
  /\ More
  /\ ask' = [ask EXCEPT !.events = @ + 1, !.message = IF m = 0 THEN @ ELSE m, !.said = IF m = 0 THEN @ ELSE m]
OtherEvent == More /\ ask' = [ask EXCEPT !.events = @ + 1]
BadEvent == More /\ EndTurn("protocol")
ErrorEvent == More /\ EndTurn("remote")

\* The stream ends, or breaks off: complete only with a message and an id.
StreamEnds ==
  /\ ask.pc = "stream"
  /\ EndTurn(IF ask.message # 0 /\ ask.conversation # 0 THEN "completed" ELSE "interrupted")
StreamBreaks == ask.pc = "stream" /\ EndTurn("interrupted")

AskSteps ==
  \/ PostFails \/ PostRefused \/ Posted \/ OtherEvent \/ BadEvent \/ ErrorEvent \/ StreamEnds \/ StreamBreaks
  \/ \E x \in 0 .. 2 : ConversationIdSet(x) \/ MessageComplete(x)
AskStarts == \E c \in 0 .. 1 : StartAsk(c)

----------------------------------------------------------------------------
(* Properties                                                                 *)

SkillTypeOK ==
  /\ dest \in [Targets -> Dirs] /\ written \subseteq Targets
  /\ \A t \in Targets : backups[t] \subseteq Dirs \ {NoDir}
  /\ skill.target \in Targets \cup {"none"} /\ skillFaults \in 0 .. MaxSkillFaults

\* The user's files are at the destination, on their way or in a backup.
Holds(t) ==
  \/ dest[t].files = User
  \/ skill.target = t /\ skill.moved.files = User
  \/ \E d \in backups[t] : d.files = User

\* What a user wrote into a skill directory is never deleted without --force:
\* through edits, reinstallations, failures and cuts it is at the destination,
\* on its way, or in a backup beside it. An edit that falls between the
\* inspection of its directory and the move is excepted.
UserFilesKept == \A t \in written : Holds(t)

\* Refuted by TLC, see the README: no edit is lost without --force, whenever it
\* is made. The directory is moved out and its backup removed on the word of
\* an inspection that is older than the edit.
EditsNeverLost == [][\A t \in Targets : Holds(t) /\ ~skill.force => Holds(t)']_skillVars

\* A directory that carries the marker of the release whose files it has was
\* put there whole; a destination never has files of one release with the marker
\* of another.
WholeDirectories == \A t \in Targets : dest[t].files \in SkillReleases => dest[t].marker = dest[t].files

\* A completed turn has the message and the conversation that the stream named
\* last, and an interruption after the conversation was named says which.
TurnHonest ==
  /\ ask.outcome = "completed" => ask.message = ask.said /\ ask.message # 0
  /\ ask.outcome \in {"completed", "interrupted"} => ask.conversation = ask.announced

SkillsSound == SkillTypeOK /\ UserFilesKept /\ WholeDirectories /\ TurnHonest

\* Refuted by TLC, see the README. retry_safe: no duplicate turn. A failure that may be retried was not a turn
\* that the server received.
RetrySafe(outcome, conversation) == ~(outcome = "interrupted" /\ conversation # 0)
RetryNeverDuplicates ==
  ask.outcome \notin {"none", "completed"} /\ RetrySafe(ask.outcome, ask.conversation) => ~ask.sent
=============================================================================
