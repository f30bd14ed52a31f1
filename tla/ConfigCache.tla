------------------------------ MODULE ConfigCache ------------------------------
(* load_config_cached of src/data/elastic_context.rs: callers on several threads  *)
(* share one parsed configuration, keyed by the hash of the file, while the file  *)
(* is edited beside them. The file is read twice by a call that misses, once for  *)
(* the hash and once to parse it. A content is a number that no edit repeats.     *)
EXTENDS Naturals, FiniteSets

CONSTANTS Callers, MaxEdits

VARIABLES platform,  \* the operating system, and whether HOME and USERPROFILE differ
          files,     \* per directory: the number of edits and whether the file is there and parses
          cache,     \* the entry of the table: a fingerprint and a configuration, or none
          calls      \* per caller: where it is and what it has
cacheVars == <<platform, files, cache, calls>>

None == [dir |-> "none", edit |-> 0]
Dirs == {"home", "profile"}
States == {"good", "broken", "absent"}
Rest == [pc |-> "idle", print |-> None, got |-> None, began |-> 0]

CacheInit ==
  /\ platform \in [os : {"unix", "windows"}, apart : BOOLEAN]
  /\ files = [d \in Dirs |-> [edit |-> 0, state |-> "good"]]
  /\ cache = [print |-> None, config |-> None]
  /\ calls = [c \in Callers |-> Rest]

\* home_dir_from_env: the directory elasticrc loads from.
LoadDir == IF platform.os = "unix" \/ ~platform.apart THEN "home" ELSE "profile"

\* The directory whose file is hashed: HOME first, on every system.
PrintDir == "home"

Edit(d) ==
  /\ files[d].edit < MaxEdits
  /\ \E s \in States : files' = [files EXCEPT ![d] = [edit |-> @.edit + 1, state |-> s]]
  /\ UNCHANGED <<platform, cache, calls>>

\* config_fingerprint of the path discovery finds; a broken file has one too.
Fingerprint(c) ==
  /\ calls[c].pc = "idle"
  /\ calls' = [calls EXCEPT ![c] = [pc |-> "look", got |-> None, began |-> files[LoadDir].edit,
                                    print |-> IF files[PrintDir].state = "absent" THEN None
                                              ELSE [dir |-> PrintDir, edit |-> files[PrintDir].edit]]]
  /\ UNCHANGED <<platform, files, cache>>

\* Mutant: the entry is found by its key alone.
Hit(c) == calls[c].print # None /\ cache.print # None

\* The entry has the hash the file had a moment ago.
Fresh(c) == calls[c].print # None /\ cache.print = calls[c].print

LookUp(c) ==
  /\ calls[c].pc = "look"
  /\ calls' = [calls EXCEPT ![c].pc = IF Fresh(c) THEN "served" ELSE "load",
                            ![c].got = IF Fresh(c) THEN cache.config ELSE @]
  /\ UNCHANGED <<platform, files, cache>>

\* ConfigFile::load_with_options; a file that does not parse ends the call and
\* leaves the entry.
Load(c) ==
  /\ calls[c].pc = "load"
  /\ calls' = [calls EXCEPT ![c] = IF files[LoadDir].state = "broken" THEN Rest
                                   ELSE [@ EXCEPT !.pc = "store",
                                                  !.got = IF files[LoadDir].state = "absent" THEN None
                                                          ELSE [dir |-> LoadDir, edit |-> files[LoadDir].edit]]]
  /\ UNCHANGED <<platform, files, cache>>

\* What was loaded is stored under the hash that was taken before.
Insert(c) ==
  /\ calls[c].pc = "store"
  /\ cache' = IF calls[c].got # None /\ calls[c].print # None
              THEN [print |-> calls[c].print, config |-> calls[c].got] ELSE [print |-> None, config |-> None]
  /\ calls' = [calls EXCEPT ![c].pc = "served"]
  /\ UNCHANGED <<platform, files>>

Finish(c) ==
  /\ calls[c].pc = "served" /\ calls' = [calls EXCEPT ![c] = Rest]
  /\ UNCHANGED <<platform, files, cache>>

CacheNext ==
  \/ \E d \in Dirs : Edit(d)
  \/ \E c \in Callers : Fingerprint(c) \/ LookUp(c) \/ Load(c) \/ Insert(c) \/ Finish(c)
CacheSpec == CacheInit /\ [][CacheNext]_cacheVars

\* A configuration that is served was in the file at some time during the call,
\* as long as the hash is taken of the file that is loaded.
ServedIsCurrent ==
  \A c \in Callers : calls[c].pc = "served" /\ calls[c].got # None /\ LoadDir = PrintDir =>
    calls[c].got.dir = LoadDir /\ calls[c].got.edit \in calls[c].began .. files[LoadDir].edit
================================================================================
