------------------------------ MODULE Keystore ------------------------------
(* The encrypted keystore, its unlock lease and the hosts that refer to its   *)
(* secrets: data/keystore.rs, data/credential.rs, the parts of                *)
(* data/known_host.rs that write hosts.yml, and the commands and web handlers *)
(* that use them.                                                             *)
(*                                                                            *)
(* Everything lives in files: secrets.yml, keystore.unlock, hosts.yml and     *)
(* hosts.yml.bak. A command is a program of file accesses, one step each; no  *)
(* lock spans two of them. Several processes (the server's handlers, commands *)
(* in other terminals) run commands, and any of them can die between two      *)
(* steps, or fail to write, which leaves the same files behind.               *)
EXTENDS Integers, Sequences, TLC

CONSTANTS
  Hosts,       \* names of hosts; migration uses them as secret ids
  Ids,         \* secret ids
  Passwords,   \* keystore passwords
  Procs,       \* processes that may run a command at the same time
  MaxCommands, \* bound: commands started
  MaxOverlapped, \* bound: the same, once commands overlap
  MaxNow       \* bound: the clock

ASSUME IdsAssumption == Hosts \subseteq Ids
ASSUME BoundsAssumption == MaxCommands \in Nat /\ MaxOverlapped \in 0 .. MaxCommands /\ MaxNow \in Nat

VARIABLES
  store,       \* secrets.yml: whether it exists, its password, its entries
  lease,       \* keystore.unlock: whether it exists, its password, its expiry
  hosts,       \* hosts.yml: the credential of each host
  torn,        \* hosts.yml is truncated and not written again
  backup,      \* hosts.yml.bak
  now,         \* the clock
  proc,        \* the command each process is running
  plain,       \* history: hosts whose plaintext credential must not get lost
  overlapped,  \* history: two commands have run at the same time
  interrupted, \* history: a command was cut off
  started      \* commands started

files == <<store, lease, hosts, torn, backup>>
history == <<plain, overlapped, interrupted, started>>
vars == <<store, lease, hosts, torn, backup, now, proc, plain, overlapped, interrupted, started>>

----------------------------------------------------------------------------
(* Secrets and credentials                                                    *)

Kinds == {"apikey", "basic"}

\* A SecretEntry has an API key, a user with password, both or neither; a value
\* is known by where it came from.
NoEntry == [k \in Kinds |-> "none"]
NoSecrets == [i \in Ids |-> NoEntry]

Present(secrets, i) == secrets[i] # NoEntry

\* Credential: None, Keystore(ref), or Legacy with or without a reference.
NoHost == [saved |-> FALSE, legacy |-> "none", ref |-> "none"]
NoHosts == [h \in Hosts |-> NoHost]
Reference(i) == [saved |-> TRUE, legacy |-> "none", ref |-> i]
Legacy(k, i) == [saved |-> TRUE, legacy |-> k, ref |-> i]

HasLegacy(h, map) == map[h].legacy # "none"

\* Credential::persisted: plaintext without a reference is never written.
Persistable(map) == \A h \in Hosts : HasLegacy(h, map) => map[h].ref # "none"
Persisted(map) == [h \in Hosts |-> [map[h] EXCEPT !.legacy = "none"]]

Opens(pw) == store.exists /\ store.password = pw

Alive == lease.exists /\ lease.expires > now

NoLease == [exists |-> FALSE, password |-> "none", expires |-> 0]

----------------------------------------------------------------------------
(* Commands                                                                   *)

\* What each command does to the files, in order.
Program ==
  [add        |-> <<"password", "read", "write">>,
   update     |-> <<"password", "read", "write">>,
   upsert     |-> <<"password", "read", "write">>,
   remove     |-> <<"password", "drop", "refs", "write">>,
   rename     |-> <<"password", "drop", "refs", "write", "read", "write">>,
   rotate     |-> <<"password", "validate", "read", "write", "readlease", "renew">>,
   migrate    |-> <<"password", "gather", "truncate", "hosts">>,
   unlock     |-> <<"password", "validate", "grant">>,
   open       |-> <<"validate", "grant">>,
   create     |-> <<"absent", "write", "grant">>,
   bootstrap  |-> <<"absent", "write", "grant">>,
   lock       |-> <<"lock">>,
   resolve    |-> <<"password">>,
   savehost   |-> <<"password", "lookup", "parse", "truncate", "hosts">>,
   plainhost  |-> <<"parse", "truncate", "hosts">>,
   removehost |-> <<"parse", "truncate", "hosts">>,
   deploy     |-> <<"password", "read", "write", "parse", "truncate", "hosts">>]

\* Mutant: no copy of hosts.yml is kept.
MoveWithoutBackup ==
  [migrate   |-> <<"gather", "read", "write", "truncate", "hosts">>,
   bootstrap |-> <<"gather", "read", "write", "truncate", "hosts", "grant">>]

\* With plaintext to move, the migration saves a copy of hosts.yml and stores
\* the secrets before it rewrites the hosts.
MoveSecrets ==
  [migrate   |-> <<"gather", "emptybackup", "backup", "read", "write", "truncate", "hosts">>,
   bootstrap |-> <<"gather", "emptybackup", "backup", "read", "write", "truncate", "hosts", "grant">>]

Idle == [cmd |-> "idle", todo |-> <<>>, pw |-> "none", next |-> "none", id |-> "none",
         from |-> "none", kind |-> "none", host |-> "none",
         secrets |-> NoSecrets, map |-> NoHosts, until |-> 0]

Init ==
  /\ \E i \in Ids, k \in Kinds :
        \/ /\ store = [exists |-> FALSE, password |-> "none", secrets |-> NoSecrets]
           /\ hosts \in {[NoHosts EXCEPT ![h] = Legacy(k, "none")] : h \in Hosts}
        \/ /\ \E pw \in Passwords :
                 store = [exists |-> TRUE, password |-> pw,
                          secrets |-> [NoSecrets EXCEPT ![i] = [NoEntry EXCEPT ![k] = "typed"]]]
           /\ hosts \in {[NoHosts EXCEPT ![h] = c] :
                           h \in Hosts, c \in {Reference(i), Legacy("basic", "none"), Legacy("basic", i)}}
  /\ lease = NoLease
  /\ torn = FALSE
  /\ backup = NoHosts
  /\ now = 0
  /\ proc = [p \in Procs |-> Idle]
  /\ plain = {h \in Hosts : hosts[h].legacy # "none" /\ hosts[h].ref = "none"}
  /\ overlapped = FALSE
  /\ interrupted = FALSE
  /\ started = 0

Busy == \E r \in Procs : proc[r].cmd # "idle"

Start(p, q) ==
  /\ proc[p].cmd = "idle"
  /\ started < IF overlapped \/ Busy THEN MaxOverlapped ELSE MaxCommands
  /\ proc' = [proc EXCEPT ![p] = [q EXCEPT !.todo = Program[q.cmd]]]
  /\ overlapped' = (overlapped \/ Busy)
  /\ started' = started + 1
  /\ UNCHANGED <<files, now, plain, interrupted>>

\* A command of the CLI or a request of the web interface, with its arguments.
Begin(p) ==
  \/ \E c \in {"migrate", "unlock", "lock", "resolve"} : Start(p, [Idle EXCEPT !.cmd = c])
  \/ \E c \in {"open", "create", "bootstrap"}, w \in Passwords :
        Start(p, [Idle EXCEPT !.cmd = c, !.pw = w])
  \/ \E c \in {"add", "update", "upsert"}, i \in Ids, k \in Kinds :
        Start(p, [Idle EXCEPT !.cmd = c, !.id = i, !.kind = k])
  \/ \E i \in Ids, k \in Kinds \union {"all"} :
        Start(p, [Idle EXCEPT !.cmd = "remove", !.from = i, !.kind = k])
  \/ \E i, j \in Ids, k \in Kinds :
        i # j /\ Start(p, [Idle EXCEPT !.cmd = "rename", !.from = i, !.id = j, !.kind = k])
  \/ \E w \in Passwords : Start(p, [Idle EXCEPT !.cmd = "rotate", !.next = w])
  \/ \E h \in Hosts, i \in Ids : Start(p, [Idle EXCEPT !.cmd = "savehost", !.host = h, !.id = i])
  \/ \E h \in Hosts, c \in {"plainhost", "removehost"} :
        Start(p, [Idle EXCEPT !.cmd = c, !.host = h])
  \/ \E h \in Hosts, i \in Ids, k \in Kinds :
        Start(p, [Idle EXCEPT !.cmd = "deploy", !.host = h, !.id = i, !.kind = k])

----------------------------------------------------------------------------
(* Steps                                                                      *)

At(p, step) == proc[p].todo # <<>> /\ Head(proc[p].todo) = step

\* The step is done; a command ends with its last step.
Advance(p, q) ==
  proc' = [proc EXCEPT ![p] = IF Len(q.todo) = 1 THEN Idle ELSE [q EXCEPT !.todo = Tail(@)]]

\* The command returns an error.
Abort(p) == proc' = [proc EXCEPT ![p] = Idle]

\* Requests of the web interface take the lease as it is.
WebCommands == {"upsert", "rename", "remove", "savehost", "deploy"}

\* get_keystore_password, get_password_for_secret_commands: the password of the
\* lease if it opens the store; else the lease is removed and the user is
\* asked, or the command is refused. keystore_password of the web session does
\* not try whether it opens the store.
Password(p) ==
  /\ At(p, "password")
  /\ \/ /\ Alive /\ (Opens(lease.password) \/ proc[p].cmd \in WebCommands)
        /\ Advance(p, [proc[p] EXCEPT !.pw = lease.password])
        /\ UNCHANGED lease
     \/ /\ ~(Alive /\ Opens(lease.password))
        /\ lease' = NoLease
        /\ \/ \E w \in Passwords : Advance(p, [proc[p] EXCEPT !.pw = w])
           \/ Abort(p)
  /\ UNCHANGED <<store, hosts, torn, backup, now, history>>

\* validate_existing_keystore_password.
Validate(p) ==
  /\ At(p, "validate")
  /\ IF Opens(proc[p].pw) THEN Advance(p, proc[p]) ELSE Abort(p)
  /\ UNCHANGED <<files, now, history>>

\* create_keystore and bootstrap: only where there is no keystore. The
\* bootstrap of the web interface migrates as well when a host needs it.
Absent(p) ==
  /\ At(p, "absent")
  /\ IF store.exists THEN Abort(p)
     ELSE Advance(p, [proc[p] EXCEPT !.secrets = NoSecrets,
            !.todo = IF proc[p].cmd = "bootstrap" /\ ~torn /\ \E h \in Hosts : HasLegacy(h, hosts)
                     THEN <<"absent", "write", "gather", "truncate", "hosts", "grant">> ELSE @])
  /\ UNCHANGED <<files, now, history>>

\* read_store: a keystore that is missing is empty for every password.
Decrypt(pw, secrets) ==
  \/ ~store.exists /\ secrets = NoSecrets
  \/ Opens(pw) /\ secrets = store.secrets

Readable(pw) == ~store.exists \/ Opens(pw)

\* upsert_auth for every secret of a migration.
Migrated(secrets, map) ==
  [i \in Ids |-> IF i \in Hosts /\ HasLegacy(i, map)
                 THEN [secrets[i] EXCEPT ![map[i].legacy] = "plain"] ELSE secrets[i]]

\* What a command makes of the secrets it has read.
Edited(q, secrets) ==
  CASE q.cmd = "update" -> [secrets EXCEPT ![q.id] = [NoEntry EXCEPT ![q.kind] = "typed"]]
    [] q.cmd \in {"add", "upsert", "rename", "deploy"} -> [secrets EXCEPT ![q.id][q.kind] = "typed"]
    [] q.cmd \in {"migrate", "bootstrap"} -> Migrated(secrets, q.map)
    [] OTHER -> secrets

Refused(q, secrets) ==
  \/ q.cmd = "add" /\ Present(secrets, q.id)
  \/ q.cmd = "update" /\ ~Present(secrets, q.id)

\* The store is read and changed in memory.
Read(p) ==
  /\ At(p, "read")
  /\ \/ \E secrets \in {store.secrets, NoSecrets} :
           /\ Decrypt(proc[p].pw, secrets)
           /\ IF Refused(proc[p], secrets) THEN Abort(p)
              ELSE Advance(p, [proc[p] EXCEPT !.secrets = Edited(proc[p], secrets)])
     \/ ~Readable(proc[p].pw) /\ Abort(p)
  /\ UNCHANGED <<files, now, history>>

\* Mutant: the whole secret is removed whatever was named.
RemovedWhole(q, secrets) == [secrets EXCEPT ![q.from] = NoEntry]

\* remove_secret: the whole secret, or the part of it the user has named.
Removed(q, secrets) ==
  IF q.cmd = "rename" \/ q.kind = "all" THEN [secrets EXCEPT ![q.from] = NoEntry]
  ELSE [secrets EXCEPT ![q.from][q.kind] = "none"]

Drop(p) ==
  /\ At(p, "drop")
  /\ LET q == proc[p] IN
       IF Opens(q.pw) /\ Present(store.secrets, q.from)
          /\ (q.cmd = "remove" /\ q.kind # "all" => store.secrets[q.from][q.kind] # "none")
       THEN Advance(p, [q EXCEPT !.secrets = Removed(q, store.secrets)])
       ELSE Abort(p)
  /\ UNCHANGED <<files, now, history>>

\* parse_hosts_yml: a truncated file is an error or a map without hosts.
Parsed(map) == IF torn THEN map = NoHosts ELSE map = hosts
CannotParse == torn

\* Mutant: nobody looks for hosts that use the secret.
RefsUnchecked(p) ==
  /\ At(p, "refs")
  /\ Advance(p, proc[p])
  /\ UNCHANGED <<files, now, history>>

\* ensure_secret_is_unreferenced.
Refs(p) ==
  /\ At(p, "refs")
  /\ \/ /\ Parsed(hosts)
        /\ IF \E h \in Hosts : hosts[h].ref = proc[p].from THEN Abort(p) ELSE Advance(p, proc[p])
     \/ CannotParse /\ Abort(p)
  /\ UNCHANGED <<files, now, history>>

\* The password the store is encrypted with from now on.
WritePassword(q) == IF q.cmd = "rotate" THEN q.next ELSE q.pw

\* The secrets a command is about: the user no longer wants their old value.
Replaced(q) == IF q.cmd = "remove" THEN {q.from}
               ELSE IF q.cmd = "rename" THEN {q.from, q.id} ELSE {q.id}

\* write_store, atomic by a rename.
Write(p) ==
  /\ At(p, "write")
  /\ LET q == proc[p] IN
       /\ store' = [exists |-> TRUE, password |-> WritePassword(q), secrets |-> q.secrets]
       /\ plain' = plain \ Replaced(q)
       /\ Advance(p, [q EXCEPT !.secrets = NoSecrets])
  /\ UNCHANGED <<lease, hosts, torn, backup, now, overlapped, interrupted, started>>

\* write_unlock_lease, for a time of the user's choice.
Grant(p) ==
  /\ At(p, "grant")
  /\ \E ttl \in 1 .. 2 :
        lease' = [exists |-> TRUE, password |-> proc[p].pw, expires |-> now + ttl]
  /\ Advance(p, proc[p])
  /\ UNCHANGED <<store, hosts, torn, backup, now, history>>

\* The last part of rotate_keystore_password: a live lease gets the new
\* password and keeps its expiry.
ReadLease(p) ==
  /\ At(p, "readlease")
  /\ IF Alive THEN Advance(p, [proc[p] EXCEPT !.until = lease.expires]) /\ UNCHANGED lease
     ELSE Abort(p) /\ lease' = NoLease
  /\ UNCHANGED <<store, hosts, torn, backup, now, history>>

\* Mutant: the lease is written anew.
RenewFull(p) ==
  /\ At(p, "renew")
  /\ lease' = [exists |-> TRUE, password |-> proc[p].next, expires |-> now + 2]
  /\ Advance(p, proc[p])
  /\ UNCHANGED <<store, hosts, torn, backup, now, history>>

\* Mutant: the lease keeps the old password.
RenewOld(p) ==
  /\ At(p, "renew")
  /\ lease' = [exists |-> TRUE, password |-> proc[p].pw, expires |-> proc[p].until]
  /\ Advance(p, proc[p])
  /\ UNCHANGED <<store, hosts, torn, backup, now, history>>

Renew(p) ==
  /\ At(p, "renew")
  /\ lease' = [exists |-> TRUE, password |-> proc[p].next, expires |-> proc[p].until]
  /\ Advance(p, proc[p])
  /\ UNCHANGED <<store, hosts, torn, backup, now, history>>

\* clear_unlock_lease.
Lock(p) ==
  /\ At(p, "lock")
  /\ lease' = NoLease
  /\ Advance(p, proc[p])
  /\ UNCHANGED <<store, hosts, torn, backup, now, history>>

\* The secret a host shall refer to is looked up before the host is saved.
LookUp(p) ==
  /\ At(p, "lookup")
  /\ IF Opens(proc[p].pw) /\ Present(store.secrets, proc[p].id)
     THEN Advance(p, proc[p]) ELSE Abort(p)
  /\ UNCHANGED <<files, now, history>>

\* hosts.yml is read; saving or removing one host changes the map in memory.
Parse(p) ==
  /\ At(p, "parse")
  /\ LET q == proc[p] IN
       \/ \E map \in {hosts, NoHosts} :
            /\ Parsed(map)
            /\ Advance(p, [q EXCEPT !.map = [map EXCEPT ![q.host] =
                 CASE q.cmd = "removehost" -> NoHost
                   [] q.cmd = "plainhost" -> Reference("none")
                   [] OTHER -> Reference(q.id)]])
       \/ CannotParse /\ Abort(p)
  /\ UNCHANGED <<files, now, history>>

\* migrate_hosts_to_keystore collects the plaintext of hosts.yml.
Gather(p) ==
  /\ At(p, "gather")
  /\ LET q == proc[p] IN
       \/ \E map \in {hosts, NoHosts} :
            /\ Parsed(map)
            /\ Advance(p, [q EXCEPT !.map = map,
                 !.todo = IF \E h \in Hosts : HasLegacy(h, map) THEN MoveSecrets[q.cmd] ELSE @])
       \/ CannotParse /\ Abort(p)
  /\ UNCHANGED <<files, now, history>>

\* backup_hosts_yml truncates the old copy, then copies what the file holds.
EmptyBackup(p) ==
  /\ At(p, "emptybackup")
  /\ backup' = NoHosts
  /\ Advance(p, proc[p])
  /\ UNCHANGED <<store, lease, hosts, torn, now, history>>

Backup(p) ==
  /\ At(p, "backup")
  /\ backup' = hosts
  /\ Advance(p, proc[p])
  /\ UNCHANGED <<store, lease, hosts, torn, now, history>>

\* What a command writes to hosts.yml: after a migration each host with
\* plaintext refers to the secret of its own name.
NewHosts(q) ==
  IF q.cmd \in {"migrate", "bootstrap"}
  THEN [h \in Hosts |-> IF HasLegacy(h, q.map) THEN Reference(h) ELSE q.map[h]]
  ELSE q.map

\* write_hosts_yml refuses plaintext, then creates the file anew (a host the
\* user replaces or removes is given up here) ...
Truncate(p) ==
  /\ At(p, "truncate")
  /\ IF Persistable(NewHosts(proc[p]))
     THEN /\ torn' = TRUE /\ hosts' = NoHosts
          /\ plain' = plain \ {proc[p].host}
          /\ Advance(p, proc[p])
     ELSE /\ Abort(p)
          /\ UNCHANGED <<torn, hosts, plain>>
  /\ UNCHANGED <<store, lease, backup, now, overlapped, interrupted, started>>

\* Mutant: what is written is not flushed.
WriteHostsUnflushed(p) ==
  /\ At(p, "hosts")
  /\ hosts' = Persisted(NewHosts(proc[p]))
  /\ Advance(p, [proc[p] EXCEPT !.map = NoHosts])
  /\ UNCHANGED <<store, lease, torn, backup, now, history>>

\* ... and fills it.
WriteHosts(p) ==
  /\ At(p, "hosts")
  /\ hosts' = Persisted(NewHosts(proc[p]))
  /\ torn' = FALSE
  /\ Advance(p, [proc[p] EXCEPT !.map = NoHosts])
  /\ UNCHANGED <<store, lease, backup, now, history>>

\* The process dies, or a write fails and the command returns the error.
Interrupt(p) ==
  /\ proc[p].cmd # "idle"
  /\ Abort(p)
  /\ interrupted' = TRUE
  /\ UNCHANGED <<files, now, plain, overlapped, started>>

Tick ==
  /\ now < MaxNow
  /\ now' = now + 1
  /\ UNCHANGED <<files, proc, history>>

Step(p) ==
  \/ Password(p) \/ Validate(p) \/ Absent(p) \/ Read(p) \/ Drop(p) \/ Refs(p) \/ Write(p)
  \/ Grant(p) \/ ReadLease(p) \/ Renew(p) \/ Lock(p) \/ LookUp(p) \/ Parse(p) \/ Gather(p)
  \/ EmptyBackup(p) \/ Backup(p) \/ Truncate(p) \/ WriteHosts(p)

Next == Tick \/ \E p \in Procs : Begin(p) \/ Step(p) \/ Interrupt(p)

Spec == Init /\ [][Next]_vars

----------------------------------------------------------------------------
(* Properties                                                                 *)

Entries == [Kinds -> {"none", "typed", "plain"}]
Credentials == [saved : BOOLEAN, legacy : Kinds \union {"none"}, ref : Ids \union {"none"}]

\* Type invariant.
TypeOK ==
  /\ store \in [exists : BOOLEAN, password : Passwords \union {"none"}, secrets : [Ids -> Entries]]
  /\ lease \in [exists : BOOLEAN, password : Passwords \union {"none"}, expires : Nat]
  /\ hosts \in [Hosts -> Credentials] /\ backup \in [Hosts -> Credentials]
  /\ torn \in BOOLEAN
  /\ torn => hosts = NoHosts
  /\ now \in 0 .. MaxNow
  /\ \A p \in Procs : proc[p].cmd = "idle" <=> proc[p].todo = <<>>
  /\ plain \subseteq Hosts
  /\ overlapped \in BOOLEAN /\ interrupted \in BOOLEAN /\ started \in 0 .. MaxCommands

\* No plaintext credential is lost by moving it into the keystore, wherever the
\* migration is cut off, or whatever other command runs beside it: a host's
\* credential is in hosts.yml, in the keystore, in the copy of hosts.yml or in
\* a running migration, until a command of the user replaces it. (Two commands
\* that overlap and are cut off can lose it, and so can three: two migrations,
\* the second of which replaces the copy, and a write of the keystore as it was
\* before the first.)
CredentialRecoverable ==
  \/ overlapped /\ (interrupted \/ started > 2)
  \/ \A h \in plain :
        \/ HasLegacy(h, hosts) \/ HasLegacy(h, backup)
        \/ \E k \in Kinds : store.secrets[h][k] = "plain"
        \/ \E p \in Procs : HasLegacy(h, proc[p].map)

\* A saved host never refers to a secret that is not there, as long as
\* commands do not overlap; cutting commands off does not matter.
ReferencesResolve ==
  ~overlapped => \A h \in Hosts :
                   hosts[h].ref # "none" => store.exists /\ Present(store.secrets, hosts[h].ref)

\* Between commands, none of which was cut off or overlapped with another, a
\* live lease opens the keystore.
LeaseOpensStore ==
  ~overlapped /\ ~interrupted /\ ~Busy /\ Alive
    => Opens(lease.password)

\* The keystore, the lease and hosts.yml fit together, also where commands are
\* cut off between their writes.
KeystoreSound == TypeOK /\ CredentialRecoverable /\ ReferencesResolve /\ LeaseOpensStore

\* Only unlocking grants access or prolongs it: not the rotation of the
\* password, although it writes the lease again.
OnlyUnlockGrants ==
  [][ \/ overlapped
      \/ lease'.exists => \/ lease.exists /\ lease'.expires <= lease.expires
                          \/ \E p \in Procs : At(p, "grant") /\ proc'[p] = Idle ]_vars

\* A part of a secret leaves the keystore only by a command that removes it,
\* renames the secret or replaces it.
SecretsSurvive ==
  [][ \/ overlapped
      \/ \A i \in Ids, k \in Kinds :
           store.secrets[i][k] # "none" /\ store'.secrets[i][k] = "none" =>
             \E p \in Procs :
               /\ At(p, "write")
               /\ \/ proc[p].cmd = "remove" /\ proc[p].from = i /\ proc[p].kind \in {k, "all"}
                  \/ proc[p].cmd = "rename" /\ proc[p].from = i
                  \/ proc[p].cmd = "update" /\ proc[p].id = i ]_vars

----------------------------------------------------------------------------
\* For TLC: which process runs a command and what a password is called makes
\* no difference.
Symmetry == {f @@ g : f \in Permutations(Procs), g \in Permutations(Passwords)}
=============================================================================
