--------------------------- MODULE KeystoreProofs ---------------------------
(***************************************************************************)
(* The keystore for any hosts, secrets, passwords and processes, and any   *)
(* number of commands.  Nothing locks the files, so what is promised of    *)
(* commands that do not overlap rests on what the one running command has  *)
(* read (Alone), and what is promised of two that do on the order of the   *)
(* migration's accesses: copy, keystore, hosts.yml (Pair).                 *)
(***************************************************************************)
EXTENDS Keystore, TLAPS

-----------------------------------------------------------------------------
(* Where a command can be: what is left of its program, by the next step.    *)

Is(q, commands, todo) == q.cmd \in commands /\ q.todo = todo

AtPassword(q) ==
  \/ Is(q, {"add", "update", "upsert"}, <<"password", "read", "write">>)
  \/ Is(q, {"remove"}, <<"password", "drop", "refs", "write">>)
  \/ Is(q, {"rename"}, <<"password", "drop", "refs", "write", "read", "write">>)
  \/ Is(q, {"rotate"}, <<"password", "validate", "read", "write", "readlease", "renew">>)
  \/ Is(q, {"migrate"}, <<"password", "gather", "truncate", "hosts">>)
  \/ Is(q, {"unlock"}, <<"password", "validate", "grant">>)
  \/ Is(q, {"resolve"}, <<"password">>)
  \/ Is(q, {"savehost"}, <<"password", "lookup", "parse", "truncate", "hosts">>)
  \/ Is(q, {"deploy"}, <<"password", "read", "write", "parse", "truncate", "hosts">>)

AtValidate(q) ==
  \/ Is(q, {"rotate"}, <<"validate", "read", "write", "readlease", "renew">>)
  \/ Is(q, {"unlock", "open"}, <<"validate", "grant">>)

AtAbsent(q) == Is(q, {"create", "bootstrap"}, <<"absent", "write", "grant">>)

AtRead(q) ==
  \/ Is(q, {"add", "update", "upsert", "rename"}, <<"read", "write">>)
  \/ Is(q, {"rotate"}, <<"read", "write", "readlease", "renew">>)
  \/ Is(q, {"migrate"}, <<"read", "write", "truncate", "hosts">>)
  \/ Is(q, {"bootstrap"}, <<"read", "write", "truncate", "hosts", "grant">>)
  \/ Is(q, {"deploy"}, <<"read", "write", "parse", "truncate", "hosts">>)

AtDrop(q) ==
  \/ Is(q, {"remove"}, <<"drop", "refs", "write">>)
  \/ Is(q, {"rename"}, <<"drop", "refs", "write", "read", "write">>)

AtRefs(q) ==
  \/ Is(q, {"remove"}, <<"refs", "write">>)
  \/ Is(q, {"rename"}, <<"refs", "write", "read", "write">>)

\* The first write of a keystore that was not there.
Founds(q) ==
  \/ Is(q, {"create", "bootstrap"}, <<"write", "grant">>)
  \/ Is(q, {"bootstrap"}, <<"write", "gather", "truncate", "hosts", "grant">>)

\* A secret, and for a rename what is left of it, is taken out.
TakesOut(q) ==
  \/ Is(q, {"remove"}, <<"write">>)
  \/ Is(q, {"rename"}, <<"write", "read", "write">>)

\* A migration stores the plaintext it has gathered.
Moves(q) ==
  \/ Is(q, {"migrate"}, <<"write", "truncate", "hosts">>)
  \/ Is(q, {"bootstrap"}, <<"write", "truncate", "hosts", "grant">>)

PutsIn(q) ==
  \/ Is(q, {"add", "update", "upsert", "rename"}, <<"write">>)
  \/ Is(q, {"rotate"}, <<"write", "readlease", "renew">>)
  \/ Is(q, {"deploy"}, <<"write", "parse", "truncate", "hosts">>)

AtWrite(q) == Founds(q) \/ TakesOut(q) \/ Moves(q) \/ PutsIn(q)

AtGrant(q) == Is(q, {"unlock", "open", "create", "bootstrap"}, <<"grant">>)
AtReadLease(q) == Is(q, {"rotate"}, <<"readlease", "renew">>)
AtRenew(q) == Is(q, {"rotate"}, <<"renew">>)
AtLock(q) == Is(q, {"lock"}, <<"lock">>)
AtLookUp(q) == Is(q, {"savehost"}, <<"lookup", "parse", "truncate", "hosts">>)
AtParse(q) ==
  Is(q, {"savehost", "plainhost", "removehost", "deploy"}, <<"parse", "truncate", "hosts">>)

AtGather(q) ==
  \/ Is(q, {"migrate"}, <<"gather", "truncate", "hosts">>)
  \/ Is(q, {"bootstrap"}, <<"gather", "truncate", "hosts", "grant">>)

AtEmptyBackup(q) ==
  \/ Is(q, {"migrate"}, <<"emptybackup", "backup", "read", "write", "truncate", "hosts">>)
  \/ Is(q, {"bootstrap"}, <<"emptybackup", "backup", "read", "write", "truncate", "hosts", "grant">>)

AtBackup(q) ==
  \/ Is(q, {"migrate"}, <<"backup", "read", "write", "truncate", "hosts">>)
  \/ Is(q, {"bootstrap"}, <<"backup", "read", "write", "truncate", "hosts", "grant">>)

AtTruncate(q) ==
  \/ Is(q, {"migrate", "savehost", "plainhost", "removehost", "deploy"}, <<"truncate", "hosts">>)
  \/ Is(q, {"bootstrap"}, <<"truncate", "hosts", "grant">>)

AtHosts(q) ==
  \/ Is(q, {"migrate", "savehost", "plainhost", "removehost", "deploy"}, <<"hosts">>)
  \/ Is(q, {"bootstrap"}, <<"hosts", "grant">>)

OnLine(q) ==
  \/ Is(q, {"idle"}, <<>>)
  \/ AtPassword(q) \/ AtValidate(q) \/ AtAbsent(q) \/ AtRead(q) \/ AtDrop(q) \/ AtRefs(q)
  \/ AtWrite(q) \/ AtGrant(q) \/ AtReadLease(q) \/ AtRenew(q) \/ AtLock(q) \/ AtLookUp(q)
  \/ AtParse(q) \/ AtGather(q) \/ AtEmptyBackup(q) \/ AtBackup(q) \/ AtTruncate(q) \/ AtHosts(q)

-----------------------------------------------------------------------------
(* What every command knows.                                                 *)

Shaped(q) ==
  q = [cmd |-> q.cmd, todo |-> q.todo, pw |-> q.pw, next |-> q.next, id |-> q.id,
       from |-> q.from, kind |-> q.kind, host |-> q.host,
       secrets |-> q.secrets, map |-> q.map, until |-> q.until]

Arguments(q) ==
  /\ q.pw \in Passwords \union {"none"} /\ q.next \in Passwords \union {"none"}
  /\ q.secrets \in [Ids -> Entries] /\ q.map \in [Hosts -> Credentials] /\ q.until \in Nat
  /\ q.cmd \in {"add", "update", "upsert", "rename", "deploy"} => q.id \in Ids /\ q.kind \in Kinds
  /\ q.cmd \in {"remove", "rename"} => q.from \in Ids
  /\ q.cmd = "remove" => q.kind \in Kinds \union {"all"}
  /\ q.cmd = "savehost" => q.id \in Ids
  /\ q.cmd \in {"savehost", "plainhost", "removehost", "deploy"} => q.host \in Hosts

Migrates(q) == q.cmd \in {"migrate", "bootstrap"}

Carries(q, h) == Migrates(q) /\ HasLegacy(h, q.map)

\* What a migration is about to write holds what it has gathered; a deployment
\* is about to write the key its host will refer to.
Written(q) ==
  /\ Moves(q) => \A h \in Hosts : HasLegacy(h, q.map) => q.secrets[h][q.map[h].legacy] = "plain"
  /\ AtWrite(q) /\ q.cmd = "deploy" => Present(q.secrets, q.id)

CommandInv(q) == Shaped(q) /\ Arguments(q) /\ OnLine(q) /\ Written(q)

-----------------------------------------------------------------------------
(* hosts.yml has plaintext until it is truncated for the first time.         *)

Moved == \A h \in Hosts : ~HasLegacy(h, hosts)

Unmoved == \A h \in plain : HasLegacy(h, hosts) /\ hosts[h].ref = "none"

ReadsToMove(q) == Migrates(q) /\ AtRead(q)

\* The commands that have read hosts.yml: until then they know what it says.
HasMap(q) == AtEmptyBackup(q) \/ AtBackup(q) \/ ReadsToMove(q) \/ Moves(q) \/ AtTruncate(q)

\* But for the host it is about, that is what the file still says.
Current(q) == \A h \in Hosts : \/ ~Migrates(q) /\ h = q.host
                               \/ q.map[h] = hosts[h]

\* A migration that has made its copy.
Copied(q) ==
  ReadsToMove(q) \/ Moves(q) \/ (AtTruncate(q) /\ \E h \in Hosts : Carries(q, h))

FileInv ==
  /\ ~store.exists => store.secrets = NoSecrets
  /\ Moved \/ Unmoved
  /\ ~Moved => \A p \in Procs : /\ ~AtHosts(proc[p])
                                /\ HasMap(proc[p]) => Current(proc[p])
  /\ ~Moved /\ ~interrupted /\ (\E p \in Procs : Copied(proc[p])) =>
       backup = hosts \/ \E p \in Procs : AtBackup(proc[p])

\* The keystore holds a host's plaintext, and nobody is about to take it out.
Stored(h) == \E k \in Kinds : store.secrets[h][k] = "plain"

Spares(q, h) ==
  AtRefs(q) \/ AtWrite(q) => \/ \E k \in Kinds : q.secrets[h][k] = "plain"
                              \/ h \in Replaced(q)

Safe(h) == Stored(h) /\ \A p \in Procs : Spares(proc[p], h)

\* A bootstrap that has founded the keystore.
Founded(q) == q.cmd = "bootstrap" /\ ~AtAbsent(q) /\ ~Founds(q)

Storing(q) == /\ q.cmd = "bootstrap"
              /\ AtEmptyBackup(q) \/ AtBackup(q) \/ AtRead(q) \/ Moves(q)

-----------------------------------------------------------------------------
(* Commands that do not overlap.                                             *)

Resolves(i) == store.exists /\ Present(store.secrets, i)

\* A secret that is not going to be there any more.
Vanishes(q, i) == Present(store.secrets, i) /\ ~Present(q.secrets, i)

Lost(q, i, k) == store.secrets[i][k] # "none" /\ q.secrets[i][k] = "none"

\* What the running command knows of the files.
Knows(q) ==
  /\ AtWrite(q) =>
       /\ store.exists => Opens(q.pw)
       /\ \A i \in Ids : Vanishes(q, i) => \A h \in Hosts : hosts[h].ref # i
       /\ \A i \in Ids, k \in Kinds : Lost(q, i, k) =>
            \/ q.cmd = "remove" /\ q.from = i /\ q.kind \in {k, "all"}
            \/ q.cmd = "rename" /\ q.from = i
            \/ q.cmd = "update" /\ q.id = i
  /\ AtRefs(q) => Opens(q.pw) /\ q.secrets = Removed(q, store.secrets)
  /\ Founded(q) => Opens(q.pw)
  /\ AtGrant(q) \/ (q.cmd = "rotate" /\ AtRead(q)) => Opens(q.pw)
  /\ AtReadLease(q) => Opens(q.next)
  /\ AtRenew(q) => Opens(q.next) /\ lease.exists /\ q.until = lease.expires
  /\ AtParse(q) /\ q.cmd \in {"savehost", "deploy"} => Resolves(q.id)
  /\ AtEmptyBackup(q) \/ AtBackup(q) \/ ReadsToMove(q) \/ Moves(q) => q.map = hosts
  /\ AtTruncate(q) \/ AtHosts(q) =>
       \A h \in Hosts : NewHosts(q)[h].ref # "none" => Resolves(NewHosts(q)[h].ref)
  /\ AtTruncate(q) => \A h \in Hosts : Carries(q, h) => Stored(h)

\* A live lease opens the keystore, but for a moment in a rotation.
LeaseInv ==
  \/ interrupted
  \/ \E p \in Procs : AtReadLease(proc[p]) \/ AtRenew(proc[p])
  \/ Alive => Opens(lease.password)

Alone ==
  /\ \A p, r \in Procs : proc[p].cmd # "idle" /\ proc[r].cmd # "idle" => p = r
  /\ \A p \in Procs : Knows(proc[p])
  /\ ReferencesResolve
  /\ LeaseInv
  /\ Moved => \A h \in plain : Safe(h)

-----------------------------------------------------------------------------
(* Two commands, neither of which is cut off.                                *)

Idles(p) == proc[p].cmd = "idle"

\* The keystore is not what the migration a has written: the other command has
\* ended, is no migration, or has founded the keystore and can open it.
OtherWrote(a) ==
  /\ started = 2
  /\ \/ \A r \in Procs : r = a \/ Idles(r)
     \/ \E b \in Procs : b # a /\ ~Idles(b) /\ ~Migrates(proc[b])
     \/ \E b \in Procs : b # a /\ Founded(proc[b]) /\ Opens(proc[b].pw)

\* Where a credential is that is no longer in hosts.yml: in the copy ...
InBackup(h) ==
  HasLegacy(h, backup) /\ \A p \in Procs : ~AtEmptyBackup(proc[p]) /\ ~AtBackup(proc[p])

Ending(q) == \/ Is(q, {"idle"}, <<>>) \/ AtGrant(q) \/ AtHosts(q) 

\* ... or with a bootstrap that will store it, undisturbed.
InBootstrap(h) ==
  /\ started = 2
  /\ \E b \in Procs :
       /\ Storing(proc[b]) /\ Carries(proc[b], h) /\ Opens(proc[b].pw)
       /\ \A r \in Procs : r = b \/ Ending(proc[r])

Pair ==
  /\ started = 0 => \A p \in Procs : Idles(p)
  /\ started = 1 => \A p, r \in Procs : Idles(p) \/ Idles(r) \/ p = r
  /\ \A p, r, s \in Procs : Idles(p) \/ Idles(r) \/ Idles(s) \/ p = r \/ p = s \/ r = s
  /\ ~Moved => \A a \in Procs : AtTruncate(proc[a]) /\ (\E h \in Hosts : Carries(proc[a], h)) =>
                 (\A h \in plain : Stored(h)) \/ OtherWrote(a)
  /\ Moved => \A h \in plain : InBackup(h) \/ Safe(h) \/ InBootstrap(h)

-----------------------------------------------------------------------------
IndInv ==
  /\ TypeOK
  /\ proc = [p \in Procs |-> proc[p]] /\ \A p \in Procs : CommandInv(proc[p])
  /\ FileInv
  /\ ~overlapped => Alone
  /\ ~interrupted /\ started <= 2 => Pair

-----------------------------------------------------------------------------
(* The points of a program are told apart by the step that is next.          *)

LEMMA HeadsOf ==
  ASSUME NEW q
  PROVE  /\ AtPassword(q) => Head(q.todo) = "password"
         /\ AtValidate(q) => Head(q.todo) = "validate"
         /\ AtAbsent(q) => Head(q.todo) = "absent"
         /\ AtRead(q) => Head(q.todo) = "read"
         /\ AtDrop(q) => Head(q.todo) = "drop"
         /\ AtRefs(q) => Head(q.todo) = "refs"
         /\ AtWrite(q) => Head(q.todo) = "write"
         /\ AtGrant(q) => Head(q.todo) = "grant"
         /\ AtReadLease(q) => Head(q.todo) = "readlease"
         /\ AtRenew(q) => Head(q.todo) = "renew"
         /\ AtLock(q) => Head(q.todo) = "lock"
         /\ AtLookUp(q) => Head(q.todo) = "lookup"
         /\ AtParse(q) => Head(q.todo) = "parse"
         /\ AtGather(q) => Head(q.todo) = "gather"
         /\ AtEmptyBackup(q) => Head(q.todo) = "emptybackup"
         /\ AtBackup(q) => Head(q.todo) = "backup"
         /\ AtTruncate(q) => Head(q.todo) = "truncate"
         /\ AtHosts(q) => Head(q.todo) = "hosts"
<1>1. /\ AtPassword(q) => Head(q.todo) = "password"
      /\ AtValidate(q) => Head(q.todo) = "validate"
      /\ AtAbsent(q) => Head(q.todo) = "absent"
  BY DEF AtPassword, AtValidate, AtAbsent, Is
<1>2. /\ AtRead(q) => Head(q.todo) = "read"
      /\ AtDrop(q) => Head(q.todo) = "drop"
      /\ AtRefs(q) => Head(q.todo) = "refs"
  BY DEF AtRead, AtDrop, AtRefs, Is
<1>3. AtWrite(q) => Head(q.todo) = "write"
  BY DEF AtWrite, Founds, TakesOut, Moves, PutsIn, Is
<1>4. /\ AtGrant(q) => Head(q.todo) = "grant"
      /\ AtReadLease(q) => Head(q.todo) = "readlease"
      /\ AtRenew(q) => Head(q.todo) = "renew"
      /\ AtLock(q) => Head(q.todo) = "lock"
      /\ AtLookUp(q) => Head(q.todo) = "lookup"
      /\ AtParse(q) => Head(q.todo) = "parse"
  BY DEF AtGrant, AtReadLease, AtRenew, AtLock, AtLookUp, AtParse, Is
<1>5. /\ AtGather(q) => Head(q.todo) = "gather"
      /\ AtEmptyBackup(q) => Head(q.todo) = "emptybackup"
      /\ AtBackup(q) => Head(q.todo) = "backup"
      /\ AtTruncate(q) => Head(q.todo) = "truncate"
      /\ AtHosts(q) => Head(q.todo) = "hosts"
  BY DEF AtGather, AtEmptyBackup, AtBackup, AtTruncate, AtHosts, Is
<1> QED
  BY <1>1, <1>2, <1>3, <1>4, <1>5

\* The commands that pass through a point.
LEMMA CommandsOf ==
  ASSUME NEW q
  PROVE  /\ AtPassword(q) => q.cmd \notin {"idle", "bootstrap", "create"}
         /\ AtValidate(q) => q.cmd \in {"rotate", "unlock", "open"}
         /\ AtAbsent(q) => q.cmd \in {"create", "bootstrap"}
         /\ AtRead(q) => q.cmd \in {"add", "update", "upsert", "rename", "rotate", "migrate",
                                    "bootstrap", "deploy"}
         /\ AtDrop(q) => q.cmd \in {"remove", "rename"}
         /\ AtRefs(q) => q.cmd \in {"remove", "rename"}
         /\ AtGrant(q) => q.cmd \in {"unlock", "open", "create", "bootstrap"}
         /\ AtReadLease(q) \/ AtRenew(q) => q.cmd = "rotate"
         /\ AtLock(q) => q.cmd = "lock"
         /\ AtLookUp(q) => q.cmd = "savehost"
         /\ AtParse(q) => q.cmd \in {"savehost", "plainhost", "removehost", "deploy"}
         /\ AtGather(q) \/ AtEmptyBackup(q) \/ AtBackup(q) => q.cmd \in {"migrate", "bootstrap"}
         /\ AtTruncate(q) \/ AtHosts(q) =>
              q.cmd \in {"migrate", "bootstrap", "savehost", "plainhost", "removehost", "deploy"}
<1>1. /\ AtPassword(q) => q.cmd \notin {"idle", "bootstrap", "create"}
      /\ AtValidate(q) => q.cmd \in {"rotate", "unlock", "open"}
      /\ AtAbsent(q) => q.cmd \in {"create", "bootstrap"}
      /\ AtRead(q) => q.cmd \in {"add", "update", "upsert", "rename", "rotate", "migrate",
                                 "bootstrap", "deploy"}
  BY DEF AtPassword, AtValidate, AtAbsent, AtRead, Is
<1>2. /\ AtDrop(q) => q.cmd \in {"remove", "rename"}
      /\ AtRefs(q) => q.cmd \in {"remove", "rename"}
      /\ AtGrant(q) => q.cmd \in {"unlock", "open", "create", "bootstrap"}
      /\ AtReadLease(q) \/ AtRenew(q) => q.cmd = "rotate"
      /\ AtLock(q) => q.cmd = "lock"
      /\ AtLookUp(q) => q.cmd = "savehost"
      /\ AtParse(q) => q.cmd \in {"savehost", "plainhost", "removehost", "deploy"}
  BY DEF AtDrop, AtRefs, AtGrant, AtReadLease, AtRenew, AtLock, AtLookUp, AtParse, Is
<1>3. /\ AtGather(q) \/ AtEmptyBackup(q) \/ AtBackup(q) => q.cmd \in {"migrate", "bootstrap"}
      /\ AtTruncate(q) \/ AtHosts(q) =>
           q.cmd \in {"migrate", "bootstrap", "savehost", "plainhost", "removehost", "deploy"}
  BY DEF AtGather, AtEmptyBackup, AtBackup, AtTruncate, AtHosts, Is
<1> QED
  BY <1>1, <1>2, <1>3

LEMMA Writers ==
  ASSUME NEW q
  PROVE  /\ Founds(q) => q.cmd \in {"create", "bootstrap"} /\ ~Moves(q)
         /\ TakesOut(q) => q.cmd \in {"remove", "rename"} /\ ~Moves(q) /\ ~Founds(q)
         /\ Moves(q) => q.cmd \in {"migrate", "bootstrap"}
         /\ PutsIn(q) => /\ q.cmd \in {"add", "update", "upsert", "rename", "rotate", "deploy"}
                         /\ ~Moves(q) /\ ~Founds(q) /\ ~TakesOut(q)
         /\ Founds(q) \/ TakesOut(q) \/ Moves(q) \/ PutsIn(q) => AtWrite(q)
BY DEF Founds, TakesOut, Moves, PutsIn, AtWrite, Is

\* A command that is on its line and about to take a step is at its point.
LEMMA PointOf ==
  ASSUME NEW p, OnLine(proc[p])
  PROVE  /\ At(p, "password") => AtPassword(proc[p])
         /\ At(p, "validate") => AtValidate(proc[p])
         /\ At(p, "absent") => AtAbsent(proc[p])
         /\ At(p, "read") => AtRead(proc[p])
         /\ At(p, "drop") => AtDrop(proc[p])
         /\ At(p, "refs") => AtRefs(proc[p])
         /\ At(p, "write") => AtWrite(proc[p])
         /\ At(p, "grant") => AtGrant(proc[p])
         /\ At(p, "readlease") => AtReadLease(proc[p])
         /\ At(p, "renew") => AtRenew(proc[p])
         /\ At(p, "lock") => AtLock(proc[p])
         /\ At(p, "lookup") => AtLookUp(proc[p])
         /\ At(p, "parse") => AtParse(proc[p])
         /\ At(p, "gather") => AtGather(proc[p])
         /\ At(p, "emptybackup") => AtEmptyBackup(proc[p])
         /\ At(p, "backup") => AtBackup(proc[p])
         /\ At(p, "truncate") => AtTruncate(proc[p])
         /\ At(p, "hosts") => AtHosts(proc[p])
BY HeadsOf DEF OnLine, At, Is

\* A command at a point runs.
LEMMA Running ==
  ASSUME NEW q, OnLine(q), q.todo # <<>>
  PROVE  q.cmd # "idle" /\ ~Is(q, {"idle"}, <<>>)
BY CommandsOf, Writers DEF OnLine, Is, AtWrite

\* Programs have up to nine steps.
LEMMA Lengths ==
  /\ \A a : Len(<<a>>) = 1
  /\ \A a, b : Len(<<a, b>>) = 2
  /\ \A a, b, c : Len(<<a, b, c>>) = 3
  /\ \A a, b, c, d : Len(<<a, b, c, d>>) = 4
  /\ \A a, b, c, d, e : Len(<<a, b, c, d, e>>) = 5
  /\ \A a, b, c, d, e, f : Len(<<a, b, c, d, e, f>>) = 6
  /\ \A a, b, c, d, e, f, g : Len(<<a, b, c, d, e, f, g>>) = 7
  /\ \A a, b, c, d, e, f, g, h : Len(<<a, b, c, d, e, f, g, h>>) = 8
  /\ \A a, b, c, d, e, f, g, h, i : Len(<<a, b, c, d, e, f, g, h, i>>) = 9
OBVIOUS

\* A command is idle when nothing of its program is left, and only then.
LEMMA Ready ==
  ASSUME NEW q, OnLine(q)
  PROVE  q.cmd = "idle" <=> q.todo = <<>>
<1>1. AtPassword(q) => Len(q.todo) \in {1, 3, 4, 5, 6}
  BY Lengths DEF AtPassword, Is
<1>2. AtValidate(q) => Len(q.todo) \in {2, 5}
  BY Lengths DEF AtValidate, Is
<1>3. AtAbsent(q) => Len(q.todo) = 3
  BY Lengths DEF AtAbsent, Is
<1>4. AtRead(q) => Len(q.todo) \in {2, 4, 5}
  BY Lengths DEF AtRead, Is
<1>5. AtDrop(q) => Len(q.todo) \in {3, 5}
  BY Lengths DEF AtDrop, Is
<1>6. AtRefs(q) => Len(q.todo) \in {2, 4}
  BY Lengths DEF AtRefs, Is
<1>7. Founds(q) => Len(q.todo) \in {2, 5}
  BY Lengths DEF Founds, Is
<1>8. TakesOut(q) => Len(q.todo) \in {1, 3}
  BY Lengths DEF TakesOut, Is
<1>9. Moves(q) => Len(q.todo) \in {3, 4}
  BY Lengths DEF Moves, Is
<1>10. PutsIn(q) => Len(q.todo) \in {1, 3, 4}
  BY Lengths DEF PutsIn, Is
<1>11. AtGrant(q) => Len(q.todo) = 1
  BY Lengths DEF AtGrant, Is
<1>12. AtReadLease(q) => Len(q.todo) = 2
  BY Lengths DEF AtReadLease, Is
<1>13. AtRenew(q) => Len(q.todo) = 1
  BY Lengths DEF AtRenew, Is
<1>14. AtLock(q) => Len(q.todo) = 1
  BY Lengths DEF AtLock, Is
<1>15. AtLookUp(q) => Len(q.todo) = 4
  BY Lengths DEF AtLookUp, Is
<1>16. AtParse(q) => Len(q.todo) = 3
  BY Lengths DEF AtParse, Is
<1>17. AtGather(q) => Len(q.todo) \in {3, 4}
  BY Lengths DEF AtGather, Is
<1>18. AtEmptyBackup(q) => Len(q.todo) \in {6, 7}
  BY Lengths DEF AtEmptyBackup, Is
<1>19. AtBackup(q) => Len(q.todo) \in {5, 6}
  BY Lengths DEF AtBackup, Is
<1>20. AtTruncate(q) => Len(q.todo) \in {2, 3}
  BY Lengths DEF AtTruncate, Is
<1>21. AtHosts(q) => Len(q.todo) \in {1, 2}
  BY Lengths DEF AtHosts, Is
<1>22. q.cmd # "idle" => Len(q.todo) # 0
  BY <1>1, <1>2, <1>3, <1>4, <1>5, <1>6, <1>7, <1>8, <1>9, <1>10, <1>11, <1>12, <1>13, <1>14, <1>15, <1>16, <1>17, <1>18, <1>19, <1>20, <1>21
     DEF OnLine, AtWrite, Is
<1> QED
  BY <1>22, CommandsOf, Writers DEF OnLine, Is, AtWrite

-----------------------------------------------------------------------------
(* The next point of a command.                                              *)

After(q) == IF Len(q.todo) = 1 THEN Idle ELSE [q EXCEPT !.todo = Tail(@)]

Same(r, q) ==
  /\ r.cmd = q.cmd /\ r.pw = q.pw /\ r.next = q.next /\ r.id = q.id /\ r.from = q.from
  /\ r.kind = q.kind /\ r.host = q.host /\ r.secrets = q.secrets /\ r.map = q.map
  /\ r.until = q.until

LEMMA AfterFields ==
  ASSUME NEW q, Shaped(q)
  PROVE  /\ Len(q.todo) = 1 => After(q) = Idle
         /\ Len(q.todo) # 1 => /\ Shaped(After(q)) /\ Same(After(q), q)
                               /\ After(q).todo = Tail(q.todo)
BY DEF After, Shaped, Same

\* What is left of a program after its first step.
LEMMA Tails ==
  /\ \A a, b : Tail(<<a, b>>) = <<b>>
  /\ \A a, b, c : Tail(<<a, b, c>>) = <<b, c>>
  /\ \A a, b, c, d : Tail(<<a, b, c, d>>) = <<b, c, d>>
  /\ \A a, b, c, d, e : Tail(<<a, b, c, d, e>>) = <<b, c, d, e>>
  /\ \A a, b, c, d, e, f : Tail(<<a, b, c, d, e, f>>) = <<b, c, d, e, f>>
  /\ \A a, b, c, d, e, f, g : Tail(<<a, b, c, d, e, f, g>>) = <<b, c, d, e, f, g>>
  /\ \A a, b, c, d, e, f, g, h : Tail(<<a, b, c, d, e, f, g, h>>) = <<b, c, d, e, f, g, h>>
OBVIOUS

LEMMA Ends ==
  ASSUME NEW q, Shaped(q), NEW C, NEW t, Is(q, C, t), Len(t) = 1
  PROVE  After(q) = Idle
BY AfterFields DEF Is

LEMMA FollowsPassword ==
  ASSUME NEW q, Shaped(q), AtPassword(q)
  PROVE  \/ After(q) = Idle
         \/ AtRead(After(q)) /\ q.cmd \in {"add", "update", "upsert", "deploy"}
         \/ AtValidate(After(q)) \/ AtDrop(After(q)) \/ AtGather(After(q)) \/ AtLookUp(After(q))
<1>1. CASE Is(q, {"add", "update", "upsert"}, <<"password", "read", "write">>)
  <2>1. Len(q.todo) # 1 /\ Tail(q.todo) = <<"read", "write">> /\ q.cmd \in {"add", "update", "upsert"}
    BY <1>1, Lengths, Tails DEF Is
  <2> QED
    BY <2>1, AfterFields DEF Same, AtRead, Is
<1>2. CASE Is(q, {"remove"}, <<"password", "drop", "refs", "write">>)
  <2>1. Len(q.todo) # 1 /\ Tail(q.todo) = <<"drop", "refs", "write">> /\ q.cmd = "remove"
    BY <1>2, Lengths, Tails DEF Is
  <2> QED
    BY <2>1, AfterFields DEF Same, AtDrop, Is
<1>3. CASE Is(q, {"rename"}, <<"password", "drop", "refs", "write", "read", "write">>)
  <2>1. Len(q.todo) # 1 /\ Tail(q.todo) = <<"drop", "refs", "write", "read", "write">> /\ q.cmd = "rename"
    BY <1>3, Lengths, Tails DEF Is
  <2> QED
    BY <2>1, AfterFields DEF Same, AtDrop, Is
<1>4. CASE Is(q, {"rotate"}, <<"password", "validate", "read", "write", "readlease", "renew">>)
  <2>1. Len(q.todo) # 1 /\ Tail(q.todo) = <<"validate", "read", "write", "readlease", "renew">> /\ q.cmd = "rotate"
    BY <1>4, Lengths, Tails DEF Is
  <2> QED
    BY <2>1, AfterFields DEF Same, AtValidate, Is
<1>5. CASE Is(q, {"migrate"}, <<"password", "gather", "truncate", "hosts">>)
  <2>1. Len(q.todo) # 1 /\ Tail(q.todo) = <<"gather", "truncate", "hosts">> /\ q.cmd = "migrate"
    BY <1>5, Lengths, Tails DEF Is
  <2> QED
    BY <2>1, AfterFields DEF Same, AtGather, Is
<1>6. CASE Is(q, {"unlock"}, <<"password", "validate", "grant">>)
  <2>1. Len(q.todo) # 1 /\ Tail(q.todo) = <<"validate", "grant">> /\ q.cmd = "unlock"
    BY <1>6, Lengths, Tails DEF Is
  <2> QED
    BY <2>1, AfterFields DEF Same, AtValidate, Is
<1>7. CASE Is(q, {"resolve"}, <<"password">>)
  BY <1>7, Ends, Lengths
<1>8. CASE Is(q, {"savehost"}, <<"password", "lookup", "parse", "truncate", "hosts">>)
  <2>1. Len(q.todo) # 1 /\ Tail(q.todo) = <<"lookup", "parse", "truncate", "hosts">> /\ q.cmd = "savehost"
    BY <1>8, Lengths, Tails DEF Is
  <2> QED
    BY <2>1, AfterFields DEF Same, AtLookUp, Is
<1>9. CASE Is(q, {"deploy"}, <<"password", "read", "write", "parse", "truncate", "hosts">>)
  <2>1. Len(q.todo) # 1 /\ Tail(q.todo) = <<"read", "write", "parse", "truncate", "hosts">> /\ q.cmd = "deploy"
    BY <1>9, Lengths, Tails DEF Is
  <2> QED
    BY <2>1, AfterFields DEF Same, AtRead, Is
<1> QED
  BY <1>1, <1>2, <1>3, <1>4, <1>5, <1>6, <1>7, <1>8, <1>9 DEF AtPassword

LEMMA FollowsRead ==
  ASSUME NEW q, Shaped(q), AtRead(q)
  PROVE  /\ Migrates(q) => Moves(After(q))
         /\ ~Migrates(q) => PutsIn(After(q))
<1>1. CASE Is(q, {"add", "update", "upsert", "rename"}, <<"read", "write">>)
  <2>1. Len(q.todo) # 1 /\ Tail(q.todo) = <<"write">> /\ q.cmd \in {"add", "update", "upsert", "rename"}
    BY <1>1, Lengths, Tails DEF Is
  <2> QED
    BY <2>1, AfterFields DEF Same, PutsIn, Is, Migrates
<1>2. CASE Is(q, {"rotate"}, <<"read", "write", "readlease", "renew">>)
  <2>1. Len(q.todo) # 1 /\ Tail(q.todo) = <<"write", "readlease", "renew">> /\ q.cmd = "rotate"
    BY <1>2, Lengths, Tails DEF Is
  <2> QED
    BY <2>1, AfterFields DEF Same, PutsIn, Is, Migrates
<1>3. CASE Is(q, {"migrate"}, <<"read", "write", "truncate", "hosts">>)
  <2>1. Len(q.todo) # 1 /\ Tail(q.todo) = <<"write", "truncate", "hosts">> /\ q.cmd = "migrate"
    BY <1>3, Lengths, Tails DEF Is
  <2> QED
    BY <2>1, AfterFields DEF Same, Moves, Is, Migrates
<1>4. CASE Is(q, {"bootstrap"}, <<"read", "write", "truncate", "hosts", "grant">>)
  <2>1. Len(q.todo) # 1 /\ Tail(q.todo) = <<"write", "truncate", "hosts", "grant">> /\ q.cmd = "bootstrap"
    BY <1>4, Lengths, Tails DEF Is
  <2> QED
    BY <2>1, AfterFields DEF Same, Moves, Is, Migrates
<1>5. CASE Is(q, {"deploy"}, <<"read", "write", "parse", "truncate", "hosts">>)
  <2>1. Len(q.todo) # 1 /\ Tail(q.todo) = <<"write", "parse", "truncate", "hosts">> /\ q.cmd = "deploy"
    BY <1>5, Lengths, Tails DEF Is
  <2> QED
    BY <2>1, AfterFields DEF Same, PutsIn, Is, Migrates
<1> QED
  BY <1>1, <1>2, <1>3, <1>4, <1>5 DEF AtRead

LEMMA FollowsWrite ==
  ASSUME NEW q, Shaped(q), AtWrite(q)
  PROVE  /\ Founds(q) => AtGrant(After(q)) \/ (AtGather(After(q)) /\ q.cmd = "bootstrap")
         /\ TakesOut(q) => After(q) = Idle \/ (AtRead(After(q)) /\ q.cmd = "rename")
         /\ Moves(q) => AtTruncate(After(q))
         /\ PutsIn(q) => \/ After(q) = Idle /\ q.cmd \notin {"rotate", "deploy"}
                         \/ AtReadLease(After(q)) /\ q.cmd = "rotate"
                         \/ AtParse(After(q)) /\ q.cmd = "deploy"
<1>1. ASSUME Founds(q)  PROVE AtGrant(After(q)) \/ (AtGather(After(q)) /\ q.cmd = "bootstrap")
  <2>1. CASE Is(q, {"create", "bootstrap"}, <<"write", "grant">>)
    <3>1. Len(q.todo) # 1 /\ Tail(q.todo) = <<"grant">> /\ q.cmd \in {"create", "bootstrap"}
      BY <2>1, Lengths, Tails DEF Is
    <3> QED
      BY <3>1, AfterFields DEF Same, AtGrant, Is
  <2>2. CASE Is(q, {"bootstrap"}, <<"write", "gather", "truncate", "hosts", "grant">>)
    <3>1. Len(q.todo) # 1 /\ Tail(q.todo) = <<"gather", "truncate", "hosts", "grant">> /\ q.cmd = "bootstrap"
      BY <2>2, Lengths, Tails DEF Is
    <3> QED
      BY <3>1, AfterFields DEF Same, AtGather, Is
  <2> QED
    BY <1>1, <2>1, <2>2 DEF Founds
<1>2. ASSUME TakesOut(q)  PROVE After(q) = Idle \/ (AtRead(After(q)) /\ q.cmd = "rename")
  <2>1. CASE Is(q, {"remove"}, <<"write">>)
    BY <2>1, Ends, Lengths
  <2>2. CASE Is(q, {"rename"}, <<"write", "read", "write">>)
    <3>1. Len(q.todo) # 1 /\ Tail(q.todo) = <<"read", "write">> /\ q.cmd = "rename"
      BY <2>2, Lengths, Tails DEF Is
    <3> QED
      BY <3>1, AfterFields DEF Same, AtRead, Is
  <2> QED
    BY <1>2, <2>1, <2>2 DEF TakesOut
<1>3. ASSUME Moves(q)  PROVE AtTruncate(After(q))
  <2>1. CASE Is(q, {"migrate"}, <<"write", "truncate", "hosts">>)
    <3>1. Len(q.todo) # 1 /\ Tail(q.todo) = <<"truncate", "hosts">> /\ q.cmd = "migrate"
      BY <2>1, Lengths, Tails DEF Is
    <3> QED
      BY <3>1, AfterFields DEF Same, AtTruncate, Is
  <2>2. CASE Is(q, {"bootstrap"}, <<"write", "truncate", "hosts", "grant">>)
    <3>1. Len(q.todo) # 1 /\ Tail(q.todo) = <<"truncate", "hosts", "grant">> /\ q.cmd = "bootstrap"
      BY <2>2, Lengths, Tails DEF Is
    <3> QED
      BY <3>1, AfterFields DEF Same, AtTruncate, Is
  <2> QED
    BY <1>3, <2>1, <2>2 DEF Moves
<1>4. ASSUME PutsIn(q)
      PROVE  \/ After(q) = Idle /\ q.cmd \notin {"rotate", "deploy"}
             \/ AtReadLease(After(q)) /\ q.cmd = "rotate"
             \/ AtParse(After(q)) /\ q.cmd = "deploy"
  <2>1. CASE Is(q, {"add", "update", "upsert", "rename"}, <<"write">>)
    <3>1. After(q) = Idle
      BY <2>1, Ends, Lengths
    <3> QED
      BY <2>1, <3>1 DEF Is
  <2>2. CASE Is(q, {"rotate"}, <<"write", "readlease", "renew">>)
    <3>1. Len(q.todo) # 1 /\ Tail(q.todo) = <<"readlease", "renew">> /\ q.cmd = "rotate"
      BY <2>2, Lengths, Tails DEF Is
    <3> QED
      BY <3>1, AfterFields DEF Same, AtReadLease, Is
  <2>3. CASE Is(q, {"deploy"}, <<"write", "parse", "truncate", "hosts">>)
    <3>1. Len(q.todo) # 1 /\ Tail(q.todo) = <<"parse", "truncate", "hosts">> /\ q.cmd = "deploy"
      BY <2>3, Lengths, Tails DEF Is
    <3> QED
      BY <3>1, AfterFields DEF Same, AtParse, Is
  <2> QED
    BY <1>4, <2>1, <2>2, <2>3 DEF PutsIn
<1> QED
  BY <1>1, <1>2, <1>3, <1>4

LEMMA FollowsValidate ==
  ASSUME NEW q, Shaped(q), AtValidate(q)
  PROVE  (AtRead(After(q)) /\ q.cmd = "rotate") \/ AtGrant(After(q))
<1>1. CASE Is(q, {"rotate"}, <<"validate", "read", "write", "readlease", "renew">>)
  <2>1. Len(q.todo) # 1 /\ Tail(q.todo) = <<"read", "write", "readlease", "renew">> /\ q.cmd = "rotate"
    BY <1>1, Lengths, Tails DEF Is
  <2> QED
    BY <2>1, AfterFields DEF Same, AtRead, Is
<1>2. CASE Is(q, {"unlock", "open"}, <<"validate", "grant">>)
  <2>1. Len(q.todo) # 1 /\ Tail(q.todo) = <<"grant">> /\ q.cmd \in {"unlock", "open"}
    BY <1>2, Lengths, Tails DEF Is
  <2> QED
    BY <2>1, AfterFields DEF Same, AtGrant, Is
<1> QED
  BY <1>1, <1>2 DEF AtValidate

LEMMA FollowsDrop ==
  ASSUME NEW q, Shaped(q), AtDrop(q)
  PROVE  AtRefs(After(q))
<1>1. CASE Is(q, {"remove"}, <<"drop", "refs", "write">>)
  <2>1. Len(q.todo) # 1 /\ Tail(q.todo) = <<"refs", "write">> /\ q.cmd = "remove"
    BY <1>1, Lengths, Tails DEF Is
  <2> QED
    BY <2>1, AfterFields DEF Same, AtRefs, Is
<1>2. CASE Is(q, {"rename"}, <<"drop", "refs", "write", "read", "write">>)
  <2>1. Len(q.todo) # 1 /\ Tail(q.todo) = <<"refs", "write", "read", "write">> /\ q.cmd = "rename"
    BY <1>2, Lengths, Tails DEF Is
  <2> QED
    BY <2>1, AfterFields DEF Same, AtRefs, Is
<1> QED
  BY <1>1, <1>2 DEF AtDrop

LEMMA FollowsRefs ==
  ASSUME NEW q, Shaped(q), AtRefs(q)
  PROVE  TakesOut(After(q))
<1>1. CASE Is(q, {"remove"}, <<"refs", "write">>)
  <2>1. Len(q.todo) # 1 /\ Tail(q.todo) = <<"write">> /\ q.cmd = "remove"
    BY <1>1, Lengths, Tails DEF Is
  <2> QED
    BY <2>1, AfterFields DEF Same, TakesOut, Is
<1>2. CASE Is(q, {"rename"}, <<"refs", "write", "read", "write">>)
  <2>1. Len(q.todo) # 1 /\ Tail(q.todo) = <<"write", "read", "write">> /\ q.cmd = "rename"
    BY <1>2, Lengths, Tails DEF Is
  <2> QED
    BY <2>1, AfterFields DEF Same, TakesOut, Is
<1> QED
  BY <1>1, <1>2 DEF AtRefs

LEMMA FollowsEmptyBackup ==
  ASSUME NEW q, Shaped(q), AtEmptyBackup(q)
  PROVE  AtBackup(After(q))
<1>1. CASE Is(q, {"migrate"}, <<"emptybackup", "backup", "read", "write", "truncate", "hosts">>)
  <2>1. Len(q.todo) # 1 /\ Tail(q.todo) = <<"backup", "read", "write", "truncate", "hosts">> /\ q.cmd = "migrate"
    BY <1>1, Lengths, Tails DEF Is
  <2> QED
    BY <2>1, AfterFields DEF Same, AtBackup, Is
<1>2. CASE Is(q, {"bootstrap"}, <<"emptybackup", "backup", "read", "write", "truncate", "hosts", "grant">>)
  <2>1. Len(q.todo) # 1 /\ Tail(q.todo) = <<"backup", "read", "write", "truncate", "hosts", "grant">> /\ q.cmd = "bootstrap"
    BY <1>2, Lengths, Tails DEF Is
  <2> QED
    BY <2>1, AfterFields DEF Same, AtBackup, Is
<1> QED
  BY <1>1, <1>2 DEF AtEmptyBackup

LEMMA FollowsBackup ==
  ASSUME NEW q, Shaped(q), AtBackup(q)
  PROVE  AtRead(After(q)) /\ Migrates(q)
<1>1. CASE Is(q, {"migrate"}, <<"backup", "read", "write", "truncate", "hosts">>)
  <2>1. Len(q.todo) # 1 /\ Tail(q.todo) = <<"read", "write", "truncate", "hosts">> /\ q.cmd = "migrate"
    BY <1>1, Lengths, Tails DEF Is
  <2> QED
    BY <2>1, AfterFields DEF Same, AtRead, Migrates, Is
<1>2. CASE Is(q, {"bootstrap"}, <<"backup", "read", "write", "truncate", "hosts", "grant">>)
  <2>1. Len(q.todo) # 1 /\ Tail(q.todo) = <<"read", "write", "truncate", "hosts", "grant">> /\ q.cmd = "bootstrap"
    BY <1>2, Lengths, Tails DEF Is
  <2> QED
    BY <2>1, AfterFields DEF Same, AtRead, Migrates, Is
<1> QED
  BY <1>1, <1>2 DEF AtBackup

\* Without plaintext a migration goes on to write hosts.yml.
LEMMA FollowsGather ==
  ASSUME NEW q, Shaped(q), AtGather(q)
  PROVE  AtTruncate(After(q))
<1>1. CASE Is(q, {"migrate"}, <<"gather", "truncate", "hosts">>)
  <2>1. Len(q.todo) # 1 /\ Tail(q.todo) = <<"truncate", "hosts">> /\ q.cmd = "migrate"
    BY <1>1, Lengths, Tails DEF Is
  <2> QED
    BY <2>1, AfterFields DEF Same, AtTruncate, Is
<1>2. CASE Is(q, {"bootstrap"}, <<"gather", "truncate", "hosts", "grant">>)
  <2>1. Len(q.todo) # 1 /\ Tail(q.todo) = <<"truncate", "hosts", "grant">> /\ q.cmd = "bootstrap"
    BY <1>2, Lengths, Tails DEF Is
  <2> QED
    BY <2>1, AfterFields DEF Same, AtTruncate, Is
<1> QED
  BY <1>1, <1>2 DEF AtGather

LEMMA FollowsTruncate ==
  ASSUME NEW q, Shaped(q), AtTruncate(q)
  PROVE  AtHosts(After(q))
<1>1. CASE Is(q, {"migrate", "savehost", "plainhost", "removehost", "deploy"}, <<"truncate", "hosts">>)
  <2>1. Len(q.todo) # 1 /\ Tail(q.todo) = <<"hosts">> /\ q.cmd \in {"migrate", "savehost", "plainhost", "removehost", "deploy"}
    BY <1>1, Lengths, Tails DEF Is
  <2> QED
    BY <2>1, AfterFields DEF Same, AtHosts, Is
<1>2. CASE Is(q, {"bootstrap"}, <<"truncate", "hosts", "grant">>)
  <2>1. Len(q.todo) # 1 /\ Tail(q.todo) = <<"hosts", "grant">> /\ q.cmd = "bootstrap"
    BY <1>2, Lengths, Tails DEF Is
  <2> QED
    BY <2>1, AfterFields DEF Same, AtHosts, Is
<1> QED
  BY <1>1, <1>2 DEF AtTruncate

LEMMA FollowsHosts ==
  ASSUME NEW q, Shaped(q), AtHosts(q)
  PROVE  \/ After(q) = Idle /\ q.cmd # "bootstrap"
         \/ AtGrant(After(q)) /\ q.cmd = "bootstrap"
<1>1. CASE Is(q, {"migrate", "savehost", "plainhost", "removehost", "deploy"}, <<"hosts">>)
  <2>1. After(q) = Idle
    BY <1>1, Ends, Lengths
  <2> QED
    BY <1>1, <2>1 DEF Is
<1>2. CASE Is(q, {"bootstrap"}, <<"hosts", "grant">>)
  <2>1. Len(q.todo) # 1 /\ Tail(q.todo) = <<"grant">> /\ q.cmd = "bootstrap"
    BY <1>2, Lengths, Tails DEF Is
  <2> QED
    BY <2>1, AfterFields DEF Same, AtGrant, Is
<1> QED
  BY <1>1, <1>2 DEF AtHosts

LEMMA FollowsGrant ==
  ASSUME NEW q, Shaped(q), AtGrant(q)
  PROVE  After(q) = Idle
BY Ends, Lengths DEF AtGrant

LEMMA FollowsReadLease ==
  ASSUME NEW q, Shaped(q), AtReadLease(q)
  PROVE  AtRenew(After(q))
<1>1. Len(q.todo) # 1 /\ Tail(q.todo) = <<"renew">>
  BY Lengths, Tails DEF AtReadLease, Is
<1> QED
  BY <1>1, AfterFields DEF Same, AtReadLease, AtRenew, Is

LEMMA FollowsRenew ==
  ASSUME NEW q, Shaped(q), AtRenew(q)
  PROVE  After(q) = Idle
BY Ends, Lengths DEF AtRenew

LEMMA FollowsLock ==
  ASSUME NEW q, Shaped(q), AtLock(q)
  PROVE  After(q) = Idle
BY Ends, Lengths DEF AtLock

LEMMA FollowsLookUp ==
  ASSUME NEW q, Shaped(q), AtLookUp(q)
  PROVE  AtParse(After(q))
<1>1. Len(q.todo) # 1 /\ Tail(q.todo) = <<"parse", "truncate", "hosts">>
  BY Lengths, Tails DEF AtLookUp, Is
<1> QED
  BY <1>1, AfterFields DEF Same, AtLookUp, AtParse, Is

LEMMA FollowsParse ==
  ASSUME NEW q, Shaped(q), AtParse(q)
  PROVE  AtTruncate(After(q))
<1>1. Len(q.todo) # 1 /\ Tail(q.todo) = <<"truncate", "hosts">>
  BY Lengths, Tails DEF AtParse, Is
<1> QED
  BY <1>1, AfterFields DEF Same, AtParse, AtTruncate, Is

\* With plaintext it makes its copy first.
LEMMA FollowsMove ==
  ASSUME NEW q, Shaped(q), q.cmd \in {"migrate", "bootstrap"}, q.todo = MoveSecrets[q.cmd]
  PROVE  AtEmptyBackup(After(q))
<1>1. CASE q.cmd = "migrate"
  <2>1. q.todo = <<"gather", "emptybackup", "backup", "read", "write", "truncate", "hosts">>
    BY <1>1 DEF MoveSecrets
  <2>2. Len(q.todo) # 1 /\ Tail(q.todo) = <<"emptybackup", "backup", "read", "write", "truncate", "hosts">>
    BY <2>1, Lengths, Tails
  <2> QED
    BY <1>1, <2>2, AfterFields DEF Same, AtEmptyBackup, Is
<1>2. CASE q.cmd = "bootstrap"
  <2>1. q.todo = <<"gather", "emptybackup", "backup", "read", "write", "truncate", "hosts", "grant">>
    BY <1>2 DEF MoveSecrets
  <2>2. /\ Len(q.todo) # 1
        /\ Tail(q.todo) = <<"emptybackup", "backup", "read", "write", "truncate", "hosts", "grant">>
    BY <2>1, Lengths, Tails
  <2> QED
    BY <1>2, <2>2, AfterFields DEF Same, AtEmptyBackup, Is
<1> QED
  BY <1>1, <1>2

\* A keystore is founded alone, or with the migration of the hosts to follow.
LEMMA FollowsAbsent ==
  ASSUME NEW q, Shaped(q),
         \/ AtAbsent(q)
         \/ Is(q, {"bootstrap"}, <<"absent", "write", "gather", "truncate", "hosts", "grant">>)
  PROVE  Founds(After(q))
<1>1. CASE AtAbsent(q)
  <2>1. Len(q.todo) # 1 /\ Tail(q.todo) = <<"write", "grant">> /\ q.cmd \in {"create", "bootstrap"}
    BY <1>1, Lengths, Tails DEF AtAbsent, Is
  <2> QED
    BY <2>1, AfterFields DEF Same, Founds, Is
<1>2. CASE Is(q, {"bootstrap"}, <<"absent", "write", "gather", "truncate", "hosts", "grant">>)
  <2>1. Len(q.todo) # 1 /\ Tail(q.todo) = <<"write", "gather", "truncate", "hosts", "grant">> /\ q.cmd = "bootstrap"
    BY <1>2, Lengths, Tails DEF Is
  <2> QED
    BY <2>1, AfterFields DEF Same, Founds, Is
<1> QED
  BY <1>1, <1>2

-----------------------------------------------------------------------------
(* What a step does to the command that takes it: it ends or is at the next  *)
(* point.                                                                    *)

LEMMA IdleHolds == CommandInv(Idle) /\ Idle.cmd = "idle" /\ Idle.todo = <<>> /\ ~AtWrite(Idle)
<1>1. Shaped(Idle) /\ Idle.cmd = "idle" /\ Idle.todo = <<>>
  BY DEF Shaped, Idle
<1>2. NoSecrets \in [Ids -> Entries]
  BY DEF NoSecrets, NoEntry, Entries
<1>3. NoHosts \in [Hosts -> Credentials]
  BY DEF NoHosts, NoHost, Credentials
<1>4. Arguments(Idle)
  BY <1>1, <1>2, <1>3 DEF Arguments, Idle
<1>5. OnLine(Idle) /\ ~AtWrite(Idle)
  BY <1>1, Writers DEF OnLine, Is, AtWrite
<1>6. Written(Idle)
  BY <1>5, Writers DEF Written
<1> QED
  BY <1>1, <1>4, <1>5, <1>6 DEF CommandInv

LEMMA Arrives ==
  ASSUME NEW m, Shaped(m), Arguments(m), OnLine(After(m)), Written(After(m))
  PROVE  CommandInv(After(m))
<1>1. CASE Len(m.todo) = 1
  BY <1>1, AfterFields, IdleHolds
<1>2. CASE Len(m.todo) # 1
  <2>1. Shaped(After(m)) /\ Same(After(m), m)
    BY <1>2, AfterFields
  <2>2. Arguments(After(m))
    BY <2>1 DEF Arguments, Same
  <2> QED
    BY <2>1, <2>2 DEF CommandInv
<1> QED
  BY <1>1, <1>2

LEMMA Passes ==
  ASSUME NEW m, Shaped(m), Arguments(m), OnLine(After(m)), ~AtWrite(After(m))
  PROVE  CommandInv(After(m))
BY Arrives, Writers DEF Written

\* A command that has not ended keeps its arguments.
LEMMA Keeps ==
  ASSUME NEW m, Shaped(m), After(m) # Idle
  PROVE  Same(After(m), m)
BY AfterFields

LEMMA PasswordTo ==
  ASSUME TypeOK, NEW p \in Procs, CommandInv(proc[p]), Password(p)
  PROVE  \E r : /\ proc' = [proc EXCEPT ![p] = r] /\ CommandInv(r)
                /\ \/ r = Idle
                   \/ /\ r.cmd = proc[p].cmd
                      /\ \/ AtRead(r) /\ r.cmd \notin {"rotate", "rename", "migrate", "bootstrap"}
                         \/ AtValidate(r) \/ AtDrop(r) \/ AtGather(r) \/ AtLookUp(r)
<1> DEFINE m(w) == [proc[p] EXCEPT !.pw = w]
<1>1. /\ Shaped(proc[p]) /\ Arguments(proc[p]) /\ OnLine(proc[p]) /\ AtPassword(proc[p])
  BY PointOf DEF CommandInv, Password
<1>2. ASSUME NEW w \in Passwords \union {"none"}
      PROVE  /\ CommandInv(After(m(w)))
             /\ \/ After(m(w)) = Idle
                \/ /\ After(m(w)).cmd = proc[p].cmd
                   /\ \/ AtRead(After(m(w))) /\ proc[p].cmd \notin {"rotate", "rename", "migrate", "bootstrap"}
                      \/ AtValidate(After(m(w))) \/ AtDrop(After(m(w))) \/ AtGather(After(m(w)))
                      \/ AtLookUp(After(m(w)))
  <2>1. Shaped(m(w)) /\ m(w).cmd = proc[p].cmd /\ m(w).todo = proc[p].todo
    BY <1>1 DEF Shaped
  <2>2. Arguments(m(w))
    BY <1>1 DEF Arguments, Shaped
  <2>3. AtPassword(m(w))
    BY <1>1, <2>1 DEF AtPassword, Is
  <2> HIDE DEF m
  <2>4. \/ After(m(w)) = Idle
        \/ AtRead(After(m(w))) /\ m(w).cmd \in {"add", "update", "upsert", "deploy"}
        \/ AtValidate(After(m(w))) \/ AtDrop(After(m(w))) \/ AtGather(After(m(w))) \/ AtLookUp(After(m(w)))
    BY <2>1, <2>3, FollowsPassword
  <2>5. OnLine(After(m(w))) /\ ~AtWrite(After(m(w)))
    BY <2>4, IdleHolds, HeadsOf DEF OnLine, CommandInv
  <2> QED
    BY <2>1, <2>2, <2>4, <2>5, Passes, Keeps DEF Same
<1>3. lease.password \in Passwords \union {"none"}
  BY DEF TypeOK
<1>4. CASE \E w \in Passwords \union {"none"} : Advance(p, m(w))
  <2>1. PICK w \in Passwords \union {"none"} : Advance(p, m(w))
    BY <1>4
  <2>2. proc' = [proc EXCEPT ![p] = After(m(w))]
    BY <2>1 DEF Advance, After
  <2> HIDE DEF m
  <2> QED
    BY <1>2, <2>2
<1>5. CASE Abort(p)
  BY <1>5, IdleHolds DEF Abort
<1> QED
  BY <1>3, <1>4, <1>5 DEF Password

LEMMA AdvanceTo ==
  ASSUME NEW p, NEW m, Advance(p, m)
  PROVE  proc' = [proc EXCEPT ![p] = After(m)]
BY DEF Advance, After

LEMMA ValidateTo ==
  ASSUME NEW p \in Procs, CommandInv(proc[p]), Validate(p)
  PROVE  \E r : /\ proc' = [proc EXCEPT ![p] = r] /\ CommandInv(r)
                /\ \/ r = Idle
                   \/ /\ AtGrant(r) \/ (AtRead(r) /\ r.cmd = "rotate")
                      /\ Same(r, proc[p]) /\ Opens(r.pw)
<1>1. /\ Shaped(proc[p]) /\ Arguments(proc[p]) /\ AtValidate(proc[p])
  BY PointOf DEF CommandInv, Validate
<1>2. CASE Advance(p, proc[p]) /\ Opens(proc[p].pw)
  <2> DEFINE r == After(proc[p])
  <2>1. proc' = [proc EXCEPT ![p] = r]
    BY <1>2, AdvanceTo
  <2>2. (AtRead(r) /\ proc[p].cmd = "rotate") \/ AtGrant(r)
    BY <1>1, FollowsValidate
  <2> HIDE DEF r
  <2>3. OnLine(r) /\ ~AtWrite(r)
    BY <2>2, HeadsOf DEF OnLine
  <2>4. CommandInv(r)
    BY <1>1, <2>3, Passes DEF r
  <2>5. r = Idle \/ Same(r, proc[p])
    BY <1>1, Keeps DEF r
  <2> QED
    BY <1>2, <2>1, <2>2, <2>4, <2>5 DEF Same
<1>3. CASE Abort(p)
  BY <1>3, IdleHolds DEF Abort
<1> QED
  BY <1>2, <1>3 DEF Validate

LEMMA AbsentTo ==
  ASSUME NEW p \in Procs, CommandInv(proc[p]), Absent(p)
  PROVE  \E r : /\ proc' = [proc EXCEPT ![p] = r] /\ CommandInv(r)
                /\ \/ r = Idle
                   \/ /\ Founds(r) /\ r.cmd = proc[p].cmd
                      /\ ~store.exists /\ r.secrets = NoSecrets
<1>1. /\ Shaped(proc[p]) /\ Arguments(proc[p]) /\ AtAbsent(proc[p])
  BY PointOf DEF CommandInv, Absent
<1>2. CASE Abort(p)
  BY <1>2, IdleHolds DEF Abort
<1>3. CASE ~Abort(p)
  <2> DEFINE long == proc[p].cmd = "bootstrap" /\ ~torn /\ \E h \in Hosts : HasLegacy(h, hosts)
             m == [proc[p] EXCEPT !.secrets = NoSecrets,
                     !.todo = IF long THEN <<"absent", "write", "gather", "truncate", "hosts", "grant">>
                              ELSE @]
             r == After(m)
  <2>1. ~store.exists /\ Advance(p, m)
    BY <1>3 DEF Absent
  <2>2. proc' = [proc EXCEPT ![p] = r]
    BY <2>1, AdvanceTo
  <2> HIDE DEF long
  <2>3. /\ Shaped(m) /\ m.cmd = proc[p].cmd /\ m.secrets = NoSecrets
        /\ m.todo = IF long THEN <<"absent", "write", "gather", "truncate", "hosts", "grant">>
                    ELSE proc[p].todo
    <3> DEFINE t == IF long THEN <<"absent", "write", "gather", "truncate", "hosts", "grant">>
                    ELSE proc[p].todo
    <3>1. m = [proc[p] EXCEPT !.secrets = NoSecrets, !.todo = t]
      BY <1>1 DEF Shaped
    <3> HIDE DEF t, m
    <3>2. Shaped(m) /\ m.cmd = proc[p].cmd /\ m.secrets = NoSecrets /\ m.todo = t
      BY <1>1, <3>1 DEF Shaped
    <3> QED
      BY <3>2 DEF t
  <2>4. Arguments(m)
    <3>1. NoSecrets \in [Ids -> Entries]
      BY DEF NoSecrets, NoEntry, Entries
    <3> QED
      BY <1>1, <3>1 DEF Arguments, Shaped
  <2> HIDE DEF m
  <2>5. \/ AtAbsent(m)
        \/ Is(m, {"bootstrap"}, <<"absent", "write", "gather", "truncate", "hosts", "grant">>)
    <3>1. CASE long
      BY <2>3, <3>1 DEF Is, long
    <3>2. CASE ~long
      BY <1>1, <2>3, <3>2 DEF Is, AtAbsent
    <3> QED
      BY <3>1, <3>2
  <2>6. Founds(r)
    BY <2>3, <2>5, FollowsAbsent
  <2>7. r # Idle
    BY <2>6, IdleHolds, Writers
  <2>8. Same(r, m)
    BY <2>3, <2>7, Keeps
  <2>9. Written(r)
    BY <2>6, Writers DEF Written
  <2>10. CommandInv(r)
    BY <2>3, <2>4, <2>6, <2>9, Arrives, Writers DEF OnLine
  <2> HIDE DEF r
  <2> QED
    BY <2>1, <2>2, <2>3, <2>6, <2>8, <2>10 DEF Same
<1> QED
  BY <1>2, <1>3

\* What an edit of the secrets leaves of them.
LEMMA EditedType ==
  ASSUME NEW q, Arguments(q), NEW secrets \in [Ids -> Entries]
  PROVE  Edited(q, secrets) \in [Ids -> Entries]
<1>1. CASE q.cmd = "update"
  <2>1. [NoEntry EXCEPT ![q.kind] = "typed"] \in Entries
    BY DEF NoEntry, Entries
  <2> QED
    BY <1>1, <2>1 DEF Edited
<1>2. CASE q.cmd \in {"add", "upsert", "rename", "deploy"}
  <2>1. q.id \in Ids /\ secrets[q.id] \in Entries
    BY <1>2 DEF Arguments
  <2>2. [secrets[q.id] EXCEPT ![q.kind] = "typed"] \in Entries
    BY <2>1 DEF Entries
  <2>3. Edited(q, secrets) = [secrets EXCEPT ![q.id][q.kind] = "typed"]
    BY <1>2 DEF Edited
  <2> QED
    BY <2>1, <2>2, <2>3
<1>3. CASE Migrates(q)
  <2>1. \A i \in Ids : i \in Hosts /\ HasLegacy(i, q.map) =>
                         [secrets[i] EXCEPT ![q.map[i].legacy] = "plain"] \in Entries
    BY DEF Entries
  <2>2. Edited(q, secrets) = Migrated(secrets, q.map)
    BY <1>3 DEF Edited, Migrates
  <2> QED
    BY <2>1, <2>2 DEF Migrated
<1>4. CASE /\ q.cmd \notin {"update", "add", "upsert", "rename", "deploy"} /\ ~Migrates(q)
  BY <1>4 DEF Edited, Migrates
<1> QED
  BY <1>1, <1>2, <1>3, <1>4

LEMMA EditedWritten ==
  ASSUME NEW q, Arguments(q), NEW secrets \in [Ids -> Entries]
  PROVE  /\ Migrates(q) => \A h \in Hosts : HasLegacy(h, q.map) =>
                             Edited(q, secrets)[h][q.map[h].legacy] = "plain"
         /\ q.cmd = "deploy" => Present(Edited(q, secrets), q.id)
<1>1. ASSUME Migrates(q), NEW h \in Hosts, HasLegacy(h, q.map)
      PROVE  Edited(q, secrets)[h][q.map[h].legacy] = "plain"
  <2>1. h \in Ids /\ secrets[h] \in [Kinds -> {"none", "typed", "plain"}] /\ q.map[h].legacy \in Kinds
    BY <1>1, IdsAssumption DEF Arguments, Entries, Credentials, HasLegacy
  <2>2. Edited(q, secrets) = Migrated(secrets, q.map)
    BY <1>1 DEF Edited, Migrates
  <2>3. Edited(q, secrets)[h] = [secrets[h] EXCEPT ![q.map[h].legacy] = "plain"]
    BY <1>1, <2>1, <2>2 DEF Migrated
  <2> QED
    BY <2>1, <2>3
<1>2. ASSUME q.cmd = "deploy"  PROVE Present(Edited(q, secrets), q.id)
  <2>1. /\ q.id \in Ids /\ q.kind \in Kinds
        /\ secrets[q.id] \in [Kinds -> {"none", "typed", "plain"}]
    BY <1>2 DEF Arguments, Entries
  <2>2. Edited(q, secrets) = [secrets EXCEPT ![q.id][q.kind] = "typed"]
    BY <1>2 DEF Edited
  <2>3. Edited(q, secrets)[q.id][q.kind] = "typed"
    BY <2>1, <2>2
  <2>4. NoEntry[q.kind] = "none"
    BY <2>1 DEF NoEntry
  <2> QED
    BY <2>3, <2>4 DEF Present
<1> QED
  BY <1>1, <1>2

LEMMA ReadTo ==
  ASSUME TypeOK, NEW p \in Procs, CommandInv(proc[p]), Read(p)
  PROVE  \E r : /\ proc' = [proc EXCEPT ![p] = r] /\ CommandInv(r)
                /\ \/ /\ r = Idle
                      /\ ~Readable(proc[p].pw) \/ proc[p].cmd \in {"add", "update"}
                   \/ /\ Migrates(r) => Moves(r)
                      /\ ~Migrates(r) => PutsIn(r)
                      /\ \E secrets \in [Ids -> Entries] :
                           /\ Decrypt(proc[p].pw, secrets) /\ ~Refused(proc[p], secrets)
                           /\ Same(r, [proc[p] EXCEPT !.secrets = Edited(proc[p], secrets)])
<1>1. /\ Shaped(proc[p]) /\ Arguments(proc[p]) /\ AtRead(proc[p])
  BY PointOf DEF CommandInv, Read
<1>2. /\ store.secrets \in [Ids -> Entries] /\ NoSecrets \in [Ids -> Entries]
  BY DEF TypeOK, NoSecrets, NoEntry, Entries
<1>3. CASE Abort(p) /\ (~Readable(proc[p].pw) \/ proc[p].cmd \in {"add", "update"})
  BY <1>3, IdleHolds DEF Abort
<1>4. ASSUME NEW secrets \in [Ids -> Entries],
             Decrypt(proc[p].pw, secrets), ~Refused(proc[p], secrets),
             Advance(p, [proc[p] EXCEPT !.secrets = Edited(proc[p], secrets)])
      PROVE  \E r : /\ proc' = [proc EXCEPT ![p] = r] /\ CommandInv(r)
                    /\ Migrates(r) => Moves(r)
                    /\ ~Migrates(r) => PutsIn(r)
                    /\ Same(r, [proc[p] EXCEPT !.secrets = Edited(proc[p], secrets)])
  <2> DEFINE e == Edited(proc[p], secrets)
             m == [proc[p] EXCEPT !.secrets = e]
             r == After(m)
  <2>1. e \in [Ids -> Entries]
    BY <1>1, <1>4, EditedType
  <2>2. proc' = [proc EXCEPT ![p] = r]
    BY <1>4, AdvanceTo
  <2>3. /\ Migrates(proc[p]) => \A h \in Hosts : HasLegacy(h, proc[p].map) =>
                                  e[h][proc[p].map[h].legacy] = "plain"
        /\ proc[p].cmd = "deploy" => Present(e, proc[p].id)
    BY <1>1, <1>4, EditedWritten
  <2> HIDE DEF e
  <2>4. Shaped(m) /\ Same(m, [proc[p] EXCEPT !.secrets = e]) /\ m.cmd = proc[p].cmd
        /\ m.map = proc[p].map /\ m.id = proc[p].id /\ m.secrets = e /\ m.todo = proc[p].todo
    BY <1>1 DEF Shaped, Same
  <2>5. Arguments(m)
    BY <1>1, <2>1 DEF Arguments, Shaped
  <2>6. AtRead(m)
    BY <1>1, <2>4 DEF AtRead, Is
  <2> HIDE DEF m
  <2>7. (Migrates(m) => Moves(r)) /\ (~Migrates(m) => PutsIn(r))
    BY <2>4, <2>6, FollowsRead
  <2>8. AtWrite(r)
    BY <2>7, Writers
  <2>9. Same(r, m)
    BY <2>4, <2>8, IdleHolds, Keeps
  <2> HIDE DEF r
  <2>10. r.cmd = proc[p].cmd /\ r.map = proc[p].map /\ r.id = proc[p].id /\ r.secrets = e
    BY <2>4, <2>9 DEF Same
  <2>11. Written(r)
    BY <2>3, <2>7, <2>10, Writers DEF Written, Migrates
  <2>12. CommandInv(r)
    BY <2>4, <2>5, <2>8, <2>11, Arrives DEF OnLine, r
  <2>13. Same(r, [proc[p] EXCEPT !.secrets = e])
    BY <2>4, <2>9 DEF Same
  <2>14. (Migrates(r) => Moves(r)) /\ (~Migrates(r) => PutsIn(r))
    BY <2>4, <2>7, <2>10 DEF Migrates
  <2> QED
    BY <2>2, <2>12, <2>13, <2>14 DEF e
<1>5. \/ \E secrets \in [Ids -> Entries] :
           /\ Decrypt(proc[p].pw, secrets) /\ ~Refused(proc[p], secrets)
           /\ Advance(p, [proc[p] EXCEPT !.secrets = Edited(proc[p], secrets)])
      \/ Abort(p) /\ (~Readable(proc[p].pw) \/ proc[p].cmd \in {"add", "update"})
  <2>1. \A s : Refused(proc[p], s) => proc[p].cmd \in {"add", "update"}
    BY DEF Refused
  <2> QED
    BY <1>2, <2>1 DEF Read
<1> QED
  BY <1>3, <1>4, <1>5

LEMMA RemovedType ==
  ASSUME NEW q, Arguments(q), NEW secrets \in [Ids -> Entries]
  PROVE  Removed(q, secrets) \in [Ids -> Entries]
<1>1. NoEntry \in Entries
  BY DEF NoEntry, Entries
<1>2. \A i \in Ids : [secrets[i] EXCEPT ![q.kind] = "none"] \in Entries
  BY DEF Entries
<1> QED
  BY <1>1, <1>2 DEF Removed

LEMMA DropTo ==
  ASSUME TypeOK, NEW p \in Procs, CommandInv(proc[p]), Drop(p)
  PROVE  \E r : /\ proc' = [proc EXCEPT ![p] = r] /\ CommandInv(r)
                /\ \/ r = Idle
                   \/ /\ AtRefs(r) /\ Opens(r.pw)
                      /\ r.cmd = proc[p].cmd /\ r.from = proc[p].from
                      /\ r.secrets = Removed(r, store.secrets)
<1>1. /\ Shaped(proc[p]) /\ Arguments(proc[p]) /\ AtDrop(proc[p])
  BY PointOf DEF CommandInv, Drop
<1>2. CASE Abort(p)
  BY <1>2, IdleHolds DEF Abort
<1>3. CASE ~Abort(p)
  <2> DEFINE e == Removed(proc[p], store.secrets)
             m == [proc[p] EXCEPT !.secrets = e]
             r == After(m)
  <2>1. Opens(proc[p].pw) /\ Advance(p, m)
    BY <1>3 DEF Drop
  <2>2. proc' = [proc EXCEPT ![p] = r]
    BY <2>1, AdvanceTo
  <2>3. e \in [Ids -> Entries]
    BY <1>1, RemovedType DEF TypeOK
  <2> HIDE DEF e
  <2>4. /\ Shaped(m) /\ m.cmd = proc[p].cmd /\ m.from = proc[p].from /\ m.kind = proc[p].kind
        /\ m.pw = proc[p].pw /\ m.secrets = e /\ m.todo = proc[p].todo
    BY <1>1 DEF Shaped
  <2>5. Arguments(m)
    BY <1>1, <2>3 DEF Arguments, Shaped
  <2>6. AtDrop(m)
    BY <1>1, <2>4 DEF AtDrop, Is
  <2> HIDE DEF m
  <2>7. AtRefs(r)
    BY <2>4, <2>6, FollowsDrop
  <2>8. OnLine(r) /\ ~AtWrite(r) /\ r # Idle
    BY <2>7, CommandsOf, HeadsOf, IdleHolds DEF OnLine
  <2>9. Same(r, m) /\ CommandInv(r)
    BY <2>4, <2>5, <2>8, Keeps, Passes
  <2> HIDE DEF r
  <2>10. r.secrets = Removed(r, store.secrets)
    BY <2>4, <2>9 DEF Same, Removed, e
  <2> QED
    BY <2>1, <2>2, <2>4, <2>7, <2>9, <2>10 DEF Same
<1> QED
  BY <1>2, <1>3

LEMMA RefsTo ==
  ASSUME TypeOK, NEW p \in Procs, CommandInv(proc[p]), Refs(p)
  PROVE  \E r : /\ proc' = [proc EXCEPT ![p] = r] /\ CommandInv(r)
                /\ \/ r = Idle
                   \/ /\ TakesOut(r) /\ Same(r, proc[p])
                      /\ \A h \in Hosts : hosts[h].ref # proc[p].from
<1>1. /\ Shaped(proc[p]) /\ Arguments(proc[p]) /\ AtRefs(proc[p])
  BY PointOf DEF CommandInv, Refs
<1>2. CASE Abort(p)
  BY <1>2, IdleHolds DEF Abort
<1>3. CASE Advance(p, proc[p]) /\ \A h \in Hosts : hosts[h].ref # proc[p].from
  <2> DEFINE r == After(proc[p])
  <2>1. proc' = [proc EXCEPT ![p] = r]
    BY <1>3, AdvanceTo
  <2>2. TakesOut(r)
    BY <1>1, FollowsRefs
  <2>3. r # Idle /\ Written(r) /\ OnLine(r)
    BY <2>2, Writers, IdleHolds DEF Written, OnLine
  <2>4. Same(r, proc[p]) /\ CommandInv(r)
    BY <1>1, <2>3, Keeps, Arrives
  <2> HIDE DEF r
  <2> QED
    BY <1>3, <2>1, <2>2, <2>4
<1> QED
  BY <1>2, <1>3 DEF Refs

LEMMA WriteTo ==
  ASSUME NEW p \in Procs, CommandInv(proc[p]), Write(p)
  PROVE  \E r : /\ proc' = [proc EXCEPT ![p] = r] /\ CommandInv(r)
                /\ r = Idle \/ Same(r, [proc[p] EXCEPT !.secrets = NoSecrets])
                /\ Founds(proc[p]) =>
                     AtGrant(r) \/ (AtGather(r) /\ proc[p].cmd = "bootstrap")
                /\ TakesOut(proc[p]) => r = Idle \/ (AtRead(r) /\ proc[p].cmd = "rename")
                /\ Moves(proc[p]) => AtTruncate(r)
                /\ PutsIn(proc[p]) => \/ r = Idle /\ proc[p].cmd \notin {"rotate", "deploy"}
                                      \/ AtReadLease(r) /\ proc[p].cmd = "rotate"
                                      \/ AtParse(r) /\ proc[p].cmd = "deploy"
<1> DEFINE m == [proc[p] EXCEPT !.secrets = NoSecrets]
           r == After(m)
<1>1. /\ Shaped(proc[p]) /\ Arguments(proc[p]) /\ AtWrite(proc[p])
  BY PointOf DEF CommandInv, Write
<1>2. proc' = [proc EXCEPT ![p] = r]
  BY AdvanceTo DEF Write
<1>3. Shaped(m) /\ m.cmd = proc[p].cmd /\ m.todo = proc[p].todo
  BY <1>1 DEF Shaped
<1>4. Arguments(m)
  <2>1. NoSecrets \in [Ids -> Entries]
    BY DEF NoSecrets, NoEntry, Entries
  <2> QED
    BY <1>1, <2>1 DEF Arguments, Shaped
<1>5. /\ Founds(m) <=> Founds(proc[p])
      /\ TakesOut(m) <=> TakesOut(proc[p])
      /\ Moves(m) <=> Moves(proc[p])
      /\ PutsIn(m) <=> PutsIn(proc[p])
  BY <1>3 DEF Founds, TakesOut, Moves, PutsIn, Is
<1>6. AtWrite(m)
  BY <1>1, <1>5 DEF AtWrite
<1> HIDE DEF m
<1>7. /\ Founds(m) => AtGrant(r) \/ (AtGather(r) /\ m.cmd = "bootstrap")
      /\ TakesOut(m) => r = Idle \/ (AtRead(r) /\ m.cmd = "rename")
      /\ Moves(m) => AtTruncate(r)
      /\ PutsIn(m) => \/ r = Idle /\ m.cmd \notin {"rotate", "deploy"}
                      \/ AtReadLease(r) /\ m.cmd = "rotate"
                      \/ AtParse(r) /\ m.cmd = "deploy"
  BY <1>3, <1>6, FollowsWrite
<1> HIDE DEF r
<1>8. OnLine(r) /\ ~AtWrite(r)
  BY <1>6, <1>7, HeadsOf, IdleHolds DEF OnLine, CommandInv, AtWrite
<1>9. CommandInv(r) /\ (r = Idle \/ Same(r, m))
  BY <1>3, <1>4, <1>8, Keeps, Passes DEF r
<1> QED
  BY <1>2, <1>3, <1>5, <1>7, <1>9 DEF m

\* The last steps of a command.
LEMMA LastStep ==
  ASSUME NEW p \in Procs, CommandInv(proc[p]), Grant(p) \/ Renew(p) \/ Lock(p)
  PROVE  proc' = [proc EXCEPT ![p] = Idle]
<1>1. Shaped(proc[p]) /\ (AtGrant(proc[p]) \/ AtRenew(proc[p]) \/ AtLock(proc[p]))
  BY PointOf DEF CommandInv, Grant, Renew, Lock
<1>2. Advance(p, proc[p])
  BY DEF Grant, Renew, Lock
<1>3. After(proc[p]) = Idle
  BY <1>1, FollowsGrant, FollowsRenew, FollowsLock
<1> QED
  BY <1>2, <1>3, AdvanceTo

LEMMA ReadLeaseTo ==
  ASSUME TypeOK, NEW p \in Procs, CommandInv(proc[p]), ReadLease(p)
  PROVE  \E r : /\ proc' = [proc EXCEPT ![p] = r] /\ CommandInv(r)
                /\ \/ r = Idle /\ lease' = NoLease
                   \/ /\ AtRenew(r) /\ r.next = proc[p].next /\ r.until = lease.expires
                      /\ Alive /\ lease' = lease
<1>1. /\ Shaped(proc[p]) /\ Arguments(proc[p]) /\ AtReadLease(proc[p])
  BY PointOf DEF CommandInv, ReadLease
<1>2. CASE ~Alive
  BY <1>2, IdleHolds DEF Abort, ReadLease
<1>3. CASE Alive
  <2> DEFINE m == [proc[p] EXCEPT !.until = lease.expires]
             r == After(m)
  <2>1. lease' = lease /\ proc' = [proc EXCEPT ![p] = r]
    BY <1>3, AdvanceTo DEF ReadLease
  <2>2. /\ Shaped(m) /\ m.next = proc[p].next /\ m.until = lease.expires /\ m.todo = proc[p].todo
        /\ m.cmd = proc[p].cmd
    BY <1>1 DEF Shaped
  <2>3. Arguments(m)
    BY <1>1 DEF TypeOK, Arguments, Shaped
  <2>4. AtReadLease(m)
    BY <1>1, <2>2 DEF AtReadLease, Is
  <2> HIDE DEF m
  <2>5. AtRenew(r)
    BY <2>2, <2>4, FollowsReadLease
  <2>6. OnLine(r) /\ ~AtWrite(r) /\ r # Idle
    BY <2>5, CommandsOf, HeadsOf, IdleHolds DEF OnLine
  <2>7. Same(r, m) /\ CommandInv(r)
    BY <2>2, <2>3, <2>6, Keeps, Passes
  <2> HIDE DEF r
  <2> QED
    BY <1>3, <2>1, <2>2, <2>5, <2>7 DEF Same
<1> QED
  BY <1>2, <1>3

LEMMA LookUpTo ==
  ASSUME NEW p \in Procs, CommandInv(proc[p]), LookUp(p)
  PROVE  \E r : /\ proc' = [proc EXCEPT ![p] = r] /\ CommandInv(r)
                /\ r = Idle \/ (AtParse(r) /\ Same(r, proc[p]) /\ Resolves(r.id))
<1>1. /\ Shaped(proc[p]) /\ Arguments(proc[p]) /\ AtLookUp(proc[p])
  BY PointOf DEF CommandInv, LookUp
<1>2. CASE Abort(p)
  BY <1>2, IdleHolds DEF Abort
<1>3. CASE Advance(p, proc[p]) /\ Resolves(proc[p].id)
  <2> DEFINE r == After(proc[p])
  <2>1. proc' = [proc EXCEPT ![p] = r]
    BY <1>3, AdvanceTo
  <2>2. AtParse(r)
    BY <1>1, FollowsLookUp
  <2>3. OnLine(r) /\ ~AtWrite(r) /\ r # Idle
    BY <2>2, CommandsOf, HeadsOf, IdleHolds DEF OnLine
  <2>4. Same(r, proc[p]) /\ CommandInv(r)
    BY <1>1, <2>3, Keeps, Passes
  <2> HIDE DEF r
  <2> QED
    BY <1>3, <2>1, <2>2, <2>4 DEF Same
<1> QED
  BY <1>2, <1>3 DEF LookUp, Opens, Resolves

\* The map of a command that saves or removes a host.
LEMMA ParseTo ==
  ASSUME TypeOK, NEW p \in Procs, CommandInv(proc[p]), Parse(p)
  PROVE  \E r : /\ proc' = [proc EXCEPT ![p] = r] /\ CommandInv(r)
                /\ \/ r = Idle
                   \/ /\ AtTruncate(r) /\ ~Migrates(r)
                      /\ r.cmd = proc[p].cmd /\ r.host = proc[p].host
                      /\ \A h \in Hosts :
                           \/ h # proc[p].host /\ r.map[h] = hosts[h]
                           \/ h = proc[p].host /\ r.map[h].ref = "none"
                           \/ /\ h = proc[p].host /\ r.map[h].ref = proc[p].id
                              /\ proc[p].cmd \in {"savehost", "deploy"}
<1>1. /\ Shaped(proc[p]) /\ Arguments(proc[p]) /\ AtParse(proc[p])
  BY PointOf DEF CommandInv, Parse
<1>2. CASE Abort(p)
  BY <1>2, IdleHolds DEF Abort
<1>3. CASE ~Abort(p)
  <2>0. PICK map \in {hosts, NoHosts} :
               /\ Parsed(map)
               /\ Advance(p, [proc[p] EXCEPT !.map = [map EXCEPT ![proc[p].host] =
                    CASE proc[p].cmd = "removehost" -> NoHost
                      [] proc[p].cmd = "plainhost" -> Reference("none")
                      [] OTHER -> Reference(proc[p].id)]])
    BY <1>3 DEF Parse
  <2> DEFINE c == CASE proc[p].cmd = "removehost" -> NoHost
                    [] proc[p].cmd = "plainhost" -> Reference("none")
                    [] OTHER -> Reference(proc[p].id)
             e == [map EXCEPT ![proc[p].host] = c]
             m == [proc[p] EXCEPT !.map = e]
             r == After(m)
  <2>1. proc' = [proc EXCEPT ![p] = r]
    BY <2>0, AdvanceTo
  <2>2. map = hosts /\ hosts \in [Hosts -> Credentials]
    BY <2>0 DEF Parsed, TypeOK
  <2>3. /\ proc[p].cmd \in {"savehost", "plainhost", "removehost", "deploy"}
        /\ proc[p].host \in Hosts
        /\ proc[p].cmd \in {"savehost", "deploy"} => proc[p].id \in Ids
    BY <1>1, CommandsOf DEF Arguments
  <2>4. /\ c \in Credentials
        /\ c.ref = "none" \/ (c.ref = proc[p].id /\ proc[p].cmd \in {"savehost", "deploy"})
    <3>1. NoHost \in Credentials /\ NoHost.ref = "none"
      BY DEF NoHost, Credentials
    <3>2. Reference("none") \in Credentials /\ Reference("none").ref = "none"
      BY DEF Reference, Credentials
    <3>3. Reference(proc[p].id).ref = proc[p].id
      BY DEF Reference
    <3>4. proc[p].id \in Ids => Reference(proc[p].id) \in Credentials
      BY DEF Reference, Credentials
    <3> QED
      BY <2>3, <3>1, <3>2, <3>3, <3>4
  <2> HIDE DEF c
  <2>5. e \in [Hosts -> Credentials] /\ \A h \in Hosts : e[h] = IF h = proc[p].host THEN c ELSE hosts[h]
    BY <2>2, <2>3, <2>4
  <2> HIDE DEF e
  <2>6. /\ Shaped(m) /\ m.cmd = proc[p].cmd /\ m.host = proc[p].host /\ m.id = proc[p].id
        /\ m.map = e /\ m.todo = proc[p].todo
    BY <1>1 DEF Shaped
  <2>7. Arguments(m)
    BY <1>1, <2>5 DEF Arguments, Shaped
  <2>8. AtParse(m)
    BY <1>1, <2>6 DEF AtParse, Is
  <2> HIDE DEF m
  <2>9. AtTruncate(r)
    BY <2>6, <2>8, FollowsParse
  <2>10. OnLine(r) /\ ~AtWrite(r) /\ r # Idle
    BY <2>9, CommandsOf, HeadsOf, IdleHolds DEF OnLine
  <2>11. Same(r, m) /\ CommandInv(r)
    BY <2>6, <2>7, <2>10, Keeps, Passes
  <2> HIDE DEF r
  <2>12. r.cmd = proc[p].cmd /\ r.host = proc[p].host /\ r.map = e
    BY <2>6, <2>11 DEF Same
  <2>13. \A h \in Hosts : \/ h # proc[p].host /\ r.map[h] = hosts[h]
                          \/ h = proc[p].host /\ r.map[h].ref = "none"
                          \/ /\ h = proc[p].host /\ r.map[h].ref = proc[p].id
                             /\ proc[p].cmd \in {"savehost", "deploy"}
    BY <2>4, <2>5, <2>12
  <2> QED
    BY <2>1, <2>3, <2>9, <2>11, <2>12, <2>13 DEF Migrates
<1> QED
  BY <1>2, <1>3

\* A migration that finds plaintext makes its copy first.
LEMMA GatherTo ==
  ASSUME TypeOK, NEW p \in Procs, CommandInv(proc[p]), Gather(p)
  PROVE  \E r : /\ proc' = [proc EXCEPT ![p] = r] /\ CommandInv(r)
                /\ \/ r = Idle
                   \/ /\ r.cmd = proc[p].cmd /\ r.pw = proc[p].pw /\ r.map = hosts
                      /\ \/ AtEmptyBackup(r) /\ \E h \in Hosts : HasLegacy(h, hosts)
                         \/ AtTruncate(r) /\ \A h \in Hosts : ~HasLegacy(h, hosts)
<1>1. /\ Shaped(proc[p]) /\ Arguments(proc[p]) /\ AtGather(proc[p])
  BY PointOf DEF CommandInv, Gather
<1>2. CASE Abort(p)
  BY <1>2, IdleHolds DEF Abort
<1>3. CASE ~Abort(p)
  <2>0. PICK map \in {hosts, NoHosts} :
               /\ Parsed(map)
               /\ Advance(p, [proc[p] EXCEPT !.map = map,
                    !.todo = IF \E h \in Hosts : HasLegacy(h, map)
                             THEN MoveSecrets[proc[p].cmd] ELSE @])
    BY <1>3 DEF Gather
  <2> DEFINE legacy == \E h \in Hosts : HasLegacy(h, hosts)
             t == IF legacy THEN MoveSecrets[proc[p].cmd] ELSE proc[p].todo
             m == [proc[p] EXCEPT !.map = hosts, !.todo = t]
             r == After(m)
  <2>1. map = hosts /\ hosts \in [Hosts -> Credentials]
    BY <2>0 DEF Parsed, TypeOK
  <2>2. m = [proc[p] EXCEPT !.map = hosts, !.todo = IF legacy THEN MoveSecrets[proc[p].cmd] ELSE @]
    BY <1>1 DEF Shaped
  <2> HIDE DEF legacy
  <2>3. Advance(p, m)
    BY <2>0, <2>1, <2>2 DEF legacy
  <2> HIDE DEF t
  <2>4. /\ Shaped(m) /\ m.cmd = proc[p].cmd /\ m.pw = proc[p].pw /\ m.map = hosts /\ m.todo = t
    <3>1. m = [proc[p] EXCEPT !.map = hosts, !.todo = t]
      OBVIOUS
    <3> HIDE DEF m
    <3> QED
      BY <1>1, <3>1 DEF Shaped
  <2>5. Arguments(m)
    BY <1>1, <2>1 DEF Arguments, Shaped
  <2>6. proc[p].cmd \in {"migrate", "bootstrap"}
    BY <1>1, CommandsOf
  <2> HIDE DEF m
  <2>7. proc' = [proc EXCEPT ![p] = r]
    BY <2>3, AdvanceTo
  <2>8. legacy => AtEmptyBackup(r)
    BY <2>4, <2>6, FollowsMove DEF t
  <2>9. ~legacy => AtTruncate(r)
    <3>1. ~legacy => AtGather(m)
      BY <1>1, <2>4 DEF t, AtGather, Is
    <3> QED
      BY <2>4, <3>1, FollowsGather
  <2>10. OnLine(r) /\ ~AtWrite(r) /\ r # Idle
    BY <2>8, <2>9, CommandsOf, HeadsOf, IdleHolds DEF OnLine
  <2>11. Same(r, m) /\ CommandInv(r)
    BY <2>4, <2>5, <2>10, Keeps, Passes
  <2> HIDE DEF r
  <2> QED
    BY <2>4, <2>7, <2>8, <2>9, <2>11 DEF Same, legacy
<1> QED
  BY <1>2, <1>3

LEMMA EmptyBackupTo ==
  ASSUME NEW p \in Procs, CommandInv(proc[p]), EmptyBackup(p)
  PROVE  \E r : /\ proc' = [proc EXCEPT ![p] = r] /\ CommandInv(r)
                /\ AtBackup(r) /\ Same(r, proc[p])
<1> DEFINE r == After(proc[p])
<1>1. /\ Shaped(proc[p]) /\ Arguments(proc[p]) /\ AtEmptyBackup(proc[p])
  BY PointOf DEF CommandInv, EmptyBackup
<1>2. proc' = [proc EXCEPT ![p] = r]
  BY AdvanceTo DEF EmptyBackup
<1>3. AtBackup(r)
  BY <1>1, FollowsEmptyBackup
<1>4. OnLine(r) /\ ~AtWrite(r) /\ r # Idle
  BY <1>3, CommandsOf, HeadsOf, IdleHolds DEF OnLine
<1>5. Same(r, proc[p]) /\ CommandInv(r)
  BY <1>1, <1>4, Keeps, Passes
<1> HIDE DEF r
<1> QED
  BY <1>2, <1>3, <1>5

LEMMA BackupTo ==
  ASSUME NEW p \in Procs, CommandInv(proc[p]), Backup(p)
  PROVE  \E r : /\ proc' = [proc EXCEPT ![p] = r] /\ CommandInv(r)
                /\ AtRead(r) /\ Migrates(r) /\ Same(r, proc[p])
<1> DEFINE r == After(proc[p])
<1>1. /\ Shaped(proc[p]) /\ Arguments(proc[p]) /\ AtBackup(proc[p])
  BY PointOf DEF CommandInv, Backup
<1>2. proc' = [proc EXCEPT ![p] = r]
  BY AdvanceTo DEF Backup
<1>3. AtRead(r) /\ Migrates(proc[p])
  BY <1>1, FollowsBackup
<1>4. OnLine(r) /\ ~AtWrite(r) /\ r # Idle
  BY <1>3, CommandsOf, HeadsOf, IdleHolds DEF OnLine
<1>5. Same(r, proc[p]) /\ CommandInv(r)
  BY <1>1, <1>4, Keeps, Passes
<1> HIDE DEF r
<1> QED
  BY <1>2, <1>3, <1>5 DEF Same, Migrates

LEMMA TruncateTo ==
  ASSUME NEW p \in Procs, CommandInv(proc[p]), Truncate(p)
  PROVE  \E r : /\ proc' = [proc EXCEPT ![p] = r] /\ CommandInv(r)
                /\ \/ r = Idle /\ UNCHANGED <<torn, hosts, plain>>
                   \/ /\ AtHosts(r) /\ Same(r, proc[p]) /\ Persistable(NewHosts(proc[p]))
                      /\ torn' = TRUE /\ hosts' = NoHosts /\ plain' = plain \ {proc[p].host}
<1>1. /\ Shaped(proc[p]) /\ Arguments(proc[p]) /\ AtTruncate(proc[p])
  BY PointOf DEF CommandInv, Truncate
<1>2. CASE ~Persistable(NewHosts(proc[p]))
  BY <1>2, IdleHolds DEF Abort, Truncate
<1>3. CASE Persistable(NewHosts(proc[p]))
  <2> DEFINE r == After(proc[p])
  <2>1. /\ proc' = [proc EXCEPT ![p] = r]
        /\ torn' = TRUE /\ hosts' = NoHosts /\ plain' = plain \ {proc[p].host}
    BY <1>3, AdvanceTo DEF Truncate
  <2>2. AtHosts(r)
    BY <1>1, FollowsTruncate
  <2>3. OnLine(r) /\ ~AtWrite(r) /\ r # Idle
    BY <2>2, CommandsOf, HeadsOf, IdleHolds DEF OnLine
  <2>4. Same(r, proc[p]) /\ CommandInv(r)
    BY <1>1, <2>3, Keeps, Passes
  <2> HIDE DEF r
  <2> QED
    BY <1>3, <2>1, <2>2, <2>4
<1> QED
  BY <1>2, <1>3

LEMMA HostsTo ==
  ASSUME NEW p \in Procs, CommandInv(proc[p]), WriteHosts(p)
  PROVE  \E r : /\ proc' = [proc EXCEPT ![p] = r] /\ CommandInv(r)
                /\ r = Idle \/ (AtGrant(r) /\ r.cmd = "bootstrap" /\ Same(r, [proc[p] EXCEPT !.map = NoHosts]))
<1> DEFINE m == [proc[p] EXCEPT !.map = NoHosts]
           r == After(m)
<1>1. /\ Shaped(proc[p]) /\ Arguments(proc[p]) /\ AtHosts(proc[p])
  BY PointOf DEF CommandInv, WriteHosts
<1>2. proc' = [proc EXCEPT ![p] = r]
  BY AdvanceTo DEF WriteHosts
<1>3. Shaped(m) /\ m.cmd = proc[p].cmd /\ m.todo = proc[p].todo
  BY <1>1 DEF Shaped
<1>4. Arguments(m)
  <2>1. NoHosts \in [Hosts -> Credentials]
    BY DEF NoHosts, NoHost, Credentials
  <2> QED
    BY <1>1, <2>1 DEF Arguments, Shaped
<1>5. AtHosts(m)
  BY <1>1, <1>3 DEF AtHosts, Is
<1> HIDE DEF m
<1>6. \/ r = Idle
      \/ AtGrant(r) /\ m.cmd = "bootstrap"
  BY <1>3, <1>5, FollowsHosts
<1>7. OnLine(r) /\ ~AtWrite(r)
  BY <1>6, HeadsOf, IdleHolds DEF OnLine, CommandInv
<1>8. CommandInv(r) /\ (r = Idle \/ Same(r, m))
  BY <1>3, <1>4, <1>7, Keeps, Passes
<1> HIDE DEF r
<1> QED
  BY <1>2, <1>6, <1>8 DEF m, Same

-----------------------------------------------------------------------------
(* A step of one command, and what the others see of it.                     *)

\* p's command becomes r; the commands of the other processes stay as they are.
Turns(p, r) == proc'[p] = r /\ \A s \in Procs : s # p => proc'[s] = proc[s]

LEMMA ProcOf ==
  ASSUME NEW p \in Procs, NEW r, proc = [s \in Procs |-> proc[s]], proc' = [proc EXCEPT ![p] = r],
         \A s \in Procs : CommandInv(proc[s]), CommandInv(r)
  PROVE  /\ Turns(p, r) /\ proc' = [s \in Procs |-> proc'[s]]
         /\ \A s \in Procs : CommandInv(proc'[s]) /\ (proc'[s].cmd = "idle" <=> proc'[s].todo = <<>>)
<1>1. \A s \in Procs : proc'[s] = IF s = p THEN r ELSE proc[s]
  OBVIOUS
<1>2. proc' = [s \in Procs |-> proc'[s]]
  OBVIOUS
<1>3. \A s \in Procs : CommandInv(proc'[s])
  BY <1>1
<1>4. \A s \in Procs : proc'[s].cmd = "idle" <=> proc'[s].todo = <<>>
  BY <1>3, Ready DEF CommandInv
<1> QED
  BY <1>1, <1>2, <1>3, <1>4 DEF Turns

\* A command that does not run is at no point.
LEMMA Nowhere ==
  ASSUME NEW q, q.cmd = "idle"
  PROVE  /\ ~AtPassword(q) /\ ~AtValidate(q) /\ ~AtAbsent(q) /\ ~AtRead(q) /\ ~AtDrop(q)
         /\ ~AtRefs(q) /\ ~AtWrite(q) /\ ~Founds(q) /\ ~TakesOut(q) /\ ~Moves(q) /\ ~PutsIn(q)
         /\ ~AtGrant(q) /\ ~AtReadLease(q) /\ ~AtRenew(q) /\ ~AtLock(q) /\ ~AtLookUp(q)
         /\ ~AtParse(q) /\ ~AtGather(q) /\ ~AtEmptyBackup(q) /\ ~AtBackup(q) /\ ~AtTruncate(q)
         /\ ~AtHosts(q) /\ ~Founded(q) /\ ~Storing(q) /\ ~ReadsToMove(q) /\ ~Migrates(q)
         /\ ~HasMap(q) /\ ~Copied(q) /\ \A h \in Hosts : Spares(q, h) /\ ~Carries(q, h)
<1>1. /\ ~AtPassword(q) /\ ~AtValidate(q) /\ ~AtAbsent(q) /\ ~AtRead(q) /\ ~AtDrop(q)
      /\ ~AtRefs(q) /\ ~AtGrant(q) /\ ~AtReadLease(q) /\ ~AtRenew(q) /\ ~AtLock(q) /\ ~AtLookUp(q)
      /\ ~AtParse(q) /\ ~AtGather(q) /\ ~AtEmptyBackup(q) /\ ~AtBackup(q) /\ ~AtTruncate(q)
      /\ ~AtHosts(q)
  BY CommandsOf
<1>2. ~AtWrite(q) /\ ~Founds(q) /\ ~TakesOut(q) /\ ~Moves(q) /\ ~PutsIn(q)
  BY Writers DEF AtWrite
<1>3. ~Founded(q) /\ ~Storing(q) /\ ~ReadsToMove(q) /\ ~Migrates(q)
  BY DEF Founded, Storing, ReadsToMove, Migrates
<1>4. ~HasMap(q) /\ ~Copied(q)
  BY <1>1, <1>2, <1>3 DEF HasMap, Copied
<1> QED
  BY <1>1, <1>2, <1>3, <1>4 DEF Spares, Carries

\* A command that does not run needs to know nothing.
LEMMA IdleKnows ==
  ASSUME NEW q, q.cmd = "idle"
  PROVE  Knows(q) /\ Knows(q)'
<1> USE Nowhere
<1>1. Knows(q)
  BY DEF Knows
<1>2. Knows(q)'
  BY DEF Knows
<1> QED
  BY <1>1, <1>2

\* A step that leaves the keystore and hosts.yml alone: it tells the command
\* something, makes the copy, or ends it.
Quiet(p, r) ==
  /\ Turns(p, r) /\ CommandInv(r) /\ proc[p].cmd # "idle"
  /\ UNCHANGED <<store, hosts, torn, now, history>>
  /\ r = Idle \/ r.cmd = proc[p].cmd
  /\ Founded(proc[p]) => r = Idle \/ (Founded(r) /\ r.pw = proc[p].pw)
  /\ \A h \in Hosts : Stored(h) /\ Spares(proc[p], h) => Spares(r, h)
  /\ Storing(proc[p]) /\ Opens(proc[p].pw) => Storing(r) /\ r.pw = proc[p].pw /\ r.map = proc[p].map
  /\ Ending(proc[p]) => Ending(r)
  /\ ~AtHosts(r) /\ (~Moved /\ HasMap(r) => Current(r))
  /\ \A h \in Hosts : AtTruncate(r) => ~Carries(r, h)
  /\ Moved /\ (AtEmptyBackup(r) \/ AtBackup(r)) => AtEmptyBackup(proc[p]) \/ AtBackup(proc[p])
  /\ \/ /\ backup' = backup /\ ~AtBackup(proc[p])
        /\ Copied(r) => Copied(proc[p])
     \/ AtEmptyBackup(proc[p]) /\ AtBackup(r)
     \/ AtBackup(proc[p]) /\ backup' = hosts

LEMMA QuietFiles ==
  ASSUME IndInv, NEW p \in Procs, NEW r, Quiet(p, r)
  PROVE  FileInv'
<1>1. FileInv
  BY DEF IndInv
<1>2. UNCHANGED <<store, hosts, plain, interrupted>> /\ (Moved' <=> Moved) /\ (Unmoved' <=> Unmoved)
  BY DEF Quiet, history, Moved, Unmoved
<1>3. (~store.exists => store.secrets = NoSecrets)' /\ (Moved \/ Unmoved)'
  BY <1>1, <1>2 DEF FileInv
<1>4. ASSUME ~Moved, NEW s \in Procs
      PROVE  ~AtHosts(proc'[s]) /\ (HasMap(proc'[s]) => Current(proc'[s]))
  BY <1>1, <1>4 DEF FileInv, Quiet, Turns
<1>5. ASSUME ~Moved, ~interrupted, NEW s \in Procs, Copied(proc'[s])
      PROVE  backup' = hosts \/ \E c \in Procs : AtBackup(proc'[c])
  <2>1. CASE AtEmptyBackup(proc[p]) /\ AtBackup(r)
    BY <2>1 DEF Quiet, Turns
  <2>2. CASE AtBackup(proc[p]) /\ backup' = hosts
    BY <2>2
  <2>3. CASE backup' = backup /\ ~AtBackup(proc[p]) /\ (Copied(r) => Copied(proc[p]))
    <3>1. Copied(proc[s])
      BY <1>5, <2>3 DEF Quiet, Turns
    <3>2. backup = hosts \/ \E c \in Procs : AtBackup(proc[c])
      BY <1>1, <1>5, <3>1 DEF FileInv
    <3> QED
      BY <2>3, <3>2 DEF Quiet, Turns
  <2> QED
    BY <2>1, <2>2, <2>3 DEF Quiet
<1>6. (~Moved => \A s \in Procs : ~AtHosts(proc[s]) /\ (HasMap(proc[s]) => Current(proc[s])))'
  <2>1. ASSUME NEW q  PROVE Current(q)' <=> Current(q)
    BY <1>2 DEF Current
  <2> QED
    BY <1>2, <1>4, <2>1 DEF AtHosts, HasMap, Current
<1>7. (~Moved /\ ~interrupted /\ (\E s \in Procs : Copied(proc[s])) =>
         backup = hosts \/ \E c \in Procs : AtBackup(proc[c]))'
  BY <1>2, <1>5
<1> QED
  BY <1>3, <1>6, <1>7 DEF FileInv

\* Of the keystore that the step leaves as it is.
LEMMA QuietStored ==
  ASSUME NEW p \in Procs, NEW r, Quiet(p, r)
  PROVE  /\ \A h \in Hosts : (Stored(h)' <=> Stored(h)) /\ (Safe(h) => Safe(h)')
         /\ \A w : Opens(w)' <=> Opens(w)
<1>1. store' = store
  BY DEF Quiet
<1>2. \A h \in Hosts : Stored(h)' <=> Stored(h)
  BY <1>1 DEF Stored
<1>3. ASSUME NEW h \in Hosts, Safe(h)  PROVE Safe(h)'
  <2>1. \A s \in Procs : Spares(proc'[s], h)
    BY <1>3 DEF Quiet, Turns, Safe
  <2> QED
    BY <1>2, <1>3, <2>1 DEF Safe
<1> QED
  BY <1>1, <1>2, <1>3 DEF Opens

LEMMA QuietAlone ==
  ASSUME IndInv, NEW p \in Procs, NEW r, Quiet(p, r), ~overlapped, Knows(r)', LeaseInv'
  PROVE  Alone'
<1>1. Alone /\ UNCHANGED <<store, hosts, plain, overlapped>> /\ (Moved' <=> Moved)
  BY DEF IndInv, Quiet, history, Moved
<1>2. ASSUME NEW s \in Procs, NEW t \in Procs, proc'[s].cmd # "idle", proc'[t].cmd # "idle"
      PROVE  s = t
  <2>1. proc[s].cmd # "idle" /\ proc[t].cmd # "idle"
    BY <1>2 DEF Quiet, Turns
  <2> QED
    BY <1>1, <2>1 DEF Alone
<1>3. ASSUME NEW s \in Procs  PROVE Knows(proc[s])'
  <2>1. CASE s = p
    <3>1. proc'[s] = r
      BY <2>1 DEF Quiet, Turns
    <3> QED
      BY <3>1 DEF Knows
  <2>2. CASE s # p
    <3> DEFINE q == proc[s]
    <3>1. proc'[s] = q /\ q.cmd = "idle"
      BY <1>1, <2>2 DEF Quiet, Turns, Alone
    <3> QED
      BY <3>1, IdleKnows
  <2> QED
    BY <2>1, <2>2
<1>4. ReferencesResolve'
  BY <1>1 DEF Alone, ReferencesResolve
<1>5. ASSUME Moved, NEW h \in plain  PROVE Safe(h)'
  BY <1>1, <1>5, QuietStored DEF Alone, IndInv, TypeOK
<1> QED
  BY <1>1, <1>2, <1>3, <1>4, <1>5 DEF Alone

LEMMA QuietPair ==
  ASSUME IndInv, NEW p \in Procs, NEW r, Quiet(p, r), ~interrupted, started <= 2
  PROVE  Pair'
<1>0. /\ Pair /\ TypeOK /\ FileInv
      /\ \A s \in Procs : CommandInv(proc[s])
      /\ proc[p].cmd # "idle"
      /\ UNCHANGED <<store, hosts, plain, overlapped, interrupted, started>>
      /\ Moved' <=> Moved
  BY DEF IndInv, Quiet, history, Moved
<1>1. \A s \in Procs : proc[s].cmd = "idle" => s # p /\ proc'[s].cmd = "idle"
  BY <1>0 DEF Quiet, Turns
<1>2. /\ started' = 0 => \A s \in Procs : proc'[s].cmd = "idle"
      /\ started' = 1 => \A s, t \in Procs : \/ proc'[s].cmd = "idle" \/ proc'[t].cmd = "idle"
                                             \/ s = t
      /\ \A s, t, u \in Procs : \/ proc'[s].cmd = "idle" \/ proc'[t].cmd = "idle"
                                \/ proc'[u].cmd = "idle" \/ s = t \/ s = u \/ t = u
  BY <1>0, <1>1 DEF Pair, Idles
<1>3. ASSUME NEW a \in Procs, a # p, OtherWrote(a), proc[a].cmd # "idle"  PROVE OtherWrote(a)'
  <2>1. started' = 2
    BY <1>0, <1>3 DEF OtherWrote
  <2>2. ASSUME NEW b \in Procs, b # a, proc[b].cmd # "idle", b # p  PROVE FALSE
    BY <1>0, <1>3, <2>2 DEF Pair, Idles
  <2>3. CASE r = Idle
    <3>1. \A s \in Procs : s = a \/ proc'[s].cmd = "idle"
      BY <2>2, <2>3, <1>1, IdleHolds DEF Quiet, Turns
    <3> QED
      BY <2>1, <3>1 DEF OtherWrote, Idles
  <2>4. CASE r # Idle
    <3>1. proc'[p] = r /\ r.cmd = proc[p].cmd
      BY <2>4 DEF Quiet, Turns
    <3>2. CASE ~Migrates(proc[p])
      BY <1>0, <1>3, <2>1, <3>1, <3>2 DEF OtherWrote, Idles, Migrates
    <3>3. CASE Migrates(proc[p])
      <4>1. Founded(proc[p]) /\ Opens(proc[p].pw)
        BY <1>0, <1>3, <2>2, <3>3, Nowhere DEF OtherWrote, Idles
      <4>2. Founded(r) /\ Opens(r.pw)
        BY <2>4, <4>1 DEF Quiet
      <4>3. Founded(proc[p])' /\ Opens(proc[p].pw)'
        BY <1>0, <3>1, <4>2 DEF Opens
      <4> QED
        BY <1>3, <2>1, <4>3 DEF OtherWrote
    <3> QED
      BY <3>2, <3>3
  <2> QED
    BY <2>3, <2>4
<1>4. ASSUME ~Moved, NEW a \in Procs, AtTruncate(proc'[a]), NEW h \in Hosts, Carries(proc'[a], h)
      PROVE  (\A g \in plain : Stored(g)') \/ OtherWrote(a)'
  <2>1. a # p /\ proc'[a] = proc[a]
    BY <1>4 DEF Quiet, Turns
  <2>2. (\A g \in plain : Stored(g)) \/ OtherWrote(a)
    BY <1>0, <1>4, <2>1 DEF Pair
  <2>3. proc[a].cmd # "idle"
    BY <1>4, <2>1, Nowhere
  <2>4. \A g \in plain : Stored(g) => Stored(g)'
    BY <1>0 DEF Stored
  <2> QED
    BY <1>3, <2>1, <2>2, <2>3, <2>4
<1>5. ASSUME Moved, NEW h \in plain  PROVE InBackup(h)' \/ Safe(h)' \/ InBootstrap(h)'
  <2>0. h \in Hosts
    BY <1>0 DEF TypeOK
  <2>1. CASE InBackup(h)
    <3>1. backup' = backup
      BY <2>1 DEF InBackup, Quiet
    <3>2. \A s \in Procs : ~AtEmptyBackup(proc'[s]) /\ ~AtBackup(proc'[s])
      BY <1>5, <2>1 DEF InBackup, Quiet, Turns
    <3>3. InBackup(h)'
      BY <2>1, <3>1, <3>2 DEF InBackup, HasLegacy
    <3> QED
      BY <3>3
  <2>2. CASE Safe(h)
    BY <2>0, <2>2, QuietStored
  <2>3. CASE InBootstrap(h)
    <3>1. PICK b \in Procs : /\ Storing(proc[b]) /\ Carries(proc[b], h) /\ Opens(proc[b].pw)
                             /\ \A s \in Procs : s = b \/ Ending(proc[s])
      BY <2>3 DEF InBootstrap
    <3>2. \A s \in Procs : s = b \/ Ending(proc[s])'
      BY <3>1 DEF Quiet, Turns
    <3>3. /\ Storing(proc[b])' /\ proc'[b].pw = proc[b].pw /\ proc'[b].map = proc[b].map
      BY <3>1 DEF Quiet, Turns
    <3>4. Carries(proc[b], h)' /\ Opens(proc[b].pw)'
      BY <1>0, <3>1, <3>3 DEF Carries, HasLegacy, Opens, Storing, Migrates
    <3>5. started' = 2
      BY <1>0, <2>3 DEF InBootstrap
    <3>6. InBootstrap(h)'
      BY <3>2, <3>3, <3>4, <3>5 DEF InBootstrap
    <3> QED
      BY <3>6
  <2> QED
    BY <1>0, <1>5, <2>1, <2>2, <2>3 DEF Pair
<1> QED
  BY <1>0, <1>2, <1>4, <1>5 DEF Pair, Idles

LEMMA QuietKeeps ==
  ASSUME IndInv, NEW p \in Procs, NEW r, Quiet(p, r), proc' = [proc EXCEPT ![p] = r],
         TypeOK', ~overlapped => Knows(r)' /\ LeaseInv'
  PROVE  IndInv'
<1>1. proc' = [s \in Procs |-> proc'[s]] /\ \A s \in Procs : CommandInv(proc'[s])
  BY ProcOf DEF IndInv, Quiet
<1>2. FileInv'
  BY QuietFiles
<1>3. ~overlapped' => Alone'
  BY QuietAlone DEF Quiet, history
<1>4. ~interrupted' /\ started' <= 2 => Pair'
  BY QuietPair DEF Quiet, history
<1> QED
  BY <1>1, <1>2, <1>3, <1>4 DEF IndInv

\* The lease after a step of p: gone, good, about to be renewed, or as it was.
LeaseStays(p, r) ==
  \/ ~lease'.exists
  \/ Opens(lease'.password)
  \/ AtRenew(r)
  \/ lease' = lease /\ ~AtReadLease(proc[p]) /\ ~AtRenew(proc[p])

Leases == [exists : BOOLEAN, password : Passwords \union {"none"}, expires : Nat]

LEMMA LeaseTypes ==
  /\ NoLease \in Leases /\ ~NoLease.exists
  /\ TypeOK => lease \in Leases
  /\ \A w \in Passwords \union {"none"}, t \in Nat :
       [exists |-> TRUE, password |-> w, expires |-> t] \in Leases
BY DEF NoLease, Leases, TypeOK

LEMMA QuietStep ==
  ASSUME IndInv, NEW p \in Procs, NEW r, Quiet(p, r), proc' = [proc EXCEPT ![p] = r],
         lease' \in Leases, backup' \in [Hosts -> Credentials],
         ~overlapped => Knows(r)' /\ LeaseStays(p, r)
  PROVE  IndInv'
<1>1. TypeOK'
  <2>1. \A s \in Procs : proc'[s].cmd = "idle" <=> proc'[s].todo = <<>>
    BY ProcOf DEF IndInv, Quiet
  <2>2. TypeOK /\ UNCHANGED <<store, hosts, torn, now, plain, overlapped, interrupted, started>>
    BY DEF IndInv, Quiet, history
  <2> QED
    BY <2>1, <2>2 DEF TypeOK, Leases
<1>2. ASSUME ~overlapped  PROVE LeaseInv'
  <2>1. /\ \A w : Opens(w)' <=> Opens(w)
        /\ interrupted' = interrupted /\ now' = now /\ LeaseInv
    BY <1>2, QuietStored DEF Quiet, history, IndInv, Alone
  <2>2. CASE ~lease'.exists
    BY <2>2 DEF LeaseInv, Alive
  <2>3. CASE Opens(lease'.password)
    <3>1. Opens(lease.password)'
      BY <2>3 DEF Opens, Quiet
    <3> QED
      BY <3>1 DEF LeaseInv
  <2>4. CASE AtRenew(r)
    <3>1. AtRenew(proc[p])'
      BY <2>4 DEF Quiet, Turns
    <3> QED
      BY <3>1 DEF LeaseInv
  <2>5. CASE lease' = lease /\ ~AtReadLease(proc[p]) /\ ~AtRenew(proc[p])
    <3>1. CASE \E s \in Procs : AtReadLease(proc[s]) \/ AtRenew(proc[s])
      <4>1. PICK s \in Procs : AtReadLease(proc[s]) \/ AtRenew(proc[s])
        BY <3>1
      <4>2. proc'[s] = proc[s]
        BY <2>5, <4>1 DEF Quiet, Turns
      <4>3. (AtReadLease(proc[s]) \/ AtRenew(proc[s]))'
        BY <4>1, <4>2
      <4> QED
        BY <4>3 DEF LeaseInv
    <3>2. CASE Alive => Opens(lease.password)
      <4>1. (Alive => Opens(lease.password))'
        BY <2>1, <2>5, <3>2 DEF Alive, Opens, Quiet
      <4> QED
        BY <4>1 DEF LeaseInv
    <3>3. CASE interrupted
      BY <2>1, <3>3 DEF LeaseInv
    <3> QED
      BY <2>1, <3>1, <3>2, <3>3 DEF LeaseInv
  <2> QED
    BY <1>2, <2>2, <2>3, <2>4, <2>5 DEF LeaseStays
<1> QED
  BY <1>1, <1>2, QuietKeeps

\* A command that ends, or is at a point that is told nothing.
LEMMA EndKnows ==
  ASSUME NEW r, \/ r = Idle
                \/ /\ r.cmd # "bootstrap"
                   /\ \/ AtValidate(r) \/ AtDrop(r) \/ AtGather(r) \/ AtLookUp(r)
                      \/ AtRead(r) /\ r.cmd \notin {"rotate", "rename", "migrate"}
  PROVE  Knows(r)'
<1>1. CASE r = Idle
  BY <1>1, IdleHolds, IdleKnows
<1>2. CASE /\ r.cmd # "bootstrap"
           /\ \/ AtValidate(r) \/ AtDrop(r) \/ AtGather(r) \/ AtLookUp(r)
              \/ AtRead(r) /\ r.cmd \notin {"rotate", "rename", "migrate"}
  <2>1. /\ ~AtRefs(r) /\ ~AtWrite(r) /\ ~AtGrant(r) /\ ~AtReadLease(r) /\ ~AtRenew(r) /\ ~AtParse(r)
        /\ ~AtEmptyBackup(r) /\ ~AtBackup(r) /\ ~AtTruncate(r) /\ ~AtHosts(r) /\ ~Moves(r)
    BY <1>2, HeadsOf, Writers
  <2>2. ~Founded(r) /\ ~(r.cmd = "rotate" /\ AtRead(r)) /\ ~ReadsToMove(r)
    BY <1>2, HeadsOf DEF Founded, ReadsToMove, Migrates
  <2> QED
    BY <2>1, <2>2 DEF Knows
<1> QED
  BY <1>1, <1>2

\* A command that ends here changes nothing for the others.
LEMMA QuietEnd ==
  ASSUME IndInv, NEW p \in Procs, NEW r, proc' = [proc EXCEPT ![p] = r],
         proc[p].cmd # "idle", UNCHANGED <<store, hosts, torn, backup, now, history>>,
         ~AtBackup(proc[p]), r = Idle, ~Storing(proc[p]) \/ ~Opens(proc[p].pw)
  PROVE  Quiet(p, r) /\ Knows(r)'
<1>1. Turns(p, r)
  BY ProcOf, IdleHolds DEF IndInv
<1>2. Idle.cmd = "idle" /\ CommandInv(Idle) /\ Ending(Idle)
  BY IdleHolds DEF Ending, Is
<1> QED
  BY <1>1, <1>2, Nowhere, EndKnows DEF Quiet

\* Points at which nothing is known of hosts.yml.
LEMMA WithoutMap ==
  ASSUME NEW r, \/ AtValidate(r) \/ AtDrop(r) \/ AtGather(r) \/ AtLookUp(r) \/ AtRefs(r) \/ AtParse(r)
                \/ AtRenew(r) \/ AtReadLease(r) \/ AtGrant(r) \/ AtPassword(r) \/ AtAbsent(r) \/ AtLock(r)
                \/ Founds(r) \/ TakesOut(r) \/ PutsIn(r) \/ (AtRead(r) /\ ~Migrates(r))
  PROVE  /\ ~HasMap(r) /\ ~Copied(r) /\ ~AtHosts(r) /\ ~AtTruncate(r)
         /\ ~AtEmptyBackup(r) /\ ~AtBackup(r)
<1>1. /\ ~AtHosts(r) /\ ~AtTruncate(r) /\ ~AtEmptyBackup(r) /\ ~AtBackup(r)
  BY HeadsOf, Writers
<1>2. ~Moves(r)
  BY HeadsOf, Writers
<1>3. ~ReadsToMove(r)
  BY HeadsOf, Writers DEF ReadsToMove
<1> QED
  BY <1>1, <1>2, <1>3 DEF HasMap, Copied

\* Points at which a bootstrap has not founded the keystore.
LEMMA Beginning ==
  ASSUME NEW q, \/ AtPassword(q) \/ AtValidate(q) \/ AtAbsent(q) \/ AtDrop(q) \/ AtRefs(q) \/ AtLookUp(q)
                \/ AtParse(q) \/ AtReadLease(q) \/ AtRenew(q) \/ AtLock(q) \/ (AtRead(q) /\ ~Migrates(q))
  PROVE  ~Storing(q) /\ ~Ending(q) /\ ~Founded(q) /\ ~AtBackup(q) /\ q.cmd # "idle"
<1>1. ~AtBackup(q) /\ ~AtGrant(q) /\ ~AtHosts(q)
  BY HeadsOf
<1>2. q.cmd # "idle"
  BY Nowhere
<1>3. q.cmd = "bootstrap" => AtAbsent(q)
  BY CommandsOf DEF Migrates
<1>4. AtAbsent(q) => ~AtEmptyBackup(q) /\ ~AtRead(q) /\ ~Moves(q)
  BY HeadsOf, Writers
<1> QED
  BY <1>1, <1>2, <1>3, <1>4 DEF Storing, Ending, Founded, Is

LEMMA PasswordKeeps ==
  ASSUME IndInv, NEW p \in Procs, Password(p)
  PROVE  IndInv'
<1>0. TypeOK /\ CommandInv(proc[p])
  BY DEF IndInv
<1>1. PICK r : /\ proc' = [proc EXCEPT ![p] = r] /\ CommandInv(r)
               /\ \/ r = Idle
                  \/ /\ r.cmd = proc[p].cmd
                     /\ \/ AtRead(r) /\ r.cmd \notin {"rotate", "rename", "migrate", "bootstrap"}
                        \/ AtValidate(r) \/ AtDrop(r) \/ AtGather(r) \/ AtLookUp(r)
  BY <1>0, PasswordTo
<1>2. AtPassword(proc[p])
  BY <1>0, PointOf DEF CommandInv, Password
<1>3. /\ UNCHANGED <<store, hosts, torn, backup, now, history>>
      /\ lease' = lease \/ lease' = NoLease
  BY DEF Password
<1>4. /\ ~Storing(proc[p]) /\ ~Ending(proc[p]) /\ ~Founded(proc[p]) /\ ~AtBackup(proc[p])
      /\ proc[p].cmd # "idle" /\ ~AtReadLease(proc[p]) /\ ~AtRenew(proc[p])
  BY <1>2, Beginning, HeadsOf
<1>5. r.cmd = "bootstrap" => r = Idle
  BY <1>1, <1>2, CommandsOf
<1>6. Knows(r)'
  BY <1>1, <1>5, EndKnows
<1>7. Quiet(p, r)
  <2>1. CASE r = Idle
    BY <1>1, <1>3, <1>4, <2>1, QuietEnd
  <2>2. CASE r # Idle
    <3>1. ~HasMap(r) /\ ~Copied(r) /\ ~AtHosts(r) /\ ~AtTruncate(r) /\ ~AtEmptyBackup(r) /\ ~AtBackup(r)
      BY <1>1, <2>2, WithoutMap DEF Migrates
    <3>2. \A h \in Hosts : Spares(r, h)
      BY <1>1, <2>2, HeadsOf DEF Spares
    <3>3. Turns(p, r)
      BY <1>1, ProcOf DEF IndInv
    <3> QED
      BY <1>1, <1>3, <1>4, <2>2, <3>1, <3>2, <3>3 DEF Quiet
  <2> QED
    BY <2>1, <2>2
<1>8. LeaseStays(p, r) /\ lease' \in Leases /\ backup' \in [Hosts -> Credentials]
  BY <1>0, <1>3, <1>4, LeaseTypes DEF LeaseStays, TypeOK
<1> QED
  BY <1>1, <1>6, <1>7, <1>8, QuietStep

LEMMA ValidateKeeps ==
  ASSUME IndInv, NEW p \in Procs, Validate(p)
  PROVE  IndInv'
<1>0. TypeOK /\ CommandInv(proc[p])
  BY DEF IndInv
<1>1. PICK r : /\ proc' = [proc EXCEPT ![p] = r] /\ CommandInv(r)
               /\ \/ r = Idle
                  \/ /\ AtGrant(r) \/ (AtRead(r) /\ r.cmd = "rotate")
                     /\ Same(r, proc[p]) /\ Opens(r.pw)
  BY <1>0, ValidateTo
<1>2. AtValidate(proc[p])
  BY <1>0, PointOf DEF CommandInv, Validate
<1>3. UNCHANGED <<store, lease, hosts, torn, backup, now, history>>
  BY DEF Validate, files
<1>4. /\ ~Storing(proc[p]) /\ ~Ending(proc[p]) /\ ~Founded(proc[p]) /\ ~AtBackup(proc[p])
      /\ proc[p].cmd # "idle" /\ ~AtReadLease(proc[p]) /\ ~AtRenew(proc[p])
  BY <1>2, Beginning, HeadsOf
<1>5. Quiet(p, r) /\ Knows(r)'
  <2>1. CASE r = Idle
    BY <1>1, <1>3, <1>4, <2>1, QuietEnd
  <2>2. CASE r # Idle
    <3>1. r.cmd = proc[p].cmd /\ r.cmd \in {"rotate", "unlock", "open"}
      BY <1>1, <1>2, <2>2, CommandsOf DEF Same
    <3>2. ~HasMap(r) /\ ~Copied(r) /\ ~AtHosts(r) /\ ~AtTruncate(r) /\ ~AtEmptyBackup(r) /\ ~AtBackup(r)
      BY <1>1, <2>2, <3>1, WithoutMap DEF Migrates
    <3>3. ~AtRefs(r) /\ ~AtWrite(r) /\ ~AtReadLease(r) /\ ~AtRenew(r) /\ ~AtParse(r) /\ ~Moves(r)
      BY <1>1, <2>2, HeadsOf, Writers
    <3>4. ~ReadsToMove(r) /\ ~Founded(r)
      BY <3>1 DEF ReadsToMove, Migrates, Founded
    <3>5. Opens(r.pw)'
      BY <1>1, <1>3, <2>2 DEF Opens
    <3>6. Knows(r)'
      BY <3>2, <3>3, <3>4, <3>5 DEF Knows
    <3>7. Turns(p, r)
      BY <1>1, ProcOf DEF IndInv
    <3>8. \A h \in Hosts : Spares(r, h)
      BY <3>3 DEF Spares
    <3> QED
      BY <1>1, <1>3, <1>4, <3>1, <3>2, <3>6, <3>7, <3>8 DEF Quiet
  <2> QED
    BY <2>1, <2>2
<1>6. LeaseStays(p, r) /\ lease' \in Leases /\ backup' \in [Hosts -> Credentials]
  BY <1>0, <1>3, <1>4, LeaseTypes DEF LeaseStays, TypeOK
<1> QED
  BY <1>1, <1>5, <1>6, QuietStep

LEMMA AbsentKeeps ==
  ASSUME IndInv, NEW p \in Procs, Absent(p)
  PROVE  IndInv'
<1>0. TypeOK /\ CommandInv(proc[p]) /\ FileInv
  BY DEF IndInv
<1>1. PICK r : /\ proc' = [proc EXCEPT ![p] = r] /\ CommandInv(r)
               /\ \/ r = Idle
                  \/ /\ Founds(r) /\ r.cmd = proc[p].cmd
                     /\ ~store.exists /\ r.secrets = NoSecrets
  BY <1>0, AbsentTo
<1>2. AtAbsent(proc[p])
  BY <1>0, PointOf DEF CommandInv, Absent
<1>3. UNCHANGED <<store, lease, hosts, torn, backup, now, history>>
  BY DEF Absent, files
<1>4. /\ ~Storing(proc[p]) /\ ~Ending(proc[p]) /\ ~Founded(proc[p]) /\ ~AtBackup(proc[p])
      /\ proc[p].cmd # "idle" /\ ~AtReadLease(proc[p]) /\ ~AtRenew(proc[p])
  BY <1>2, Beginning, HeadsOf
<1>5. Quiet(p, r) /\ Knows(r)'
  <2>1. CASE r = Idle
    BY <1>1, <1>3, <1>4, <2>1, QuietEnd
  <2>2. CASE r # Idle
    <3>1. Founds(r) /\ r.cmd = proc[p].cmd /\ ~store.exists
      BY <1>1, <2>2
    <3>2. ~HasMap(r) /\ ~Copied(r) /\ ~AtHosts(r) /\ ~AtTruncate(r) /\ ~AtEmptyBackup(r) /\ ~AtBackup(r)
      BY <3>1, WithoutMap
    <3>3. /\ ~AtRefs(r) /\ ~AtReadLease(r) /\ ~AtRenew(r) /\ ~AtParse(r) /\ ~Moves(r) /\ ~AtGrant(r)
          /\ ~AtRead(r) /\ AtWrite(r)
      BY <3>1, HeadsOf, Writers
    <3>4. ~ReadsToMove(r) /\ ~Founded(r)
      BY <3>1, <3>3 DEF ReadsToMove, Founded
    <3>5. /\ store'.secrets = NoSecrets /\ ~store'.exists /\ store.secrets = NoSecrets
      BY <1>0, <1>3, <3>1 DEF FileInv
    <3>6. \A i \in Ids : ~Present(store'.secrets, i) /\ \A k \in Kinds : store'.secrets[i][k] = "none"
      BY <3>5 DEF Present, NoSecrets, NoEntry
    <3>7. /\ \A i \in Ids : ~Vanishes(r, i)'
          /\ \A i \in Ids, k \in Kinds : ~Lost(r, i, k)'
      BY <3>6 DEF Vanishes, Lost
    <3>8. Knows(r)'
      BY <3>2, <3>3, <3>4, <3>5, <3>7 DEF Knows
    <3>9. \A h \in Hosts : ~Stored(h)
      BY <1>3, <3>6, IdsAssumption DEF Stored
    <3>10. Turns(p, r)
      BY <1>1, ProcOf DEF IndInv
    <3> QED
      BY <1>1, <1>3, <1>4, <3>1, <3>2, <3>8, <3>9, <3>10 DEF Quiet
  <2> QED
    BY <2>1, <2>2
<1>6. LeaseStays(p, r) /\ lease' \in Leases /\ backup' \in [Hosts -> Credentials]
  BY <1>0, <1>3, <1>4, LeaseTypes DEF LeaseStays, TypeOK
<1> QED
  BY <1>1, <1>5, <1>6, QuietStep

\* An edit takes nothing away but what an update replaces.
LEMMA EditedKeeps ==
  ASSUME NEW q, Arguments(q), NEW secrets \in [Ids -> Entries]
  PROVE  /\ \A i \in Ids : Present(secrets, i) => Present(Edited(q, secrets), i)
         /\ \A i \in Ids, k \in Kinds :
              secrets[i][k] # "none" /\ Edited(q, secrets)[i][k] = "none" => q.cmd = "update" /\ q.id = i
         /\ \A h \in Hosts, k \in Kinds :
              secrets[h][k] = "plain" => \/ Edited(q, secrets)[h][k] = "plain"
                                         \/ h \in Replaced(q)
<1> DEFINE e == Edited(q, secrets)
<1>1. \A i \in Ids : secrets[i] \in [Kinds -> {"none", "typed", "plain"}]
  BY DEF Entries
<1>2. CASE q.cmd = "update"
  <2>1. q.id \in Ids /\ q.kind \in Kinds /\ q.id \in Replaced(q)
    BY <1>2 DEF Arguments, Replaced
  <2>2. e = [secrets EXCEPT ![q.id] = [NoEntry EXCEPT ![q.kind] = "typed"]]
    BY <1>2 DEF Edited
  <2> HIDE DEF e
  <2>3. \A i \in Ids : i # q.id => e[i] = secrets[i]
    BY <2>2
  <2>4. e[q.id][q.kind] = "typed" /\ NoEntry[q.kind] = "none"
    BY <2>1, <2>2 DEF NoEntry
  <2>5. Present(e, q.id)
    BY <2>4 DEF Present
  <2> QED
    BY <1>2, <2>1, <2>3, <2>5, IdsAssumption DEF e, Present
<1>3. CASE q.cmd \in {"add", "upsert", "rename", "deploy"}
  <2>1. q.id \in Ids /\ q.kind \in Kinds /\ q.id \in Replaced(q)
    BY <1>3 DEF Arguments, Replaced
  <2>2. e = [secrets EXCEPT ![q.id][q.kind] = "typed"]
    BY <1>3 DEF Edited
  <2> HIDE DEF e
  <2>3. \A i \in Ids : i # q.id => e[i] = secrets[i]
    BY <2>2
  <2>4. \A k \in Kinds : e[q.id][k] = IF k = q.kind THEN "typed" ELSE secrets[q.id][k]
    BY <1>1, <2>1, <2>2
  <2>5. Present(e, q.id)
    BY <2>1, <2>4 DEF Present, NoEntry
  <2> QED
    BY <2>1, <2>3, <2>4, <2>5, IdsAssumption DEF e, Present
<1>4. CASE Migrates(q)
  <2>1. e = Migrated(secrets, q.map)
    BY <1>4 DEF Edited, Migrates
  <2> HIDE DEF e
  <2>2. \A i \in Ids : e[i] = IF i \in Hosts /\ HasLegacy(i, q.map)
                              THEN [secrets[i] EXCEPT ![q.map[i].legacy] = "plain"] ELSE secrets[i]
    BY <2>1 DEF Migrated
  <2>3. ASSUME NEW i \in Ids, NEW k \in Kinds  PROVE e[i][k] = secrets[i][k] \/ e[i][k] = "plain"
    BY <1>1, <2>2
  <2>4. ASSUME NEW i \in Ids, Present(secrets, i)  PROVE Present(e, i)
    <3>1. CASE i \in Hosts /\ HasLegacy(i, q.map)
      <4>1. q.map[i].legacy \in Kinds
        BY <3>1 DEF Arguments, Credentials, HasLegacy
      <4>2. e[i][q.map[i].legacy] = "plain" /\ NoEntry[q.map[i].legacy] = "none"
        BY <1>1, <2>2, <3>1, <4>1 DEF NoEntry
      <4> QED
        BY <4>2 DEF Present
    <3>2. CASE ~(i \in Hosts /\ HasLegacy(i, q.map))
      BY <2>2, <2>4, <3>2 DEF Present
    <3> QED
      BY <3>1, <3>2
  <2> QED
    BY <2>3, <2>4, IdsAssumption DEF e
<1>5. CASE q.cmd \notin {"update", "add", "upsert", "rename", "deploy"} /\ ~Migrates(q)
  BY <1>5, IdsAssumption DEF Edited, Migrates
<1> QED
  BY <1>2, <1>3, <1>4, <1>5

LEMMA ReadKeeps ==
  ASSUME IndInv, NEW p \in Procs, Read(p)
  PROVE  IndInv'
<1>0. TypeOK /\ CommandInv(proc[p]) /\ FileInv /\ Arguments(proc[p])
  BY DEF IndInv, CommandInv
<1>1. PICK r : /\ proc' = [proc EXCEPT ![p] = r] /\ CommandInv(r)
               /\ \/ /\ r = Idle
                     /\ ~Readable(proc[p].pw) \/ proc[p].cmd \in {"add", "update"}
                  \/ /\ Migrates(r) => Moves(r)
                     /\ ~Migrates(r) => PutsIn(r)
                     /\ \E secrets \in [Ids -> Entries] :
                          /\ Decrypt(proc[p].pw, secrets) /\ ~Refused(proc[p], secrets)
                          /\ Same(r, [proc[p] EXCEPT !.secrets = Edited(proc[p], secrets)])
  BY <1>0, ReadTo
<1>2. AtRead(proc[p])
  BY <1>0, PointOf DEF CommandInv, Read
<1>3. UNCHANGED <<store, lease, hosts, torn, backup, now, history>>
  BY DEF Read, files
<1>4. /\ ~Ending(proc[p]) /\ ~AtBackup(proc[p]) /\ ~AtEmptyBackup(proc[p])
      /\ proc[p].cmd # "idle" /\ ~AtReadLease(proc[p]) /\ ~AtRenew(proc[p])
  BY <1>2, Nowhere, HeadsOf DEF Ending, Is
<1>5. Quiet(p, r) /\ (~overlapped => Knows(r)')
  <2>1. CASE /\ r = Idle
             /\ ~Readable(proc[p].pw) \/ proc[p].cmd \in {"add", "update"}
    <3>1. ~Storing(proc[p]) \/ ~Opens(proc[p].pw)
      BY <2>1 DEF Readable, Storing
    <3> QED
      BY <1>1, <1>3, <1>4, <2>1, <3>1, QuietEnd
  <2>2. ASSUME (Migrates(r) => Moves(r)) /\ (~Migrates(r) => PutsIn(r)),
               NEW secrets \in [Ids -> Entries], Decrypt(proc[p].pw, secrets),
               Same(r, [proc[p] EXCEPT !.secrets = Edited(proc[p], secrets)])
        PROVE  Quiet(p, r) /\ (~overlapped => Knows(r)')
    <3> DEFINE e == Edited(proc[p], secrets)
    <3>1. /\ \A i \in Ids : Present(secrets, i) => Present(e, i)
          /\ \A i \in Ids, k \in Kinds :
               secrets[i][k] # "none" /\ e[i][k] = "none" => proc[p].cmd = "update" /\ proc[p].id = i
          /\ \A h \in Hosts, k \in Kinds :
               secrets[h][k] = "plain" => e[h][k] = "plain" \/ h \in Replaced(proc[p])
      BY <1>0, EditedKeeps
    <3> HIDE DEF e
    <3>2. /\ r.cmd = proc[p].cmd /\ r.pw = proc[p].pw /\ r.id = proc[p].id /\ r.from = proc[p].from
          /\ r.kind = proc[p].kind /\ r.host = proc[p].host /\ r.map = proc[p].map /\ r.secrets = e
      BY <1>0, <2>2 DEF CommandInv, Shaped, Same, e
    <3>3. secrets = store.secrets /\ (store.exists => Opens(proc[p].pw))
      BY <1>0, <2>2 DEF Decrypt, FileInv, Opens
    <3>4. /\ AtWrite(r) /\ ~AtRead(r) /\ ~AtRefs(r) /\ ~AtReadLease(r) /\ ~AtRenew(r) /\ ~AtParse(r)
          /\ ~AtGrant(r) /\ ~AtEmptyBackup(r) /\ ~AtBackup(r) /\ ~AtTruncate(r) /\ ~AtHosts(r) /\ ~Founds(r)
          /\ ~AtAbsent(r)
      BY <2>2, HeadsOf, Writers
    <3>5. Moves(r) => ReadsToMove(proc[p])
      BY <1>2, <3>2, Writers DEF ReadsToMove, Migrates
    <3>6. Storing(proc[p]) => Storing(r)
      BY <2>2, <3>2, <3>4 DEF Storing, Migrates
    <3>7. HasMap(r) => Moves(r)
      BY <3>4 DEF HasMap, ReadsToMove
    <3>8. Copied(r) => Copied(proc[p])
      BY <3>4, <3>5 DEF Copied, ReadsToMove
    <3>9. \A h \in Hosts : Stored(h) => Spares(r, h)
      BY <3>1, <3>2, <3>3 DEF Stored, Spares, Replaced
    <3>10. Founded(proc[p]) => Founded(r)
      BY <3>2, <3>4 DEF Founded
    <3>11. ~Moved /\ HasMap(r) => Current(r)
      <4>1. ASSUME ~Moved, Moves(r)  PROVE Current(r)
        <5>1. Current(proc[p])
          BY <1>0, <4>1, <3>5 DEF FileInv, HasMap
        <5> QED
          BY <3>2, <5>1 DEF Current, Migrates
      <4> QED
        BY <3>7, <4>1
    <3>12. Turns(p, r)
      BY <1>1, ProcOf DEF IndInv
    <3>13. Quiet(p, r)
      BY <1>1, <1>3, <1>4, <3>2, <3>4, <3>6, <3>8, <3>9, <3>10, <3>11, <3>12 DEF Quiet
    <3>14. ASSUME ~overlapped  PROVE Knows(r)'
      <4>1. Knows(proc[p])
        BY <3>14 DEF IndInv, Alone
      <4>2. /\ \A i \in Ids : ~Vanishes(r, i)'
            /\ \A i \in Ids, k \in Kinds : Lost(r, i, k)' => r.cmd = "update" /\ r.id = i
        BY <1>3, <3>1, <3>2, <3>3 DEF Vanishes, Lost
      <4>3. (store.exists => Opens(r.pw))'
        BY <1>3, <3>2, <3>3 DEF Opens
      <4>4. Founded(r) => Opens(r.pw)'
        <5>1. Founded(r) => Founded(proc[p])
          BY <1>2, <3>2, HeadsOf, Writers DEF Founded
        <5> QED
          BY <1>3, <3>2, <4>1, <5>1 DEF Knows, Opens
      <4>5. Moves(r) => r.map = hosts'
        BY <1>3, <3>2, <3>5, <4>1 DEF Knows
      <4>6. ~ReadsToMove(r)
        BY <3>4 DEF ReadsToMove
      <4> QED
        BY <3>4, <4>2, <4>3, <4>4, <4>5, <4>6 DEF Knows
    <3> QED
      BY <3>13, <3>14
  <2> QED
    BY <1>1, <2>1, <2>2
<1>6. LeaseStays(p, r) /\ lease' \in Leases /\ backup' \in [Hosts -> Credentials]
  BY <1>0, <1>3, <1>4, LeaseTypes DEF LeaseStays, TypeOK
<1> QED
  BY <1>1, <1>5, <1>6, QuietStep

LEMMA DropKeeps ==
  ASSUME IndInv, NEW p \in Procs, Drop(p)
  PROVE  IndInv'
<1>0. TypeOK /\ CommandInv(proc[p])
  BY DEF IndInv
<1>1. PICK r : /\ proc' = [proc EXCEPT ![p] = r] /\ CommandInv(r)
               /\ \/ r = Idle
                  \/ /\ AtRefs(r) /\ Opens(r.pw)
                     /\ r.cmd = proc[p].cmd /\ r.from = proc[p].from
                     /\ r.secrets = Removed(r, store.secrets)
  BY <1>0, DropTo
<1>2. AtDrop(proc[p])
  BY <1>0, PointOf DEF CommandInv, Drop
<1>3. UNCHANGED <<store, lease, hosts, torn, backup, now, history>>
  BY DEF Drop, files
<1>4. /\ ~Storing(proc[p]) /\ ~Ending(proc[p]) /\ ~Founded(proc[p]) /\ ~AtBackup(proc[p])
      /\ proc[p].cmd # "idle" /\ ~AtReadLease(proc[p]) /\ ~AtRenew(proc[p])
  BY <1>2, Beginning, HeadsOf
<1>5. Quiet(p, r) /\ Knows(r)'
  <2>1. CASE r = Idle
    BY <1>1, <1>3, <1>4, <2>1, QuietEnd
  <2>2. CASE r # Idle
    <3>1. AtRefs(r) /\ r.cmd \in {"remove", "rename"} /\ r.cmd = proc[p].cmd
      BY <1>1, <2>2, CommandsOf
    <3>2. ~HasMap(r) /\ ~Copied(r) /\ ~AtHosts(r) /\ ~AtTruncate(r) /\ ~AtEmptyBackup(r) /\ ~AtBackup(r)
      BY <3>1, WithoutMap
    <3>3. ~AtWrite(r) /\ ~AtReadLease(r) /\ ~AtRenew(r) /\ ~AtParse(r) /\ ~Moves(r) /\ ~AtGrant(r)
      BY <3>1, HeadsOf, Writers
    <3>4. ~ReadsToMove(r) /\ ~Founded(r)
      BY <3>1 DEF ReadsToMove, Founded, Migrates
    <3>5. Opens(r.pw)' /\ r.secrets = Removed(r, store.secrets)'
      BY <1>1, <1>3, <2>2 DEF Opens, Removed
    <3>6. Knows(r)'
      BY <3>1, <3>2, <3>3, <3>4, <3>5 DEF Knows
    <3>7. \A h \in Hosts : Stored(h) => Spares(r, h)
      <4>1. store.secrets \in [Ids -> Entries] /\ r.from \in Replaced(r)
        BY <1>0, <3>1 DEF TypeOK, Replaced
      <4>2. \A i \in Ids : i # r.from => r.secrets[i] = store.secrets[i]
        BY <1>1, <2>2, <4>1 DEF Removed
      <4> QED
        BY <4>1, <4>2, IdsAssumption DEF Stored, Spares
    <3>8. Turns(p, r)
      BY <1>1, ProcOf DEF IndInv
    <3> QED
      BY <1>1, <1>3, <1>4, <3>1, <3>2, <3>6, <3>7, <3>8 DEF Quiet
  <2> QED
    BY <2>1, <2>2
<1>6. LeaseStays(p, r) /\ lease' \in Leases /\ backup' \in [Hosts -> Credentials]
  BY <1>0, <1>3, <1>4, LeaseTypes DEF LeaseStays, TypeOK
<1> QED
  BY <1>1, <1>5, <1>6, QuietStep

LEMMA RefsKeeps ==
  ASSUME IndInv, NEW p \in Procs, Refs(p)
  PROVE  IndInv'
<1>0. TypeOK /\ CommandInv(proc[p]) /\ Arguments(proc[p])
  BY DEF IndInv, CommandInv
<1>1. PICK r : /\ proc' = [proc EXCEPT ![p] = r] /\ CommandInv(r)
               /\ \/ r = Idle
                  \/ /\ TakesOut(r) /\ Same(r, proc[p])
                     /\ \A h \in Hosts : hosts[h].ref # proc[p].from
  BY <1>0, RefsTo
<1>2. AtRefs(proc[p])
  BY <1>0, PointOf DEF CommandInv, Refs
<1>3. UNCHANGED <<store, lease, hosts, torn, backup, now, history>>
  BY DEF Refs, files
<1>4. /\ ~Storing(proc[p]) /\ ~Ending(proc[p]) /\ ~Founded(proc[p]) /\ ~AtBackup(proc[p])
      /\ proc[p].cmd # "idle" /\ ~AtReadLease(proc[p]) /\ ~AtRenew(proc[p])
  BY <1>2, Beginning, HeadsOf
<1>5. Quiet(p, r) /\ (~overlapped => Knows(r)')
  <2>1. CASE r = Idle
    BY <1>1, <1>3, <1>4, <2>1, QuietEnd
  <2>2. CASE r # Idle
    <3>1. TakesOut(r) /\ r.cmd \in {"remove", "rename"} /\ r.cmd = proc[p].cmd
      BY <1>1, <2>2, Writers DEF Same
    <3>2. ~HasMap(r) /\ ~Copied(r) /\ ~AtHosts(r) /\ ~AtTruncate(r) /\ ~AtEmptyBackup(r) /\ ~AtBackup(r)
      BY <3>1, WithoutMap
    <3>3. /\ AtWrite(r) /\ ~AtRefs(r) /\ ~AtReadLease(r) /\ ~AtRenew(r) /\ ~AtParse(r) /\ ~Moves(r)
          /\ ~AtGrant(r) /\ ~AtRead(r)
      BY <3>1, HeadsOf, Writers
    <3>4. ~ReadsToMove(r) /\ ~Founded(r)
      BY <3>1 DEF ReadsToMove, Founded, Migrates
    <3>5. Turns(p, r)
      BY <1>1, ProcOf DEF IndInv
    <3>6. \A h \in Hosts : Spares(proc[p], h) => Spares(r, h)
      BY <1>1, <1>2, <2>2 DEF Same, Spares, Replaced
    <3>7. Quiet(p, r)
      BY <1>1, <1>3, <1>4, <3>1, <3>2, <3>5, <3>6 DEF Quiet
    <3>8. ASSUME ~overlapped  PROVE Knows(r)'
      <4>1. Opens(r.pw) /\ r.secrets = Removed(r, store.secrets)
        <5>1. Opens(proc[p].pw) /\ proc[p].secrets = Removed(proc[p], store.secrets)
          BY <1>2, <3>8 DEF IndInv, Alone, Knows
        <5> QED
          BY <1>1, <2>2, <5>1 DEF Same, Removed
      <4>2. /\ store.secrets \in [Ids -> Entries] /\ r.from \in Ids
            /\ \A i \in Ids : store.secrets[i] \in [Kinds -> {"none", "typed", "plain"}]
        BY <1>0, <1>1, <2>2, <3>1 DEF TypeOK, Arguments, Same, Entries
      <4>3. \A i \in Ids : i # r.from => r.secrets[i] = store.secrets[i]
        BY <4>1, <4>2 DEF Removed
      <4>4. \A i \in Ids, h \in Hosts : Vanishes(r, i)' => (hosts[h].ref # i)'
        <5>1. r.from = proc[p].from /\ \A h \in Hosts : hosts[h].ref # r.from
          BY <1>1, <2>2 DEF Same
        <5> QED
          BY <1>3, <4>3, <5>1 DEF Vanishes, Present
      <4>5. ASSUME NEW i \in Ids, NEW k \in Kinds, Lost(r, i, k)'
            PROVE  \/ r.cmd = "remove" /\ r.from = i /\ r.kind \in {k, "all"}
                   \/ r.cmd = "rename" /\ r.from = i
        <5>1. Lost(r, i, k)
          BY <1>3, <4>5 DEF Lost
        <5>2. i = r.from
          BY <4>3, <5>1 DEF Lost
        <5>3. CASE r.cmd = "remove" /\ r.kind # "all" /\ r.kind # k
          <6>1. r.secrets = [store.secrets EXCEPT ![r.from][r.kind] = "none"]
            BY <4>1, <5>3 DEF Removed
          <6>2. r.secrets[i][k] = store.secrets[i][k]
            BY <4>2, <5>2, <5>3, <6>1
          <6> QED
            BY <5>1, <6>2 DEF Lost
        <5> QED
          BY <3>1, <5>2, <5>3
      <4>6. Opens(r.pw)'
        BY <1>3, <4>1 DEF Opens
      <4> QED
        BY <3>2, <3>3, <3>4, <4>4, <4>5, <4>6 DEF Knows
    <3> QED
      BY <3>7, <3>8
  <2> QED
    BY <2>1, <2>2
<1>6. LeaseStays(p, r) /\ lease' \in Leases /\ backup' \in [Hosts -> Credentials]
  BY <1>0, <1>3, <1>4, LeaseTypes DEF LeaseStays, TypeOK
<1> QED
  BY <1>1, <1>5, <1>6, QuietStep

LEMMA LookUpKeeps ==
  ASSUME IndInv, NEW p \in Procs, LookUp(p)
  PROVE  IndInv'
<1>0. TypeOK /\ CommandInv(proc[p])
  BY DEF IndInv
<1>1. PICK r : /\ proc' = [proc EXCEPT ![p] = r] /\ CommandInv(r)
               /\ r = Idle \/ (AtParse(r) /\ Same(r, proc[p]) /\ Resolves(r.id))
  BY <1>0, LookUpTo
<1>2. AtLookUp(proc[p])
  BY <1>0, PointOf DEF CommandInv, LookUp
<1>3. UNCHANGED <<store, lease, hosts, torn, backup, now, history>>
  BY DEF LookUp, files
<1>4. /\ ~Storing(proc[p]) /\ ~Ending(proc[p]) /\ ~Founded(proc[p]) /\ ~AtBackup(proc[p])
      /\ proc[p].cmd # "idle" /\ ~AtReadLease(proc[p]) /\ ~AtRenew(proc[p])
  BY <1>2, Beginning, HeadsOf
<1>5. Quiet(p, r) /\ Knows(r)'
  <2>1. CASE r = Idle
    BY <1>1, <1>3, <1>4, <2>1, QuietEnd
  <2>2. CASE r # Idle
    <3>1. AtParse(r) /\ r.cmd = "savehost" /\ r.cmd = proc[p].cmd
      BY <1>1, <1>2, <2>2, CommandsOf DEF Same
    <3>2. ~HasMap(r) /\ ~Copied(r) /\ ~AtHosts(r) /\ ~AtTruncate(r) /\ ~AtEmptyBackup(r) /\ ~AtBackup(r)
      BY <3>1, WithoutMap
    <3>3. ~AtWrite(r) /\ ~AtReadLease(r) /\ ~AtRenew(r) /\ ~AtRefs(r) /\ ~Moves(r) /\ ~AtGrant(r)
      BY <3>1, HeadsOf, Writers
    <3>4. ~ReadsToMove(r) /\ ~Founded(r)
      BY <3>1 DEF ReadsToMove, Founded, Migrates
    <3>5. Resolves(r.id)'
      BY <1>1, <1>3, <2>2 DEF Resolves, Present
    <3>6. Knows(r)'
      BY <3>1, <3>2, <3>3, <3>4, <3>5 DEF Knows
    <3>7. \A h \in Hosts : Spares(r, h)
      BY <3>3 DEF Spares
    <3>8. Turns(p, r)
      BY <1>1, ProcOf DEF IndInv
    <3> QED
      BY <1>1, <1>3, <1>4, <3>1, <3>2, <3>6, <3>7, <3>8 DEF Quiet
  <2> QED
    BY <2>1, <2>2
<1>6. LeaseStays(p, r) /\ lease' \in Leases /\ backup' \in [Hosts -> Credentials]
  BY <1>0, <1>3, <1>4, LeaseTypes DEF LeaseStays, TypeOK
<1> QED
  BY <1>1, <1>5, <1>6, QuietStep

LEMMA ParseKeeps ==
  ASSUME IndInv, NEW p \in Procs, Parse(p)
  PROVE  IndInv'
<1>0. TypeOK /\ CommandInv(proc[p])
  BY DEF IndInv
<1>1. PICK r : /\ proc' = [proc EXCEPT ![p] = r] /\ CommandInv(r)
               /\ \/ r = Idle
                  \/ /\ AtTruncate(r) /\ ~Migrates(r)
                     /\ r.cmd = proc[p].cmd /\ r.host = proc[p].host
                     /\ \A h \in Hosts :
                          \/ h # proc[p].host /\ r.map[h] = hosts[h]
                          \/ h = proc[p].host /\ r.map[h].ref = "none"
                          \/ /\ h = proc[p].host /\ r.map[h].ref = proc[p].id
                             /\ proc[p].cmd \in {"savehost", "deploy"}
  BY <1>0, ParseTo
<1>2. AtParse(proc[p])
  BY <1>0, PointOf DEF CommandInv, Parse
<1>3. UNCHANGED <<store, lease, hosts, torn, backup, now, history>>
  BY DEF Parse, files
<1>4. /\ ~Storing(proc[p]) /\ ~Ending(proc[p]) /\ ~Founded(proc[p]) /\ ~AtBackup(proc[p])
      /\ proc[p].cmd # "idle" /\ ~AtReadLease(proc[p]) /\ ~AtRenew(proc[p])
  BY <1>2, Beginning, HeadsOf
<1>5. Quiet(p, r) /\ (~overlapped => Knows(r)')
  <2>1. CASE r = Idle
    BY <1>1, <1>3, <1>4, <2>1, QuietEnd
  <2>2. CASE r # Idle
    <3>1. AtTruncate(r) /\ ~Migrates(r) /\ r.cmd = proc[p].cmd /\ r.cmd # "bootstrap"
      BY <1>1, <2>2 DEF Migrates
    <3>2. /\ ~AtWrite(r) /\ ~AtReadLease(r) /\ ~AtRenew(r) /\ ~AtRefs(r) /\ ~Moves(r) /\ ~AtGrant(r)
          /\ ~AtEmptyBackup(r) /\ ~AtBackup(r) /\ ~AtHosts(r) /\ ~AtParse(r) /\ ~AtRead(r)
      BY <3>1, HeadsOf, Writers
    <3>3. ~ReadsToMove(r) /\ ~Founded(r) /\ \A h \in Hosts : ~Carries(r, h)
      BY <3>1 DEF ReadsToMove, Founded, Carries
    <3>4. ~Copied(r)
      BY <3>2, <3>3 DEF Copied
    <3>5. Current(r)
      BY <1>1, <2>2, <3>1 DEF Current
    <3>6. \A h \in Hosts : Spares(r, h)
      BY <3>2 DEF Spares
    <3>7. Turns(p, r)
      BY <1>1, ProcOf DEF IndInv
    <3>8. Quiet(p, r)
      BY <1>1, <1>3, <1>4, <3>1, <3>2, <3>3, <3>4, <3>5, <3>6, <3>7 DEF Quiet
    <3>9. ASSUME ~overlapped  PROVE Knows(r)'
      <4>1. Knows(proc[p]) /\ ReferencesResolve
        BY <3>9 DEF IndInv, Alone
      <4>2. ASSUME NEW h \in Hosts, NewHosts(r)[h].ref # "none"  PROVE Resolves(NewHosts(r)[h].ref)'
        <5>1. NewHosts(r) = r.map
          BY <3>1 DEF NewHosts, Migrates
        <5>2. Resolves(r.map[h].ref)
          BY <1>1, <1>2, <2>2, <3>9, <4>1, <4>2, <5>1 DEF Knows, ReferencesResolve, Resolves
        <5> QED
          BY <1>3, <5>1, <5>2 DEF Resolves, Present
      <4>3. /\ \A h \in Hosts : NewHosts(r)[h].ref # "none" => Resolves(NewHosts(r)[h].ref)'
            /\ \A h \in Hosts : Carries(r, h) => Stored(h)'
        BY <3>3, <4>2
      <4> QED
        BY <3>2, <3>3, <4>3 DEF Knows
    <3> QED
      BY <3>8, <3>9
  <2> QED
    BY <2>1, <2>2
<1>6. LeaseStays(p, r) /\ lease' \in Leases /\ backup' \in [Hosts -> Credentials]
  BY <1>0, <1>3, <1>4, LeaseTypes DEF LeaseStays, TypeOK
<1> QED
  BY <1>1, <1>5, <1>6, QuietStep

LEMMA GatherKeeps ==
  ASSUME IndInv, NEW p \in Procs, Gather(p)
  PROVE  IndInv'
<1>0. TypeOK /\ CommandInv(proc[p])
  BY DEF IndInv
<1>1. PICK r : /\ proc' = [proc EXCEPT ![p] = r] /\ CommandInv(r)
               /\ \/ r = Idle
                  \/ /\ r.cmd = proc[p].cmd /\ r.pw = proc[p].pw /\ r.map = hosts
                     /\ \/ AtEmptyBackup(r) /\ \E h \in Hosts : HasLegacy(h, hosts)
                        \/ AtTruncate(r) /\ \A h \in Hosts : ~HasLegacy(h, hosts)
  BY <1>0, GatherTo
<1>2. AtGather(proc[p]) /\ Migrates(proc[p])
  BY <1>0, PointOf, CommandsOf DEF CommandInv, Gather, Migrates
<1>3. UNCHANGED <<store, lease, hosts, torn, backup, now, history>>
  BY DEF Gather, files
<1>4. /\ ~Storing(proc[p]) /\ ~Ending(proc[p]) /\ ~AtBackup(proc[p])
      /\ proc[p].cmd # "idle" /\ ~AtReadLease(proc[p]) /\ ~AtRenew(proc[p])
  <2>1. /\ ~AtBackup(proc[p]) /\ ~AtGrant(proc[p]) /\ ~AtHosts(proc[p]) /\ ~AtEmptyBackup(proc[p])
        /\ ~AtRead(proc[p]) /\ ~Moves(proc[p]) /\ ~AtReadLease(proc[p]) /\ ~AtRenew(proc[p])
    BY <1>2, HeadsOf, Writers
  <2>2. proc[p].cmd # "idle"
    BY <1>2 DEF Migrates
  <2> QED
    BY <2>1, <2>2 DEF Storing, Ending, Is
<1>5. Quiet(p, r) /\ (~overlapped => Knows(r)')
  <2>1. CASE r = Idle
    BY <1>1, <1>3, <1>4, <2>1, QuietEnd
  <2>2. CASE r # Idle
    <3>1. /\ r.cmd = proc[p].cmd /\ r.pw = proc[p].pw /\ r.map = hosts /\ Migrates(r)
          /\ AtEmptyBackup(r) \/ AtTruncate(r)
      BY <1>1, <1>2, <2>2 DEF Migrates
    <3>2. /\ ~AtWrite(r) /\ ~AtReadLease(r) /\ ~AtRenew(r) /\ ~AtRefs(r) /\ ~Moves(r) /\ ~AtGrant(r)
          /\ ~AtBackup(r) /\ ~AtHosts(r) /\ ~AtParse(r) /\ ~AtRead(r) /\ ~Founds(r) /\ ~AtAbsent(r)
      BY <3>1, HeadsOf, Writers
    <3>3. AtTruncate(r) => \A h \in Hosts : ~Carries(r, h)
      BY <1>1, <2>2, <3>1, HeadsOf DEF Carries
    <3>4. AtEmptyBackup(r) => ~Moved /\ ~AtTruncate(r)
      BY <1>1, <2>2, <3>1, HeadsOf DEF Moved
    <3>5. ~Copied(r) /\ ~ReadsToMove(r)
      BY <3>2, <3>3 DEF Copied, ReadsToMove
    <3>6. Current(r)
      BY <3>1 DEF Current
    <3>7. \A h \in Hosts : Spares(r, h)
      BY <3>2 DEF Spares
    <3>8. Turns(p, r)
      BY <1>1, ProcOf DEF IndInv
    <3>9. Founded(proc[p]) <=> Founded(r)
      BY <1>2, <3>1, <3>2, HeadsOf, Writers DEF Founded
    <3>10. Quiet(p, r)
      BY <1>1, <1>3, <1>4, <3>1, <3>2, <3>3, <3>4, <3>5, <3>6, <3>7, <3>8, <3>9 DEF Quiet
    <3>11. ASSUME ~overlapped  PROVE Knows(r)'
      <4>1. Knows(proc[p]) /\ ReferencesResolve
        BY <3>11 DEF IndInv, Alone
      <4>2. ASSUME AtTruncate(r), NEW h \in Hosts, NewHosts(r)[h].ref # "none"
            PROVE  Resolves(NewHosts(r)[h].ref)'
        <5>1. NewHosts(r)[h] = hosts[h]
          BY <3>1, <3>3, <4>2 DEF NewHosts, Carries, Migrates
        <5>2. Resolves(hosts[h].ref)
          BY <3>11, <4>1, <4>2, <5>1 DEF ReferencesResolve, Resolves
        <5> QED
          BY <1>3, <5>1, <5>2 DEF Resolves, Present
      <4>3. AtTruncate(r) => /\ \A h \in Hosts : NewHosts(r)[h].ref # "none" =>
                                                   Resolves(NewHosts(r)[h].ref)'
                             /\ \A h \in Hosts : Carries(r, h) => Stored(h)'
        BY <3>3, <4>2
      <4>4. Founded(r) => Opens(r.pw)'
        BY <1>3, <3>1, <3>9, <4>1 DEF Knows, Opens
      <4>5. r.map = hosts'
        BY <1>3, <3>1
      <4> QED
        BY <3>2, <3>5, <4>3, <4>4, <4>5 DEF Knows
    <3> QED
      BY <3>10, <3>11
  <2> QED
    BY <2>1, <2>2
<1>6. LeaseStays(p, r) /\ lease' \in Leases /\ backup' \in [Hosts -> Credentials]
  BY <1>0, <1>3, <1>4, LeaseTypes DEF LeaseStays, TypeOK
<1> QED
  BY <1>1, <1>5, <1>6, QuietStep

\* A command whose last step writes or removes the lease.
LEMMA LastKeeps ==
  ASSUME IndInv, NEW p \in Procs, Grant(p) \/ Renew(p) \/ Lock(p)
  PROVE  IndInv'
<1>0. TypeOK /\ CommandInv(proc[p]) /\ Arguments(proc[p])
  BY DEF IndInv, CommandInv
<1>1. proc' = [proc EXCEPT ![p] = Idle]
  BY <1>0, LastStep
<1>2. /\ Grant(p) => AtGrant(proc[p])
      /\ Renew(p) => AtRenew(proc[p])
      /\ Lock(p) => AtLock(proc[p])
  BY <1>0, PointOf DEF CommandInv, Grant, Renew, Lock
<1>3. UNCHANGED <<store, hosts, torn, backup, now, history>>
  BY DEF Grant, Renew, Lock
<1>4. ~AtBackup(proc[p]) /\ ~Storing(proc[p]) /\ proc[p].cmd # "idle"
  <2>1. /\ ~AtBackup(proc[p]) /\ ~AtEmptyBackup(proc[p]) /\ ~AtRead(proc[p]) /\ ~Moves(proc[p])
    BY <1>2, HeadsOf, Writers
  <2>2. proc[p].cmd # "idle"
    BY <1>2, Nowhere
  <2> QED
    BY <2>1, <2>2 DEF Storing
<1> DEFINE r == Idle
<1>5. Quiet(p, r) /\ Knows(r)'
  BY <1>1, <1>3, <1>4, QuietEnd
<1>6. /\ Lock(p) => lease' = NoLease
      /\ Renew(p) => lease' = [exists |-> TRUE, password |-> proc[p].next, expires |-> proc[p].until]
      /\ Grant(p) => \E ttl \in 1 .. 2 :
                       lease' = [exists |-> TRUE, password |-> proc[p].pw, expires |-> now + ttl]
  BY DEF Lock, Renew, Grant
<1>7. lease' \in Leases
  <2>1. CASE Lock(p)
    BY <1>6, <2>1, LeaseTypes
  <2>2. CASE Renew(p)
    <3>1. proc[p].next \in Passwords \union {"none"} /\ proc[p].until \in Nat
      BY <1>0 DEF Arguments
    <3> QED
      BY <1>6, <2>2, <3>1, LeaseTypes
  <2>3. CASE Grant(p)
    <3>1. now \in Nat /\ \A ttl \in 1 .. 2 : now + ttl \in Nat
      BY <1>0, BoundsAssumption DEF TypeOK
    <3>2. proc[p].pw \in Passwords \union {"none"}
      BY <1>0 DEF Arguments
    <3> QED
      BY <1>6, <2>3, <3>1, <3>2, LeaseTypes
  <2> QED
    BY <2>1, <2>2, <2>3
<1>8. ASSUME ~overlapped  PROVE LeaseStays(p, r)
  <2>1. Knows(proc[p])
    BY <1>8 DEF IndInv, Alone
  <2>2. CASE Lock(p)
    BY <1>6, <2>2, LeaseTypes DEF LeaseStays
  <2>3. CASE Renew(p)
    <3>1. Opens(lease'.password)
      BY <1>2, <1>6, <2>1, <2>3 DEF Knows
    <3> QED
      BY <3>1 DEF LeaseStays
  <2>4. CASE Grant(p)
    <3>1. Opens(lease'.password)
      BY <1>2, <1>6, <2>1, <2>4 DEF Knows
    <3> QED
      BY <3>1 DEF LeaseStays
  <2> QED
    BY <2>2, <2>3, <2>4
<1>9. backup' \in [Hosts -> Credentials]
  BY <1>0, <1>3 DEF TypeOK
<1> HIDE DEF r
<1> QED
  BY <1>1, <1>5, <1>7, <1>8, <1>9, QuietStep DEF r

LEMMA ReadLeaseKeeps ==
  ASSUME IndInv, NEW p \in Procs, ReadLease(p)
  PROVE  IndInv'
<1>0. TypeOK /\ CommandInv(proc[p])
  BY DEF IndInv
<1>1. PICK r : /\ proc' = [proc EXCEPT ![p] = r] /\ CommandInv(r)
               /\ \/ r = Idle /\ lease' = NoLease
                  \/ /\ AtRenew(r) /\ r.next = proc[p].next /\ r.until = lease.expires
                     /\ Alive /\ lease' = lease
  BY <1>0, ReadLeaseTo
<1>2. AtReadLease(proc[p]) /\ proc[p].cmd = "rotate"
  BY <1>0, PointOf, CommandsOf DEF CommandInv, ReadLease
<1>3. UNCHANGED <<store, hosts, torn, backup, now, history>>
  BY DEF ReadLease
<1>4. /\ ~Storing(proc[p]) /\ ~Ending(proc[p]) /\ ~Founded(proc[p]) /\ ~AtBackup(proc[p])
      /\ proc[p].cmd # "idle"
  BY <1>2, Beginning
<1>5. Quiet(p, r) /\ (~overlapped => Knows(r)')
  <2>1. CASE r = Idle
    BY <1>1, <1>3, <1>4, <2>1, QuietEnd
  <2>2. CASE r # Idle
    <3>1. AtRenew(r) /\ r.cmd = "rotate" /\ r.cmd = proc[p].cmd
      BY <1>1, <1>2, <2>2, CommandsOf
    <3>2. ~HasMap(r) /\ ~Copied(r) /\ ~AtHosts(r) /\ ~AtTruncate(r) /\ ~AtEmptyBackup(r) /\ ~AtBackup(r)
      BY <3>1, WithoutMap
    <3>3. /\ ~AtWrite(r) /\ ~AtReadLease(r) /\ ~AtParse(r) /\ ~AtRefs(r) /\ ~Moves(r) /\ ~AtGrant(r)
          /\ ~AtRead(r)
      BY <3>1, HeadsOf, Writers
    <3>4. ~ReadsToMove(r) /\ ~Founded(r)
      BY <3>1 DEF ReadsToMove, Founded, Migrates
    <3>5. ASSUME ~overlapped  PROVE Knows(r)'
      <4>1. Opens(r.next)'
        BY <1>1, <1>2, <1>3, <2>2, <3>5 DEF IndInv, Alone, Knows, Opens
      <4>2. lease'.exists /\ r.until = lease'.expires
        BY <1>1, <2>2 DEF Alive
      <4> QED
        BY <3>2, <3>3, <3>4, <4>1, <4>2 DEF Knows
    <3>6. \A h \in Hosts : Spares(r, h)
      BY <3>3 DEF Spares
    <3>7. Turns(p, r)
      BY <1>1, ProcOf DEF IndInv
    <3> QED
      BY <1>1, <1>3, <1>4, <3>1, <3>2, <3>5, <3>6, <3>7 DEF Quiet
  <2> QED
    BY <2>1, <2>2
<1>6. LeaseStays(p, r) /\ lease' \in Leases /\ backup' \in [Hosts -> Credentials]
  BY <1>0, <1>1, <1>3, LeaseTypes DEF LeaseStays, TypeOK
<1> QED
  BY <1>1, <1>5, <1>6, QuietStep

\* The copy of hosts.yml is emptied and made.
LEMMA EmptyBackupKeeps ==
  ASSUME IndInv, NEW p \in Procs, EmptyBackup(p)
  PROVE  IndInv'
<1>0. TypeOK /\ CommandInv(proc[p]) /\ FileInv
  BY DEF IndInv
<1>1. PICK r : /\ proc' = [proc EXCEPT ![p] = r] /\ CommandInv(r)
               /\ AtBackup(r) /\ Same(r, proc[p])
  BY <1>0, EmptyBackupTo
<1>2. AtEmptyBackup(proc[p]) /\ Migrates(proc[p])
  BY <1>0, PointOf, CommandsOf DEF CommandInv, EmptyBackup, Migrates
<1>3. UNCHANGED <<store, lease, hosts, torn, now, history>> /\ backup' = NoHosts
  BY DEF EmptyBackup
<1>4. /\ ~AtBackup(proc[p]) /\ ~AtGrant(proc[p]) /\ ~AtHosts(proc[p]) /\ ~AtReadLease(proc[p])
      /\ ~AtRenew(proc[p]) /\ proc[p].cmd # "idle"
  BY <1>2, HeadsOf DEF Migrates
<1>5. r.cmd = proc[p].cmd /\ r.pw = proc[p].pw /\ r.map = proc[p].map /\ Migrates(r)
  BY <1>1, <1>2 DEF Same, Migrates
<1>6. /\ ~AtWrite(r) /\ ~AtReadLease(r) /\ ~AtRenew(r) /\ ~AtRefs(r) /\ ~Moves(r) /\ ~AtGrant(r)
      /\ ~AtTruncate(r) /\ ~AtHosts(r) /\ ~AtParse(r) /\ ~AtRead(r) /\ ~Founds(r) /\ ~AtAbsent(r)
  BY <1>1, HeadsOf, Writers
<1>7. Quiet(p, r)
  <2>1. ~Moved => Current(r)
    <3>1. ~Moved => Current(proc[p])
      BY <1>0, <1>2 DEF FileInv, HasMap
    <3> QED
      BY <1>2, <1>5, <3>1 DEF Current
  <2>2. Storing(r) <=> r.cmd = "bootstrap"
    BY <1>1 DEF Storing
  <2>3. ~Ending(proc[p]) /\ \A h \in Hosts : Spares(r, h)
    BY <1>4, <1>6 DEF Ending, Is, Spares
  <2>4. Founded(proc[p]) => Founded(r)
    BY <1>5, <1>6 DEF Founded
  <2>5. Turns(p, r)
    BY <1>1, ProcOf DEF IndInv
  <2>6. Storing(proc[p]) => Storing(r)
    BY <1>5, <2>2 DEF Storing
  <2> QED
    BY <1>1, <1>2, <1>3, <1>4, <1>5, <1>6, <2>1, <2>3, <2>4, <2>5, <2>6 DEF Quiet
<1>8. ASSUME ~overlapped  PROVE Knows(r)'
  <2>1. Knows(proc[p])
    BY <1>8 DEF IndInv, Alone
  <2>2. Founded(r) => Opens(r.pw)'
    <3>1. Founded(r) => Founded(proc[p])
      BY <1>2, <1>5, HeadsOf, Writers DEF Founded
    <3> QED
      BY <1>3, <1>5, <2>1, <3>1 DEF Knows, Opens
  <2>3. r.map = hosts'
    BY <1>2, <1>3, <1>5, <2>1 DEF Knows
  <2> QED
    BY <1>6, <2>2, <2>3 DEF Knows, ReadsToMove
<1>9. LeaseStays(p, r) /\ lease' \in Leases /\ backup' \in [Hosts -> Credentials]
  BY <1>0, <1>3, <1>4, LeaseTypes DEF LeaseStays, NoHosts, NoHost, Credentials
<1> QED
  BY <1>1, <1>7, <1>8, <1>9, QuietStep

LEMMA BackupKeeps ==
  ASSUME IndInv, NEW p \in Procs, Backup(p)
  PROVE  IndInv'
<1>0. TypeOK /\ CommandInv(proc[p]) /\ FileInv
  BY DEF IndInv
<1>1. PICK r : /\ proc' = [proc EXCEPT ![p] = r] /\ CommandInv(r)
               /\ AtRead(r) /\ Migrates(r) /\ Same(r, proc[p])
  BY <1>0, BackupTo
<1>2. AtBackup(proc[p]) /\ Migrates(proc[p])
  BY <1>0, PointOf, CommandsOf DEF CommandInv, Backup, Migrates
<1>3. UNCHANGED <<store, lease, hosts, torn, now, history>> /\ backup' = hosts
  BY DEF Backup
<1>4. /\ ~AtEmptyBackup(proc[p]) /\ ~AtGrant(proc[p]) /\ ~AtHosts(proc[p]) /\ ~AtReadLease(proc[p])
      /\ ~AtRenew(proc[p]) /\ proc[p].cmd # "idle"
  BY <1>2, HeadsOf DEF Migrates
<1>5. r.cmd = proc[p].cmd /\ r.pw = proc[p].pw /\ r.map = proc[p].map
  BY <1>1 DEF Same
<1>6. /\ ~AtWrite(r) /\ ~AtReadLease(r) /\ ~AtRenew(r) /\ ~AtRefs(r) /\ ~Moves(r) /\ ~AtGrant(r)
      /\ ~AtTruncate(r) /\ ~AtHosts(r) /\ ~AtParse(r) /\ ~AtBackup(r) /\ ~Founds(r) /\ ~AtAbsent(r)
      /\ ~AtEmptyBackup(r)
  BY <1>1, HeadsOf, Writers
<1>7. Quiet(p, r)
  <2>1. ~Moved => Current(r)
    <3>1. ~Moved => Current(proc[p])
      BY <1>0, <1>2 DEF FileInv, HasMap
    <3> QED
      BY <1>2, <1>5, <3>1 DEF Current
  <2>2. Storing(proc[p]) => Storing(r)
    BY <1>1, <1>5 DEF Storing
  <2>3. ~Ending(proc[p]) /\ \A h \in Hosts : Spares(r, h)
    BY <1>4, <1>6 DEF Ending, Is, Spares
  <2>4. Founded(proc[p]) => Founded(r)
    BY <1>5, <1>6 DEF Founded
  <2>5. Turns(p, r)
    BY <1>1, ProcOf DEF IndInv
  <2> QED
    BY <1>1, <1>2, <1>3, <1>4, <1>5, <1>6, <2>1, <2>2, <2>3, <2>4, <2>5 DEF Quiet
<1>8. ASSUME ~overlapped  PROVE Knows(r)'
  <2>1. Knows(proc[p])
    BY <1>8 DEF IndInv, Alone
  <2>2. Founded(r) => Opens(r.pw)'
    <3>1. Founded(r) => Founded(proc[p])
      BY <1>2, <1>5, HeadsOf, Writers DEF Founded
    <3> QED
      BY <1>3, <1>5, <2>1, <3>1 DEF Knows, Opens
  <2>3. r.map = hosts'
    BY <1>2, <1>3, <1>5, <2>1 DEF Knows
  <2> QED
    BY <1>1, <1>6, <2>2, <2>3 DEF Knows, Migrates
<1>9. LeaseStays(p, r) /\ lease' \in Leases /\ backup' \in [Hosts -> Credentials]
  BY <1>0, <1>3, <1>4, LeaseTypes DEF LeaseStays, TypeOK
<1> QED
  BY <1>1, <1>7, <1>8, <1>9, QuietStep

\* What a write of the keystore leaves, of whatever was read before it.
Rewrites(p, r) ==
  /\ Turns(p, r) /\ CommandInv(r) /\ CommandInv(proc[p]) /\ AtWrite(proc[p])
  /\ store' = [exists |-> TRUE, password |-> WritePassword(proc[p]), secrets |-> proc[p].secrets]
  /\ plain' = plain \ Replaced(proc[p])
  /\ UNCHANGED <<lease, hosts, torn, backup, now, overlapped, interrupted, started>>
  /\ r = Idle \/ Same(r, [proc[p] EXCEPT !.secrets = NoSecrets])
  /\ Founds(proc[p]) => AtGrant(r) \/ (AtGather(r) /\ proc[p].cmd = "bootstrap")
  /\ TakesOut(proc[p]) => r = Idle \/ (AtRead(r) /\ proc[p].cmd = "rename")
  /\ Moves(proc[p]) => AtTruncate(r)
  /\ PutsIn(proc[p]) => \/ r = Idle /\ proc[p].cmd \notin {"rotate", "deploy"}
                        \/ AtReadLease(r) /\ proc[p].cmd = "rotate"
                        \/ AtParse(r) /\ proc[p].cmd = "deploy"

LEMMA WriteRewrites ==
  ASSUME IndInv, NEW p \in Procs, Write(p)
  PROVE  \E r : Rewrites(p, r) /\ proc' = [proc EXCEPT ![p] = r]
<1>1. /\ CommandInv(proc[p]) /\ AtWrite(proc[p])
  BY PointOf DEF IndInv, CommandInv, Write
<1>2. /\ store' = [exists |-> TRUE, password |-> WritePassword(proc[p]), secrets |-> proc[p].secrets]
      /\ plain' = plain \ Replaced(proc[p])
      /\ UNCHANGED <<lease, hosts, torn, backup, now, overlapped, interrupted, started>>
  BY DEF Write
<1>3. PICK r : /\ proc' = [proc EXCEPT ![p] = r] /\ CommandInv(r)
               /\ r = Idle \/ Same(r, [proc[p] EXCEPT !.secrets = NoSecrets])
               /\ Founds(proc[p]) => AtGrant(r) \/ (AtGather(r) /\ proc[p].cmd = "bootstrap")
               /\ TakesOut(proc[p]) => r = Idle \/ (AtRead(r) /\ proc[p].cmd = "rename")
               /\ Moves(proc[p]) => AtTruncate(r)
               /\ PutsIn(proc[p]) => \/ r = Idle /\ proc[p].cmd \notin {"rotate", "deploy"}
                                     \/ AtReadLease(r) /\ proc[p].cmd = "rotate"
                                     \/ AtParse(r) /\ proc[p].cmd = "deploy"
  BY <1>1, WriteTo
<1>4. Turns(p, r)
  BY <1>3, ProcOf DEF IndInv
<1> QED
  BY <1>1, <1>2, <1>3, <1>4 DEF Rewrites

\* Where the command is afterwards, and what it has still got.
LEMMA Rewritten ==
  ASSUME NEW p, NEW r, Rewrites(p, r)
  PROVE  /\ ~AtWrite(r) /\ ~AtRefs(r) /\ ~AtHosts(r) /\ ~AtEmptyBackup(r) /\ ~AtBackup(r) /\ ~Moves(r)
         /\ ~Founds(r) /\ ~AtAbsent(r) /\ ~AtRenew(r)
         /\ AtTruncate(r) => Moves(proc[p])
         /\ AtReadLease(r) => proc[p].cmd = "rotate"
         /\ AtParse(r) => proc[p].cmd = "deploy" /\ PutsIn(proc[p])
         /\ AtRead(r) => r.cmd = "rename"
         /\ AtGrant(r) => Founds(proc[p])
         /\ proc[p].cmd # "idle" /\ ~Ending(proc[p]) /\ ~AtBackup(proc[p])
         /\ r # Idle => /\ r.cmd = proc[p].cmd /\ r.pw = proc[p].pw /\ r.next = proc[p].next
                        /\ r.id = proc[p].id /\ r.host = proc[p].host /\ r.map = proc[p].map
<1>1. \/ r = Idle \/ AtGrant(r) \/ AtGather(r) \/ AtRead(r) \/ AtTruncate(r) \/ AtReadLease(r) \/ AtParse(r)
  BY DEF Rewrites, AtWrite
<1>2. /\ ~AtWrite(r) /\ ~AtRefs(r) /\ ~AtHosts(r) /\ ~AtEmptyBackup(r) /\ ~AtBackup(r) /\ ~Moves(r)
      /\ ~Founds(r) /\ ~AtAbsent(r) /\ ~AtRenew(r)
  BY <1>1, HeadsOf, Writers, Nowhere, IdleHolds
<1>3. r # Idle => /\ r.cmd = proc[p].cmd /\ r.pw = proc[p].pw /\ r.next = proc[p].next
                  /\ r.id = proc[p].id /\ r.host = proc[p].host /\ r.map = proc[p].map
  BY DEF Rewrites, Same, CommandInv, Shaped
<1>4. /\ AtTruncate(r) => Moves(proc[p])
      /\ AtReadLease(r) => proc[p].cmd = "rotate"
      /\ AtParse(r) => proc[p].cmd = "deploy" /\ PutsIn(proc[p])
      /\ AtRead(r) => TakesOut(proc[p]) /\ proc[p].cmd = "rename"
      /\ AtGrant(r) => Founds(proc[p])
  BY HeadsOf, Nowhere, IdleHolds DEF Rewrites, AtWrite
<1>5. AtRead(r) => r # Idle
  BY Nowhere, IdleHolds
<1>6. proc[p].cmd # "idle" /\ ~AtGrant(proc[p]) /\ ~AtHosts(proc[p]) /\ ~AtBackup(proc[p])
  BY HeadsOf, Nowhere DEF Rewrites
<1> QED
  BY <1>2, <1>3, <1>4, <1>5, <1>6 DEF Ending, Is

\* The plaintext that a write of the keystore puts or leaves there.
LEMMA RewrittenStored ==
  ASSUME TypeOK, NEW p \in Procs, NEW r, Rewrites(p, r)
  PROVE  /\ \A h \in plain' : Spares(proc[p], h) => Stored(h)'
         /\ \A h \in plain' : Safe(h) => Safe(h)'
         /\ Moves(proc[p]) => \A h \in Hosts : HasLegacy(h, proc[p].map) => Stored(h)'
<1>1. ASSUME NEW h \in plain', Spares(proc[p], h)  PROVE Stored(h)'
  BY <1>1 DEF Rewrites, Spares, Stored
<1>2. ASSUME NEW h \in plain', Safe(h)  PROVE Safe(h)'
  <2>1. Stored(h)'
    BY <1>1, <1>2 DEF Safe
  <2>2. ASSUME NEW s \in Procs  PROVE Spares(proc'[s], h)
    <3>1. CASE s = p
      <4>1. proc'[s] = r
        BY <3>1 DEF Rewrites, Turns
      <4> QED
        BY <4>1, Rewritten DEF Spares
    <3>2. CASE s # p
      BY <1>2, <3>2 DEF Rewrites, Turns, Safe
    <3> QED
      BY <3>1, <3>2
  <2>3. \A s \in Procs : Spares(proc[s], h)'
    BY <2>2 DEF Spares, AtRefs, AtWrite
  <2> QED
    BY <2>1, <2>3 DEF Safe
<1>3. ASSUME Moves(proc[p]), NEW h \in Hosts, HasLegacy(h, proc[p].map)  PROVE Stored(h)'
  <2>1. proc[p].map[h].legacy \in Kinds
    BY <1>3 DEF Rewrites, CommandInv, Arguments, Credentials, HasLegacy
  <2>2. proc[p].secrets[h][proc[p].map[h].legacy] = "plain"
    BY <1>3 DEF Rewrites, CommandInv, Written
  <2> QED
    BY <2>1, <2>2 DEF Rewrites, Stored
<1> QED
  BY <1>1, <1>2, <1>3

LEMMA WriteFiles ==
  ASSUME IndInv, NEW p \in Procs, NEW r, Rewrites(p, r)
  PROVE  FileInv'
<1>1. FileInv /\ UNCHANGED <<hosts, backup, interrupted>> /\ (Moved' <=> Moved) /\ (Unmoved => Unmoved')
  BY DEF IndInv, Rewrites, Moved, Unmoved
<1>2. (~store.exists => store.secrets = NoSecrets)' /\ (Moved \/ Unmoved)'
  BY <1>1 DEF FileInv, Rewrites
<1>3. ASSUME ~Moved, NEW s \in Procs
      PROVE  ~AtHosts(proc'[s]) /\ (HasMap(proc'[s]) => Current(proc'[s]))
  <2>1. CASE s # p
    BY <1>1, <1>3, <2>1 DEF FileInv, Rewrites, Turns
  <2>2. CASE s = p
    <3>1. proc'[s] = r /\ ~AtHosts(r)
      BY <2>2, Rewritten DEF Rewrites, Turns
    <3>2. ASSUME HasMap(r)  PROVE Current(r)
      <4>1. AtTruncate(r) /\ Moves(proc[p])
        BY <3>2, Rewritten, HeadsOf DEF HasMap, ReadsToMove, Migrates
      <4>2. r # Idle /\ Current(proc[p])
        BY <1>1, <1>3, <4>1, Nowhere, IdleHolds DEF FileInv, HasMap
      <4>3. r.cmd = proc[p].cmd /\ r.host = proc[p].host /\ r.map = proc[p].map
        BY <4>2, Rewritten
      <4> QED
        BY <4>2, <4>3 DEF Current, Migrates
    <3> QED
      BY <3>1, <3>2
  <2> QED
    BY <2>1, <2>2
<1>4. ASSUME ~Moved, ~interrupted, NEW s \in Procs, Copied(proc'[s])
      PROVE  backup = hosts \/ \E c \in Procs : AtBackup(proc'[c])
  <2>1. Copied(proc[s])
    <3>1. CASE s # p
      BY <1>4, <3>1 DEF Rewrites, Turns
    <3>2. CASE s = p
      <4>1. Copied(r)
        BY <1>4, <3>2 DEF Rewrites, Turns
      <4>2. AtTruncate(r)
        BY <4>1, Rewritten DEF Copied, ReadsToMove, Migrates
      <4> QED
        BY <3>2, <4>2, Rewritten DEF Copied
    <3> QED
      BY <3>1, <3>2
  <2>2. backup = hosts \/ \E c \in Procs : AtBackup(proc[c])
    BY <1>1, <1>4, <2>1 DEF FileInv
  <2>3. ~AtBackup(proc[p])
    BY Rewritten
  <2> QED
    BY <2>2, <2>3 DEF Rewrites, Turns
<1>5. (~Moved => \A s \in Procs : ~AtHosts(proc[s]) /\ (HasMap(proc[s]) => Current(proc[s])))'
  <2>1. ASSUME NEW q  PROVE Current(q)' <=> Current(q)
    BY <1>1 DEF Current
  <2> QED
    BY <1>1, <1>3, <2>1 DEF AtHosts, HasMap, Current
<1>6. (~Moved /\ ~interrupted /\ (\E s \in Procs : Copied(proc[s])) =>
         backup = hosts \/ \E c \in Procs : AtBackup(proc[c]))'
  BY <1>1, <1>4
<1> QED
  BY <1>2, <1>5, <1>6 DEF FileInv

LEMMA WriteKnows ==
  ASSUME IndInv, NEW p \in Procs, NEW r, Rewrites(p, r), ~overlapped
  PROVE  Knows(r)' /\ ReferencesResolve'
<1>0. /\ TypeOK /\ Knows(proc[p]) /\ ReferencesResolve /\ CommandInv(proc[p]) /\ AtWrite(proc[p])
      /\ UNCHANGED <<hosts, overlapped>>
      /\ store' = [exists |-> TRUE, password |-> WritePassword(proc[p]), secrets |-> proc[p].secrets]
  BY DEF IndInv, Alone, Rewrites
\* What hosts.yml refers to stays.
<1>1. ASSUME NEW h \in Hosts, hosts[h].ref # "none"  PROVE Resolves(hosts[h].ref)'
  <2>1. Present(store.secrets, hosts[h].ref)
    BY <1>0, <1>1 DEF ReferencesResolve
  <2>2. hosts[h].ref \in Ids
    BY <1>0, <1>1 DEF TypeOK, Credentials
  <2>3. ~Vanishes(proc[p], hosts[h].ref)
    BY <1>0, <2>2 DEF Knows
  <2> QED
    BY <1>0, <2>1, <2>3 DEF Vanishes, Resolves, Present
<1>2. ReferencesResolve'
  BY <1>0, <1>1 DEF ReferencesResolve, Resolves
<1>3. CASE r = Idle
  BY <1>2, <1>3, IdleHolds, IdleKnows
<1>4. CASE r # Idle
  <2>1. /\ r.cmd = proc[p].cmd /\ r.pw = proc[p].pw /\ r.next = proc[p].next
        /\ r.id = proc[p].id /\ r.host = proc[p].host /\ r.map = proc[p].map
    BY <1>4, Rewritten
  <2>2. r.cmd # "rotate" => Opens(r.pw)'
    BY <1>0, <2>1 DEF Opens, WritePassword
  <2>3. Founded(r) \/ AtGrant(r) => Opens(r.pw)'
    BY <2>2, CommandsOf DEF Founded
  <2>4. AtReadLease(r) => Opens(r.next)'
    BY <1>0, <2>1, Rewritten DEF Opens, WritePassword
  <2>5. AtParse(r) => Resolves(r.id)'
    <3>1. AtParse(r) => Present(proc[p].secrets, r.id)
      BY <1>0, <2>1, Rewritten DEF CommandInv, Written
    <3> QED
      BY <1>0, <3>1 DEF Resolves, Present
  <2>6. ASSUME AtTruncate(r)
        PROVE  /\ \A h \in Hosts : NewHosts(r)[h].ref # "none" => Resolves(NewHosts(r)[h].ref)'
               /\ \A h \in Hosts : Carries(r, h) => Stored(h)'
    <3>1. Moves(proc[p]) /\ proc[p].map = hosts
      BY <1>0, <2>6, Rewritten DEF Knows
    <3>2. \A h \in Hosts : HasLegacy(h, r.map) => Stored(h)'
      BY <1>0, <2>1, <3>1, RewrittenStored
    <3>3. ASSUME NEW h \in Hosts, NewHosts(r)[h].ref # "none"  PROVE Resolves(NewHosts(r)[h].ref)'
      <4>1. NewHosts(r)[h] = IF HasLegacy(h, hosts) THEN Reference(h) ELSE hosts[h]
        BY <2>1, <3>1, Writers DEF NewHosts
      <4>2. CASE HasLegacy(h, hosts)
        <5>1. NewHosts(r)[h].ref = h
          BY <4>1, <4>2 DEF Reference
        <5>2. Stored(h)'
          BY <2>1, <3>1, <3>2, <4>2
        <5>3. Present(proc[p].secrets, h)
          BY <1>0, <5>2 DEF Stored, Present, NoEntry
        <5> QED
          BY <1>0, <5>1, <5>3 DEF Resolves, Present
      <4>3. CASE ~HasLegacy(h, hosts)
        BY <1>0, <1>1, <3>3, <4>1, <4>3 DEF Resolves, Present
      <4> QED
        BY <4>2, <4>3
    <3> QED
      BY <3>2, <3>3 DEF Carries
  <2>7. /\ ~AtWrite(r) /\ ~AtRefs(r) /\ ~AtRenew(r) /\ ~AtEmptyBackup(r) /\ ~AtBackup(r) /\ ~AtHosts(r)
        /\ ~ReadsToMove(r) /\ ~Moves(r) /\ ~(r.cmd = "rotate" /\ AtRead(r))
    BY Rewritten DEF ReadsToMove, Migrates
  <2>8. Knows(r)'
    BY <2>3, <2>4, <2>5, <2>6, <2>7 DEF Knows
  <2> QED
    BY <1>2, <2>8
<1> QED
  BY <1>3, <1>4

LEMMA WriteAlone ==
  ASSUME IndInv, NEW p \in Procs, NEW r, Rewrites(p, r), ~overlapped
  PROVE  Alone'
<1>0. /\ Alone /\ TypeOK /\ UNCHANGED <<lease, hosts, now, overlapped, interrupted>> /\ (Moved' <=> Moved)
      /\ proc[p].cmd # "idle" /\ AtWrite(proc[p])
      /\ store' = [exists |-> TRUE, password |-> WritePassword(proc[p]), secrets |-> proc[p].secrets]
  BY Rewritten DEF IndInv, Rewrites, Moved
<1>1. \A s \in Procs : s # p => proc[s].cmd = "idle" /\ proc'[s] = proc[s]
  BY <1>0 DEF Alone, Rewrites, Turns
<1>2. proc'[p] = r /\ Knows(r)' /\ ReferencesResolve'
  BY WriteKnows DEF Rewrites, Turns
<1>3. ASSUME NEW s \in Procs  PROVE Knows(proc[s])'
  <2>1. CASE s = p
    BY <1>2, <2>1 DEF Knows
  <2>2. CASE s # p
    <3>1. proc'[s] = proc[s] /\ proc[s].cmd = "idle"
      BY <1>1, <2>2
    <3> QED
      BY <3>1, IdleKnows
  <2> QED
    BY <2>1, <2>2
<1>4. LeaseInv'
  <2>1. CASE proc[p].cmd = "rotate"
    <3>1. PutsIn(proc[p])
      BY <1>0, <2>1, Writers DEF AtWrite
    <3>2. AtReadLease(r)
      BY <2>1, <3>1 DEF Rewrites
    <3>3. AtReadLease(proc[p])'
      BY <1>2, <3>2
    <3> QED
      BY <3>3 DEF LeaseInv
  <2>2. CASE proc[p].cmd # "rotate"
    <3>1. \A s \in Procs : ~AtReadLease(proc[s]) /\ ~AtRenew(proc[s])
      BY <1>0, <1>1, Nowhere, HeadsOf
    <3>2. interrupted \/ (Alive => Opens(lease.password))
      BY <1>0, <3>1 DEF Alone, LeaseInv
    <3>3. store.exists => store.password = proc[p].pw
      BY <1>0 DEF Alone, Knows, Opens
    <3>4. (interrupted \/ (Alive => Opens(lease.password)))'
      BY <1>0, <2>2, <3>2, <3>3 DEF Alive, Opens, WritePassword
    <3> QED
      BY <3>4 DEF LeaseInv
  <2> QED
    BY <2>1, <2>2
<1>5. ASSUME Moved, NEW h \in plain'  PROVE Safe(h)'
  BY <1>0, <1>5, RewrittenStored DEF Alone, Rewrites
<1>6. \A s, t \in Procs : proc'[s].cmd # "idle" /\ proc'[t].cmd # "idle" => s = t
  BY <1>1
<1> QED
  BY <1>0, <1>2, <1>3, <1>4, <1>5, <1>6 DEF Alone

LEMMA WritePair ==
  ASSUME IndInv, NEW p \in Procs, NEW r, Rewrites(p, r), ~interrupted, started <= 2
  PROVE  Pair'
<1>0. /\ Pair /\ TypeOK /\ FileInv /\ CommandInv(proc[p])
      /\ UNCHANGED <<hosts, backup, interrupted, started>> /\ (Moved' <=> Moved)
      /\ plain' \subseteq plain /\ plain' \subseteq Hosts
      /\ proc'[p] = r /\ \A s \in Procs : s # p => proc'[s] = proc[s]
      /\ store' = [exists |-> TRUE, password |-> WritePassword(proc[p]), secrets |-> proc[p].secrets]
  BY DEF IndInv, Rewrites, Moved, Turns, TypeOK
<1>1. /\ proc[p].cmd # "idle" /\ ~Ending(proc[p]) /\ AtWrite(proc[p])
      /\ ~AtEmptyBackup(r) /\ ~AtBackup(r)
      /\ r # Idle => r.cmd = proc[p].cmd /\ r.pw = proc[p].pw /\ r.map = proc[p].map
  <2>1. AtWrite(proc[p])
    BY DEF Rewrites
  <2> QED
    BY <2>1, Rewritten
<1>2. /\ \A h \in plain' : Safe(h) => Safe(h)'
      /\ \A h \in plain' : Spares(proc[p], h) => Stored(h)'
      /\ Moves(proc[p]) => \A h \in Hosts : HasLegacy(h, proc[p].map) => Stored(h)'
  BY <1>0, RewrittenStored
<1>3. \A s \in Procs : proc[s].cmd = "idle" => s # p /\ proc'[s].cmd = "idle"
  BY <1>0, <1>1
<1>4. /\ started' = 0 => \A s \in Procs : proc'[s].cmd = "idle"
      /\ started' = 1 => \A s, t \in Procs : \/ proc'[s].cmd = "idle" \/ proc'[t].cmd = "idle"
                                             \/ s = t
      /\ \A s, t, u \in Procs : \/ proc'[s].cmd = "idle" \/ proc'[t].cmd = "idle"
                                \/ proc'[u].cmd = "idle" \/ s = t \/ s = u \/ t = u
  BY <1>0, <1>3 DEF Pair, Idles
\* A migration that stores what hosts.yml says stores everything.
<1>5. ASSUME ~Moved, Moves(proc[p]), NEW g \in plain'  PROVE Stored(g)'
  <2>1. Current(proc[p]) /\ Migrates(proc[p])
    BY <1>0, <1>5, Writers DEF FileInv, HasMap, Migrates
  <2>2. HasLegacy(g, hosts)
    BY <1>0, <1>5 DEF FileInv, Unmoved
  <2>3. HasLegacy(g, proc[p].map)
    BY <1>0, <2>1, <2>2 DEF Current, HasLegacy
  <2> QED
    BY <1>0, <1>2, <1>5, <2>3
<1>6. ASSUME ~Moved, NEW a \in Procs, AtTruncate(proc'[a]), NEW h \in Hosts, Carries(proc'[a], h)
      PROVE  (\A g \in plain' : Stored(g)') \/ OtherWrote(a)'
  <2>1. CASE a = p
    <3>1. Moves(proc[p])
      BY <1>0, <1>6, <2>1, Rewritten
    <3> QED
      BY <1>5, <1>6, <3>1
  <2>2. CASE a # p
    <3>1. proc[a].cmd # "idle"
      BY <1>0, <1>6, <2>2, Nowhere
    <3>2. started' = 2
      BY <1>0, <1>1, <2>2, <3>1 DEF Pair, Idles, TypeOK
    <3>3. \A s \in Procs : s = a \/ s = p \/ proc'[s].cmd = "idle"
      BY <1>0, <1>1, <2>2, <3>1 DEF Pair, Idles
    <3>4. CASE r = Idle
      <4>1. \A s \in Procs : s = a \/ proc'[s].cmd = "idle"
        BY <1>0, <3>3, <3>4, IdleHolds
      <4> QED
        BY <3>2, <4>1 DEF OtherWrote, Idles
    <3>5. CASE r # Idle /\ ~Migrates(proc[p])
      <4>1. proc'[p].cmd # "idle" /\ ~Migrates(proc[p])'
        BY <1>0, <1>1, <3>5 DEF Migrates
      <4> QED
        BY <2>2, <3>2, <4>1 DEF OtherWrote, Idles
    <3>6. CASE r # Idle /\ Moves(proc[p])
      BY <1>5, <1>6, <3>6
    <3>7. CASE r # Idle /\ Migrates(proc[p]) /\ ~Moves(proc[p])
      <4>1. Founds(proc[p]) /\ proc[p].cmd = "bootstrap"
        BY <1>1, <3>7, Writers DEF AtWrite, Migrates
      <4>2. Founded(r) /\ r.pw = proc[p].pw
        BY <1>1, <3>7, <4>1, Rewritten DEF Founded
      <4>3. Founded(proc[p])' /\ Opens(proc[p].pw)'
        BY <1>0, <4>1, <4>2 DEF Opens, WritePassword
      <4> QED
        BY <2>2, <3>2, <4>3 DEF OtherWrote
    <3> QED
      BY <3>4, <3>5, <3>6, <3>7
  <2> QED
    BY <2>1, <2>2
<1>7. ASSUME Moved, NEW h \in plain'  PROVE InBackup(h)' \/ Safe(h)' \/ InBootstrap(h)'
  <2>1. CASE InBackup(h)
    <3>1. \A s \in Procs : ~AtEmptyBackup(proc'[s]) /\ ~AtBackup(proc'[s])
      BY <1>0, <1>1, <2>1 DEF InBackup
    <3>2. InBackup(h)'
      BY <1>0, <2>1, <3>1 DEF InBackup, HasLegacy
    <3> QED
      BY <3>2
  <2>2. CASE Safe(h)
    BY <1>2, <1>7, <2>2
  <2>3. CASE InBootstrap(h)
    <3>1. PICK b \in Procs : /\ Storing(proc[b]) /\ Carries(proc[b], h)
                             /\ \A s \in Procs : s = b \/ Ending(proc[s])
      BY <2>3 DEF InBootstrap
    <3>2. b = p
      BY <1>1, <3>1
    <3>3. Moves(proc[p])
      BY <1>1, <3>1, <3>2, HeadsOf DEF Storing
    <3>4. Stored(h)'
      BY <1>0, <1>2, <1>7, <3>1, <3>2, <3>3 DEF Carries
    <3>5. ASSUME NEW s \in Procs  PROVE Spares(proc'[s], h)
      <4>1. ~AtWrite(proc'[s]) /\ ~AtRefs(proc'[s])
        <5>1. CASE s = p
          BY <1>0, <5>1, Rewritten
        <5>2. CASE s # p
          BY <1>0, <3>1, <3>2, <5>2, HeadsOf, Nowhere DEF Ending, Is
        <5> QED
          BY <5>1, <5>2
      <4> QED
        BY <4>1 DEF Spares
    <3>6. \A s \in Procs : Spares(proc[s], h)'
      BY <3>5 DEF Spares, AtRefs, AtWrite
    <3> QED
      BY <3>4, <3>6 DEF Safe
  <2> QED
    BY <1>0, <1>7, <2>1, <2>2, <2>3 DEF Pair
<1> QED
  BY <1>0, <1>4, <1>6, <1>7 DEF Pair, Idles

LEMMA WriteKeeps ==
  ASSUME IndInv, NEW p \in Procs, Write(p)
  PROVE  IndInv'
<1>1. PICK r : Rewrites(p, r) /\ proc' = [proc EXCEPT ![p] = r]
  BY WriteRewrites
<1>2. /\ proc' = [s \in Procs |-> proc'[s]]
      /\ \A s \in Procs : CommandInv(proc'[s]) /\ (proc'[s].cmd = "idle" <=> proc'[s].todo = <<>>)
  BY <1>1, ProcOf DEF IndInv, Rewrites
<1>3. TypeOK'
  <2>1. /\ TypeOK
        /\ WritePassword(proc[p]) \in Passwords \union {"none"} /\ proc[p].secrets \in [Ids -> Entries]
    BY <1>1 DEF IndInv, Rewrites, CommandInv, Arguments, WritePassword
  <2>2. store' \in [exists : BOOLEAN, password : Passwords \union {"none"}, secrets : [Ids -> Entries]]
    BY <1>1, <2>1 DEF Rewrites
  <2> QED
    BY <1>1, <1>2, <2>1, <2>2 DEF TypeOK, Rewrites
<1>4. FileInv'
  BY <1>1, WriteFiles
<1>5. ~overlapped' => Alone'
  BY <1>1, WriteAlone DEF Rewrites
<1>6. ~interrupted' /\ started' <= 2 => Pair'
  BY <1>1, WritePair DEF Rewrites
<1> QED
  BY <1>2, <1>3, <1>4, <1>5, <1>6 DEF IndInv

-----------------------------------------------------------------------------
(* hosts.yml is created anew and filled.                                     *)

Truncates(p, r) ==
  /\ Turns(p, r) /\ CommandInv(r) /\ CommandInv(proc[p]) /\ AtTruncate(proc[p])
  /\ AtHosts(r) /\ Same(r, proc[p]) /\ Persistable(NewHosts(proc[p]))
  /\ torn' = TRUE /\ hosts' = NoHosts /\ plain' = plain \ {proc[p].host}
  /\ UNCHANGED <<store, lease, backup, now, overlapped, interrupted, started>>

LEMMA EmptyMoved == \A h \in Hosts : ~HasLegacy(h, NoHosts) /\ NoHosts[h].ref = "none"
BY DEF HasLegacy, NoHosts, NoHost

\* What a command may write instead of a plaintext credential is a reference:
\* only a migration gets that far with one.
LEMMA TruncatePlain ==
  ASSUME IndInv, NEW p \in Procs, NEW r, Truncates(p, r), ~Moved, NEW h \in plain'
  PROVE  Carries(proc[p], h)
<1>1. TypeOK /\ FileInv /\ h \in plain /\ h \in Hosts /\ h # proc[p].host
  BY DEF IndInv, Truncates, TypeOK
<1>2. HasLegacy(h, hosts) /\ hosts[h].ref = "none"
  BY <1>1 DEF FileInv, Unmoved
<1>3. Current(proc[p])
  BY <1>1 DEF FileInv, HasMap, Truncates
<1>4. proc[p].map[h] = hosts[h]
  BY <1>1, <1>3 DEF Current
<1>5. Migrates(proc[p])
  <2>1. SUFFICES ASSUME ~Migrates(proc[p])  PROVE FALSE
    OBVIOUS
  <2>2. NewHosts(proc[p]) = proc[p].map
    BY <2>1 DEF NewHosts, Migrates
  <2> QED
    BY <1>1, <1>2, <1>4, <2>2 DEF Truncates, Persistable, HasLegacy
<1> QED
  BY <1>2, <1>4, <1>5 DEF Carries, HasLegacy

LEMMA TruncateAlone ==
  ASSUME IndInv, NEW p \in Procs, NEW r, Truncates(p, r), ~overlapped
  PROVE  Alone'
<1>0. /\ Alone /\ TypeOK /\ UNCHANGED <<store, lease, now, overlapped, interrupted>> /\ hosts' = NoHosts
      /\ AtTruncate(proc[p]) /\ AtHosts(r) /\ Same(r, proc[p]) /\ proc'[p] = r
      /\ \A s \in Procs : s # p => proc'[s] = proc[s]
      /\ plain' \subseteq plain /\ plain' \subseteq Hosts
  BY DEF IndInv, Truncates, Turns, TypeOK
<1>1. /\ proc[p].cmd # "idle" /\ ~AtReadLease(proc[p]) /\ ~AtRenew(proc[p]) /\ ~AtAbsent(proc[p])
      /\ ~Founds(proc[p])
  BY <1>0, Nowhere, HeadsOf, Writers
<1>2. \A s \in Procs : s # p => proc[s].cmd = "idle" /\ proc'[s] = proc[s]
  BY <1>0, <1>1 DEF Alone
<1>3. /\ ~AtWrite(r) /\ ~AtReadLease(r) /\ ~AtRenew(r) /\ ~AtRefs(r) /\ ~Moves(r) /\ ~AtGrant(r)
      /\ ~AtEmptyBackup(r) /\ ~AtBackup(r) /\ ~AtTruncate(r) /\ ~AtParse(r) /\ ~AtRead(r)
      /\ ~ReadsToMove(r)
  BY <1>0, HeadsOf, Writers DEF ReadsToMove
<1>4. Knows(proc[p])
  BY <1>0 DEF Alone
<1>5. Knows(r)'
  <2>1. NewHosts(r) = NewHosts(proc[p])
    BY <1>0 DEF Same, NewHosts
  <2>2. Founded(r) => Opens(r.pw)'
    BY <1>0, <1>1, <1>4 DEF Same, Founded, Knows, Opens
  <2>3. \A h \in Hosts : NewHosts(r)[h].ref # "none" => Resolves(NewHosts(r)[h].ref)'
    BY <1>0, <1>4, <2>1 DEF Knows, Resolves, Present
  <2> QED
    BY <1>3, <2>2, <2>3 DEF Knows
<1>6. ASSUME NEW s \in Procs  PROVE Knows(proc[s])'
  <2>1. CASE s = p
    BY <1>0, <1>5, <2>1 DEF Knows
  <2>2. CASE s # p
    <3>1. proc'[s] = proc[s] /\ proc[s].cmd = "idle"
      BY <1>2, <2>2
    <3> QED
      BY <3>1, IdleKnows
  <2> QED
    BY <2>1, <2>2
<1>7. ReferencesResolve'
  BY <1>0, EmptyMoved DEF ReferencesResolve
<1>8. LeaseInv'
  <2>1. interrupted \/ (Alive => Opens(lease.password))
    BY <1>0, <1>1, <1>2, Nowhere DEF Alone, LeaseInv
  <2>2. (interrupted \/ (Alive => Opens(lease.password)))'
    BY <1>0, <2>1 DEF Alive, Opens
  <2> QED
    BY <2>2 DEF LeaseInv
<1>9. ASSUME NEW h \in plain'  PROVE Safe(h)'
  <2>1. Stored(h)
    <3>1. CASE Moved
      BY <1>0, <1>9, <3>1 DEF Alone, Safe
    <3>2. CASE ~Moved
      <4>1. Carries(proc[p], h)
        BY <1>9, <3>2, TruncatePlain
      <4> QED
        BY <1>0, <1>4, <1>9, <4>1 DEF Knows
    <3> QED
      BY <3>1, <3>2
  <2>2. Stored(h)'
    BY <1>0, <2>1 DEF Stored
  <2>3. ASSUME NEW s \in Procs  PROVE ~AtWrite(proc'[s]) /\ ~AtRefs(proc'[s])
    BY <1>0, <1>2, <1>3, Nowhere
  <2>4. \A s \in Procs : Spares(proc[s], h)'
    BY <2>3 DEF Spares, AtRefs, AtWrite
  <2> QED
    BY <2>2, <2>4 DEF Safe
<1>10. \A s, t \in Procs : proc'[s].cmd # "idle" /\ proc'[t].cmd # "idle" => s = t
  BY <1>2
<1> QED
  BY <1>6, <1>7, <1>8, <1>9, <1>10 DEF Alone

LEMMA TruncatePair ==
  ASSUME IndInv, NEW p \in Procs, NEW r, Truncates(p, r), ~interrupted, started <= 2
  PROVE  Pair'
<1>0. /\ Pair /\ TypeOK /\ FileInv /\ UNCHANGED <<store, backup, interrupted, started>> /\ hosts' = NoHosts
      /\ \A s \in Procs : CommandInv(proc[s])
      /\ AtTruncate(proc[p]) /\ AtHosts(r) /\ Same(r, proc[p]) /\ proc'[p] = r
      /\ \A s \in Procs : s # p => proc'[s] = proc[s]
      /\ plain' \subseteq plain /\ plain' \subseteq Hosts
  BY DEF IndInv, Truncates, Turns, TypeOK
<1>1. /\ proc[p].cmd # "idle" /\ ~AtEmptyBackup(proc[p]) /\ ~AtBackup(proc[p]) /\ ~Ending(proc[p])
      /\ ~Storing(proc[p])
  <2>1. /\ proc[p].cmd # "idle" /\ ~AtEmptyBackup(proc[p]) /\ ~AtBackup(proc[p]) /\ ~AtRead(proc[p])
        /\ ~Moves(proc[p]) /\ ~AtGrant(proc[p]) /\ ~AtHosts(proc[p])
    BY <1>0, Nowhere, HeadsOf, Writers
  <2> QED
    BY <2>1 DEF Ending, Storing, Is
<1>2. /\ ~AtWrite(r) /\ ~AtRefs(r) /\ ~AtEmptyBackup(r) /\ ~AtBackup(r) /\ Ending(r)
  BY <1>0, HeadsOf DEF Ending
<1>3. \A s \in Procs : proc[s].cmd = "idle" => s # p /\ proc'[s].cmd = "idle"
  BY <1>0, <1>1
<1>4. /\ started' = 0 => \A s \in Procs : proc'[s].cmd = "idle"
      /\ started' = 1 => \A s, t \in Procs : \/ proc'[s].cmd = "idle" \/ proc'[t].cmd = "idle"
                                             \/ s = t
      /\ \A s, t, u \in Procs : \/ proc'[s].cmd = "idle" \/ proc'[t].cmd = "idle"
                                \/ proc'[u].cmd = "idle" \/ s = t \/ s = u \/ t = u
  BY <1>0, <1>3 DEF Pair, Idles
<1>5. Moved'
  BY <1>0, EmptyMoved DEF Moved, HasLegacy
<1>6. ASSUME NEW h \in plain', Stored(h), \A s \in Procs : s # p => Spares(proc[s], h)  PROVE Safe(h)'
  <2>1. Stored(h)'
    BY <1>0, <1>6 DEF Stored
  <2>2. ASSUME NEW s \in Procs  PROVE Spares(proc'[s], h)
    <3>1. CASE s = p
      BY <1>0, <1>2, <3>1 DEF Spares
    <3>2. CASE s # p
      BY <1>0, <1>6, <3>2
    <3> QED
      BY <3>1, <3>2
  <2>3. \A s \in Procs : Spares(proc[s], h)'
    BY <2>2 DEF Spares, AtRefs, AtWrite
  <2> QED
    BY <2>1, <2>3 DEF Safe
<1>7. ASSUME Moved, NEW h \in plain'  PROVE InBackup(h)' \/ Safe(h)' \/ InBootstrap(h)'
  <2>1. CASE InBackup(h)
    <3>1. \A s \in Procs : ~AtEmptyBackup(proc'[s]) /\ ~AtBackup(proc'[s])
      BY <1>0, <1>2, <2>1 DEF InBackup
    <3>2. InBackup(h)'
      BY <1>0, <2>1, <3>1 DEF InBackup, HasLegacy
    <3> QED
      BY <3>2
  <2>2. CASE Safe(h)
    BY <1>6, <1>7, <2>2 DEF Safe
  <2>3. CASE InBootstrap(h)
    BY <1>1, <2>3 DEF InBootstrap
  <2> QED
    BY <1>0, <1>7, <2>1, <2>2, <2>3 DEF Pair
<1>8. ASSUME ~Moved, NEW h \in plain'  PROVE InBackup(h)' \/ Safe(h)' \/ InBootstrap(h)'
  <2>1. h \in plain /\ h \in Hosts /\ HasLegacy(h, hosts) /\ Carries(proc[p], h)
    BY <1>0, <1>8, TruncatePlain DEF FileInv, Unmoved
  <2>2. Stored(h) \/ OtherWrote(p)
    BY <1>0, <1>8, <2>1 DEF Pair
  <2>3. CASE \A s \in Procs : ~AtEmptyBackup(proc[s]) /\ ~AtBackup(proc[s])
    <3>1. Copied(proc[p])
      BY <1>0, <2>1 DEF Copied
    <3>2. backup = hosts
      BY <1>0, <1>8, <2>3, <3>1 DEF FileInv
    <3>3. \A s \in Procs : ~AtEmptyBackup(proc'[s]) /\ ~AtBackup(proc'[s])
      BY <1>0, <1>2, <2>3
    <3>4. HasLegacy(h, backup')
      BY <1>0, <2>1, <3>2
    <3>5. InBackup(h)'
      BY <3>3, <3>4 DEF InBackup, HasLegacy
    <3> QED
      BY <3>5
  <2>4. ASSUME NEW b \in Procs, AtEmptyBackup(proc[b]) \/ AtBackup(proc[b])
        PROVE  Safe(h)' \/ InBootstrap(h)'
    <3>1. b # p /\ Migrates(proc[b]) /\ proc[b].cmd # "idle" /\ proc'[b] = proc[b]
      BY <1>0, <1>1, <2>4, CommandsOf, Nowhere DEF Migrates
    <3>2. \A s \in Procs : s # p /\ s # b => proc[s].cmd = "idle" /\ proc'[s] = proc[s]
      BY <1>0, <1>1, <3>1 DEF Pair, Idles
    <3>3. CASE Stored(h)
      <4>1. ~AtWrite(proc[b]) /\ ~AtRefs(proc[b])
        BY <2>4, HeadsOf
      <4>2. \A s \in Procs : s # p => Spares(proc[s], h)
        BY <2>1, <3>2, <4>1, Nowhere DEF Spares
      <4> QED
        BY <1>6, <1>8, <3>3, <4>2
    <3>4. CASE OtherWrote(p)
      <4>1. started = 2 /\ Founded(proc[b]) /\ Opens(proc[b].pw)
        BY <1>0, <1>1, <3>1, <3>2, <3>4, Nowhere DEF OtherWrote, Idles
      <4>2. Storing(proc[b]) /\ Opens(proc'[b].pw)
        BY <2>4, <3>1, <4>1 DEF Founded, Storing
      <4>3. Carries(proc[b], h)
        <5>1. Current(proc[b])
          BY <1>0, <1>8, <2>4 DEF FileInv, HasMap
        <5> QED
          BY <2>1, <3>1, <5>1 DEF Current, Carries, HasLegacy
      <4>4. ASSUME NEW s \in Procs, s # b  PROVE Ending(proc'[s])
        <5>1. CASE s = p
          BY <1>0, <1>2, <5>1
        <5>2. CASE s # p
          <6>1. proc'[s] = proc[s] /\ proc[s].cmd = "idle" /\ CommandInv(proc[s])
            BY <1>0, <3>2, <4>4, <5>2
          <6>2. proc[s].todo = <<>>
            BY <1>0, <6>1 DEF TypeOK
          <6> QED
            BY <6>1, <6>2 DEF Ending, Is
        <5> QED
          BY <5>1, <5>2
      <4>5. Storing(proc[b])' /\ Carries(proc[b], h)' /\ Opens(proc[b].pw)'
        BY <1>0, <3>1, <4>2, <4>3 DEF Opens, Carries, Migrates, HasLegacy
      <4>6. \A s \in Procs : s = b \/ Ending(proc[s])'
        BY <4>4
      <4> QED
        BY <1>0, <4>1, <4>5, <4>6 DEF InBootstrap
    <3> QED
      BY <2>2, <3>3, <3>4
  <2> QED
    BY <2>3, <2>4
<1> QED
  BY <1>0, <1>4, <1>5, <1>7, <1>8 DEF Pair, Idles

LEMMA TruncateKeeps ==
  ASSUME IndInv, NEW p \in Procs, Truncate(p)
  PROVE  IndInv'
<1>0. TypeOK /\ CommandInv(proc[p])
  BY DEF IndInv
<1>1. PICK r : /\ proc' = [proc EXCEPT ![p] = r] /\ CommandInv(r)
               /\ \/ r = Idle /\ UNCHANGED <<torn, hosts, plain>>
                  \/ /\ AtHosts(r) /\ Same(r, proc[p]) /\ Persistable(NewHosts(proc[p]))
                     /\ torn' = TRUE /\ hosts' = NoHosts /\ plain' = plain \ {proc[p].host}
  BY <1>0, TruncateTo
<1>2. AtTruncate(proc[p])
  BY <1>0, PointOf DEF CommandInv, Truncate
<1>3. UNCHANGED <<store, lease, backup, now, overlapped, interrupted, started>>
  BY DEF Truncate
<1>4. /\ ~AtBackup(proc[p]) /\ ~Storing(proc[p]) /\ proc[p].cmd # "idle" /\ ~AtReadLease(proc[p])
      /\ ~AtRenew(proc[p])
  <2>1. /\ ~AtBackup(proc[p]) /\ ~AtEmptyBackup(proc[p]) /\ ~AtRead(proc[p]) /\ ~Moves(proc[p])
        /\ proc[p].cmd # "idle" /\ ~AtReadLease(proc[p]) /\ ~AtRenew(proc[p])
    BY <1>2, HeadsOf, Writers, Nowhere
  <2> QED
    BY <2>1 DEF Storing
<1>5. CASE r = Idle /\ UNCHANGED <<torn, hosts, plain>>
  <2>1. Quiet(p, r) /\ Knows(r)'
    BY <1>1, <1>3, <1>4, <1>5, QuietEnd DEF history
  <2>2. LeaseStays(p, r) /\ lease' \in Leases /\ backup' \in [Hosts -> Credentials]
    BY <1>0, <1>3, <1>4, LeaseTypes DEF LeaseStays, TypeOK
  <2> QED
    BY <1>1, <2>1, <2>2, QuietStep
<1>6. CASE ~(r = Idle /\ UNCHANGED <<torn, hosts, plain>>)
  <2>1. Truncates(p, r)
    BY <1>0, <1>1, <1>2, <1>3, <1>6, ProcOf DEF Truncates, IndInv
  <2>2. /\ proc' = [s \in Procs |-> proc'[s]]
        /\ \A s \in Procs : CommandInv(proc'[s]) /\ (proc'[s].cmd = "idle" <=> proc'[s].todo = <<>>)
    BY <1>1, ProcOf DEF IndInv
  <2>3. TypeOK'
    <3>1. NoHosts \in [Hosts -> Credentials]
      BY DEF NoHosts, NoHost, Credentials
    <3> QED
      BY <1>0, <2>1, <2>2, <3>1 DEF TypeOK, Truncates
  <2>4. FileInv'
    <3>1. Moved'
      BY <2>1, EmptyMoved DEF Moved, HasLegacy, Truncates
    <3>2. (~store.exists => store.secrets = NoSecrets)'
      BY <1>3 DEF IndInv, FileInv
    <3> QED
      BY <3>1, <3>2 DEF FileInv
  <2>5. ~overlapped' => Alone'
    BY <1>3, <2>1, TruncateAlone
  <2>6. ~interrupted' /\ started' <= 2 => Pair'
    BY <1>3, <2>1, TruncatePair
  <2> QED
    BY <2>2, <2>3, <2>4, <2>5, <2>6 DEF IndInv
<1> QED
  BY <1>5, <1>6

LEMMA HostsKeeps ==
  ASSUME IndInv, NEW p \in Procs, WriteHosts(p)
  PROVE  IndInv'
<1>0. /\ TypeOK /\ CommandInv(proc[p]) /\ Arguments(proc[p]) /\ FileInv
      /\ \A s \in Procs : CommandInv(proc[s])
  BY DEF IndInv, CommandInv
<1>1. PICK r : /\ proc' = [proc EXCEPT ![p] = r] /\ CommandInv(r)
               /\ r = Idle \/ (AtGrant(r) /\ r.cmd = "bootstrap" /\ Same(r, [proc[p] EXCEPT !.map = NoHosts]))
  BY <1>0, HostsTo
<1>2. AtHosts(proc[p])
  BY <1>0, PointOf DEF CommandInv, WriteHosts
<1>3. /\ UNCHANGED <<store, lease, backup, now, plain, overlapped, interrupted, started>>
      /\ hosts' = Persisted(NewHosts(proc[p])) /\ torn' = FALSE
  BY DEF WriteHosts, history
<1>4. /\ proc' = [s \in Procs |-> proc'[s]] /\ Turns(p, r)
      /\ \A s \in Procs : CommandInv(proc'[s]) /\ (proc'[s].cmd = "idle" <=> proc'[s].todo = <<>>)
  BY <1>1, ProcOf DEF IndInv
<1>5. NewHosts(proc[p]) \in [Hosts -> Credentials]
  <2>1. \A h \in Hosts : Reference(h) \in Credentials
    BY IdsAssumption DEF Reference, Credentials
  <2>2. proc[p].map \in [Hosts -> Credentials]
    BY <1>0 DEF Arguments
  <2> QED
    BY <2>1, <2>2 DEF NewHosts
<1>6. /\ hosts' \in [Hosts -> Credentials]
      /\ \A h \in Hosts : hosts'[h].legacy = "none" /\ hosts'[h].ref = NewHosts(proc[p])[h].ref
  <2> DEFINE map == NewHosts(proc[p])
  <2>1. hosts' = [h \in Hosts |-> [map[h] EXCEPT !.legacy = "none"]]
    BY <1>3 DEF Persisted
  <2>2. map \in [Hosts -> Credentials]
    BY <1>5
  <2> HIDE DEF map
  <2>3. \A h \in Hosts : /\ [map[h] EXCEPT !.legacy = "none"] \in Credentials
                         /\ [map[h] EXCEPT !.legacy = "none"].legacy = "none"
                         /\ [map[h] EXCEPT !.legacy = "none"].ref = map[h].ref
    BY <2>2 DEF Credentials
  <2> QED
    BY <2>1, <2>3 DEF map
<1>7. TypeOK'
  BY <1>0, <1>3, <1>4, <1>6 DEF TypeOK
<1>8. Moved /\ Moved'
  BY <1>0, <1>2, <1>6 DEF FileInv, Moved, HasLegacy
<1>9. FileInv'
  BY <1>0, <1>3, <1>8 DEF FileInv
<1>10. /\ proc[p].cmd # "idle" /\ ~AtReadLease(proc[p]) /\ ~AtRenew(proc[p]) /\ ~AtAbsent(proc[p])
       /\ ~Founds(proc[p]) /\ ~Storing(proc[p])
  <2>1. /\ ~AtBackup(proc[p]) /\ ~AtEmptyBackup(proc[p]) /\ ~AtRead(proc[p]) /\ ~Moves(proc[p])
        /\ proc[p].cmd # "idle" /\ ~AtReadLease(proc[p]) /\ ~AtRenew(proc[p])
        /\ ~AtAbsent(proc[p]) /\ ~Founds(proc[p])
    BY <1>2, HeadsOf, Writers, Nowhere
  <2> QED
    BY <2>1 DEF Storing
<1>11. /\ ~AtWrite(r) /\ ~AtReadLease(r) /\ ~AtRenew(r) /\ ~AtRefs(r) /\ ~Moves(r) /\ ~AtHosts(r)
       /\ ~AtEmptyBackup(r) /\ ~AtBackup(r) /\ ~AtTruncate(r) /\ ~AtParse(r) /\ ~AtRead(r)
       /\ ~ReadsToMove(r) /\ Ending(r)
  <2>1. Ending(r)
    BY <1>1, IdleHolds DEF Ending, Is
  <2>2. CASE r = Idle
    BY <2>1, <2>2, IdleHolds, Nowhere
  <2>3. CASE AtGrant(r)
    BY <2>1, <2>3, HeadsOf, Writers DEF ReadsToMove
  <2> QED
    BY <1>1, <2>1, <2>2, <2>3
<1>12. ASSUME NEW h \in plain, Safe(h)  PROVE Safe(h)'
  <2>1. Stored(h)'
    BY <1>3, <1>12 DEF Safe, Stored
  <2>2. \A s \in Procs : Spares(proc'[s], h)
    BY <1>4, <1>11, <1>12 DEF Safe, Spares, Turns
  <2>3. \A s \in Procs : Spares(proc[s], h)'
    BY <2>2 DEF Spares, AtRefs, AtWrite
  <2> QED
    BY <2>1, <2>3 DEF Safe
<1>13. ASSUME ~overlapped  PROVE Alone'
  <2>1. Alone /\ Knows(proc[p])
    BY <1>13 DEF IndInv, Alone
  <2>2. \A s \in Procs : s # p => proc[s].cmd = "idle" /\ proc'[s] = proc[s]
    BY <1>4, <1>10, <2>1 DEF Alone, Turns
  <2>3. Knows(r)'
    <3>1. CASE r = Idle
      BY <3>1, IdleHolds, IdleKnows
    <3>2. CASE r # Idle
      <4>1. r.cmd = "bootstrap" /\ r.pw = proc[p].pw /\ proc[p].cmd = "bootstrap"
        BY <1>0, <1>1, <3>2 DEF Same, CommandInv, Shaped
      <4>2. Founded(proc[p])
        BY <1>10, <4>1 DEF Founded
      <4>3. Opens(r.pw)'
        BY <1>3, <2>1, <4>1, <4>2 DEF Knows, Opens
      <4> QED
        BY <1>11, <4>3 DEF Knows
    <3> QED
      BY <3>1, <3>2
  <2>4. ASSUME NEW s \in Procs  PROVE Knows(proc[s])'
    <3>1. CASE s = p
      BY <1>4, <2>3, <3>1 DEF Knows, Turns
    <3>2. CASE s # p
      <4>1. proc'[s] = proc[s] /\ proc[s].cmd = "idle"
        BY <2>2, <3>2
      <4> QED
        BY <4>1, IdleKnows
    <3> QED
      BY <3>1, <3>2
  <2>5. ReferencesResolve'
    BY <1>2, <1>3, <1>6, <2>1 DEF Knows, ReferencesResolve, Resolves, Present
  <2>6. LeaseInv'
    <3>1. interrupted \/ (Alive => Opens(lease.password))
      BY <1>10, <2>1, <2>2, Nowhere DEF Alone, LeaseInv
    <3>2. (interrupted \/ (Alive => Opens(lease.password)))'
      BY <1>3, <3>1 DEF Alive, Opens
    <3> QED
      BY <3>2 DEF LeaseInv
  <2>7. \A h \in plain' : Safe(h)'
    BY <1>3, <1>8, <1>12, <2>1 DEF Alone
  <2>8. \A s, t \in Procs : proc'[s].cmd # "idle" /\ proc'[t].cmd # "idle" => s = t
    BY <2>2
  <2> QED
    BY <2>4, <2>5, <2>6, <2>7, <2>8 DEF Alone
<1>14. ASSUME ~interrupted, started <= 2  PROVE Pair'
  <2>1. Pair
    BY <1>14 DEF IndInv
  <2>2. \A s \in Procs : proc[s].cmd = "idle" => s # p /\ proc'[s].cmd = "idle"
    BY <1>4, <1>10 DEF Turns
  <2>3. /\ started' = 0 => \A s \in Procs : proc'[s].cmd = "idle"
        /\ started' = 1 => \A s, t \in Procs : \/ proc'[s].cmd = "idle" \/ proc'[t].cmd = "idle"
                                               \/ s = t
        /\ \A s, t, u \in Procs : \/ proc'[s].cmd = "idle" \/ proc'[t].cmd = "idle"
                                  \/ proc'[u].cmd = "idle" \/ s = t \/ s = u \/ t = u
    BY <1>3, <2>1, <2>2 DEF Pair, Idles
  <2>4. ASSUME NEW h \in plain  PROVE InBackup(h)' \/ Safe(h)' \/ InBootstrap(h)'
    <3>1. CASE InBackup(h)
      <4>1. \A s \in Procs : ~AtEmptyBackup(proc'[s]) /\ ~AtBackup(proc'[s])
        BY <1>4, <1>11, <3>1 DEF InBackup, Turns
      <4>2. InBackup(h)'
        BY <1>3, <3>1, <4>1 DEF InBackup, HasLegacy
      <4> QED
        BY <4>2
    <3>2. CASE Safe(h)
      BY <1>12, <2>4, <3>2
    <3>3. CASE InBootstrap(h)
      <4>1. PICK b \in Procs : /\ Storing(proc[b]) /\ Carries(proc[b], h) /\ Opens(proc[b].pw)
                               /\ \A s \in Procs : s = b \/ Ending(proc[s])
        BY <3>3 DEF InBootstrap
      <4>2. b # p /\ proc'[b] = proc[b]
        BY <1>4, <1>10, <4>1 DEF Turns
      <4>3. Storing(proc[b])' /\ Carries(proc[b], h)' /\ Opens(proc[b].pw)'
        BY <1>3, <4>1, <4>2 DEF Opens, Carries, Migrates, HasLegacy
      <4>4. \A s \in Procs : s = b \/ Ending(proc[s])'
        BY <1>4, <1>11, <4>1 DEF Turns
      <4>5. started' = 2
        BY <1>3, <3>3 DEF InBootstrap
      <4> QED
        BY <4>3, <4>4, <4>5 DEF InBootstrap
    <3> QED
      BY <1>8, <2>1, <2>4, <3>1, <3>2, <3>3 DEF Pair
  <2> QED
    BY <1>3, <1>8, <2>3, <2>4 DEF Pair, Idles
<1> QED
  BY <1>3, <1>4, <1>7, <1>9, <1>13, <1>14 DEF IndInv

-----------------------------------------------------------------------------
(* A command begins, or is cut off; time passes.                             *)

Fresh(q) ==
  \/ AtPassword(q)
  \/ AtValidate(q) /\ q.cmd = "open"
  \/ AtAbsent(q)
  \/ AtLock(q)
  \/ AtParse(q) /\ q.cmd \in {"plainhost", "removehost"}

Commands == {"add", "update", "upsert", "remove", "rename", "rotate", "migrate", "unlock", "open", "create",
             "bootstrap", "lock", "resolve", "savehost", "plainhost", "removehost", "deploy"}

LEMMA FirstPoint ==
  ASSUME NEW q, q.cmd \in Commands, q.todo = Program[q.cmd]
  PROVE  Fresh(q)
<1>1. CASE q.cmd \in {"add", "update", "upsert"}
  <2>1. q.todo = <<"password", "read", "write">>
    BY <1>1 DEF Program
  <2> QED
    BY <1>1, <2>1 DEF Fresh, AtPassword, Is
<1>2. CASE q.cmd = "remove"
  <2>1. q.todo = <<"password", "drop", "refs", "write">>
    BY <1>2 DEF Program
  <2> QED
    BY <1>2, <2>1 DEF Fresh, AtPassword, Is
<1>3. CASE q.cmd = "rename"
  <2>1. q.todo = <<"password", "drop", "refs", "write", "read", "write">>
    BY <1>3 DEF Program
  <2> QED
    BY <1>3, <2>1 DEF Fresh, AtPassword, Is
<1>4. CASE q.cmd = "rotate"
  <2>1. q.todo = <<"password", "validate", "read", "write", "readlease", "renew">>
    BY <1>4 DEF Program
  <2> QED
    BY <1>4, <2>1 DEF Fresh, AtPassword, Is
<1>5. CASE q.cmd = "migrate"
  <2>1. q.todo = <<"password", "gather", "truncate", "hosts">>
    BY <1>5 DEF Program
  <2> QED
    BY <1>5, <2>1 DEF Fresh, AtPassword, Is
<1>6. CASE q.cmd = "unlock"
  <2>1. q.todo = <<"password", "validate", "grant">>
    BY <1>6 DEF Program
  <2> QED
    BY <1>6, <2>1 DEF Fresh, AtPassword, Is
<1>7. CASE q.cmd = "open"
  <2>1. q.todo = <<"validate", "grant">>
    BY <1>7 DEF Program
  <2> QED
    BY <1>7, <2>1 DEF Fresh, AtValidate, Is
<1>8. CASE q.cmd \in {"create", "bootstrap"}
  <2>1. q.todo = <<"absent", "write", "grant">>
    BY <1>8 DEF Program
  <2> QED
    BY <1>8, <2>1 DEF Fresh, AtAbsent, Is
<1>9. CASE q.cmd = "lock"
  <2>1. q.todo = <<"lock">>
    BY <1>9 DEF Program
  <2> QED
    BY <1>9, <2>1 DEF Fresh, AtLock, Is
<1>10. CASE q.cmd = "resolve"
  <2>1. q.todo = <<"password">>
    BY <1>10 DEF Program
  <2> QED
    BY <1>10, <2>1 DEF Fresh, AtPassword, Is
<1>11. CASE q.cmd = "savehost"
  <2>1. q.todo = <<"password", "lookup", "parse", "truncate", "hosts">>
    BY <1>11 DEF Program
  <2> QED
    BY <1>11, <2>1 DEF Fresh, AtPassword, Is
<1>12. CASE q.cmd \in {"plainhost", "removehost"}
  <2>1. q.todo = <<"parse", "truncate", "hosts">>
    BY <1>12 DEF Program
  <2> QED
    BY <1>12, <2>1 DEF Fresh, AtParse, Is
<1>13. CASE q.cmd = "deploy"
  <2>1. q.todo = <<"password", "read", "write", "parse", "truncate", "hosts">>
    BY <1>13 DEF Program
  <2> QED
    BY <1>13, <2>1 DEF Fresh, AtPassword, Is
<1> QED
  BY <1>1, <1>2, <1>3, <1>4, <1>5, <1>6, <1>7, <1>8, <1>9, <1>10, <1>11, <1>12, <1>13 DEF Commands

LEMMA StartTo ==
  ASSUME NEW p \in Procs, NEW q, Shaped(q), Arguments(q), q.cmd \in Commands, Start(p, q)
  PROVE  \E r : proc' = [proc EXCEPT ![p] = r] /\ CommandInv(r) /\ Fresh(r)
<1> DEFINE r == [q EXCEPT !.todo = Program[q.cmd]]
<1>1. proc' = [proc EXCEPT ![p] = r]
  BY DEF Start
<1> DEFINE t == Program[q.cmd]
<1> HIDE DEF t
<1>2. Shaped([q EXCEPT !.todo = t]) /\ Same([q EXCEPT !.todo = t], q) /\ [q EXCEPT !.todo = t].todo = t
  BY DEF Shaped, Same
<1>3. Shaped(r) /\ Same(r, q) /\ r.todo = Program[q.cmd]
  BY <1>2 DEF t
<1> HIDE DEF r
<1>4. Fresh(r)
  BY <1>3, FirstPoint DEF Same
<1>5. Arguments(r)
  BY <1>3 DEF Arguments, Same
<1>6. OnLine(r) /\ ~AtWrite(r)
  BY <1>4, HeadsOf DEF Fresh, OnLine
<1>7. Written(r)
  BY <1>6, Writers DEF Written
<1> QED
  BY <1>1, <1>3, <1>4, <1>5, <1>6, <1>7 DEF CommandInv

\* Arguments are filled in one after the other.
LEMMA With ==
  ASSUME NEW q, Shaped(q), NEW v
  PROVE  /\ Shaped([q EXCEPT !.cmd = v]) /\ Shaped([q EXCEPT !.pw = v]) /\ Shaped([q EXCEPT !.next = v])
         /\ Shaped([q EXCEPT !.id = v]) /\ Shaped([q EXCEPT !.from = v]) /\ Shaped([q EXCEPT !.kind = v])
         /\ Shaped([q EXCEPT !.host = v])
BY DEF Shaped

LEMMA BeginTo ==
  ASSUME NEW p \in Procs, Begin(p)
  PROVE  /\ \E r : proc' = [proc EXCEPT ![p] = r] /\ CommandInv(r) /\ Fresh(r)
         /\ proc[p].cmd = "idle" /\ overlapped' = (overlapped \/ Busy) /\ started' = started + 1
         /\ started < IF overlapped \/ Busy THEN MaxOverlapped ELSE MaxCommands
         /\ UNCHANGED <<files, now, plain, interrupted>>
<1>1. PICK q : Start(p, q) /\ Shaped(q) /\ Arguments(q) /\ q.cmd \in Commands
  <2>1. Shaped(Idle) /\ NoSecrets \in [Ids -> Entries] /\ NoHosts \in [Hosts -> Credentials]
    BY IdleHolds DEF CommandInv, NoSecrets, NoEntry, Entries, NoHosts, NoHost, Credentials
  <2>2. CASE \E c \in {"migrate", "unlock", "lock", "resolve"} :
               Start(p, [Idle EXCEPT !.cmd = c])
    <3>1. PICK c \in {"migrate", "unlock", "lock", "resolve"} :
                 Start(p, [Idle EXCEPT !.cmd = c])
      BY <2>2
    <3> DEFINE q == [Idle EXCEPT !.cmd = c]
    <3>3. Shaped(q)
      BY <2>1, With
    <3>4. /\ q.cmd = c /\ q.pw = "none" /\ q.next = "none" /\ q.secrets = NoSecrets
          /\ q.map = NoHosts /\ q.until = 0
      BY DEF Idle
    <3> HIDE DEF q
    <3>5. Arguments(q) /\ q.cmd \in Commands
      BY <2>1, <3>1, <3>4 DEF Arguments, Commands
    <3> QED
      BY <3>1, <3>3, <3>5 DEF q
  <2>3. CASE \E c \in {"open", "create", "bootstrap"}, w \in Passwords :
               Start(p, [Idle EXCEPT !.cmd = c, !.pw = w])
    <3>1. PICK c \in {"open", "create", "bootstrap"}, w \in Passwords :
                 Start(p, [Idle EXCEPT !.cmd = c, !.pw = w])
      BY <2>3
    <3> DEFINE q == [Idle EXCEPT !.cmd = c, !.pw = w]
    <3>2. q = [[Idle EXCEPT !.cmd = c] EXCEPT !.pw = w]
      OBVIOUS
    <3>3. Shaped(q)
      BY <2>1, <3>2, With
    <3>4. /\ q.cmd = c /\ q.pw = w /\ q.next = "none" /\ q.secrets = NoSecrets /\ q.map = NoHosts
          /\ q.until = 0
      BY DEF Idle
    <3> HIDE DEF q
    <3>5. Arguments(q) /\ q.cmd \in Commands
      BY <2>1, <3>1, <3>4 DEF Arguments, Commands
    <3> QED
      BY <3>1, <3>3, <3>5 DEF q
  <2>4. CASE \E c \in {"add", "update", "upsert"}, i \in Ids, k \in Kinds :
               Start(p, [Idle EXCEPT !.cmd = c, !.id = i, !.kind = k])
    <3>1. PICK c \in {"add", "update", "upsert"}, i \in Ids, k \in Kinds :
                 Start(p, [Idle EXCEPT !.cmd = c, !.id = i, !.kind = k])
      BY <2>4
    <3> DEFINE q == [Idle EXCEPT !.cmd = c, !.id = i, !.kind = k]
    <3>2. q = [[[Idle EXCEPT !.cmd = c] EXCEPT !.id = i] EXCEPT !.kind = k]
      OBVIOUS
    <3>3. Shaped(q)
      BY <2>1, <3>2, With
    <3>4. /\ q.cmd = c /\ q.pw = "none" /\ q.next = "none" /\ q.id = i /\ q.kind = k /\ q.secrets = NoSecrets
          /\ q.map = NoHosts /\ q.until = 0
      BY DEF Idle
    <3> HIDE DEF q
    <3>5. Arguments(q) /\ q.cmd \in Commands
      BY <2>1, <3>1, <3>4 DEF Arguments, Commands
    <3> QED
      BY <3>1, <3>3, <3>5 DEF q
  <2>5. CASE \E i \in Ids, k \in Kinds \union {"all"} :
               Start(p, [Idle EXCEPT !.cmd = "remove", !.from = i, !.kind = k])
    <3>1. PICK i \in Ids, k \in Kinds \union {"all"} :
                 Start(p, [Idle EXCEPT !.cmd = "remove", !.from = i, !.kind = k])
      BY <2>5
    <3> DEFINE q == [Idle EXCEPT !.cmd = "remove", !.from = i, !.kind = k]
    <3>2. q = [[[Idle EXCEPT !.cmd = "remove"] EXCEPT !.from = i] EXCEPT !.kind = k]
      OBVIOUS
    <3>3. Shaped(q)
      BY <2>1, <3>2, With
    <3>4. /\ q.cmd = "remove" /\ q.pw = "none" /\ q.next = "none" /\ q.from = i /\ q.kind = k /\ q.secrets = NoSecrets
          /\ q.map = NoHosts /\ q.until = 0
      BY DEF Idle
    <3> HIDE DEF q
    <3>5. Arguments(q) /\ q.cmd \in Commands
      BY <2>1, <3>1, <3>4 DEF Arguments, Commands
    <3> QED
      BY <3>1, <3>3, <3>5 DEF q
  <2>6. CASE \E i, j \in Ids, k \in Kinds :
               i # j /\ Start(p, [Idle EXCEPT !.cmd = "rename", !.from = i, !.id = j, !.kind = k])
    <3>1. PICK i \in Ids, j \in Ids, k \in Kinds :
                 i # j /\ Start(p, [Idle EXCEPT !.cmd = "rename", !.from = i, !.id = j, !.kind = k])
      BY <2>6
    <3> DEFINE q == [Idle EXCEPT !.cmd = "rename", !.from = i, !.id = j, !.kind = k]
    <3>2. q = [[[[Idle EXCEPT !.cmd = "rename"] EXCEPT !.from = i] EXCEPT !.id = j] EXCEPT !.kind = k]
      OBVIOUS
    <3>3. Shaped(q)
      BY <2>1, <3>2, With
    <3>4. /\ q.cmd = "rename" /\ q.pw = "none" /\ q.next = "none" /\ q.id = j /\ q.from = i /\ q.kind = k /\ q.secrets = NoSecrets
          /\ q.map = NoHosts /\ q.until = 0
      BY DEF Idle
    <3> HIDE DEF q
    <3>5. Arguments(q) /\ q.cmd \in Commands
      BY <2>1, <3>1, <3>4 DEF Arguments, Commands
    <3> QED
      BY <3>1, <3>3, <3>5 DEF q
  <2>7. CASE \E w \in Passwords :
               Start(p, [Idle EXCEPT !.cmd = "rotate", !.next = w])
    <3>1. PICK w \in Passwords :
                 Start(p, [Idle EXCEPT !.cmd = "rotate", !.next = w])
      BY <2>7
    <3> DEFINE q == [Idle EXCEPT !.cmd = "rotate", !.next = w]
    <3>2. q = [[Idle EXCEPT !.cmd = "rotate"] EXCEPT !.next = w]
      OBVIOUS
    <3>3. Shaped(q)
      BY <2>1, <3>2, With
    <3>4. /\ q.cmd = "rotate" /\ q.pw = "none" /\ q.next = w /\ q.secrets = NoSecrets /\ q.map = NoHosts
          /\ q.until = 0
      BY DEF Idle
    <3> HIDE DEF q
    <3>5. Arguments(q) /\ q.cmd \in Commands
      BY <2>1, <3>1, <3>4 DEF Arguments, Commands
    <3> QED
      BY <3>1, <3>3, <3>5 DEF q
  <2>8. CASE \E h \in Hosts, i \in Ids :
               Start(p, [Idle EXCEPT !.cmd = "savehost", !.host = h, !.id = i])
    <3>1. PICK h \in Hosts, i \in Ids :
                 Start(p, [Idle EXCEPT !.cmd = "savehost", !.host = h, !.id = i])
      BY <2>8
    <3> DEFINE q == [Idle EXCEPT !.cmd = "savehost", !.host = h, !.id = i]
    <3>2. q = [[[Idle EXCEPT !.cmd = "savehost"] EXCEPT !.host = h] EXCEPT !.id = i]
      OBVIOUS
    <3>3. Shaped(q)
      BY <2>1, <3>2, With
    <3>4. /\ q.cmd = "savehost" /\ q.pw = "none" /\ q.next = "none" /\ q.id = i /\ q.host = h /\ q.secrets = NoSecrets
          /\ q.map = NoHosts /\ q.until = 0
      BY DEF Idle
    <3> HIDE DEF q
    <3>5. Arguments(q) /\ q.cmd \in Commands
      BY <2>1, <3>1, <3>4 DEF Arguments, Commands
    <3> QED
      BY <3>1, <3>3, <3>5 DEF q
  <2>9. CASE \E h \in Hosts, c \in {"plainhost", "removehost"} :
               Start(p, [Idle EXCEPT !.cmd = c, !.host = h])
    <3>1. PICK h \in Hosts, c \in {"plainhost", "removehost"} :
                 Start(p, [Idle EXCEPT !.cmd = c, !.host = h])
      BY <2>9
    <3> DEFINE q == [Idle EXCEPT !.cmd = c, !.host = h]
    <3>2. q = [[Idle EXCEPT !.cmd = c] EXCEPT !.host = h]
      OBVIOUS
    <3>3. Shaped(q)
      BY <2>1, <3>2, With
    <3>4. /\ q.cmd = c /\ q.pw = "none" /\ q.next = "none" /\ q.host = h /\ q.secrets = NoSecrets
          /\ q.map = NoHosts /\ q.until = 0
      BY DEF Idle
    <3> HIDE DEF q
    <3>5. Arguments(q) /\ q.cmd \in Commands
      BY <2>1, <3>1, <3>4 DEF Arguments, Commands
    <3> QED
      BY <3>1, <3>3, <3>5 DEF q
  <2>10. CASE \E h \in Hosts, i \in Ids, k \in Kinds :
               Start(p, [Idle EXCEPT !.cmd = "deploy", !.host = h, !.id = i, !.kind = k])
    <3>1. PICK h \in Hosts, i \in Ids, k \in Kinds :
                 Start(p, [Idle EXCEPT !.cmd = "deploy", !.host = h, !.id = i, !.kind = k])
      BY <2>10
    <3> DEFINE q == [Idle EXCEPT !.cmd = "deploy", !.host = h, !.id = i, !.kind = k]
    <3>2. q = [[[[Idle EXCEPT !.cmd = "deploy"] EXCEPT !.host = h] EXCEPT !.id = i] EXCEPT !.kind = k]
      OBVIOUS
    <3>3. Shaped(q)
      BY <2>1, <3>2, With
    <3>4. /\ q.cmd = "deploy" /\ q.pw = "none" /\ q.next = "none" /\ q.id = i /\ q.kind = k /\ q.host = h /\ q.secrets = NoSecrets
          /\ q.map = NoHosts /\ q.until = 0
      BY DEF Idle
    <3> HIDE DEF q
    <3>5. Arguments(q) /\ q.cmd \in Commands
      BY <2>1, <3>1, <3>4 DEF Arguments, Commands
    <3> QED
      BY <3>1, <3>3, <3>5 DEF q
  <2> QED
    BY <2>2, <2>3, <2>4, <2>5, <2>6, <2>7, <2>8, <2>9, <2>10 DEF Begin
<1>2. \E r : proc' = [proc EXCEPT ![p] = r] /\ CommandInv(r) /\ Fresh(r)
  BY <1>1, StartTo
<1> QED
  BY <1>1, <1>2 DEF Start

LEMMA FreshIs ==
  ASSUME NEW r, Fresh(r)
  PROVE  /\ ~HasMap(r) /\ ~Copied(r) /\ ~AtHosts(r) /\ ~AtTruncate(r) /\ ~AtEmptyBackup(r) /\ ~AtBackup(r)
         /\ ~AtWrite(r) /\ ~AtRefs(r) /\ ~AtReadLease(r) /\ ~AtRenew(r) /\ \A h \in Hosts : Spares(r, h)
         /\ Knows(r)'
<1>1. ~HasMap(r) /\ ~Copied(r) /\ ~AtHosts(r) /\ ~AtTruncate(r) /\ ~AtEmptyBackup(r) /\ ~AtBackup(r)
  BY WithoutMap DEF Fresh
<1>2. /\ ~AtWrite(r) /\ ~AtRefs(r) /\ ~AtReadLease(r) /\ ~AtRenew(r) /\ ~AtGrant(r) /\ ~AtRead(r) /\ ~Moves(r)
  BY HeadsOf, Writers DEF Fresh
<1>3. ~Founded(r) /\ ~ReadsToMove(r)
  BY <1>2, CommandsOf DEF Fresh, Founded, ReadsToMove
<1>4. AtParse(r) => r.cmd \in {"plainhost", "removehost"}
  BY HeadsOf DEF Fresh
<1>5. Knows(r)'
  BY <1>1, <1>2, <1>3, <1>4 DEF Knows
<1> QED
  BY <1>1, <1>2, <1>5 DEF Spares

LEMMA BeginKeeps ==
  ASSUME IndInv, NEW p \in Procs, Begin(p)
  PROVE  IndInv'
<1>0. TypeOK /\ FileInv
  BY DEF IndInv
<1>1. /\ \E r : proc' = [proc EXCEPT ![p] = r] /\ CommandInv(r) /\ Fresh(r)
      /\ proc[p].cmd = "idle" /\ overlapped' = (overlapped \/ Busy) /\ started' = started + 1
      /\ started < IF overlapped \/ Busy THEN MaxOverlapped ELSE MaxCommands
      /\ UNCHANGED <<store, lease, hosts, torn, backup, now, plain, interrupted>>
  BY BeginTo DEF files
<1>2. PICK r : proc' = [proc EXCEPT ![p] = r] /\ CommandInv(r) /\ Fresh(r)
  BY <1>1
<1>3. /\ proc' = [s \in Procs |-> proc'[s]] /\ proc'[p] = r /\ \A s \in Procs : s # p => proc'[s] = proc[s]
      /\ \A s \in Procs : CommandInv(proc'[s]) /\ (proc'[s].cmd = "idle" <=> proc'[s].todo = <<>>)
  BY <1>2, ProcOf DEF IndInv, Turns
<1>4. TypeOK'
  <2>1. started' \in 0 .. MaxCommands /\ overlapped' \in BOOLEAN
    BY <1>0, <1>1, BoundsAssumption DEF TypeOK, Busy
  <2> QED
    BY <1>0, <1>1, <1>3, <2>1 DEF TypeOK
<1>5. /\ ~HasMap(r) /\ ~Copied(r) /\ ~AtHosts(r) /\ ~AtTruncate(r) /\ ~AtEmptyBackup(r) /\ ~AtBackup(r)
      /\ ~AtReadLease(r) /\ ~AtRenew(r) /\ Knows(r)' /\ \A h \in Hosts : Spares(r, h)
  BY <1>2, FreshIs
<1>6. Moved' <=> Moved
  BY <1>1 DEF Moved
<1>7. FileInv'
  <2>1. (~store.exists => store.secrets = NoSecrets)' /\ (Moved \/ Unmoved)'
    BY <1>0, <1>1, <1>6 DEF FileInv, Unmoved
  <2>2. ASSUME ~Moved, NEW s \in Procs
        PROVE  ~AtHosts(proc'[s]) /\ (HasMap(proc'[s]) => Current(proc'[s]))
    BY <1>0, <1>3, <1>5, <2>2 DEF FileInv
  <2>3. (~Moved => \A s \in Procs : ~AtHosts(proc[s]) /\ (HasMap(proc[s]) => Current(proc[s])))'
    <3>1. ASSUME NEW q  PROVE Current(q)' <=> Current(q)
      BY <1>1 DEF Current
    <3> QED
      BY <1>6, <2>2, <3>1 DEF AtHosts, HasMap, Current
  <2>4. ASSUME ~Moved, ~interrupted, NEW s \in Procs, Copied(proc'[s])
        PROVE  backup = hosts \/ \E c \in Procs : AtBackup(proc'[c])
    <3>1. Copied(proc[s])
      BY <1>3, <1>5, <2>4
    <3>2. backup = hosts \/ \E c \in Procs : AtBackup(proc[c])
      BY <1>0, <2>4, <3>1 DEF FileInv
    <3>3. ~AtBackup(proc[p])
      BY <1>1, Nowhere
    <3> QED
      BY <1>3, <3>2, <3>3
  <2>5. (~Moved /\ ~interrupted /\ (\E s \in Procs : Copied(proc[s])) =>
           backup = hosts \/ \E c \in Procs : AtBackup(proc[c]))'
    BY <1>1, <1>6, <2>4
  <2> QED
    BY <2>1, <2>3, <2>5 DEF FileInv
<1>8. ASSUME NEW h \in plain, Safe(h)  PROVE Safe(h)'
  <2>1. Stored(h)' /\ h \in Hosts
    BY <1>0, <1>1, <1>8 DEF Safe, Stored, TypeOK
  <2>2. \A s \in Procs : Spares(proc'[s], h)
    BY <1>3, <1>5, <1>8, <2>1 DEF Safe
  <2>3. \A s \in Procs : Spares(proc[s], h)'
    BY <2>2 DEF Spares, AtRefs, AtWrite
  <2> QED
    BY <2>1, <2>3 DEF Safe
<1>9. ASSUME ~overlapped'  PROVE Alone'
  <2>1. Alone /\ \A s \in Procs : proc[s].cmd = "idle"
    BY <1>1, <1>9 DEF IndInv, Busy
  <2>2. ASSUME NEW s \in Procs  PROVE Knows(proc[s])'
    <3>1. CASE s = p
      BY <1>3, <1>5, <3>1 DEF Knows
    <3>2. CASE s # p
      <4>1. proc'[s] = proc[s] /\ proc[s].cmd = "idle"
        BY <1>3, <2>1, <3>2
      <4> QED
        BY <4>1, IdleKnows
    <3> QED
      BY <3>1, <3>2
  <2>3. ReferencesResolve'
    BY <1>1, <1>9, <2>1 DEF Alone, ReferencesResolve, Present
  <2>4. LeaseInv'
    <3>1. interrupted \/ (Alive => Opens(lease.password))
      BY <2>1, Nowhere DEF Alone, LeaseInv
    <3>2. (interrupted \/ (Alive => Opens(lease.password)))'
      BY <1>1, <3>1 DEF Alive, Opens
    <3> QED
      BY <3>2 DEF LeaseInv
  <2>5. Moved => \A h \in plain' : Safe(h)'
    BY <1>1, <1>8, <2>1 DEF Alone
  <2>6. \A s, t \in Procs : proc'[s].cmd # "idle" /\ proc'[t].cmd # "idle" => s = t
    BY <1>3, <2>1
  <2> QED
    BY <1>6, <2>2, <2>3, <2>4, <2>5, <2>6 DEF Alone
<1>10. ASSUME ~interrupted', started' <= 2  PROVE Pair'
  <2>1. started \in {0, 1} /\ started' \in {1, 2} /\ Pair /\ started' = started + 1
    BY <1>0, <1>1, <1>10 DEF TypeOK, IndInv
  <2>2. /\ started = 0 => \A s \in Procs : proc[s].cmd = "idle"
        /\ started = 1 => \A s, t \in Procs : proc[s].cmd = "idle" \/ proc[t].cmd = "idle" \/ s = t
    BY <2>1 DEF Pair, Idles
  <2>3. started' = 1 => \A s, t \in Procs : proc'[s].cmd = "idle" \/ proc'[t].cmd = "idle" \/ s = t
    BY <1>3, <2>1, <2>2
  <2>4. \A s, t, u \in Procs : \/ proc'[s].cmd = "idle" \/ proc'[t].cmd = "idle"
                               \/ proc'[u].cmd = "idle" \/ s = t \/ s = u \/ t = u
    BY <1>3, <2>1, <2>2
  <2>5. ASSUME ~Moved, NEW a \in Procs, AtTruncate(proc'[a]), NEW h \in Hosts, Carries(proc'[a], h)
        PROVE  \A g \in plain' : Stored(g)'
    <3>1. AtTruncate(proc[a]) /\ Carries(proc[a], h)
      BY <1>3, <1>5, <2>5
    <3>2. ~OtherWrote(a)
      BY <2>1 DEF OtherWrote
    <3>3. \A g \in plain : Stored(g)
      BY <2>1, <2>5, <3>1, <3>2 DEF Pair
    <3> QED
      BY <1>1, <3>3 DEF Stored
  <2>6. ASSUME Moved, NEW h \in plain'  PROVE InBackup(h)' \/ Safe(h)'
    <3>1. InBackup(h) \/ Safe(h)
      BY <1>1, <2>1, <2>6 DEF Pair, InBootstrap
    <3>2. CASE InBackup(h)
      <4>1. \A s \in Procs : ~AtEmptyBackup(proc'[s]) /\ ~AtBackup(proc'[s])
        BY <1>3, <1>5, <3>2 DEF InBackup
      <4>2. InBackup(h)'
        BY <1>1, <3>2, <4>1 DEF InBackup, HasLegacy
      <4> QED
        BY <4>2
    <3>3. CASE Safe(h)
      BY <1>1, <1>8, <2>6, <3>3
    <3> QED
      BY <3>1, <3>2, <3>3
  <2>7. started' # 0
    BY <2>1
  <2> QED
    BY <1>6, <2>3, <2>4, <2>5, <2>6, <2>7 DEF Pair, Idles
<1> QED
  BY <1>3, <1>4, <1>7, <1>9, <1>10 DEF IndInv

LEMMA InterruptKeeps ==
  ASSUME IndInv, NEW p \in Procs, Interrupt(p)
  PROVE  IndInv'
<1>0. TypeOK /\ FileInv
  BY DEF IndInv
<1>1. /\ proc' = [proc EXCEPT ![p] = Idle] /\ interrupted' = TRUE
      /\ UNCHANGED <<store, lease, hosts, torn, backup, now, plain, overlapped, started>>
      /\ proc[p].cmd # "idle"
  BY DEF Interrupt, Abort, files
<1>2. /\ proc' = [s \in Procs |-> proc'[s]] /\ proc'[p] = Idle /\ \A s \in Procs : s # p => proc'[s] = proc[s]
      /\ \A s \in Procs : CommandInv(proc'[s]) /\ (proc'[s].cmd = "idle" <=> proc'[s].todo = <<>>)
  BY <1>1, ProcOf, IdleHolds DEF IndInv, Turns
<1>3. TypeOK'
  BY <1>0, <1>1, <1>2 DEF TypeOK
<1>4. Moved' <=> Moved
  BY <1>1 DEF Moved
<1>5. /\ ~HasMap(Idle) /\ ~AtHosts(Idle) /\ \A h \in Hosts : Spares(Idle, h)
  BY IdleHolds, Nowhere
<1>6. FileInv'
  <2>1. (~store.exists => store.secrets = NoSecrets)' /\ (Moved \/ Unmoved)'
    BY <1>0, <1>1, <1>4 DEF FileInv, Unmoved
  <2>2. ASSUME ~Moved, NEW s \in Procs
        PROVE  ~AtHosts(proc'[s]) /\ (HasMap(proc'[s]) => Current(proc'[s]))
    BY <1>0, <1>2, <1>5, <2>2 DEF FileInv
  <2>3. (~Moved => \A s \in Procs : ~AtHosts(proc[s]) /\ (HasMap(proc[s]) => Current(proc[s])))'
    <3>1. ASSUME NEW q  PROVE Current(q)' <=> Current(q)
      BY <1>1 DEF Current
    <3> QED
      BY <1>4, <2>2, <3>1 DEF AtHosts, HasMap, Current
  <2> QED
    BY <1>1, <2>1, <2>3 DEF FileInv
<1>7. ASSUME ~overlapped  PROVE Alone'
  <2>1. Alone /\ \A s \in Procs : proc'[s].cmd = "idle"
    BY <1>1, <1>2, <1>7, IdleHolds DEF IndInv, Alone
  <2>2. \A s \in Procs : Knows(proc[s])'
    <3>1. ASSUME NEW s \in Procs  PROVE Knows(proc[s])'
      <4>1. proc'[s].cmd = "idle"
        BY <2>1
      <4> QED
        BY <4>1, IdleKnows
    <3> QED
      BY <3>1
  <2>3. ReferencesResolve' /\ LeaseInv'
    BY <1>1, <1>7, <2>1 DEF Alone, ReferencesResolve, Present, LeaseInv
  <2>4. ASSUME Moved, NEW h \in plain'  PROVE Safe(h)'
    <3>1. Safe(h) /\ h \in Hosts
      BY <1>0, <1>1, <2>1, <2>4 DEF Alone, TypeOK
    <3>2. Stored(h)'
      BY <1>1, <3>1 DEF Safe, Stored
    <3>3. \A s \in Procs : Spares(proc'[s], h)
      BY <1>2, <1>5, <3>1 DEF Safe
    <3>4. \A s \in Procs : Spares(proc[s], h)'
      BY <3>3 DEF Spares, AtRefs, AtWrite
    <3> QED
      BY <3>2, <3>4 DEF Safe
  <2> QED
    BY <1>4, <2>1, <2>2, <2>3, <2>4 DEF Alone
<1> QED
  BY <1>1, <1>2, <1>3, <1>6, <1>7 DEF IndInv

\* The clock matters to the lease alone, and to that it only does harm.
LEMMA IdleStep ==
  ASSUME IndInv, UNCHANGED <<files, proc, history>>, TypeOK', Alive' => Alive
  PROVE  IndInv'
<1>0. UNCHANGED <<store, lease, hosts, torn, backup, proc, plain, overlapped, interrupted, started>>
  BY DEF files, history
<1>1. Moved' <=> Moved
  BY <1>0 DEF Moved
<1>2. ASSUME NEW q  PROVE Current(q)' <=> Current(q)
  BY <1>0 DEF Current
<1>3. FileInv'
  <2>1. (~store.exists => store.secrets = NoSecrets)' /\ (Moved \/ Unmoved)'
    BY <1>0, <1>1 DEF IndInv, FileInv, Unmoved
  <2>2. (~Moved => \A s \in Procs : ~AtHosts(proc[s]) /\ (HasMap(proc[s]) => Current(proc[s])))'
    BY <1>0, <1>1, <1>2 DEF IndInv, FileInv
  <2>3. (~Moved /\ ~interrupted /\ (\E s \in Procs : Copied(proc[s])) =>
           backup = hosts \/ \E c \in Procs : AtBackup(proc[c]))'
    BY <1>0, <1>1 DEF IndInv, FileInv
  <2> QED
    BY <2>1, <2>2, <2>3 DEF FileInv
<1>4. \A h : (Stored(h)' <=> Stored(h)) /\ (Safe(h)' <=> Safe(h))
  <2>1. \A h : Stored(h)' <=> Stored(h)
    BY <1>0 DEF Stored
  <2>2. \A h, s : Spares(proc[s], h)' <=> Spares(proc[s], h)
    BY <1>0
  <2> QED
    BY <2>1, <2>2 DEF Safe
<1>5. ASSUME ~overlapped  PROVE Alone'
  <2>1. Alone
    BY <1>5 DEF IndInv
  <2>2. \A s \in Procs : Knows(proc[s])'
    <3>1. ASSUME NEW s \in Procs  PROVE Knows(proc[s])'
      <4>1. Knows(proc[s])
        BY <2>1 DEF Alone
      <4> QED
        BY <1>0, <4>1 DEF Knows, Vanishes, Lost, Opens, Resolves, Stored
    <3> QED
      BY <3>1
  <2>3. LeaseInv'
    <3>1. (Alive => Opens(lease.password)) => (Alive => Opens(lease.password))'
      BY <1>0 DEF Opens
    <3> QED
      BY <1>0, <2>1, <3>1 DEF Alone, LeaseInv
  <2>4. ReferencesResolve'
    BY <1>0, <2>1 DEF Alone, ReferencesResolve
  <2>5. (Moved => \A h \in plain : Safe(h))'
    BY <1>0, <1>1, <1>4, <2>1 DEF Alone
  <2> QED
    BY <1>0, <2>1, <2>2, <2>3, <2>4, <2>5 DEF Alone
<1>6. ASSUME ~interrupted, started <= 2  PROVE Pair'
  <2>1. Pair
    BY <1>6 DEF IndInv
  <2>2. ASSUME NEW a  PROVE OtherWrote(a)' <=> OtherWrote(a)
    BY <1>0 DEF OtherWrote, Idles, Opens
  <2>3. ASSUME NEW h  PROVE (InBackup(h)' <=> InBackup(h)) /\ (InBootstrap(h)' <=> InBootstrap(h))
    BY <1>0 DEF InBackup, InBootstrap, Opens, HasLegacy
  <2>4. (~Moved => \A a \in Procs : AtTruncate(proc[a]) /\ (\E h \in Hosts : Carries(proc[a], h)) =>
                      (\A h \in plain : Stored(h)) \/ OtherWrote(a))'
    BY <1>0, <1>1, <1>4, <2>1, <2>2 DEF Pair
  <2>5. (Moved => \A h \in plain : InBackup(h) \/ Safe(h) \/ InBootstrap(h))'
    BY <1>0, <1>1, <1>4, <2>1, <2>3 DEF Pair
  <2> QED
    BY <1>0, <2>1, <2>4, <2>5 DEF Pair, Idles
<1>7. proc' = [s \in Procs |-> proc'[s]] /\ \A s \in Procs : CommandInv(proc'[s])
  BY <1>0 DEF IndInv
<1> QED
  BY <1>0, <1>3, <1>5, <1>6, <1>7 DEF IndInv

LEMMA TickKeeps ==
  ASSUME IndInv, Tick
  PROVE  IndInv'
<1>1. UNCHANGED <<files, proc, history>> /\ now < MaxNow /\ now' = now + 1
  BY DEF Tick
<1>2. TypeOK
  BY DEF IndInv
<1>3. UNCHANGED <<store, lease, hosts, torn, backup, proc, plain, overlapped, interrupted, started>>
  BY <1>1 DEF files, history
<1>4. now \in Nat /\ now' \in 0 .. MaxNow /\ lease.expires \in Nat
  BY <1>1, <1>2, BoundsAssumption DEF TypeOK
<1>5. TypeOK'
  BY <1>2, <1>3, <1>4 DEF TypeOK
<1>6. Alive' => Alive
  BY <1>1, <1>3, <1>4 DEF Alive
<1> QED
  BY <1>1, <1>5, <1>6, IdleStep

LEMMA StutterKeeps ==
  ASSUME IndInv, UNCHANGED vars
  PROVE  IndInv'
<1>1. UNCHANGED <<files, proc, history>> /\ now' = now
  BY DEF vars, files, history
<1>2. TypeOK'
  BY DEF IndInv, TypeOK, vars
<1>3. Alive' => Alive
  BY <1>1 DEF Alive, files
<1> QED
  BY <1>1, <1>2, <1>3, IdleStep

-----------------------------------------------------------------------------
(* The first state.                                                          *)

LEMMA HostsAtFirst ==
  ASSUME NEW h \in Hosts, NEW c \in Credentials
  PROVE  LET map == [NoHosts EXCEPT ![h] = c] IN
         /\ map \in [Hosts -> Credentials] /\ map[h] = c
         /\ \A g \in Hosts : g # h => map[g] = NoHost
         /\ \A g \in Hosts : g # h => ~HasLegacy(g, map) /\ map[g].ref = "none"
<1>1. NoHosts \in [Hosts -> Credentials] /\ NoHost \in Credentials
  BY DEF NoHosts, NoHost, Credentials
<1> DEFINE map == [NoHosts EXCEPT ![h] = c]
<1>2. map \in [Hosts -> Credentials] /\ map[h] = c /\ \A g \in Hosts : g # h => map[g] = NoHost
  BY <1>1 DEF NoHosts
<1> HIDE DEF map
<1>3. \A g \in Hosts : g # h => ~HasLegacy(g, map) /\ map[g].ref = "none"
  BY <1>2 DEF HasLegacy, NoHost
<1> QED
  BY <1>2, <1>3 DEF map

LEMMA FilesAtFirst ==
  ASSUME Init
  PROVE  /\ store \in [exists : BOOLEAN, password : Passwords \union {"none"}, secrets : [Ids -> Entries]]
         /\ hosts \in [Hosts -> Credentials]
         /\ ~store.exists => store.secrets = NoSecrets
         /\ Moved \/ Unmoved
         /\ Moved => plain = {}
         /\ ReferencesResolve
<1> DEFINE Typed(i, k) == [NoSecrets EXCEPT ![i] = [NoEntry EXCEPT ![k] = "typed"]]
<1>1. PICK i \in Ids, k \in Kinds :
        \/ /\ store = [exists |-> FALSE, password |-> "none", secrets |-> NoSecrets]
           /\ \E h \in Hosts : hosts = [NoHosts EXCEPT ![h] = Legacy(k, "none")]
        \/ /\ \E pw \in Passwords : store = [exists |-> TRUE, password |-> pw, secrets |-> Typed(i, k)]
           /\ \E h \in Hosts, c \in {Reference(i), Legacy("basic", "none"), Legacy("basic", i)} :
                 hosts = [NoHosts EXCEPT ![h] = c]
  <2> QED
    BY DEF Init
<1>2. NoEntry \in Entries /\ NoSecrets \in [Ids -> Entries]
  BY DEF NoEntry, Entries, NoSecrets
<1>3. plain = {h \in Hosts : hosts[h].legacy # "none" /\ hosts[h].ref = "none"}
  BY DEF Init
<1>4. /\ Legacy(k, "none") \in Credentials /\ Legacy("basic", "none") \in Credentials
      /\ Legacy("basic", i) \in Credentials /\ Reference(i) \in Credentials
      /\ Legacy(k, "none").ref = "none" /\ Legacy("basic", "none").ref = "none"
      /\ Legacy("basic", i).ref = i /\ Reference(i).ref = i
  BY DEF Legacy, Reference, Credentials, Kinds
<1>5. Typed(i, k) \in [Ids -> Entries] /\ Present(Typed(i, k), i)
  <2> DEFINE e == [NoEntry EXCEPT ![k] = "typed"]
  <2>1. e \in Entries /\ e[k] = "typed" /\ NoEntry[k] = "none"
    BY DEF NoEntry, Entries
  <2>2. e # NoEntry
    BY <2>1
  <2> HIDE DEF e
  <2>3. [NoSecrets EXCEPT ![i] = e] \in [Ids -> Entries] /\ [NoSecrets EXCEPT ![i] = e][i] = e
    BY <1>2, <2>1
  <2> QED
    BY <2>2, <2>3 DEF Present, e
<1> HIDE DEF Typed
<1>6. PICK h \in Hosts, c \in Credentials : /\ hosts = [NoHosts EXCEPT ![h] = c]
                                            /\ c.ref = "none" \/ (c.ref = i /\ store.exists)
  BY <1>1, <1>4
<1>7. /\ hosts \in [Hosts -> Credentials] /\ hosts[h] = c
      /\ \A g \in Hosts : g # h => ~HasLegacy(g, hosts) /\ hosts[g].ref = "none"
  BY <1>6, HostsAtFirst
<1>8. /\ store \in [exists : BOOLEAN, password : Passwords \union {"none"}, secrets : [Ids -> Entries]]
      /\ ~store.exists => store.secrets = NoSecrets
      /\ store.exists => Present(store.secrets, i)
  <2>1. CASE store = [exists |-> FALSE, password |-> "none", secrets |-> NoSecrets]
    BY <1>2, <2>1
  <2>2. CASE \E pw \in Passwords : store = [exists |-> TRUE, password |-> pw, secrets |-> Typed(i, k)]
    <3>1. PICK pw \in Passwords : store = [exists |-> TRUE, password |-> pw, secrets |-> Typed(i, k)]
      BY <2>2
    <3> QED
      BY <1>5, <3>1
  <2> QED
    BY <1>1, <2>1, <2>2
<1>9. Unmoved /\ (Moved => plain = {})
  BY <1>3 DEF Unmoved, Moved, HasLegacy
<1>10. ReferencesResolve
  <2>1. ASSUME NEW g \in Hosts, hosts[g].ref # "none"  PROVE store.exists /\ hosts[g].ref = i
    BY <1>6, <1>7, <2>1
  <2> QED
    BY <1>8, <2>1 DEF ReferencesResolve
<1> QED
  BY <1>7, <1>8, <1>9, <1>10

LEMMA Initially == Init => IndInv
<1> SUFFICES ASSUME Init  PROVE IndInv
  OBVIOUS
<1>1. /\ lease = NoLease /\ torn = FALSE /\ backup = NoHosts /\ now = 0
      /\ proc = [p \in Procs |-> Idle] /\ overlapped = FALSE /\ interrupted = FALSE /\ started = 0
      /\ plain = {h \in Hosts : hosts[h].legacy # "none" /\ hosts[h].ref = "none"}
  BY DEF Init
<1>2. \A p \in Procs : proc[p] = Idle /\ proc[p].cmd = "idle"
  BY <1>1, IdleHolds
<1>3. \A p \in Procs : CommandInv(proc[p]) /\ (proc[p].cmd = "idle" <=> proc[p].todo = <<>>)
  BY <1>2, IdleHolds
<1>4. NoHosts \in [Hosts -> Credentials]
  BY DEF NoHosts, NoHost, Credentials
<1>5. TypeOK
  <2>1. /\ store \in [exists : BOOLEAN, password : Passwords \union {"none"}, secrets : [Ids -> Entries]]
        /\ hosts \in [Hosts -> Credentials]
    BY FilesAtFirst
  <2>2. lease \in [exists : BOOLEAN, password : Passwords \union {"none"}, expires : Nat]
    BY <1>1, LeaseTypes DEF Leases
  <2>3. now \in 0 .. MaxNow /\ started \in 0 .. MaxCommands /\ plain \subseteq Hosts
    BY <1>1, BoundsAssumption
  <2> QED
    BY <1>1, <1>3, <1>4, <2>1, <2>2, <2>3 DEF TypeOK
<1>6. FileInv
  BY <1>2, FilesAtFirst, Nowhere DEF FileInv
<1>7. Alone
  <2>1. LeaseInv
    BY <1>1, LeaseTypes DEF LeaseInv, Alive
  <2> QED
    BY <1>2, <2>1, FilesAtFirst, IdleKnows DEF Alone
<1>8. Pair
  <2>1. \A p \in Procs : Idles(p) /\ ~AtTruncate(proc[p])
    BY <1>2, Nowhere DEF Idles
  <2> QED
    BY <1>1, <2>1, FilesAtFirst DEF Pair
<1> QED
  BY <1>1, <1>3, <1>5, <1>6, <1>7, <1>8 DEF IndInv

-----------------------------------------------------------------------------
(* Every step keeps the invariant.                                           *)

LEMMA Inductive == IndInv /\ [Next]_vars => IndInv'
<1> SUFFICES ASSUME IndInv, [Next]_vars  PROVE IndInv'
  OBVIOUS
<1>1. CASE UNCHANGED vars
  BY <1>1, StutterKeeps
<1>2. CASE Tick
  BY <1>2, TickKeeps
<1>3. ASSUME NEW p \in Procs, Begin(p)  PROVE IndInv'
  BY <1>3, BeginKeeps
<1>4. ASSUME NEW p \in Procs, Interrupt(p)  PROVE IndInv'
  BY <1>4, InterruptKeeps
<1>5. ASSUME NEW p \in Procs, Step(p)  PROVE IndInv'
  <2>1. CASE Password(p)
    BY <2>1, PasswordKeeps
  <2>2. CASE Validate(p)
    BY <2>2, ValidateKeeps
  <2>3. CASE Absent(p)
    BY <2>3, AbsentKeeps
  <2>4. CASE Read(p)
    BY <2>4, ReadKeeps
  <2>5. CASE Drop(p)
    BY <2>5, DropKeeps
  <2>6. CASE Refs(p)
    BY <2>6, RefsKeeps
  <2>7. CASE Write(p)
    BY <2>7, WriteKeeps
  <2>8. CASE Grant(p) \/ Renew(p) \/ Lock(p)
    BY <2>8, LastKeeps
  <2>9. CASE ReadLease(p)
    BY <2>9, ReadLeaseKeeps
  <2>10. CASE LookUp(p)
    BY <2>10, LookUpKeeps
  <2>11. CASE Parse(p)
    BY <2>11, ParseKeeps
  <2>12. CASE Gather(p)
    BY <2>12, GatherKeeps
  <2>13. CASE EmptyBackup(p)
    BY <2>13, EmptyBackupKeeps
  <2>14. CASE Backup(p)
    BY <2>14, BackupKeeps
  <2>15. CASE Truncate(p)
    BY <2>15, TruncateKeeps
  <2>16. CASE WriteHosts(p)
    BY <2>16, HostsKeeps
  <2> QED
    BY <1>5, <2>1, <2>2, <2>3, <2>4, <2>5, <2>6, <2>7, <2>8, <2>9, <2>10, <2>11, <2>12, <2>13,
       <2>14, <2>15, <2>16 DEF Step
<1> QED
  BY <1>1, <1>2, <1>3, <1>4, <1>5 DEF Next

LEMMA Recoverable ==
  ASSUME IndInv
  PROVE  CredentialRecoverable
<1>1. SUFFICES ASSUME ~overlapped \/ (~interrupted /\ started <= 2), NEW h \in plain
               PROVE  \/ HasLegacy(h, hosts) \/ HasLegacy(h, backup) \/ Stored(h)
                      \/ \E p \in Procs : HasLegacy(h, proc[p].map)
  <2>1. started \in Nat
    BY BoundsAssumption DEF IndInv, TypeOK
  <2> QED
    BY <1>1, <2>1 DEF CredentialRecoverable, Stored
<1>2. CASE ~Moved
  BY <1>2 DEF IndInv, FileInv, Unmoved
<1>3. CASE Moved /\ ~overlapped
  BY <1>3 DEF IndInv, Alone, Safe
<1>4. CASE Moved /\ ~interrupted /\ started <= 2
  <2>1. CASE InBackup(h)
    BY <2>1 DEF InBackup
  <2>2. CASE Safe(h)
    BY <2>2 DEF Safe
  <2>3. CASE InBootstrap(h)
    BY <2>3 DEF InBootstrap, Carries
  <2> QED
    BY <1>4, <2>1, <2>2, <2>3 DEF IndInv, Pair
<1> QED
  BY <1>1, <1>2, <1>3, <1>4

(***************************************************************************)
(* For any hosts, secrets, passwords and processes, and any number of      *)
(* commands of data/keystore.rs and data/known_host.rs that do not         *)
(* overlap: wherever one is cut off between its file accesses, no          *)
(* plaintext credential is lost by moving it into the keystore and no host *)
(* refers to a secret that is not there; and as long as none was cut off,  *)
(* a live lease opens the keystore between commands. Of two commands that  *)
(* overlap in whatever way and end by themselves, the migration still      *)
(* loses nothing.                                                          *)
(***************************************************************************)
THEOREM KeystoreHolds == Spec => []KeystoreSound
<1>1. IndInv => KeystoreSound
  <2> SUFFICES ASSUME IndInv  PROVE KeystoreSound
    OBVIOUS
  <2>1. TypeOK /\ (~overlapped => ReferencesResolve)
    BY DEF IndInv, Alone
  <2>2. ReferencesResolve
    BY <2>1 DEF ReferencesResolve
  <2>3. LeaseOpensStore
    <3>1. SUFFICES ASSUME ~overlapped, ~interrupted, ~Busy, Alive  PROVE Opens(lease.password)
      BY DEF LeaseOpensStore
    <3>2. \A p \in Procs : ~AtReadLease(proc[p]) /\ ~AtRenew(proc[p])
      BY <3>1, Nowhere DEF Busy
    <3> QED
      BY <3>1, <3>2 DEF IndInv, Alone, LeaseInv
  <2> QED
    BY <2>1, <2>2, <2>3, Recoverable DEF KeystoreSound
<1> QED
  BY <1>1, Initially, Inductive, PTL DEF Spec

-----------------------------------------------------------------------------
(* What a step never does.                                                   *)

Grants ==
  lease'.exists => \/ lease.exists /\ lease'.expires <= lease.expires
                   \/ \E p \in Procs : At(p, "grant") /\ proc'[p] = Idle

LEMMA StepGrants ==
  ASSUME IndInv, [Next]_vars, ~overlapped
  PROVE  Grants
<1>1. lease.expires \in Nat
  BY DEF IndInv, TypeOK
<1>2. CASE lease' = lease
  BY <1>1, <1>2 DEF Grants
<1>3. CASE lease' = NoLease
  BY <1>3, LeaseTypes DEF Grants
<1>4. ASSUME NEW p \in Procs, Grant(p)  PROVE Grants
  <2>1. proc' = [proc EXCEPT ![p] = Idle] /\ proc = [s \in Procs |-> proc[s]]
    BY <1>4, LastStep DEF IndInv
  <2>2. proc'[p] = Idle
    BY <2>1
  <2> QED
    BY <1>4, <2>2 DEF Grants, Grant
<1>5. ASSUME NEW p \in Procs, Renew(p)  PROVE Grants
  <2>1. AtRenew(proc[p])
    BY <1>5, PointOf DEF IndInv, CommandInv, Renew
  <2>2. lease.exists /\ proc[p].until = lease.expires
    BY <2>1 DEF IndInv, Alone, Knows
  <2>3. lease' = [exists |-> TRUE, password |-> proc[p].next, expires |-> proc[p].until]
    BY <1>5 DEF Renew
  <2> QED
    BY <1>1, <2>2, <2>3 DEF Grants
<1>6. ASSUME NEW p \in Procs, Step(p)  PROVE Grants
  <2>1. CASE Password(p) \/ ReadLease(p) \/ Lock(p)
    BY <1>2, <1>3, <2>1 DEF Password, ReadLease, Lock
  <2>2. CASE Grant(p) \/ Renew(p)
    BY <1>4, <1>5, <2>2
  <2>3. CASE Validate(p) \/ Absent(p) \/ Read(p) \/ Drop(p) \/ Refs(p) \/ LookUp(p) \/ Parse(p) \/ Gather(p)
    BY <1>2, <2>3 DEF Validate, Absent, Read, Drop, Refs, LookUp, Parse, Gather, files
  <2>4. CASE Write(p) \/ EmptyBackup(p) \/ Backup(p) \/ Truncate(p) \/ WriteHosts(p)
    BY <1>2, <2>4 DEF Write, EmptyBackup, Backup, Truncate, WriteHosts
  <2> QED
    BY <1>6, <2>1, <2>2, <2>3, <2>4 DEF Step
<1>7. ASSUME NEW p \in Procs, Begin(p)  PROVE lease' = lease
  BY <1>7 DEF Begin, Start, files
<1>8. CASE Tick \/ UNCHANGED vars \/ \E p \in Procs : Interrupt(p)
  BY <1>2, <1>8 DEF Tick, Interrupt, files, vars
<1> QED
  BY <1>2, <1>6, <1>7, <1>8 DEF Next

(***************************************************************************)
(* Unless commands overlap, keystore.unlock comes into being or gets a     *)
(* later expiry only by write_unlock_lease at the end of an unlock or of   *)
(* the creation of a keystore: the rotation of the password, which writes  *)
(* the lease as well, keeps the time the lease had left.                   *)
(***************************************************************************)
THEOREM UnlocksOnly == Spec => OnlyUnlockGrants
<1>1. IndInv /\ [Next]_vars =>
        [ \/ overlapped
          \/ lease'.exists => \/ lease.exists /\ lease'.expires <= lease.expires
                              \/ \E p \in Procs : At(p, "grant") /\ proc'[p] = Idle ]_vars
  BY StepGrants DEF Grants
<1> QED
  BY <1>1, Initially, Inductive, PTL DEF Spec, OnlyUnlockGrants

Survive ==
  \A i \in Ids, k \in Kinds :
    store.secrets[i][k] # "none" /\ store'.secrets[i][k] = "none" =>
      \E p \in Procs :
        /\ At(p, "write")
        /\ \/ proc[p].cmd = "remove" /\ proc[p].from = i /\ proc[p].kind \in {k, "all"}
           \/ proc[p].cmd = "rename" /\ proc[p].from = i
           \/ proc[p].cmd = "update" /\ proc[p].id = i

LEMMA StepSurvive ==
  ASSUME IndInv, [Next]_vars, ~overlapped
  PROVE  Survive
<1>1. CASE store' = store
  BY <1>1 DEF Survive
<1>2. ASSUME NEW p \in Procs, Write(p)  PROVE Survive
  <2>1. AtWrite(proc[p]) /\ At(p, "write")
    BY <1>2, PointOf DEF IndInv, CommandInv, Write
  <2>2. \A i \in Ids, k \in Kinds : Lost(proc[p], i, k) =>
            \/ proc[p].cmd = "remove" /\ proc[p].from = i /\ proc[p].kind \in {k, "all"}
            \/ proc[p].cmd = "rename" /\ proc[p].from = i
            \/ proc[p].cmd = "update" /\ proc[p].id = i
    BY <2>1 DEF IndInv, Alone, Knows
  <2>3. store'.secrets = proc[p].secrets
    BY <1>2 DEF Write
  <2> QED
    BY <2>1, <2>2, <2>3 DEF Survive, Lost
<1>3. ASSUME NEW p \in Procs, Step(p)  PROVE Survive
  <2>1. CASE Password(p) \/ ReadLease(p) \/ Lock(p) \/ Grant(p) \/ Renew(p)
    BY <1>1, <2>1 DEF Password, ReadLease, Lock, Grant, Renew
  <2>2. CASE Validate(p) \/ Absent(p) \/ Read(p) \/ Drop(p) \/ Refs(p) \/ LookUp(p) \/ Parse(p) \/ Gather(p)
    BY <1>1, <2>2 DEF Validate, Absent, Read, Drop, Refs, LookUp, Parse, Gather, files
  <2>3. CASE EmptyBackup(p) \/ Backup(p) \/ Truncate(p) \/ WriteHosts(p)
    BY <1>1, <2>3 DEF EmptyBackup, Backup, Truncate, WriteHosts
  <2>4. CASE Write(p)
    BY <1>2, <2>4
  <2> QED
    BY <1>3, <2>1, <2>2, <2>3, <2>4 DEF Step
<1>4. ASSUME NEW p \in Procs, Begin(p)  PROVE store' = store
  BY <1>4 DEF Begin, Start, files
<1>5. CASE Tick \/ UNCHANGED vars \/ \E p \in Procs : Interrupt(p)
  BY <1>1, <1>5 DEF Tick, Interrupt, files, vars
<1> QED
  BY <1>1, <1>3, <1>4, <1>5 DEF Next

(***************************************************************************)
(* Unless commands overlap, write_store drops a part of a secret only for  *)
(* the command that is about it: the removal of that part or of the whole  *)
(* secret, its renaming, or its replacement by update_secret.              *)
(***************************************************************************)
THEOREM SecretsKept == Spec => SecretsSurvive
<1>1. IndInv /\ [Next]_vars =>
        [ \/ overlapped
          \/ \A i \in Ids, k \in Kinds :
               store.secrets[i][k] # "none" /\ store'.secrets[i][k] = "none" =>
                 \E p \in Procs :
                   /\ At(p, "write")
                   /\ \/ proc[p].cmd = "remove" /\ proc[p].from = i /\ proc[p].kind \in {k, "all"}
                      \/ proc[p].cmd = "rename" /\ proc[p].from = i
                      \/ proc[p].cmd = "update" /\ proc[p].id = i ]_vars
  BY StepSurvive DEF Survive
<1> QED
  BY <1>1, Initially, Inductive, PTL DEF Spec, SecretsSurvive
=============================================================================
