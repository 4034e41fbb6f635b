---------------------------- MODULE DataDirectory ----------------------------
(***************************************************************************)
(* The directories of a database over the releases of the program and over *)
(* its backups: the upgrade of the storage format (prepareManifest of      *)
(* engine/storage-engine.ts, engine/migrations.ts) and backup/backup.ts.   *)
(*                                                                         *)
(* A directory is a function from the names of the files in it to what     *)
(* they hold; one that is missing or empty is the empty function.  The     *)
(* manifest holds the format version and the version that an unfinished    *)
(* upgrade started from, 0 if there is none.  Any other file holds the     *)
(* format it is written in and a value that every write changes.  A        *)
(* checksum of a file stands for what it holds.                            *)
(*                                                                         *)
(* Servers of several builds take turns on the data directory, and         *)
(* commands make a backup of it and restore that backup, all of them       *)
(* stopped anywhere by a crash.  The lock of the data directory is taken   *)
(* to exclude (DirectoryLock looks into that), and what is written stays   *)
(* written.                                                                *)
(***************************************************************************)
EXTENDS Integers, FiniteSetsExt, Functions

CONSTANTS
    Commands,       \* the backup and restore commands
    Data,           \* the names of the files besides the manifest
    Builds,         \* the builds, each named by the format version it writes
    Tools,          \* the builds that the commands are run with
    Rewrites,       \* the versions whose step to the next rewrites the files
    MaxWrites,      \* bounds the writes
    MaxCrashes,     \* bounds the crashes, of the servers and of the commands
    MaxHarm         \* bounds the damage to the backup

ASSUME DirectoryConstants ==
    /\ "manifest" \notin Data /\ {"free", "server"} \cap Commands = {}
    /\ Builds \subseteq Nat \ {0} /\ Tools \subseteq Builds /\ Rewrites \subseteq Nat
    /\ MaxWrites \in Nat /\ MaxCrashes \in Nat /\ MaxHarm \in Nat

VARIABLES
    dirs,       \* the directories by name
    sums,       \* the checksums in the manifest of the backup
    madeBy,     \* the build that made the backup (storageFormatVersion)
    lock,       \* who holds the lock of the data directory
    server,     \* the server on the data directory
    command,    \* the state of each command
    takenOver,  \* "yes" once a build went on with the upgrade of an older one
    overlap,    \* "yes" once two restores were under way at once
    writes, crashes, harmed

vars == <<dirs, sums, madeBy, lock, server, command, takenOver, overlap, writes, crashes, harmed>>
ghosts == <<takenOver, overlap>>
bounds == <<writes, crashes, harmed>>

Names == {"data", "backup", "partial", "restoring", "restored"}

Empty == [f \in {} |-> 0]

(* There is nothing under the name n, or an empty directory.  A backup     *)
(* holds a manifest of its own besides the files it is of.                 *)
Vacant(n) == dirs[n] = Empty /\ (n = "backup" => sums = Empty)

ManifestOf(d) == d["manifest"]
Version(d) == ManifestOf(d)[1]
MigratingFrom(d) == ManifestOf(d)[2]

Put(d, file, content) ==
    [f \in DOMAIN d \cup {file} |-> IF f = file THEN content ELSE d[f]]

(* A build reads older files as they are up to a step that rewrites them.  *)
Readable(format, build) == format <= build /\ \A v \in Rewrites : ~ (format <= v /\ v < build)

-----------------------------------------------------------------------------
(* The upgrade: prepareManifest, a step at a time.                         *)

(* readInterruptedUpgrade and planMigrations: where the upgrade starts,    *)
(* and the versions whose step rewrites the files.                         *)
From(d) == IF MigratingFrom(d) # 0 THEN MigratingFrom(d) ELSE Version(d)
Rewriting(d, build) == {v \in Rewrites : From(d) <= v /\ v < build}

(* The rewriting of a file that a step has been over already changes       *)
(* nothing: steps may be run again.                                        *)
Migrated(content, v) == IF content[1] <= v THEN <<v + 1, content[2]>> ELSE content

Down == [state |-> "down", build |-> 0, todo |-> {}]

(* Mutant: the directory is not marked. *)
StartUnmarked(b) ==
    LET d == dirs["data"]
        steps == Rewriting(d, b)
    IN  /\ lock = "free" /\ Version(d) <= b
        /\ lock' = "server"
        /\ server' = [state |-> IF From(d) = b /\ MigratingFrom(d) = 0 THEN "serving" ELSE "upgrading",
                      build |-> b, todo |-> steps \X Data]
        /\ takenOver' = IF MigratingFrom(d) # 0 /\ Version(d) < b THEN "yes" ELSE takenOver
        /\ UNCHANGED <<dirs, sums, madeBy, command, overlap, bounds>>

(* A build that is too old is refused.  The directory is marked before     *)
(* anything in it is rewritten.                                            *)
Start(b) ==
    LET d == dirs["data"]
        steps == Rewriting(d, b)
        interrupted == MigratingFrom(d) # 0
    IN  /\ lock = "free" /\ Version(d) <= b
        /\ lock' = "server"
        /\ server' = [state |-> IF From(d) = b /\ ~ interrupted THEN "serving" ELSE "upgrading",
                      build |-> b, todo |-> steps \X Data]
        /\ dirs' = IF steps # {} /\ ~ interrupted
                   THEN [dirs EXCEPT !["data"] = Put(@, "manifest", <<b, From(d)>>)] ELSE dirs
        /\ takenOver' = IF interrupted /\ Version(d) < b THEN "yes" ELSE takenOver
        /\ UNCHANGED <<sums, madeBy, command, overlap, bounds>>

(* step.run, a file at a time and one version after the other. *)
Migrate ==
    /\ server.state = "upgrading"
    /\ \E step \in server.todo :
         /\ \A other \in server.todo : step[1] <= other[1]
         /\ dirs' = [dirs EXCEPT !["data"][step[2]] = Migrated(@, step[1])]
         /\ server' = [server EXCEPT !.todo = @ \ {step}]
    /\ UNCHANGED <<sums, madeBy, lock, command, ghosts, bounds>>

Upgraded ==
    /\ server.state = "upgrading" /\ server.todo = {}
    /\ dirs' = [dirs EXCEPT !["data"] = Put(@, "manifest", <<server.build, 0>>)]
    /\ server' = [server EXCEPT !.state = "serving"]
    /\ UNCHANGED <<sums, madeBy, lock, command, ghosts, bounds>>

(* A write of the server, in the format of its build. *)
Write(f) ==
    /\ server.state = "serving" /\ writes < MaxWrites
    /\ dirs' = [dirs EXCEPT !["data"] = Put(@, f, <<server.build, @[f][2] + 1>>)]
    /\ writes' = writes + 1
    /\ UNCHANGED <<sums, madeBy, lock, server, command, ghosts, crashes, harmed>>

Stop ==
    /\ server.state = "serving"
    /\ server' = Down /\ lock' = "free"
    /\ UNCHANGED <<dirs, sums, madeBy, command, ghosts, bounds>>

(* A crash, or an error in an upgrade; the lock of the dead counts as free.*)
ServerCrashes ==
    /\ server.state # "down" /\ crashes < MaxCrashes
    /\ server' = Down /\ lock' = "free"
    /\ crashes' = crashes + 1
    /\ UNCHANGED <<dirs, sums, madeBy, command, ghosts, writes, harmed>>

-----------------------------------------------------------------------------
(* The commands.                                                           *)

(* The files that are still to be copied, in whatever order. *)
Idle == [state |-> "idle", build |-> 0, todo |-> {}]

(* createBackup by build b, up to the lock: assertDataDirectory, and       *)
(* assertEmptyOrMissing.                                                   *)
BackupChecks(c, b) ==
    /\ command[c].state = "idle" /\ Vacant("backup")
    /\ command' = [command EXCEPT ![c].state = "checked", ![c].build = b]
    /\ UNCHANGED <<dirs, sums, madeBy, lock, server, ghosts, bounds>>

(* Mutant: no lock. *)
BackupUnlocked(c) ==
    /\ command[c].state = "checked"
    /\ command' = [command EXCEPT ![c].state = "copying", ![c].todo = DOMAIN dirs["data"]]
    /\ dirs' = [dirs EXCEPT !["partial"] = Empty]
    /\ UNCHANGED <<sums, madeBy, lock, server, ghosts, bounds>>

(* acquireDirectoryLock, or the error that the directory is in use; then   *)
(* an old .partial is removed, and the files are listed.                   *)
BackupLocks(c) ==
    /\ command[c].state = "checked"
    /\ \/ /\ lock = "free"
          /\ lock' = c
          /\ command' = [command EXCEPT ![c].state = "copying", ![c].todo = DOMAIN dirs["data"]]
          /\ dirs' = [dirs EXCEPT !["partial"] = Empty]
       \/ /\ lock # "free"
          /\ command' = [command EXCEPT ![c] = Idle]
          /\ UNCHANGED <<dirs, lock>>
    /\ UNCHANGED <<sums, madeBy, server, ghosts, bounds>>

BackupCopies(c) ==
    /\ command[c].state = "copying"
    /\ \E f \in command[c].todo :
         /\ dirs' = [dirs EXCEPT !["partial"] = Put(@, f, dirs["data"][f])]
         /\ command' = [command EXCEPT ![c].todo = @ \ {f}]
    /\ UNCHANGED <<sums, madeBy, lock, server, ghosts, bounds>>

(* Mutant: what is in the way is removed, whatever it holds. *)
PublishOver(from, to) == [dirs EXCEPT ![to] = dirs[from], ![from] = Empty]

(* publish: rmdir fails on a directory that is not empty, rename on one    *)
(* that is not there.  The caller then removes what it has built.          *)
Publish(from, to) ==
    IF Vacant(to) THEN [dirs EXCEPT ![to] = dirs[from], ![from] = Empty]
    ELSE [dirs EXCEPT ![from] = Empty]

(* The manifest of the backup, publish, and the release of the lock. *)
BackupPublishes(c) ==
    /\ command[c].state = "copying" /\ command[c].todo = {}
    /\ dirs' = Publish("partial", "backup")
    /\ sums' = IF Vacant("backup") THEN dirs["partial"] ELSE sums
    /\ madeBy' = IF Vacant("backup") THEN command[c].build ELSE madeBy
    /\ command' = [command EXCEPT ![c] = Idle]
    /\ lock' = "free"
    /\ UNCHANGED <<server, ghosts, bounds>>

Restoring(c) == command[c].state \in {"filling", "opened"}

(* restoreBackup by build b, up to the copying.  verifyBackup holds every  *)
(* file against its checksum, readBackupManifest refuses a backup made by  *)
(* a newer build, assertEmptyOrMissing looks at the destination; then an   *)
(* old .restoring is removed.                                              *)
RestoreBegins(c, b) ==
    /\ command[c].state = "idle"
    /\ dirs["backup"] # Empty /\ dirs["backup"] = sums /\ madeBy <= b
    /\ dirs["restored"] = Empty
    /\ dirs' = [dirs EXCEPT !["restoring"] = Empty]
    /\ command' = [command EXCEPT ![c] = [state |-> "filling", build |-> b, todo |-> DOMAIN sums]]
    /\ overlap' = IF \E other \in Commands \ {c} : Restoring(other) THEN "yes" ELSE overlap
    /\ UNCHANGED <<sums, madeBy, lock, server, takenOver, bounds>>

(* The error path of restoreBackup. *)
Abandon(c) ==
    /\ dirs' = [dirs EXCEPT !["restoring"] = Empty]
    /\ command' = [command EXCEPT ![c] = Idle]

(* Mutant: a file is not checked again as it is copied. *)
RestoreCopiesBlindly(c) ==
    /\ command[c].state = "filling"
    /\ \E f \in command[c].todo :
         IF f \in DOMAIN dirs["backup"]
         THEN /\ dirs' = [dirs EXCEPT !["restoring"] = Put(@, f, dirs["backup"][f])]
              /\ command' = [command EXCEPT ![c].todo = @ \ {f}]
         ELSE Abandon(c)
    /\ UNCHANGED <<sums, madeBy, lock, server, ghosts, bounds>>

(* copyFile makes the directory again if it has gone.                      *)
RestoreCopies(c) ==
    /\ command[c].state = "filling"
    /\ \E f \in command[c].todo :
         IF f \in DOMAIN dirs["backup"] /\ dirs["backup"][f] = sums[f]
         THEN /\ dirs' = [dirs EXCEPT !["restoring"] = Put(@, f, dirs["backup"][f])]
              /\ command' = [command EXCEPT ![c].todo = @ \ {f}]
         ELSE Abandon(c)
    /\ UNCHANGED <<sums, madeBy, lock, server, ghosts, bounds>>

(* What StorageEngine.open makes of a directory, all at once: a new one    *)
(* where there is nothing, the upgraded one otherwise.                     *)
Opened(d, build) ==
    IF d = Empty THEN [f \in {"manifest"} \cup Data |-> <<build, 0>>]
    ELSE LET steps == IF "manifest" \in DOMAIN d THEN Rewriting(d, build) ELSE {}
             Format(f) == Max({d[f][1]} \cup {v + 1 : v \in steps})
         IN  [f \in DOMAIN d \cup {"manifest"} |->
                IF f = "manifest" THEN <<build, 0>> ELSE <<Format(f), d[f][2]>>]

(* The open that proves the data recovers.  A copy that lacks files, which *)
(* takes two restores at once, may open or not.                            *)
RestoreOpens(c) ==
    LET d == dirs["restoring"]
        whole == DOMAIN d = {"manifest"} \cup Data
        refused == IF "manifest" \in DOMAIN d THEN Version(d) > command[c].build ELSE FALSE
    IN  /\ command[c].state = "filling" /\ command[c].todo = {}
        /\ \/ /\ ~ refused
              /\ dirs' = [dirs EXCEPT !["restoring"] = Opened(d, command[c].build)]
              /\ command' = [command EXCEPT ![c].state = "opened"]
           \/ /\ refused \/ ~ whole
              /\ Abandon(c)
        /\ UNCHANGED <<sums, madeBy, lock, server, ghosts, bounds>>

RestorePublishes(c) ==
    /\ command[c].state = "opened"
    /\ dirs' = Publish("restoring", "restored")
    /\ command' = [command EXCEPT ![c] = Idle]
    /\ UNCHANGED <<sums, madeBy, lock, server, ghosts, bounds>>

(* An error in a command: it removes what it has built, and lets go.       *)
CommandFails(c) ==
    /\ crashes < MaxCrashes
    /\ \/ /\ command[c].state = "copying"
          /\ dirs' = [dirs EXCEPT !["partial"] = Empty]
          /\ command' = [command EXCEPT ![c] = Idle]
          /\ lock' = "free"
       \/ Restoring(c) /\ Abandon(c) /\ UNCHANGED lock
    /\ crashes' = crashes + 1
    /\ UNCHANGED <<sums, madeBy, server, ghosts, writes, harmed>>

CommandCrashes(c) ==
    /\ command[c].state # "idle" /\ crashes < MaxCrashes
    /\ command' = [command EXCEPT ![c] = Idle]
    /\ lock' = IF lock = c THEN "free" ELSE lock
    /\ crashes' = crashes + 1
    /\ UNCHANGED <<dirs, sums, madeBy, server, ghosts, writes, harmed>>

(* A file of the backup changes or is lost, at any time. *)
Harm ==
    /\ harmed < MaxHarm
    /\ \E f \in DOMAIN dirs["backup"] :
         dirs' \in {[dirs EXCEPT !["backup"] = Put(@, f, <<@[f][1], @[f][2] + 1>>)],
                    [dirs EXCEPT !["backup"] = Restrict(@, DOMAIN @ \ {f})]}
    /\ harmed' = harmed + 1
    /\ UNCHANGED <<sums, madeBy, lock, server, command, ghosts, writes, crashes>>

(* Someone starts a server where a restore is going to put its directory.  *)
CreatedMeanwhile ==
    /\ dirs["restored"] = Empty /\ \E c \in Commands : Restoring(c)
    /\ dirs' = [dirs EXCEPT !["restored"] = Opened(Empty, Max(Tools))]
    /\ UNCHANGED <<sums, madeBy, lock, server, command, ghosts, bounds>>

-----------------------------------------------------------------------------
(* The data directory is one of the first version.                         *)
Init ==
    /\ dirs = [n \in Names |-> IF n # "data" THEN Empty
                               ELSE [f \in {"manifest"} \cup Data |-> <<1, 0>>]]
    /\ sums = Empty /\ madeBy = 0 /\ lock = "free" /\ server = Down
    /\ command = [c \in Commands |-> Idle]
    /\ takenOver = "no" /\ overlap = "no"
    /\ writes = 0 /\ crashes = 0 /\ harmed = 0

Next ==
    \/ \E b \in Builds : Start(b)
    \/ Migrate \/ Upgraded \/ Stop \/ ServerCrashes \/ Harm \/ CreatedMeanwhile
    \/ \E f \in Data : Write(f)
    \/ \E c \in Commands :
         \/ \E b \in Tools : BackupChecks(c, b) \/ RestoreBegins(c, b)
         \/ BackupLocks(c) \/ BackupCopies(c) \/ BackupPublishes(c)
         \/ RestoreCopies(c) \/ RestoreOpens(c) \/ RestorePublishes(c)
         \/ CommandFails(c) \/ CommandCrashes(c)

Spec == Init /\ [][Next]_vars

-----------------------------------------------------------------------------
(* The state has its type, and the lock is with whoever works on the data  *)
(* directory.                                                              *)
TypeOK ==
    /\ DOMAIN dirs["data"] = {"manifest"} \cup Data
    /\ Version(dirs["data"]) \in Builds \cup {1}
    /\ MigratingFrom(dirs["data"]) \in 0 .. Version(dirs["data"]) - 1
    /\ \A f \in Data : dirs["data"][f] \in Nat \X (0 .. MaxWrites)
    /\ lock \in {"free", "server"} \cup Commands
    /\ lock = "server" <=> server.state # "down"
    /\ \A c \in Commands : lock = c <=> command[c].state = "copying"

(* A build never works on files that it cannot read, half rewritten or in  *)
(* the format of a newer one ("they must not open a directory whose files  *)
(* are half rewritten", storage-engine.ts), unless a newer build has gone  *)
(* on with the upgrade of an older one: it does not mark the directory     *)
(* again.                                                                  *)
NeverMisread ==
    /\ TypeOK
    /\ server.state = "serving" /\ takenOver = "no"
       => \A f \in Data : Readable(dirs["data"][f][1], server.build)

(* The backup that appears is the data directory of that moment, no file   *)
(* of it older or newer than another.                                      *)
BackupIsAnInstant ==
    [][dirs["backup"] = Empty /\ dirs'["backup"] # Empty => dirs'["backup"] = dirs["data"]]_vars

(* A restore that puts a directory in place puts the whole backup there,   *)
(* as the data directory was, in a format that its build reads; damage to  *)
(* the backup at any time, crashes, and earlier restores do not show.  Two *)
(* restores at once are excepted: they share the directory they build in.  *)
RestoredWhole ==
    [][dirs["restored"] = Empty /\ dirs'["restored"] # Empty /\ dirs'["restoring"] # dirs["restoring"]
       => \/ overlap' = "yes" \/ takenOver' = "yes"
          \/ /\ DOMAIN dirs'["restored"] = DOMAIN sums
             /\ MigratingFrom(dirs'["restored"]) = 0
             /\ \A f \in Data : /\ dirs'["restored"][f][2] = sums[f][2]
                                /\ Readable(dirs'["restored"][f][1], Version(dirs'["restored"]))]_vars

(* No backup and no restore replaces a directory that is there already,    *)
(* although they look for it long before they put theirs in place.         *)
PublishedStays ==
    [][\A n \in {"backup", "restored"} :
         dirs[n] # Empty /\ harmed' = harmed => dirs'[n] = dirs[n]]_vars
=============================================================================
