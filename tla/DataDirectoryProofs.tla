------------------------ MODULE DataDirectoryProofs ------------------------
(***************************************************************************)
(* Proofs about DataDirectory, for any files, builds, rewriting steps and  *)
(* commands, and any number of writes, crashes and damaged files.          *)
(***************************************************************************)
EXTENDS DataDirectory, WellFoundedInduction, TLAPS

Files == {"manifest"} \cup Data

DirShape ==
    /\ DOMAIN dirs = Names
    /\ dirs["data"] \in [Files -> Nat \X Nat]
    /\ sums = Empty \/ sums \in [Files -> Nat \X Nat]

ServerShape ==
    server \in [state : {"down", "upgrading", "serving"}, build : Nat, todo : SUBSET (Nat \X Data)]

CommandShape ==
    command \in [Commands -> [state : {"idle", "checked", "copying", "filling", "opened"},
                              build : Nat, todo : SUBSET Files]]

(* The lock is with whoever works on the data directory. *)
LockShape ==
    /\ lock \in {"free", "server"} \cup Commands
    /\ lock = "server" <=> server.state # "down"
    /\ \A c \in Commands : lock = c <=> command[c].state = "copying"

(* What a backup has copied is what the data directory holds, and nothing  *)
(* else is there or to come.                                               *)
PartialShape ==
    \A c \in Commands : command[c].state = "copying" =>
        /\ dirs["partial"] \in [DOMAIN dirs["partial"] -> Nat \X Nat]
        /\ DOMAIN dirs["partial"] \cup command[c].todo = Files
        /\ \A f \in DOMAIN dirs["partial"] : dirs["partial"][f] = dirs["data"][f]

(* A server works on a directory that it has not refused, and has marked   *)
(* it if it rewrites the files.                                            *)
VersionShape ==
    /\ Version(dirs["data"]) \in Builds \cup {1}
    /\ MigratingFrom(dirs["data"]) \in 0 .. Version(dirs["data"]) - 1
    /\ server.state # "down" => server.build \in Builds /\ Version(dirs["data"]) <= server.build
    /\ server.state = "serving" =>
          Version(dirs["data"]) = server.build /\ MigratingFrom(dirs["data"]) = 0
    /\ server.state = "upgrading" =>
          /\ \A step \in server.todo : step[1] < server.build
          /\ MigratingFrom(dirs["data"]) = 0 => server.todo = {}

WritesShape ==
    /\ writes \in 0 .. MaxWrites
    /\ \A f \in Data : dirs["data"][f][2] <= writes

(* The files of d are in formats up to its version, and have been over     *)
(* every rewriting step before the one that the upgrade goes on with.      *)
Intact(d) ==
    \A f \in Data : d[f][1] <= Version(d) /\ \A v \in Rewrites : v < From(d) => v < d[f][1]

(* As long as no build has taken over an upgrade, the data directory and   *)
(* the backup are intact, and a server that upgrades has still to do what  *)
(* has not been done.                                                      *)
FormatShape ==
    takenOver = "no" =>
      /\ Intact(dirs["data"]) /\ (sums # Empty => Intact(sums))
      /\ server.state = "upgrading" =>
            /\ MigratingFrom(dirs["data"]) # 0 => Version(dirs["data"]) = server.build
            /\ \A v \in Rewriting(dirs["data"], server.build), f \in Data :
                  <<v, f>> \in server.todo \/ v < dirs["data"][f][1]

(* What an open by a build makes of the files of the backup. *)
Whole(d, build) ==
    /\ DOMAIN d = Files /\ d["manifest"] = <<build, 0>>
    /\ \A f \in Data : d[f][2] = sums[f][2] /\ Readable(d[f][1], build)

(* A restore that has the directory to itself has copied what the backup   *)
(* was, and after the open it has the whole of it.                         *)
RestoreShape ==
    /\ \A c \in Commands : Restoring(c) => sums # Empty
    /\ overlap = "no" =>
         /\ \A c, e \in Commands : Restoring(c) /\ Restoring(e) => c = e
         /\ \A c \in Commands :
              /\ command[c].state = "filling" =>
                   /\ dirs["restoring"] \in [DOMAIN dirs["restoring"] -> Nat \X Nat]
                   /\ DOMAIN dirs["restoring"] \cup command[c].todo = Files
                   /\ \A f \in DOMAIN dirs["restoring"] : dirs["restoring"][f] = sums[f]
              /\ command[c].state = "opened" /\ takenOver = "no" =>
                   Whole(dirs["restoring"], command[c].build)

GhostShape == takenOver \in {"no", "yes"} /\ overlap \in {"no", "yes"} /\ harmed \in Nat

-----------------------------------------------------------------------------
(* A nonempty set of numbers has a least element. *)
LEMMA Least ==
    ASSUME NEW S \in SUBSET Nat, S # {}
    PROVE  \E m \in S : \A n \in S : m <= n
<1> DEFINE less == OpToRel(<, Nat)
<1>1. IsWellFoundedOn(less, Nat)
  BY NatLessThanWellFounded
<1>2. PICK m \in S : \A n \in S : ~ (<<n, m>> \in less)
  <2> HIDE DEF less
  <2> QED BY <1>1, WFMin
<1>3. ASSUME NEW n \in S PROVE m <= n
  <2>1. n < m => <<n, m>> \in less
    BY DEF OpToRel
  <2>2. ~ (n < m)
    <3> HIDE DEF less
    <3> QED BY <1>2, <2>1
  <2> HIDE DEF less
  <2>3. m \in Nat /\ n \in Nat
    OBVIOUS
  <2> QED BY <2>2, <2>3
<1> HIDE DEF less
<1> QED BY <1>3

(* A bounded set of numbers has a greatest element. *)
LEMMA Greatest ==
    ASSUME NEW S \in SUBSET Nat, S # {}, NEW h \in Nat, \A n \in S : n <= h
    PROVE  \E m \in S : \A n \in S : n <= m
<1> DEFINE T == {x \in Nat : \E n \in S : x = h - n}
<1>1. PICK s \in S : TRUE
  OBVIOUS
<1>2. s \in Nat /\ s <= h
  OBVIOUS
<1>3. h - s \in T
  BY <1>2
<1>4. T \in SUBSET Nat /\ T # {}
  BY <1>3
<1>5. PICK t \in T : \A u \in T : t <= u
  <2> HIDE DEF T
  <2> QED BY <1>4, Least
<1>6. PICK m \in S : t = h - m
  OBVIOUS
<1>7. ASSUME NEW n \in S PROVE n <= m
  <2>1. n \in Nat /\ n <= h /\ m \in Nat
    OBVIOUS
  <2>2. h - n \in T
    BY <2>1
  <2> QED BY <1>5, <1>6, <2>1, <2>2
<1> QED BY <1>7

-----------------------------------------------------------------------------
(* The steps, one by one. *)
LEMMA NextCases ==
    ASSUME [Next]_vars
    PROVE  \/ \E b \in Builds : Start(b)
           \/ Migrate \/ Upgraded \/ Stop \/ ServerCrashes \/ Harm \/ CreatedMeanwhile
           \/ \E f \in Data : Write(f)
           \/ \E c \in Commands, b \in Tools : BackupChecks(c, b) \/ RestoreBegins(c, b)
           \/ \E c \in Commands : BackupLocks(c) \/ BackupCopies(c) \/ BackupPublishes(c)
           \/ \E c \in Commands : RestoreCopies(c) \/ RestoreOpens(c) \/ RestorePublishes(c)
           \/ \E c \in Commands : CommandFails(c) \/ CommandCrashes(c)
           \/ UNCHANGED vars
  BY DEF Next

(* Builds are numbered from 1. *)
LEMMA BuildsNat == Builds \subseteq Nat \ {0} /\ Tools \subseteq Nat \ {0} /\ Tools \subseteq Builds
  BY DirectoryConstants

LEMMA CommandStep ==
    ASSUME DirShape, CommandShape, [Next]_vars
    PROVE  CommandShape'
<1> USE DEF CommandShape
<1>1. CASE UNCHANGED command
  BY <1>1
<1>2. ASSUME NEW c \in Commands, NEW b \in Tools, BackupChecks(c, b) \/ RestoreBegins(c, b)
      PROVE  CommandShape'
  BY <1>2, BuildsNat DEF BackupChecks, RestoreBegins, DirShape, Empty, Files
<1>3. ASSUME NEW c \in Commands, command' = [command EXCEPT ![c] = Idle] PROVE CommandShape'
  BY <1>3 DEF Idle
<1>4. ASSUME NEW c \in Commands, BackupLocks(c) \/ BackupCopies(c) \/ BackupPublishes(c)
      PROVE  CommandShape'
  BY <1>3, <1>4 DEF BackupLocks, BackupCopies, BackupPublishes, DirShape
<1>5. ASSUME NEW c \in Commands, RestoreCopies(c) \/ RestoreOpens(c) \/ RestorePublishes(c)
      PROVE  CommandShape'
  BY <1>3, <1>5 DEF RestoreCopies, RestoreOpens, RestorePublishes, Abandon
<1>6. ASSUME NEW c \in Commands, CommandFails(c) \/ CommandCrashes(c) PROVE CommandShape'
  BY <1>3, <1>6 DEF CommandFails, CommandCrashes, Abandon
<1>7. CASE UNCHANGED vars
  BY <1>1, <1>7 DEF vars
<1> QED BY <1>1, <1>2, <1>4, <1>5, <1>6, <1>7, NextCases
       DEF Start, Migrate, Upgraded, Stop, ServerCrashes, Harm, CreatedMeanwhile, Write

LEMMA ServerStep ==
    ASSUME DirShape, ServerShape, [Next]_vars
    PROVE  ServerShape'
<1> USE DEF ServerShape
<1>1. CASE UNCHANGED server
  BY <1>1
<1>2. ASSUME NEW b \in Builds, Start(b) PROVE ServerShape'
  <2>1. Rewriting(dirs["data"], b) \subseteq Nat
    BY DirectoryConstants DEF Rewriting
  <2>2. Rewriting(dirs["data"], b) \X Data \in SUBSET (Nat \X Data)
    BY <2>1
  <2> QED BY <1>2, <2>2, BuildsNat DEF Start
<1>3. CASE Migrate \/ Upgraded
  BY <1>3 DEF Migrate, Upgraded
<1>4. CASE Stop \/ ServerCrashes
  BY <1>4 DEF Stop, ServerCrashes, Down
<1>5. CASE UNCHANGED vars
  BY <1>1, <1>5 DEF vars
<1> QED BY <1>1, <1>2, <1>3, <1>4, <1>5, NextCases
       DEF Harm, CreatedMeanwhile, Write, BackupChecks, RestoreBegins, BackupLocks, BackupCopies,
           BackupPublishes, RestoreCopies, RestoreOpens, RestorePublishes, CommandFails,
           CommandCrashes, Abandon

LEMMA LockStep ==
    ASSUME ServerShape, CommandShape, LockShape, [Next]_vars
    PROVE  LockShape'
<1> USE DEF LockShape, ServerShape, CommandShape
<1>0. "free" \notin Commands /\ "server" \notin Commands
  BY DirectoryConstants
<1>1. CASE UNCHANGED <<lock, command, server>>
  BY <1>1
<1>2. ASSUME NEW b \in Builds, Start(b) PROVE LockShape'
  BY <1>0, <1>2 DEF Start
<1>3. CASE Migrate \/ Upgraded
  BY <1>3 DEF Migrate, Upgraded
<1>4. CASE Stop \/ ServerCrashes
  BY <1>0, <1>4 DEF Stop, ServerCrashes, Down
<1>5. ASSUME NEW c \in Commands, NEW b \in Tools, BackupChecks(c, b) \/ RestoreBegins(c, b)
      PROVE  LockShape'
  BY <1>5 DEF BackupChecks, RestoreBegins
<1>6. ASSUME NEW c \in Commands, BackupLocks(c) PROVE LockShape'
  BY <1>0, <1>6 DEF BackupLocks, Idle
<1>7. ASSUME NEW c \in Commands, BackupCopies(c) \/ BackupPublishes(c) PROVE LockShape'
  BY <1>0, <1>7 DEF BackupCopies, BackupPublishes, Idle
<1>8. ASSUME NEW c \in Commands, RestoreCopies(c) \/ RestoreOpens(c) \/ RestorePublishes(c)
      PROVE  LockShape'
  BY <1>8 DEF RestoreCopies, RestoreOpens, RestorePublishes, Abandon, Idle
<1>9. ASSUME NEW c \in Commands, CommandFails(c) \/ CommandCrashes(c) PROVE LockShape'
  BY <1>0, <1>9 DEF CommandFails, CommandCrashes, Abandon, Restoring, Idle
<1>10. CASE UNCHANGED vars
  BY <1>1, <1>10 DEF vars
<1> QED BY <1>1, <1>2, <1>3, <1>4, <1>5, <1>6, <1>7, <1>8, <1>9, <1>10, NextCases
       DEF Harm, CreatedMeanwhile, Write

(* Only the server changes the files of the data directory. *)
LEMMA DataChange ==
    ASSUME DirShape, [Next]_vars
    PROVE  \/ dirs'["data"] = dirs["data"]
           \/ (\E b \in Builds : Start(b)) \/ Migrate \/ Upgraded \/ \E f \in Data : Write(f)
<1> USE DEF DirShape, Names
<1>1. CASE UNCHANGED dirs
  BY <1>1
<1>2. ASSUME NEW c \in Commands, BackupLocks(c) \/ BackupCopies(c) \/ BackupPublishes(c)
      PROVE  dirs'["data"] = dirs["data"]
  BY <1>2 DEF BackupLocks, BackupCopies, BackupPublishes, Publish
<1>3. ASSUME NEW c \in Commands, NEW b, RestoreBegins(c, b) PROVE dirs'["data"] = dirs["data"]
  BY <1>3 DEF RestoreBegins
<1>4. ASSUME NEW c \in Commands, RestoreCopies(c) \/ RestoreOpens(c) \/ RestorePublishes(c)
      PROVE  dirs'["data"] = dirs["data"]
  BY <1>4 DEF RestoreCopies, RestoreOpens, RestorePublishes, Publish, Abandon
<1>5. ASSUME NEW c \in Commands, CommandFails(c) \/ CommandCrashes(c)
      PROVE  dirs'["data"] = dirs["data"]
  BY <1>5 DEF CommandFails, CommandCrashes, Abandon
<1>6. CASE Harm \/ CreatedMeanwhile
  BY <1>6 DEF Harm, CreatedMeanwhile
<1>7. CASE UNCHANGED vars
  BY <1>1, <1>7 DEF vars
<1> QED BY <1>1, <1>2, <1>3, <1>4, <1>5, <1>6, <1>7, NextCases
       DEF Stop, ServerCrashes, BackupChecks

(* A backup that has nothing left to copy is the data directory. *)
LEMMA PartialIsData ==
    ASSUME DirShape, PartialShape, NEW c \in Commands, command[c].state = "copying",
           command[c].todo = {}
    PROVE  dirs["partial"] = dirs["data"]
<1>1. DOMAIN dirs["partial"] = Files
  BY DEF PartialShape
<1>2. dirs["partial"] \in [Files -> Nat \X Nat] /\ \A f \in Files : dirs["partial"][f] = dirs["data"][f]
  BY <1>1 DEF PartialShape
<1> QED BY <1>2 DEF DirShape

LEMMA PartialStep ==
    ASSUME DirShape, ServerShape, CommandShape, LockShape, PartialShape, [Next]_vars
    PROVE  PartialShape'
<1>0. "free" \notin Commands /\ "server" \notin Commands
  BY DirectoryConstants
<1>1. ASSUME dirs'["data"] = dirs["data"], dirs'["partial"] = dirs["partial"],
             \A c \in Commands : command'[c].state = "copying" =>
                 command[c].state = "copying" /\ command'[c].todo = command[c].todo
      PROVE  PartialShape'
  BY <1>1 DEF PartialShape
<1>2. ASSUME \A c \in Commands : command'[c].state # "copying" PROVE PartialShape'
  BY <1>2 DEF PartialShape
<1>3. CASE (\E b \in Builds : Start(b)) \/ Migrate \/ Upgraded \/ \E f \in Data : Write(f)
  <2>1. lock \in {"free", "server"} /\ command' = command
    BY <1>3 DEF Start, Migrate, Upgraded, Write, LockShape, ServerShape
  <2> QED BY <1>0, <1>2, <2>1 DEF LockShape
<1>4. CASE Stop \/ ServerCrashes \/ Harm \/ CreatedMeanwhile
  BY <1>1, <1>4 DEF Stop, ServerCrashes, Harm, CreatedMeanwhile, DirShape, Names
<1>5. ASSUME NEW c \in Commands, NEW b \in Tools, BackupChecks(c, b) \/ RestoreBegins(c, b)
      PROVE  PartialShape'
  <2>1. dirs'["data"] = dirs["data"] /\ dirs'["partial"] = dirs["partial"]
    BY <1>5 DEF BackupChecks, RestoreBegins, DirShape, Names
  <2>2. \A e \in Commands : command'[e].state = "copying" =>
            command[e].state = "copying" /\ command'[e].todo = command[e].todo
    BY <1>5 DEF BackupChecks, RestoreBegins, CommandShape
  <2> QED BY <1>1, <2>1, <2>2
<1>6. ASSUME NEW c \in Commands, BackupLocks(c) PROVE PartialShape'
  <2>1. CASE lock = "free"
    <3>1. \A e \in Commands : command[e].state # "copying"
      BY <1>0, <2>1 DEF LockShape
    <3>2. dirs'["data"] = dirs["data"] /\ dirs'["partial"] = Empty
      BY <1>6, <2>1 DEF BackupLocks, DirShape, Names
    <3>3. command'[c].todo = Files /\ \A e \in Commands \ {c} : command'[e] = command[e]
      BY <1>6, <2>1 DEF BackupLocks, DirShape, CommandShape
    <3>4. DOMAIN dirs'["partial"] = {} /\ dirs'["partial"] \in [{} -> Nat \X Nat]
      BY <3>2 DEF Empty
    <3> QED BY <3>1, <3>3, <3>4 DEF PartialShape
  <2>2. CASE lock # "free"
    <3>1. dirs' = dirs
      BY <1>6, <2>2 DEF BackupLocks
    <3>2. \A e \in Commands : command'[e].state = "copying" =>
              command[e].state = "copying" /\ command'[e].todo = command[e].todo
      BY <1>6, <2>2 DEF BackupLocks, CommandShape, Idle
    <3> QED BY <1>1, <3>1, <3>2
  <2> QED BY <2>1, <2>2
<1>7. ASSUME NEW c \in Commands, BackupCopies(c) PROVE PartialShape'
  <2>1. PICK f \in command[c].todo :
            /\ dirs' = [dirs EXCEPT !["partial"] = Put(@, f, dirs["data"][f])]
            /\ command' = [command EXCEPT ![c].todo = @ \ {f}]
    BY <1>7 DEF BackupCopies
  <2>2. command[c].state = "copying" /\ f \in Files
    BY <1>7 DEF BackupCopies, CommandShape
  <2>3. lock = c /\ \A e \in Commands \ {c} : command'[e] = command[e] /\ command[e].state # "copying"
    BY <2>1, <2>2 DEF LockShape, CommandShape
  <2>4. dirs'["data"] = dirs["data"] /\ dirs'["partial"] = Put(dirs["partial"], f, dirs["data"][f])
    BY <2>1 DEF DirShape, Names
  <2>5. command'[c].todo = command[c].todo \ {f}
    BY <2>1 DEF CommandShape
  <2>6. /\ dirs["partial"] \in [DOMAIN dirs["partial"] -> Nat \X Nat]
        /\ DOMAIN dirs["partial"] \cup command[c].todo = Files
        /\ \A g \in DOMAIN dirs["partial"] : dirs["partial"][g] = dirs["data"][g]
    BY <2>2 DEF PartialShape
  <2>7. dirs["data"][f] \in Nat \X Nat
    BY <2>2 DEF DirShape
  <2>8. /\ DOMAIN dirs'["partial"] = DOMAIN dirs["partial"] \cup {f}
        /\ dirs'["partial"] \in [DOMAIN dirs["partial"] \cup {f} -> Nat \X Nat]
        /\ \A g \in DOMAIN dirs'["partial"] : dirs'["partial"][g] = dirs["data"][g]
    BY <2>4, <2>6, <2>7 DEF Put
  <2>9. DOMAIN dirs'["partial"] \cup command'[c].todo = Files
    BY <2>2, <2>5, <2>6, <2>8
  <2> QED BY <2>3, <2>4, <2>8, <2>9 DEF PartialShape
<1>8. ASSUME NEW c \in Commands, BackupPublishes(c) PROVE PartialShape'
  <2>1. lock = c /\ command' = [command EXCEPT ![c] = Idle]
    BY <1>8 DEF BackupPublishes, LockShape
  <2>2. \A e \in Commands : command'[e].state # "copying"
    BY <2>1 DEF LockShape, CommandShape, Idle
  <2> QED BY <1>2, <2>2
<1>9. ASSUME NEW c \in Commands, RestoreCopies(c) \/ RestoreOpens(c) \/ RestorePublishes(c)
      PROVE  PartialShape'
  <2>1. dirs'["data"] = dirs["data"] /\ dirs'["partial"] = dirs["partial"]
    BY <1>9 DEF RestoreCopies, RestoreOpens, RestorePublishes, Publish, Abandon, DirShape, Names
  <2>2. \A e \in Commands : command'[e].state = "copying" =>
            command[e].state = "copying" /\ command'[e].todo = command[e].todo
    BY <1>9 DEF RestoreCopies, RestoreOpens, RestorePublishes, Abandon, CommandShape, Idle
  <2> QED BY <1>1, <2>1, <2>2
<1>10. ASSUME NEW c \in Commands, CommandFails(c) \/ CommandCrashes(c) PROVE PartialShape'
  <2>1. command' = [command EXCEPT ![c] = Idle]
    BY <1>10 DEF CommandFails, CommandCrashes, Abandon
  <2>2. CASE command[c].state = "copying"
    <3>1. \A e \in Commands : command'[e].state # "copying"
      BY <2>1, <2>2 DEF LockShape, CommandShape, Idle
    <3> QED BY <1>2, <3>1
  <2>3. CASE command[c].state # "copying"
    <3>1. dirs'["data"] = dirs["data"] /\ dirs'["partial"] = dirs["partial"]
      BY <1>10, <2>3 DEF CommandFails, CommandCrashes, Abandon, DirShape, Names
    <3>2. \A e \in Commands : command'[e].state = "copying" =>
              command[e].state = "copying" /\ command'[e].todo = command[e].todo
      BY <2>1 DEF CommandShape, Idle
    <3> QED BY <1>1, <3>1, <3>2
  <2> QED BY <2>2, <2>3
<1>11. CASE UNCHANGED vars
  BY <1>1, <1>11 DEF vars
<1> QED BY <1>3, <1>4, <1>5, <1>6, <1>7, <1>8, <1>9, <1>10, <1>11, NextCases

(* What each step of the server makes of the data directory. *)
LEMMA StartData ==
    ASSUME DirShape, NEW b \in Builds, Start(b)
    PROVE  LET d == dirs["data"]
               e == dirs'["data"]
           IN  /\ Version(d) <= b /\ Version(d) \in Nat /\ MigratingFrom(d) \in Nat
               /\ server'.state \in {"serving", "upgrading"} /\ server'.build = b
               /\ server'.todo = Rewriting(d, b) \X Data
               /\ server'.state = "serving" => Version(d) = b /\ MigratingFrom(d) = 0
               /\ e \in [Files -> Nat \X Nat] /\ \A f \in Data : e[f] = d[f]
               /\ IF Rewriting(d, b) # {} /\ MigratingFrom(d) = 0
                  THEN Version(e) = b /\ MigratingFrom(e) = Version(d)
                  ELSE e = d
               /\ takenOver' = IF MigratingFrom(d) # 0 /\ Version(d) < b THEN "yes" ELSE takenOver
<1> DEFINE d == dirs["data"]
           e == dirs'["data"]
<1>1. d \in [Files -> Nat \X Nat] /\ DOMAIN dirs = Names
  BY DEF DirShape
<1>2. Version(d) \in Nat /\ MigratingFrom(d) \in Nat
  BY <1>1 DEF Version, MigratingFrom, ManifestOf, Files
<1>3. /\ Version(d) <= b /\ server'.state \in {"serving", "upgrading"} /\ server'.build = b
      /\ server'.todo = Rewriting(d, b) \X Data
      /\ server'.state = "serving" => Version(d) = b /\ MigratingFrom(d) = 0
      /\ takenOver' = IF MigratingFrom(d) # 0 /\ Version(d) < b THEN "yes" ELSE takenOver
  BY DEF Start, From
<1>4. CASE Rewriting(d, b) # {} /\ MigratingFrom(d) = 0
  <2>1. e = Put(d, "manifest", <<b, Version(d)>>)
    BY <1>1, <1>4 DEF Start, From, Names
  <2>2. e["manifest"] = <<b, Version(d)>> /\ \A f \in Data : e[f] = d[f]
    BY <1>1, <2>1, DirectoryConstants DEF Put, Files
  <2>3. <<b, Version(d)>> \in Nat \X Nat
    BY <1>2, BuildsNat
  <2>4. e \in [Files -> Nat \X Nat]
    BY <1>1, <2>1, <2>3 DEF Put, Files
  <2> QED BY <1>2, <1>3, <1>4, <2>2, <2>4 DEF Version, MigratingFrom, ManifestOf
<1>5. CASE ~ (Rewriting(d, b) # {} /\ MigratingFrom(d) = 0)
  <2>1. dirs' = dirs
    BY <1>5 DEF Start
  <2> QED BY <1>1, <1>2, <1>3, <1>5, <2>1
<1> QED BY <1>4, <1>5

LEMMA MigrateData ==
    ASSUME DirShape, ServerShape, Migrate
    PROVE  LET d == dirs["data"]
               e == dirs'["data"]
           IN  /\ server.state = "upgrading" /\ takenOver' = takenOver
               /\ e \in [Files -> Nat \X Nat]
               /\ Version(e) = Version(d) /\ MigratingFrom(e) = MigratingFrom(d)
               /\ \E step \in server.todo :
                     /\ step \in Nat \X Data
                     /\ server' = [server EXCEPT !.todo = @ \ {step}]
                     /\ e[step[2]] = Migrated(d[step[2]], step[1])
                     /\ \A f \in Data \ {step[2]} : e[f] = d[f]
<1> DEFINE d == dirs["data"]
           e == dirs'["data"]
<1>1. d \in [Files -> Nat \X Nat] /\ DOMAIN dirs = Names
  BY DEF DirShape
<1>2. PICK step \in server.todo :
          /\ dirs' = [dirs EXCEPT !["data"][step[2]] = Migrated(@, step[1])]
          /\ server' = [server EXCEPT !.todo = @ \ {step}]
  BY DEF Migrate
<1>3. step \in Nat \X Data
  BY DEF ServerShape
<1>4. e = [d EXCEPT ![step[2]] = Migrated(@, step[1])]
  BY <1>1, <1>2 DEF Names
<1>5. step[2] \in Files /\ step[2] # "manifest" /\ step[1] \in Nat
  BY <1>3, DirectoryConstants DEF Files
<1>6. d[step[2]] \in Nat \X Nat
  BY <1>1, <1>5
<1>7. Migrated(d[step[2]], step[1]) \in Nat \X Nat
  BY <1>5, <1>6 DEF Migrated
<1>8. /\ e \in [Files -> Nat \X Nat] /\ e["manifest"] = d["manifest"]
      /\ e[step[2]] = Migrated(d[step[2]], step[1])
      /\ \A f \in Data \ {step[2]} : e[f] = d[f]
  BY <1>1, <1>4, <1>5, <1>7 DEF Files
<1>9. server.state = "upgrading" /\ takenOver' = takenOver
  BY DEF Migrate, ghosts
<1>10. Version(e) = Version(d) /\ MigratingFrom(e) = MigratingFrom(d)
  BY <1>8 DEF Version, MigratingFrom, ManifestOf
<1> QED BY <1>2, <1>3, <1>8, <1>9, <1>10

LEMMA UpgradedData ==
    ASSUME DirShape, ServerShape, Upgraded
    PROVE  LET d == dirs["data"]
               e == dirs'["data"]
           IN  /\ server.state = "upgrading" /\ server.todo = {} /\ takenOver' = takenOver
               /\ server'.state = "serving" /\ server'.build = server.build
               /\ e \in [Files -> Nat \X Nat] /\ \A f \in Data : e[f] = d[f]
               /\ Version(e) = server.build /\ MigratingFrom(e) = 0
<1> DEFINE d == dirs["data"]
           e == dirs'["data"]
<1>1. d \in [Files -> Nat \X Nat] /\ DOMAIN dirs = Names
  BY DEF DirShape
<1>2. e = Put(d, "manifest", <<server.build, 0>>)
  BY <1>1 DEF Upgraded, Names
<1>3. <<server.build, 0>> \in Nat \X Nat
  BY DEF ServerShape
<1>4. /\ e \in [Files -> Nat \X Nat] /\ e["manifest"] = <<server.build, 0>>
      /\ \A f \in Data : e[f] = d[f]
  BY <1>1, <1>2, <1>3, DirectoryConstants DEF Put, Files
<1>5. Version(e) = server.build /\ MigratingFrom(e) = 0
  BY <1>4 DEF Version, MigratingFrom, ManifestOf
<1>6. /\ server.state = "upgrading" /\ server.todo = {} /\ takenOver' = takenOver
      /\ server' = [server EXCEPT !.state = "serving"]
  BY DEF Upgraded, ghosts
<1>7. server'.state = "serving" /\ server'.build = server.build
  BY <1>6 DEF ServerShape
<1> QED BY <1>4, <1>5, <1>6, <1>7

LEMMA WriteData ==
    ASSUME DirShape, ServerShape, NEW f \in Data, Write(f)
    PROVE  LET d == dirs["data"]
               e == dirs'["data"]
           IN  /\ server.state = "serving" /\ server' = server /\ takenOver' = takenOver
               /\ writes < MaxWrites /\ writes' = writes + 1
               /\ e \in [Files -> Nat \X Nat] /\ e[f] = <<server.build, d[f][2] + 1>>
               /\ \A g \in Data \ {f} : e[g] = d[g]
               /\ Version(e) = Version(d) /\ MigratingFrom(e) = MigratingFrom(d)
<1> DEFINE d == dirs["data"]
           e == dirs'["data"]
<1>1. d \in [Files -> Nat \X Nat] /\ DOMAIN dirs = Names
  BY DEF DirShape
<1>2. e = Put(d, f, <<server.build, d[f][2] + 1>>)
  BY <1>1 DEF Write, Names
<1>3. d[f] \in Nat \X Nat
  BY <1>1 DEF Files
<1>4. <<server.build, d[f][2] + 1>> \in Nat \X Nat
  BY <1>3 DEF ServerShape
<1>5. f # "manifest"
  BY DirectoryConstants
<1>6. /\ e \in [Files -> Nat \X Nat] /\ e["manifest"] = d["manifest"]
      /\ e[f] = <<server.build, d[f][2] + 1>> /\ \A g \in Data \ {f} : e[g] = d[g]
  BY <1>1, <1>2, <1>4, <1>5 DEF Put, Files
<1>7. Version(e) = Version(d) /\ MigratingFrom(e) = MigratingFrom(d)
  BY <1>6 DEF Version, MigratingFrom, ManifestOf
<1>8. /\ server.state = "serving" /\ server' = server /\ takenOver' = takenOver
      /\ writes < MaxWrites /\ writes' = writes + 1
  BY DEF Write, ghosts
<1> QED BY <1>6, <1>7, <1>8

(* The backup appears as the data directory is, and its manifest stays.    *)
LEMMA SumsChange ==
    ASSUME DirShape, PartialShape, [Next]_vars
    PROVE  \/ sums' = sums
           \/ sums = Empty /\ sums' = dirs["data"] /\ dirs'["data"] = dirs["data"] /\ UNCHANGED <<server, ghosts>>
<1>1. ASSUME NEW c \in Commands, BackupPublishes(c)
      PROVE  \/ sums' = sums
             \/ sums = Empty /\ sums' = dirs["data"] /\ dirs'["data"] = dirs["data"] /\ UNCHANGED <<server, ghosts>>
  <2>1. dirs["partial"] = dirs["data"]
    BY <1>1, PartialIsData DEF BackupPublishes
  <2>2. dirs'["data"] = dirs["data"]
    BY <1>1 DEF BackupPublishes, Publish, DirShape, Names
  <2> QED BY <1>1, <2>1, <2>2 DEF BackupPublishes, Vacant
<1> QED BY <1>1, NextCases
       DEF Start, Migrate, Upgraded, Stop, ServerCrashes, Harm, CreatedMeanwhile, Write, BackupChecks,
           RestoreBegins, BackupLocks, BackupCopies, RestoreCopies, RestoreOpens, RestorePublishes,
           CommandFails, CommandCrashes, vars

LEMMA DirStep ==
    ASSUME DirShape, ServerShape, PartialShape, [Next]_vars
    PROVE  DirShape'
<1>1. DOMAIN dirs' = Names
  <2>1. ASSUME NEW c \in Commands, BackupLocks(c) \/ BackupCopies(c) \/ BackupPublishes(c)
        PROVE  DOMAIN dirs' = DOMAIN dirs
    BY <2>1 DEF BackupLocks, BackupCopies, BackupPublishes, Publish
  <2>2. ASSUME NEW c \in Commands, RestoreCopies(c) \/ RestoreOpens(c) \/ RestorePublishes(c)
        PROVE  DOMAIN dirs' = DOMAIN dirs
    BY <2>2 DEF RestoreCopies, RestoreOpens, RestorePublishes, Publish, Abandon
  <2>3. ASSUME NEW c \in Commands, CommandFails(c) \/ CommandCrashes(c)
        PROVE  DOMAIN dirs' = DOMAIN dirs
    BY <2>3 DEF CommandFails, CommandCrashes, Abandon
  <2>4. ASSUME NEW c \in Commands, NEW b, BackupChecks(c, b) \/ RestoreBegins(c, b)
        PROVE  DOMAIN dirs' = DOMAIN dirs
    BY <2>4 DEF BackupChecks, RestoreBegins
  <2>5. CASE (\E b \in Builds : Start(b)) \/ Migrate \/ Upgraded \/ \E f \in Data : Write(f)
    BY <2>5 DEF Start, Migrate, Upgraded, Write, DirShape
  <2>6. CASE Stop \/ ServerCrashes \/ Harm \/ CreatedMeanwhile \/ UNCHANGED vars
    BY <2>6 DEF Stop, ServerCrashes, Harm, CreatedMeanwhile, vars, DirShape
  <2> QED BY <2>1, <2>2, <2>3, <2>4, <2>5, <2>6, NextCases DEF DirShape
<1>2. dirs'["data"] \in [Files -> Nat \X Nat]
  BY DataChange, StartData, MigrateData, UpgradedData, WriteData DEF DirShape
<1>3. sums' = Empty \/ sums' \in [Files -> Nat \X Nat]
  BY SumsChange DEF DirShape
<1> QED BY <1>1, <1>2, <1>3 DEF DirShape

(* A step that leaves the data directory alone leaves its server or ends   *)
(* it.                                                                     *)
LEMMA ServerChange ==
    ASSUME [Next]_vars
    PROVE  \/ server' = server \/ server'.state = "down"
           \/ (\E b \in Builds : Start(b)) \/ Migrate \/ Upgraded
<1>1. CASE Stop \/ ServerCrashes
  BY <1>1 DEF Stop, ServerCrashes, Down
<1>2. CASE UNCHANGED vars
  BY <1>2 DEF vars
<1> QED BY <1>1, <1>2, NextCases
       DEF Harm, CreatedMeanwhile, Write, BackupChecks, RestoreBegins, BackupLocks, BackupCopies,
           BackupPublishes, RestoreCopies, RestoreOpens, RestorePublishes, CommandFails, CommandCrashes

LEMMA VersionStep ==
    ASSUME DirShape, ServerShape, PartialShape, VersionShape, [Next]_vars
    PROVE  VersionShape'
<1> DEFINE d == dirs["data"]
           e == dirs'["data"]
<1>0. d \in [Files -> Nat \X Nat] /\ Version(d) \in Nat \ {0} /\ MigratingFrom(d) \in Nat
  BY BuildsNat DEF VersionShape, DirShape, Version, MigratingFrom, ManifestOf, Files
<1>1. ASSUME NEW b \in Builds, Start(b) PROVE VersionShape'
  <2>0. b \in Nat \ {0}
    BY BuildsNat
  <2>1. /\ Version(d) <= b /\ server'.state \in {"serving", "upgrading"} /\ server'.build = b
        /\ server'.todo = Rewriting(d, b) \X Data
        /\ server'.state = "serving" => Version(d) = b /\ MigratingFrom(d) = 0
    BY <1>1, StartData
  <2>2. \A v \in Rewriting(d, b) : v \in Nat /\ v < b /\ (MigratingFrom(d) = 0 => Version(d) <= v)
    BY DirectoryConstants DEF Rewriting, From
  <2>3. \A step \in server'.todo : step[1] < b
    BY <2>1, <2>2
  <2>4. CASE Rewriting(d, b) # {} /\ MigratingFrom(d) = 0
    <3>1. Version(e) = b /\ MigratingFrom(e) = Version(d)
      BY <1>1, <2>4, StartData
    <3>2. Version(d) < b
      BY <1>0, <2>0, <2>2, <2>4
    <3> QED BY <1>0, <2>0, <2>1, <2>3, <3>1, <3>2 DEF VersionShape
  <2>5. CASE ~ (Rewriting(d, b) # {} /\ MigratingFrom(d) = 0)
    <3>1. e = d
      BY <1>1, <2>5, StartData
    <3>2. MigratingFrom(d) = 0 => server'.todo = {}
      BY <2>1, <2>5
    <3> QED BY <1>0, <2>1, <2>3, <3>1, <3>2 DEF VersionShape
  <2> QED BY <2>4, <2>5
<1>2. CASE Migrate
  <2>1. /\ server.state = "upgrading" /\ Version(e) = Version(d) /\ MigratingFrom(e) = MigratingFrom(d)
        /\ \E step : server' = [server EXCEPT !.todo = @ \ {step}]
    BY <1>2, MigrateData
  <2>2. server'.state = server.state /\ server'.build = server.build /\ server'.todo \subseteq server.todo
    BY <2>1 DEF ServerShape
  <2> QED BY <2>1, <2>2 DEF VersionShape
<1>3. CASE Upgraded
  <2>1. /\ server.state = "upgrading" /\ server'.state = "serving" /\ server'.build = server.build
        /\ Version(e) = server.build /\ MigratingFrom(e) = 0
    BY <1>3, UpgradedData
  <2>2. server.build \in Builds /\ server.build \in Nat \ {0}
    BY <2>1, BuildsNat DEF VersionShape
  <2> QED BY <2>1, <2>2 DEF VersionShape
<1>4. ASSUME NEW f \in Data, Write(f) PROVE VersionShape'
  BY <1>4, WriteData DEF VersionShape
<1>5. CASE e = d /\ (server' = server \/ server'.state = "down")
  BY <1>5 DEF VersionShape
<1> QED BY <1>1, <1>2, <1>3, <1>4, <1>5, DataChange, ServerChange

LEMMA WritesStep ==
    ASSUME DirShape, ServerShape, WritesShape, [Next]_vars
    PROVE  WritesShape'
<1> DEFINE d == dirs["data"]
           e == dirs'["data"]
<1>0. MaxWrites \in Nat /\ writes \in Nat /\ \A f \in Data : d[f][1] \in Nat /\ d[f][2] \in Nat
  BY DirectoryConstants DEF WritesShape, DirShape, Files
<1>1. ASSUME NEW f \in Data, Write(f) PROVE WritesShape'
  <2>1. writes < MaxWrites /\ writes' = writes + 1 /\ e[f] = <<server.build, d[f][2] + 1>>
    BY <1>1, WriteData
  <2>2. \A g \in Data \ {f} : e[g] = d[g]
    BY <1>1, WriteData
  <2>3. \A g \in Data : e[g][2] <= writes + 1
    BY <1>0, <2>1, <2>2 DEF WritesShape
  <2> QED BY <1>0, <2>1, <2>3 DEF WritesShape
<1>2. ASSUME writes' = writes, \A f \in Data : e[f][2] = d[f][2] PROVE WritesShape'
  BY <1>2 DEF WritesShape
<1>3. writes' = writes \/ \E f \in Data : Write(f)
  BY NextCases
  DEF Start, Migrate, Upgraded, Stop, ServerCrashes, Harm, CreatedMeanwhile, BackupChecks,
      RestoreBegins, BackupLocks, BackupCopies, BackupPublishes, RestoreCopies, RestoreOpens,
      RestorePublishes, CommandFails, CommandCrashes, vars, bounds
<1>4. CASE Migrate
  <2>1. PICK step \in Nat \X Data :
            e[step[2]] = Migrated(d[step[2]], step[1]) /\ \A f \in Data \ {step[2]} : e[f] = d[f]
    BY <1>4, MigrateData
  <2>2. e[step[2]][2] = d[step[2]][2]
    BY <2>1 DEF Migrated
  <2> QED BY <1>1, <1>2, <1>3, <2>1, <2>2
<1>5. CASE (\E b \in Builds : Start(b)) \/ Upgraded \/ e = d
  BY <1>1, <1>2, <1>3, <1>5, StartData, UpgradedData
<1> QED BY <1>1, <1>4, <1>5, DataChange

(* Nothing but the start of a build makes an upgrade taken over. *)
LEMMA TakenOverChange ==
    ASSUME [Next]_vars
    PROVE  takenOver' = takenOver \/ \E b \in Builds : Start(b)
<1>1. CASE UNCHANGED vars
  BY <1>1 DEF vars
<1> QED BY <1>1, NextCases
       DEF Migrate, Upgraded, Stop, ServerCrashes, Harm, CreatedMeanwhile, Write, BackupChecks,
           RestoreBegins, BackupLocks, BackupCopies, BackupPublishes, RestoreCopies, RestoreOpens,
           RestorePublishes, CommandFails, CommandCrashes, ghosts

(* Each of these steps leaves an intact directory. *)
LEMMA StartIntact ==
    ASSUME DirShape, VersionShape, FormatShape, NEW b \in Builds, Start(b), takenOver' = "no"
    PROVE  /\ takenOver = "no" /\ Intact(dirs'["data"])
           /\ MigratingFrom(dirs'["data"]) # 0 => Version(dirs'["data"]) = b
           /\ \A v \in Rewriting(dirs'["data"], b), f \in Data : <<v, f>> \in server'.todo
<1> DEFINE d == dirs["data"]
           e == dirs'["data"]
<1>0. /\ b \in Nat \ {0} /\ Version(d) \in Nat \ {0} /\ MigratingFrom(d) \in Nat /\ Version(d) <= b
      /\ Rewrites \subseteq Nat /\ \A f \in Data : d[f][1] \in Nat
  BY BuildsNat, StartData, DirectoryConstants DEF VersionShape, DirShape, Files
<1>1. takenOver = "no" /\ ~ (MigratingFrom(d) # 0 /\ Version(d) < b)
  BY StartData
<1>2. Intact(d)
  BY <1>1 DEF FormatShape
<1>3. server'.todo = Rewriting(d, b) \X Data
  BY StartData
<1>4. CASE Rewriting(d, b) # {} /\ MigratingFrom(d) = 0
  <2>1. Version(e) = b /\ MigratingFrom(e) = Version(d) /\ \A f \in Data : e[f] = d[f]
    BY <1>4, StartData
  <2>2. From(e) = Version(d) /\ From(d) = Version(d)
    BY <1>0, <1>4, <2>1 DEF From
  <2>3. Intact(e)
    BY <1>0, <1>2, <2>1, <2>2 DEF Intact
  <2>4. Rewriting(e, b) = Rewriting(d, b)
    BY <2>2 DEF Rewriting
  <2> QED BY <1>1, <1>3, <2>1, <2>3, <2>4
<1>5. CASE ~ (Rewriting(d, b) # {} /\ MigratingFrom(d) = 0)
  <2>1. e = d
    BY <1>5, StartData
  <2> QED BY <1>0, <1>1, <1>2, <1>3, <2>1
<1> QED BY <1>4, <1>5

LEMMA MigrateIntact ==
    ASSUME DirShape, ServerShape, VersionShape, FormatShape, Migrate, takenOver = "no"
    PROVE  FormatShape'
<1> DEFINE d == dirs["data"]
           e == dirs'["data"]
<1>1. PICK step \in server.todo :
          /\ step \in Nat \X Data
          /\ server' = [server EXCEPT !.todo = @ \ {step}]
          /\ e[step[2]] = Migrated(d[step[2]], step[1])
          /\ \A f \in Data \ {step[2]} : e[f] = d[f]
  BY MigrateData
<1>2. server.state = "upgrading" /\ Version(e) = Version(d) /\ MigratingFrom(e) = MigratingFrom(d)
  BY MigrateData
<1>3. /\ step[1] \in Nat /\ step[2] \in Data /\ Version(d) \in Nat /\ Rewrites \subseteq Nat
      /\ \A f \in Data : d[f][1] \in Nat
  BY <1>1, BuildsNat, DirectoryConstants DEF VersionShape, DirShape, Files
<1>4. step[1] < server.build /\ MigratingFrom(d) # 0 /\ Version(d) = server.build
  BY <1>2 DEF VersionShape, FormatShape
<1>5. e[step[2]][1] = IF d[step[2]][1] <= step[1] THEN step[1] + 1 ELSE d[step[2]][1]
  BY <1>1 DEF Migrated
<1>6. \A f \in Data : e[f][1] \in Nat /\ d[f][1] <= e[f][1]
  BY <1>1, <1>3, <1>4, <1>5
<1>7. step[1] < e[step[2]][1]
  BY <1>3, <1>5
<1>8. Intact(d)
  BY DEF FormatShape
<1>9. From(e) = From(d)
  BY <1>2 DEF From
<1>10. \A f \in Data : e[f][1] <= Version(e)
  BY <1>1, <1>2, <1>3, <1>4, <1>5, <1>8 DEF Intact
<1>11. From(d) \in Nat
  BY DEF VersionShape, From, DirShape, Version, MigratingFrom, ManifestOf, Files
<1>12. \A f \in Data, v \in Rewrites : v < From(e) => v < e[f][1]
  BY <1>3, <1>6, <1>8, <1>9, <1>11 DEF Intact
<1>13. Intact(e)
  BY <1>10, <1>12 DEF Intact
<1>14. server'.state = "upgrading" /\ server'.build = server.build /\ server'.todo = server.todo \ {step}
  BY <1>1, <1>2 DEF ServerShape
<1>15. \A v \in Rewriting(e, server.build), f \in Data : <<v, f>> \in server'.todo \/ v < e[f][1]
  <2> SUFFICES ASSUME NEW v \in Rewriting(e, server.build), NEW f \in Data, <<v, f>> \notin server'.todo
               PROVE  v < e[f][1]
    OBVIOUS
  <2>1. v \in Nat /\ v \in Rewriting(d, server.build)
    BY <1>3, <1>9 DEF Rewriting
  <2>2. <<v, f>> \in server.todo \/ v < d[f][1]
    BY <1>2, <2>1 DEF FormatShape
  <2>3. CASE v < d[f][1]
    BY <1>3, <1>6, <2>1, <2>3
  <2>4. CASE <<v, f>> = step
    BY <1>7, <2>4
  <2> QED BY <1>14, <2>2, <2>3, <2>4
<1>16. sums' = sums
  BY DEF Migrate
<1> QED BY <1>2, <1>4, <1>13, <1>14, <1>15, <1>16 DEF FormatShape

LEMMA UpgradedIntact ==
    ASSUME DirShape, ServerShape, VersionShape, FormatShape, Upgraded, takenOver = "no"
    PROVE  Intact(dirs'["data"])
<1> DEFINE d == dirs["data"]
           e == dirs'["data"]
<1>1. /\ server.state = "upgrading" /\ server.todo = {}
      /\ Version(e) = server.build /\ MigratingFrom(e) = 0 /\ \A f \in Data : e[f] = d[f]
  BY UpgradedData
<1>2. /\ Version(d) \in Nat /\ server.build \in Nat /\ From(d) \in Nat /\ Version(d) <= server.build
      /\ Rewrites \subseteq Nat /\ \A f \in Data : d[f][1] \in Nat
  BY <1>1, BuildsNat, DirectoryConstants
  DEF VersionShape, From, DirShape, Version, MigratingFrom, ManifestOf, Files
<1>3. Intact(d) /\ \A v \in Rewriting(d, server.build), f \in Data : v < d[f][1]
  BY <1>1 DEF FormatShape
<1>4. \A f \in Data : d[f][1] <= server.build
  BY <1>2, <1>3 DEF Intact
<1>5. \A f \in Data, v \in Rewrites : v < server.build => v < d[f][1]
  BY <1>2, <1>3 DEF Intact, Rewriting
<1>6. From(e) = server.build
  BY <1>1 DEF From
<1> QED BY <1>1, <1>4, <1>5, <1>6 DEF Intact

LEMMA WriteIntact ==
    ASSUME DirShape, ServerShape, VersionShape, FormatShape, NEW f \in Data, Write(f), takenOver = "no"
    PROVE  Intact(dirs'["data"])
<1> DEFINE d == dirs["data"]
           e == dirs'["data"]
<1>1. /\ server.state = "serving" /\ Version(e) = Version(d) /\ MigratingFrom(e) = MigratingFrom(d)
      /\ e[f] = <<server.build, d[f][2] + 1>> /\ \A g \in Data \ {f} : e[g] = d[g]
  BY WriteData
<1>2. Version(d) = server.build /\ From(e) = server.build /\ From(d) = server.build /\ server.build \in Nat
  BY <1>1, BuildsNat DEF VersionShape, From
<1>3. Intact(d)
  BY DEF FormatShape
<1>4. e[f][1] = server.build
  BY <1>1
<1> QED BY <1>1, <1>2, <1>3, <1>4 DEF Intact

LEMMA FormatStep ==
    ASSUME DirShape, ServerShape, PartialShape, VersionShape, FormatShape, [Next]_vars
    PROVE  FormatShape'
<1> SUFFICES ASSUME takenOver' = "no" PROVE FormatShape'
  BY DEF FormatShape
<1>0. takenOver = "no"
  BY TakenOverChange, StartIntact
<1>1. Intact(dirs["data"]) /\ (sums # Empty => Intact(sums))
  BY <1>0 DEF FormatShape
<1>2. sums' # Empty => Intact(sums')
  BY <1>1, SumsChange
<1>3. ASSUME NEW b \in Builds, Start(b) PROVE FormatShape'
  <2>1. server'.build = b
    BY <1>3, StartData
  <2> QED BY <1>2, <1>3, <2>1, StartIntact DEF FormatShape
<1>4. CASE Migrate
  BY <1>0, <1>4, MigrateIntact
<1>5. CASE Upgraded
  BY <1>0, <1>2, <1>5, UpgradedIntact, UpgradedData DEF FormatShape
<1>6. ASSUME NEW f \in Data, Write(f) PROVE FormatShape'
  <2>1. server'.state = "serving"
    BY <1>6, WriteData
  <2> QED BY <1>0, <1>2, <1>6, <2>1, WriteIntact DEF FormatShape
<1>7. CASE dirs'["data"] = dirs["data"] /\ (server' = server \/ server'.state = "down")
  BY <1>0, <1>1, <1>2, <1>7 DEF FormatShape
<1> QED BY <1>3, <1>4, <1>5, <1>6, <1>7, DataChange, ServerChange

(* An open by a build that is not too old makes an intact directory        *)
(* readable: whatever step has not been over a file is run over it.        *)
LEMMA OpenedWhole ==
    ASSUME DirShape, sums # Empty, Intact(sums), NEW build \in Nat, Version(sums) <= build
    PROVE  Whole(Opened(sums, build), build)
<1> DEFINE steps == Rewriting(sums, build)
           new == Opened(sums, build)
           Of(f) == {sums[f][1]} \cup {v + 1 : v \in steps}
<1>1. sums \in [Files -> Nat \X Nat] /\ "manifest" \in DOMAIN sums /\ DOMAIN sums \cup {"manifest"} = Files
  BY DEF DirShape, Files
<1>2. new = [f \in Files |-> IF f = "manifest" THEN <<build, 0>> ELSE <<Max(Of(f)), sums[f][2]>>]
  BY <1>1 DEF Opened
<1>3. DOMAIN new = Files /\ new["manifest"] = <<build, 0>>
  BY <1>2 DEF Files
<1>4. Version(sums) \in Nat /\ From(sums) \in Nat /\ Rewrites \subseteq Nat
  BY <1>1, DirectoryConstants DEF Version, From, MigratingFrom, ManifestOf, Files
<1>5. ASSUME NEW f \in Data PROVE new[f][2] = sums[f][2] /\ Readable(new[f][1], build)
  <2>1. new[f] = <<Max(Of(f)), sums[f][2]>>
    BY <1>2, DirectoryConstants DEF Files
  <2>2. /\ sums[f][1] \in Nat /\ sums[f][1] <= Version(sums)
        /\ \A v \in Rewrites : v < From(sums) => v < sums[f][1]
    BY <1>1 DEF Intact, Files
  <2>3. \A v \in steps : v \in Nat /\ v + 1 <= build
    BY <1>4 DEF Rewriting
  <2>4. Of(f) \in SUBSET Nat /\ Of(f) # {} /\ \A n \in Of(f) : n <= build
    BY <1>4, <2>2, <2>3
  <2>5. \E m \in Of(f) : \A n \in Of(f) : n <= m
    <3> HIDE DEF Of
    <3> QED BY <2>4, Greatest
  <2>6. Max(Of(f)) \in Of(f) /\ \A n \in Of(f) : n <= Max(Of(f))
    <3>1. \E m \in Of(f) : \A n \in Of(f) : m >= n
      <4> HIDE DEF Of
      <4> QED BY <2>4, <2>5
    <3>2. Max(Of(f)) \in Of(f) /\ \A n \in Of(f) : Max(Of(f)) >= n
      <4> HIDE DEF Of
      <4> QED BY <3>1 DEF Max
    <3> HIDE DEF Of
    <3> QED BY <2>4, <3>2
  <2>7. Max(Of(f)) \in Nat /\ Max(Of(f)) <= build
    <3> HIDE DEF Of
    <3> QED BY <2>4, <2>6
  <2>8. sums[f][1] <= Max(Of(f)) /\ \A v \in steps : v + 1 <= Max(Of(f))
    BY <2>6
  <2>9. ASSUME NEW v \in Rewrites, v < build PROVE v < Max(Of(f))
    <3>1. v \in Nat
      BY <1>4
    <3>2. CASE v < From(sums)
      <4> HIDE DEF Of
      <4> QED BY <2>2, <2>7, <2>8, <3>1, <3>2
    <3>3. CASE From(sums) <= v
      <4>1. v \in steps
        BY <2>9, <3>3 DEF Rewriting
      <4> HIDE DEF Of, steps
      <4> QED BY <2>7, <2>8, <3>1, <4>1
    <3> QED BY <1>4, <3>1, <3>2, <3>3
  <2>10. Readable(Max(Of(f)), build)
    <3> HIDE DEF Of
    <3> QED BY <1>4, <2>7, <2>9 DEF Readable
  <2> HIDE DEF Of
  <2> QED BY <2>1, <2>10
<1>6. Whole(new, build)
  <2> HIDE DEF new
  <2> QED BY <1>3, <1>5 DEF Whole
<1> QED BY <1>6

(* While a restore is under way the manifest of the backup stays. *)
LEMMA RestoreKept ==
    ASSUME DirShape, PartialShape, RestoreShape, [Next]_vars,
           dirs'["restoring"] = dirs["restoring"], overlap' = overlap, takenOver' = "no" => takenOver = "no",
           \A c \in Commands : Restoring(c)' => command'[c] = command[c]
    PROVE  RestoreShape'
<1>1. \A c \in Commands : Restoring(c)' => Restoring(c)
  BY DEF Restoring
<1>2. ASSUME NEW c \in Commands, Restoring(c) PROVE sums' = sums
  BY <1>2, SumsChange DEF RestoreShape
<1>3. \A c \in Commands : Restoring(c)' => sums' # Empty
  BY <1>1, <1>2 DEF RestoreShape
<1>4. ASSUME overlap' = "no", NEW c \in Commands, command'[c].state = "filling"
      PROVE  /\ dirs'["restoring"] \in [DOMAIN dirs'["restoring"] -> Nat \X Nat]
             /\ DOMAIN dirs'["restoring"] \cup command'[c].todo = Files
             /\ \A f \in DOMAIN dirs'["restoring"] : dirs'["restoring"][f] = sums'[f]
  <2>1. Restoring(c) /\ command'[c] = command[c]
    BY <1>1, <1>4 DEF Restoring
  <2>2. sums' = sums
    BY <1>2, <2>1
  <2> QED BY <1>4, <2>1, <2>2 DEF RestoreShape
<1>5. ASSUME overlap' = "no", NEW c \in Commands, command'[c].state = "opened", takenOver' = "no"
      PROVE  Whole(dirs["restoring"], command[c].build)' 
  <2>1. Restoring(c) /\ command'[c] = command[c]
    BY <1>1, <1>5 DEF Restoring
  <2>2. sums' = sums
    BY <1>2, <2>1
  <2>3. Whole(dirs["restoring"], command[c].build)
    BY <1>5, <2>1 DEF RestoreShape
  <2> QED BY <2>1, <2>2, <2>3 DEF Whole
<1>6. overlap' = "no" => \A c, e \in Commands : Restoring(c)' /\ Restoring(e)' => c = e
  BY <1>1 DEF RestoreShape
<1> QED BY <1>3, <1>4, <1>5, <1>6 DEF RestoreShape

(* A restore that is over leaves nothing to say. *)
LEMMA RestoreOver ==
    ASSUME DirShape, CommandShape, PartialShape, RestoreShape, [Next]_vars, overlap' = overlap,
           NEW c \in Commands, Restoring(c), command' = [command EXCEPT ![c] = Idle]
    PROVE  RestoreShape'
<1>1. \A e \in Commands : Restoring(e)' => Restoring(e) /\ e # c
  BY DEF Restoring, CommandShape, Idle
<1>2. sums' = sums /\ sums # Empty
  BY SumsChange DEF RestoreShape
<1>3. overlap' = "no" => \A e \in Commands : ~ Restoring(e)'
  BY <1>1 DEF RestoreShape
<1>4. overlap' = "no" => \A e \in Commands : command'[e].state \notin {"filling", "opened"}
  BY <1>3 DEF Restoring
<1> QED BY <1>1, <1>2, <1>3, <1>4 DEF RestoreShape

LEMMA RestoreBeginsKeeps ==
    ASSUME DirShape, CommandShape, PartialShape, RestoreShape, [Next]_vars,
           NEW c \in Commands, NEW b \in Tools, RestoreBegins(c, b)
    PROVE  RestoreShape'
<1>1. sums' = sums /\ sums # Empty /\ DOMAIN sums = Files
  BY DEF RestoreBegins, DirShape
<1>2. /\ dirs'["restoring"] = Empty /\ command'[c].state = "filling" /\ command'[c].todo = Files
      /\ \A e \in Commands \ {c} : command'[e] = command[e]
  BY <1>1 DEF RestoreBegins, DirShape, Names, CommandShape
<1>3. overlap' = "no" => overlap = "no" /\ \A e \in Commands \ {c} : ~ Restoring(e)
  BY DEF RestoreBegins
<1>4. overlap' = "no" => \A e \in Commands \ {c} : command'[e].state \notin {"filling", "opened"}
  BY <1>2, <1>3 DEF Restoring
<1>5. DOMAIN dirs'["restoring"] = {} /\ dirs'["restoring"] \in [{} -> Nat \X Nat]
  BY <1>2 DEF Empty
<1>6. overlap' = "no" => \A e, g \in Commands : Restoring(e)' /\ Restoring(g)' => e = g
  BY <1>4 DEF Restoring
<1>7. \A e \in Commands : Restoring(e)' => sums' # Empty
  BY <1>1
<1> QED BY <1>2, <1>4, <1>5, <1>6, <1>7 DEF RestoreShape

LEMMA RestoreCopiesKeeps ==
    ASSUME DirShape, CommandShape, PartialShape, RestoreShape, [Next]_vars,
           NEW c \in Commands, RestoreCopies(c)
    PROVE  RestoreShape'
<1>0. command[c].state = "filling" /\ sums' = sums /\ overlap' = overlap /\ Restoring(c)
  BY DEF RestoreCopies, ghosts, Restoring
<1>1. PICK f \in command[c].todo :
          IF f \in DOMAIN dirs["backup"] /\ dirs["backup"][f] = sums[f]
          THEN /\ dirs' = [dirs EXCEPT !["restoring"] = Put(@, f, dirs["backup"][f])]
               /\ command' = [command EXCEPT ![c].todo = @ \ {f}]
          ELSE Abandon(c)
  BY DEF RestoreCopies
<1>2. CASE ~ (f \in DOMAIN dirs["backup"] /\ dirs["backup"][f] = sums[f])
  BY <1>0, <1>1, <1>2, RestoreOver DEF Abandon
<1>3. CASE f \in DOMAIN dirs["backup"] /\ dirs["backup"][f] = sums[f]
  <2>1. dirs'["restoring"] = Put(dirs["restoring"], f, sums[f])
    BY <1>1, <1>3 DEF DirShape, Names
  <2>2. /\ command'[c].state = "filling" /\ command'[c].todo = command[c].todo \ {f}
        /\ \A e \in Commands \ {c} : command'[e] = command[e]
    BY <1>0, <1>1, <1>3 DEF CommandShape
  <2>3. f \in Files /\ sums # Empty /\ sums[f] \in Nat \X Nat
    BY <1>0 DEF CommandShape, RestoreShape, DirShape
  <2>4. \A e \in Commands : Restoring(e)' <=> Restoring(e)
    BY <1>0, <2>2 DEF Restoring
  <2>5. CASE overlap' = "no"
    <3>1. /\ dirs["restoring"] \in [DOMAIN dirs["restoring"] -> Nat \X Nat]
          /\ DOMAIN dirs["restoring"] \cup command[c].todo = Files
          /\ \A g \in DOMAIN dirs["restoring"] : dirs["restoring"][g] = sums[g]
      BY <1>0, <2>5 DEF RestoreShape
    <3>2. /\ DOMAIN dirs'["restoring"] = DOMAIN dirs["restoring"] \cup {f}
          /\ dirs'["restoring"] \in [DOMAIN dirs["restoring"] \cup {f} -> Nat \X Nat]
          /\ \A g \in DOMAIN dirs'["restoring"] : dirs'["restoring"][g] = sums[g]
      BY <2>1, <2>3, <3>1 DEF Put
    <3>3. DOMAIN dirs'["restoring"] \cup command'[c].todo = Files
      BY <2>2, <2>3, <3>1, <3>2
    <3>4. \A e \in Commands : Restoring(e)' => e = c
      BY <1>0, <2>4, <2>5 DEF RestoreShape
    <3>5. \A e \in Commands : command'[e].state \in {"filling", "opened"} => e = c
      BY <3>4 DEF Restoring
    <3> QED BY <1>0, <2>2, <2>3, <3>2, <3>3, <3>4, <3>5 DEF RestoreShape
  <2>6. CASE overlap' # "no"
    BY <1>0, <2>3, <2>6 DEF RestoreShape
  <2> QED BY <2>5, <2>6
<1> QED BY <1>2, <1>3

LEMMA RestoreOpensKeeps ==
    ASSUME DirShape, CommandShape, PartialShape, FormatShape, RestoreShape, [Next]_vars,
           NEW c \in Commands, RestoreOpens(c)
    PROVE  RestoreShape'
<1> DEFINE d == dirs["restoring"]
<1>0. /\ command[c].state = "filling" /\ command[c].todo = {} /\ sums' = sums /\ sums # Empty
      /\ overlap' = overlap /\ takenOver' = takenOver /\ Restoring(c) /\ command[c].build \in Nat
  BY DEF RestoreOpens, ghosts, Restoring, RestoreShape, CommandShape
<1>1. CASE Abandon(c)
  BY <1>0, <1>1, RestoreOver DEF Abandon
<1>2. ASSUME ~ (IF "manifest" \in DOMAIN d THEN Version(d) > command[c].build ELSE FALSE),
             dirs' = [dirs EXCEPT !["restoring"] = Opened(d, command[c].build)],
             command' = [command EXCEPT ![c].state = "opened"]
      PROVE  RestoreShape'
  <2>1. dirs'["restoring"] = Opened(d, command[c].build)
    BY <1>2 DEF DirShape, Names
  <2>2. /\ command'[c].state = "opened" /\ command'[c].build = command[c].build
        /\ \A e \in Commands \ {c} : command'[e] = command[e]
    BY <1>2 DEF CommandShape
  <2>3. \A e \in Commands : Restoring(e)' <=> Restoring(e)
    BY <1>0, <2>2 DEF Restoring
  <2>4. CASE overlap' = "no"
    <3>1. d \in [Files -> Nat \X Nat] /\ \A f \in Files : d[f] = sums[f]
      BY <1>0, <2>4 DEF RestoreShape
    <3>2. d = sums /\ "manifest" \in DOMAIN d
      <4>1. sums \in [Files -> Nat \X Nat]
        BY <1>0 DEF DirShape
      <4>2. d = sums
        <5>1. d = [f \in Files |-> d[f]] /\ sums = [f \in Files |-> sums[f]]
          BY <3>1, <4>1
        <5>2. [f \in Files |-> d[f]] = [f \in Files |-> sums[f]]
          BY <3>1
        <5> QED BY <5>1, <5>2
      <4>3. "manifest" \in Files
        BY DEF Files
      <4> QED BY <3>1, <4>2, <4>3
    <3>3. Version(sums) <= command[c].build
      <4>1. Version(sums) \in Nat
        BY <3>1, <3>2 DEF Version, ManifestOf, Files
      <4> QED BY <1>0, <1>2, <3>2, <4>1
    <3>4. takenOver = "no" => Whole(dirs'["restoring"], command[c].build)
      BY <1>0, <2>1, <3>2, <3>3, OpenedWhole DEF FormatShape
    <3>5. takenOver' = "no" => Whole(dirs["restoring"], command[c].build)'
      BY <1>0, <2>2, <3>4 DEF Whole
    <3>6. \A e \in Commands : Restoring(e)' => e = c
      BY <1>0, <2>3, <2>4 DEF RestoreShape
    <3>7. \A e \in Commands : command'[e].state \in {"filling", "opened"} => e = c
      BY <3>6 DEF Restoring
    <3> QED BY <1>0, <2>2, <3>5, <3>6, <3>7 DEF RestoreShape
  <2>5. CASE overlap' # "no"
    BY <1>0, <2>5 DEF RestoreShape
  <2> QED BY <2>4, <2>5
<1> QED BY <1>1, <1>2 DEF RestoreOpens

LEMMA RestoreStep ==
    ASSUME DirShape, CommandShape, PartialShape, FormatShape, RestoreShape, [Next]_vars
    PROVE  RestoreShape'
<1>0. takenOver' = "no" => takenOver = "no"
  BY TakenOverChange DEF Start
<1>1. CASE (\E b \in Builds : Start(b)) \/ Migrate \/ Upgraded \/ \E f \in Data : Write(f)
  <2>1. dirs'["restoring"] = dirs["restoring"] /\ command' = command /\ overlap' = overlap
    BY <1>1 DEF Start, Migrate, Upgraded, Write, DirShape, Names, ghosts
  <2> QED BY <1>0, <2>1, RestoreKept
<1>2. CASE Stop \/ ServerCrashes \/ Harm \/ CreatedMeanwhile \/ UNCHANGED vars
  <2>1. dirs'["restoring"] = dirs["restoring"] /\ command' = command /\ overlap' = overlap
    BY <1>2 DEF Stop, ServerCrashes, Harm, CreatedMeanwhile, DirShape, Names, ghosts, vars
  <2> QED BY <1>0, <2>1, RestoreKept
<1>3. ASSUME NEW c \in Commands, NEW b \in Tools, BackupChecks(c, b) PROVE RestoreShape'
  <2>1. dirs' = dirs /\ overlap' = overlap
    BY <1>3 DEF BackupChecks, ghosts
  <2>2. \A e \in Commands : Restoring(e)' => command'[e] = command[e]
    BY <1>3 DEF BackupChecks, Restoring, CommandShape
  <2> QED BY <1>0, <2>1, <2>2, RestoreKept
<1>4. ASSUME NEW c \in Commands, BackupLocks(c) \/ BackupCopies(c) \/ BackupPublishes(c)
      PROVE  RestoreShape'
  <2>1. dirs'["restoring"] = dirs["restoring"] /\ overlap' = overlap
    BY <1>4 DEF BackupLocks, BackupCopies, BackupPublishes, Publish, DirShape, Names, ghosts
  <2>2. \A e \in Commands : Restoring(e)' => command'[e] = command[e]
    BY <1>4 DEF BackupLocks, BackupCopies, BackupPublishes, Restoring, CommandShape, Idle
  <2> QED BY <1>0, <2>1, <2>2, RestoreKept
<1>5. ASSUME NEW c \in Commands, RestorePublishes(c) PROVE RestoreShape'
  BY <1>5, RestoreOver DEF RestorePublishes, Restoring, ghosts
<1>6. ASSUME NEW c \in Commands, CommandFails(c) PROVE RestoreShape'
  <2>1. overlap' = overlap /\ command' = [command EXCEPT ![c] = Idle]
    BY <1>6 DEF CommandFails, Abandon, ghosts
  <2>2. CASE Restoring(c)
    BY <2>1, <2>2, RestoreOver
  <2>3. CASE ~ Restoring(c)
    <3>1. dirs'["restoring"] = dirs["restoring"]
      BY <1>6, <2>3 DEF CommandFails, DirShape, Names
    <3>2. \A e \in Commands : Restoring(e)' => command'[e] = command[e]
      BY <2>1 DEF Restoring, CommandShape, Idle
    <3> QED BY <1>0, <2>1, <3>1, <3>2, RestoreKept
  <2> QED BY <2>2, <2>3
<1>7. ASSUME NEW c \in Commands, CommandCrashes(c) PROVE RestoreShape'
  <2>1. dirs' = dirs /\ overlap' = overlap
    BY <1>7 DEF CommandCrashes, ghosts
  <2>2. \A e \in Commands : Restoring(e)' => command'[e] = command[e]
    BY <1>7 DEF CommandCrashes, Restoring, CommandShape, Idle
  <2> QED BY <1>0, <2>1, <2>2, RestoreKept
<1> QED BY <1>1, <1>2, <1>3, <1>4, <1>5, <1>6, <1>7, NextCases, RestoreBeginsKeeps,
           RestoreCopiesKeeps, RestoreOpensKeeps

LEMMA GhostStep ==
    ASSUME GhostShape, [Next]_vars
    PROVE  GhostShape'
<1>1. CASE UNCHANGED <<takenOver, overlap, harmed>>
  BY <1>1 DEF GhostShape
<1>2. CASE (\E b \in Builds : Start(b)) \/ \E c \in Commands, b \in Tools : RestoreBegins(c, b)
  BY <1>2 DEF GhostShape, Start, RestoreBegins, bounds
<1>3. CASE Harm
  <2>1. harmed' = harmed + 1 /\ UNCHANGED ghosts
    BY <1>3 DEF Harm
  <2> QED BY <2>1 DEF GhostShape, ghosts
<1>4. CASE UNCHANGED vars
  BY <1>1, <1>4 DEF vars
<1> QED BY <1>1, <1>2, <1>3, <1>4, NextCases
       DEF Migrate, Upgraded, Stop, ServerCrashes, CreatedMeanwhile, Write, BackupChecks,
           BackupLocks, BackupCopies, BackupPublishes, RestoreCopies, RestoreOpens,
           RestorePublishes, CommandFails, CommandCrashes, ghosts, bounds

-----------------------------------------------------------------------------
(* The inductive invariant. *)
DirectoryInv ==
    /\ DirShape /\ ServerShape /\ CommandShape /\ LockShape /\ PartialShape
    /\ VersionShape /\ WritesShape /\ FormatShape /\ RestoreShape /\ GhostShape

LEMMA DirectoryStart == Init => DirectoryInv
<1> SUFFICES ASSUME Init PROVE DirectoryInv
  OBVIOUS
<1> DEFINE d == dirs["data"]
<1>0. "manifest" \notin Data /\ "free" \notin Commands /\ "server" \notin Commands /\ MaxWrites \in Nat
  BY DirectoryConstants
<1>1. d = [f \in Files |-> <<1, 0>>] /\ DOMAIN dirs = Names /\ sums = Empty
  BY DEF Init, Names, Files
<1>2. Version(d) = 1 /\ MigratingFrom(d) = 0 /\ From(d) = 1 /\ \A f \in Data : d[f] = <<1, 0>>
  BY <1>1 DEF Version, MigratingFrom, ManifestOf, From, Files
<1>3. DirShape /\ ServerShape /\ CommandShape
  BY <1>1 DEF Init, DirShape, ServerShape, CommandShape, Down, Idle
<1>4. LockShape /\ PartialShape /\ GhostShape
  BY <1>0 DEF Init, LockShape, PartialShape, GhostShape, Down, Idle
<1>5. VersionShape /\ WritesShape
  BY <1>0, <1>2 DEF Init, VersionShape, WritesShape, Down
<1>6. Rewrites \subseteq Nat
  BY DirectoryConstants
<1>7. FormatShape
  <2>1. \A f \in Data : d[f][1] = 1
    BY <1>2
  <2>2. Intact(d)
    BY <1>2, <1>6, <2>1 DEF Intact
  <2>3. server.state = "down"
    BY DEF Init, Down
  <2> QED BY <1>1, <2>2, <2>3 DEF FormatShape
<1>8. RestoreShape
  BY DEF Init, RestoreShape, Restoring, Idle
<1> QED BY <1>3, <1>4, <1>5, <1>7, <1>8 DEF DirectoryInv

LEMMA DirectoryStep == DirectoryInv /\ [Next]_vars => DirectoryInv'
  BY DirStep, ServerStep, CommandStep, LockStep, PartialStep, VersionStep, WritesStep, FormatStep,
     RestoreStep, GhostStep
  DEF DirectoryInv

(* The inductive invariant holds in every state. *)
THEOREM DirectoryInvariant == Spec => []DirectoryInv
  BY DirectoryStart, DirectoryStep, PTL DEF Spec

(* A build never serves files that it cannot read, unless a newer build    *)
(* has gone on with the upgrade of an older one; and the types and the     *)
(* lock are as they should be.                                             *)
THEOREM NothingMisread == Spec => []NeverMisread
<1>1. DirectoryInv => TypeOK
  <2> SUFFICES ASSUME DirectoryInv PROVE TypeOK
    OBVIOUS
  <2>1. DOMAIN dirs["data"] = Files /\ \A f \in Data : dirs["data"][f] \in Nat \X Nat
    BY DEF DirectoryInv, DirShape, Files
  <2>2. \A f \in Data : dirs["data"][f] \in Nat \X (0 .. MaxWrites)
    <3> SUFFICES ASSUME NEW f \in Data PROVE dirs["data"][f] \in Nat \X (0 .. MaxWrites)
      OBVIOUS
    <3>1. dirs["data"][f][2] \in Nat /\ dirs["data"][f][2] <= writes /\ writes \in 0 .. MaxWrites
      BY <2>1 DEF DirectoryInv, WritesShape
    <3>2. dirs["data"][f][2] \in 0 .. MaxWrites
      BY <3>1, DirectoryConstants
    <3> QED BY <2>1, <3>2
  <2> QED BY <2>1, <2>2 DEF DirectoryInv, VersionShape, LockShape, TypeOK, Files
<1>2. DirectoryInv /\ server.state = "serving" /\ takenOver = "no"
      => \A f \in Data : Readable(dirs["data"][f][1], server.build)
  <2> SUFFICES ASSUME DirectoryInv, server.state = "serving", takenOver = "no", NEW f \in Data
               PROVE  Readable(dirs["data"][f][1], server.build)
    OBVIOUS
  <2>1. /\ Version(dirs["data"]) = server.build /\ From(dirs["data"]) = server.build
        /\ server.build \in Nat /\ dirs["data"][f][1] \in Nat /\ Rewrites \subseteq Nat
    BY DirectoryConstants DEF DirectoryInv, VersionShape, ServerShape, DirShape, From, Files
  <2>2. Intact(dirs["data"])
    BY DEF DirectoryInv, FormatShape
  <2> QED BY <2>1, <2>2 DEF Intact, Readable
<1>3. DirectoryInv => NeverMisread
  BY <1>1, <1>2 DEF NeverMisread
<1> QED BY <1>3, DirectoryInvariant, PTL

(* The backup that appears is the data directory of that moment: the lock  *)
(* keeps it still while its files are copied.                              *)
THEOREM BackupInstant == Spec => BackupIsAnInstant
<1>1. DirectoryInv /\ [Next]_vars =>
        [dirs["backup"] = Empty /\ dirs'["backup"] # Empty => dirs'["backup"] = dirs["data"]]_vars
  <2> SUFFICES ASSUME DirectoryInv, [Next]_vars, dirs["backup"] = Empty, dirs'["backup"] # Empty
               PROVE  dirs'["backup"] = dirs["data"]
    OBVIOUS
  <2>0. DOMAIN dirs = Names
    BY DEF DirectoryInv, DirShape
  <2>1. ASSUME NEW c \in Commands, BackupPublishes(c) PROVE dirs'["backup"] = dirs["data"]
    <3>1. dirs["partial"] = dirs["data"]
      BY <2>1, PartialIsData DEF BackupPublishes, DirectoryInv
    <3> QED BY <2>0, <2>1, <3>1 DEF BackupPublishes, Publish, Names
  <2>2. ASSUME NEW c \in Commands, BackupLocks(c) \/ BackupCopies(c) PROVE dirs'["backup"] = dirs["backup"]
    BY <2>0, <2>2 DEF BackupLocks, BackupCopies, Names
  <2>3. ASSUME NEW c \in Commands, RestoreCopies(c) \/ RestoreOpens(c) \/ RestorePublishes(c)
        PROVE  dirs'["backup"] = dirs["backup"]
    BY <2>0, <2>3 DEF RestoreCopies, RestoreOpens, RestorePublishes, Publish, Abandon, Names
  <2>4. ASSUME NEW c \in Commands, CommandFails(c) \/ CommandCrashes(c)
        PROVE  dirs'["backup"] = dirs["backup"]
    BY <2>0, <2>4 DEF CommandFails, CommandCrashes, Abandon, Names
  <2>5. ASSUME NEW c \in Commands, NEW b, BackupChecks(c, b) \/ RestoreBegins(c, b)
        PROVE  dirs'["backup"] = dirs["backup"]
    BY <2>0, <2>5 DEF BackupChecks, RestoreBegins, Names
  <2>6. CASE (\E b \in Builds : Start(b)) \/ Migrate \/ Upgraded \/ \E f \in Data : Write(f)
    BY <2>0, <2>6 DEF Start, Migrate, Upgraded, Write, Names
  <2>7. CASE Stop \/ ServerCrashes \/ CreatedMeanwhile \/ UNCHANGED vars
    BY <2>0, <2>7 DEF Stop, ServerCrashes, CreatedMeanwhile, Names, vars
  <2>8. ~ Harm
    BY DEF Harm, Empty
  <2> QED BY <2>1, <2>2, <2>3, <2>4, <2>5, <2>6, <2>7, <2>8, NextCases
<1> QED BY <1>1, DirectoryInvariant, PTL DEF Spec, BackupIsAnInstant

(* A restore that puts a directory in place puts the whole backup there in *)
(* a format that its build reads, whatever happened to the backup.         *)
THEOREM RestoresWhole == Spec => RestoredWhole
<1> DEFINE A == dirs["restored"] = Empty /\ dirs'["restored"] # Empty /\ dirs'["restoring"] # dirs["restoring"]
           B == \/ overlap' = "yes" \/ takenOver' = "yes"
                \/ /\ DOMAIN dirs'["restored"] = DOMAIN sums
                   /\ MigratingFrom(dirs'["restored"]) = 0
                   /\ \A f \in Data : /\ dirs'["restored"][f][2] = sums[f][2]
                                      /\ Readable(dirs'["restored"][f][1], Version(dirs'["restored"]))
<1>1. DirectoryInv /\ [Next]_vars => [A => B]_vars
  <2> SUFFICES ASSUME DirectoryInv, [Next]_vars, A PROVE B
    OBVIOUS
  <2>0. DOMAIN dirs = Names
    BY DEF DirectoryInv, DirShape
  <2>1. ASSUME NEW c \in Commands, RestorePublishes(c) PROVE B
    <3> SUFFICES ASSUME overlap' # "yes", takenOver' # "yes" PROVE B
      OBVIOUS
    <3>1. overlap = "no" /\ takenOver = "no"
      BY <2>1 DEF RestorePublishes, ghosts, DirectoryInv, GhostShape
    <3>2. dirs'["restored"] = dirs["restoring"]
      BY <2>0, <2>1 DEF RestorePublishes, Publish, Vacant, Names
    <3>3. Whole(dirs["restoring"], command[c].build) /\ sums # Empty
      BY <2>1, <3>1 DEF RestorePublishes, DirectoryInv, RestoreShape, Restoring
    <3>4. DOMAIN sums = Files
      BY <3>3 DEF DirectoryInv, DirShape
    <3>5. Version(dirs["restoring"]) = command[c].build /\ MigratingFrom(dirs["restoring"]) = 0
      BY <3>3 DEF Whole, Version, MigratingFrom, ManifestOf
    <3> QED BY <3>2, <3>3, <3>4, <3>5 DEF Whole
  <2>2. ASSUME NEW c \in Commands, BackupLocks(c) \/ BackupCopies(c) \/ BackupPublishes(c)
        PROVE  dirs'["restored"] = dirs["restored"]
    BY <2>0, <2>2 DEF BackupLocks, BackupCopies, BackupPublishes, Publish, Names
  <2>3. ASSUME NEW c \in Commands, RestoreCopies(c) \/ RestoreOpens(c)
        PROVE  dirs'["restored"] = dirs["restored"]
    BY <2>0, <2>3 DEF RestoreCopies, RestoreOpens, Abandon, Names
  <2>4. ASSUME NEW c \in Commands, CommandFails(c) \/ CommandCrashes(c)
        PROVE  dirs'["restored"] = dirs["restored"]
    BY <2>0, <2>4 DEF CommandFails, CommandCrashes, Abandon, Names
  <2>5. ASSUME NEW c \in Commands, NEW b, BackupChecks(c, b) \/ RestoreBegins(c, b)
        PROVE  dirs'["restored"] = dirs["restored"]
    BY <2>0, <2>5 DEF BackupChecks, RestoreBegins, Names
  <2>6. CASE (\E b \in Builds : Start(b)) \/ Migrate \/ Upgraded \/ \E f \in Data : Write(f)
    BY <2>0, <2>6 DEF Start, Migrate, Upgraded, Write, Names
  <2>7. CASE Stop \/ ServerCrashes \/ Harm \/ CreatedMeanwhile \/ UNCHANGED vars
    BY <2>0, <2>7 DEF Stop, ServerCrashes, Harm, CreatedMeanwhile, Names, vars
  <2> QED BY <2>1, <2>2, <2>3, <2>4, <2>5, <2>6, <2>7, NextCases
<1> QED BY <1>1, DirectoryInvariant, PTL DEF Spec, RestoredWhole

(* What a backup or a restore has put in place, none replaces. *)
THEOREM NothingReplaced == Spec => PublishedStays
<1> DEFINE A == \A n \in {"backup", "restored"} : dirs[n] # Empty /\ harmed' = harmed => dirs'[n] = dirs[n]
<1>1. DirectoryInv /\ [Next]_vars => [A]_vars
  <2> SUFFICES ASSUME DirectoryInv, [Next]_vars PROVE A
    OBVIOUS
  <2>0. DOMAIN dirs = Names
    BY DEF DirectoryInv, DirShape
  <2>1. ASSUME NEW c \in Commands, RestorePublishes(c) PROVE A
    BY <2>0, <2>1 DEF RestorePublishes, Publish, Vacant, Names
  <2>2. ASSUME NEW c \in Commands, BackupLocks(c) \/ BackupCopies(c) PROVE A
    BY <2>0, <2>2 DEF BackupLocks, BackupCopies, Names
  <2>3. ASSUME NEW c \in Commands, BackupPublishes(c) PROVE A
    BY <2>0, <2>3 DEF BackupPublishes, Publish, Vacant, Names
  <2>4. ASSUME NEW c \in Commands, RestoreCopies(c) \/ RestoreOpens(c) PROVE A
    BY <2>0, <2>4 DEF RestoreCopies, RestoreOpens, Abandon, Names
  <2>5. ASSUME NEW c \in Commands, CommandFails(c) \/ CommandCrashes(c) PROVE A
    BY <2>0, <2>5 DEF CommandFails, CommandCrashes, Abandon, Names
  <2>6. ASSUME NEW c \in Commands, NEW b, BackupChecks(c, b) \/ RestoreBegins(c, b) PROVE A
    BY <2>0, <2>6 DEF BackupChecks, RestoreBegins, Names
  <2>7. CASE (\E b \in Builds : Start(b)) \/ Migrate \/ Upgraded \/ \E f \in Data : Write(f)
    BY <2>0, <2>7 DEF Start, Migrate, Upgraded, Write, Names
  <2>8. CASE Stop \/ ServerCrashes \/ CreatedMeanwhile \/ UNCHANGED vars
    BY <2>0, <2>8 DEF Stop, ServerCrashes, CreatedMeanwhile, Names, vars
  <2>9. CASE Harm
    <3>1. harmed' = harmed + 1 /\ harmed \in Nat
      BY <2>9 DEF Harm, DirectoryInv, GhostShape
    <3>2. harmed' # harmed
      BY <3>1
    <3> QED BY <3>2
  <2> QED BY <2>1, <2>2, <2>3, <2>4, <2>5, <2>6, <2>7, <2>8, <2>9, NextCases
<1> QED BY <1>1, DirectoryInvariant, PTL DEF Spec, PublishedStays
============================================================================
