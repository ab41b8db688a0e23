--------------------------------- MODULE Backups ---------------------------------
(***************************************************************************)
(* Backups of the office, made and restored by shell scripts: backup-prod, *)
(* backup (the older one, which update runs) and restore.  A script is a   *)
(* process of its own that may be killed between any two commands; two of  *)
(* them may overlap, and the office works on unless a restore stopped it.  *)
(*                                                                         *)
(* The database is the number of changes it holds, the archive it stands   *)
(* on (0: none) and whether a restore broke off inside it.  The file store *)
(* goes into an archive whole or empty; Redis is dumped and never restored *)
(* by a script, so it is left out, and so is the copy of the manifest that *)
(* lies beside an archive, which no script reads.                          *)
(***************************************************************************)
EXTENDS Naturals, Sequences, FiniteSets, FiniteSetsExt

CONSTANTS Kinds,            \* --type: daily, weekly, monthly
          Retention,        \* archives kept of each
          Cron,             \* command lines: [kind, encrypt, upload]; kind "old" is backup.sh
          Shells,           \* scripts that may overlap
          Urls,             \* forms of DATABASE_URL
          HasKey,           \* BACKUP_ENCRYPTION_KEY is set
          RetainDays,       \* BACKUP_RETAIN_DAYS
          MaxArchives,      \* bound: archives made
          MaxDays,          \* bound: periods of RetainDays that pass
          MaxWork,          \* bound: changes in the database
          MaxRestores,      \* bound: restores
          MaxBackupFaults   \* bound: commands that fail and scripts killed

ASSUME BackupsAssumption ==
    /\ Retention \in [Kinds -> Nat \ {0}] /\ "old" \notin Kinds
    /\ Cron \subseteq [kind : Kinds \cup {"old"}, encrypt : BOOLEAN, upload : BOOLEAN]
    /\ Urls \subseteq {"keywords", "uri", "uri without port"} /\ HasKey \in BOOLEAN
    /\ {RetainDays, MaxArchives, MaxDays, MaxWork, MaxRestores, MaxBackupFaults} \subseteq Nat

VARIABLES database,         \* [work, base, torn, providers, up]: up: its server runs
          serving,          \* the api and its worker run
          disk,             \* archives, on this machine and offsite
          copied,           \* history: the kinds of the archives, in the order they were made
          swept,            \* history: archives of a kind that the older script removed
          shells,           \* the scripts that make backups
          restoring,        \* the script that restores
          backups           \* [url, today, restores, faults]

backupVars == <<database, serving, disk, copied, swept, shells, restoring, backups>>

NoShell ==
    [step |-> "none", kind |-> "", encrypt |-> FALSE, upload |-> FALSE,
     dump |-> "", work |-> 0, at |-> 0, doomed |-> {}]

NoRestore == [step |-> "none", archive |-> {}, test |-> FALSE, said |-> ""]

BackupsInit ==
    /\ database = [work |-> 0, base |-> 0, torn |-> FALSE, providers |-> TRUE, up |-> TRUE]
    /\ serving = TRUE
    /\ disk = {} /\ copied = <<>> /\ swept = {}
    /\ shells = [s \in Shells |-> NoShell]
    /\ restoring = NoRestore
    /\ \E u \in Urls : backups = [url |-> u, today |-> 0, restores |-> 0, faults |-> 0]

Fails == backups.faults < MaxBackupFaults /\ backups' = [backups EXCEPT !.faults = @ + 1]
BecomesShell(s, record) == shells' = [shells EXCEPT ![s] = record]
At(s, step) == shells[s].step = step
OldScript(s) == shells[s].kind = "old"

-----------------------------------------------------------------------------
(* Making one.                                                             *)

\* --type, --encrypt, --upload.
StartBackup(s) ==
    /\ At(s, "none") /\ Len(copied) < MaxArchives
    /\ \E c \in Cron :
          BecomesShell(s, [NoShell EXCEPT !.step = "dump", !.kind = c.kind,
                                          !.encrypt = c.encrypt, !.upload = c.upload])
    /\ UNCHANGED <<database, serving, disk, copied, swept, restoring, backups>>

\* A URI without a port: its host is taken for the port.
ParsesAddress ==
    backups.url # "uri without port"

\* The manifest, and openssl; without a key there is no backup at all.
Pack(s, dump, work) ==
    BecomesShell(s,
        IF shells[s].encrypt /\ ~HasKey THEN NoShell
        ELSE [shells[s] EXCEPT !.step = "copy", !.dump = dump, !.work = work])

\* backup.sh without a dump: set -e ends it.
OldDumpFails(s) ==
    OldScript(s) /\ BecomesShell(s, NoShell)

\* pg_dump of the address, or else inside the container, of the database as it is
\* by then; provider_configs goes without its rows.  When both fail
\* backup-prod.sh writes a placeholder and goes on, and backup.sh ends.  Then the
\* uploads and Redis, and the packing.
Dump(s) ==
    /\ At(s, "dump")
    /\ \/ /\ database.up
          /\ Pack(s, IF database.torn THEN "torn" ELSE "whole", database.work)
          /\ UNCHANGED backups
       \/ /\ IF database.up THEN ~ParsesAddress /\ Fails ELSE UNCHANGED backups
          /\ OldDumpFails(s) \/ (~OldScript(s) /\ Pack(s, "placeholder", 0))
    /\ UNCHANGED <<database, serving, disk, copied, swept, restoring>>

\* What the manifest says of an archive.
Archive(s, at, place) ==
    [at |-> at, kind |-> shells[s].kind, place |-> place, day |-> backups.today,
     locked |-> shells[s].encrypt, suffix |-> shells[s].encrypt,
     dump |-> shells[s].dump, work |-> shells[s].work, whole |-> TRUE]

\* backup.sh writes its own where the plain copies of the other are.
OldArchive(s, at) ==
    Archive(s, at, "root")

\* The archive goes to the directory of its kind.  The disk may be full, or the script
\* killed: a part of it lies there under its name.
CopyArchive(s) ==
    LET at == Len(copied) + 1
        archive == IF OldScript(s) THEN OldArchive(s, at) ELSE Archive(s, at, "kind")
    IN /\ At(s, "copy") /\ Len(copied) < MaxArchives
       /\ copied' = Append(copied, shells[s].kind)
       /\ \/ /\ disk' = disk \cup {archive}
             /\ BecomesShell(s, [shells[s] EXCEPT !.at = at,
                                    !.step = IF OldScript(s) THEN "sweep" ELSE "root"])
             /\ UNCHANGED backups
          \/ /\ disk' = disk \cup {[archive EXCEPT !.whole = FALSE]}
             /\ BecomesShell(s, NoShell)
             /\ Fails
       /\ UNCHANGED <<database, serving, swept, restoring>>

\* "Also copy to root backups for backward compat", what is not encrypted.
CopyToRoot(s) ==
    /\ At(s, "root")
    /\ disk' = disk \cup (IF shells[s].encrypt THEN {} ELSE {Archive(s, shells[s].at, "root")})
    /\ BecomesShell(s, [shells[s] EXCEPT !.step = "list"])
    /\ UNCHANGED <<database, serving, copied, swept, restoring, backups>>

OfKind(kind) == {a \in disk : a.place = "kind" /\ a.kind = kind}

\* The mistake of tail -n +$retain.
AllButRetain(kind) ==
    {a \in OfKind(kind) :
        Cardinality({b \in OfKind(kind) : b.at > a.at}) + 1 >= Retention[kind]}

\* ls -1t | tail -n +$((retain + 1)): all but the newest.
Outdated(kind) ==
    {a \in OfKind(kind) : Cardinality({b \in OfKind(kind) : b.at > a.at}) >= Retention[kind]}

ListOutdated(s) ==
    /\ At(s, "list")
    /\ BecomesShell(s, [shells[s] EXCEPT !.step = "prune",
                                         !.doomed = UNION {Outdated(k) : k \in Kinds}])
    /\ UNCHANGED <<database, serving, disk, copied, swept, restoring, backups>>

PruneOld(s) ==
    /\ At(s, "prune")
    /\ disk' = disk \ shells[s].doomed
    /\ BecomesShell(s, [shells[s] EXCEPT !.step = "sweep", !.doomed = {}])
    /\ UNCHANGED <<database, serving, copied, swept, restoring, backups>>

\* The retention by age.  backup-prod.sh looks in the root directory alone;
\* backup.sh looks in those of the kinds too, at all that is not encrypted.
TooOld(s) ==
    {a \in disk : /\ backups.today - a.day > RetainDays
                  /\ \/ a.place = "root"
                     \/ OldScript(s) /\ a.place = "kind" /\ ~a.suffix}

SweepByAge(s) ==
    /\ At(s, "sweep")
    /\ disk' = disk \ TooOld(s)
    /\ swept' = swept \cup {a.at : a \in {b \in TooOld(s) : b.place = "kind"}}
    /\ BecomesShell(s, IF shells[s].upload /\ ~OldScript(s) THEN [shells[s] EXCEPT !.step = "upload"]
                       ELSE NoShell)
    /\ UNCHANGED <<database, serving, copied, restoring, backups>>

\* To S3 under the name without .enc; a failure is logged and the script says OK.
UploadOffsite(s) ==
    /\ At(s, "upload")
    /\ \/ /\ disk' = disk \cup {[Archive(s, shells[s].at, "offsite") EXCEPT !.suffix = FALSE]}
          /\ UNCHANGED backups
       \/ UNCHANGED disk /\ Fails
    /\ BecomesShell(s, NoShell)
    /\ UNCHANGED <<database, serving, copied, swept, restoring>>

ShellKilled(s) ==
    /\ ~At(s, "none")
    /\ Fails
    /\ BecomesShell(s, NoShell)
    /\ UNCHANGED <<database, serving, disk, copied, swept, restoring>>

-----------------------------------------------------------------------------
(* Restoring one.                                                          *)

RestoreGoes(step) == restoring' = [restoring EXCEPT !.step = step]
RestoreEnds(said) == restoring' = [restoring EXCEPT !.step = "none", !.said = said]
Restored == CHOOSE a \in restoring.archive : TRUE

\* --confirm, the file, --test.
StartRestore(a, test) ==
    /\ restoring.step = "none" /\ backups.restores < MaxRestores
    /\ restoring' = [step |-> "open", archive |-> {a}, test |-> test, said |-> ""]
    /\ backups' = [backups EXCEPT !.restores = @ + 1]

Restore ==
    /\ \E a \in disk, test \in BOOLEAN : StartRestore(a, test)
    /\ UNCHANGED <<database, serving, disk, copied, swept, shells>>

\* update.sh, when the build or the health check of the new version fails: all
\* containers go down, the database's among them, and the newest archive of the
\* root directory is restored.
RollBack ==
    /\ \E a \in disk :
          /\ a.place = "root" /\ \A b \in disk : b.place = "root" => b.at <= a.at
          /\ StartRestore(a, FALSE)
    /\ database' = [database EXCEPT !.up = FALSE]
    /\ serving' = FALSE
    /\ UNCHANGED <<disk, copied, swept, shells>>

\* A file that is named .enc is decrypted; whatever is no tar by then is
\* "corrupted", what was encrypted and lost its name with the upload included.
Opens(a) ==
    /\ a.whole
    /\ IF a.suffix THEN HasKey ELSE ~a.locked

\* The checksums are of what the archive holds.  A test ends here.
OpenArchive ==
    /\ restoring.step = "open"
    /\ IF ~Opens(Restored) THEN RestoreEnds("corrupted")
       ELSE IF restoring.test THEN RestoreEnds("verified") ELSE RestoreGoes("stop")
    /\ UNCHANGED <<database, serving, disk, copied, swept, shells, backups>>

\* docker compose stop, whatever comes of it.
StopServices ==
    /\ restoring.step = "stop"
    /\ RestoreGoes("database")
    /\ \/ serving' = FALSE /\ UNCHANGED backups
       \/ UNCHANGED serving /\ Fails
    /\ UNCHANGED <<database, disk, copied, swept, shells>>

\* backup.sh writes pg_dump's own format under a name that says SQL, and psql
\* takes no such file; a placeholder is no dump either.
Restorable(a) ==
    a.kind # "old" /\ a.dump \in {"whole", "torn"}

\* pg_restore --clean: what was there goes, with the rows of provider_configs.
Holds(a) ==
    [database EXCEPT !.work = a.work, !.base = a.at, !.torn = a.dump = "torn", !.providers = FALSE]

\* One try: all of it, or nothing, or a part (it is no transaction).
TryRestore(then, otherwise) ==
    \/ /\ database.up /\ Restorable(Restored)
       /\ database' = Holds(Restored)
       /\ RestoreGoes(then)
       /\ UNCHANGED backups
    \/ /\ database.up /\ Restorable(Restored)
       /\ Fails
       /\ database' = [database EXCEPT !.torn = TRUE]
       /\ otherwise
    \/ /\ ~(database.up /\ Restorable(Restored))
       /\ otherwise
       /\ UNCHANGED <<database, backups>>

\* restore.sh parses the address as backup-prod.sh does.
FindsDatabase ==
    ParsesAddress

RestoreDirect ==
    /\ restoring.step = "database"
    /\ IF FindsDatabase THEN TryRestore("files", RestoreGoes("compose"))
       ELSE RestoreGoes("compose") /\ UNCHANGED <<database, backups>>
    /\ UNCHANGED <<serving, disk, copied, swept, shells>>

\* Inside the container; when that fails too the services come back and the
\* script ends.
RestoreInContainer ==
    /\ restoring.step = "compose"
    /\ TryRestore("files", RestoreEnds("failed"))
    /\ serving' = (serving \/ (restoring'.said = "failed" /\ database.up))
    /\ UNCHANGED <<disk, copied, swept, shells>>

\* The uploads go over those that are there, whatever comes of it.  The services
\* start only when `compose ps` lists the api, and it need not list what is stopped.
FinishRestore ==
    /\ restoring.step = "files"
    /\ serving' \in {serving, TRUE}
    /\ RestoreEnds("restored")
    /\ UNCHANGED <<database, disk, copied, swept, shells, backups>>

RestoreKilled ==
    /\ restoring.step # "none"
    /\ Fails
    /\ RestoreEnds("killed")
    /\ UNCHANGED <<database, serving, disk, copied, swept, shells>>

-----------------------------------------------------------------------------
(* The office meanwhile.                                                   *)

OfficeWorks ==
    /\ serving /\ database.up /\ database.work < MaxWork
    /\ database' = [database EXCEPT !.work = @ + 1]
    /\ UNCHANGED <<serving, disk, copied, swept, shells, restoring, backups>>

\* docker compose up, by hand.
ComposeUp ==
    /\ restoring.step = "none" /\ ~(serving /\ database.up)
    /\ database' = [database EXCEPT !.up = TRUE]
    /\ serving' = TRUE
    /\ UNCHANGED <<disk, copied, swept, shells, restoring, backups>>

DaysPass ==
    /\ backups.today < MaxDays * (RetainDays + 1)
    /\ backups' = [backups EXCEPT !.today = @ + RetainDays + 1]
    /\ UNCHANGED <<database, serving, disk, copied, swept, shells, restoring>>

BackupsNext ==
    \/ \E s \in Shells :
          \/ StartBackup(s) \/ Dump(s) \/ CopyArchive(s) \/ CopyToRoot(s) \/ ListOutdated(s)
          \/ PruneOld(s) \/ SweepByAge(s) \/ UploadOffsite(s) \/ ShellKilled(s)
    \/ Restore \/ RollBack \/ OpenArchive \/ StopServices \/ RestoreDirect
    \/ RestoreInContainer \/ FinishRestore \/ RestoreKilled
    \/ OfficeWorks \/ ComposeUp \/ DaysPass

BackupsSpec == BackupsInit /\ [][BackupsNext]_backupVars

-----------------------------------------------------------------------------

\* Whatever backup-prod.sh's retention takes away, there are as many newer ones
\* of its kind as it promises to keep, whichever scripts overlap and wherever
\* they are killed.  Not so for what backup.sh sweeps (swept), nor does a newer
\* one have to be good: a placeholder and half a file count like any other.
RetentionKeepsNewer ==
    \A at \in DOMAIN copied \ swept :
        \A kind \in Kinds :
            copied[at] = kind /\ (\A a \in OfKind(kind) : a.at # at)
                => Retention[kind] <= Cardinality({b \in DOMAIN copied :
                       /\ b > at /\ copied[b] = kind
                       /\ b \in swept \/ \E a \in OfKind(kind) : a.at = b})

\* A restore that says it is done left the database standing on that archive and
\* not half restored (unless the archive is of such a database), although each
\* of the two tries may break off inside it.
DoneIsRestored ==
    restoring.said = "restored" =>
        /\ database.base = Restored.at
        /\ database.torn => Restored.dump = "torn"
=================================================================================
