----------------------------- MODULE FileLedger -----------------------------
(***************************************************************************)
(* The file backend of the ledger, runtime/outbound/file-ledger.ts: load   *)
(* reads the file; commit takes a lockfile, compares the version in the    *)
(* file, opens, writes and syncs a temporary file, renames it over the     *)
(* ledger, syncs the directory and removes the lockfile.  Writers are      *)
(* transactions of ledger.ts; several of them may run in one process, and  *)
(* then they share the name of the temporary file.                         *)
(*                                                                         *)
(* The content of a file is its version and the set of writes it is made   *)
(* of.  The file system is external: names refer to files, a handle keeps  *)
(* its file whatever becomes of the name, and after a power loss a file    *)
(* whose data was not synced may be torn and a rename whose directory was  *)
(* not synced may be undone.  The clock appears only as the moment a       *)
(* lockfile has become older than LOCK_STALE_MS, which comes for the       *)
(* lockfile of a crashed holder and of a slow one alike.                   *)
(***************************************************************************)
EXTENDS Naturals, FiniteSets

CONSTANTS
    Writers,
    Processes,
    ProcessOf,      \* ProcessOf[w]: the process in which w runs
    LockAttempts,   \* LOCK_ATTEMPTS
    MaxCommits,     \* bound: commits asked of one writer
    NoLock,         \* no lockfile
    NoFile          \* no file of a name

\* A file, by the commit that created it.
Files == Writers \X (1 .. MaxCommits)

ASSUME ProcessOfAssumption == ProcessOf \in [Writers -> Processes]
ASSUME LockAttemptsAssumption == LockAttempts \in Nat \ {0}
ASSUME MaxCommitsAssumption == MaxCommits \in Nat
ASSUME NothingAssumption == NoLock \notin Writers /\ NoFile \notin Files

VARIABLES
    data,       \* data[f]: what file f holds
    ledger,     \* the file the ledger's name refers to
    durable,    \* the file it refers to after a power loss
    tmp,        \* tmp[p]: the file the temporary's name of process p refers to
    opened,     \* opened[w]: the temporary file w has opened
    lock,       \* who created the lockfile, or NoLock
    stale,      \* the lockfile is older than LOCK_STALE_MS
    phase,      \* phase[w]: what the transaction of w does next
    loaded,     \* loaded[w]: the content w read before commit
    tries,      \* tries[w]: attempts of acquireLock
    outcome,    \* outcome[w]: what commit is about to return
    count,      \* count[w]: transactions w began
    acked,      \* writes whose commit returned committed: true (history)
    robbed,     \* a lockfile was stolen from a writer in the section (history)
    shared      \* a temporary was opened while a writer used it (history)

fileState == <<data, ledger, durable, tmp, opened, shared>>
lockfile == <<lock, stale, robbed>>
fileVars == <<fileState, lockfile, phase, loaded, tries, outcome, count,
              acked>>

Content == [version: Nat, writes: SUBSET (Writers \X Nat)]
EmptyFile == [version |-> 0, writes |-> {}]

\* The text of a file: truncated, the whole of a content, or anything else
\* that does not parse.
Data == [text: {"blank", "whole", "torn"}, content: Content, synced: BOOLEAN]
Blank == [text |-> "blank", content |-> EmptyFile, synced |-> FALSE]

\* readCurrent: without a file the ledger is empty; what does not parse throws.
Readable(f) == f # NoFile => data[f].text = "whole"
ContentOf(f) == IF f = NoFile THEN EmptyFile ELSE data[f].content

\* The state a writer wants to persist: the one it loaded, one version on,
\* with its own write.
Rewritten(w) ==
    [version |-> loaded[w].version + 1,
     writes  |-> loaded[w].writes \cup {<<w, count[w]>>}]

FileInit ==
    /\ data = [f \in Files |-> [Blank EXCEPT !.synced = TRUE]]
    /\ ledger = NoFile /\ durable = NoFile
    /\ tmp = [p \in Processes |-> NoFile]
    /\ opened = [w \in Writers |-> NoFile]
    /\ lock = NoLock /\ stale = FALSE
    /\ phase = [w \in Writers |-> "idle"]
    /\ loaded = [w \in Writers |-> EmptyFile]
    /\ tries = [w \in Writers |-> 0]
    /\ outcome = [w \in Writers |-> "none"]
    /\ count = [w \in Writers |-> 0]
    /\ acked = {} /\ robbed = FALSE /\ shared = FALSE

Proceed(w, label) == phase' = [phase EXCEPT ![w] = label]

-----------------------------------------------------------------------------
\* readCurrent opens the file once; a rename meanwhile does not change what
\* it reads.
Load(w) ==
    /\ phase[w] = "idle" /\ count[w] < MaxCommits
    /\ Readable(ledger)
    /\ count' = [count EXCEPT ![w] = @ + 1]
    /\ loaded' = [loaded EXCEPT ![w] = ContentOf(ledger)]
    /\ tries' = [tries EXCEPT ![w] = 0]
    /\ Proceed(w, "lock")
    /\ UNCHANGED <<fileState, lockfile, outcome, acked>>

\* The file is corrupt, or reading it fails.
LoadFails(w) ==
    /\ phase[w] = "idle" /\ count[w] < MaxCommits
    /\ count' = [count EXCEPT ![w] = @ + 1]
    /\ UNCHANGED <<fileState, lockfile, phase, loaded, tries, outcome, acked>>

\* Faulty variant of CreateLock: the lockfile is opened without wx.
CreateLockAnyway(w) ==
    /\ phase[w] = "lock" /\ tries[w] < LockAttempts
    /\ lock' = w /\ stale' = FALSE
    /\ Proceed(w, "read")
    /\ UNCHANGED <<fileState, robbed, loaded, tries, outcome, count, acked>>

\* acquireLock: open(lockPath, "wx") creates the lockfile or finds one.
CreateLock(w) ==
    /\ phase[w] = "lock" /\ tries[w] < LockAttempts
    /\ lock = NoLock
    /\ lock' = w /\ stale' = FALSE
    /\ Proceed(w, "read")
    /\ UNCHANGED <<fileState, robbed, loaded, tries, outcome, count, acked>>

FindLock(w) ==
    /\ phase[w] = "lock" /\ tries[w] < LockAttempts
    /\ lock # NoLock
    /\ Proceed(w, "stat")
    /\ UNCHANGED <<fileState, lockfile, loaded, tries, outcome, count, acked>>

\* stat decides whether to wait for the next attempt or to steal.
StatLock(w) ==
    /\ phase[w] = "stat"
    /\ \/ lock # NoLock /\ stale /\ Proceed(w, "steal") /\ UNCHANGED tries
       \/ /\ ~ (lock # NoLock /\ stale)
          /\ tries' = [tries EXCEPT ![w] = @ + 1]
          /\ Proceed(w, "lock")
    /\ UNCHANGED <<fileState, lockfile, loaded, outcome, count, acked>>

Holding == {"read", "open", "write", "sync", "rename", "fsync", "release"}

\* rm removes whatever lockfile is there by now: the stale one, which may be
\* that of a slow writer, none, or the new one of a writer that was faster.
\* An error of rm is caught.
StealLock(w) ==
    /\ phase[w] = "steal"
    /\ \/ /\ robbed' = (robbed \/ (lock # NoLock /\ phase[lock] \in Holding))
          /\ lock' = NoLock /\ stale' = FALSE
       \/ UNCHANGED lockfile
    /\ tries' = [tries EXCEPT ![w] = @ + 1]
    /\ Proceed(w, "lock")
    /\ UNCHANGED <<fileState, loaded, outcome, count, acked>>

\* acquireLock throws outside of the try of commit, so that no lockfile is
\* removed: the attempts are used up or open fails, or the time cannot be
\* written into a lockfile just created.  runTransaction cannot tell what a
\* throw of commit means.
LockFails(w) ==
    /\ phase[w] \in {"lock", "read"}
    /\ Proceed(w, "idle")
    /\ UNCHANGED <<fileState, lockfile, loaded, tries, outcome, count, acked>>

\* The finally of commit runs before the value is returned.
Leave(w, value) ==
    /\ outcome' = [outcome EXCEPT ![w] = value]
    /\ Proceed(w, "release")

\* Faulty variant of Compare: the version is not compared.
CompareNothing(w) ==
    /\ phase[w] = "read"
    /\ Proceed(w, "open")
    /\ UNCHANGED <<fileState, lockfile, loaded, tries, outcome, count, acked>>

\* Under the lock the version in the file is compared with the expected one.
Compare(w) ==
    /\ phase[w] = "read"
    /\ Readable(ledger)
    /\ \/ /\ ContentOf(ledger).version = loaded[w].version
          /\ Proceed(w, "open") /\ UNCHANGED outcome
       \/ /\ ContentOf(ledger).version # loaded[w].version
          /\ Leave(w, "lost")
    /\ UNCHANGED <<fileState, lockfile, loaded, tries, count, acked>>

\* Writers between opening the temporary file and renaming it.
Using == {"write", "sync", "rename"}
Users(p) == {w \in Writers : ProcessOf[w] = p /\ phase[w] \in Using}

\* open(temporary, "w") creates the file of that name or truncates it.
OpenTemporary(w) ==
    /\ phase[w] = "open"
    /\ LET p == ProcessOf[w]
           f == IF tmp[p] = NoFile THEN <<w, count[w]>> ELSE tmp[p]
       IN  /\ tmp' = [tmp EXCEPT ![p] = f]
           /\ opened' = [opened EXCEPT ![w] = f]
           /\ data' = [data EXCEPT ![f] = Blank]
           /\ shared' = (shared \/ Users(p) # {})
    /\ Proceed(w, "write")
    /\ UNCHANGED <<ledger, durable, lockfile, loaded, tries, outcome, count, acked>>

\* writeFile writes from the start of the handle's file.  Where another writer
\* has written since it was truncated, the end of a longer text stays.
WriteTemporary(w) ==
    /\ phase[w] = "write"
    /\ \E text \in {"whole", "torn"} :
          /\ text = "torn" => data[opened[w]].text # "blank"
          /\ data' = [data EXCEPT ![opened[w]] =
                [text |-> text, content |-> Rewritten(w), synced |-> FALSE]]
    /\ Proceed(w, "sync")
    /\ UNCHANGED <<ledger, durable, tmp, opened, shared, lockfile, loaded, tries,
                   outcome, count, acked>>

\* Faulty variant of SyncTemporary: the data is not synced.
SyncNoData(w) ==
    /\ phase[w] = "sync"
    /\ Proceed(w, "rename")
    /\ UNCHANGED <<fileState, lockfile, loaded, tries, outcome, count, acked>>

SyncTemporary(w) ==
    /\ phase[w] = "sync"
    /\ data' = [data EXCEPT ![opened[w]].synced = TRUE]
    /\ Proceed(w, "rename")
    /\ UNCHANGED <<ledger, durable, tmp, opened, shared, lockfile, loaded, tries,
                   outcome, count, acked>>

\* rename moves whatever file has the temporary's name, and throws if none has.
Rename(w) ==
    /\ phase[w] = "rename"
    /\ tmp[ProcessOf[w]] # NoFile
    /\ ledger' = tmp[ProcessOf[w]]
    /\ tmp' = [tmp EXCEPT ![ProcessOf[w]] = NoFile]
    /\ Proceed(w, "fsync")
    /\ UNCHANGED <<data, durable, opened, shared, lockfile, loaded, tries,
                   outcome, count, acked>>

\* Faulty variant of SyncDirectory: the directory is not synced.
SyncNothing(w) ==
    /\ phase[w] = "fsync"
    /\ Leave(w, "committed")
    /\ UNCHANGED <<fileState, lockfile, loaded, tries, count, acked>>

SyncDirectory(w) ==
    /\ phase[w] = "fsync"
    /\ durable' = ledger
    /\ Leave(w, "committed")
    /\ UNCHANGED <<data, ledger, tmp, opened, shared, lockfile, loaded, tries,
                   count, acked>>

\* What throws inside the critical section goes through the finally: an I/O
\* error, a corrupt ledger, a temporary that is gone.
CommitThrows(w) ==
    /\ phase[w] \in Holding \ {"release"}
    /\ Leave(w, "throws")
    /\ UNCHANGED <<fileState, lockfile, loaded, tries, count, acked>>

\* releaseLock removes the lockfile that is there, and commit returns.
ReleaseLock(w) ==
    /\ phase[w] = "release"
    /\ lock' = NoLock /\ stale' = FALSE
    /\ Proceed(w, "idle")
    /\ acked' = IF outcome[w] = "committed" THEN acked \cup {<<w, count[w]>>}
                ELSE acked
    /\ outcome' = [outcome EXCEPT ![w] = "none"]
    /\ UNCHANGED <<fileState, robbed, loaded, tries, count>>

\* rm throws in the finally: the lockfile stays and the value is lost.
ReleaseFails(w) ==
    /\ phase[w] = "release"
    /\ Proceed(w, "idle")
    /\ outcome' = [outcome EXCEPT ![w] = "none"]
    /\ UNCHANGED <<fileState, lockfile, loaded, tries, count, acked>>

-----------------------------------------------------------------------------
\* A process dies with all its writers; lockfile and temporary stay.
Crash(p) ==
    /\ \E w \in Writers : ProcessOf[w] = p /\ phase[w] # "idle"
    /\ phase' = [w \in Writers |-> IF ProcessOf[w] = p THEN "idle" ELSE phase[w]]
    /\ outcome' = [w \in Writers |-> IF ProcessOf[w] = p THEN "none" ELSE outcome[w]]
    /\ UNCHANGED <<fileState, lockfile, loaded, tries, count, acked>>

\* LOCK_STALE_MS pass, whatever the writer that created the lockfile does.
LockAges ==
    /\ lock # NoLock /\ ~ stale
    /\ stale' = TRUE
    /\ UNCHANGED <<fileState, lock, robbed, phase, loaded, tries, outcome, count, acked>>

\* Every process dies; of the ledger's name and of unsynced data only what was
\* synced is certain, and the lockfile may be gone.
PowerLoss ==
    /\ \E f \in {ledger, durable} : ledger' = f /\ durable' = f
    /\ \E lost \in SUBSET {f \in Files : ~ data[f].synced} :
          data' = [f \in Files |-> IF f \in lost
                     THEN [data[f] EXCEPT !.text = "torn"] ELSE data[f]]
    /\ lock' \in {lock, NoLock} /\ stale' = (stale /\ lock' # NoLock)
    /\ phase' = [w \in Writers |-> "idle"]
    /\ outcome' = [w \in Writers |-> "none"]
    /\ UNCHANGED <<tmp, opened, shared, robbed, loaded, tries, count,
                   acked>>

WriterStep(w) ==
    \/ Load(w) \/ LoadFails(w)
    \/ CreateLock(w) \/ FindLock(w) \/ StatLock(w) \/ StealLock(w) \/ LockFails(w)
    \/ Compare(w) \/ OpenTemporary(w) \/ WriteTemporary(w) \/ SyncTemporary(w)
    \/ Rename(w) \/ SyncDirectory(w) \/ CommitThrows(w)
    \/ ReleaseLock(w) \/ ReleaseFails(w)

FileNext ==
    \/ \E w \in Writers : WriterStep(w)
    \/ \E p \in Processes : Crash(p)
    \/ LockAges
    \/ PowerLoss

FileSpec == FileInit /\ [][FileNext]_fileVars

-----------------------------------------------------------------------------
Phases == {"idle", "lock", "stat", "steal"} \cup Holding

\* Every variable stays within its type, and commit has a value to return
\* exactly while it runs its finally.
FileTypeOK ==
    /\ data \in [Files -> Data]
    /\ ledger \in Files \cup {NoFile} /\ durable \in Files \cup {NoFile}
    /\ tmp \in [Processes -> Files \cup {NoFile}]
    /\ opened \in [Writers -> Files \cup {NoFile}]
    /\ lock \in Writers \cup {NoLock} /\ stale \in BOOLEAN
    /\ phase \in [Writers -> Phases]
    /\ loaded \in [Writers -> Content]
    /\ tries \in [Writers -> Nat] /\ count \in [Writers -> 0 .. MaxCommits]
    /\ outcome \in [Writers -> {"none", "committed", "lost", "throws"}]
    /\ acked \subseteq Writers \X Nat /\ robbed \in BOOLEAN /\ shared \in BOOLEAN
    /\ \A w \in Writers : phase[w] = "release" <=> outcome[w] # "none"

\* What the header promises: concurrent writers serialize.  At most one is
\* between creating the lockfile and removing it.
WritersSerialize ==
    \A v, w \in Writers :
        phase[v] \in Holding /\ phase[w] \in Holding => v = w

\* A file that holds the whole of a content, on the disk.
Intact(f) == f # NoFile => data[f].text = "whole" /\ data[f].synced

\* What the header promises of atomic rename and fsync: whatever the ledger's
\* name refers to, now or after a loss of power, is an intact file.
LedgerIntact == Intact(ledger) /\ Intact(durable)

\* The promise of the header holds until acquireLock steals the lockfile of a
\* writer that is in the critical section, one that took longer than
\* LOCK_STALE_MS or one that got it between a waiter's stat and rm: no other
\* interleaving, crash, error or loss of power brings two writers together.
SerializedUntilRobbed == ~ robbed => WritersSerialize

\* Until then a write whose commit returned committed: true is in the ledger,
\* whatever other writers, crashes and losses of power do afterwards.
AckedWritesKept == ~ robbed => acked \subseteq ContentOf(ledger).writes

\* The contract ledger.ts needs of a store (LedgerStore.commit): until then,
\* when the compared version is acted on, the file still holds exactly the
\* content the writer computed its next state from, so that the rename is a
\* compare and swap.
ComparedStillCurrent ==
    ~ robbed =>
        \A w \in Writers :
            phase[w] \in {"open"} \cup Using => ContentOf(ledger) = loaded[w]

\* The ledger is never a torn or unsynced file, even where locks are stolen
\* from live writers and commits overwrite each other, until one writer opens
\* the temporary file that another of its process is using: the name
\* `${path}.tmp-${process.pid}` keeps processes apart, not their transactions.
IntactUntilShared == ~ shared => LedgerIntact

=============================================================================
